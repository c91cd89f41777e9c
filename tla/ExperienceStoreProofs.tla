------------------------ MODULE ExperienceStoreProofs ------------------------
(***************************************************************************)
(* The store of experiences, for every number of pipelines, rows, episodes *)
(* and candidates: no update is lost, an episode stores a lesson once, and *)
(* what contradicts each other is known to or on its way to be resolved.   *)
(***************************************************************************)
EXTENDS ExperienceStore, FiniteSetTheorems, TLAPS

-----------------------------------------------------------------------------
(* The inductive invariant. *)

Statuses == {"ACTIVE", "CANDIDATE", "DEPRECATED"}

Exp == [says: Statement, episode: Episode, status: Statuses, version: Nat, confidence: Level,
        utility: Int, support: {e \in SUBSET Episode : IsFiniteSet(e)},
        supersedes: Row \cup {None}]

Resolving == {"left", "right", "decide", "relate"}
Facing == {"right", "decide", "relate"}
Places == {"idle", "search", "read", "write", "create"} \cup Resolving

StoreType ==
  /\ rows \in 0..MaxRows
  /\ row \in [Row -> Exp \cup {None}] /\ \A r \in Rows : row[r] \in Exp
  /\ rated \in [Row -> Int] /\ ratings \in Nat /\ operations \in Nat

PipeType ==
  /\ at \in [Pipeline -> Places] /\ of \in [Pipeline -> Episode \cup {None}]
  /\ cursor \in [Pipeline -> Nat]
  /\ target \in [Pipeline -> Row \cup {None}] /\ copy \in [Pipeline -> Exp \cup {None}]
  /\ created \in [Pipeline -> Row \cup {None}] /\ peer \in [Pipeline -> Row \cup {None}]
  /\ peers \in [Pipeline -> SUBSET Row] /\ known \in [Pipeline -> SUBSET Row]
  /\ left \in [Pipeline -> Int] /\ right \in [Pipeline -> Int]

TypeOK == StoreType /\ PipeType

Conflict(s, t) == Judge[<<s, t>>] = "CONFLICT"
Opposed(a, b) == Conflict(row[a].says, row[b].says)

\* What a pipeline has in hand, by the place it is at.
HandsOf(p) ==
  /\ at[p] # "idle" => of[p] \in Episode /\ cursor[p] \in 1..Len(Candidates[of[p]])
  /\ at[p] = "create" => StatusFromConfidence(Candidate(p).quality) # None
  /\ at[p] \in {"read", "write"} => target[p] \in Rows
  /\ at[p] \in Resolving => created[p] \in Rows
  /\ at[p] \notin Resolving => created[p] = None
  /\ at[p] \in Facing => peer[p] \in Rows
  /\ at[p] \notin Facing => peer[p] = None
  /\ peers[p] \subseteq Rows
  /\ at[p] \notin Resolving \cup {"create"} => peers[p] = {}
  /\ at[p] = "create" => known[p] \subseteq Rows

\* The copy a reinforcement works on is a former state of its row, whose version changes
\* with all that an update would lose.
CopyOf(p) ==
  at[p] = "write" =>
    LET c == copy[p]
        r == row[target[p]]
    IN  /\ c \in Exp /\ c.version <= r.version
        /\ c.says = r.says /\ c.episode = r.episode
        /\ c.version = r.version =>
             /\ c.utility = r.utility /\ c.confidence = r.confidence /\ c.support = r.support
             /\ c.status = "DEPRECATED" => r.status = "DEPRECATED"

\* The rows a pipeline has before it contradict what it stores, and before it stores it,
\* they are all that do, but for those it does not know of.
PeersOf(p) ==
  /\ at[p] = "create" =>
       /\ \A r \in peers[p] : Conflict(Candidate(p).says, row[r].says)
       /\ \A r \in known[p] :
            Conflict(Candidate(p).says, row[r].says) /\ Retrievable(r)
              => r \in peers[p] \cup relapsed
  /\ at[p] \in Resolving => \A r \in peers[p] : Opposed(created[p], r)
  /\ at[p] \in Facing => Opposed(created[p], peer[p])

\* The loser of a resolution stays out, unless it comes back.
LoserOf(p) == at[p] = "relate" /\ Retrievable(Loser(p)) => Loser(p) \in relapsed

Pipe(p) == HandsOf(p) /\ CopyOf(p) /\ PeersOf(p) /\ LoserOf(p)

\* What the histories say of rows.
Histories ==
  /\ \A c \in claimed : c[1] \in Rows
  /\ \A r \in Row : r \notin Rows => rated[r] = 0

\* Authorities are as they were read, and deprecated rows have lost a conflict.
ReadsOf(p) ==
  /\ at[p] \in {"right", "decide"} => left[p] = Authority(created[p])
  /\ at[p] = "decide" => right[p] = Authority(peer[p])

Settled ==
  Undisturbed =>
    /\ \A p \in Pipeline : ReadsOf(p)
    /\ \A r \in Rows : row[r].status = "DEPRECATED" => \E t \in Rows : Opposed(r, t)

SInv ==
  /\ TypeOK /\ (\A p \in Pipeline : Pipe(p)) /\ Histories
  /\ UpdatesKept /\ OneRowPerLesson /\ OppositesKnown
  /\ Settled /\ LosersAnswered

USE DEF storeVars, pipeVars, boundVars, historyVars

-----------------------------------------------------------------------------
(* Types. *)

LEMMA CandidateType ==
  ASSUME NEW p \in Pipeline, HandsOf(p), at[p] # "idle"
  PROVE  /\ of[p] \in Episode /\ Candidate(p).says \in Statement
         /\ Candidate(p).quality \in Level
<1>1. of[p] \in Episode /\ cursor[p] \in 1..Len(Candidates[of[p]])
  BY DEF HandsOf
<1>2. DEFINE S == [says : Statement, quality : Level]
             c == Candidates[of[p]]
<1>3. c \in Seq(S)
  BY <1>1, StoreAssumption
<1>4. SUFFICES c[cursor[p]] \in S
  BY <1>1 DEF Candidate
<1> HIDE DEF S, c
<1>5. cursor[p] \in 1..Len(c)
  BY <1>1 DEF c
<1> QED
  BY <1>3, <1>5

\* A row as an insert writes it.
Fresh(p) ==
  [says |-> Candidate(p).says, episode |-> of[p],
   status |-> StatusFromConfidence(Candidate(p).quality),
   version |-> 1, confidence |-> Candidate(p).quality,
   utility |-> 1, support |-> {of[p]}, supersedes |-> None]

LEMMA FreshType ==
  ASSUME NEW p \in Pipeline, HandsOf(p), at[p] = "create"
  PROVE  Fresh(p) \in Exp /\ Fresh(p).status \in {"ACTIVE", "CANDIDATE"}
<1>1. StatusFromConfidence(Candidate(p).quality) \in {"ACTIVE", "CANDIDATE"}
  BY DEF HandsOf, StatusFromConfidence
<1>2. {of[p]} \in SUBSET Episode /\ IsFiniteSet({of[p]})
  BY CandidateType, FS_Singleton
<1> QED
  BY <1>1, <1>2, CandidateType DEF Fresh, Exp, Statuses

LEMMA ReinforcedType ==
  ASSUME TypeOK, NEW p \in Pipeline, HandsOf(p), CopyOf(p), at[p] = "write"
  PROVE  /\ Reinforced(p) \in Exp /\ Reinforced(p).utility = copy[p].utility
         /\ Reinforced(p).says = copy[p].says /\ Reinforced(p).episode = copy[p].episode
         /\ Reinforced(p).version = copy[p].version /\ Reinforced(p).status = copy[p].status
         /\ Reinforced(p).support = copy[p].support \cup {of[p]}
         /\ Reinforced(p).confidence >= copy[p].confidence
<1>1. copy[p] \in Exp
  BY DEF CopyOf
<1>2. of[p] \in Episode /\ Candidate(p).quality \in Level
  BY CandidateType
<1>3. copy[p].support \cup {of[p]} \in {e \in SUBSET Episode : IsFiniteSet(e)}
  BY <1>1, <1>2, FS_AddElement DEF Exp
<1>4. DEFINE l == Larger(copy[p].confidence, Candidate(p).quality)
             c == IF l < MaxLevel THEN l + 1 ELSE MaxLevel
<1>5. c \in Level /\ c >= copy[p].confidence
  BY <1>1, <1>2, StoreAssumption DEF Level, Larger, Exp
<1>6. Reinforced(p) = [copy[p] EXCEPT !.support = @ \cup {of[p]}, !.confidence = c]
  BY DEF Reinforced
<1> HIDE DEF c
<1> QED
  BY <1>1, <1>3, <1>5, <1>6 DEF Exp

\* The end of a candidate.
LEMMA Next1 ==
  ASSUME TypeOK, NEW p \in Pipeline, HandsOf(p), NextCandidate(p), at[p] # "idle"
  PROVE  /\ at' \in [Pipeline -> Places] /\ of' \in [Pipeline -> Episode \cup {None}]
         /\ cursor' \in [Pipeline -> Nat]
         /\ at'[p] \in {"search", "idle"}
         /\ at'[p] # "idle" => of'[p] = of[p] /\ cursor'[p] \in 1..Len(Candidates[of[p]])
<1>1. of[p] \in Episode /\ cursor[p] \in 1..Len(Candidates[of[p]])
  BY DEF HandsOf
<1>2. Len(Candidates[of[p]]) \in Nat
  BY <1>1, StoreAssumption
<1>3. CASE cursor[p] < Len(Candidates[of[p]])
  <2>1. /\ at' = [at EXCEPT ![p] = "search"] /\ cursor' = [cursor EXCEPT ![p] = @ + 1]
        /\ of' = of
    BY <1>3 DEF NextCandidate
  <2> QED
    BY <1>1, <1>2, <1>3, <2>1 DEF TypeOK, StoreType, PipeType, Places
<1>4. CASE ~(cursor[p] < Len(Candidates[of[p]]))
  <2>1. /\ at' = [at EXCEPT ![p] = "idle"] /\ cursor' = [cursor EXCEPT ![p] = 0]
        /\ of' = [of EXCEPT ![p] = None]
    BY <1>4 DEF NextCandidate
  <2> QED
    BY <2>1 DEF TypeOK, StoreType, PipeType, Places
<1> QED
  BY <1>3, <1>4

LEMMA Forgotten ==
  ASSUME TypeOK, NEW p \in Pipeline, Forget(p)
  PROVE  /\ target' \in [Pipeline -> Row \cup {None}] /\ copy' \in [Pipeline -> Exp \cup {None}]
         /\ created' \in [Pipeline -> Row \cup {None}] /\ peer' \in [Pipeline -> Row \cup {None}]
         /\ peers' \in [Pipeline -> SUBSET Row] /\ known' \in [Pipeline -> SUBSET Row]
         /\ left' \in [Pipeline -> Int] /\ right' \in [Pipeline -> Int]
         /\ created'[p] = None /\ peer'[p] = None /\ peers'[p] = {}
BY DEF Forget, TypeOK, PipeType

LEMMA AuthorityType ==
  ASSUME StoreType, NEW r \in Rows
  PROVE  Authority(r) \in Int
<1>1. row[r] \in Exp
  BY DEF StoreType
<1>2. Cardinality(row[r].support) \in Nat
  BY <1>1, FS_CardinalityType DEF Exp
<1> QED
  BY <1>1, <1>2 DEF Authority, Exp, Level

LEMMA RowsAreRows ==
  ASSUME StoreType
  PROVE  Rows \subseteq Row /\ rows \in Nat /\ Rows \in SUBSET Row
BY StoreAssumption DEF StoreType, Rows, Row

-----------------------------------------------------------------------------
(* What every step keeps of the rows, and of the pipelines that do not take it. *)

KeptRow(r) ==
  /\ row'[r].says = row[r].says /\ row'[r].episode = row[r].episode
  /\ row[r].version <= row'[r].version
  /\ row'[r].version = row[r].version =>
       /\ row'[r].utility = row[r].utility /\ row'[r].confidence = row[r].confidence
       /\ row'[r].support = row[r].support
       /\ row[r].status = "DEPRECATED" => row'[r].status = "DEPRECATED"
  /\ row[r].support \subseteq row'[r].support
  /\ row'[r].status \in {"ACTIVE", "CANDIDATE"} => Retrievable(r) \/ r \in relapsed'

Kept ==
  /\ rows <= rows' /\ \A r \in Rows : KeptRow(r)
  /\ relations \subseteq relations' /\ relapsed \subseteq relapsed'
  /\ unseen \subseteq unseen' /\ dropped \subseteq dropped'
  /\ claimed \subseteq claimed'

SamePipe(q) ==
  /\ at'[q] = at[q] /\ of'[q] = of[q] /\ cursor'[q] = cursor[q] /\ target'[q] = target[q]
  /\ copy'[q] = copy[q] /\ created'[q] = created[q] /\ peers'[q] = peers[q]
  /\ peer'[q] = peer[q] /\ known'[q] = known[q] /\ left'[q] = left[q] /\ right'[q] = right[q]

LEMMA Grow ==
  ASSUME StoreType, StoreType', Kept
  PROVE  Rows \subseteq Rows' /\ Rows \subseteq Row /\ Rows' \subseteq Row
BY StoreAssumption DEF StoreType, Kept, Rows, Row

LEMMA SamePipeKept ==
  ASSUME TypeOK, StoreType', Kept, NEW q \in Pipeline, Pipe(q), SamePipe(q)
  PROVE  Pipe(q)'
<1>0. Rows \subseteq Rows'
  BY Grow DEF TypeOK
<1>1. HandsOf(q)'
  BY <1>0 DEF Pipe, HandsOf, SamePipe, Candidate
<1>2. CopyOf(q)'
  <2> SUFFICES ASSUME at[q] = "write"
               PROVE  CopyOf(q)'
    BY DEF CopyOf, SamePipe
  <2>1. target[q] \in Rows
    BY DEF Pipe, HandsOf
  <2>2. row[target[q]] \in Exp /\ row'[target[q]] \in Exp /\ copy[q] \in Exp
    BY <1>0, <2>1 DEF TypeOK, StoreType, Pipe, CopyOf
  <2>3. KeptRow(target[q])
    BY <2>1 DEF Kept
  <2> QED
    BY <2>2, <2>3 DEF Pipe, CopyOf, SamePipe, KeptRow, Exp
<1>3. PeersOf(q)'
  <2>1. \A r \in Rows : KeptRow(r)
    BY DEF Kept
  <2>2. \A r \in Rows : row'[r].says = row[r].says
    BY <2>1 DEF KeptRow
  <2>3. ASSUME at[q] = "create"
        PROVE  /\ \A r \in peers[q] : Conflict(Candidate(q)'.says, row'[r].says)
               /\ \A r \in known[q] : Conflict(Candidate(q)'.says, row'[r].says) /\ Retrievable(r)'
                    => r \in peers[q] \cup relapsed'
    <3>1. Candidate(q)' = Candidate(q) /\ peers[q] \subseteq Rows /\ known[q] \subseteq Rows
      BY <2>3 DEF Candidate, SamePipe, Pipe, HandsOf
    <3> QED
      BY <2>1, <2>2, <2>3, <3>1 DEF Pipe, PeersOf, KeptRow, Retrievable, Kept
  <2>4. ASSUME at[q] \in Resolving
        PROVE  /\ \A r \in peers[q] : Conflict(row'[created[q]].says, row'[r].says)
               /\ at[q] \in Facing => Conflict(row'[created[q]].says, row'[peer[q]].says)
    <3>1. created[q] \in Rows /\ peers[q] \subseteq Rows /\ (at[q] \in Facing => peer[q] \in Rows)
      BY <2>4 DEF Pipe, HandsOf
    <3> QED
      BY <2>2, <2>4, <3>1 DEF Pipe, PeersOf, Opposed
  <2>5. Facing \subseteq Resolving
    BY DEF Facing, Resolving
  <2> QED
    BY <2>3, <2>4, <2>5 DEF PeersOf, SamePipe, Opposed, Conflict
<1>4. LoserOf(q)'
  <2> SUFFICES ASSUME at[q] = "relate", Retrievable(Loser(q))'
               PROVE  Loser(q)' \in relapsed'
    BY DEF LoserOf, SamePipe
  <2>1. Loser(q)' = Loser(q) /\ Loser(q) \in Rows
    BY DEF Loser, PeerOutranks, SamePipe, Pipe, HandsOf, Facing, Resolving
  <2>2. KeptRow(Loser(q))
    BY <2>1 DEF Kept
  <2>3. row'[Loser(q)].status \in {"ACTIVE", "CANDIDATE"}
    BY <2>1 DEF Retrievable
  <2> QED
    BY <2>1, <2>2, <2>3 DEF KeptRow, Kept, Pipe, LoserOf, Retrievable
<1> QED
  BY <1>1, <1>2, <1>3, <1>4 DEF Pipe

-----------------------------------------------------------------------------
(* The writes of the store. *)

LEMMA QuietStore ==
  ASSUME StoreType, UNCHANGED <<rows, row, rated, ratings, operations>>,
         relations \subseteq relations', unseen \subseteq unseen', dropped \subseteq dropped',
         claimed \subseteq claimed', relapsed \subseteq relapsed'
  PROVE  StoreType' /\ Kept
<1>1. StoreType'
  BY DEF StoreType, Rows
<1>2. \A r \in Rows : row[r] \in Exp
  BY DEF StoreType
<1>3. \A r \in Rows : row[r].version <= row[r].version
  BY <1>2 DEF Exp
<1>4. \A r \in Rows : KeptRow(r)
  BY <1>3 DEF KeptRow, Retrievable
<1>5. rows <= rows'
  BY RowsAreRows
<1> QED
  BY <1>1, <1>4, <1>5 DEF Kept

LEMMA Supersedes ==
  ASSUME StoreType, NEW old \in Rows, NEW new \in Rows, Supersede(old, new),
         UNCHANGED <<rows, rated>>, ratings' \in Nat, operations' \in Nat
  PROVE  /\ StoreType'
         /\ \A r \in Rows : /\ row'[r].says = row[r].says /\ row'[r].episode = row[r].episode
                            /\ row'[r].version = row[r].version
                            /\ row'[r].confidence = row[r].confidence
                            /\ row'[r].utility = row[r].utility
                            /\ row'[r].support = row[r].support
                            /\ r # old => row'[r].status = row[r].status
         /\ row'[old].status = "DEPRECATED"
<1>0. old \in Row /\ new \in Row /\ Rows \subseteq Row
  BY RowsAreRows
<1>1. DEFINE mid == [row EXCEPT ![old].status = "DEPRECATED"]
<1>2. row' = [mid EXCEPT ![new].supersedes = old]
  BY DEF Supersede
<1>3. row[old] \in Exp /\ \A r \in Rows : row[r] \in Exp
  BY DEF StoreType
<1>4. /\ mid[old] \in Exp /\ mid[old] = [row[old] EXCEPT !.status = "DEPRECATED"]
      /\ \A r \in Row : r # old => mid[r] = row[r]
      /\ mid \in [Row -> Exp \cup {None}]
  <2>1. [row[old] EXCEPT !.status = "DEPRECATED"] \in Exp
    BY <1>3 DEF Exp, Statuses
  <2>2. row \in [Row -> Exp \cup {None}]
    BY DEF StoreType
  <2> QED
    BY <1>0, <2>1, <2>2
<1>5. \A r \in Rows : mid[r] \in Exp
  BY <1>0, <1>3, <1>4
<1>6. \A r \in Rows : /\ mid[r].says = row[r].says /\ mid[r].episode = row[r].episode
                      /\ mid[r].version = row[r].version
                      /\ mid[r].confidence = row[r].confidence
                      /\ mid[r].utility = row[r].utility
                      /\ mid[r].support = row[r].support
                      /\ r # old => mid[r].status = row[r].status
  BY <1>0, <1>3, <1>4 DEF Exp
<1>7. mid[old].status = "DEPRECATED"
  BY <1>3, <1>4 DEF Exp
<1> HIDE DEF mid
<1>8. /\ row'[new] \in Exp /\ row'[new] = [mid[new] EXCEPT !.supersedes = old]
      /\ \A r \in Row : r # new => row'[r] = mid[r]
      /\ row' \in [Row -> Exp \cup {None}]
  <2>1. [mid[new] EXCEPT !.supersedes = old] \in Exp
    BY <1>0, <1>5 DEF Exp
  <2> QED
    BY <1>0, <1>2, <1>4, <2>1
<1>9. \A r \in Rows : row'[r] \in Exp
  BY <1>0, <1>5, <1>8
<1>10. \A r \in Rows : /\ row'[r].says = mid[r].says /\ row'[r].episode = mid[r].episode
                       /\ row'[r].version = mid[r].version
                       /\ row'[r].confidence = mid[r].confidence
                       /\ row'[r].utility = mid[r].utility
                       /\ row'[r].support = mid[r].support
                       /\ row'[r].status = mid[r].status
  BY <1>0, <1>5, <1>8 DEF Exp
<1>11. StoreType'
  BY <1>8, <1>9 DEF StoreType, Rows
<1> QED
  BY <1>6, <1>7, <1>10, <1>11

LEMMA SupersedesKept ==
  ASSUME StoreType, NEW old \in Rows, NEW new \in Rows, Supersede(old, new),
         UNCHANGED <<rows, rated, relations, historyVars>>, ratings' \in Nat,
         operations' \in Nat
  PROVE  Kept
<1>1. \A r \in Rows : row[r].version \in Nat
  BY DEF StoreType, Exp
<1>2. \A r \in Rows : row[r].version <= row[r].version
  BY <1>1
<1>3. ASSUME NEW r \in Rows
      PROVE  KeptRow(r)
  <2>1. /\ row'[r].says = row[r].says /\ row'[r].episode = row[r].episode
        /\ row'[r].version = row[r].version /\ row'[r].confidence = row[r].confidence
        /\ row'[r].utility = row[r].utility /\ row'[r].support = row[r].support
        /\ r # old => row'[r].status = row[r].status
        /\ r = old => row'[r].status = "DEPRECATED"
    BY Supersedes
  <2> QED
    BY <1>2, <2>1 DEF KeptRow, Retrievable
<1>4. rows <= rows'
  BY RowsAreRows
<1> QED
  BY <1>3, <1>4 DEF Kept

LEMMA Inserted ==
  ASSUME StoreType, NEW p \in Pipeline, HandsOf(p), at[p] = "create", rows < MaxRows,
         rows' = rows + 1, row' = [row EXCEPT ![rows + 1] = Fresh(p)],
         UNCHANGED <<rated, ratings, operations, relations, dropped, claimed, relapsed>>,
         unseen \subseteq unseen'
  PROVE  /\ StoreType' /\ Kept
         /\ Rows' = Rows \cup {rows + 1} /\ rows + 1 \notin Rows /\ rows + 1 \in Row
         /\ row'[rows + 1] = Fresh(p) /\ \A r \in Rows : row'[r] = row[r]
<1>1. /\ Rows' = Rows \cup {rows + 1} /\ rows + 1 \notin Rows /\ rows + 1 \in Row
      /\ rows' \in 0..MaxRows /\ rows <= rows' /\ Rows \subseteq Row
  BY StoreAssumption DEF StoreType, Rows, Row
<1>2. Fresh(p) \in Exp
  BY FreshType
<1>3. /\ row' \in [Row -> Exp \cup {None}] /\ row'[rows + 1] = Fresh(p)
      /\ \A r \in Rows : row'[r] = row[r]
  BY <1>1, <1>2 DEF StoreType
<1>4. StoreType'
  BY <1>1, <1>2, <1>3 DEF StoreType
<1>5. \A r \in Rows : row[r].version <= row[r].version
  <2>1. \A r \in Rows : row[r].version \in Nat
    BY DEF StoreType, Exp
  <2> QED
    BY <2>1
<1>6. \A r \in Rows : KeptRow(r)
  BY <1>3, <1>5 DEF KeptRow, Retrievable
<1> QED
  BY <1>1, <1>3, <1>4, <1>6 DEF Kept


LEMMA Written ==
  ASSUME TypeOK, NEW p \in Pipeline, HandsOf(p), CopyOf(p), WriteExperience(p)
  PROVE  LET r == target[p] IN
         /\ StoreType' /\ Kept /\ Rows' = Rows
         /\ r \in Rows /\ \A x \in Rows : x # r => row'[x] = row[x]
         /\ row'[r].says = row[r].says /\ row'[r].utility = row[r].utility
         /\ row'[r].confidence >= row[r].confidence
         /\ row'[r].support = row[r].support \cup {of[p]}
         /\ row'[r].status = "DEPRECATED" => row[r].status = "DEPRECATED"
<1>0. at[p] = "write" /\ target[p] \in Rows /\ Rows \subseteq Row /\ target[p] \in Row
  BY RowsAreRows DEF WriteExperience, HandsOf, TypeOK
<1>1. DEFINE r == target[p]
             v == Reinforced(p)
             w == [v EXCEPT !.version = @ + 1]
<1>2. row[r].version = copy[p].version /\ row' = [row EXCEPT ![r] = w] /\ rows' = rows
  <2>1. Update(r, v) /\ rows' = rows
    BY DEF WriteExperience
  <2>2. v.version = copy[p].version
    BY <1>0, ReinforcedType
  <2> HIDE DEF v
  <2> QED
    BY <2>1, <2>2, Zenon DEF Update
<1>3. /\ copy[p] \in Exp /\ copy[p].says = row[r].says /\ copy[p].episode = row[r].episode
      /\ copy[p].utility = row[r].utility /\ copy[p].confidence = row[r].confidence
      /\ copy[p].support = row[r].support
      /\ copy[p].status = "DEPRECATED" => row[r].status = "DEPRECATED"
  BY <1>0, <1>2 DEF CopyOf
<1>4. /\ v \in Exp /\ v.utility = copy[p].utility
      /\ v.says = copy[p].says /\ v.episode = copy[p].episode
      /\ v.version = copy[p].version /\ v.status = copy[p].status
      /\ v.support = copy[p].support \cup {of[p]} /\ v.confidence >= copy[p].confidence
  BY <1>0, ReinforcedType
<1>5. row[r] \in Exp /\ \A x \in Rows : row[x] \in Exp
  BY <1>0 DEF TypeOK, StoreType
<1> HIDE DEF v
<1>6. /\ w \in Exp /\ w.utility = v.utility /\ w.says = v.says /\ w.episode = v.episode
      /\ w.version = v.version + 1 /\ w.status = v.status /\ w.support = v.support
      /\ w.confidence = v.confidence
  BY <1>4 DEF Exp
<1> HIDE DEF w
<1>7. row'[r] = w /\ \A x \in Row : x # r => row'[x] = row[x]
  BY <1>0, <1>2 DEF TypeOK, StoreType
<1>8. StoreType'
  <2>1. row' \in [Row -> Exp \cup {None}]
    BY <1>0, <1>2, <1>6 DEF TypeOK, StoreType
  <2>2. \A x \in Rows' : row'[x] \in Exp
    BY <1>0, <1>2, <1>5, <1>6, <1>7 DEF Rows
  <2>3. UNCHANGED <<rated, ratings, operations>>
    BY DEF WriteExperience
  <2> QED
    BY <1>2, <2>1, <2>2, <2>3 DEF TypeOK, StoreType
<1>9. Rows' = Rows
  BY <1>2 DEF Rows
<1>10. row[r].version + 1 > row[r].version /\ row[r].version \in Nat
  BY <1>5 DEF Exp
<1>11. relapsed \subseteq relapsed' /\ claimed \subseteq claimed'
  BY DEF WriteExperience
<1>12. KeptRow(r)
  <2>1. /\ row'[r].says = row[r].says /\ row'[r].episode = row[r].episode
        /\ row'[r].version = row[r].version + 1 /\ row[r].support \subseteq row'[r].support
    BY <1>2, <1>3, <1>4, <1>6, <1>7
  <2>2. row'[r].status = copy[p].status
    BY <1>4, <1>6, <1>7
  <2>3. ASSUME row'[r].status \in {"ACTIVE", "CANDIDATE"}
        PROVE  Retrievable(r) \/ r \in relapsed'
    <3>1. row[r].status \in Statuses
      BY <1>5 DEF Exp
    <3>2. CASE row[r].status = "DEPRECATED"
      BY <2>2, <2>3, <3>2 DEF WriteExperience
    <3> QED
      BY <3>1, <3>2 DEF Statuses, Retrievable
  <2> QED
    BY <1>10, <2>1, <2>3 DEF KeptRow
<1>13. \A x \in Rows : row[x].version <= row[x].version
  <2>1. \A x \in Rows : row[x].version \in Nat
    BY <1>5 DEF Exp
  <2> QED
    BY <2>1
<1>14. \A x \in Rows : KeptRow(x)
  <2> SUFFICES ASSUME NEW x \in Rows, x # r
               PROVE  KeptRow(x)
    BY <1>12
  <2>1. row'[x] = row[x]
    BY <1>0, <1>7
  <2> QED
    BY <1>13, <2>1 DEF KeptRow, Retrievable
<1>15. UNCHANGED <<relations, unseen, dropped>> /\ rows <= rows'
  BY <1>2, RowsAreRows DEF WriteExperience, TypeOK
<1>16. Kept
  BY <1>11, <1>14, <1>15 DEF Kept
<1> QED
  BY <1>0, <1>3, <1>4, <1>6, <1>7, <1>8, <1>9, <1>16

LEMMA Rewarded ==
  ASSUME StoreType, NEW r \in Row, NEW up \in BOOLEAN, ApplyReward(r, up)
  PROVE  /\ StoreType' /\ Kept /\ Rows' = Rows /\ r \in Rows /\ ratings' # 0
         /\ \A x \in Rows : x # r => row'[x] = row[x]
         /\ row'[r].utility - row[r].utility = rated'[r] - rated[r]
         /\ \A x \in Rows : x # r => rated'[x] = rated[x]
<1>0. r \in Rows /\ Rows \subseteq Row
  BY RowsAreRows DEF ApplyReward
<1>1. DEFINE d == IF up THEN 1 ELSE -1
             v == [row[r] EXCEPT !.utility = row[r].utility + d]
             w == [v EXCEPT !.version = v.version + 1]
<1>2. \A x \in Rows : row[x] \in Exp
  BY DEF StoreType
<1>3. row[r] \in Exp
  BY <1>0, <1>2
<1>4. /\ v \in Exp /\ v.utility = row[r].utility + d /\ v.says = row[r].says
      /\ v.episode = row[r].episode /\ v.version = row[r].version
      /\ v.status = row[r].status /\ v.support = row[r].support
  BY <1>3 DEF Exp
<1>5. row' = [row EXCEPT ![r] = w]
  <2>1. row \in [Row -> Exp \cup {None}]
    BY DEF StoreType
  <2>2. CASE up
    <3>1. row' = [row EXCEPT ![r].utility = @ + 1, ![r].version = @ + 1]
      BY <2>2 DEF ApplyReward
    <3>2. v = [row[r] EXCEPT !.utility = @ + 1]
      BY <2>2
    <3> QED
      BY <1>3, <2>1, <3>1, <3>2 DEF Exp
  <2>3. CASE ~up
    <3>1. row' = [row EXCEPT ![r].utility = @ - 1, ![r].version = @ + 1]
      BY <2>3 DEF ApplyReward
    <3>2. v = [row[r] EXCEPT !.utility = @ - 1]
      BY <1>3, <2>3 DEF Exp
    <3> QED
      BY <1>3, <2>1, <3>1, <3>2 DEF Exp
  <2> QED
    BY <2>2, <2>3
<1> HIDE DEF v
<1>6. /\ w \in Exp /\ w.utility = v.utility /\ w.says = v.says /\ w.episode = v.episode
      /\ w.version = v.version + 1 /\ w.status = v.status /\ w.support = v.support
  BY <1>4 DEF Exp
<1> HIDE DEF w
<1>7. row'[r] = w /\ \A x \in Row : x # r => row'[x] = row[x]
  BY <1>5 DEF StoreType
<1>8. rated' \in [Row -> Int] /\ rated'[r] = rated[r] + d /\ rated[r] \in Int
      /\ \A x \in Row : x # r => rated'[x] = rated[x]
  <2>1. rated' = [rated EXCEPT ![r] = rated[r] + d]
    BY DEF ApplyReward, StoreType
  <2> QED
    BY <2>1 DEF StoreType
<1>9. rows' = rows /\ ratings' \in Nat /\ ratings' # 0 /\ operations' = operations
  BY DEF ApplyReward, StoreType
<1>10. Rows' = Rows /\ rows <= rows'
  BY <1>9, RowsAreRows DEF Rows
<1>11. StoreType'
  <2>1. row' \in [Row -> Exp \cup {None}]
    BY <1>5, <1>6 DEF StoreType
  <2>2. \A x \in Rows' : row'[x] \in Exp
    BY <1>0, <1>2, <1>6, <1>7, <1>10
  <2> QED
    BY <1>8, <1>9, <2>1, <2>2 DEF StoreType
<1>12. KeptRow(r)
  <2>1. row[r].version \in Nat /\ row[r].status \in Statuses
    BY <1>3 DEF Exp
  <2> QED
    BY <1>4, <1>6, <1>7, <2>1 DEF KeptRow, Retrievable
<1>13. ASSUME NEW x \in Rows, x # r
       PROVE  KeptRow(x)
  <2>1. row'[x] = row[x] /\ row[x].version \in Nat
    BY <1>0, <1>2, <1>7, <1>13 DEF Exp
  <2>2. row[x].version <= row[x].version
    BY <2>1
  <2> QED
    BY <2>1, <2>2 DEF KeptRow, Retrievable
<1>14. UNCHANGED <<relations, claimed, known, unseen, dropped, relapsed>>
  BY DEF ApplyReward
<1>15. Kept
  BY <1>10, <1>12, <1>13, <1>14 DEF Kept
<1>16. row'[r].utility - row[r].utility = rated'[r] - rated[r]
  <2>1. row[r].utility \in Int /\ rated[r] \in Int /\ d \in Int
    BY <1>3, <1>8 DEF Exp
  <2>2. row'[r].utility = row[r].utility + d /\ rated'[r] = rated[r] + d
    BY <1>4, <1>6, <1>7, <1>8
  <2> HIDE DEF d
  <2> QED
    BY <2>1, <2>2
<1> QED
  BY <1>0, <1>7, <1>8, <1>9, <1>10, <1>11, <1>15, <1>16

-----------------------------------------------------------------------------
(* The pipeline that takes a step, and the others. *)

Alone(p) == \A q \in Pipeline : q # p => SamePipe(q)

LEMMA Advances ==
  ASSUME TypeOK, NEW p \in Pipeline, HandsOf(p), at[p] # "idle", NextCandidate(p), StoreType'
  PROVE  PipeType' /\ Alone(p) /\ Pipe(p)'
<1>1. Forget(p)
  BY DEF NextCandidate
<1>2. /\ at' \in [Pipeline -> Places] /\ of' \in [Pipeline -> Episode \cup {None}]
      /\ cursor' \in [Pipeline -> Nat]
      /\ at'[p] \in {"search", "idle"}
      /\ at'[p] # "idle" => of'[p] = of[p] /\ cursor'[p] \in 1..Len(Candidates[of[p]])
  BY Next1
<1>3. PipeType' /\ created'[p] = None /\ peer'[p] = None /\ peers'[p] = {}
  BY <1>1, <1>2, Forgotten DEF PipeType
<1>4. Alone(p)
  <2>1. \A q \in Pipeline : q # p =>
          /\ target'[q] = target[q] /\ copy'[q] = copy[q] /\ created'[q] = created[q]
          /\ peers'[q] = peers[q] /\ peer'[q] = peer[q] /\ known'[q] = known[q]
          /\ left'[q] = left[q] /\ right'[q] = right[q]
    BY <1>1 DEF Forget, TypeOK, PipeType
  <2>2. \A q \in Pipeline : q # p => at'[q] = at[q] /\ of'[q] = of[q] /\ cursor'[q] = cursor[q]
    BY DEF NextCandidate, TypeOK, PipeType
  <2> QED
    BY <2>1, <2>2 DEF Alone, SamePipe
<1>5. HandsOf(p)'
  <2>1. of[p] \in Episode
    BY DEF HandsOf
  <2> QED
    BY <1>2, <1>3, <2>1 DEF HandsOf, Resolving, Facing
<1>6. CopyOf(p)' /\ PeersOf(p)' /\ LoserOf(p)'
  BY <1>2 DEF CopyOf, PeersOf, LoserOf, Resolving, Facing
<1> QED
  BY <1>3, <1>4, <1>5, <1>6 DEF Pipe

LEMMA Ends ==
  ASSUME TypeOK, NEW p \in Pipeline, FailPipeline(p), StoreType'
  PROVE  PipeType' /\ Alone(p) /\ Pipe(p)'
<1>1. Forget(p)
  BY DEF FailPipeline
<1>2. /\ at' \in [Pipeline -> Places] /\ of' \in [Pipeline -> Episode \cup {None}]
      /\ cursor' \in [Pipeline -> Nat] /\ at'[p] = "idle"
  BY DEF FailPipeline, TypeOK, PipeType, Places
<1>3. PipeType' /\ created'[p] = None /\ peer'[p] = None /\ peers'[p] = {}
  BY <1>1, <1>2, Forgotten DEF PipeType
<1>4. Alone(p)
  <2>1. \A q \in Pipeline : q # p =>
          /\ target'[q] = target[q] /\ copy'[q] = copy[q] /\ created'[q] = created[q]
          /\ peers'[q] = peers[q] /\ peer'[q] = peer[q] /\ known'[q] = known[q]
          /\ left'[q] = left[q] /\ right'[q] = right[q]
    BY <1>1 DEF Forget, TypeOK, PipeType
  <2>2. \A q \in Pipeline : q # p => at'[q] = at[q] /\ of'[q] = of[q] /\ cursor'[q] = cursor[q]
    BY DEF FailPipeline, TypeOK, PipeType
  <2> QED
    BY <2>1, <2>2 DEF Alone, SamePipe
<1>5. HandsOf(p)' /\ CopyOf(p)' /\ PeersOf(p)' /\ LoserOf(p)'
  BY <1>2, <1>3 DEF HandsOf, CopyOf, PeersOf, LoserOf, Resolving, Facing
<1> QED
  BY <1>3, <1>4, <1>5 DEF Pipe

LEMMA Starts ==
  ASSUME TypeOK, NEW p \in Pipeline, Pipe(p), NEW e \in Episode, StoreCandidates(p, e),
         StoreType'
  PROVE  PipeType' /\ Alone(p) /\ Pipe(p)'
<1>1. at[p] = "idle" /\ Candidates[e] # <<>> /\ at' = [at EXCEPT ![p] = "search"]
      /\ of' = [of EXCEPT ![p] = e] /\ cursor' = [cursor EXCEPT ![p] = 1]
      /\ UNCHANGED <<target, copy, created, peers, peer, left, right, known, rows>>
  BY DEF StoreCandidates
<1>2. PipeType' /\ Alone(p) /\ at'[p] = "search" /\ of'[p] = e /\ cursor'[p] = 1
  BY <1>1 DEF TypeOK, PipeType, Alone, SamePipe, Places
<1>3. 1 \in 1..Len(Candidates[e])
  <2>1. DEFINE S == [says : Statement, quality : Level]
               c == Candidates[e]
  <2>2. c \in Seq(S) /\ c # <<>>
    BY <1>1, StoreAssumption
  <2> HIDE DEF S, c
  <2>3. 1 \in 1..Len(c)
    BY <2>2
  <2> QED
    BY <2>3 DEF c
<1>4. created[p] = None /\ peer[p] = None /\ peers[p] = {}
  BY <1>1 DEF Pipe, HandsOf, Resolving, Facing
<1>5. HandsOf(p)'
  BY <1>1, <1>2, <1>3, <1>4 DEF HandsOf, Resolving, Facing
<1>6. CopyOf(p)' /\ PeersOf(p)' /\ LoserOf(p)'
  BY <1>2 DEF CopyOf, PeersOf, LoserOf, Resolving, Facing
<1> QED
  BY <1>2, <1>5, <1>6 DEF Pipe

LEMMA Searches ==
  ASSUME TypeOK, NEW p \in Pipeline, Pipe(p), TrySemanticMerge(p), StoreType'
  PROVE  PipeType' /\ Alone(p) /\ Pipe(p)'
<1>1. /\ at[p] = "search" /\ StatusFromConfidence(Candidate(p).quality) # None
      /\ known' = [known EXCEPT ![p] = Rows]
      /\ UNCHANGED <<rows, row, of, cursor, copy, created, peer, left, right, relapsed>>
  BY DEF TrySemanticMerge
<1>2. created[p] = None /\ peer[p] = None /\ peers[p] = {} /\ of[p] \in Episode
      /\ cursor[p] \in 1..Len(Candidates[of[p]])
  BY <1>1 DEF Pipe, HandsOf, Resolving, Facing
<1>3. Candidate(p)' = Candidate(p) /\ Rows' = Rows /\ Rows \subseteq Row
      /\ known'[p] = Rows /\ known' \in [Pipeline -> SUBSET Row]
      /\ \A q \in Pipeline : q # p => known'[q] = known[q]
  BY <1>1, RowsAreRows DEF Candidate, Rows, TypeOK, PipeType
<1>4. DEFINE N == {r \in Rows : Retrievable(r)}
             A == {r \in N : Judge[<<Candidate(p).says, row[r].says>>] = "CONFLICT"}
<1>5. CASE \E r \in N : /\ target' = [target EXCEPT ![p] = r]
                        /\ at' = [at EXCEPT ![p] = "read"] /\ UNCHANGED peers
  <2>1. PICK r \in Rows : /\ target' = [target EXCEPT ![p] = r]
                          /\ at' = [at EXCEPT ![p] = "read"] /\ UNCHANGED peers
    BY <1>5
  <2>2. PipeType' /\ Alone(p) /\ at'[p] = "read" /\ target'[p] \in Rows
    BY <1>1, <1>3, <2>1 DEF TypeOK, PipeType, Alone, SamePipe, Places
  <2>3. HandsOf(p)'
    BY <1>1, <1>2, <1>3, <2>1, <2>2 DEF HandsOf, Resolving, Facing
  <2>4. CopyOf(p)' /\ PeersOf(p)' /\ LoserOf(p)'
    BY <2>2 DEF CopyOf, PeersOf, LoserOf, Resolving, Facing
  <2> QED
    BY <2>2, <2>3, <2>4 DEF Pipe
<1>6. CASE /\ peers' = [peers EXCEPT ![p] = A]
           /\ at' = [at EXCEPT ![p] = "create"] /\ UNCHANGED target
  <2>0. A \in SUBSET Row /\ A \subseteq Rows
    BY <1>3
  <2>1. PipeType' /\ Alone(p) /\ at'[p] = "create" /\ peers'[p] = A
    <3> HIDE DEF A
    <3> QED
      BY <1>1, <1>3, <1>6, <2>0 DEF TypeOK, PipeType, Alone, SamePipe, Places
  <2>2. HandsOf(p)'
    <3> HIDE DEF A
    <3> QED
      BY <1>1, <1>2, <1>3, <2>0, <2>1 DEF HandsOf, Resolving, Facing
  <2>3. \A r \in Rows : Retrievable(r)' = Retrievable(r)
    BY <1>1 DEF Retrievable
  <2>4. PeersOf(p)'
    BY <1>1, <1>3, <2>1, <2>3 DEF PeersOf, Conflict, Resolving, Facing
  <2>5. CopyOf(p)' /\ LoserOf(p)'
    BY <2>1 DEF CopyOf, LoserOf
  <2> QED
    BY <2>1, <2>2, <2>4, <2>5 DEF Pipe
<1>7. \/ \E r \in N : /\ target' = [target EXCEPT ![p] = r]
                      /\ at' = [at EXCEPT ![p] = "read"] /\ UNCHANGED peers
      \/ /\ peers' = [peers EXCEPT ![p] = A]
         /\ at' = [at EXCEPT ![p] = "create"] /\ UNCHANGED target
  BY DEF TrySemanticMerge
<1> QED
  BY <1>5, <1>6, <1>7


LEMMA Reads ==
  ASSUME TypeOK, NEW p \in Pipeline, Pipe(p), ReadExperience(p), StoreType'
  PROVE  PipeType' /\ Alone(p) /\ Pipe(p)'
<1>1. /\ at[p] = "read" /\ at' = [at EXCEPT ![p] = "write"]
      /\ copy' = [copy EXCEPT ![p] = row[target[p]]]
      /\ UNCHANGED <<rows, row, of, cursor, target, created, peers, peer, left, right, known>>
  BY DEF ReadExperience
<1>2. target[p] \in Rows /\ Rows' = Rows /\ row[target[p]] \in Exp
  BY <1>1 DEF Pipe, HandsOf, Rows, TypeOK, StoreType
<1>3. PipeType' /\ Alone(p) /\ at'[p] = "write" /\ copy'[p] = row[target[p]]
  BY <1>1, <1>2 DEF TypeOK, PipeType, Alone, SamePipe, Places
<1>4. HandsOf(p)'
  BY <1>1, <1>2, <1>3 DEF Pipe, HandsOf, Resolving, Facing
<1>5. row[target[p]].version <= row[target[p]].version
  <2>1. row[target[p]].version \in Nat
    BY <1>2 DEF Exp
  <2> QED
    BY <2>1
<1>6. CopyOf(p)'
  BY <1>1, <1>2, <1>3, <1>5 DEF CopyOf
<1>7. PeersOf(p)' /\ LoserOf(p)'
  BY <1>3 DEF PeersOf, LoserOf, Resolving, Facing
<1> QED
  BY <1>3, <1>4, <1>6, <1>7 DEF Pipe

LEMMA Rereads ==
  ASSUME TypeOK, NEW p \in Pipeline, Pipe(p), RereadExperience(p), StoreType'
  PROVE  PipeType' /\ Alone(p) /\ Pipe(p)'
<1>1. /\ at[p] = "write" /\ at' = [at EXCEPT ![p] = "read"]
      /\ copy' = [copy EXCEPT ![p] = None]
      /\ UNCHANGED <<rows, row, of, cursor, target, created, peers, peer, left, right, known>>
  BY DEF RereadExperience
<1>2. PipeType' /\ Alone(p) /\ at'[p] = "read" /\ Rows' = Rows
  BY <1>1 DEF TypeOK, PipeType, Alone, SamePipe, Places, Rows
<1>3. HandsOf(p)'
  BY <1>1, <1>2 DEF Pipe, HandsOf, Resolving, Facing
<1>4. CopyOf(p)' /\ PeersOf(p)' /\ LoserOf(p)'
  BY <1>2 DEF CopyOf, PeersOf, LoserOf, Resolving, Facing
<1> QED
  BY <1>2, <1>3, <1>4 DEF Pipe

\* A new row is inserted, or the episode's own is returned.
Insertion(p) ==
  /\ rows < MaxRows /\ rows' = rows + 1 /\ row' = [row EXCEPT ![rows + 1] = Fresh(p)]
  /\ created' = [created EXCEPT ![p] = rows + 1]
  /\ unseen' = unseen \cup {{rows + 1, r} : r \in Rows \ known[p]}
  /\ GetByEpisodeDedup(of[p], Candidate(p).says) = {}

Return(p) ==
  /\ \E r \in GetByEpisodeDedup(of[p], Candidate(p).says) :
       created' = [created EXCEPT ![p] = r]
  /\ UNCHANGED <<rows, row, unseen>>

LEMMA CreateCases ==
  ASSUME NEW p \in Pipeline, CreateExperience(p)
  PROVE  Insertion(p) \/ Return(p)
BY DEF CreateExperience, Insert, Insertion, Return, Fresh

LEMMA CreatedRow ==
  ASSUME TypeOK, NEW p \in Pipeline, Pipe(p), CreateExperience(p)
  PROVE  /\ StoreType' /\ Kept
         /\ created'[p] \in Rows' /\ row'[created'[p]].says = Candidate(p).says
         /\ created' = [created EXCEPT ![p] = created'[p]]
<1>1. /\ at[p] = "create" /\ p \in DOMAIN created
      /\ UNCHANGED <<rated, ratings, operations, relations, dropped, claimed, relapsed>>
  BY DEF CreateExperience, TypeOK, PipeType
<1>2. CASE Insertion(p)
  <2>1. /\ StoreType' /\ Kept /\ Rows' = Rows \cup {rows + 1} /\ row'[rows + 1] = Fresh(p)
    BY <1>1, <1>2, Inserted DEF Insertion, Pipe, TypeOK
  <2>2. created'[p] = rows + 1 /\ created' = [created EXCEPT ![p] = created'[p]]
    BY <1>1, <1>2 DEF Insertion
  <2>3. Fresh(p).says = Candidate(p).says
    BY DEF Fresh
  <2> QED
    BY <2>1, <2>2, <2>3
<1>3. CASE Return(p)
  <2>1. StoreType' /\ Kept
    BY <1>1, <1>3, QuietStore DEF Return, TypeOK
  <2>2. PICK r \in GetByEpisodeDedup(of[p], Candidate(p).says) :
          created' = [created EXCEPT ![p] = r]
    BY <1>3 DEF Return
  <2>3. created'[p] = r /\ r \in Rows /\ row[r].says = Candidate(p).says
    BY <1>1, <2>2 DEF GetByEpisodeDedup
  <2> QED
    BY <1>3, <2>1, <2>2, <2>3 DEF Return, Rows
<1> QED
  BY <1>2, <1>3, CreateCases

LEMMA Creates ==
  ASSUME TypeOK, NEW p \in Pipeline, Pipe(p), CreateExperience(p)
  PROVE  PipeType' /\ Alone(p) /\ Pipe(p)'
<1>1. /\ at[p] = "create" /\ at' = [at EXCEPT ![p] = "left"]
      /\ UNCHANGED <<of, cursor, target, copy, peers, peer, left, right, known>>
  BY DEF CreateExperience
<1>2. /\ StoreType' /\ Kept
      /\ created'[p] \in Rows' /\ row'[created'[p]].says = Candidate(p).says
      /\ created' = [created EXCEPT ![p] = created'[p]]
  BY CreatedRow
<1>3. Rows \subseteq Rows' /\ Rows' \subseteq Row
  BY <1>2, Grow DEF TypeOK
<1>4. PipeType' /\ Alone(p) /\ at'[p] = "left"
  <2>1. DEFINE c == created'[p]
  <2>2. c \in Row /\ created' = [created EXCEPT ![p] = c]
    BY <1>2, <1>3
  <2> HIDE DEF c
  <2>3. created' \in [Pipeline -> Row \cup {None}]
        /\ \A q \in Pipeline : q # p => created'[q] = created[q]
    BY <2>2 DEF TypeOK, PipeType
  <2> QED
    BY <1>1, <2>3 DEF TypeOK, PipeType, Alone, SamePipe, Places, Resolving
<1>5. HandsOf(p)'
  <2>1. /\ of[p] \in Episode /\ cursor[p] \in 1..Len(Candidates[of[p]])
        /\ peers[p] \subseteq Rows /\ peer[p] = None
    BY <1>1 DEF Pipe, HandsOf, Facing
  <2> QED
    BY <1>1, <1>2, <1>3, <1>4, <2>1 DEF HandsOf, Resolving, Facing
<1>6. PeersOf(p)'
  <2>1. \A r \in peers[p] : Conflict(Candidate(p).says, row[r].says) /\ r \in Rows
    BY <1>1 DEF Pipe, PeersOf, HandsOf
  <2>2. \A r \in Rows : row'[r].says = row[r].says
    BY <1>2 DEF Kept, KeptRow
  <2> QED
    BY <1>1, <1>2, <1>4, <2>1, <2>2 DEF PeersOf, Opposed, Conflict, Resolving, Facing
<1>7. CopyOf(p)' /\ LoserOf(p)'
  BY <1>4 DEF CopyOf, LoserOf
<1> QED
  BY <1>4, <1>5, <1>6, <1>7 DEF Pipe

LEMMA ReadsLeft ==
  ASSUME TypeOK, NEW p \in Pipeline, Pipe(p), ReadLeft(p), StoreType'
  PROVE  PipeType' /\ Alone(p) /\ Pipe(p)' /\ created' = created /\ left'[p] = Authority(created[p])
         /\ peers[p] \cup {peer[p]} \subseteq peers'[p] \cup {peer'[p], None}
<1>1. /\ at[p] = "left" /\ at' = [at EXCEPT ![p] = "right"]
      /\ left' = [left EXCEPT ![p] = Authority(created[p])]
      /\ UNCHANGED <<rows, row, of, cursor, target, copy, created, right, known>>
  BY DEF ReadLeft
<1>2. PICK r \in peers[p] : /\ peer' = [peer EXCEPT ![p] = r]
                            /\ peers' = [peers EXCEPT ![p] = @ \ {r}]
  BY DEF ReadLeft
<1>3. /\ created[p] \in Rows /\ peers[p] \subseteq Rows /\ peer[p] = None /\ r \in Rows
      /\ Rows' = Rows /\ Rows \subseteq Row
      /\ of[p] \in Episode /\ cursor[p] \in 1..Len(Candidates[of[p]])
  BY <1>1, RowsAreRows DEF Pipe, HandsOf, Resolving, Facing, Rows, TypeOK
<1>4. Authority(created[p]) \in Int
  BY <1>3, AuthorityType DEF TypeOK
<1>5. peers[p] \ {r} \in SUBSET Row /\ peers' = [peers EXCEPT ![p] = peers[p] \ {r}]
  BY <1>2, <1>3
<1>6. PipeType' /\ Alone(p) /\ at'[p] = "right" /\ peer'[p] = r /\ peers'[p] = peers[p] \ {r}
      /\ left'[p] = Authority(created[p])
  BY <1>1, <1>2, <1>3, <1>4, <1>5 DEF TypeOK, PipeType, Alone, SamePipe, Places, Resolving
<1>7. HandsOf(p)'
  BY <1>1, <1>3, <1>6 DEF HandsOf, Resolving, Facing
<1>8. PeersOf(p)'
  <2>1. \A x \in peers[p] : Opposed(created[p], x)
    BY <1>1 DEF Pipe, PeersOf, Resolving
  <2> QED
    BY <1>1, <1>2, <1>6, <2>1 DEF PeersOf, Opposed
<1>9. CopyOf(p)' /\ LoserOf(p)'
  BY <1>6 DEF CopyOf, LoserOf
<1> QED
  BY <1>1, <1>3, <1>6, <1>7, <1>8, <1>9 DEF Pipe

LEMMA ReadsRight ==
  ASSUME TypeOK, NEW p \in Pipeline, Pipe(p), ReadRight(p), StoreType'
  PROVE  PipeType' /\ Alone(p) /\ Pipe(p)' /\ right'[p] = Authority(peer[p])
<1>1. /\ at[p] = "right" /\ at' = [at EXCEPT ![p] = "decide"]
      /\ right' = [right EXCEPT ![p] = Authority(peer[p])]
      /\ UNCHANGED <<rows, row, of, cursor, target, copy, created, peers, peer, left, known>>
  BY DEF ReadRight
<1>2. peer[p] \in Rows /\ Rows' = Rows
  BY <1>1 DEF Pipe, HandsOf, Facing, Rows
<1>3. Authority(peer[p]) \in Int
  BY <1>2, AuthorityType DEF TypeOK
<1>4. PipeType' /\ Alone(p) /\ at'[p] = "decide" /\ right'[p] = Authority(peer[p])
  BY <1>1, <1>3 DEF TypeOK, PipeType, Alone, SamePipe, Places, Resolving
<1>5. HandsOf(p)'
  BY <1>1, <1>2, <1>4 DEF Pipe, HandsOf, Resolving, Facing
<1>6. PeersOf(p)'
  BY <1>1, <1>4 DEF Pipe, PeersOf, Opposed, Resolving, Facing
<1>7. CopyOf(p)' /\ LoserOf(p)'
  BY <1>4 DEF CopyOf, LoserOf
<1> QED
  BY <1>4, <1>5, <1>6, <1>7 DEF Pipe

\* On to the next of the peers.
LEMMA Nexts ==
  ASSUME TypeOK, NEW p \in Pipeline, Pipe(p), at[p] \in Facing, NextPeer(p),
         UNCHANGED <<rows, row>>
  PROVE  PipeType' /\ Alone(p) /\ Pipe(p)' /\ created' = created /\ peers' = peers
<1>1. /\ at' = [at EXCEPT ![p] = "left"] /\ peer' = [peer EXCEPT ![p] = None]
      /\ left' = [left EXCEPT ![p] = 0] /\ right' = [right EXCEPT ![p] = 0]
      /\ UNCHANGED <<of, cursor, target, copy, created, peers, known>>
  BY DEF NextPeer
<1>2. PipeType' /\ Alone(p) /\ at'[p] = "left" /\ peer'[p] = None
  BY <1>1 DEF TypeOK, PipeType, Alone, SamePipe, Places, Resolving
<1>3. /\ of[p] \in Episode /\ cursor[p] \in 1..Len(Candidates[of[p]]) /\ created[p] \in Rows
      /\ peers[p] \subseteq Rows /\ Rows' = Rows
  BY DEF Pipe, HandsOf, Facing, Resolving, Rows
<1>4. HandsOf(p)'
  BY <1>1, <1>2, <1>3 DEF HandsOf, Resolving, Facing
<1>5. PeersOf(p)'
  BY <1>1, <1>2 DEF Pipe, PeersOf, Opposed, Resolving, Facing
<1>6. CopyOf(p)' /\ LoserOf(p)'
  BY <1>2 DEF CopyOf, LoserOf
<1> QED
  BY <1>1, <1>2, <1>4, <1>5, <1>6 DEF Pipe

LEMMA Decides ==
  ASSUME TypeOK, NEW p \in Pipeline, Pipe(p), SupersedeLoser(p)
  PROVE  /\ StoreType' /\ Kept /\ PipeType' /\ Alone(p) /\ Pipe(p)'
         /\ Winner(p) \in Rows /\ Loser(p) \in Rows
<1>1. /\ at[p] = "decide" /\ at' = [at EXCEPT ![p] = "relate"] /\ ratings' = ratings
      /\ Supersede(Loser(p), Winner(p)) /\ operations' = operations
      /\ UNCHANGED <<rows, relations, of, cursor, target, copy, created, peers, peer, left, right,
                     historyVars>>
  BY DEF SupersedeLoser
<1>2. /\ of[p] \in Episode /\ cursor[p] \in 1..Len(Candidates[of[p]]) /\ created[p] \in Rows
      /\ peers[p] \subseteq Rows /\ Rows' = Rows /\ peer[p] \in Rows
  BY <1>1 DEF Pipe, HandsOf, Facing, Resolving, Rows
<1>3. Winner(p) \in Rows /\ Loser(p) \in Rows
  BY <1>2 DEF Winner, Loser
<1>4. /\ StoreType' /\ Kept /\ row'[Loser(p)].status = "DEPRECATED"
      /\ \A r \in Rows : row'[r].says = row[r].says
  <2>1. UNCHANGED <<rows, rated>> /\ ratings' \in Nat /\ operations' \in Nat
    BY <1>1 DEF TypeOK, StoreType
  <2> QED
    BY <1>1, <1>3, <2>1, Supersedes, SupersedesKept DEF TypeOK
<1>5. PipeType' /\ Alone(p) /\ at'[p] = "relate"
  BY <1>1 DEF TypeOK, PipeType, Alone, SamePipe, Places, Resolving
<1>6. HandsOf(p)'
  BY <1>1, <1>2, <1>5 DEF HandsOf, Resolving, Facing
<1>7. PeersOf(p)'
  <2>1. (\A r \in peers[p] : Opposed(created[p], r)) /\ Opposed(created[p], peer[p])
    BY <1>1 DEF Pipe, PeersOf, Resolving, Facing
  <2> QED
    BY <1>1, <1>2, <1>4, <1>5, <2>1 DEF PeersOf, Opposed
<1>8. LoserOf(p)'
  <2>1. Loser(p)' = Loser(p)
    BY <1>1 DEF Loser, PeerOutranks
  <2> QED
    BY <1>4, <2>1 DEF LoserOf, Retrievable
<1>9. CopyOf(p)'
  BY <1>5 DEF CopyOf
<1> QED
  BY <1>3, <1>4, <1>5, <1>6, <1>7, <1>8, <1>9 DEF Pipe


LEMMA PipelineSteps ==
  ASSUME TypeOK, NEW p \in Pipeline, Pipe(p), PipelineStep(p) \/ PipelineFails(p)
  PROVE  TypeOK' /\ Kept /\ Alone(p) /\ Pipe(p)'
<1>0. StoreType /\ HandsOf(p) /\ CopyOf(p)
  BY DEF TypeOK, Pipe
<1>1. CASE \E e \in Episode : StoreCandidates(p, e)
  <2>1. UNCHANGED <<rows, row, rated, ratings, operations, relations, unseen, dropped, claimed,
                    relapsed>>
    BY <1>1 DEF StoreCandidates
  <2>2. StoreType' /\ Kept
    BY <1>0, <2>1, QuietStore
  <2> QED
    BY <1>1, <2>2, Starts DEF TypeOK
<1>2. CASE SkipCandidate(p)
  <2>1. /\ at[p] # "idle" /\ NextCandidate(p)
        /\ UNCHANGED <<rows, row, rated, ratings, operations, relations, unseen, dropped, claimed,
                       relapsed>>
    BY <1>2 DEF SkipCandidate
  <2>2. StoreType' /\ Kept
    BY <1>0, <2>1, QuietStore
  <2> QED
    BY <1>0, <2>1, <2>2, Advances DEF TypeOK
<1>3. CASE TrySemanticMerge(p)
  <2>1. UNCHANGED <<rows, row, rated, ratings, operations, relations, unseen, dropped, claimed,
                    relapsed>>
    BY <1>3 DEF TrySemanticMerge
  <2>2. StoreType' /\ Kept
    BY <1>0, <2>1, QuietStore
  <2> QED
    BY <1>3, <2>2, Searches DEF TypeOK
<1>4. CASE ReadExperience(p)
  <2>1. UNCHANGED <<rows, row, rated, ratings, operations, relations, unseen, dropped, claimed,
                    relapsed>>
    BY <1>4 DEF ReadExperience
  <2>2. StoreType' /\ Kept
    BY <1>0, <2>1, QuietStore
  <2> QED
    BY <1>4, <2>2, Reads DEF TypeOK
<1>5. CASE WriteExperience(p)
  <2>1. StoreType' /\ Kept
    BY <1>0, <1>5, Written
  <2>2. at[p] # "idle" /\ NextCandidate(p)
    BY <1>5 DEF WriteExperience
  <2> QED
    BY <1>0, <2>1, <2>2, Advances DEF TypeOK
<1>6. CASE RereadExperience(p)
  <2>1. UNCHANGED <<rows, row, rated, ratings, operations, relations, unseen, dropped, claimed,
                    relapsed>>
    BY <1>6 DEF RereadExperience
  <2>2. StoreType' /\ Kept
    BY <1>0, <2>1, QuietStore
  <2> QED
    BY <1>6, <2>2, Rereads DEF TypeOK
<1>7. CASE GiveUpReinforcing(p) \/ PipelineFails(p)
  <2>1. /\ FailPipeline(p) /\ dropped \subseteq dropped'
        /\ UNCHANGED <<rows, row, rated, ratings, operations, relations, unseen, claimed,
                       relapsed>>
    BY <1>7 DEF GiveUpReinforcing, PipelineFails, FailPipeline
  <2>2. StoreType' /\ Kept
    BY <1>0, <2>1, QuietStore
  <2> QED
    BY <2>1, <2>2, Ends DEF TypeOK
<1>8. CASE CreateExperience(p)
  BY <1>8, CreatedRow, Creates DEF TypeOK
<1>9. CASE ReadLeft(p)
  <2>1. UNCHANGED <<rows, row, rated, ratings, operations, relations, unseen, dropped, claimed,
                    relapsed>>
    BY <1>9 DEF ReadLeft
  <2>2. StoreType' /\ Kept
    BY <1>0, <2>1, QuietStore
  <2> QED
    BY <1>9, <2>2, ReadsLeft DEF TypeOK
<1>10. CASE ReadRight(p)
  <2>1. UNCHANGED <<rows, row, rated, ratings, operations, relations, unseen, dropped, claimed,
                    relapsed>>
    BY <1>10 DEF ReadRight
  <2>2. StoreType' /\ Kept
    BY <1>0, <2>1, QuietStore
  <2> QED
    BY <1>10, <2>2, ReadsRight DEF TypeOK
<1>11. CASE AllResolved(p)
  <2>1. /\ at[p] # "idle" /\ NextCandidate(p)
        /\ UNCHANGED <<rows, row, rated, ratings, operations, relations, unseen, dropped, claimed,
                       relapsed>>
    BY <1>11 DEF AllResolved
  <2>2. StoreType' /\ Kept
    BY <1>0, <2>1, QuietStore
  <2> QED
    BY <1>0, <2>1, <2>2, Advances DEF TypeOK
<1>12. CASE RecordConflict(p) \/ RecordSupersedes(p)
  <2>1. /\ at[p] \in Facing /\ NextPeer(p) /\ relations \subseteq relations'
        /\ UNCHANGED <<rows, row, rated, ratings, operations, unseen, dropped, claimed, relapsed>>
    BY <1>12 DEF RecordConflict, RecordSupersedes, Relate, Facing
  <2>2. StoreType' /\ Kept
    BY <1>0, <2>1, QuietStore
  <2> QED
    BY <2>1, <2>2, Nexts DEF TypeOK
<1>13. CASE SupersedeLoser(p)
  BY <1>13, Decides DEF TypeOK
<1> QED
  BY <1>1, <1>2, <1>3, <1>4, <1>5, <1>6, <1>7, <1>8, <1>9, <1>10, <1>11, <1>12, <1>13
  DEF PipelineStep

\* The steps of others: feedback, the operator, and none.
Outside ==
  \/ \E r \in Row, up \in BOOLEAN : ApplyReward(r, up)
  \/ \E old, new \in Row : SupersedeByHand(old, new)
  \/ UNCHANGED vars

LEMMA NextCases ==
  ASSUME [Next]_vars
  PROVE  (\E p \in Pipeline : PipelineStep(p) \/ PipelineFails(p)) \/ Outside
BY DEF Next, Outside

LEMMA OutsideSteps ==
  ASSUME TypeOK, Outside
  PROVE  TypeOK' /\ Kept /\ \A p \in Pipeline : SamePipe(p)
<1>1. UNCHANGED pipeVars /\ UNCHANGED known
  BY DEF Outside, ApplyReward, SupersedeByHand, vars
<1>2. PipeType' /\ \A p \in Pipeline : SamePipe(p)
  BY <1>1 DEF TypeOK, PipeType, SamePipe
<1>3. CASE \E r \in Row, up \in BOOLEAN : ApplyReward(r, up)
  BY <1>2, <1>3, Rewarded DEF TypeOK
<1>4. CASE \E old, new \in Row : SupersedeByHand(old, new)
  <2>1. PICK old, new \in Row : SupersedeByHand(old, new)
    BY <1>4
  <2>2. old \in Rows /\ new \in Rows /\ Supersede(old, new) /\ ratings' \in Nat
        /\ operations' \in Nat /\ UNCHANGED <<rows, rated, relations, historyVars>>
    BY <2>1 DEF SupersedeByHand, TypeOK, StoreType
  <2> QED
    BY <1>2, <2>2, Supersedes, SupersedesKept DEF TypeOK
<1>5. CASE UNCHANGED vars
  BY <1>2, <1>5, QuietStore DEF vars, TypeOK
<1> QED
  BY <1>3, <1>4, <1>5 DEF Outside

\* The types and what the pipelines have in hand are kept by every step.
LEMMA Step ==
  ASSUME TypeOK, \A p \in Pipeline : Pipe(p), [Next]_vars
  PROVE  TypeOK' /\ Kept /\ \A p \in Pipeline : Pipe(p)'
<1>1. ASSUME NEW p \in Pipeline, PipelineStep(p) \/ PipelineFails(p)
      PROVE  TypeOK' /\ Kept /\ \A q \in Pipeline : Pipe(q)'
  <2>1. TypeOK' /\ Kept /\ Alone(p) /\ Pipe(p)'
    BY <1>1, PipelineSteps
  <2> QED
    BY <2>1, SamePipeKept DEF Alone, TypeOK
<1>2. CASE Outside
  BY <1>2, OutsideSteps, SamePipeKept DEF TypeOK
<1> QED
  BY <1>1, <1>2, NextCases


-----------------------------------------------------------------------------
(* No update is lost. *)

Steady == UNCHANGED <<rows, row, rated, claimed>>

Superseding(old, new) ==
  /\ old \in Rows /\ new \in Rows /\ Supersede(old, new)
  /\ UNCHANGED <<rows, rated, claimed>>

\* The steps that write experiences.
LEMMA RowCases ==
  ASSUME TypeOK, \A p \in Pipeline : Pipe(p), [Next]_vars
  PROVE  \/ Steady
         \/ \E p \in Pipeline : WriteExperience(p)
         \/ \E p \in Pipeline : CreateExperience(p)
         \/ \E p \in Pipeline : SupersedeLoser(p)
         \/ \E r \in Row, up \in BOOLEAN : ApplyReward(r, up)
         \/ \E old, new \in Row : SupersedeByHand(old, new)
<1>1. ASSUME NEW p \in Pipeline, PipelineStep(p) \/ PipelineFails(p)
      PROVE  Steady \/ WriteExperience(p) \/ CreateExperience(p) \/ SupersedeLoser(p)
  BY <1>1 DEF PipelineStep, PipelineFails, Steady, StoreCandidates, SkipCandidate,
     TrySemanticMerge, ReadExperience, RereadExperience, GiveUpReinforcing, FailPipeline,
     ReadLeft, ReadRight, AllResolved, RecordConflict, RecordSupersedes
<1>2. CASE UNCHANGED vars
  BY <1>2 DEF vars, Steady
<1> QED
  BY <1>1, <1>2, NextCases DEF Outside

LEMMA LoserIsSuperseded ==
  ASSUME TypeOK, NEW p \in Pipeline, Pipe(p), SupersedeLoser(p)
  PROVE  Superseding(Loser(p), Winner(p)) /\ UNCHANGED <<ratings, operations, relapsed>>
BY Decides DEF SupersedeLoser, Superseding

LEMMA HandSupersedes ==
  ASSUME NEW old, NEW new, SupersedeByHand(old, new)
  PROVE  Superseding(old, new)
BY DEF SupersedeByHand, Superseding

LEMMA SupersedingSame ==
  ASSUME StoreType, NEW old, NEW new, Superseding(old, new), ratings' \in Nat,
         operations' \in Nat
  PROVE  /\ Rows' = Rows /\ UNCHANGED <<rated, claimed>>
         /\ \A r \in Rows : /\ row'[r].says = row[r].says /\ row'[r].episode = row[r].episode
                            /\ row'[r].confidence = row[r].confidence
                            /\ row'[r].utility = row[r].utility
                            /\ row'[r].support = row[r].support
                            /\ r # old => row'[r].status = row[r].status
BY Supersedes DEF Superseding, Rows

LEMMA HistoriesStep ==
  ASSUME TypeOK, \A p \in Pipeline : Pipe(p), Histories, [Next]_vars
  PROVE  Histories'
<1>0. StoreType /\ TypeOK' /\ StoreType' /\ Kept /\ Rows \subseteq Rows' /\ Rows' \subseteq Row
  BY Step, Grow DEF TypeOK
<1>00. ratings' \in Nat /\ operations' \in Nat
  BY <1>0 DEF StoreType
<1>1. CASE Steady
  BY <1>1 DEF Steady, Histories, Rows
<1>2. ASSUME NEW p \in Pipeline, WriteExperience(p)
      PROVE  Histories'
  <2>1. Rows' = Rows /\ target[p] \in Rows
    BY <1>2, Written DEF Pipe
  <2>2. rated' = rated /\ claimed' = claimed \cup {<<target[p], of[p]>>}
    BY <1>2 DEF WriteExperience
  <2> QED
    BY <2>1, <2>2 DEF Histories
<1>3. ASSUME NEW p \in Pipeline, CreateExperience(p)
      PROVE  Histories'
  BY <1>0, <1>3 DEF CreateExperience, Histories
<1>4. ASSUME NEW old, NEW new, Superseding(old, new)
      PROVE  Histories'
  BY <1>0, <1>00, <1>4, SupersedingSame DEF Histories
<1>5. ASSUME NEW r \in Row, NEW up \in BOOLEAN, ApplyReward(r, up)
      PROVE  Histories'
  <2>1. Rows' = Rows /\ r \in Rows
    BY <1>0, <1>5, Rewarded
  <2>2. claimed' = claimed /\ \A x \in Row : x # r => rated'[x] = rated[x]
    BY <1>5 DEF ApplyReward, TypeOK, StoreType
  <2> QED
    BY <2>1, <2>2 DEF Histories
<1> QED
  BY <1>1, <1>2, <1>3, <1>4, <1>5, RowCases, LoserIsSuperseded, HandSupersedes

LEMMA UpdatesStep ==
  ASSUME TypeOK, \A p \in Pipeline : Pipe(p), Histories, UpdatesKept, [Next]_vars
  PROVE  UpdatesKept'
<1>0. StoreType /\ TypeOK' /\ StoreType' /\ Kept /\ Rows \subseteq Rows' /\ Rows' \subseteq Row
  BY Step, Grow DEF TypeOK
<1>00. ratings' \in Nat /\ operations' \in Nat
  BY <1>0 DEF StoreType
<1>01. \A c \in claimed : c[2] \in row'[c[1]].support
  BY <1>0 DEF Histories, UpdatesKept, Kept, KeptRow
<1>02. \A r \in Rows : row[r].utility = 1 + rated[r]
  BY DEF UpdatesKept
<1>1. CASE Steady
  BY <1>1 DEF Steady, UpdatesKept, Rows
<1>2. ASSUME NEW p \in Pipeline, WriteExperience(p)
      PROVE  UpdatesKept'
  <2>1. /\ Rows' = Rows /\ target[p] \in Rows
        /\ \A x \in Rows : row'[x].utility = row[x].utility
        /\ of[p] \in row'[target[p]].support
    BY <1>2, Written DEF Pipe
  <2>2. rated' = rated /\ claimed' = claimed \cup {<<target[p], of[p]>>}
    BY <1>2 DEF WriteExperience
  <2> QED
    BY <1>01, <1>02, <2>1, <2>2 DEF UpdatesKept
<1>3. ASSUME NEW p \in Pipeline, CreateExperience(p)
      PROVE  UpdatesKept'
  <2>1. rated' = rated /\ claimed' = claimed
    BY <1>3 DEF CreateExperience
  <2>2. \A r \in Rows' : row'[r].utility = 1 + rated[r]
    <3>1. CASE Return(p)
      BY <1>02, <3>1 DEF Return, Rows
    <3>2. CASE Insertion(p)
      <4>1. at[p] = "create" /\ HandsOf(p) /\ unseen \subseteq unseen'
            /\ UNCHANGED <<rated, ratings, operations, relations, dropped, claimed, relapsed>>
        BY <1>3, <3>2 DEF CreateExperience, Insertion, Pipe
      <4>2. /\ Rows' = Rows \cup {rows + 1} /\ rows + 1 \notin Rows /\ rows + 1 \in Row
            /\ row'[rows + 1] = Fresh(p) /\ \A r \in Rows : row'[r] = row[r]
        BY <1>0, <3>2, <4>1, Inserted DEF Insertion
      <4>3. Fresh(p).utility = 1 /\ rated[rows + 1] = 0
        BY <4>2 DEF Fresh, Histories
      <4> QED
        BY <1>02, <4>2, <4>3
    <3> QED
      BY <1>3, <3>1, <3>2, CreateCases
  <2> QED
    BY <1>01, <2>1, <2>2 DEF UpdatesKept
<1>4. ASSUME NEW old, NEW new, Superseding(old, new)
      PROVE  UpdatesKept'
  BY <1>0, <1>00, <1>01, <1>02, <1>4, SupersedingSame DEF UpdatesKept
<1>5. ASSUME NEW r \in Row, NEW up \in BOOLEAN, ApplyReward(r, up)
      PROVE  UpdatesKept'
  <2>1. /\ Rows' = Rows /\ r \in Rows
        /\ \A x \in Rows : x # r => row'[x] = row[x] /\ rated'[x] = rated[x]
        /\ row'[r].utility - row[r].utility = rated'[r] - rated[r]
    BY <1>0, <1>5, Rewarded
  <2>2. row[r].utility \in Int /\ row'[r].utility \in Int /\ rated[r] \in Int /\ rated'[r] \in Int
    BY <1>0, <2>1 DEF StoreType, Exp
  <2>3. row'[r].utility = 1 + rated'[r]
    BY <1>02, <2>1, <2>2
  <2>4. claimed' = claimed
    BY <1>5 DEF ApplyReward
  <2> QED
    BY <1>01, <1>02, <2>1, <2>3, <2>4 DEF UpdatesKept
<1> QED
  BY <1>1, <1>2, <1>3, <1>4, <1>5, RowCases, LoserIsSuperseded, HandSupersedes

-----------------------------------------------------------------------------
(* An episode stores a lesson once. *)

LEMMA OneRowStep ==
  ASSUME TypeOK, \A p \in Pipeline : Pipe(p), OneRowPerLesson, [Next]_vars
  PROVE  OneRowPerLesson'
<1>0. StoreType /\ StoreType' /\ Kept
  BY Step DEF TypeOK
<1>1. \A r \in Rows : row'[r].says = row[r].says /\ row'[r].episode = row[r].episode
  BY <1>0 DEF Kept, KeptRow
<1>2. ASSUME NEW p \in Pipeline, CreateExperience(p), Insertion(p)
      PROVE  OneRowPerLesson'
  <2>1. at[p] = "create" /\ HandsOf(p) /\ unseen \subseteq unseen'
        /\ UNCHANGED <<rated, ratings, operations, relations, dropped, claimed, relapsed>>
    BY <1>2 DEF CreateExperience, Insertion, Pipe
  <2>2. Rows' = Rows \cup {rows + 1} /\ row'[rows + 1] = Fresh(p)
    BY <1>0, <1>2, <2>1, Inserted DEF Insertion
  <2>3. Fresh(p).says = Candidate(p).says /\ Fresh(p).episode = of[p]
    BY DEF Fresh
  <2>4. \A r \in Rows : row[r].episode # of[p] \/ row[r].says # Candidate(p).says
    BY <1>2 DEF Insertion, GetByEpisodeDedup
  <2>5. \A r \in Rows : \/ row'[r].episode # row'[rows + 1].episode
                        \/ row'[r].says # row'[rows + 1].says
    BY <1>1, <2>2, <2>3, <2>4
  <2>6. \A r, t \in Rows : r # t => row'[r].episode # row'[t].episode \/ row'[r].says # row'[t].says
    BY <1>1 DEF OneRowPerLesson
  <2> QED
    BY <2>2, <2>5, <2>6 DEF OneRowPerLesson
<1>3. ASSUME Rows' = Rows
      PROVE  OneRowPerLesson'
  BY <1>1, <1>3 DEF OneRowPerLesson
<1>4. rows' = rows => Rows' = Rows
  BY DEF Rows
<1>5. rows' = rows \/ \E p \in Pipeline : CreateExperience(p) /\ Insertion(p)
  BY RowCases, CreateCases, Zenon DEF Steady, WriteExperience, SupersedeLoser, ApplyReward,
     SupersedeByHand, Return
<1> QED
  BY <1>2, <1>3, <1>4, <1>5


-----------------------------------------------------------------------------
(* Opposites are known to each other. *)

Minds(p, a, b) ==
  \/ created[p] = a /\ b \in peers[p] \cup {peer[p]}
  \/ created[p] = b /\ a \in peers[p] \cup {peer[p]}

Recorded(a, b) ==
  \/ \E r \in relations : {r[1], r[2]} = {a, b} /\ r[3] = "CONFLICTS"
  \/ {a, b} \in unseen \cup dropped
  \/ a \in relapsed \/ b \in relapsed

LEMMA KnownForm ==
  OppositesKnown <=>
    \A a, b \in Rows : Opposed(a, b) /\ Retrievable(a) /\ Retrievable(b)
      => Recorded(a, b) \/ \E p \in Pipeline : Minds(p, a, b)
BY DEF OppositesKnown, Opposed, Conflict, Recorded, Minds

LEMMA RecordedStays ==
  ASSUME Kept, NEW a, NEW b, Recorded(a, b)
  PROVE  Recorded(a, b)'
BY DEF Kept, Recorded

\* A pipeline that no longer minds a pair has recorded its conflict, decided it, or dropped it.
LEMMA Handed ==
  ASSUME TypeOK, NEW p \in Pipeline, Pipe(p), PipelineStep(p) \/ PipelineFails(p),
         NEW a \in Rows, NEW b \in Rows, Minds(p, a, b), Retrievable(a)', Retrievable(b)'
  PROVE  Minds(p, a, b)' \/ Recorded(a, b)'
<1>0. a # None /\ b # None /\ StoreType
  BY RowsAreRows, StoreAssumption DEF TypeOK
<1>1. created[p] # None /\ at[p] \in Resolving
  BY <1>0 DEF Minds, Pipe, HandsOf
<1>2. at[p] \notin {"idle", "search", "read", "write", "create"}
  BY <1>1 DEF Resolving
<1>3. CASE PipelineFails(p)
  <2>1. dropped' = dropped \cup {{created[p], r} : r \in {x \in peers[p] \cup {peer[p]} :
                                                      created[p] # None /\ x # None}}
    BY <1>3 DEF PipelineFails, FailPipeline
  <2>2. {a, b} \in dropped'
    <3>1. CASE created[p] = a /\ b \in peers[p] \cup {peer[p]}
      BY <1>0, <2>1, <3>1
    <3>2. CASE created[p] = b /\ a \in peers[p] \cup {peer[p]}
      <4>1. {b, a} \in dropped'
        BY <1>0, <2>1, <3>2
      <4>2. {b, a} = {a, b}
        OBVIOUS
      <4> QED
        BY <4>1, <4>2
    <3> QED
      BY <3>1, <3>2 DEF Minds
  <2> QED
    BY <2>2 DEF Recorded
<1>4. CASE ReadLeft(p)
  <2>1. created' = created
    BY <1>4 DEF ReadLeft
  <2>2. PICK r \in peers[p] : /\ peer' = [peer EXCEPT ![p] = r]
                              /\ peers' = [peers EXCEPT ![p] = @ \ {r}]
    BY <1>4 DEF ReadLeft
  <2>3. peer'[p] = r /\ peers'[p] = peers[p] \ {r} /\ peer[p] = None
    BY <1>4, <2>2 DEF TypeOK, PipeType, ReadLeft, Pipe, HandsOf, Facing
  <2> QED
    BY <1>0, <2>1, <2>3 DEF Minds
<1>5. CASE ReadRight(p) \/ SupersedeLoser(p)
  BY <1>5 DEF ReadRight, SupersedeLoser, Minds
<1>6. CASE AllResolved(p)
  <2>1. peers[p] = {} /\ peer[p] = None
    BY <1>6 DEF AllResolved, Pipe, HandsOf, Facing
  <2> QED
    BY <1>0, <2>1 DEF Minds
<1>7. ASSUME NextPeer(p), {a, b} # {created[p], peer[p]}
      PROVE  Minds(p, a, b)'
  <2>1. created' = created /\ peers' = peers
    BY <1>7 DEF NextPeer
  <2>2. ~(created[p] = a /\ b = peer[p]) /\ ~(created[p] = b /\ a = peer[p])
    BY <1>7
  <2> QED
    BY <2>1, <2>2 DEF Minds
<1>8. CASE RecordConflict(p)
  <2>1. NextPeer(p) /\ <<created[p], peer[p], "CONFLICTS">> \in relations'
    BY <1>8 DEF RecordConflict, Relate
  <2>2. CASE {a, b} = {created[p], peer[p]}
    <3>1. DEFINE t == <<created[p], peer[p], "CONFLICTS">>
    <3>2. {t[1], t[2]} = {a, b} /\ t[3] = "CONFLICTS" /\ t \in relations'
      BY <2>1, <2>2
    <3> QED
      BY <3>2 DEF Recorded
  <2> QED
    BY <1>7, <2>1, <2>2
<1>9. CASE RecordSupersedes(p)
  <2>1. NextPeer(p) /\ at[p] = "relate" /\ row' = row /\ relapsed' = relapsed
    BY <1>9 DEF RecordSupersedes
  <2>2. CASE {a, b} = {created[p], peer[p]}
    <3>1. Loser(p) \in {a, b}
      BY <2>2 DEF Loser
    <3>2. Retrievable(Loser(p))
      BY <2>1, <3>1 DEF Retrievable
    <3>3. Loser(p) \in relapsed
      BY <2>1, <3>2 DEF Pipe, LoserOf
    <3> QED
      BY <2>1, <3>1, <3>3 DEF Recorded
  <2> QED
    BY <1>7, <2>1, <2>2
<1> QED
  BY <1>2, <1>3, <1>4, <1>5, <1>6, <1>8, <1>9 DEF PipelineStep, StoreCandidates,
     SkipCandidate, TrySemanticMerge, ReadExperience, WriteExperience, RereadExperience,
     GiveUpReinforcing, CreateExperience

\* Between rows there were before, a conflict stays known.
LEMMA KnownStays ==
  ASSUME TypeOK, \A p \in Pipeline : Pipe(p), OppositesKnown, [Next]_vars,
         NEW a \in Rows, NEW b \in Rows, Opposed(a, b)', Retrievable(a)', Retrievable(b)'
  PROVE  Recorded(a, b)' \/ \E p \in Pipeline : Minds(p, a, b)'
<1>1. Kept /\ KeptRow(a) /\ KeptRow(b)
  BY Step DEF Kept
<1>2. Opposed(a, b)
  BY <1>1 DEF Opposed, KeptRow
<1>3. (Retrievable(a) \/ a \in relapsed') /\ (Retrievable(b) \/ b \in relapsed')
  <2>1. row'[a].status \in {"ACTIVE", "CANDIDATE"} /\ row'[b].status \in {"ACTIVE", "CANDIDATE"}
    BY DEF Retrievable
  <2> QED
    BY <1>1, <2>1 DEF KeptRow
<1>4. CASE a \in relapsed' \/ b \in relapsed'
  BY <1>4 DEF Recorded
<1>5. CASE Recorded(a, b)
  BY <1>1, <1>5, RecordedStays
<1>6. ASSUME NEW q \in Pipeline, Minds(q, a, b)
      PROVE  Recorded(a, b)' \/ \E p \in Pipeline : Minds(p, a, b)'
  <2>1. CASE SamePipe(q)
    BY <1>6, <2>1 DEF SamePipe, Minds
  <2>2. CASE PipelineStep(q) \/ PipelineFails(q)
    BY <1>6, <2>2, Handed
  <2>3. SamePipe(q) \/ PipelineStep(q) \/ PipelineFails(q)
    BY NextCases, PipelineSteps, OutsideSteps DEF Alone
  <2> QED
    BY <2>1, <2>2, <2>3
<1> QED
  BY <1>2, <1>3, <1>4, <1>5, <1>6, KnownForm

\* A new row is against those before the pipeline, or those it did not know of.
LEMMA NewIsKnown ==
  ASSUME TypeOK, \A p \in Pipeline : Pipe(p), NEW p \in Pipeline, CreateExperience(p),
         Insertion(p), NEW n, n = rows + 1,
         NEW b \in Rows, Conflict(Candidate(p).says, row[b].says), Retrievable(b)
  PROVE  /\ Recorded(n, b)' \/ Minds(p, n, b)'
         /\ Recorded(b, n)' \/ Minds(p, b, n)'
<1>1. at[p] = "create" /\ UNCHANGED <<peers, peer, relapsed>>
  BY DEF CreateExperience
<1>2. created'[p] = n
  BY DEF Insertion, TypeOK, PipeType
<1>3. CASE b \in known[p]
  <2>1. b \in peers[p] \cup relapsed
    BY <1>1, <1>3 DEF Pipe, PeersOf
  <2> QED
    BY <1>1, <1>2, <2>1 DEF Minds, Recorded
<1>4. CASE b \notin known[p]
  <2>1. {n, b} \in unseen'
    BY <1>4 DEF Insertion
  <2>2. {n, b} = {b, n}
    OBVIOUS
  <2> QED
    BY <2>1, <2>2 DEF Recorded
<1> QED
  BY <1>3, <1>4

LEMMA OppositesStep ==
  ASSUME TypeOK, \A p \in Pipeline : Pipe(p), OppositesKnown, [Next]_vars
  PROVE  OppositesKnown'
<1>0. StoreType /\ StoreType' /\ Kept /\ TypeOK'
  BY Step DEF TypeOK
<1>1. SUFFICES ASSUME NEW a \in Rows', NEW b \in Rows', Opposed(a, b)', Retrievable(a)',
                      Retrievable(b)'
               PROVE  Recorded(a, b)' \/ \E p \in Pipeline : Minds(p, a, b)'
  BY DEF OppositesKnown, Opposed, Conflict, Recorded, Minds
<1>2. CASE a \in Rows /\ b \in Rows
  BY <1>1, <1>2, KnownStays
<1>3. ASSUME NEW p \in Pipeline, CreateExperience(p), Insertion(p), ~(a \in Rows /\ b \in Rows)
      PROVE  Recorded(a, b)' \/ Minds(p, a, b)'
  <2>1. at[p] = "create" /\ HandsOf(p) /\ unseen \subseteq unseen'
        /\ UNCHANGED <<rated, ratings, operations, relations, dropped, claimed, relapsed>>
    BY <1>3 DEF CreateExperience, Insertion, Pipe
  <2>2. /\ Rows' = Rows \cup {rows + 1} /\ row'[rows + 1] = Fresh(p)
        /\ \A r \in Rows : row'[r] = row[r]
    BY <1>0, <1>3, <2>1, Inserted DEF Insertion
  <2>3. Fresh(p).says = Candidate(p).says /\ Candidate(p).says \in Statement
    BY <2>1, CandidateType DEF Fresh
  <2>4. CASE a = rows + 1 /\ b = rows + 1
    <3>1. Judge[<<Candidate(p).says, Candidate(p).says>>] = "CONFLICT"
      BY <1>1, <2>2, <2>3, <2>4 DEF Opposed, Conflict
    <3>2. \A s \in Statement : Judge[<<s, s>>] = "SAME"
      BY StoreAssumption
    <3> QED
      BY <2>3, <3>1, <3>2
  <2>5. CASE a = rows + 1 /\ b \in Rows
    <3>1. Conflict(Candidate(p).says, row[b].says) /\ Retrievable(b)
      BY <1>1, <2>2, <2>3, <2>5 DEF Opposed, Conflict, Retrievable
    <3> QED
      BY <1>3, <2>5, <3>1, NewIsKnown
  <2>6. CASE b = rows + 1 /\ a \in Rows
    <3>1. Conflict(row[a].says, Candidate(p).says) /\ Retrievable(a)
      BY <1>1, <2>2, <2>3, <2>6 DEF Opposed, Conflict, Retrievable
    <3>2. row[a].says \in Statement
      BY <1>0, <2>6 DEF StoreType, Exp
    <3>3. Conflict(Candidate(p).says, row[a].says)
      <4>1. \A s, t \in Statement : Judge[<<s, t>>] = Judge[<<t, s>>]
        BY StoreAssumption
      <4> QED
        BY <2>3, <3>1, <3>2, <4>1 DEF Conflict
    <3> QED
      BY <1>3, <2>6, <3>1, <3>3, NewIsKnown
  <2> QED
    BY <1>1, <1>3, <2>2, <2>4, <2>5, <2>6
<1>4. rows' = rows => Rows' = Rows
  BY DEF Rows
<1>5. rows' = rows \/ \E p \in Pipeline : CreateExperience(p) /\ Insertion(p)
  BY RowCases, CreateCases, Zenon DEF Steady, WriteExperience, SupersedeLoser, ApplyReward,
     SupersedeByHand, Return
<1> QED
  BY <1>1, <1>2, <1>3, <1>4, <1>5


-----------------------------------------------------------------------------
(* Deprecated rows are answered. *)

LEMMA Symmetric ==
  ASSUME StoreType, NEW a \in Rows, NEW b \in Rows, Opposed(a, b)
  PROVE  Opposed(b, a)
<1>1. row[a].says \in Statement /\ row[b].says \in Statement
  BY DEF StoreType, Exp
<1>2. \A s, t \in Statement : Judge[<<s, t>>] = Judge[<<t, s>>]
  BY StoreAssumption
<1> QED
  BY <1>1, <1>2 DEF Opposed, Conflict

LEMMA CountsOnly ==
  ASSUME TypeOK, [Next]_vars, ratings' = 0, operations' = 0
  PROVE  /\ ratings = 0 /\ operations = 0
         /\ ~ \E r \in Row, up \in BOOLEAN : ApplyReward(r, up)
         /\ ~ \E old, new \in Row : SupersedeByHand(old, new)
<1>0. ratings \in Nat /\ operations \in Nat
  BY DEF TypeOK, StoreType
<1>01. ratings + 1 # 0 /\ operations + 1 # 0
  BY <1>0
<1>1. ~ \E r \in Row, up \in BOOLEAN : ApplyReward(r, up)
  <2>1. \A r \in Row, up \in BOOLEAN : ApplyReward(r, up) => ratings' = ratings + 1
    BY Zenon DEF ApplyReward
  <2> QED
    BY <1>01, <2>1
<1>2. ~ \E old, new \in Row : SupersedeByHand(old, new)
  <2>1. \A old, new \in Row : SupersedeByHand(old, new) => operations' = operations + 1
    BY Zenon DEF SupersedeByHand
  <2> QED
    BY <1>01, <2>1
<1>3. ASSUME NEW p \in Pipeline, PipelineStep(p) \/ PipelineFails(p)
      PROVE  ratings' = ratings /\ operations' = operations
  BY <1>3 DEF PipelineStep, PipelineFails, StoreCandidates, SkipCandidate,
     TrySemanticMerge, ReadExperience, WriteExperience, RereadExperience, GiveUpReinforcing,
     CreateExperience, ReadLeft, ReadRight, AllResolved, RecordConflict, SupersedeLoser,
     RecordSupersedes
<1>4. UNCHANGED vars => ratings' = ratings /\ operations' = operations
  BY DEF vars
<1> QED
  BY <1>1, <1>2, <1>3, <1>4, NextCases DEF Outside

LEMMA CalmBefore ==
  ASSUME TypeOK, \A p \in Pipeline : Pipe(p), Histories, [Next]_vars, Undisturbed'
  PROVE  Undisturbed
<1>1. ratings = 0 /\ operations = 0
  BY CountsOnly DEF Undisturbed
<1>2. Kept /\ Rows \subseteq Rows' /\ \A r \in Rows : row'[r].says = row[r].says
  BY Step, Grow DEF TypeOK, Kept, KeptRow
<1>3. ASSUME NEW c \in claimed, NEW r \in Rows
      PROVE  Judge[<<row[c[1]].says, row[r].says>>] # "CONFLICT"
  <2>1. c \in claimed' /\ r \in Rows' /\ c[1] \in Rows
    BY <1>2 DEF Kept, Histories
  <2>2. Judge[<<row'[c[1]].says, row'[r].says>>] # "CONFLICT"
    BY <2>1 DEF Undisturbed
  <2> QED
    BY <1>2, <2>1, <2>2
<1> QED
  BY <1>1, <1>3 DEF Undisturbed

\* Without feedback and operators, a row gains authority only if no other contradicts it, and is
\* deprecated only by a resolution.
Calm ==
  /\ \A r \in Rows : Authority(r)' >= Authority(r)
  /\ \A r, t \in Rows : Opposed(r, t) => Authority(r)' = Authority(r)
  /\ \A r \in Rows : row'[r].status = "DEPRECATED"
       => row[r].status = "DEPRECATED" \/ \E p \in Pipeline : SupersedeLoser(p) /\ r = Loser(p)
  /\ \A r \in Rows' : r \notin Rows => row'[r].status # "DEPRECATED"

LEMMA SameAuthority ==
  ASSUME StoreType, NEW r \in Rows, row'[r].confidence = row[r].confidence,
         row'[r].utility = row[r].utility, row'[r].support = row[r].support
  PROVE  Authority(r)' = Authority(r) /\ Authority(r)' >= Authority(r)
<1>1. Authority(r)' = Authority(r)
  BY DEF Authority
<1>2. Authority(r) \in Int
  BY AuthorityType
<1> QED
  BY <1>1, <1>2

LEMMA CalmWrite ==
  ASSUME TypeOK, NEW p \in Pipeline, Pipe(p), WriteExperience(p), Undisturbed'
  PROVE  /\ Calm /\ Rows' = Rows
         /\ \A t \in Rows : ~Opposed(t, target[p]) /\ ~Opposed(target[p], t)
<1>0. PICK r0 \in Rows : r0 = target[p]
  BY Written DEF Pipe
<1>1. /\ Kept /\ Rows' = Rows /\ StoreType /\ StoreType'
      /\ r0 \in Rows /\ \A x \in Rows : x # r0 => row'[x] = row[x]
      /\ row'[r0].says = row[r0].says /\ row'[r0].utility = row[r0].utility
      /\ row'[r0].confidence >= row[r0].confidence
      /\ row'[r0].support = row[r0].support \cup {of[p]}
      /\ row'[r0].status = "DEPRECATED" => row[r0].status = "DEPRECATED"
  BY <1>0, Written DEF Pipe, TypeOK
<1>2. \A t \in Rows : ~Opposed(t, r0) /\ ~Opposed(r0, t)
  <2>1. <<r0, of[p]>> \in claimed'
    BY <1>0 DEF WriteExperience
  <2>2. \A t \in Rows : Judge[<<row'[r0].says, row'[t].says>>] # "CONFLICT"
    BY <1>1, <2>1 DEF Undisturbed
  <2>3. \A t \in Rows : row'[t].says = row[t].says
    BY <1>1 DEF Kept, KeptRow
  <2>4. \A t \in Rows : ~Opposed(r0, t)
    BY <1>1, <2>2, <2>3 DEF Opposed, Conflict
  <2> QED
    BY <1>1, <2>4, Symmetric
<1>3. \A x \in Rows : x # r0 => Authority(x)' = Authority(x) /\ Authority(x)' >= Authority(x)
  <2> SUFFICES ASSUME NEW x \in Rows, x # r0
               PROVE  Authority(x)' = Authority(x) /\ Authority(x)' >= Authority(x)
    OBVIOUS
  <2>1. row'[x] = row[x]
    BY <1>1
  <2> QED
    BY <1>1, <2>1, SameAuthority
<1>4. Authority(r0)' >= Authority(r0) /\ p \in Pipeline
  <2>1. row[r0] \in Exp /\ row'[r0] \in Exp
    BY <1>1 DEF StoreType
  <2>2. IsFiniteSet(row[r0].support) /\ IsFiniteSet(row'[r0].support)
    BY <2>1 DEF Exp
  <2>3. Cardinality(row[r0].support) <= Cardinality(row'[r0].support)
    BY <1>1, <2>2, FS_Subset
  <2>4. Cardinality(row[r0].support) \in Nat /\ Cardinality(row'[r0].support) \in Nat
    BY <2>2, FS_CardinalityType
  <2>5. row[r0].confidence \in Int /\ row'[r0].confidence \in Int /\ row[r0].utility \in Int
    BY <2>1 DEF Exp, Level
  <2>6. row'[r0].confidence + row'[r0].utility + Cardinality(row'[r0].support)
          >= row[r0].confidence + row[r0].utility + Cardinality(row[r0].support)
    BY <1>1, <2>3, <2>4, <2>5
  <2> QED
    BY <2>6 DEF Authority
<1>5. \A r \in Rows : row'[r].status = "DEPRECATED" => row[r].status = "DEPRECATED"
  BY <1>1
<1> QED
  BY <1>0, <1>1, <1>2, <1>3, <1>4, <1>5 DEF Calm

LEMMA CalmStep ==
  ASSUME TypeOK, \A p \in Pipeline : Pipe(p), Histories, [Next]_vars, Undisturbed'
  PROVE  Calm
<1>0. StoreType /\ StoreType' /\ ratings' \in Nat /\ operations' \in Nat
  BY Step DEF TypeOK, StoreType
<1>1. CASE Steady
  <2>1. row' = row /\ Rows' = Rows
    BY <1>1 DEF Steady, Rows
  <2>2. \A r \in Rows : Authority(r)' = Authority(r) /\ Authority(r)' >= Authority(r)
    BY <1>0, <2>1, SameAuthority
  <2> QED
    BY <2>1, <2>2 DEF Calm
<1>2. ASSUME NEW p \in Pipeline, WriteExperience(p)
      PROVE  Calm
  BY <1>2, CalmWrite
<1>3. ASSUME NEW p \in Pipeline, CreateExperience(p)
      PROVE  Calm
  <2>1. CASE Return(p)
    <3>1. row' = row /\ Rows' = Rows
      BY <2>1 DEF Return, Rows
    <3>2. \A r \in Rows : Authority(r)' = Authority(r) /\ Authority(r)' >= Authority(r)
      BY <1>0, <3>1, SameAuthority
    <3> QED
      BY <3>1, <3>2 DEF Calm
  <2>2. CASE Insertion(p)
    <3>1. at[p] = "create" /\ HandsOf(p) /\ unseen \subseteq unseen'
          /\ UNCHANGED <<rated, ratings, operations, relations, dropped, claimed, relapsed>>
      BY <1>3, <2>2 DEF CreateExperience, Insertion, Pipe
    <3>2. /\ Rows' = Rows \cup {rows + 1} /\ row'[rows + 1] = Fresh(p)
          /\ \A r \in Rows : row'[r] = row[r]
      BY <1>0, <2>2, <3>1, Inserted DEF Insertion
    <3>3. Fresh(p).status # "DEPRECATED"
      BY <3>1, FreshType
    <3>4. \A r \in Rows : Authority(r)' = Authority(r) /\ Authority(r)' >= Authority(r)
      BY <1>0, <3>2, SameAuthority
    <3> QED
      BY <3>2, <3>3, <3>4 DEF Calm
  <2> QED
    BY <1>3, <2>1, <2>2, CreateCases
<1>4. ASSUME NEW p \in Pipeline, SupersedeLoser(p)
      PROVE  Calm
  <2>1. Superseding(Loser(p), Winner(p))
    BY <1>4, LoserIsSuperseded
  <2>2. /\ Rows' = Rows
        /\ \A r \in Rows : /\ row'[r].confidence = row[r].confidence
                           /\ row'[r].utility = row[r].utility
                           /\ row'[r].support = row[r].support
                           /\ r # Loser(p) => row'[r].status = row[r].status
    BY <1>0, <2>1, SupersedingSame
  <2>3. \A r \in Rows : Authority(r)' = Authority(r) /\ Authority(r)' >= Authority(r)
    BY <1>0, <2>2, SameAuthority
  <2> QED
    BY <1>4, <2>2, <2>3 DEF Calm
<1>5. ratings' = 0 /\ operations' = 0
  BY DEF Undisturbed
<1> QED
  BY <1>1, <1>2, <1>3, <1>4, <1>5, RowCases, CountsOnly


LEMMA ReadsStay ==
  ASSUME TypeOK, Calm, NEW q \in Pipeline, Pipe(q), ReadsOf(q), SamePipe(q)
  PROVE  ReadsOf(q)'
<1> SUFFICES ASSUME at[q] \in {"right", "decide"}
             PROVE  ReadsOf(q)'
  BY DEF ReadsOf, SamePipe
<1>1. /\ created[q] \in Rows /\ peer[q] \in Rows /\ Opposed(created[q], peer[q])
      /\ Opposed(peer[q], created[q])
  BY Symmetric DEF Pipe, HandsOf, PeersOf, Resolving, Facing, TypeOK
<1>2. PICK a \in Rows, b \in Rows : a = created[q] /\ b = peer[q]
  BY <1>1
<1>3. Authority(a)' = Authority(a) /\ Authority(b)' = Authority(b)
  BY <1>1, <1>2 DEF Calm
<1>4. created'[q] = a /\ peer'[q] = b
  BY <1>2 DEF SamePipe
<1>5. Authority(created[q])' = Authority(a)' /\ Authority(peer[q])' = Authority(b)'
  BY <1>4 DEF Authority
<1> QED
  BY <1>2, <1>3, <1>5 DEF ReadsOf, SamePipe

LEMMA ReadsTaken ==
  ASSUME TypeOK, NEW p \in Pipeline, Pipe(p), ReadsOf(p), PipelineStep(p) \/ PipelineFails(p)
  PROVE  ReadsOf(p)'
<1>1. CASE ReadLeft(p)
  <2>1. /\ at'[p] = "right" /\ row' = row /\ created' = created
        /\ left'[p] = Authority(created[p])
    BY <1>1 DEF ReadLeft, TypeOK, PipeType
  <2>2. Authority(created[p])' = Authority(created[p])
    BY <2>1 DEF Authority
  <2> QED
    BY <2>1, <2>2 DEF ReadsOf
<1>2. CASE ReadRight(p)
  <2>1. /\ at[p] = "right" /\ at'[p] = "decide" /\ row' = row /\ created' = created
        /\ left' = left /\ peer' = peer /\ right'[p] = Authority(peer[p])
    BY <1>2 DEF ReadRight, TypeOK, PipeType
  <2>2. Authority(created[p])' = Authority(created[p]) /\ Authority(peer[p])' = Authority(peer[p])
    BY <2>1 DEF Authority
  <2> QED
    BY <2>1, <2>2 DEF ReadsOf
<1>3. CASE ~ReadLeft(p) /\ ~ReadRight(p)
  <2>1. at'[p] \notin {"right", "decide"}
    BY <1>3 DEF PipelineStep, PipelineFails, StoreCandidates, SkipCandidate, TrySemanticMerge,
       ReadExperience, WriteExperience, RereadExperience, GiveUpReinforcing, FailPipeline,
       CreateExperience, AllResolved, RecordConflict, SupersedeLoser, RecordSupersedes,
       NextPeer, NextCandidate, TypeOK, PipeType
  <2> QED
    BY <2>1 DEF ReadsOf
<1> QED
  BY <1>1, <1>2, <1>3

LEMMA SettledStep ==
  ASSUME TypeOK, \A p \in Pipeline : Pipe(p), Histories, Settled, [Next]_vars
  PROVE  Settled'
<1> SUFFICES ASSUME Undisturbed'
             PROVE  /\ \A p \in Pipeline : ReadsOf(p)'
                    /\ \A r \in Rows' : row'[r].status = "DEPRECATED"
                         => \E t \in Rows' : Opposed(r, t)'
  BY DEF Settled
<1>1. Undisturbed /\ Calm /\ \A p \in Pipeline : ReadsOf(p)
  BY CalmBefore, CalmStep DEF Settled
<1>2. ASSUME NEW q \in Pipeline
      PROVE  ReadsOf(q)'
  <2>1. SamePipe(q) \/ PipelineStep(q) \/ PipelineFails(q)
    BY NextCases, PipelineSteps, OutsideSteps DEF Alone
  <2> QED
    BY <1>1, <2>1, ReadsStay, ReadsTaken
<1>3. StoreType /\ Rows \subseteq Rows' /\ \A r \in Rows : row'[r].says = row[r].says
  BY Step, Grow DEF TypeOK, Kept, KeptRow
<1>4. ASSUME NEW r \in Rows', row'[r].status = "DEPRECATED"
      PROVE  \E t \in Rows' : Opposed(r, t)'
  <2>1. r \in Rows
    BY <1>1, <1>4 DEF Calm
  <2>2. \E t \in Rows : Opposed(r, t)
    <3>1. CASE row[r].status = "DEPRECATED"
      BY <1>1, <2>1, <3>1 DEF Settled
    <3>2. ASSUME NEW p \in Pipeline, SupersedeLoser(p), r = Loser(p)
          PROVE  \E t \in Rows : Opposed(r, t)
      <4>1. at[p] = "decide"
        BY <3>2 DEF SupersedeLoser
      <4>2. /\ created[p] \in Rows /\ peer[p] \in Rows /\ Opposed(created[p], peer[p])
            /\ Opposed(peer[p], created[p])
        BY <1>3, <4>1, Symmetric DEF Pipe, HandsOf, PeersOf, Resolving, Facing
      <4> QED
        BY <3>2, <4>2 DEF Loser
    <3> QED
      BY <1>1, <1>4, <2>1, <3>1, <3>2 DEF Calm
  <2>3. PICK t \in Rows : Opposed(r, t)
    BY <2>2
  <2>4. Opposed(r, t)' /\ t \in Rows'
    BY <1>3, <2>1, <2>3 DEF Opposed
  <2> QED
    BY <2>4
<1> QED
  BY <1>2, <1>4

\* The winner has the greater authority, and is still to be had or has been answered itself.
LEMMA LoserIsAnswered ==
  ASSUME TypeOK, NEW p \in Pipeline, Pipe(p), ReadsOf(p), SupersedeLoser(p),
         \A r \in Rows : row[r].status = "DEPRECATED" =>
            \E w \in Rows : Retrievable(w) /\ Authority(w) >= Authority(r)
  PROVE  \E w \in Rows : /\ Retrievable(w) /\ w # Loser(p)
                         /\ Authority(w) > Authority(Loser(p))
<1>1. at[p] = "decide" /\ Clear(p) /\ StoreType
  BY DEF SupersedeLoser, TypeOK
<1>2. /\ created[p] \in Rows /\ peer[p] \in Rows
      /\ left[p] = Authority(created[p]) /\ right[p] = Authority(peer[p])
  BY <1>1 DEF Pipe, HandsOf, Resolving, Facing, ReadsOf
<1>3. Winner(p) \in Rows /\ Loser(p) \in Rows
  BY <1>2 DEF Winner, Loser
<1>4. \A r \in Rows : Authority(r) \in Int
  BY <1>1, AuthorityType
<1>5. Authority(Winner(p)) > Authority(Loser(p))
  <2>1. Margin \in Nat \ {0}
    BY StoreAssumption
  <2>2. left[p] \in Int /\ right[p] \in Int
    BY <1>2, <1>4
  <2>3. right[p] > left[p] \/ left[p] > right[p]
    BY <1>1, <2>1, <2>2 DEF Clear
  <2>4. CASE PeerOutranks(p)
    BY <1>2, <2>4 DEF PeerOutranks, Winner, Loser
  <2>5. CASE ~PeerOutranks(p)
    BY <1>2, <2>2, <2>3, <2>5 DEF PeerOutranks, Winner, Loser
  <2> QED
    BY <2>4, <2>5
<1>6. row[Winner(p)].status \in Statuses
  BY <1>1, <1>3 DEF StoreType, Exp
<1>7. CASE Retrievable(Winner(p))
  <2>1. Winner(p) # Loser(p)
    BY <1>3, <1>4, <1>5
  <2> QED
    BY <1>3, <1>5, <1>7, <2>1
<1>8. CASE row[Winner(p)].status = "DEPRECATED"
  <2>1. PICK w \in Rows : Retrievable(w) /\ Authority(w) >= Authority(Winner(p))
    BY <1>3, <1>8
  <2>2. Authority(w) > Authority(Loser(p))
    BY <1>3, <1>4, <1>5, <2>1
  <2>3. w # Loser(p)
    BY <1>3, <1>4, <2>2
  <2> QED
    BY <2>1, <2>2, <2>3
<1> QED
  BY <1>6, <1>7, <1>8 DEF Statuses, Retrievable

LEMMA LosersStep ==
  ASSUME TypeOK, \A p \in Pipeline : Pipe(p), Histories, Settled, LosersAnswered, [Next]_vars
  PROVE  LosersAnswered'
<1> SUFFICES ASSUME Undisturbed', NEW r \in Rows', row'[r].status = "DEPRECATED"
             PROVE  \E w \in Rows' : Retrievable(w)' /\ Authority(w)' >= Authority(r)'
  BY DEF LosersAnswered
<1>1. /\ Undisturbed /\ Calm /\ \A p \in Pipeline : ReadsOf(p)
      /\ \A x \in Rows : row[x].status = "DEPRECATED" => \E t \in Rows : Opposed(x, t)
  BY CalmBefore, CalmStep DEF Settled
<1>2. \A x \in Rows : row[x].status = "DEPRECATED" =>
        \E w \in Rows : Retrievable(w) /\ Authority(w) >= Authority(x)
  BY <1>1 DEF LosersAnswered
<1>3. StoreType /\ StoreType' /\ Rows \subseteq Rows' /\ r \in Rows
  BY <1>1, Step, Grow DEF TypeOK, Calm
<1>4. \A x \in Rows : Authority(x) \in Int /\ Authority(x)' \in Int
  <2>1. ASSUME NEW x \in Rows'
        PROVE  Authority(x)' \in Int
    <3>1. row'[x] \in Exp
      BY <1>3 DEF StoreType
    <3>2. Cardinality(row'[x].support) \in Nat
      BY <3>1, FS_CardinalityType DEF Exp
    <3> QED
      BY <3>1, <3>2 DEF Authority, Exp, Level
  <2> QED
    BY <1>3, <2>1, AuthorityType
<1>5. /\ \A x \in Rows : Authority(x)' >= Authority(x)
      /\ \A x, t \in Rows : Opposed(x, t) => Authority(x)' = Authority(x)
  BY <1>1 DEF Calm
<1>6. Authority(r)' = Authority(r) /\ \E w \in Rows : /\ Retrievable(w)'
                                                      /\ Authority(w) >= Authority(r)
  <2>1. \A w \in Rows : row'[w].status \in Statuses
    BY <1>3 DEF StoreType, Exp
  <2>2. ASSUME NEW p \in Pipeline, SupersedeLoser(p)
        PROVE  Authority(r)' = Authority(r) /\ \E w \in Rows : /\ Retrievable(w)'
                                                               /\ Authority(w) >= Authority(r)
    <3>1. PICK z \in Rows : /\ Retrievable(z) /\ z # Loser(p)
                            /\ Authority(z) > Authority(Loser(p))
      BY <1>1, <1>2, <2>2, LoserIsAnswered
    <3>2. Superseding(Loser(p), Winner(p)) /\ Loser(p) \in Rows
      BY <2>2, LoserIsSuperseded DEF Superseding
    <3>3. \A x \in Rows : /\ row'[x].confidence = row[x].confidence
                          /\ row'[x].utility = row[x].utility
                          /\ row'[x].support = row[x].support
                          /\ x # Loser(p) => row'[x].status = row[x].status
      BY <1>3, <3>2, SupersedingSame DEF StoreType
    <3>4. Authority(r)' = Authority(r)
      BY <1>3, <3>3, SameAuthority
    <3>5. \A x \in Rows : Retrievable(x) /\ x # Loser(p) => Retrievable(x)'
      BY <3>3 DEF Retrievable
    <3>6. CASE r = Loser(p)
      <4>1. Authority(z) > Authority(r)
        BY <3>1, <3>6
      <4>2. Authority(z) >= Authority(r)
        BY <1>3, <1>4, <4>1
      <4> QED
        BY <3>1, <3>4, <3>5, <4>2
    <3>7. CASE r # Loser(p)
      <4>1. PICK w \in Rows : Retrievable(w) /\ Authority(w) >= Authority(r)
        BY <1>2, <1>3, <3>3, <3>7
      <4>2. CASE w # Loser(p)
        BY <3>4, <3>5, <4>1, <4>2
      <4>3. CASE w = Loser(p)
        <5>1. Authority(z) >= Authority(r)
          BY <1>3, <1>4, <3>1, <4>1, <4>3
        <5> QED
          BY <3>1, <3>4, <3>5, <5>1
      <4> QED
        BY <4>2, <4>3
    <3> QED
      BY <3>6, <3>7
  <2>3. ASSUME \A p \in Pipeline : ~SupersedeLoser(p)
        PROVE  Authority(r)' = Authority(r) /\ \E w \in Rows : /\ Retrievable(w)'
                                                               /\ Authority(w) >= Authority(r)
    <3>1. \A x \in Rows : row'[x].status = "DEPRECATED" => row[x].status = "DEPRECATED"
      BY <1>1, <2>3 DEF Calm
    <3>2. row[r].status = "DEPRECATED"
      BY <1>3, <3>1
    <3>3. PICK w \in Rows : Retrievable(w) /\ Authority(w) >= Authority(r)
      BY <1>2, <1>3, <3>2
    <3>4. Retrievable(w)'
      BY <2>1, <3>1, <3>3 DEF Retrievable, Statuses
    <3>5. Authority(r)' = Authority(r)
      BY <1>1, <1>3, <1>5, <3>2
    <3> QED
      BY <3>3, <3>4, <3>5
  <2> QED
    BY <2>2, <2>3
<1>7. PICK w \in Rows : Retrievable(w)' /\ Authority(w) >= Authority(r)
  BY <1>6
<1>8. Authority(w)' >= Authority(r)'
  BY <1>3, <1>4, <1>5, <1>6, <1>7
<1> QED
  BY <1>3, <1>7, <1>8


-----------------------------------------------------------------------------
(* The theorems. *)

LEMMA InitHolds ==
  ASSUME Init
  PROVE  SInv
<1>1. rows = 0 /\ Rows = {} /\ row = [r \in Row |-> None]
  BY DEF Init, Rows
<1>2. StoreType
  <2>1. 0 \in 0..MaxRows
    BY StoreAssumption
  <2> QED
    BY <1>1, <2>1 DEF Init, StoreType
<1>3. PipeType
  BY DEF Init, PipeType, Places
<1>4. \A p \in Pipeline : at[p] = "idle" /\ created[p] = None /\ peer[p] = None /\ peers[p] = {}
  BY DEF Init
<1>5. \A p \in Pipeline : Pipe(p)
  BY <1>4 DEF Pipe, HandsOf, CopyOf, PeersOf, LoserOf, Resolving, Facing
<1>6. Histories
  BY DEF Init, Histories
<1>7. UpdatesKept /\ OneRowPerLesson /\ OppositesKnown /\ LosersAnswered
  BY <1>1 DEF Init, UpdatesKept, OneRowPerLesson, OppositesKnown, LosersAnswered
<1>8. Settled
  BY <1>1, <1>4 DEF Settled, ReadsOf
<1> QED
  BY <1>2, <1>3, <1>5, <1>6, <1>7, <1>8 DEF SInv, TypeOK

LEMMA NextHolds ==
  ASSUME SInv, [Next]_vars
  PROVE  SInv'
BY Step, HistoriesStep, UpdatesStep, OneRowStep, OppositesStep, SettledStep, LosersStep DEF SInv

THEOREM StoreInvariant ==
  Spec => []SInv
<1>1. Init => SInv
  BY InitHolds
<1>2. SInv /\ [Next]_vars => SInv'
  BY NextHolds
<1> QED
  BY <1>1, <1>2, PTL DEF Spec

\* No update is lost: neither the feedback of reward.go and credit learning, although a
\* reinforcement (reinforce.go) writes back the utility it read, nor a reinforcement that a
\* pipeline was told of.
THEOREM NoUpdateLost ==
  Spec => []UpdatesKept
<1>1. SInv => UpdatesKept
  BY DEF SInv
<1> QED
  BY <1>1, StoreInvariant, PTL

\* However many pipelines an episode is learnt from by, at once or again, a lesson of its own is
\* stored once (the unique index that ExperienceRepository.Create runs into).
THEOREM LessonsOnce ==
  Spec => []OneRowPerLesson
<1>1. SInv => OneRowPerLesson
  BY DEF SInv
<1> QED
  BY <1>1, StoreInvariant, PTL

\* Of two retrievable experiences that contradict each other, a relation is recorded or a
\* pipeline has the pair before it, but for the named exceptions (store_pipeline.go stores the new
\* row before it resolves the conflicts that its search found).
THEOREM OppositesAreKnown ==
  Spec => []OppositesKnown
<1>1. SInv => OppositesKnown
  BY DEF SInv
<1> QED
  BY <1>1, StoreInvariant, PTL

\* Without feedback, operators and reinforcement of what is contradicted, each experience that a
\* resolution deprecated (supersede.go, conflict.go) leaves one of no less authority to retrieve.
THEOREM LosersAreAnswered ==
  Spec => []LosersAnswered
<1>1. SInv => LosersAnswered
  BY DEF SInv
<1> QED
  BY <1>1, StoreInvariant, PTL

=============================================================================
