----------------------- MODULE ContextProvenanceProofs -----------------------
(***************************************************************************)
(* Theorems of ContextProvenance, for any number of experiences, patterns, *)
(* episodes and requests, any ranks, grades, weights and limits: opposites *)
(* stay apart, use counts are exact and provenance is complete.            *)
(*                                                                         *)
(* Part 1 is about ranks and the conflict map, part 2 about types; then    *)
(* come one part for the contexts, one for the ledger and one for actions. *)
(***************************************************************************)
EXTENDS ContextProvenance, FiniteSetTheorems, WellFoundedInduction, TLAPS

USE DEF storeVars, ledgerVars, buildVars, recordVars, requestVars, boundVars, vars, Request

-----------------------------------------------------------------------------
(***************************************************************************)
(* Part 1.  Ranks and the conflict map.                                    *)
(***************************************************************************)

LEMMA Smallest ==
  ASSUME NEW S, S \subseteq Nat, S # {}
  PROVE  \E n \in S : \A m \in S : n <= m
<1>1. IsWellFoundedOn(OpToRel(<, Nat), Nat)
  BY NatLessThanWellFounded
<1>2. PICK n \in S : \A m \in S : ~(<<m, n>> \in OpToRel(<, Nat))
  BY <1>1, WFMin
<1>3. \A m \in S : ~(m < n)
  BY <1>2 DEF OpToRel
<1> QED
  BY <1>3

LEMMA Largest ==
  ASSUME NEW S, NEW n \in Nat, S \subseteq 1..n, S # {}
  PROVE  \E k \in S : \A m \in S : m <= k
<1> DEFINE T == {n - m : m \in S}
<1>1. \A m \in S : m \in Nat /\ n - m \in Nat
  OBVIOUS
<1>2. T \subseteq Nat /\ T # {}
  BY <1>1
<1>3. PICK t \in T : \A u \in T : t <= u
  BY <1>2, Smallest
<1>4. PICK k \in S : t = n - k
  BY <1>3
<1>5. \A m \in S : t <= n - m
  BY <1>3
<1> QED
  BY <1>1, <1>4, <1>5

(* Experiences and patterns are not the same things. *)
LEMMA Apart == Experience \cap Pattern = {}
<1>1. \A e \in Experience, p \in Pattern : Rank[e] \in Nat /\ Rank[e] < Rank[p]
  BY ContextAssumption DEF Injection, Entry
<1> QED
  BY <1>1

(* The first entry of a list is one of it. *)
LEMMA FirstIn ==
  ASSUME NEW S, S \subseteq Entry, S # {}
  PROVE  First(S) \in S
<1>1. \A x \in S : Rank[x] \in Nat
  BY ContextAssumption DEF Injection
<1> DEFINE R == {Rank[x] : x \in S}
<1>2. R \subseteq Nat /\ R # {}
  BY <1>1
<1>3. PICK n \in R : \A m \in R : n <= m
  BY <1>2, Smallest
<1>4. \E x \in S : \A y \in S : Rank[x] <= Rank[y]
  BY <1>3
<1> QED
  BY <1>4 DEF First

(* What is listed is taken from what was to be listed. *)
LEMMA ListedIsGiven ==
  ASSUME NEW S, NEW cap, NEW used
  PROVE  Entries(S, cap, used) \subseteq S
<1>1. \A n : Top(S, n) \subseteq S
  BY DEF Top
<1>2. Fitting(S, cap, used) \subseteq S
  BY <1>1 DEF Fitting
<1> QED
  BY <1>1, <1>2 DEF Entries

(* Every experience that is asked about and related to another has a peer. *)
LEMMA PeersFound ==
  ASSUME NEW related, IsFiniteSet(related),
         \A pair \in related : \E e, f \in Experience : e # f /\ pair = {e, f},
         NEW ids \in SUBSET Experience,
         NEW place \in Injection(related, 1..Cardinality(related))
  PROVE  /\ PeerMap(ids, place) \in [Experience -> Experience \cup {None}]
         /\ \A e \in ids : (\E pair \in related : e \in pair) =>
                PeerMap(ids, place)[e] \in Experience
<1> DEFINE n == Cardinality(related)
<1>1. n \in Nat /\ place \in [related -> 1..n]
  BY FS_CardinalityType DEF Injection
<1>2. ASSUME NEW e \in Experience, e \in ids, NEW naming,
             naming = {pair \in related : e \in pair}, naming # {}
      PROVE  LET last == CHOOSE pair \in naming : \A q \in naming : place[q] <= place[pair]
             IN (CHOOSE f \in last : f # e) \in Experience
  <2> DEFINE last == CHOOSE pair \in naming : \A q \in naming : place[q] <= place[pair]
             P == {place[q] : q \in naming}
  <2> HIDE DEF n
  <2>1. P \subseteq 1..n /\ P # {}
    BY <1>1, <1>2
  <2>2. PICK k \in P : \A m \in P : m <= k
    BY <1>1, <2>1, Largest
  <2>3. \E pair \in naming : \A q \in naming : place[q] <= place[pair]
    BY <2>2
  <2>4. last \in naming
    BY <2>3
  <2> HIDE DEF last, P
  <2>5. PICK d, f : d \in Experience /\ f \in Experience /\ d # f /\ last = {d, f}
    BY <1>2, <2>4
  <2>6. \E g \in last : g # e
    BY <2>5
  <2> QED
    BY <2>5, <2>6 DEF last
<1>3. DOMAIN place = related
  BY <1>1
<1>4. ASSUME NEW e \in Experience
      PROVE  PeerMap(ids, place)[e] =
                LET naming == {pair \in related : e \in pair}
                    last == CHOOSE pair \in naming : \A q \in naming : place[q] <= place[pair]
                IN IF e \notin ids \/ naming = {} THEN None
                   ELSE CHOOSE f \in last : f # e
  BY <1>3 DEF PeerMap
<1>5. ASSUME NEW e \in Experience
      PROVE  /\ PeerMap(ids, place)[e] \in Experience \cup {None}
             /\ e \in ids /\ (\E pair \in related : e \in pair) =>
                    PeerMap(ids, place)[e] \in Experience
  <2>1. CASE e \notin ids \/ {pair \in related : e \in pair} = {}
    BY <1>4, <2>1
  <2>2. CASE e \in ids /\ {pair \in related : e \in pair} # {}
    BY <1>2, <1>4, <2>2
  <2> QED
    BY <2>1, <2>2
<1> QED
  BY <1>5 DEF PeerMap

-----------------------------------------------------------------------------
(***************************************************************************)
(* Part 2.  Types, as far as they do not depend on what a build is about.  *)
(***************************************************************************)

Places == {"idle", "patterns", "peers", "check", "assemble", "count", "load", "bump",
           "tally", "save", "number", "insert", "bind", "done"}

Types ==
  /\ \A pair \in conflicts : \E e, f \in Experience : e # f /\ pair = {e, f}
  /\ live \subseteq Pattern
  /\ at \in [Request -> Places]
  /\ episode \in [Request -> Episode \cup {None}]
  /\ answer \in [Request -> {"none", "ok", "error", "refused"}]
  /\ found \in [Builder -> SUBSET Experience]
  /\ foundPatterns \in [Builder -> SUBSET Pattern]
  /\ peers \in [Builder -> [Experience -> Experience \cup {None}]]
  /\ unasked \in [Builder -> SUBSET Experience]
  /\ shown \in [Builder -> SUBSET Experience]
  /\ shownPatterns \in [Builder -> SUBSET Pattern]
  /\ queue \in [Builder -> SUBSET Entry]
  /\ opposed \in [Builder -> SUBSET SUBSET Experience]
  /\ excused \in [Builder -> SUBSET Experience]
  /\ context \in [Recorder -> Builder \cup {None}]
  /\ unbound \in [Recorder -> SUBSET Entry]

LEMMA InitTypes == Init => Types
  BY DEF Init, Types, Places, NoPeers

\* What a request of its own can be assembled from.
LEMMA SelectedTypes ==
  ASSUME Types, NEW b \in Builder
  PROVE  /\ Selected(b) \subseteq found[b]
         /\ \A e \in Selected(b) : peers[b][e] = None
         /\ ExperienceList(b) \subseteq Selected(b)
         /\ PatternList(b) \subseteq foundPatterns[b]
         /\ Counted(b) \subseteq Selected(b)
<1>1. Selected(b) \subseteq found[b] /\ \A e \in Selected(b) : peers[b][e] = None
  BY DEF Selected, Decision
<1>2. ExperienceList(b) \subseteq Uncovered(b)
  BY ListedIsGiven DEF ExperienceList
<1>3. Uncovered(b) \subseteq Selected(b)
  BY DEF Uncovered
<1>4. PatternList(b) \subseteq foundPatterns[b]
  BY ListedIsGiven DEF PatternList
<1> QED
  BY <1>1, <1>2, <1>3, <1>4 DEF Counted

LEMMA RelatedPairs ==
  ASSUME Types, NEW b \in Builder
  PROVE  LET related == {pair \in conflicts : pair \cap found[b] # {}}
         IN /\ IsFiniteSet(related)
            /\ \A pair \in related : \E e, f \in Experience : e # f /\ pair = {e, f}
            /\ related \in SUBSET SUBSET Experience
<1> DEFINE related == {pair \in conflicts : pair \cap found[b] # {}}
<1>1. \A pair \in related : \E e, f \in Experience : e # f /\ pair = {e, f}
  BY DEF Types
<1>2. IsFiniteSet(Experience)
  BY ContextAssumption, FS_Subset DEF Entry
<1>3. IsFiniteSet(SUBSET Experience)
  BY <1>2, FS_SUBSET
<1>4. related \subseteq SUBSET Experience
  BY <1>1
<1> QED
  BY <1>1, <1>3, <1>4, FS_Subset

\* After the query of the conflicts each experience that one names has a peer.
LEMMA PeersListed ==
  ASSUME Types, NEW b \in Builder, ListPeers(b)
  PROVE  /\ peers' \in [Builder -> [Experience -> Experience \cup {None}]]
         /\ unasked' \in [Builder -> SUBSET Experience]
         /\ opposed' \in [Builder -> SUBSET SUBSET Experience]
         /\ \A pair \in opposed'[b], e \in Experience :
                e \in pair /\ e \in found[b] => peers'[b][e] # None
<1> DEFINE related == {pair \in conflicts : pair \cap found[b] # {}}
<1>1. PICK place \in Injection(related, 1..Cardinality(related)) :
          peers' = [peers EXCEPT ![b] = PeerMap(found[b], place)]
  BY DEF ListPeers
<1>2. /\ unasked' = [unasked EXCEPT ![b] =
                        {e \in found[b] : \E pair \in related : e \in pair}]
      /\ opposed' = [opposed EXCEPT ![b] = related]
  BY DEF ListPeers
<1>3. /\ IsFiniteSet(related)
      /\ \A pair \in related : \E e, f \in Experience : e # f /\ pair = {e, f}
      /\ related \in SUBSET SUBSET Experience
  BY RelatedPairs
<1> HIDE DEF related
<1>4. found[b] \in SUBSET Experience
  BY DEF Types
<1>5. /\ PeerMap(found[b], place) \in [Experience -> Experience \cup {None}]
      /\ \A e \in found[b] : (\E pair \in related : e \in pair) =>
             PeerMap(found[b], place)[e] \in Experience
  BY <1>1, <1>3, <1>4, PeersFound
<1>6. None \notin Experience
  BY ContextAssumption
<1>7. peers'[b] = PeerMap(found[b], place) /\ opposed'[b] = related
  BY <1>1, <1>2 DEF Types
<1>8. \A pair \in opposed'[b], e \in Experience :
                e \in pair /\ e \in found[b] => peers'[b][e] # None
  BY <1>5, <1>6, <1>7
<1>9. peers' \in [Builder -> [Experience -> Experience \cup {None}]]
  BY <1>1, <1>5 DEF Types
<1>10. unasked' \in [Builder -> SUBSET Experience]
  BY <1>2, <1>4 DEF Types
<1>11. opposed' \in [Builder -> SUBSET SUBSET Experience]
  BY <1>2, <1>3 DEF Types
<1> QED
  BY <1>8, <1>9, <1>10, <1>11

LEMMA QueueTypes ==
  ASSUME Types, NEW b \in Builder, NEW S \in SUBSET Entry,
         queue' = queue \/ queue' = [queue EXCEPT ![b] = S]
  PROVE  queue' \in [Builder -> SUBSET Entry]
<1>1. queue \in [Builder -> SUBSET Entry]
  BY DEF Types
<1> QED
  BY <1>1

LEMMA StepTypes ==
  ASSUME Types, [Next]_vars
  PROVE  Types'
<1>1. ASSUME NEW b \in Builder, NEW ep \in Episode \cup {None}, Retrieve(b, ep)
      PROVE  Types'
  BY <1>1 DEF Types, Retrieve, Arrive, Places
<1>2. ASSUME NEW b \in Builder, RetrievePatterns(b)
      PROVE  Types'
  BY <1>2 DEF Types, RetrievePatterns, Places, Top
<1>3. ASSUME NEW b \in Builder, ListPeers(b)
      PROVE  Types'
  <2>1. at' \in [Request -> Places]
    BY <1>3 DEF Types, ListPeers, Places
  <2>2. UNCHANGED <<conflicts, live, episode, answer, found, foundPatterns, shown, shownPatterns,
                    queue, excused, context, unbound>>
    BY <1>3 DEF ListPeers
  <2> QED
    BY <1>3, <2>1, <2>2, PeersListed DEF Types
<1>4. ASSUME NEW b \in Builder, NEW e \in Experience, NEW readable \in BOOLEAN,
             CheckPeer(b, e, readable)
      PROVE  Types'
  <2>1. peers' \in [Builder -> [Experience -> Experience \cup {None}]]
    BY <1>4 DEF Types, CheckPeer
  <2>2. /\ unasked' \in [Builder -> SUBSET Experience]
        /\ excused' \in [Builder -> SUBSET Experience]
    BY <1>4 DEF Types, CheckPeer
  <2> QED
    BY <1>4, <2>1, <2>2 DEF Types, CheckPeer
<1>5. ASSUME NEW b \in Builder, Assemble(b)
      PROVE  Types'
  <2>1. /\ ExperienceList(b) \in SUBSET Experience /\ PatternList(b) \in SUBSET Pattern
        /\ Counted(b) \in SUBSET Entry
    BY SelectedTypes DEF Types, Entry
  <2>2. NoPeers \in [Experience -> Experience \cup {None}]
    BY DEF NoPeers
  <2>3. /\ at' \in [Request -> Places]
        /\ answer' \in [Request -> {"none", "ok", "error", "refused"}]
    BY <1>5 DEF Types, Assemble, Places
  <2>4. /\ shown' \in [Builder -> SUBSET Experience]
        /\ shownPatterns' \in [Builder -> SUBSET Pattern]
        /\ queue' \in [Builder -> SUBSET Entry]
    <3>1. CASE BudgetFails(b)
      BY <1>5, <3>1 DEF Types, Assemble
    <3>2. CASE ~BudgetFails(b)
      <4>1. /\ shown' = [shown EXCEPT ![b] = ExperienceList(b)]
            /\ shownPatterns' = [shownPatterns EXCEPT ![b] = PatternList(b)]
            /\ queue' = [queue EXCEPT ![b] = IF episode[b] = None THEN {} ELSE Counted(b)]
        BY <1>5, <3>2 DEF Assemble
      <4>2. (IF episode[b] = None THEN {} ELSE Counted(b)) \in SUBSET Entry
        BY <2>1
      <4> QED
        BY <2>1, <4>1, <4>2 DEF Types
    <3> QED
      BY <3>1, <3>2
  <2>5. /\ found' \in [Builder -> SUBSET Experience]
        /\ foundPatterns' \in [Builder -> SUBSET Pattern]
        /\ peers' \in [Builder -> [Experience -> Experience \cup {None}]]
    BY <1>5, <2>2 DEF Types, Assemble
  <2> QED
    BY <1>5, <2>3, <2>4, <2>5 DEF Types, Assemble
<1>6. ASSUME NEW b \in Builder, RecordUsage(b)
      PROVE  Types'
  <2>1. shownPatterns[b] \in SUBSET Entry
    BY DEF Types, Entry
  <2>2. queue' = queue \/ queue' = [queue EXCEPT ![b] = shownPatterns[b]]
    BY <1>6 DEF RecordUsage
  <2>3. queue' \in [Builder -> SUBSET Entry]
    BY <2>1, <2>2, QueueTypes
  <2>4. at \in [Request -> Places]
    BY DEF Types
  <2>5. at' \in [Request -> Places]
    BY <1>6, <2>4 DEF RecordUsage, Places
  <2> QED
    BY <1>6, <2>3, <2>5 DEF Types, RecordUsage
<1>7. ASSUME NEW b \in Builder, LoadExperience(b)
      PROVE  Types'
  BY <1>7 DEF Types, LoadExperience, Places
<1>8. ASSUME NEW b \in Builder, CountUse(b)
      PROVE  Types'
  <2>1. queue' = queue \/ queue' = [queue EXCEPT ![b] = queue[b] \ {First(queue[b])}]
    BY <1>8 DEF CountUse
  <2>2. queue' \in [Builder -> SUBSET Entry]
    <3>1. queue[b] \ {First(queue[b])} \in SUBSET Entry
      BY DEF Types
    <3> QED
      BY <2>1, <3>1, QueueTypes
  <2>3. /\ at' \in [Request -> Places]
        /\ answer' \in [Request -> {"none", "ok", "error", "refused"}]
    BY <1>8 DEF Types, CountUse, Places
  <2> QED
    BY <1>8, <2>2, <2>3 DEF Types, CountUse
<1>9. ASSUME NEW b \in Builder, RecordPatternUsage(b)
      PROVE  Types'
  <2>1. queue' = queue \/ queue' = [queue EXCEPT ![b] = queue[b] \ {First(queue[b])}]
    BY <1>9 DEF RecordPatternUsage
  <2>2. queue' \in [Builder -> SUBSET Entry]
    <3>1. queue[b] \ {First(queue[b])} \in SUBSET Entry
      BY DEF Types
    <3> QED
      BY <2>1, <3>1, QueueTypes
  <2>3. at' \in [Request -> Places]
    <3>1. at \in [Request -> Places]
      BY DEF Types
    <3> QED
      BY <1>9, <3>1 DEF RecordPatternUsage, Places
  <2> QED
    BY <1>9, <2>2, <2>3 DEF Types, RecordPatternUsage
<1>10. ASSUME NEW b \in Builder, SaveSnapshot(b)
       PROVE  Types'
  BY <1>10 DEF Types, SaveSnapshot, Places
<1>11. ASSUME NEW r \in Recorder, NEW ep \in Episode, NEW b \in Builder \cup {None}, NEW n,
              RecordAction(r, ep, b, n)
       PROVE  Types'
  <2>1. /\ at' \in [Request -> Places]
        /\ answer' \in [Request -> {"none", "ok", "error", "refused"}]
    BY <1>11 DEF Types, RecordAction, Places
  <2>2. /\ context' \in [Recorder -> Builder \cup {None}]
        /\ episode' \in [Request -> Episode \cup {None}]
    BY <1>11 DEF Types, RecordAction
  <2> QED
    BY <1>11, <2>1, <2>2 DEF Types, RecordAction
<1>12. ASSUME NEW r \in Recorder, Number(r)
       PROVE  Types'
  BY <1>12 DEF Types, Number, Places
<1>13. ASSUME NEW r \in Recorder, CreateAction(r)
       PROVE  Types'
  <2>1. context[r] # None => Shown(context[r]) \in SUBSET Entry
    BY DEF Types, Shown, Entry
  <2>2. unbound' \in [Recorder -> SUBSET Entry]
    BY <1>13, <2>1 DEF Types, CreateAction
  <2> QED
    BY <1>13, <2>2 DEF Types, CreateAction, Places
<1>14. ASSUME NEW r \in Recorder, BindContextProvenance(r)
       PROVE  Types'
  <2>1. unbound' = unbound \/ unbound' = [unbound EXCEPT ![r] = unbound[r] \ {First(unbound[r])}]
    BY <1>14 DEF BindContextProvenance, Rest
  <2>2. unbound' \in [Recorder -> SUBSET Entry]
    <3>1. /\ unbound \in [Recorder -> SUBSET Entry]
          /\ unbound[r] \ {First(unbound[r])} \in SUBSET Entry
      BY DEF Types
    <3> QED
      BY <2>1, <3>1
  <2>3. /\ at' \in [Request -> Places]
        /\ answer' \in [Request -> {"none", "ok", "error", "refused"}]
    BY <1>14 DEF Types, BindContextProvenance, Places
  <2> QED
    BY <1>14, <2>2, <2>3 DEF Types, BindContextProvenance
<1>15. CASE Elsewhere
  <2>1. ASSUME NEW e \in Experience, NEW f \in Experience, RecordConflict(e, f)
        PROVE  Types'
    BY <2>1 DEF Types, RecordConflict
  <2>2. ASSUME NEW p \in Pattern, DeprecatePattern(p)
        PROVE  Types'
    BY <2>2 DEF Types, DeprecatePattern
  <2>3. ASSUME NEW e \in Experience, Supersede(e) \/ Rate(e)
        PROVE  Types'
    BY <2>3 DEF Types, Supersede, Rate
  <2>4. ASSUME NEW e \in Experience, NEW r \in Recorder, NEW ep \in Episode,
               LinkExperience(e, r, ep)
        PROVE  Types'
    BY <2>4 DEF Types, LinkExperience
  <2> QED
    BY <1>15, <2>1, <2>2, <2>3, <2>4 DEF Elsewhere
<1>16. ASSUME NEW q \in Request, Fail(q)
       PROVE  Types'
  BY <1>16 DEF Types, Fail, Places
<1>17. CASE UNCHANGED vars
  BY <1>17 DEF Types
<1> QED
  BY <1>1, <1>2, <1>3, <1>4, <1>5, <1>6, <1>7, <1>8, <1>9, <1>10, <1>11, <1>12, <1>13, <1>14,
     <1>15, <1>16, <1>17 DEF Next, Build, Record

-----------------------------------------------------------------------------
(***************************************************************************)
(* Part 3.  Opposites stay apart.                                          *)
(***************************************************************************)

(* What a build leaves behind of the conflicts it was told of.  Until it   *)
(* has assembled its context it shows nothing, and each experience that a  *)
(* conflict names has its peer in the map or is excused.                   *)
Assembling == {"idle", "patterns", "peers", "check", "assemble"}

ToldApart(b) ==
  /\ at[b] \in Assembling => shown[b] = {}
  /\ at[b] \in Assembling \ {"check"} => opposed[b] = {}
  /\ at[b] = "check" =>
        \A pair \in opposed[b], e \in Experience :
            e \in pair /\ e \in found[b] => peers[b][e] # None \/ e \in excused[b]
  /\ \A pair \in opposed[b] : pair \subseteq shown[b] => pair \subseteq excused[b]

ContextInv == \A b \in Builder : ToldApart(b)

LEMMA InitTold == Init => ContextInv
  BY DEF Init, ContextInv, ToldApart, Assembling

\* A build of which a step changes nothing.
LEMMA ToldStays ==
  ASSUME NEW b \in Builder, ToldApart(b),
         /\ at'[b] = at[b] /\ shown'[b] = shown[b] /\ opposed'[b] = opposed[b]
         /\ found'[b] = found[b] /\ peers'[b] = peers[b] /\ excused'[b] = excused[b]
  PROVE  ToldApart(b)'
  BY DEF ToldApart

\* Behind the selection what was told and shown is fixed.
LEMMA ToldDone ==
  ASSUME NEW b \in Builder, ToldApart(b), at'[b] \notin Assembling,
         shown'[b] = shown[b], opposed'[b] = opposed[b], excused'[b] = excused[b]
  PROVE  ToldApart(b)'
  BY DEF ToldApart, Assembling

LEMMA ToldBuild ==
  ASSUME Types, NEW c \in Builder, Build(c), ToldApart(c)
  PROVE  ToldApart(c)'
<1> USE DEF Assembling
<1>1. ASSUME NEW ep \in Episode \cup {None}, Retrieve(c, ep)
      PROVE  ToldApart(c)'
  BY <1>1 DEF Types, ToldApart, Retrieve, Arrive
<1>2. CASE RetrievePatterns(c)
  BY <1>2 DEF Types, ToldApart, RetrievePatterns
<1>3. CASE ListPeers(c)
  <2>1. /\ at'[c] = "check" /\ shown'[c] = {} /\ found'[c] = found[c]
    BY <1>3 DEF Types, ToldApart, ListPeers
  <2>2. \A pair \in opposed'[c], e \in Experience :
            e \in pair /\ e \in found[c] => peers'[c][e] # None
    BY <1>3, PeersListed
  <2>3. \A pair \in opposed'[c] : pair # {}
    BY <1>3 DEF Types, ListPeers
  <2> QED
    BY <2>1, <2>2, <2>3 DEF ToldApart
<1>4. ASSUME NEW e \in Experience, NEW readable \in BOOLEAN, CheckPeer(c, e, readable)
      PROVE  ToldApart(c)'
  <2>1. /\ at[c] = "check" /\ at' = at /\ shown' = shown /\ opposed' = opposed /\ found' = found
    BY <1>4 DEF CheckPeer
  <2>2. /\ excused[c] \subseteq excused'[c]
        /\ \A d \in Experience : peers'[c][d] = peers[c][d] \/ d \in excused'[c]
    <3>1. /\ peers \in [Builder -> [Experience -> Experience \cup {None}]]
          /\ excused \in [Builder -> SUBSET Experience]
      BY DEF Types
    <3>2. CASE readable /\ StillOpposed(e, peers[c][e])
      BY <1>4, <3>1, <3>2 DEF CheckPeer, StillOpposed
    <3>3. CASE ~(readable /\ StillOpposed(e, peers[c][e]))
      <4>1. /\ peers' = [peers EXCEPT ![c][e] = None]
            /\ excused' = [excused EXCEPT ![c] = @ \cup {e}]
        BY <1>4, <3>3 DEF CheckPeer, StillOpposed
      <4> QED
        BY <3>1, <4>1
    <3> QED
      BY <3>2, <3>3
  <2> QED
    BY <2>1, <2>2 DEF ToldApart
<1>5. CASE Assemble(c)
  <2>1. /\ opposed' = opposed /\ excused' = excused
        /\ at[c] \in {"check", "assemble"} /\ at'[c] \in {"done", "save", "count"}
        /\ shown'[c] = shown[c] \/ shown'[c] = ExperienceList(c)
    BY <1>5 DEF Types, Assemble
  <2>2. \A pair \in opposed[c] : pair \subseteq shown'[c] => pair \subseteq excused[c]
    <3>1. CASE shown'[c] = shown[c]
      BY <3>1 DEF ToldApart
    <3>2. CASE at[c] = "assemble"
      BY <3>2 DEF ToldApart
    <3>3. ASSUME at[c] = "check", shown'[c] = ExperienceList(c),
                 NEW pair \in opposed[c], pair \subseteq shown'[c], NEW e \in pair
          PROVE  e \in excused[c]
      <4>1. e \in found[c] /\ e \in Experience /\ peers[c][e] = None
        BY <3>3, SelectedTypes DEF Types
      <4> QED
        BY <3>3, <4>1 DEF ToldApart
    <3> QED
      BY <2>1, <3>1, <3>2, <3>3
  <2> QED
    BY <2>1, <2>2 DEF ToldApart
<1>6. ASSUME /\ at'[c] \notin Assembling
             /\ shown' = shown /\ opposed' = opposed /\ excused' = excused
      PROVE  ToldApart(c)'
  BY <1>6, ToldDone
<1>7. CASE RecordUsage(c) \/ LoadExperience(c) \/ CountUse(c) \/ RecordPatternUsage(c)
             \/ SaveSnapshot(c)
  <2>1. at'[c] \notin Assembling
    BY <1>7 DEF Types, RecordUsage, LoadExperience, CountUse, RecordPatternUsage, SaveSnapshot
  <2> QED
    BY <1>6, <1>7, <2>1
       DEF RecordUsage, LoadExperience, CountUse, RecordPatternUsage, SaveSnapshot
<1> QED
  BY <1>1, <1>2, <1>3, <1>4, <1>5, <1>7 DEF Build

\* A builder leaves the others alone, and all that builds have.
LEMMA OthersBuild ==
  ASSUME Types, NEW c \in Builder, Build(c), NEW b \in Builder, b # c
  PROVE  /\ at'[b] = at[b] /\ shown'[b] = shown[b] /\ opposed'[b] = opposed[b]
         /\ found'[b] = found[b] /\ peers'[b] = peers[b] /\ excused'[b] = excused[b]
         /\ queue'[b] = queue[b] /\ copy'[b] = copy[b] /\ shownPatterns'[b] = shownPatterns[b]
         /\ episode'[b] = episode[b]
<1>1. CASE (\E ep \in Episode \cup {None} : Retrieve(c, ep)) \/ RetrievePatterns(c)
  BY <1>1 DEF Types, Retrieve, RetrievePatterns
<1>2. CASE ListPeers(c)
  BY <1>2 DEF Types, ListPeers
<1>3. CASE \E e \in Experience, readable \in BOOLEAN : CheckPeer(c, e, readable)
  BY <1>3 DEF Types, CheckPeer
<1>4. CASE Assemble(c)
  BY <1>4 DEF Types, Assemble
<1>5. CASE RecordUsage(c)
  BY <1>5 DEF Types, RecordUsage
<1>8. CASE LoadExperience(c)
  BY <1>8 DEF Types, LoadExperience
<1>6. CASE CountUse(c)
  BY <1>6 DEF Types, CountUse
<1>7. CASE RecordPatternUsage(c) \/ SaveSnapshot(c)
  BY <1>7 DEF Types, RecordPatternUsage, SaveSnapshot
<1> QED
  BY <1>1, <1>2, <1>3, <1>4, <1>5, <1>6, <1>7, <1>8 DEF Build

\* Recorders and what happens elsewhere leave every build alone.
LEMMA RecordersStay ==
  ASSUME Types, (\E r \in Recorder : Record(r)) \/ Elsewhere
  PROVE  /\ UNCHANGED <<buildVars, snapshots, usages, uses>>
         /\ \A b \in Builder : at'[b] = at[b] /\ episode'[b] = episode[b]
<1>1. \A r \in Recorder : r \notin Builder
  BY ContextAssumption
<1>2. ASSUME NEW r \in Recorder,
             NEW ep \in Episode, NEW b \in Builder \cup {None}, NEW n, RecordAction(r, ep, b, n)
      PROVE  /\ UNCHANGED <<buildVars, snapshots, usages, uses>>
             /\ \A d \in Builder : at'[d] = at[d] /\ episode'[d] = episode[d]
  BY <1>1, <1>2 DEF Types, RecordAction, Arrive
<1>3. ASSUME NEW r \in Recorder, Number(r) \/ CreateAction(r) \/ BindContextProvenance(r)
      PROVE  /\ UNCHANGED <<buildVars, snapshots, usages, uses>>
             /\ \A d \in Builder : at'[d] = at[d] /\ episode'[d] = episode[d]
  BY <1>1, <1>3 DEF Types, Number, CreateAction, BindContextProvenance
<1>4. CASE Elsewhere
  BY <1>4 DEF Elsewhere, LinkExperience, Supersede, RecordConflict, Rate, DeprecatePattern
<1> QED
  BY <1>2, <1>3, <1>4 DEF Record

LEMMA FailStays ==
  ASSUME Types, NEW q \in Request, Fail(q)
  PROVE  /\ UNCHANGED <<storeVars, ledgerVars, buildVars, recordVars, episode>>
         /\ at[q] # "idle" /\ at'[q] = "done" /\ answer'[q] = "error"
         /\ \A p \in Request : p # q => at'[p] = at[p] /\ answer'[p] = answer[p]
  BY DEF Types, Fail

LEMMA StepTold ==
  ASSUME Types, ContextInv, [Next]_vars
  PROVE  ContextInv'
<1> SUFFICES ASSUME NEW b \in Builder
             PROVE  ToldApart(b)'
  BY DEF ContextInv
<1>1. ToldApart(b)
  BY DEF ContextInv
<1>2. ASSUME NEW c \in Builder, Build(c)
      PROVE  ToldApart(b)'
  <2>1. CASE b = c
    BY <1>1, <1>2, <2>1, ToldBuild
  <2>2. CASE b # c
    BY <1>1, <1>2, <2>2, OthersBuild, ToldStays
  <2> QED
    BY <2>1, <2>2
<1>3. CASE (\E r \in Recorder : Record(r)) \/ Elsewhere
  BY <1>1, <1>3, RecordersStay, ToldStays
<1>4. ASSUME NEW q \in Request, Fail(q)
      PROVE  ToldApart(b)'
  <2>1. CASE b = q
    BY <1>1, <1>4, <2>1, FailStays, ToldDone DEF Assembling
  <2>2. CASE b # q
    BY <1>1, <1>4, <2>2, FailStays, ToldStays
  <2> QED
    BY <2>1, <2>2
<1>5. CASE UNCHANGED vars
  BY <1>1, <1>5, ToldStays
<1> QED
  BY <1>2, <1>3, <1>4, <1>5 DEF Next

(* Two experiences that were known to contradict each other when a context *)
(* was selected are not both in it, unless the peer of each was gone or    *)
(* could not be read: of any number of conflicts, although the map keeps   *)
(* one peer of each.                                                       *)
THEOREM OppositesStayApart == Spec => []OppositesApart
<1>1. Init => Types /\ ContextInv
  BY InitTypes, InitTold
<1>2. Types /\ ContextInv /\ [Next]_vars => (Types /\ ContextInv)'
  BY StepTypes, StepTold
<1>3. ContextInv => OppositesApart
  BY DEF ContextInv, ToldApart, OppositesApart
<1> QED
  BY <1>1, <1>2, <1>3, PTL DEF Spec

-----------------------------------------------------------------------------
(***************************************************************************)
(* Part 4.  Use counts are exact.                                          *)
(***************************************************************************)

(* Who has used an experience, as far as it has been counted. *)
UsersOf(e) == {b \in Builder : <<b, e>> \in usages /\ e \notin queue[b]}

Copy == [status : {"ACTIVE", "CANDIDATE", "DEPRECATED"}, uses : Nat, version : Nat]

StoreTypes ==
  /\ status \in [Experience -> {"ACTIVE", "CANDIDATE", "DEPRECATED"}]
  /\ version \in [Experience -> Nat]
  /\ uses \in [Experience -> Nat]
  /\ copy \in [Builder -> Copy \cup {None}]

(* Before it counts, a build has no rows and nothing to count; while it    *)
(* counts, its queue is of experiences, and the first of them has its row  *)
(* from the insert to the count.                                           *)
Queued(b) ==
  /\ at[b] \in Assembling => queue[b] = {} /\ \A e \in Experience : <<b, e>> \notin usages
  /\ at[b] \in {"count", "load", "bump"} => queue[b] \subseteq Experience
  /\ at[b] = "tally" => queue[b] \subseteq Pattern
  /\ at[b] \in {"load", "bump"} => queue[b] # {} /\ <<b, First(queue[b])>> \in usages

(* What a build has read is what the row said at the version it read: a    *)
(* row that still has the version has the uses.                            *)
ReadWell(b) ==
  at[b] = "bump" =>
    /\ copy[b] \in Copy
    /\ copy[b].version <= version[First(queue[b])]
    /\ copy[b].version = version[First(queue[b])] => copy[b].uses = uses[First(queue[b])]

LedgerInv ==
  /\ StoreTypes
  /\ \A b \in Builder : Queued(b) /\ ReadWell(b)
  /\ \A e \in Experience : uses[e] = Cardinality(UsersOf(e))

LEMMA InitLedger == Init => LedgerInv
<1> SUFFICES ASSUME Init
             PROVE  LedgerInv
  OBVIOUS
<1>1. StoreTypes
  BY DEF Init, StoreTypes
<1>2. \A b \in Builder : Queued(b) /\ ReadWell(b)
  BY DEF Init, Queued, ReadWell, Assembling
<1>3. ASSUME NEW e \in Experience
      PROVE  uses[e] = Cardinality(UsersOf(e))
  <2>1. UsersOf(e) = {} /\ uses[e] = 0
    BY DEF Init, UsersOf
  <2> QED
    BY <2>1, FS_EmptySet
<1> QED
  BY <1>1, <1>2, <1>3 DEF LedgerInv

\* A row is only written with a later version.
RowsMove == \A e \in Experience : /\ version[e] <= version'[e]
                                  /\ version'[e] = version[e] => uses'[e] = uses[e]

LEMMA QueueStays ==
  ASSUME Types, StoreTypes, StoreTypes', RowsMove,
         NEW b \in Builder, Queued(b), ReadWell(b),
         at'[b] = at[b], queue'[b] = queue[b], copy'[b] = copy[b],
         \A e : <<b, e>> \in usages' <=> <<b, e>> \in usages
  PROVE  Queued(b)' /\ ReadWell(b)'
<1>1. Queued(b)'
  BY DEF Queued
<1>2. ReadWell(b)'
  <2> SUFFICES ASSUME at[b] = "bump"
               PROVE  /\ copy[b] \in Copy
                      /\ copy[b].version <= version'[First(queue[b])]
                      /\ copy[b].version = version'[First(queue[b])] =>
                            copy[b].uses = uses'[First(queue[b])]
    BY DEF ReadWell
  <2>1. queue[b] \subseteq Experience /\ queue[b] # {}
    BY DEF Queued
  <2>2. First(queue[b]) \in Experience
    BY <2>1, FirstIn DEF Entry
  <2>3. PICK e \in Experience : e = First(queue[b])
    BY <2>2
  <2>4. /\ copy[b] \in Copy /\ copy[b].version <= version[e]
        /\ copy[b].version = version[e] => copy[b].uses = uses[e]
    BY <2>3 DEF ReadWell
  <2>5. /\ version[e] \in Nat /\ version'[e] \in Nat /\ copy[b].version \in Nat
        /\ version[e] <= version'[e]
        /\ version'[e] = version[e] => uses'[e] = uses[e]
    BY <2>4 DEF StoreTypes, Copy, RowsMove
  <2> QED
    BY <2>3, <2>4, <2>5
<1> QED
  BY <1>1, <1>2

\* Nobody's rows are counted differently.
LEMMA UsersStay ==
  ASSUME \A e \in Experience : uses[e] = Cardinality(UsersOf(e)),
         uses' = uses,
         \A b \in Builder, e \in Experience :
            (<<b, e>> \in usages' /\ e \notin queue'[b])
                <=> (<<b, e>> \in usages /\ e \notin queue[b])
  PROVE  \A e \in Experience : uses'[e] = Cardinality(UsersOf(e)')
<1>1. \A e \in Experience : UsersOf(e)' = UsersOf(e)
  BY DEF UsersOf
<1> QED
  BY <1>1

\* A build that is before its counting, or behind it.
LEMMA LedgerAssembling ==
  ASSUME Types, LedgerInv, NEW c \in Builder,
         \/ \E ep \in Episode \cup {None} : Retrieve(c, ep)
         \/ RetrievePatterns(c)
         \/ ListPeers(c)
         \/ \E e \in Experience, readable \in BOOLEAN : CheckPeer(c, e, readable)
  PROVE  LedgerInv'
<1>1. /\ at[c] \in Assembling /\ at'[c] \in Assembling
      /\ UNCHANGED <<storeVars, usages, queue, copy>>
  BY DEF Types, Retrieve, Arrive, RetrievePatterns, ListPeers, CheckPeer, Assembling
<1>2. StoreTypes' /\ RowsMove
  BY <1>1 DEF LedgerInv, StoreTypes, RowsMove
<1>3. Queued(c)' /\ ReadWell(c)'
  BY <1>1 DEF LedgerInv, Queued, ReadWell, Assembling
<1>4. ASSUME NEW b \in Builder, b # c
      PROVE  Queued(b)' /\ ReadWell(b)'
  <2>1. Build(c)
    BY DEF Build
  <2> QED
    BY <1>1, <1>2, <1>4, <2>1, OthersBuild, QueueStays DEF LedgerInv
<1>5. \A e \in Experience : uses'[e] = Cardinality(UsersOf(e)')
  BY <1>1, UsersStay DEF LedgerInv
<1> QED
  BY <1>2, <1>3, <1>4, <1>5 DEF LedgerInv

\* A step of a build that counts nothing.
LEMMA LedgerBuild ==
  ASSUME Types, LedgerInv, NEW c \in Builder, Build(c), StoreTypes', RowsMove,
         uses' = uses, Queued(c)', ReadWell(c)',
         \A b \in Builder : \A e : b # c => (<<b, e>> \in usages' <=> <<b, e>> \in usages),
         \A e \in Experience : (<<c, e>> \in usages' /\ e \notin queue'[c])
                                 <=> (<<c, e>> \in usages /\ e \notin queue[c])
  PROVE  LedgerInv'
<1>1. ASSUME NEW b \in Builder, b # c
      PROVE  Queued(b)' /\ ReadWell(b)'
  BY <1>1, OthersBuild, QueueStays DEF LedgerInv
<1>2. \A b \in Builder, e \in Experience :
            (<<b, e>> \in usages' /\ e \notin queue'[b])
                <=> (<<b, e>> \in usages /\ e \notin queue[b])
  BY OthersBuild
<1>3. \A e \in Experience : uses'[e] = Cardinality(UsersOf(e)')
  BY <1>2, UsersStay DEF LedgerInv
<1> QED
  BY <1>1, <1>3 DEF LedgerInv

LEMMA LedgerAssemble ==
  ASSUME Types, LedgerInv, NEW c \in Builder, Assemble(c)
  PROVE  LedgerInv'
<1>1. /\ at[c] \in Assembling /\ at'[c] \in {"done", "save", "count"}
      /\ UNCHANGED <<storeVars, usages, copy>>
  BY DEF Types, Assemble, Assembling
<1>2. queue[c] = {} /\ \A e \in Experience : <<c, e>> \notin usages
  BY <1>1 DEF LedgerInv, Queued
<1>3. queue'[c] \subseteq Experience
  <2>1. Counted(c) \subseteq Experience
    BY SelectedTypes DEF Types
  <2>2. queue'[c] \in {queue[c], {}, Counted(c)}
    BY DEF Types, Assemble
  <2> QED
    BY <1>2, <2>1, <2>2
<1>4. Queued(c)' /\ ReadWell(c)'
  BY <1>1, <1>3 DEF Queued, ReadWell, Assembling
<1>5. StoreTypes' /\ RowsMove
  BY <1>1 DEF LedgerInv, StoreTypes, RowsMove
<1>6. Build(c)
  BY DEF Build
<1> QED
  BY <1>1, <1>2, <1>4, <1>5, <1>6, LedgerBuild

LEMMA LedgerRecord ==
  ASSUME Types, LedgerInv, NEW c \in Builder, RecordUsage(c)
  PROVE  LedgerInv'
<1>1. at[c] = "count" /\ queue[c] \subseteq Experience /\ UNCHANGED <<storeVars, copy>>
  BY DEF LedgerInv, Queued, RecordUsage
<1>2. StoreTypes' /\ RowsMove
  BY <1>1 DEF LedgerInv, StoreTypes, RowsMove
<1>3. Build(c)
  BY DEF Build
<1>4. CASE queue[c] = {}
  <2>1. at'[c] = "tally" /\ usages' = usages /\ queue'[c] = shownPatterns[c]
    BY <1>4 DEF Types, RecordUsage
  <2>2. shownPatterns[c] \subseteq Pattern
    BY DEF Types
  <2>3. \A e \in Experience : e \notin queue'[c]
    BY <2>1, <2>2, Apart
  <2>4. Queued(c)' /\ ReadWell(c)'
    BY <2>1, <2>2 DEF Queued, ReadWell, Assembling
  <2> QED
    BY <1>1, <1>2, <1>3, <1>4, <2>1, <2>3, <2>4, LedgerBuild
<1>5. CASE queue[c] # {}
  <2>1. PICK e : e = First(queue[c]) /\ e \in queue[c] /\ e \in Experience
    BY <1>1, <1>5, FirstIn DEF Entry
  <2>2. at'[c] = "load" /\ usages' = usages \cup {<<c, e>>} /\ queue' = queue
    BY <1>5, <2>1 DEF Types, RecordUsage
  <2>3. Queued(c)' /\ ReadWell(c)'
    BY <1>1, <1>5, <2>1, <2>2 DEF Queued, ReadWell, Assembling
  <2> QED
    BY <1>1, <1>2, <1>3, <2>1, <2>2, <2>3, LedgerBuild
<1> QED
  BY <1>4, <1>5

LEMMA LedgerLoad ==
  ASSUME Types, LedgerInv, NEW c \in Builder, LoadExperience(c)
  PROVE  LedgerInv'
<1>1. /\ at[c] = "load" /\ queue[c] \subseteq Experience /\ queue[c] # {}
      /\ <<c, First(queue[c])>> \in usages
  BY DEF LedgerInv, Queued, LoadExperience
<1>2. PICK e : e = First(queue[c]) /\ e \in Experience
  BY <1>1, FirstIn DEF Entry
<1> DEFINE row == [status |-> status[e], uses |-> uses[e], version |-> version[e]]
<1>3. /\ at'[c] = "bump" /\ UNCHANGED <<storeVars, usages, queue>>
      /\ copy' = [copy EXCEPT ![c] = row]
  BY <1>2 DEF Types, LoadExperience
<1>4. row \in Copy
  BY <1>2 DEF LedgerInv, StoreTypes, Copy
<1>5. copy'[c] = row /\ copy' \in [Builder -> Copy \cup {None}]
  BY <1>3, <1>4 DEF LedgerInv, StoreTypes
<1>6. StoreTypes' /\ RowsMove
  BY <1>3, <1>5 DEF LedgerInv, StoreTypes, RowsMove
<1>7. Queued(c)'
  BY <1>1, <1>3 DEF Queued, Assembling
<1>8. version[e] \in Nat
  BY <1>2 DEF LedgerInv, StoreTypes
<1>9. ReadWell(c)'
  BY <1>2, <1>3, <1>4, <1>5, <1>8 DEF ReadWell
<1>10. Build(c)
  BY DEF Build
<1> QED
  BY <1>3, <1>6, <1>7, <1>9, <1>10, LedgerBuild


\* The row has not been written since it was read, so that it counts one more.
LEMMA LedgerCount ==
  ASSUME Types, LedgerInv, NEW c \in Builder, CountUse(c)
  PROVE  LedgerInv'
<1>1. /\ at[c] = "bump" /\ queue[c] \subseteq Experience /\ queue[c] # {}
      /\ <<c, First(queue[c])>> \in usages
  BY DEF LedgerInv, Queued, CountUse
<1>2. PICK d : d = First(queue[c]) /\ d \in queue[c] /\ d \in Experience
  BY <1>1, FirstIn DEF Entry
<1>3. /\ copy[c] \in Copy
      /\ copy[c].version = version[d] => copy[c].uses = uses[d]
  BY <1>1, <1>2 DEF LedgerInv, ReadWell
<1>4. /\ version \in [Experience -> Nat] /\ uses \in [Experience -> Nat]
      /\ status \in [Experience -> {"ACTIVE", "CANDIDATE", "DEPRECATED"}]
      /\ copy \in [Builder -> Copy \cup {None}]
  BY DEF LedgerInv, StoreTypes
<1>5. usages' = usages /\ copy' = [copy EXCEPT ![c] = None]
  BY DEF CountUse
<1>6. Build(c)
  BY DEF Build
<1>7. CASE ~UnchangedSince(c, d)
  <2>1. at'[c] = "done" /\ UNCHANGED <<uses, status, version, queue>>
    BY <1>2, <1>7 DEF Types, CountUse
  <2>2. StoreTypes' /\ RowsMove
    BY <1>4, <1>5, <2>1 DEF StoreTypes, RowsMove
  <2>3. Queued(c)' /\ ReadWell(c)'
    BY <2>1 DEF Queued, ReadWell, Assembling
  <2> QED
    BY <1>5, <1>6, <2>1, <2>2, <2>3, LedgerBuild
<1>8. CASE UnchangedSince(c, d)
  <2>1. version[d] = copy[c].version
    BY <1>8 DEF UnchangedSince
  <2>2. /\ uses' = [uses EXCEPT ![d] = copy[c].uses + 1]
        /\ status' = [status EXCEPT ![d] = copy[c].status]
        /\ version' = [version EXCEPT ![d] = copy[c].version + 1]
        /\ queue' = [queue EXCEPT ![c] = queue[c] \ {d}]
        /\ at' = [at EXCEPT ![c] = "count"]
    BY <1>2, <1>8 DEF CountUse
  <2>3. /\ copy[c].uses \in Nat /\ copy[c].version \in Nat
        /\ copy[c].status \in {"ACTIVE", "CANDIDATE", "DEPRECATED"}
    BY <1>3 DEF Copy
  <2>4. StoreTypes'
    <3>1. PICK u \in Nat, v \in Nat : u = copy[c].uses + 1 /\ v = copy[c].version + 1
      BY <2>3
    <3>2. uses' = [uses EXCEPT ![d] = u] /\ version' = [version EXCEPT ![d] = v]
      BY <2>2, <3>1
    <3>3. uses' \in [Experience -> Nat] /\ version' \in [Experience -> Nat]
      BY <1>4, <3>2
    <3>4. status' \in [Experience -> {"ACTIVE", "CANDIDATE", "DEPRECATED"}]
      BY <1>4, <2>2, <2>3
    <3>5. copy' \in [Builder -> Copy \cup {None}]
      BY <1>4, <1>5
    <3> QED
      BY <3>3, <3>4, <3>5 DEF StoreTypes
  <2>5. RowsMove
    BY <1>2, <1>4, <2>1, <2>2, <2>3 DEF RowsMove
  <2>6. at'[c] = "count" /\ queue'[c] = queue[c] \ {d}
    BY <2>2 DEF Types
  <2>7. Queued(c)' /\ ReadWell(c)'
    BY <1>1, <2>6 DEF Queued, ReadWell, Assembling
  <2>8. ASSUME NEW b \in Builder, b # c
        PROVE  queue'[b] = queue[b] /\ Queued(b)' /\ ReadWell(b)'
    BY <1>5, <1>6, <2>4, <2>5, <2>8, OthersBuild, QueueStays DEF LedgerInv
  <2>9. ASSUME NEW e \in Experience
        PROVE  uses'[e] = Cardinality(UsersOf(e)')
    <3>1. uses[e] = Cardinality(UsersOf(e)) /\ uses[e] \in Nat
      BY <1>4 DEF LedgerInv
    <3>2. CASE e # d
      <4>1. UsersOf(e)' = UsersOf(e)
        BY <1>5, <2>6, <2>8, <3>2 DEF UsersOf
      <4> QED
        BY <1>4, <2>2, <3>1, <3>2, <4>1
    <3>3. CASE e = d
      <4>1. UsersOf(e)' = UsersOf(e) \cup {c} /\ c \notin UsersOf(e)
        BY <1>1, <1>2, <1>5, <2>6, <2>8, <3>3 DEF UsersOf
      <4>2. IsFiniteSet(UsersOf(e))
        BY ContextAssumption, FS_Subset DEF UsersOf
      <4>3. Cardinality(UsersOf(e)') = Cardinality(UsersOf(e)) + 1
        BY <4>1, <4>2, FS_AddElement
      <4> QED
        BY <1>2, <1>3, <1>4, <2>1, <2>2, <3>1, <3>3, <4>3
    <3> QED
      BY <3>2, <3>3
  <2> QED
    BY <2>4, <2>7, <2>8, <2>9 DEF LedgerInv
<1> QED
  BY <1>7, <1>8

LEMMA LedgerTally ==
  ASSUME Types, LedgerInv, NEW c \in Builder, RecordPatternUsage(c) \/ SaveSnapshot(c)
  PROVE  LedgerInv'
<1>1. Build(c) /\ UNCHANGED <<storeVars, usages, copy>>
  BY DEF Build, RecordPatternUsage, SaveSnapshot
<1>2. StoreTypes' /\ RowsMove
  BY <1>1 DEF LedgerInv, StoreTypes, RowsMove
<1>3. CASE SaveSnapshot(c)
  <2>1. at'[c] = "done" /\ queue' = queue
    BY <1>3 DEF Types, SaveSnapshot
  <2>2. Queued(c)' /\ ReadWell(c)'
    BY <2>1 DEF Queued, ReadWell, Assembling
  <2> QED
    BY <1>1, <1>2, <2>1, <2>2, LedgerBuild
<1>4. CASE RecordPatternUsage(c)
  <2>1. at[c] = "tally" /\ queue[c] \subseteq Pattern
    BY <1>4 DEF LedgerInv, Queued, RecordPatternUsage
  <2>2. at'[c] \in {"tally", "save"} /\ queue'[c] \subseteq queue[c]
    BY <1>4, <2>1 DEF Types, RecordPatternUsage
  <2>3. \A e \in Experience : e \notin queue[c] /\ e \notin queue'[c]
    BY <2>1, <2>2, Apart
  <2>4. Queued(c)' /\ ReadWell(c)'
    BY <2>1, <2>2 DEF Queued, ReadWell, Assembling
  <2> QED
    BY <1>1, <1>2, <2>3, <2>4, LedgerBuild
<1> QED
  BY <1>3, <1>4

\* What others do: the rows move, and no build does.
LEMMA LedgerElsewhere ==
  ASSUME Types, LedgerInv, Elsewhere \/ (\E r \in Recorder : Record(r))
  PROVE  LedgerInv'
<1>1. /\ UNCHANGED <<buildVars, usages, uses>>
      /\ \A b \in Builder : at'[b] = at[b]
  BY RecordersStay
<1>2. StoreTypes' /\ RowsMove
  <2>1. StoreTypes
    BY DEF LedgerInv
  <2>2. ASSUME NEW e \in Experience, Supersede(e)
        PROVE  StoreTypes' /\ RowsMove
    BY <2>1, <2>2 DEF StoreTypes, RowsMove, Supersede, StatusOfLoser
  <2>3. ASSUME NEW e \in Experience, Rate(e)
        PROVE  StoreTypes' /\ RowsMove
    <3>1. version' = [version EXCEPT ![e] = version[e] + 1] /\ UNCHANGED <<status, uses, copy>>
      BY <2>3 DEF Rate
    <3> QED
      BY <2>1, <3>1 DEF StoreTypes, RowsMove
  <2>4. ASSUME UNCHANGED <<status, version, uses, copy>>
        PROVE  StoreTypes' /\ RowsMove
    BY <2>1, <2>4 DEF StoreTypes, RowsMove
  <2>5. CASE \E r \in Recorder : Record(r)
    BY <2>4, <2>5 DEF Record, RecordAction, Number, CreateAction, BindContextProvenance
  <2>6. CASE Elsewhere
    BY <2>2, <2>3, <2>4, <2>6 DEF Elsewhere, LinkExperience, RecordConflict, DeprecatePattern
  <2> QED
    BY <2>5, <2>6
<1>3. ASSUME NEW b \in Builder
      PROVE  Queued(b)' /\ ReadWell(b)'
  BY <1>1, <1>2, QueueStays DEF LedgerInv
<1>4. \A e \in Experience : uses'[e] = Cardinality(UsersOf(e)')
  BY <1>1, UsersStay DEF LedgerInv
<1> QED
  BY <1>2, <1>3, <1>4 DEF LedgerInv

LEMMA LedgerFail ==
  ASSUME Types, LedgerInv, NEW q \in Request, Fail(q)
  PROVE  LedgerInv'
<1>1. /\ UNCHANGED <<storeVars, ledgerVars, buildVars>> /\ at'[q] = "done"
      /\ \A p \in Request : p # q => at'[p] = at[p]
  BY FailStays
<1>2. StoreTypes' /\ RowsMove
  BY <1>1 DEF LedgerInv, StoreTypes, RowsMove
<1>3. ASSUME NEW b \in Builder
      PROVE  Queued(b)' /\ ReadWell(b)'
  <2>1. CASE b = q
    BY <1>1, <2>1 DEF Queued, ReadWell, Assembling
  <2>2. CASE b # q
    BY <1>1, <1>2, <2>2, QueueStays DEF LedgerInv
  <2> QED
    BY <2>1, <2>2
<1>4. \A e \in Experience : uses'[e] = Cardinality(UsersOf(e)')
  BY <1>1, UsersStay DEF LedgerInv
<1> QED
  BY <1>2, <1>3, <1>4 DEF LedgerInv

LEMMA StepLedger ==
  ASSUME Types, LedgerInv, [Next]_vars
  PROVE  LedgerInv'
<1>1. ASSUME NEW c \in Builder, Build(c)
      PROVE  LedgerInv'
  BY <1>1, LedgerAssembling, LedgerAssemble, LedgerRecord, LedgerLoad, LedgerCount, LedgerTally
     DEF Build
<1>2. CASE UNCHANGED vars
  BY <1>2 DEF LedgerInv, StoreTypes, Queued, ReadWell, UsersOf
<1> QED
  BY <1>1, <1>2, LedgerElsewhere, LedgerFail DEF Next

(* The use count of every experience is the number of its usage rows, less *)
(* those of builds that have yet to count it or broke off, although a use  *)
(* is counted by read and conditional write among builds and ratings.      *)
THEOREM UsesAreCounted == Spec => []UseCountExact
<1>1. Init => Types /\ LedgerInv
  BY InitTypes, InitLedger
<1>2. Types /\ LedgerInv /\ [Next]_vars => (Types /\ LedgerInv)'
  BY StepTypes, StepLedger
<1>3. LedgerInv => UseCountExact
  BY DEF LedgerInv, UsersOf, UseCountExact
<1> QED
  BY <1>1, <1>2, <1>3, PTL DEF Spec

-----------------------------------------------------------------------------
(***************************************************************************)
(* Part 5.  Provenance is complete.                                        *)
(***************************************************************************)

(* A context is saved when its build is over, and an action names one that *)
(* was saved, of its episode or of none.                                   *)
Saved ==
  /\ \A b \in snapshots : b \in Builder /\ at[b] = "done"
  /\ \A r \in Recorder : context[r] # None => MayName(context[r], episode[r])

(* While it binds, an action still has to link what it has not linked, and *)
(* only what its context showed; nothing is linked for it before.          *)
Bound(r) ==
  /\ at[r] = "idle" => context[r] = None
  /\ answer[r] = "ok" => at[r] = "done"
  /\ at[r] = "bind" => unbound[r] \subseteq
                            (IF context[r] = None THEN {} ELSE Shown(context[r]))
  /\ at[r] = "bind" /\ context[r] # None =>
        \A x \in Shown(context[r]) : x \in unbound[r] \/ Linked(x, r)

ProvenanceInv ==
  /\ Saved
  /\ \A r \in Recorder : Bound(r)
  /\ ProvenanceComplete

LEMMA InitProvenance == Init => ProvenanceInv
  BY DEF Init, ProvenanceInv, Saved, Bound, ProvenanceComplete, Linked

\* What of the store keeps an action as it is: contexts that are saved stay
\* as they are, and links are only added.
Kept ==
  /\ snapshots \subseteq snapshots' /\ links \subseteq links'
  /\ \A b \in snapshots : Shown(b)' = Shown(b) /\ episode'[b] = episode[b]

LEMMA ContextsKept ==
  ASSUME Types, Kept, Saved, NEW r \in Recorder,
         context'[r] = context[r], episode'[r] = episode[r]
  PROVE  /\ context[r] # None =>
                MayName(context[r], episode[r])' /\ Shown(context[r])' = Shown(context[r])
         /\ \A x : Linked(x, r) => Linked(x, r)'
<1>1. ASSUME context[r] # None
      PROVE  MayName(context[r], episode[r])' /\ Shown(context[r])' = Shown(context[r])
  <2>1. PICK b : b = context[r] /\ b \in snapshots /\ episode[b] \in {None, episode[r]}
    BY <1>1 DEF Saved, MayName
  <2>2. b \in snapshots' /\ Shown(b)' = Shown(b) /\ episode'[b] = episode[b]
    BY <2>1 DEF Kept
  <2> QED
    BY <2>1, <2>2 DEF MayName, Shown
<1>2. \A x : Linked(x, r) => Linked(x, r)'
  BY DEF Kept, Linked
<1> QED
  BY <1>1, <1>2

\* The part of ProvenanceInv that is about one action.
Provided(r) ==
  /\ context[r] # None => MayName(context[r], episode[r])
  /\ Bound(r)
  /\ answer[r] = "ok" /\ context[r] # None => \A x \in Shown(context[r]) : Linked(x, r)
  /\ \A x \in Entry : <<x, r, "auto">> \in links =>
        context[r] # None /\ x \in Shown(context[r])

LEMMA ProvidedEach ==
  ProvenanceInv <=> /\ \A b \in snapshots : b \in Builder /\ at[b] = "done"
                    /\ \A r \in Recorder : Provided(r)
  BY DEF ProvenanceInv, Saved, Provided, ProvenanceComplete

\* An action that stays where it is, or moves or breaks off with no link of its own.
LEMMA ProvidedStays ==
  ASSUME Types, Kept, Saved, NEW r \in Recorder, Provided(r),
         context'[r] = context[r], episode'[r] = episode[r], unbound'[r] = unbound[r],
         \/ at'[r] = at[r] /\ answer'[r] = answer[r]
         \/ at'[r] \notin {"idle", "bind"} /\ answer'[r] # "ok",
         \A x : <<x, r, "auto">> \in links' => <<x, r, "auto">> \in links
  PROVE  Provided(r)'
<1>1. /\ context[r] # None =>
            MayName(context[r], episode[r])' /\ Shown(context[r])' = Shown(context[r])
      /\ \A x : Linked(x, r) => Linked(x, r)'
  BY ContextsKept
<1>2. CASE context[r] = None
  <2>1. context'[r] = None
    BY <1>2
  <2> QED
    BY <1>2, <2>1 DEF Provided, Bound
<1>3. CASE context[r] # None
  <2>1. context'[r] # None /\ Shown(context[r])' = Shown(context[r])
    BY <1>1, <1>3
  <2> QED
    BY <1>1, <1>3, <2>1 DEF Provided, Bound
<1> QED
  BY <1>2, <1>3


LEMMA RecorderKeeps ==
  ASSUME Types, ProvenanceInv, NEW q \in Recorder, Record(q)
  PROVE  /\ Kept /\ snapshots' = snapshots
         /\ \A b \in Builder : at'[b] = at[b]
         /\ \A r \in Recorder : r # q =>
                /\ context'[r] = context[r] /\ episode'[r] = episode[r]
                /\ unbound'[r] = unbound[r] /\ at'[r] = at[r] /\ answer'[r] = answer[r]
                /\ \A x : <<x, r, "auto">> \in links' => <<x, r, "auto">> \in links
<1>1. /\ UNCHANGED <<buildVars, snapshots>>
      /\ \A b \in Builder : at'[b] = at[b] /\ episode'[b] = episode[b]
  BY RecordersStay
<1>2. links \subseteq links'
  BY DEF Record, RecordAction, Number, CreateAction, BindContextProvenance
<1>3. \A b \in snapshots : b \in Builder
  BY DEF ProvenanceInv, Saved
<1>4. Kept
  BY <1>1, <1>2, <1>3 DEF Kept, Shown
<1>5. ASSUME NEW r \in Recorder, r # q
      PROVE  /\ context'[r] = context[r] /\ episode'[r] = episode[r]
             /\ unbound'[r] = unbound[r] /\ at'[r] = at[r] /\ answer'[r] = answer[r]
             /\ \A x : <<x, r, "auto">> \in links' => <<x, r, "auto">> \in links
  <2>1. ASSUME NEW ep \in Episode, NEW b \in Builder \cup {None}, NEW n, RecordAction(q, ep, b, n)
        PROVE  /\ context'[r] = context[r] /\ episode'[r] = episode[r]
               /\ unbound'[r] = unbound[r] /\ at'[r] = at[r] /\ answer'[r] = answer[r]
               /\ links' = links
    BY <1>5, <2>1 DEF Types, RecordAction
  <2>2. CASE Number(q)
    BY <1>5, <2>2 DEF Types, Number
  <2>3. CASE CreateAction(q)
    BY <1>5, <2>3 DEF Types, CreateAction
  <2>4. CASE BindContextProvenance(q)
    BY <1>5, <2>4 DEF Types, BindContextProvenance
  <2> QED
    BY <2>1, <2>2, <2>3, <2>4 DEF Record
<1> QED
  BY <1>1, <1>4, <1>5

\* The context that a request names is looked up when it arrives.
LEMMA ProvidedRecord ==
  ASSUME Types, Kept, Saved, NEW r \in Recorder, Provided(r), snapshots' = snapshots,
         \A b \in Builder : at'[b] = at[b],
         NEW ep \in Episode, NEW b \in Builder \cup {None}, NEW n, RecordAction(r, ep, b, n)
  PROVE  Provided(r)'
<1>1. at[r] = "idle" /\ context[r] = None /\ answer[r] # "ok"
  BY DEF RecordAction, Arrive, Provided, Bound
<1>2. \A x \in Entry : <<x, r, "auto">> \notin links'
  BY <1>1 DEF RecordAction, Provided
<1>3. at'[r] \in {"number", "insert", "done"} /\ answer'[r] # "ok" /\ episode'[r] = ep
  BY <1>1 DEF Types, RecordAction
<1>4. context'[r] = None \/ (context'[r] = b /\ MayName(b, ep))
  BY <1>1 DEF Types, RecordAction
<1>5. ASSUME context'[r] # None
      PROVE  MayName(context[r], episode[r])'
  <2>1. PICK d : d = b /\ d = context'[r] /\ d \in snapshots /\ episode[d] \in {None, ep}
    BY <1>4, <1>5 DEF MayName
  <2>2. d \in snapshots' /\ episode'[d] = episode[d]
    BY <2>1 DEF Kept
  <2> QED
    BY <1>3, <2>1, <2>2 DEF MayName
<1> QED
  BY <1>2, <1>3, <1>5 DEF Provided, Bound

\* All that the context showed is still to be linked.
LEMMA ProvidedCreate ==
  ASSUME Types, Kept, Saved, NEW r \in Recorder, Provided(r), CreateAction(r)
  PROVE  Provided(r)'
<1>1. at[r] = "insert" /\ answer[r] # "ok" /\ UNCHANGED <<context, episode, links>>
  BY DEF CreateAction, Provided, Bound
<1>2. /\ context[r] # None =>
            MayName(context[r], episode[r])' /\ Shown(context[r])' = Shown(context[r])
      /\ \A x : Linked(x, r) => Linked(x, r)'
  BY <1>1, ContextsKept
<1>3. CASE at'[r] = "done"
  <2>1. answer'[r] = "error" /\ unbound' = unbound
    BY <1>3 DEF Types, CreateAction
  <2> QED
    BY <1>1, <1>3, <2>1, ProvidedStays
<1>4. CASE at'[r] # "done"
  <2>1. /\ at'[r] = "bind" /\ answer' = answer
        /\ unbound'[r] = IF context[r] = None THEN {} ELSE Shown(context[r])
    BY <1>4 DEF Types, CreateAction
  <2>2. CASE context[r] = None
    BY <1>1, <2>1, <2>2 DEF Provided, Bound
  <2>3. CASE context[r] # None
    <3>1. context'[r] = context[r] /\ Shown(context[r])' = unbound'[r]
      BY <1>1, <1>2, <2>1, <2>3
    <3>2. Bound(r)'
      BY <1>1, <2>1, <2>3, <3>1 DEF Bound
    <3> QED
      BY <1>1, <1>2, <2>1, <2>3, <3>1, <3>2 DEF Provided
  <2> QED
    BY <2>2, <2>3
<1> QED
  BY <1>3, <1>4

\* One more is linked, by this step or by somebody before it.
LEMMA ProvidedBind ==
  ASSUME Types, Kept, Saved, NEW r \in Recorder, Provided(r), BindContextProvenance(r)
  PROVE  Provided(r)'
<1>1. at[r] = "bind" /\ answer[r] # "ok" /\ UNCHANGED <<context, episode>>
  BY DEF BindContextProvenance, Provided, Bound
<1>2. /\ context[r] # None =>
            MayName(context[r], episode[r])' /\ Shown(context[r])' = Shown(context[r])
      /\ \A x : Linked(x, r) => Linked(x, r)'
  BY <1>1, ContextsKept
<1>3. CASE unbound[r] = {}
  <2>1. at'[r] = "done" /\ answer'[r] = "ok" /\ links' = links /\ unbound' = unbound
    BY <1>3 DEF Types, BindContextProvenance
  <2>2. CASE context[r] = None
    BY <1>1, <2>1, <2>2 DEF Provided, Bound
  <2>3. CASE context[r] # None
    <3>1. \A x \in Shown(context[r]) : Linked(x, r)
      BY <1>1, <1>3, <2>3 DEF Provided, Bound
    <3>2. context'[r] = context[r] /\ Shown(context[r])' = Shown(context[r])
      BY <1>1, <1>2, <2>3
    <3> QED
      BY <1>2, <2>1, <2>3, <3>1, <3>2 DEF Provided, Bound
  <2> QED
    BY <2>2, <2>3
<1>4. CASE unbound[r] # {}
  <2>1. PICK x : x = First(unbound[r]) /\ x \in unbound[r] /\ x \in Entry
    BY <1>4, FirstIn DEF Types
  <2>2. context[r] # None /\ x \in Shown(context[r]) /\ unbound[r] \subseteq Shown(context[r])
    BY <1>1, <2>1 DEF Provided, Bound
  <2>3. /\ at'[r] = at[r] /\ answer' = answer /\ unbound'[r] = unbound[r] \ {x}
        /\ links' = IF Linked(x, r) THEN links ELSE links \cup {<<x, r, "auto">>}
    BY <1>4, <2>1 DEF Types, BindContextProvenance, Rest
  <2>4. Linked(x, r)'
    <3>1. CASE Linked(x, r)
      BY <1>2, <3>1
    <3>2. CASE ~Linked(x, r)
      BY <2>3, <3>2 DEF Linked
    <3> QED
      BY <3>1, <3>2
  <2>5. \A y \in Entry : <<y, r, "auto">> \in links' => y = x \/ <<y, r, "auto">> \in links
    BY <2>3
  <2>6. context'[r] = context[r] /\ Shown(context[r])' = Shown(context[r])
    BY <1>1, <1>2, <2>2
  <2>7. Bound(r)'
    <3>1. \A y \in Shown(context[r]) : y \in unbound[r] \/ Linked(y, r)
      BY <1>1, <2>2 DEF Provided, Bound
    <3>2. \A y \in Shown(context[r]) : y \in unbound'[r] \/ Linked(y, r)'
      BY <1>2, <2>3, <2>4, <3>1
    <3> QED
      BY <1>1, <2>2, <2>3, <2>6, <3>2 DEF Bound
  <2> QED
    BY <1>1, <1>2, <2>2, <2>3, <2>5, <2>6, <2>7 DEF Provided
<1> QED
  BY <1>3, <1>4

\* If what is saved stays saved, the invariant is what is known of each action.
LEMMA ProvenanceFrom ==
  ASSUME \A b \in snapshots' : b \in Builder /\ at'[b] = "done",
         \A r \in Recorder : Provided(r)'
  PROVE  ProvenanceInv'
  BY DEF ProvenanceInv, Saved, Provided, ProvenanceComplete

LEMMA ProvenanceBuild ==
  ASSUME Types, ProvenanceInv, NEW c \in Builder, Build(c)
  PROVE  ProvenanceInv'
<1>1. at[c] # "done" /\ UNCHANGED <<context, unbound, links>>
  BY DEF Build, Retrieve, Arrive, RetrievePatterns, ListPeers, CheckPeer, Assemble, RecordUsage,
         LoadExperience, CountUse, RecordPatternUsage, SaveSnapshot
<1>2. /\ \A b \in snapshots : b \in Builder /\ at[b] = "done"
      /\ \A r \in Recorder : Provided(r)
  BY ProvidedEach
<1>3. snapshots' = snapshots \/ (snapshots' = snapshots \cup {c} /\ at'[c] = "done")
  BY DEF Types, Build, Retrieve, RetrievePatterns, ListPeers, CheckPeer, Assemble, RecordUsage,
         LoadExperience, CountUse, RecordPatternUsage, SaveSnapshot
<1>4. \A b \in snapshots : /\ b \in Builder /\ b # c /\ at'[b] = "done"
                           /\ Shown(b)' = Shown(b) /\ episode'[b] = episode[b]
  BY <1>1, <1>2, OthersBuild DEF Shown
<1>5. Kept
  BY <1>1, <1>3, <1>4 DEF Kept
<1>6. ASSUME NEW r \in Recorder
      PROVE  at'[r] = at[r] /\ answer'[r] = answer[r] /\ episode'[r] = episode[r]
  <2>1. r # c
    BY ContextAssumption
  <2>2. CASE (\E ep \in Episode \cup {None} : Retrieve(c, ep)) \/ RetrievePatterns(c)
    BY <2>1, <2>2 DEF Types, Retrieve, RetrievePatterns
  <2>3. CASE ListPeers(c) \/ (\E e \in Experience, readable \in BOOLEAN : CheckPeer(c, e, readable))
    BY <2>1, <2>3 DEF Types, ListPeers, CheckPeer
  <2>4. CASE Assemble(c)
    BY <2>1, <2>4 DEF Types, Assemble
  <2>5. CASE RecordUsage(c) \/ LoadExperience(c)
    BY <2>1, <2>5 DEF Types, RecordUsage, LoadExperience
  <2>6. CASE CountUse(c)
    BY <2>1, <2>6 DEF Types, CountUse
  <2>7. CASE RecordPatternUsage(c) \/ SaveSnapshot(c)
    BY <2>1, <2>7 DEF Types, RecordPatternUsage, SaveSnapshot
  <2> QED
    BY <2>2, <2>3, <2>4, <2>5, <2>6, <2>7 DEF Build
<1>7. Saved
  BY DEF ProvenanceInv
<1>8. \A r \in Recorder : Provided(r)'
  BY <1>1, <1>2, <1>5, <1>6, <1>7, ProvidedStays
<1>9. \A b \in snapshots' : b \in Builder /\ at'[b] = "done"
  BY <1>3, <1>4
<1> QED
  BY <1>8, <1>9, ProvenanceFrom


LEMMA ProvenanceRecord ==
  ASSUME Types, ProvenanceInv, NEW q \in Recorder, Record(q)
  PROVE  ProvenanceInv'
<1>1. /\ Kept /\ snapshots' = snapshots
      /\ \A b \in Builder : at'[b] = at[b]
  BY RecorderKeeps
<1>2. Saved /\ \A r \in Recorder : Provided(r)
  BY ProvidedEach DEF ProvenanceInv
<1>3. ASSUME NEW r \in Recorder, r # q
      PROVE  Provided(r)'
  BY <1>1, <1>2, <1>3, RecorderKeeps, ProvidedStays
<1>4. Provided(q)'
  <2>1. ASSUME NEW ep \in Episode, NEW b \in Builder \cup {None}, NEW n, RecordAction(q, ep, b, n)
        PROVE  Provided(q)'
    BY <1>1, <1>2, <2>1, ProvidedRecord
  <2>2. CASE Number(q)
    <3>1. /\ at'[q] = "insert" /\ answer'[q] # "ok"
          /\ UNCHANGED <<context, episode, unbound, links>>
      BY <1>2, <2>2 DEF Types, Number, Provided, Bound
    <3> QED
      BY <1>1, <1>2, <3>1, ProvidedStays
  <2>3. CASE CreateAction(q)
    BY <1>1, <1>2, <2>3, ProvidedCreate
  <2>4. CASE BindContextProvenance(q)
    BY <1>1, <1>2, <2>4, ProvidedBind
  <2> QED
    BY <2>1, <2>2, <2>3, <2>4 DEF Record
<1>5. \A b \in snapshots' : b \in Builder /\ at'[b] = "done"
  BY <1>1, <1>2 DEF Saved
<1> QED
  BY <1>3, <1>4, <1>5, ProvenanceFrom

\* A link by hand is one more, and none that a context is to answer for.
LEMMA ProvenanceElsewhere ==
  ASSUME Types, ProvenanceInv, Elsewhere
  PROVE  ProvenanceInv'
<1>1. UNCHANGED <<at, answer, episode, context, unbound, shown, shownPatterns, snapshots>>
  BY DEF Elsewhere, LinkExperience, Supersede, RecordConflict, Rate, DeprecatePattern
<1>2. /\ links \subseteq links'
      /\ \A x, r : <<x, r, "auto">> \in links' => <<x, r, "auto">> \in links
  BY DEF Elsewhere, LinkExperience, Supersede, RecordConflict, Rate, DeprecatePattern
<1>3. Kept
  BY <1>1, <1>2 DEF Kept, Shown
<1>4. Saved /\ \A r \in Recorder : Provided(r)
  BY ProvidedEach DEF ProvenanceInv
<1>5. \A r \in Recorder : Provided(r)'
  BY <1>1, <1>2, <1>3, <1>4, ProvidedStays
<1>6. \A b \in snapshots' : b \in Builder /\ at'[b] = "done"
  BY <1>1, <1>4 DEF Saved
<1> QED
  BY <1>5, <1>6, ProvenanceFrom

LEMMA ProvenanceFail ==
  ASSUME Types, ProvenanceInv, NEW q \in Request, Fail(q)
  PROVE  ProvenanceInv'
<1>1. /\ UNCHANGED <<episode, context, unbound, shown, shownPatterns, snapshots, links>>
      /\ at'[q] = "done" /\ answer'[q] = "error"
      /\ \A p \in Request : p # q => at'[p] = at[p] /\ answer'[p] = answer[p]
  BY FailStays
<1>2. Kept
  BY <1>1 DEF Kept, Shown
<1>3. Saved /\ \A r \in Recorder : Provided(r)
  BY ProvidedEach DEF ProvenanceInv
<1>4. \A r \in Recorder : Provided(r)'
  BY <1>1, <1>2, <1>3, ProvidedStays
<1>5. \A b \in snapshots' : b \in Builder /\ at'[b] = "done"
  BY <1>1, <1>3 DEF Saved
<1> QED
  BY <1>4, <1>5, ProvenanceFrom

LEMMA StepProvenance ==
  ASSUME Types, ProvenanceInv, [Next]_vars
  PROVE  ProvenanceInv'
<1>1. CASE UNCHANGED vars
  BY <1>1 DEF ProvenanceInv, Saved, Bound, ProvenanceComplete, MayName, Shown, Linked
<1> QED
  BY <1>1, ProvenanceBuild, ProvenanceRecord, ProvenanceElsewhere, ProvenanceFail DEF Next

(* An action that was answered with success is linked to all that its      *)
(* context showed, whatever failed or was linked by hand meanwhile, and    *)
(* what is linked for a context was shown in one it may name.              *)
THEOREM ProvenanceIsComplete == Spec => []ProvenanceComplete
<1>1. Init => Types /\ ProvenanceInv
  BY InitTypes, InitProvenance
<1>2. Types /\ ProvenanceInv /\ [Next]_vars => (Types /\ ProvenanceInv)'
  BY StepTypes, StepProvenance
<1>3. ProvenanceInv => ProvenanceComplete
  BY DEF ProvenanceInv
<1> QED
  BY <1>1, <1>2, <1>3, PTL DEF Spec

=============================================================================
