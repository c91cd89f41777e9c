-------------------------- MODULE ContextProvenance --------------------------
(***************************************************************************)
(* What an agent is shown and what it is said to have acted on: the context*)
(* service (internal/contextx: retrieve, select, build, record usages, save*)
(* a snapshot) and the action service (internal/action: number and store an*)
(* action, bind it to what its context showed).                            *)
(*                                                                         *)
(* Requests run side by side, each read and each write of the database is  *)
(* a step, and experiences are superseded, contradicted and rated between  *)
(* them.  A request is modelled from its arrival to its answer; a builder  *)
(* or recorder stands for one request, and its name for the context or the *)
(* action it creates.  How an experience scores is its Grade.              *)
(***************************************************************************)
EXTENDS Integers, FiniteSets, FiniteSetsExt, Functions

CONSTANTS
    Experience, Pattern, Episode,
    Builder, Recorder,      \* the requests for a context, to record an action
    Rank,           \* the place of an entry, best first, experiences before patterns
    Grade,          \* what the thresholds of the selector make of one
    Evidence,       \* the experiences a pattern generalises
    Trial,          \* the experiences that are CANDIDATE, not ACTIVE, at first
    Weight,         \* the characters an entry takes
    Budget, Least,  \* the characters there are; those a trimmed entry needs
    MaxExperiences, MaxPatterns,
    None,
    MaxRequests, MaxSequence, MaxChanges, MaxFaults,    \* bounds
    MaxEvents       \* bound: changes and faults together

Entry == Experience \cup Pattern
ASSUME ContextAssumption ==
    /\ Grade \in [Experience -> {"KEEP", "COMPRESS", "IGNORE", "BLOCK"}]
    /\ Evidence \in [Pattern -> SUBSET Experience]
    /\ Weight \in [Entry -> Nat \ {0}] /\ Budget \in Nat /\ Least \in Nat
    /\ MaxExperiences \in Nat \ {0} /\ MaxPatterns \in Nat \ {0}
    /\ Rank \in Injection(Entry, Nat)
    /\ \A e \in Experience, p \in Pattern : Rank[e] < Rank[p]
    /\ IsFiniteSet(Entry) /\ IsFiniteSet(Builder) /\ Builder \cap Recorder = {}
    /\ None \notin Episode \cup Experience \cup Builder

VARIABLES
    status, version, uses,  \* of an experience: the columns that matter here
    conflicts,      \* the pairs related by CONFLICTS
    live,           \* the patterns that are ACTIVE
    usages, patternUsages,  \* <<builder, experience or pattern>>: usage rows
    snapshots,      \* the contexts saved
    sequence,       \* the number an action is stored under, or 0
    links,          \* <<experience or pattern, action, "auto" or "manual">>
    at, episode,    \* where a request is, and the episode it names
    found, foundPatterns,   \* what retrieval returned to a builder
    peers, unasked, \* its conflict map, and the keys still to be checked
    shown, shownPatterns,   \* the context it assembled
    queue,          \* the entries whose usage it has still to record
    copy,           \* the experience it has read to count a use
    context,        \* the context a recorder names, or None
    number,         \* the number it will store its action under
    unbound,        \* the entries it has still to link
    answer,         \* how a request was answered
    requests, changes, faults,  \* how much of the bounds is used
    opposed,        \* history: the conflicts a builder was told of
    excused         \* history: keys whose peer was superseded or unreadable

storeVars == <<status, version, uses, conflicts, live>>
ledgerVars == <<usages, patternUsages, snapshots, sequence, links>>
buildVars == <<found, foundPatterns, peers, unasked, shown, shownPatterns,
               queue, copy, opposed, excused>>
recordVars == <<context, number, unbound>>
requestVars == <<at, episode, answer>>
boundVars == <<requests, changes, faults>>
vars == <<storeVars, ledgerVars, buildVars, recordVars, requestVars,
          boundVars>>

Request == Builder \cup Recorder

MayChange == changes < MaxChanges /\ changes + faults < MaxEvents
MayFail == faults < MaxFaults /\ changes + faults < MaxEvents

NoPeers == [e \in Experience |-> None]

Init ==
    /\ status = [e \in Experience |->
                    IF e \in Trial THEN "CANDIDATE" ELSE "ACTIVE"]
    /\ version = [e \in Experience |-> 1]
    /\ uses = [e \in Experience |-> 0]
    /\ conflicts = {}
    /\ live = Pattern
    /\ usages = {} /\ patternUsages = {} /\ snapshots = {} /\ links = {}
    /\ sequence = [r \in Recorder |-> 0]
    /\ at = [q \in Request |-> "idle"]
    /\ episode = [q \in Request |-> None]
    /\ answer = [q \in Request |-> "none"]
    /\ found = [b \in Builder |-> {}]
    /\ foundPatterns = [b \in Builder |-> {}]
    /\ peers = [b \in Builder |-> NoPeers]
    /\ unasked = [b \in Builder |-> {}]
    /\ shown = [b \in Builder |-> {}]
    /\ shownPatterns = [b \in Builder |-> {}]
    /\ queue = [b \in Builder |-> {}]
    /\ copy = [b \in Builder |-> None]
    /\ context = [r \in Recorder |-> None]
    /\ number = [r \in Recorder |-> 0]
    /\ unbound = [r \in Recorder |-> {}]
    /\ requests = 0 /\ changes = 0 /\ faults = 0
    /\ opposed = [b \in Builder |-> {}] /\ excused = [b \in Builder |-> {}]

-----------------------------------------------------------------------------
(* Retrieval and the conflicts among what it returned.                     *)

Retrievable(e) == status[e] \in {"ACTIVE", "CANDIDATE"}

(* Lists are in the order of Rank: the first n of one, and the first. *)
Top(S, n) == {x \in S : Cardinality({y \in S : Rank[y] < Rank[x]}) < n}
First(S) == CHOOSE x \in S : \A y \in S : Rank[x] <= Rank[y]

(* A request that has not been made yet arrives. *)
Arrive(q) ==
    /\ at[q] = "idle"
    /\ requests < MaxRequests
    /\ requests' = requests + 1

(* A build begins: semantic search over the retrievable experiences. *)
Retrieve(b, ep) ==
    /\ Arrive(b)
    /\ episode' = [episode EXCEPT ![b] = ep]
    /\ found' = [found EXCEPT ![b] = {e \in Experience : Retrievable(e)}]
    /\ at' = [at EXCEPT ![b] = "patterns"]
    /\ UNCHANGED <<storeVars, ledgerVars, foundPatterns, peers, unasked,
                   shown, shownPatterns, queue, copy, opposed, excused,
                   recordVars, answer, changes, faults>>

RetrievePatterns(b) ==
    /\ at[b] = "patterns"
    /\ foundPatterns' = [foundPatterns EXCEPT ![b] = Top(live, MaxPatterns)]
    /\ at' = [at EXCEPT ![b] = IF found[b] = {} THEN "assemble" ELSE "peers"]
    /\ UNCHANGED <<storeVars, ledgerVars, found, peers, unasked, shown,
                   shownPatterns, queue, copy, opposed, excused, recordVars,
                   episode, answer, boundVars>>

(* The conflict map of the ids asked for, when the rows come in this order: *)
(* one peer for each id, that of the last row that names it.                *)
PeerMap(ids, place) ==
    [e \in Experience |->
        LET naming == {pair \in DOMAIN place : e \in pair}
            last == CHOOSE pair \in naming : \A q \in naming : place[q] <= place[pair]
        IN IF e \notin ids \/ naming = {} THEN None
           ELSE CHOOSE f \in last : f # e]

(* The query of the conflicts; no order is asked of its rows. *)
ListPeers(b) ==
    LET related == {pair \in conflicts : pair \cap found[b] # {}}
    IN /\ at[b] = "peers"
       /\ \E place \in Injection(related, 1..Cardinality(related)) :
            peers' = [peers EXCEPT ![b] = PeerMap(found[b], place)]
       /\ unasked' = [unasked EXCEPT ![b] =
                          {e \in found[b] : \E pair \in related : e \in pair}]
       /\ opposed' = [opposed EXCEPT ![b] = related]
       /\ at' = [at EXCEPT ![b] = "check"]
       /\ UNCHANGED <<storeVars, ledgerVars, found, foundPatterns, shown,
                      shownPatterns, queue, copy, excused, recordVars,
                      episode, answer, boundVars>>

(* Faulty: a conflict with an experience on trial is no conflict. *)
StillOpposedIfActive(e, f) == status[e] = "ACTIVE" /\ status[f] = "ACTIVE"

StillOpposed(e, f) == Retrievable(e) /\ Retrievable(f)

(* One key of the map is looked up with its peer; a pair one side of which *)
(* is no longer retrievable, or cannot be read, leaves the map.            *)
CheckPeer(b, e, readable) ==
    LET f == peers[b][e]
    IN /\ at[b] = "check" /\ e \in unasked[b]
       /\ readable \/ MayFail
       /\ faults' = IF readable THEN faults ELSE faults + 1
       /\ peers' = IF readable /\ StillOpposed(e, f) THEN peers
                   ELSE [peers EXCEPT ![b][e] = None]
       /\ excused' = IF readable /\ Retrievable(e) /\ Retrievable(f)
                     THEN excused ELSE [excused EXCEPT ![b] = @ \cup {e}]
       /\ unasked' = [unasked EXCEPT ![b] = @ \ {e}]
       /\ UNCHANGED <<storeVars, ledgerVars, found, foundPatterns, shown,
                      shownPatterns, queue, copy, opposed, recordVars,
                      requestVars, requests, changes>>

-----------------------------------------------------------------------------
(* Selection and assembly.                                                 *)

(* What the selector makes of an experience it was given; retrieval returns *)
(* what can be retrieved, so its own check of the status never blocks.      *)
Decision(b, e) == IF peers[b][e] # None THEN "BLOCK" ELSE Grade[e]

Selected(b) ==
    {e \in found[b] : Decision(b, e) \in {"KEEP", "COMPRESS"}}

Chars(S) == MapThenSumSet(LAMBDA x : Weight[x], S)

(* The entries that are added one by one until one does not fit. *)
Fitting(S, cap, used) ==
    UNION {Top(S, n) : n \in {m \in 1..cap : used + Chars(Top(S, m)) <= Budget}}

(* The first entry is put in even where it does not fit: whole if something *)
(* else is there or may follow, trimmed if it is alone, for which there     *)
(* must be room.                                                            *)
Entries(S, cap, used) ==
    LET fitting == Fitting(S, cap, used)
    IN IF fitting = {} THEN Top(S, 1) ELSE fitting
NoRoom(S, cap, used) ==
    S # {} /\ Fitting(S, cap, used) = {} /\ used + Least > Budget

(* The patterns first, then the experiences they do not cover. *)
PatternList(b) == Entries(foundPatterns[b], MaxPatterns, 0)

Uncovered(b) == Selected(b) \ UNION {Evidence[p] : p \in PatternList(b)}

ExperienceList(b) == Entries(Uncovered(b), MaxExperiences, Chars(PatternList(b)))

BudgetFails(b) ==
    \/ found[b] = {} /\ NoRoom(foundPatterns[b], MaxPatterns, 0)
    \/ PatternList(b) = {} /\ NoRoom(Uncovered(b), MaxExperiences, 0)

(* The selections whose usage is recorded: those in the context, or, when  *)
(* none of them is, all of them.                                           *)
Counted(b) == IF ExperienceList(b) = {} THEN Selected(b) ELSE ExperienceList(b)

Assemble(b) ==
    /\ \/ at[b] = "assemble"
       \/ at[b] = "check" /\ unasked[b] = {}
    /\ IF BudgetFails(b)
       THEN /\ answer' = [answer EXCEPT ![b] = "error"]
            /\ at' = [at EXCEPT ![b] = "done"]
            /\ UNCHANGED <<shown, shownPatterns, queue>>
       ELSE /\ shown' = [shown EXCEPT ![b] = ExperienceList(b)]
            /\ shownPatterns' = [shownPatterns EXCEPT ![b] = PatternList(b)]
            /\ queue' = [queue EXCEPT ![b] = IF episode[b] = None THEN {} ELSE Counted(b)]
            /\ at' = [at EXCEPT ![b] = IF episode[b] = None THEN "save" ELSE "count"]
            /\ UNCHANGED answer
    /\ found' = [found EXCEPT ![b] = {}]
    /\ foundPatterns' = [foundPatterns EXCEPT ![b] = {}]
    /\ peers' = [peers EXCEPT ![b] = NoPeers]
    /\ UNCHANGED <<storeVars, ledgerVars, unasked, copy, opposed, excused,
                   recordVars, episode, boundVars>>

-----------------------------------------------------------------------------
(* The ledger of usages.                                                   *)

(* The usage row of the next entry, or on to the patterns. *)
RecordUsage(b) ==
    /\ at[b] = "count"
    /\ IF queue[b] = {}
       THEN /\ at' = [at EXCEPT ![b] = "tally"]
            /\ queue' = [queue EXCEPT ![b] = shownPatterns[b]]
            /\ UNCHANGED usages
       ELSE /\ usages' = usages \cup {<<b, First(queue[b])>>}
            /\ at' = [at EXCEPT ![b] = "load"]
            /\ UNCHANGED queue
    /\ UNCHANGED <<storeVars, patternUsages, snapshots, sequence, links, found,
                   foundPatterns, peers, unasked, shown, shownPatterns, copy,
                   opposed, excused, recordVars, episode, answer, boundVars>>

LoadExperience(b) ==
    LET e == First(queue[b])
    IN /\ at[b] = "load"
       /\ copy' = [copy EXCEPT ![b] = [status |-> status[e], uses |-> uses[e],
                                       version |-> version[e]]]
       /\ at' = [at EXCEPT ![b] = "bump"]
       /\ UNCHANGED <<storeVars, ledgerVars, found, foundPatterns, peers,
                      unasked, shown, shownPatterns, queue, opposed, excused,
                      recordVars, episode, answer, boundVars>>

(* Faulty: the update takes whatever version the row has. *)
UnchangedSinceAny(b, e) == copy[b].version <= version[e]

UnchangedSince(b, e) == version[e] = copy[b].version

(* The whole row is written back with one more use, the status as it was   *)
(* read; a row that has another version by now fails the build.            *)
CountUse(b) ==
    LET e == First(queue[b])
    IN /\ at[b] = "bump"
       /\ IF UnchangedSince(b, e)
          THEN /\ uses' = [uses EXCEPT ![e] = copy[b].uses + 1]
               /\ status' = [status EXCEPT ![e] = copy[b].status]
               /\ version' = [version EXCEPT ![e] = copy[b].version + 1]
               /\ queue' = [queue EXCEPT ![b] = @ \ {e}]
               /\ at' = [at EXCEPT ![b] = "count"]
               /\ UNCHANGED answer
          ELSE /\ answer' = [answer EXCEPT ![b] = "error"]
               /\ at' = [at EXCEPT ![b] = "done"]
               /\ UNCHANGED <<uses, status, version, queue>>
       /\ copy' = [copy EXCEPT ![b] = None]
       /\ UNCHANGED <<conflicts, live, ledgerVars, found, foundPatterns, peers,
                      unasked, shown, shownPatterns, opposed, excused,
                      recordVars, episode, boundVars>>

RecordPatternUsage(b) ==
    /\ at[b] = "tally"
    /\ IF queue[b] = {}
       THEN /\ at' = [at EXCEPT ![b] = "save"]
            /\ UNCHANGED <<queue, patternUsages>>
       ELSE /\ patternUsages' = patternUsages \cup {<<b, First(queue[b])>>}
            /\ queue' = [queue EXCEPT ![b] = @ \ {First(@)}]
            /\ UNCHANGED at
    /\ UNCHANGED <<storeVars, usages, snapshots, sequence, links, found,
                   foundPatterns, peers, unasked, shown, shownPatterns, copy,
                   opposed, excused, recordVars, episode, answer, boundVars>>

(* The snapshot is stored and its id is part of the answer. *)
SaveSnapshot(b) ==
    /\ at[b] = "save"
    /\ snapshots' = snapshots \cup {b}
    /\ answer' = [answer EXCEPT ![b] = "ok"]
    /\ at' = [at EXCEPT ![b] = "done"]
    /\ UNCHANGED <<storeVars, usages, patternUsages, sequence, links,
                   buildVars, recordVars, episode, boundVars>>

-----------------------------------------------------------------------------
(* Actions.                                                                *)

Stored == {r \in Recorder : sequence[r] # 0}

Actions(ep) == {r \in Stored : episode[r] = ep}

(* The snapshot an action names exists and is of its episode or of none. *)
MayName(b, ep) == b \in snapshots /\ episode[b] \in {None, ep}

(* A request to record an action: the context it names, if any, is looked  *)
(* up first; a sequence of 0 asks for the next one.                        *)
RecordAction(r, ep, b, wanted) ==
    /\ Arrive(r)
    /\ episode' = [episode EXCEPT ![r] = ep]
    /\ IF b = None \/ MayName(b, ep)
       THEN /\ context' = [context EXCEPT ![r] = b]
            /\ number' = [number EXCEPT ![r] = wanted]
            /\ at' = [at EXCEPT ![r] = IF wanted = 0 THEN "number" ELSE "insert"]
            /\ UNCHANGED answer
       ELSE /\ answer' = [answer EXCEPT ![r] = "refused"]
            /\ at' = [at EXCEPT ![r] = "done"]
            /\ UNCHANGED <<context, number>>
    /\ UNCHANGED <<storeVars, ledgerVars, buildVars, unbound, changes, faults>>

NextActionSequence(ep) ==
    1 + (IF Actions(ep) = {} THEN 0
         ELSE CHOOSE n \in {sequence[r] : r \in Actions(ep)} :
                \A r \in Actions(ep) : sequence[r] <= n)

Number(r) ==
    /\ at[r] = "number"
    /\ NextActionSequence(episode[r]) <= MaxSequence
    /\ number' = [number EXCEPT ![r] = NextActionSequence(episode[r])]
    /\ at' = [at EXCEPT ![r] = "insert"]
    /\ UNCHANGED <<storeVars, ledgerVars, buildVars, context, unbound,
                   episode, answer, boundVars>>

Shown(b) == shown[b] \cup shownPatterns[b]

(* The insert; an action of the episode that has the number fails it. *)
CreateAction(r) ==
    /\ at[r] = "insert"
    /\ IF \E q \in Actions(episode[r]) : sequence[q] = number[r]
       THEN /\ answer' = [answer EXCEPT ![r] = "error"]
            /\ at' = [at EXCEPT ![r] = "done"]
            /\ UNCHANGED <<sequence, unbound>>
       ELSE /\ sequence' = [sequence EXCEPT ![r] = number[r]]
            /\ unbound' = [unbound EXCEPT ![r] =
                    IF context[r] = None THEN {} ELSE Shown(context[r])]
            /\ at' = [at EXCEPT ![r] = "bind"]
            /\ UNCHANGED answer
    /\ number' = [number EXCEPT ![r] = 0]
    /\ UNCHANGED <<storeVars, usages, patternUsages, snapshots, links,
                   buildVars, context, episode, boundVars>>

Linked(x, r) == \E how \in {"auto", "manual"} : <<x, r, how>> \in links

(* Faulty: a link that is there already ends the binding. *)
RestIfNew(r) ==
    IF Linked(First(unbound[r]), r) THEN {} ELSE unbound[r] \ {First(unbound[r])}

Rest(r) == unbound[r] \ {First(unbound[r])}

(* The next entry of the context is linked to the action, unless it is;    *)
(* with the last one the action is answered.                               *)
BindContextProvenance(r) ==
    /\ at[r] = "bind"
    /\ IF unbound[r] = {}
       THEN /\ answer' = [answer EXCEPT ![r] = "ok"]
            /\ at' = [at EXCEPT ![r] = "done"]
            /\ UNCHANGED <<links, unbound>>
       ELSE /\ links' = IF Linked(First(unbound[r]), r) THEN links
                        ELSE links \cup {<<First(unbound[r]), r, "auto">>}
            /\ unbound' = [unbound EXCEPT ![r] = Rest(r)]
            /\ UNCHANGED <<at, answer>>
    /\ UNCHANGED <<storeVars, usages, patternUsages, snapshots, sequence,
                   buildVars, context, number, episode, boundVars>>

(* Somebody links an experience to an action of the episode by hand. *)
LinkExperience(e, r, ep) ==
    /\ r \in Actions(ep) /\ MayChange
    /\ ~Linked(e, r)
    /\ links' = links \cup {<<e, r, "manual">>}
    /\ changes' = changes + 1
    /\ UNCHANGED <<storeVars, usages, patternUsages, snapshots, sequence,
                   buildVars, recordVars, requestVars, requests, faults>>

-----------------------------------------------------------------------------
(* What else happens to the rows, and what goes wrong.                     *)

Change == MayChange /\ changes' = changes + 1

StatusOfLoser == "DEPRECATED"

(* Supersede writes the status of the loser and leaves its version. *)
Supersede(e) ==
    /\ Change
    /\ Retrievable(e)
    /\ status' = [status EXCEPT ![e] = StatusOfLoser]
    /\ UNCHANGED <<version, uses, conflicts, live, ledgerVars, buildVars,
                   recordVars, requestVars, requests, faults>>

(* A store pipeline records that two experiences contradict each other. *)
RecordConflict(e, f) ==
    /\ Change
    /\ e # f /\ {e, f} \notin conflicts
    /\ conflicts' = conflicts \cup {{e, f}}
    /\ UNCHANGED <<status, version, uses, live, ledgerVars, buildVars,
                   recordVars, requestVars, requests, faults>>

(* Feedback rates an experience. *)
Rate(e) ==
    /\ Change
    /\ version' = [version EXCEPT ![e] = @ + 1]
    /\ UNCHANGED <<status, uses, conflicts, live, ledgerVars, buildVars,
                   recordVars, requestVars, requests, faults>>

DeprecatePattern(p) ==
    /\ Change
    /\ p \in live
    /\ live' = live \ {p}
    /\ UNCHANGED <<status, version, uses, conflicts, ledgerVars, buildVars,
                   recordVars, requestVars, requests, faults>>

(* A statement of a request fails, or the server that runs it stops. *)
Fail(q) ==
    /\ at[q] \notin {"idle", "done"}
    /\ MayFail
    /\ faults' = faults + 1
    /\ answer' = [answer EXCEPT ![q] = "error"]
    /\ at' = [at EXCEPT ![q] = "done"]
    /\ UNCHANGED <<storeVars, ledgerVars, buildVars, recordVars, episode,
                   requests, changes>>

Build(b) ==
    \/ \E ep \in Episode \cup {None} : Retrieve(b, ep)
    \/ RetrievePatterns(b)
    \/ ListPeers(b)
    \/ \E e \in Experience, readable \in BOOLEAN : CheckPeer(b, e, readable)
    \/ Assemble(b)
    \/ RecordUsage(b)
    \/ LoadExperience(b)
    \/ CountUse(b)
    \/ RecordPatternUsage(b)
    \/ SaveSnapshot(b)

Record(r) ==
    \/ \E ep \in Episode, b \in Builder \cup {None}, n \in 0..MaxSequence :
            RecordAction(r, ep, b, n)
    \/ Number(r)
    \/ CreateAction(r)
    \/ BindContextProvenance(r)

Elsewhere ==
    \/ \E e \in Experience, r \in Recorder, ep \in Episode :
            LinkExperience(e, r, ep)
    \/ \E e \in Experience : Supersede(e)
    \/ \E e, f \in Experience : RecordConflict(e, f)
    \/ \E e \in Experience : Rate(e)
    \/ \E p \in Pattern : DeprecatePattern(p)

Next ==
    \/ \E b \in Builder : Build(b)
    \/ \E r \in Recorder : Record(r)
    \/ Elsewhere
    \/ \E q \in Request : Fail(q)

Spec == Init /\ [][Next]_vars

-----------------------------------------------------------------------------
(* What the two services promise.                                          *)

(* Two experiences that were known to contradict each other when a context *)
(* was selected are not both in it, unless for either of them the one peer *)
(* its map kept had been superseded or could not be read (one peer per id: *)
(* relation_repository.go ConflictPeers, conflict.go ConflictPeers).       *)
OppositesApart ==
    \A b \in Builder : \A pair \in opposed[b] :
        pair \subseteq shown[b] => pair \subseteq excused[b]

(* The use count of an experience is the number of its usage rows, less    *)
(* those of builds that have not come to count it or broke off before      *)
(* (learning RecordUsages: row first, then read and conditional write).    *)
UseCountExact ==
    \A e \in Experience :
        uses[e] = Cardinality({b \in Builder :
                    <<b, e>> \in usages /\ e \notin queue[b]})

(* An action answered with success is linked to all its context showed,    *)
(* and what is linked for a context was shown in one that the episode of   *)
(* the action may name (action RecordAction, bindContextProvenance).       *)
ProvenanceComplete ==
    /\ \A r \in Recorder :
         answer[r] = "ok" /\ context[r] # None =>
            \A x \in Shown(context[r]) : Linked(x, r)
    /\ \A x \in Entry, r \in Recorder :
         <<x, r, "auto">> \in links =>
            /\ context[r] # None /\ x \in Shown(context[r])
            /\ MayName(context[r], episode[r])

=============================================================================
