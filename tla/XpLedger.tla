------------------------------ MODULE XpLedger ------------------------------
(***************************************************************************)
(* The XP ledger of one learner and its cached total, as the requests of   *)
(* that learner (two browser tabs, a double click, a retry) see them.      *)
(* It models ProgressService (services/progress_service.py) with the two   *)
(* transactions every completion runs: the one that grants XP for what was *)
(* completed, and, after its commit, AchievementService.evaluate.          *)
(*                                                                         *)
(* A request is a database session: it reads committed rows, sees its own  *)
(* uncommitted ones, and works on the copy of user_stats that              *)
(* get_current_user loaded, which is not refreshed by later SELECTs        *)
(* (db/session.py: one session per request, READ COMMITTED, no expiry).    *)
(* An action is one statement, or the statements up to the next await at   *)
(* which another request can change something this one depends on.         *)
(***************************************************************************)
EXTENDS LevelCurve

CONSTANTS
  Requests,     \* requests of the learner that can be in flight at once
  Activities,   \* the lessons, courses, labs and quizzes that pay XP
  Badges,       \* the active achievements
  Reward,       \* XP paid by each source
  Criterion,    \* what each badge asks for: a metric and a least value
  None,         \* no request, no source
  Overlapping   \* FALSE: the learner waits for each answer

Sources == Activities \cup Badges

ASSUME SourcesAssumption   == Activities \cap Badges = {}
ASSUME RewardAssumption    == Reward \in [Sources -> Nat]
ASSUME CriterionAssumption ==
  /\ DOMAIN Criterion = Badges
  /\ \A b \in Badges : /\ Criterion[b].metric \in {"total_xp", "level"}
                      /\ Criterion[b].value \in Nat
ASSUME NoneAssumption      == None \notin Requests \cup Sources
ASSUME OverlapAssumption   == Overlapping \in BOOLEAN

\* The columns of user_stats this module is about, and the row that a total
\* of x XP should have.
Columns  == {"total_xp", "level"}
StatsRow == [Columns -> Nat]
RowFor(x) == [c \in Columns |-> IF c = "total_xp" THEN x ELSE LevelForXp(x)]
NewStats == RowFor(0)

VARIABLES
  ledger,    \* committed xp_transactions rows, counted per source
  xpSum,     \* SELECT sum(amount): what total_for_user answers
  awards,    \* committed user_achievements rows
  stats,     \* committed user_stats row
  lock,      \* the request whose open transaction has updated user_stats
  pc,        \* where each request is
  cache,     \* its in-memory user_stats
  written,   \* columns of user_stats its open transaction has updated
  rows,      \* sources of the ledger rows it has inserted, uncommitted
  pending,   \* the XP of those rows
  granting,  \* the source it found unpaid and is about to pay
  newly,     \* badges evaluate decided to award
  found      \* the sum recalculate_stats has read

database == <<ledger, xpSum, awards, stats>>
local    == <<cache, written, rows, pending, granting, newly, found>>
vars     == <<database, lock, pc, local>>

Phases == {"idle", "main", "evaluate", "award", "badges", "repair"}

TypeOK ==
  /\ ledger \in [Sources -> Nat]
  /\ xpSum \in Nat
  /\ awards \in SUBSET Badges
  /\ stats \in StatsRow
  /\ lock \in Requests \cup {None}
  /\ pc \in [Requests -> Phases]
  /\ cache \in [Requests -> StatsRow]
  /\ written \in [Requests -> SUBSET Columns]
  /\ rows \in [Requests -> SUBSET Sources]
  /\ pending \in [Requests -> Nat]
  /\ granting \in [Requests -> Sources \cup {None}]
  /\ newly \in [Requests -> SUBSET Badges]
  /\ found \in [Requests -> Nat]

Init ==
  /\ ledger = [s \in Sources |-> 0]
  /\ xpSum = 0
  /\ awards = {}
  /\ stats = NewStats
  /\ lock = None
  /\ pc = [r \in Requests |-> "idle"]
  /\ cache = [r \in Requests |-> NewStats]
  /\ written = [r \in Requests |-> {}]
  /\ rows = [r \in Requests |-> {}]
  /\ pending = [r \in Requests |-> 0]
  /\ granting = [r \in Requests |-> None]
  /\ newly = [r \in Requests |-> {}]
  /\ found = [r \in Requests |-> 0]

-----------------------------------------------------------------------------
(* Database transactions *)

\* UPDATE user_stats names only the columns whose value changed, and takes the
\* row lock, waiting for the transaction that holds it.
ChangedTotalOnly(r, row) == {c \in {"total_xp"} : row[c] # cache[r][c]}    \* mutant
Changed(r, row) == {c \in Columns : row[c] # cache[r][c]}
MayUpdate(r)    == lock \in {None, r}

\* COMMIT makes the inserted rows and the updated columns visible to all.
Publish(r) ==
  /\ ledger' = [s \in Sources |-> IF s \in rows[r] THEN ledger[s] + 1
                                                   ELSE ledger[s]]
  /\ xpSum' = xpSum + pending[r]
  /\ stats' = [c \in Columns |-> IF c \in written[r] THEN cache[r][c]
                                                     ELSE stats[c]]

\* The end of a transaction, committed or not: nothing pending, lock released.
EndTransaction(r) ==
  /\ written' = [written EXCEPT ![r] = {}]
  /\ rows' = [rows EXCEPT ![r] = {}]
  /\ pending' = [pending EXCEPT ![r] = 0]
  /\ granting' = [granting EXCEPT ![r] = None]
  /\ lock' = IF lock = r THEN None ELSE lock

\* The session is closed with its request; its objects are forgotten.
Forget(r) ==
  /\ pc' = [pc EXCEPT ![r] = "idle"]
  /\ cache' = [cache EXCEPT ![r] = NewStats]
  /\ newly' = [newly EXCEPT ![r] = {}]
  /\ found' = [found EXCEPT ![r] = 0]

-----------------------------------------------------------------------------
(* The completion transaction *)

\* get_current_user loads the learner and, with it, the user_stats row.
Authenticate(r) ==
  /\ pc[r] = "idle"
  /\ Overlapping \/ \A q \in Requests : pc[q] = "idle"
  /\ pc' = [pc EXCEPT ![r] = "main"]
  /\ cache' = [cache EXCEPT ![r] = stats]
  /\ UNCHANGED <<database, lock, written, rows, pending, granting, newly, found>>

\* What this request may ask grant_xp to pay: anything completed, or a badge
\* it has just recorded as earned.
MayGrant(r, s) ==
  \/ pc[r] = "main" /\ s \in Activities
  \/ pc[r] = "badges" /\ s \in newly[r]

\* grant_xp, up to its SELECT on the ledger, when no row is found.  When one is
\* found grant_xp returns at once and changes nothing.
FindUnpaidUnchecked(r, s) ==     \* mutant: the ledger is not asked
  /\ granting[r] = None
  /\ MayGrant(r, s)
  /\ granting' = [granting EXCEPT ![r] = s]
  /\ UNCHANGED <<database, lock, pc, cache, written, rows, pending, newly, found>>

FindUnpaid(r, s) ==
  /\ granting[r] = None
  /\ MayGrant(r, s)
  /\ ledger[s] = 0 /\ s \notin rows[r]
  /\ granting' = [granting EXCEPT ![r] = s]
  /\ UNCHANGED <<database, lock, pc, cache, written, rows, pending, newly, found>>

\* The rest of grant_xp(commit=False): insert the row, add to the in-memory
\* total, derive the level, flush.
Grant(r) ==
  /\ granting[r] # None
  /\ LET amount == Reward[granting[r]]
         row    == RowFor(cache[r]["total_xp"] + amount)
     IN  /\ Changed(r, row) # {} => MayUpdate(r)
         /\ lock' = IF Changed(r, row) # {} THEN r ELSE lock
         /\ written' = [written EXCEPT ![r] = @ \cup Changed(r, row)]
         /\ cache' = [cache EXCEPT ![r] = row]
         /\ pending' = [pending EXCEPT ![r] = @ + amount]
  /\ rows' = [rows EXCEPT ![r] = @ \cup {granting[r]}]
  /\ granting' = [granting EXCEPT ![r] = None]
  /\ UNCHANGED <<database, pc, newly, found>>

\* record_activity updates last_activity_date on the same row, and the
\* completion commits.
CommitCompletion(r) ==
  /\ pc[r] = "main"
  /\ granting[r] = None
  /\ MayUpdate(r)
  /\ Publish(r)
  /\ EndTransaction(r)
  /\ pc' = [pc EXCEPT ![r] = "evaluate"]
  /\ UNCHANGED <<awards, cache, newly, found>>

-----------------------------------------------------------------------------
(* AchievementService.evaluate, a second transaction on the same session *)

\* Read the badges already earned and compare the others with the in-memory
\* stats; with nothing to award the request is answered.
Qualified(r) ==
  {b \in Badges \ awards : cache[r][Criterion[b].metric] >= Criterion[b].value}

Evaluate(r) ==
  /\ pc[r] = "evaluate"
  /\ \/ /\ Qualified(r) = {}
        /\ Forget(r)
     \/ /\ Qualified(r) # {}
        /\ newly' = [newly EXCEPT ![r] = Qualified(r)]
        /\ pc' = [pc EXCEPT ![r] = "award"]
        /\ UNCHANGED <<cache, found>>
  /\ UNCHANGED <<database, lock, written, rows, pending, granting>>

\* Insert the user_achievements rows.  The unique constraint makes the insert
\* wait for another open transaction that has inserted one of them.
InsertAwardsNotUnique(r) ==     \* mutant: no unique constraint
  /\ pc[r] = "award"
  /\ pc' = [pc EXCEPT ![r] = "badges"]
  /\ UNCHANGED <<database, lock, local>>

InsertAwards(r) ==
  /\ pc[r] = "award"
  /\ newly[r] \cap awards = {}
  /\ \A q \in Requests \ {r} : pc[q] = "badges" => newly[q] \cap newly[r] = {}
  /\ pc' = [pc EXCEPT ![r] = "badges"]
  /\ UNCHANGED <<database, lock, local>>

\* ... and fail when another request has committed one of them.
AwardConflict(r) ==
  /\ pc[r] = "award"
  /\ newly[r] \cap awards # {}
  /\ EndTransaction(r)
  /\ Forget(r)
  /\ UNCHANGED database

\* Every badge that pays has been paid; the awards commit with their XP.
CommitBadges(r) ==
  /\ pc[r] = "badges"
  /\ granting[r] = None
  /\ \A b \in newly[r] : Reward[b] > 0 => b \in rows[r] \/ ledger[b] > 0
  /\ Publish(r)
  /\ awards' = awards \cup newly[r]
  /\ EndTransaction(r)
  /\ Forget(r)

-----------------------------------------------------------------------------
(* recalculate_stats, and failure *)

\* total_for_user: the ledger's sum, 0 when there are no rows.
TotalForUser      == xpSum

\* Read the sum ...
ReadLedgerSum(r) ==
  /\ pc[r] = "main"
  /\ granting[r] = None /\ rows[r] = {}
  /\ found' = [found EXCEPT ![r] = TotalForUser]
  /\ pc' = [pc EXCEPT ![r] = "repair"]
  /\ UNCHANGED <<database, lock, cache, written, rows, pending, granting, newly>>

\* ... and write it over the cached total, level with it.
CommitRepair(r) ==
  /\ pc[r] = "repair"
  /\ LET row == RowFor(found[r])
     IN  /\ Changed(r, row) # {} => MayUpdate(r)
         /\ stats' = [c \in Columns |-> IF c \in Changed(r, row) THEN row[c]
                                                                 ELSE stats[c]]
  /\ EndTransaction(r)
  /\ Forget(r)
  /\ UNCHANGED <<ledger, xpSum, awards>>

\* An exception, a dropped connection or a crash of the worker: get_db rolls
\* the open transaction back.
AbortKeepsStats(r) ==     \* mutant: user_stats is not rolled back
  /\ pc[r] # "idle"
  /\ stats' = [c \in Columns |-> IF c \in written[r] THEN cache[r][c]
                                                     ELSE stats[c]]
  /\ EndTransaction(r)
  /\ Forget(r)
  /\ UNCHANGED <<ledger, xpSum, awards>>

AbortLeftOpen(r) ==     \* mutant: no rollback, the row lock stays
  /\ pc[r] # "idle"
  /\ written' = [written EXCEPT ![r] = {}]
  /\ rows' = [rows EXCEPT ![r] = {}]
  /\ pending' = [pending EXCEPT ![r] = 0]
  /\ granting' = [granting EXCEPT ![r] = None]
  /\ Forget(r)
  /\ UNCHANGED <<database, lock>>

Abort(r) ==
  /\ pc[r] # "idle"
  /\ EndTransaction(r)
  /\ Forget(r)
  /\ UNCHANGED database

-----------------------------------------------------------------------------
Advance(r) ==
  \/ Grant(r)
  \/ CommitCompletion(r)
  \/ Evaluate(r)
  \/ InsertAwards(r)
  \/ AwardConflict(r)
  \/ (pc[r] = "badges" /\ \E s \in Sources : FindUnpaid(r, s))
  \/ CommitBadges(r)
  \/ CommitRepair(r)

Next ==
  \E r \in Requests :
    \/ Authenticate(r)
    \/ \E s \in Sources : FindUnpaid(r, s)
    \/ ReadLedgerSum(r)
    \/ Advance(r)
    \/ Abort(r)

Spec == Init /\ [][Next]_vars

\* A request that has started is carried on by the event loop, and PostgreSQL
\* queues the transactions that wait for a row, so a wait that can end again
\* and again is granted.  Nothing obliges a request to start, to grant or to
\* fail.
FairSpec == Spec /\ \A r \in Requests : SF_vars(Advance(r))

-----------------------------------------------------------------------------
(* What must hold whatever the requests interleave *)

\* The row user_stats would hold if it were derived from the ledger now.
LedgerStats == RowFor(xpSum)

\* The cached total and level never show more than the ledger holds: updates
\* can be lost, never invented, not even by a recalculate_stats that writes an
\* outdated sum or by a level and a total written by different requests.
CacheWithinLedger == \A c \in Columns : stats[c] <= LedgerStats[c]

\* A badge and its XP stand or fall together, and a badge pays once: the
\* unique constraint on user_achievements guards the ledger that has none.
BadgePaidOnce ==
  \A b \in Badges :
    /\ ledger[b] <= 1
    /\ ledger[b] = 1 => b \in awards
    /\ b \in awards /\ Reward[b] > 0 => ledger[b] = 1

\* Whoever holds a badge has earned in the ledger what it asks for, even though
\* evaluate decides on stats loaded before the request began.
BadgeDeserved ==
  \A b \in awards : LedgerStats[Criterion[b].metric] >= Criterion[b].value

\* What a badge on a profile says is true: earned, and paid for once.
BadgesHonest == BadgePaidOnce /\ BadgeDeserved

\* Every request in flight is answered: the waits for the user_stats row and
\* for the unique index never form a circle.
RequestsFinish ==
  \A r \in Requests : pc[r] # "idle" ~> pc[r] = "idle"

-----------------------------------------------------------------------------
(* What progress_service.py states: its two invariants *)

\* "XP is granted once per source": no reference is paid twice.
OncePerSource == \A s \in Sources : ledger[s] <= 1

\* "user_stats.total_xp is a cache of its sum", and the level is the level of
\* that sum.
CacheIsLedgerSum == stats = LedgerStats

-----------------------------------------------------------------------------
(* What it promises a learner who waits for each answer *)

Paid == {s \in Sources : ledger[s] > 0}

\* One request at a time, the ledger is the account a learner is promised.
Account == INSTANCE XpAccount WITH
             paid <- Paid, total <- stats["total_xp"], level <- stats["level"]

LedgerImplementsAccount == Account!Spec

-----------------------------------------------------------------------------
(* The inductive invariants behind the properties above *)

\* What a request may believe: no more than the ledger with its own rows.
ViewWithinLedger ==
  \A r \in Requests :
    /\ \A c \in Columns : cache[r][c] <= RowFor(xpSum + pending[r])[c]
    /\ found[r] <= xpSum

\* Outside the two granting transactions nothing is pending, and rows of badges
\* are inserted only for badges the same transaction awards.
RowsFollowPhase ==
  \A r \in Requests :
    /\ pc[r] \notin {"main", "badges"} =>
         rows[r] = {} /\ pending[r] = 0 /\ granting[r] = None
    /\ pc[r] = "main" => rows[r] \cup {granting[r]} \subseteq Activities \cup {None}
    /\ pc[r] = "badges" => rows[r] \cup {granting[r]} \subseteq newly[r] \cup {None}
    /\ pc[r] \notin {"award", "badges"} => newly[r] = {}
    /\ rows[r] = {} => pending[r] = 0

\* A badge being awarded is deserved, not yet awarded, and awarded by no other.
AwardsInProgress ==
  \A r \in Requests :
    /\ \A b \in newly[r] : LedgerStats[Criterion[b].metric] >= Criterion[b].value
    /\ pc[r] = "badges" =>
         /\ newly[r] \cap awards = {}
         /\ \A q \in Requests \ {r} :
              pc[q] = "badges" => newly[q] \cap newly[r] = {}

LedgerInv ==
  /\ TypeOK
  /\ CacheWithinLedger
  /\ ViewWithinLedger
  /\ RowsFollowPhase
  /\ AwardsInProgress
  /\ BadgePaidOnce
  /\ BadgeDeserved

\* Without overlap the one request in flight knows the ledger exactly.
SerialInv ==
  /\ OncePerSource
  /\ CacheIsLedgerSum
  /\ \A r, q \in Requests : pc[r] # "idle" /\ pc[q] # "idle" => r = q
  /\ \A r \in Requests :
       pc[r] # "idle" =>
         /\ cache[r] = RowFor(xpSum + pending[r])
         /\ \A c \in Columns \ written[r] : cache[r][c] = stats[c]
         /\ pc[r] = "repair" => found[r] = xpSum
         /\ \A s \in rows[r] \cup {granting[r]} : s # None => ledger[s] = 0
=============================================================================
