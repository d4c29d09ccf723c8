# Network Learning Platform: a TLA+ development

TLA+ models of the Network Learning Platform (`src/`), the TLC configurations
that check them and TLAPS proofs about them. A module is translated from the
source; documents and comments only supply what the source is *claimed* to do.
`PROJECT.json` maps every definition to the lines it stands for.

## 1. The system

A FastAPI backend (`src/backend/app`) on PostgreSQL (SQLite in development)
serves a React application (`src/frontend/src`). Learners read lessons, take
quizzes, build networks in an editor, configure their devices on a simulated
CLI, send packets through them, and are graded on labs. What they finish pays
XP, levels, streaks, badges and certificates.

### Inventory

| Component | State | Operations | Interacts with | Hard behaviour |
|---|---|---|---|---|
| XP ledger and levels (`services/progress_service.py`) | `xp_transactions`, cached total and level in `user_stats` | `grant_xp`, `recalculate_stats`, level curve | called by lessons, quizzes, labs, badges | overlapping requests of one learner on a cached row; rollback |
| Streaks (same file) | `current_streak_days`, `longest_streak_days`, `last_activity_date` | `record_activity`, `current_streak` | called by every completion | calendar days, time zones |
| Achievements (`services/achievement_service.py`) | `user_achievements` | `evaluate` | runs after the commit of a completion, pays XP | a second transaction on stale data, unique index, row locks |
| Course learning (`services/learning_service.py`) | enrolments, `lesson_progress` | enrol, first visit, save position, complete, roll up the course | pays XP, triggers badges | first-visit races, roll-up on counts, row locks |
| Quizzes (`services/quiz_service.py`) | attempts, answers | start, resume, submit, grade | pays XP, starts the lesson | attempt limits, double submission, deadlock with a first visit |
| Labs (`services/lab_service.py`, `grading.py`, `fault_injection.py`) | attempts with a topology document | start with faults, autosave, check, hint, submit | grader, pays XP | autosave and check racing a submit; a verdict that depends on the rule before |
| Certificates (`services/certificate_service.py`) | `certificates` | issue, verify, revoke | needs a completed course | two unique constraints |
| Sessions (`services/auth_service.py`, `api/deps.py`) | users, `refresh_tokens` | register, login, refresh, logout, change password | browser client | rotation, reuse detection, lost answers |
| Email links (`services/verification_service.py`) | `verification_tokens` | issue, consume | sessions, rate limiter, email | two issues that do not see each other, a mail lost after the commit |
| Topologies and notes (`services/topology_service.py`, `notes_service.py`) | documents, notes, bookmarks | CRUD, limits, cable suggestion, toggle | editor, simulator | two calls on one row, a count before an insert, suggestions for a document that has moved on |
| Packet simulator (`services/simulation/*`) | a network built from one document, per call; routing tables and an ARP cache | flood, ARP, forward, ping, DHCP, DNS, TCP, UDP, traceroute | device configs, grader | loops of cables and routes, VLANs, route choice |
| Device CLI (`services/cli/*`, `schemas/device_config.py`) | mode and its object, device config | commands | editor, simulator | long command sequences, negation, refusal halfway |
| Rate limiter (`core/rate_limit.py`) | a deque of hits per key, in one process | `check`, `prune`, `reset` | auth endpoints | window boundaries, rounding, restart |
| Browser session client (`lib/api-client.ts`, `providers/auth-provider.tsx`) | access token, refresh in flight | request, refresh | sessions | coalescing concurrent refreshes |
| Topology editor (`use-topology-editor.ts`, `simulator-page.tsx`, `device-config-window.tsx`) | document, undo and redo stacks, drag, configuration window | edit, undo, redo, replace, configure, connect, save | topologies, CLI | answers that come back to another document |
| Leaderboards, analytics, catalogue, seeds, email delivery, application shell, deployment, UI | none of their own, or content | reads, I/O | | not modelled: no protocol |

### What makes each correct

* **XP ledger**: a source pays once; the cached row is the ledger's sum; no
  interleaving or failure shows XP nobody earned. Badges are paid with their
  award, once, to who deserves them. No two requests wait for each other.
* **Level curve**: the level is the highest one paid for, the bar is full only
  at the end.
* **Streaks**: the counters are runs of the learner's own calendar days.
* **Rate limiter**: no window exceeds its limit, nobody is refused wrongly, the
  retry hint is true.
* **Email links**: of each kind only the newest link can be used, and the last one
  that was mailed can.
* **Topologies and notes**: the limit holds but for calls that overlap, an edit of one
  column is not lost to an edit of another, the count on a card is that of its
  document, a star is one row.
* **Simulator**: a frame reaches exactly its broadcast domain, a walk ends
  whatever the cabling, ARP and the switched path agree.
* **Lab page and attempts**: what reads "Saved" is saved, what is graded is what
  the learner saw at the click, what is announced was recorded, a lab opened again
  shows the work saved, and edits reach the server in the end.
* **Course learning, quizzes, certificates**: the course closes exactly with its
  last lesson, attempts keep to their limit, a grade agrees with the answers
  stored, what was achieved stays, and requests that block each other end.
* **Sessions and browser client**: concurrent calls share one refresh and all get
  their answer; a session ends only on purpose, and then for good.
* **Topology editor**: every document in the history is one the server accepts,
  undo takes back one edit, a clean page shows what is stored, and configuration
  is not lost between form, console and history.
* **CLI**: no sequence of lines leaves the session on an object that is gone, or two
  interfaces in overlapping subnets.
* **Layer 3, grading**: a network set up as the course teaches carries every packet,
  a lease can be used, the grade depends on the network alone and can be reached.

`PROJECT.json` lists the hazards line by line, with the property that covers
each or the reason why none does.

## 2. Modules

| Module | Models | Composes |
|---|---|---|
| `LevelCurve` | XP price of a level, level of a total, progress bar (pure operators) | |
| `LevelShown` | what those show of a total that earns | `LevelCurve` |
| `XpLedger` | `grant_xp`, the completion transaction, `evaluate`, `recalculate_stats`, by overlapping requests | `LevelCurve` |
| `XpAccount` | abstract specification: sources are paid at most once, total and level follow at once | `LevelCurve` |
| `Streaks` | `record_activity`, `current_streak`, the UTC clock and the learner's zone | |
| `CourseWork` | enrolment, lessons, a quiz and the certificate of one course, from several tabs | |
| `Sessions` | `auth_service.py`'s refresh tokens, the cookie jar, `api-client.ts` and `auth-provider.tsx` in every tab | |
| `RateLimiter` | `check`, `prune`, restart | |
| `EmailLinks` | `verification_service.py` behind the limiter: issue, mail, consume | `RateLimiter` |
| `Flooding` | `broadcast_domain`, `flood_into`, `_flood` | |
| `FrameWalk` | `resolve_arp`, `_traverse_switches`, DHCP Discover | `Flooding` |
| `Forwarding` | routing tables, `deliver`, and the exchanges of `protocols.py` | |
| `Grading` | `apply_faults`, a learner's repairs, `LabGrader` | `Forwarding` |
| `GradingAnswers` | the grader's answers once more, as functions of the network and the question, for the proofs | `Grading` |
| `LabWorkspace` | `lab-page.tsx`, the lab attempts of `lab_service.py`, and the requests between them | |
| `DeviceConsole` | the CLI engine, its session, its endpoint and the terminal | |
| `TopologyEditor` | the editor hook, the simulator page, the configuration window, saved topologies | |
| `Library` | rows of topologies, notes and bookmarks, several calls at once | |
| `*_proofs` | theorems about the module they are named for, and what belongs to it: `XpLedger_proofs` also about `LevelCurve`, `LevelShown`, `XpAccount` and `Streaks`, `Sessions_proofs` about `EmailLinks` and `RateLimiter`, `FrameWalk_proofs` about `Flooding`, `Grading_proofs` about `Forwarding`, `TopologyEditor_proofs` about `Library` | |
| `MC*` | constants for TLC, and properties only TLC evaluates | |

Definitions with `\* mutant` are what a plausible slip in the code would make of
the definition that follows them. Nothing uses them; they are there to show
that each property can fail: with `X` replaced by its mutant the run that checks
the property finds it violated.

### Correspondence with the code

**`XpLedger`.** A *request* is an HTTP request, hence a database session:
`db/session.py` opens one per request with `expire_on_commit=False` and
`autoflush=False`, and PostgreSQL runs it READ COMMITTED. What follows from that
is written out as state: `ledger`, `awards`, `stats` are committed rows;
`rows[r]`, `pending[r]`, `written[r]` are what the open transaction of `r` has
inserted and updated; `cache[r]` is the `UserStats` object in its identity map,
which `get_current_user` loads once and no later SELECT refreshes; `lock` is the
row lock an UPDATE holds until the transaction ends. An UPDATE names only the
attributes that changed (`Changed`), which is why `total_xp` and `level` can be
written by different requests. An action is the code between two points at which
another request can matter: `FindUnpaid` is `grant_xp` up to its SELECT, `Grant`
the rest, `CommitCompletion` the commit in the endpoint's service, `Evaluate`,
`InsertAwards`/`AwardConflict` and `CommitBadges` are
`AchievementService.evaluate`, `ReadLedgerSum` and `CommitRepair` are
`recalculate_stats`, `Abort` is any exception, disconnect or crash (`get_db`
rolls back). `xpSum` stands for `SELECT sum(amount)`; it is kept by the commits
so that the proofs need no fold (`SumIsOfRows` in the MC module states that it is
the fold).

Abstractions: one learner (the rows of two learners never meet); the stats row
exists (`stats_for` creates it otherwise); every completion pays XP; badge
criteria are `metric >= value` on `total_xp` or `level`, the shape of the seeded
ones that XP can earn. `recalculate_stats` has no caller in the application; it
is modelled because it is what repairs the cache. A request may pay several
activities before its commit, as `complete_lesson` does with lesson and course.

**`XpAccount`.** What a learner is promised: a commit pays sources that were not paid,
and total and level follow. `Pay` adds the rewards up in some order of the sources
(`Orders`), which is also how a request adds them; a sum over a set would put the
refinement out of reach of a proof. `LedgerImplementsAccount` is the account with
`paid` the sources that have a row and `total`, `level` the stored ones.

**`LevelCurve`.** `int(100 * (n-1) ** 1.5)` is written in integers; the loop of
`level_for_xp` is the set of levels at which it could stop, and its result the
first of them. `LevelShown` is the total of `user_stats` alone, as it earns any amount.

**`Streaks`.** The clock is UTC in `Slots` per day; a zone is an offset in slots.
`activeDays` is history: the local days on which the learner was active. So is
`misdated`: whether an activity fell on a local day that is not the UTC day of its
timestamp, which is the day `record_activity` later takes it for. `StreakFollowsCalendar`
holds in every zone until then, wherever the page is looked at; that it fails afterwards
is the run `streak_at_midnight`. The learner's zone does not change within a behaviour.

**`RateLimiter`.** `check` contains no `await`, so `Accept` and `Refuse` are
atomic. `now` counts ticks, several per second, since the hint is rounded to
seconds and `time.monotonic()` is not. `log`, `dropped` and `hint` are history.
One worker process is modelled; `N` workers permit `N` times as much, which the
file says of itself. `RATE_LIMIT_ENABLED` is on; `reset` has only test callers
and `prune` has none.

**`EmailLinks`.** `links` are the rows of `verification_tokens` in the order of their
commits, so the greater number is the newer link. A request (`asks`) is accepted by
the limiter (`Ask`; registration's own request passes no rule), has run the UPDATE of
`invalidate_outstanding` (`Retire`: `held` are the rows it locked), has committed its
new row (`CommitLink`), and has mailed it or failed to (`Deliver`, `LoseMail`: the mail
service swallows its errors). `Open` finds a link usable, `Use` commits. An issue
retires what was *committed* when its UPDATE ran; a link committed by another request
after that stays usable beside it (`missed`, history). `settled` are the kinds whose
last request overlapped no other and was mailed. Expiry is nobody opening a link.

**`Flooding`.** Ports, devices and cables are constants: `Network` is built from
one document per call. `Peer` is `peer_of`: the far end of a *usable* link, or
none (`schemas/topology.py:136-171` keeps a port to one cable). `port` holds the
settings a learner may have chosen. One action is one turn of a loop of `_flood`:
`Visit` takes a port from the queue, `FloodOut` considers one interface,
`FloodedOut` ends the loop over the interfaces. `flood_into`'s own loop tests the
same conditions as the inner loop of `_flood` does; it is run by the same
actions from the ingress (it may queue the ingress itself, which `_flood` then
skips as seen; `FloodOut` does not queue it).

The walk is compared with the domain it should find, which is defined without
queue or order: `Member`, `NextHop`, `FirstHop`. The comparison is made when the
frame's VLAN is decided before the walk branches (`VlanDecided`): the sender
names it, or the first port is an access port, or there are no access ports at
all. An untagged frame that enters a trunk or an unconfigured switch port is
given different VLANs on different branches, and what it reaches then depends
on the order of the interfaces; the code gives no meaning to that case.

**`FrameWalk`.** `ArpRequest` is `resolve_arp` up to its broadcast,
`ArpAnswered`/`ArpTimeout` the rest, `Arrive` one turn of the loop of
`_traverse_switches` up to `flood_into`, `SwitchForward`/`FrameLost` the rest,
`DhcpDiscover` the walk of `_find_dhcp_pool`. Calls follow one another, as the
simulator is synchronous. Addresses and MACs are ports: each is held by one
port. The ARP cache lives for one call and repeats the walk's answer. `SameVlan`
says that the first switch takes the request and the frame in one VLAN.

**`LabWorkspace`.** `requests` are HTTP requests, in `Slots` that are all alike; a
request is *sent*, its handler has *loaded* the attempt, or it is *done* or
*failed* and its answer under way. `to` says who is listening: the mounted
component, only the query cache and promises of a component that was left, or
nobody. `LoadStart`/`CommitStart` are `start_attempt`, `LoadAttempt` the beginning of
`save_working_topology` and of `_grade`, `CommitSave` and `CommitGrade` their
commits. `ConnectionLost` gives the browser its error while the handler goes on.
On the page, `pending` is the request each `useMutation` is waiting for: it is
the *latest* one, and a request that was replaced is still answered. The timer of
the autosave effect may run out whenever the effect would have armed it. A
document is a value, a score is named by the document graded; `grade` is the result of a
submission that is announced, which the answer of a late check takes off the screen. `cached` is the
attempt query with `staleTime: Infinity` and `refetchOnMount: false`; `meant` is
history. Not modelled: hints, time spent, the XP of a submission (`XpLedger`), a
second tab on the same attempt, leaving while the lab is still opening.

The learner edits, leaves, reloads, comes back, checks and submits at any time,
whatever is out; the page blocks none of it but a second click on the same button.
Two things then go wrong, and two history variables say when. `stale`: the document
was called clean by something that was not the server's last word on it, a save
answered after a later edit (`markSaved`, `lab-page.tsx:133`) or a page built from the
cached attempt. `crossed`: a save of an attempt was sent while a save, check or
submission sent for another document of it was out, so that what commits last is not
what was sent last. `SavedMeansSaved` excepts both, `GradedIsShownWork` and
`AnnouncedIsRecorded` only the second, so the late check and the reordered answer are
among the states they speak of; that `SavedIsStored` itself fails is the run
`lab_edit_lost`.

**`CourseWork`.** A tab has one request at a time; the transaction rules are those of
`XpLedger` (a session reads an object once, UPDATE names the changed columns, an
INSERT waits for an uncommitted row with the same key, the lock on `user_stats` is
held to the end). `req[t]` is what the request of tab `t` has read and not yet
committed, and `at` the next statement whose outcome another tab can change:
`OpenLesson`, `LoadRecord`, `InsertRecord`/`RecordConflict`, `FindPaid`, `Grant`,
`RollUp`, `CommitComplete` are `complete_lesson` with what it calls;
`CommitPosition` ends `save_position`; `ResumeQuiz`, `CountUsed`, `InsertAttempt` are
`start_attempt`; `Submit` to `CommitSubmit` are `submit`, which passes through
`FindPaid` and `Grant` too; `Claim` and `Issue` are `issue`. `Rollback` is any
exception or disconnect, `BreakDeadlock` PostgreSQL's choice of a victim. The quiz is
one question, its answers are right or blank. `percent` counts lessons. The double
payment of a source is `XpLedger`'s subject, so `paid` is a set.

What keeps the course from staying open is narrow: the lock that `grant_xp` takes on
`user_stats` before `_recompute_course_progress` counts. The mutant `GrantUnlocked`
shows it. `percent` is not protected like that: with two tabs the slower commit
leaves the smaller number, and a passed quiz and a first visit of its lesson block
each other until one of them is rolled back. Nor is a pass: two submissions of one
attempt that both found it open are both written, and the later one may turn `passed`
into `failed` (`PassStays`, the run `course_pass_lost`). `NothingTakenBack` therefore
says who alone may change a grade: the commit of another tab's submission of that very
attempt; a lesson, a course, a payment and a certificate nobody takes back.

**`Sessions`.** Tokens are numbered; the access and the refresh token issued together
share a number, and an access token that has expired is as good as none. `cookie` is
the jar the tabs share; `refresh[t]` is `refreshInFlight` of tab `t` and where it is:
*sent*, *read* (`ReadToken`: the server has looked at its token), rotated (`Rotate`),
answered (`Renewed`, `NotRenewed`). `call[t]` are calls of `request()`: `Answer`
makes a call that got a 401 wait for the refresh, `Waken` sends it again, once.
`Load` is a page load with its silent refresh. `strays` is history: tokens made by a
rotation while its family was being ended, or while another rotation of the same token
was under way, which nobody retires. `EndedElsewhere` stands for sign-out
everywhere, revocation of this session, password reset and deactivation, done from
another device. `setting` chooses, once, the tabs, the calls and whether the network
loses requests and answers.

**`TopologyEditor`.** A document is its devices (look, configuration as the set of
changes it contains, membership in one group), its cables and the group. `Commit` is
`commit()`, `Drag` one frame of `moveDevice`, `Drop` `commitMove`; the window keeps its
own copy of the configuration (`window.config`, `useState` of
`device-config-window.tsx`). Three requests carry a copy of what the page held:
`command` (a console line), `cables` (`suggest_link`), `saves`. Their answers come
after whatever was done in between. `late` is history: what was overtaken, a save, a
drag, a window, a command, a cable. Each property says what holds while its kind is
not in `late`; that it fails otherwise is what the code does (section 3).
`ConfigSurvives` needs three of them: a window or a command that was overtaken writes
its old copy, and a drag that was overtaken by an edit pushes the document it began
with, so that undo brings back a configuration from before that edit. The proof showed
the last one; it takes five edits, which the bound of three hides. Renaming,
labelling and moving change one attribute, `look`. Panning is left out.

**`Library`.** A call loads its row and commits later; the statement at the commit is an
INSERT, a DELETE, or an UPDATE of the columns (`changed`) that differ from the row as
loaded (SQLAlchemy's unit of work). `Create`, `Copy`/`CountForCopy` and `Insert` are
`create`, `import_document`, `duplicate`, a new note and a new star; `PatchRow` and
`Update` are `update`; `Load` and `Delete` are `delete` and the star taken away;
`GiveUp` is any failure. `given` and `contended` are history: what was last asked for
each column, and the columns for which overlapping calls asked. Names are lengths,
since `duplicate` adds ` (copy)` without a check and the column has 200 characters.

**`DeviceConsole`.** A line is a command with what its tokens say, typed in a mode,
perhaps after `no`. `Result` is `CommandResult` together with `onSuccess` of the
terminal: the session always, the configuration only when `changed`. So a command
that began to change its copy before it refused (`_access_list`) changes nothing.
Attributes no command reads again are counters modulo two (`system`, `rest`).
`Reconnect` is the terminal mounted again, by a change of tab or window.

**`Forwarding`.** A LAN is one broadcast domain (what reaches it is `Flooding`'s and
`FrameWalk`'s subject), a subnet the set of its addresses, so a longer prefix is a
smaller set. `table` is `_routing_cache`: `ConnectedRoutes`, the static routes,
`LearnedRoutes`; a route carries its `place` in the list, which decides between routes
of one prefix and metric. One turn of `deliver`'s loop is one of `Arrived`, `NoRoute`,
`ArpTimeout`, `Forward`; `HopLimit` ends it. `Ask` starts an exchange: *oneway* stands
for TCP, UDP and traceroute, which all ask whether one packet arrives, *ping* has a
reply, *dns* a record at the end. `AskDhcp` is `dhcp`: it may be served by any pool
that `_find_dhcp_pool` could find, whose set has no order. The TTL cannot run out, as
`MAX_HOPS` is 16 and the TTL begins at 64.

**`Grading`.** `StartAttempt` applies the faults to the lab's document, `Repair` puts one
thing right as the author had it; a fault may name a device that is `Missing`, and one
that removes a static route without naming its network removes all. `Begin` to `Finish` are `LabGrader`: each traffic
rule is an exchange of `Forwarding` from an empty ARP cache (`Simulator(self.network)`
per rule) on the tables of the one `Network`; the other rules look at the document.
Outside an attempt the learner may ask the simulator what they like.

**Small simplifications.** Places where a definition does a little more or less than the
code, without a difference to what is checked: `Grading!Without` takes away the static
routes of the named *subnet* (`fault_injection.py:140-144` compares the address text,
whatever the mask), and `ApplyOne` unplugs every port of a LAN where
`fault_injection.py:148-163` touches one link; `Repair` undoes either.
`Forwarding!LearnedRoutes` breaks ties between routes of several peers by the order of
the document, the code by the order in which `_routing_peers` meets them. `AskDhcp`
leaves VLANs to `FrameWalk`. `TopologyEditor!Import` replaces the document by an empty
one, and not during a drag; `handleImportFile` (`simulator-page.tsx:135`) accepts any
parsed file at any time, so `DocumentsValid` says nothing of a file that was not valid.
`Sessions!Renewed` contains the `authApi.me()` that follows the refresh of a page load
(`auth-provider.tsx:76-82`).

## 3. What TLC checks

| Run | Instance | Shows |
|---|---|---|
| `ledger` | two overlapping requests, a lesson (60 XP), a course (100 XP), two badges (100, 25 XP) | `CacheWithinLedger`, `BadgesHonest`; liveness `RequestsFinish` |
| `ledger_paid_twice` | overlapping | **violation** of `OncePerSource` |
| `study` | all 100 prices, 25 XP around each; seven days of four slots, UTC and one slot off it on either side; two calls at once about three topologies (limit 1), or a note and two stars; the ledger of `ledger`, one request at a time | `LevelShownIsPaidFor`, `StreakFollowsCalendar`, `ShelfInOrder`, `OncePerSource`, `CacheIsLedgerSum`, refinement `LedgerImplementsAccount` |
| `streak_at_midnight` | seven days of four slots, UTC and one slot east | **violation** of `StreakIsRunOfDays` |
| `delivery` | frames: two hosts behind two switches joined by two cables, a host without a link, a switch port with an address, two VLANs, 1728 configurations; links: registration and two more requests of two kinds, two clicks; limits of 2 in 2 s, half-second ticks | `FloodCoversDomain`, `AnswerMeansDelivery`; `AtMostLimitPerWindow`, `HintSuffices`, `NewestLinkOnly`, `LastMailWorks` |
| `lab_workspace` | two documents, one that passes; two requests at a time; one attempt | `SavedMeansSaved`, `GradedIsShownWork`, `AnnouncedIsRecorded`; liveness `WorkIsSaved` |
| `lab_edit_lost` | the same | **violation** of `SavedIsStored` |
| `course_work` | one or two tabs, two lessons, a quiz with one attempt | `CourseClosesWithLastLesson`, `AttemptLimitHolds`, `GradeHoldsUp`, `NothingTakenBack`; liveness `RequestsAnswered` |
| `course_pass_lost` | the same | **violation** of `PassStays` |
| `sessions` | one tab with two calls or two tabs with one, reliable; one tab with a call or two tabs, losing; three tokens | `SessionSurvives`, `EndedStaysEnded`, `OneLiveToken`; liveness `EverythingSettles` |
| `designer` | two devices with two ports, two configuration changes, a history of two, three edits; the console of one with two interfaces, three subnets (one inside another), VLANs 1 and 2, three lines that change something | `DocumentsValid`, `OneUndoOneEdit`, `CleanMeansStored`, `ConfigSurvives`; `ObjectExists`, `SubnetsApart` |
| `grading` | two routers, three hosts, 416 networks and labs, 13 rules, two faults | `WellConfiguredReaches`, `LeaseIsUsable`, `SameQuestionSameVerdict`, `MendedScoresFull`, `LearnedRouteLeadsThere`; liveness `EveryLabGraded` |

`MCStudy`, `MCDelivery` and `MCDesigner` each instantiate modules that share no state;
`trial` chooses at the start which of them moves, so that no product is explored.

`CHECK_DEADLOCK FALSE` is set where the bounds end the run: `study` and
`streak_at_midnight` (the last total, the last slot, every activity paid), `delivery`
(nobody asks again), `designer` (edits), `grading` (a question asked outside an attempt
ends with its answer). `study`, `delivery` and `designer` use symmetry (topologies and
calls; the two later requests for a link; devices and configuration changes): all they
check is safety. Two runs have a constraint.
`designer`: `Bounded`, at most two requests in flight and at most one kind of
overtaking. `lab_workspace`: `Uncrossed`, which ends behaviours at the step in which
saves cross; with one attempt every property but the first half of `AnnouncedIsRecorded`
holds from there on by its own words, and `WorkIsSaved` has reached its goal.

### Disagreements between code and documentation

The first four are runs; the others are stated as definitions of the modules (named in
brackets) that no run includes, because TLC finds the code violating them.

* **A source can be paid twice.** `progress_service.py:12` says "XP is granted
  once per source"; two overlapping completions both find no row, and
  `xp_transactions` has no unique constraint on the reference. Only badges are
  safe, through the unique constraint of `user_achievements` (`BadgesHonest`).
  The same race between *different* sources loses one addition to the cached
  total: `CacheIsLedgerSum` fails as well when requests overlap
  (`CacheWithinLedger` shows that the cache is never ahead).
* **Streaks are not counted in the learner's days** (`streak_at_midnight`).
  `progress_service.py:203` says "calendar days in the user's own timezone";
  `record_activity` compares the UTC date of the stored timestamp with the local date of
  today. East of UTC, two activities in the last hours of the UTC day are two days; west
  of it, an activity of yesterday evening and one of today are one.
* **"Saved" is shown over an edit that was not** (`lab_edit_lost`). `lab-page.tsx:14-17`
  says "Work is autosaved"; an edit made while a save is out is marked clean by its
  answer and no autosave follows.
* **A passed attempt can become a failed one** (`course_pass_lost`).
  `quiz_service.py:73-75` refuses what "has already been submitted", but `submit` looks
  once, before it grades; a second tab that looked in time writes its result over a pass.
* **A host's DHCP Discover is sent in VLAN 1.** ARP sends it untagged, as
  `network.py:294` says a host does; an access port of another VLAN drops it
  (`FrameWalk!AccessPortAdmitsHost`).
* **A Layer 3 switch does not take its own frames.** It answers ARP, but
  `_traverse_switches` floods on whatever reaches a switching device
  (`FrameWalk!LayerThreeSwitchTakesFrames`).
* **An answer to ARP is no path in two wirings.** The request carries the VLAN of the
  sender's port, the frame that of the port it arrives on. Where the first switch takes
  the two into different VLANs (a host on a trunk, an access port of VLAN 20 cabled to
  an unconfigured one) the frame can be lost; so it can be when a Layer 3 switch sends
  from an unconfigured port into a loop, as the second walk may come back through that
  port. `AnswerMeansDelivery` excepts these two (`SameVlan`, and a sender that is a
  switch while no VLAN is decided) and is proved of everything else.
* **A lab opened again shows the work of the first opening.** The attempt query
  never goes stale and nothing invalidates it, so within the five minutes of
  `gcTime` the page is built from the cached answer: saved work seems lost and is
  overwritten by the next autosave, and after a submission "Open the lab again
  from the library to start a fresh attempt" (`lab-page.tsx:274`) opens the closed
  one. A refresh of the tab does ask the server
  (`LabWorkspace!ReopeningResumesWork`, with two attempts).
* **A refused refresh token stays in the cookie jar.** "The cookie is useless - remove
  it" says `api/v1/endpoints/auth.py`, but the handler raises, and the response of
  the exception replaces the one the cookie was deleted on
  (`Sessions!RefusedCookieGone`).
* **The console writes VLAN numbers its own schema refuses.** `switchport trunk native
  vlan` and `voice vlan` are unchecked; every later request with that configuration
  is answered 422 (`DeviceConsole!ConfigAccepted`).
* **`no` does not always negate.** `no network` and `no ip nat inside source` add what
  they should take away, against `engine.py:109`
  (`DeviceConsole!NoAddsNothing`).
* **The count on a card can be another document's.** Two saves of one topology that
  overlap can leave `device_count` of the one with `document` of the other, since each
  UPDATE names only what it changed; `topology_service.py:113-114` says "the two can
  never disagree" (`Library!ShelfInOrder` without `contended`).
* **Hosts forward packets.** `choose_egress` speaks of a router that must carry a
  packet, `deliver` lets any device pass it on (`Forwarding!OnlyRoutersForward`).
* **A TCP connection without a way back succeeds.** Only ping simulates the reply, so a
  `port` rule and a `no_ping` rule for the same pair can both pass, against
  `grading.py:13-15` (`Grading!OneDefinitionOfReach`).

What the code also does and no document denies, found by dropping a condition of a
property: two tabs that refresh with one token, or a lost answer to a refresh, end
the session by reuse detection; a rotation that overtakes a logout leaves a live
token; two quick cables get the same port and the save is refused; Ctrl+S twice
creates two topologies; edits made while a new topology is being created are dropped
when the page moves to its address; Ctrl+Z in the console also takes back the page's
last edit; a form changed while a console line is under way is overwritten by its
answer; in a chain of three routers the ends learn nothing of each other, having no
common subnet; a pool without a gateway offers the server's own address; a copy of a topology whose
name has more than 193 characters cannot be stored.

### Bounds, and why they are enough

* *Two requests.* The properties of `XpLedger` relate a request to what others
  committed while it ran; two suffice for a lost update, a double payment, a
  unique-index wait inside a row-lock wait. The safety properties are proved for
  any number.
* *Two activities, two badges, the amounts.* 60 + 100 crosses the price of level
  2 (100), the first badge needs one activity, the second both, and the XP of
  the first badge carries the total past level 2 again: total and level change
  both together and separately. Sums stay far below the last level, which
  `study` covers.
* *Level curve.* `study` tries every total from 25 below a price to 25 above; between prices the
  level is constant and the bar linear.
* *Streaks.* Four slots give zones on both sides with a midnight inside the UTC
  day; seven days allow two runs with a gap and a longer third. A streak is followed to
  its first misdated activity. Proved for any slots and zones.
* *Shelf.* Two calls are the fewest that overlap, three topologies what a limit of one
  and two calls can leave; a document of one device and one of two tell counts apart.
  Proved for any calls and rows.
* *Rate limiter and links.* `Horizon` is five ticks, more than the longest window;
  half-second ticks are the least that tell a rounded hint from an exact one. Three
  requests allow a race of two beside an old link, two clicks one on each of two. Links
  do not look at the limiter's clock and are tried while it stands still. Proved for any
  rules, horizon, requests and clicks.
* *Wiring.* Two cables between two switches are the smallest loop; with three
  ports a switch has one to arrive on and two to choose between. The
  configurations are all combinations that differ in what the conditions of
  `_flood` ask. `FloodCoversDomain` is proved for any wiring.
* *Lab workspace.* Two requests at a time are what makes commits and answers
  change places; a third would repeat one of the two kinds. Two documents tell
  saved from not saved, passed from failed. 368,642 states with one attempt; without
  `Uncrossed` its 1,580,858 states satisfy the same invariants. They are proved for any
  number of each.
* *Course work.* Two tabs are what the limit, the count and the deadlock need; with two
  lessons one is the last, and the lesson of the quiz is one of them. One attempt puts
  the limit at its edge at once. 399,365 states.
* *Sessions.* Two calls are the fewest that can share a refresh, two tabs the fewest
  that can compete for a token, and three tokens allow a rotation of a rotation or a
  second family beside one that was rotated. Losing is tried apart from more calls, to
  which it adds nothing but answers that fail.
* *Designer.* Two devices with two ports make every pair of cables, taken port
  and dangling end; a history of two drops its oldest entry at the third edit.
  `Bounded` cuts behaviour only after a second kind of overtaking, where every property
  is already conditional on the first. Three edits are too few for one thing: a drag
  overtaken by an edit that undo then passes takes five. All four are proved for any
  number of edits.
* *Device console.* Every mode and object takes one or two changes to reach, the third
  undoes or contradicts; a subnet inside another tells overlap from equality. Both
  properties are proved for any instance.
* *Grading.* With two routers a route may be right, missing, too wide or turned back;
  a third router only repeats a hop. Documents: seven tables of one router by three of
  the other, each whole and broken in thirteen ways; OSPF with two advertisements,
  likewise; three pools; a lab with up to two of nine faults, among them one about a
  device that is gone. 16 hops are the code's `MAX_HOPS`.

### Fairness

`FairSpec` of `XpLedger` asks strong fairness of `Advance(r)`, the steps a request
under way takes: the event loop resumes a coroutine whose await is done, and
PostgreSQL queues the transactions that wait for a row or an index entry, so a
wait that can end again and again is granted. It asks nothing of
`Authenticate`, of the choice to pay one more activity, or of `Abort`; a request
need not start, pay or fail. `RequestsFinish` then says that row lock and unique
index never form a circle: `InsertAwards` comes before any `Grant` of the same
transaction, and a completion's lock is released before `evaluate` begins.

`FairSpec` of `LabWorkspace`: the autosave timer runs out and every request comes to
an end, well or not (weak fairness), and of saves sent again and again not all
fail at the same point of their way (strong fairness of loading, committing and
answering a save). A network that never delivers anything saves nothing, so
`WorkIsSaved` cannot ask for less. The learner is asked for nothing.

`FairSpec` of `CourseWork` asks strong fairness of the steps of a request under way, for
the reasons given for `XpLedger`; nothing of the learner, of `Rollback` or of `Revoke`.
`RequestsAnswered` therefore rests on PostgreSQL ending one of two transactions that
wait for each other; without `BreakDeadlock` it fails.

`FairSpec` of `Sessions`: the server answers and the network delivers the answer or
reports its loss (`fetch` settles). `EverythingSettles` needs no fairness of the
learner.

`GradingSpec`: the request that grades goes on until it is done; nothing it waits for is
outside it.

The other modules state safety only. `_flood` ends because it visits a port once
(part of `FloodCoversDomain`); the limiter and the streaks are reactive.

## 4. What is proved

All with TLAPS, for every value of the constants that satisfies the `ASSUME`s of
the modules. TLC evaluates each assumption in the runs.

**`XpLedger_proofs`.** The curve first. A price counts the numbers whose square is small
enough; `CountedRoot` shows that this is the whole root, from which prices rise, each by
less than 2000 (`PricesRise`). So the loop, which stops at the first price it cannot
pay, stops at the highest it can, and no bar rounds to 100 % before its end:
`ShownLevelIsPaidFor`, for every total.

Then the ledger: `TypeCorrect`; `LedgerInvariant` (`Spec => []LedgerInv`), and from it
`CacheNeverAhead`, `BadgesPaidOnce`, `BadgesDeserved`. The committed properties are not
inductive: a commit publishes what a request believes, so `ViewWithinLedger` bounds
every `cache[r]` by the ledger *with the request's own uncommitted rows*, and every sum
read by `recalculate_stats` by the ledger; `RowsFollowPhase` ties uncommitted rows to
the phase, so that badge rows appear only with their award; `AwardsInProgress` carries
the unique index: badges being awarded are deserved, not awarded, and awarded by no
other request. `SerialPaysOnce`, `SerialCacheIsLedgerSum` and the refinement
`LedgerIsTheAccount` assume `~Overlapping`, with `SerialInv`: the one request under way
knows the ledger exactly. For the refinement `Tallied` adds that what a request has
pending is the sum of its rows in some order, so that every commit is a `Pay` of those
rows or a stutter. Without the assumption it is false (section 3).

`StreakIsCalendar`, for any zones (`StreakInv`): until an activity was misdated, the day of
the stored timestamp is the learner's last active day (`Dated`), the streak is the length
of the run of days that ends with it, and the day before that run was no active day.

**`Sessions_proofs`.** `EndedIsEnded` and `OneToken` for any tabs, calls and tokens over
any network: a refresh that waits to rotate a token read it live, and if its family was
ended since, it overtook that. `OneTabSurvives` needs to know where a token is when it
is revoked: one in `Presentable` still opens the session or the session was ended with
it, and while the answer to a rotation is under way the cookie is not presented.

The limiter: `LimiterInvariant`, and `LimiterTypeCorrect`, `LimiterBoundsEveryWindow`,
`LimiterHintSuffices`. The bound speaks of the log, the code of the deque:
`HitsAreRestOfLog` says the deque is the rest of the log and what left it is out of the
window for good, so a hit is accepted only when the one `Limit` places before it has
left. `PruneAssumption` is what `prune` needs: its window is no shorter than any rule's.
`LinksUseTheLimiter`: `EmailLinks` implements it. `OnlyTheNewest` and `TopMailWorks`, for
any requests and clicks, rest on what a request that has run its UPDATE holds: every
outstanding link of its kind but those that were committed after it looked.

**`CourseWork_proofs`.** `ClosesWithLastLesson`, `LimitHolds`, `GradesHoldUp`,
`AchievementsStay`, for any tabs, lessons and attempts. A tab that adds a lesson took the
lock on `user_stats` before it counted, and nobody else completes a lesson while it is
held, so what it counted is still true at its commit; a tab that adds none found its
lesson paid for, hence completed. `AchievementsStay` is an action property from the same
invariant: of all steps only `CommitSubmit` writes a grade, and one that meets a graded
attempt is another tab's, since a tab has one request. `Fits` says how what a request has read relates to
the tables at each of its steps. `LimitHolds` counts the attempts there are and those
about to be inserted by tabs that counted too few.

**`LabWorkspace_proofs`.** `SavedIsSaved`, `ShownWorkIsGraded`, `AnnouncedIsTrue`, for any
documents, requests and attempts, whatever the learner does. As long as no saves of an
attempt have crossed, all that is out for it was sent for one document (`Agree`), though
the screen may show another by now; `WorkOK` says what such a request may still write,
and `RowStep` what the row may become, so the order of commits makes no difference. When
a save is sent, either nothing else is out for that attempt, or it was sent for the same
document, or the attempt is crossed from then on. `Settled` is what makes a clean page
true: the server has its document and nothing that is out will change it.

**`TopologyEditor_proofs`.** The history `past`, document, `future` is a chain of single
edits, a drag counting from where it began; its documents are valid; the open window
shows what the document holds and a command in flight knows no less; the one save in
flight is of the document on the page: each as long as nothing of its kind was
overtaken. From that `EditsStayValid`, `UndoTakesOneEdit`, `CleanIsStored` and
`ConfigurationsSurvive`, whose edit is the last link of the chain, for any number of
edits. The shelf (`ShelfStaysInOrder`): the columns for which no overlapping call asked
are in the row as the call loaded them, and inserts under way exceed the limit by at
most all calls but one.

**`FrameWalk_proofs`.** About `Flooding`: `FloodInvariant`, and `FloodStaysInDomain`,
`FloodReachesDomain`, `FloodReachesOnce`, together `FloodIsTheDomain`, for any wiring,
configuration and order of interfaces. The queue is what needs a meaning:
`EntriesAgree` (a port treats its entry as the frame's VLAN deserves, although the first
entry may still be untagged), `EntriesJoined` (entries let in are next to ports
reached), and `EnteredFlooded`, `HereFlooded`, `FirstPending` (whatever is next to a port
reached has been looked at or waits in the queue). With `SeenReached`, that a member
seen was reached, an empty queue means that the domain is complete: marking a port seen
before looking at the VLAN loses nobody because every copy that can arrive at it has the
same VLAN. `WalkImplementsFlooding` (`WalkSpec => Spec`): each step of ARP, DHCP and the
switched path is a step of `Flooding` or leaves it alone; `WalkTypeCorrect`; and
`WalkKeepsToDomain`, the flooding results for every frame of a hop. It needs that a port
without a link reaches nobody (`UnpluggedReachesNone`), as `deliver` follows the link
once ARP was answered. `AnswersMeanDelivery` compares the two walks of a hop
(`AnswerInv`). Where the VLAN is decided each answers its domain, and the device that
answered is in every set closed under the frame's hops (`Finds`). Where it is not, what a
walk reaches depends on its order, and the frame's walk is shown to be the request's
turn by turn: `After` is the turn the loops take from a state, `LeadsTo` and `Leads` what
follows from there (membership in every set closed under `After`), and `Trails` relates
the two walks, whose queues differ only by entries for the sender's port (`Without`),
which the request's walk has seen from the start and the frame's may look at once.

**`Grading_proofs`.** `GradingTypeCorrect`: faults and repairs leave a network that can be
simulated. Every route of a table is accounted for by an interface, a static route or a
neighbour, and every ARP answer is of a port that has the address, heard where a packet
would leave for it; from that `LearnedRoutesLeadThere` and `LeaseCanBeUsed`, on any
topology. `VerdictsAgree`: an exchange is a function (`After`) of the network, so two
exchanges that begin alike end alike, and each rule begins with an empty cache. `GradingAnswers` holds
those functions. `MendedLabsScoreFull` uses them twice, for the network on the learner's
screen and (`Paper`) for the one the author drew, `Original`. The two may differ in the
order of static routes: a route that a fault removed and the learner added again comes
last. So the theorem takes two things for granted of what the author drew: it satisfies the lab's
rules (`OriginalPasses`), and of the static routes of a device no two are for one subnet
and no two that are equally specific overlap (`Unambiguous`); with competing routes the
order would decide which way a packet takes. The lab of the `grading` run has both
properties. From there each route of one table has a twin in the other
(`TwinsAreThere`), a lookup finds twins (`ForemostAgree`), a packet takes the same steps
(`AfterAgrees`) and a rule gets the same verdict (`VerdictsCarryOver`), while the lab's
own document is never written to (`MendedInvariant`).
`ConfiguredNetworksReach`: in a network that is `WellConfigured` a packet on its way has
more hops left than routers to cross before the LAN of its destination. That needs
`Cardinality(Routers) + 3 < MaxHops`, twelve routers for the code's 16 hops.

**`DeviceConsole_proofs`.** `ConsoleInvariant`, and from it `ModeHasItsObject` and
`SubnetsStayApart`, for any interfaces, subnets, VLANs, names and number of lines.
The two need each other and the types: an address is set on the port the session is on,
which must be one, and a port without an address overlaps nobody because `None` is no
subnet. `ResultSound` says once what the terminal makes of an answer (a configuration
that is not `changed` is dropped); the lemmas below it then only look at what each
command answers.

**Only model-checked.** Liveness (`RequestsFinish`, `WorkIsSaved`, `RequestsAnswered`,
`EverythingSettles`, `EveryLabGraded`): ENABLED is out of the prover's reach.
Every safety property that a passing run checks is stated by a theorem. `SumIsOfRows`,
`RefusedOnlyOverLimit` and `RefusedChangesNothing` are stated in the modules and hold on
the same instances, but no run includes them.

## 5. Plan

What the next step would be: access lists and NAT in `Forwarding`, VLAN rules in
`Grading`, hints and time in `LabWorkspace`.

## 6. Not modelled

Listed with reasons under `components` in `PROJECT.json`: read-only aggregates
(leaderboards, analytics), content and its seeds, email delivery beyond its failure,
configuration and cryptography, deployment scripts,
presentation components; in the modelled parts, the abstractions named above
(creation of a missing stats row, the counters other than `total_xp` and `level`,
badge metrics other than those two, the trace of the simulator, access lists, NAT,
native VLANs, which the simulator stores and never reads, the VLAN, host name and
device-count rules of the grader, the spelling of console commands and what `show`
prints, the viewport of the editor).
