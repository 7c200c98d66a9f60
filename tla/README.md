# SwimSync in TLA+

SwimSync runs swimming competitions: entries are imported and seeded into heats
and lanes, secretaries enter results, an event is finalized (places, WA points,
sport ranks), and protocols are generated as Word documents. This directory
holds TLA+ models of its core logic, of its services and of the pages that work
on them; the TLC configurations that check them on small instances; and proofs
checked by TLAPS. Paths below are relative to the repository (`src/` in
`PROJECT.json`); `PROJECT.json` maps every definition to the lines it models.

    tlc -workers 2 -config DocxQueueFaults.cfg MCDocxQueue    # a run
    tlapm DocxQueueProofs.tla                                 # the proofs

## The system

| Part | State | Operations | Talks to |
|---|---|---|---|
| Results (`backend/src/results`) | `Result` rows, athlete ranks | save, batch save, finalize, undo | PostgreSQL, audit, live gateway |
| Seeding (`backend/src/seeding`) | heat and lane of every `Entry` | generate, generate all, clear | PostgreSQL |
| Entries, events, competitions, age groups | rows, competition status | create, edit, reorder, delete, change status | PostgreSQL, audit |
| Protocol configuration (`backend/src/competitions`) | configuration of a competition, presets, defaults of a user | read, set, save and edit presets | PostgreSQL |
| Athletes (`backend/src/athletes`) | athletes, applications | CRUD, preview and import of a file, earlier applications | docx-service (parsing), PostgreSQL |
| Auth (`backend/src/auth`, guards) | users, sessions | register, approve, (de)activate, log in and out, passwords | PostgreSQL |
| Feature flags, base times, rank norms | rows | list, change | PostgreSQL |
| Live gateway (`backend/src/live`) | socket rooms | join, leave, notify | pages |
| Export (`backend/src/export`) | none | build a payload, generate directly or submit a job, status, download | docx-service |
| DOCX job pipeline (`docx-service/main.py`, `worker.py`) | Redis keys: job record, document, idempotency key, queue, dead-letter list; or the same in memory | submit, worker loop, status, download | Redis |
| DOCX generation, parsing, PDF | none | pure conversion | |
| Secretary page | form of a heat, drafts in localStorage | load, type, save a heat, finalize, undo | backend |
| Competition page with its tabs (events, results, settings) | lists and forms | load, edit, seed, finalize, export | backend |
| Import page, applications page | parsed file; swimmers and rows | parse, review, save; add, edit, export | backend |
| Live board | event chosen, results shown | load, join, notified | backend, live gateway |
| Administrator's page, norms page | lists, panels, forms | load, change | backend |
| Standings, public results, audit log, observability | none | read, fold, append | PostgreSQL |

The backend is one Node.js process (or several): a handler runs alone until it
awaits a database call, and other handlers run in between. docx-service is
asyncio; every process runs the worker task next to its API, and all of them
share one Redis queue. A page is one event loop too: it sends a request, goes on
taking clicks, and takes the answers in whatever order they come; hardly any
page cancels what it has asked for.

What is hard, with the properties each part must have:

* **DOCX jobs.** Two stores (record and document) and a queue are updated in
  separate commands, by several workers without locks; processes restart, Redis
  commands fail, keys expire. Correct means: one party at a time answers for a
  job, Redis agrees with it, no job is lost unless its party died, attempts are
  bounded, a final status stays final, accepted jobs end. Without Redis: nothing
  is cleaned up that is still needed.
* **Results.** Check-then-write with a version, a guard on the competition's
  status read in another call than the write, a finalization computed from a
  snapshot. Correct means: an update is lost in a race only, places are those of
  the results they stand next to, a completed competition comes to rest.
* **Seeding.** The same gap between read and write, over rows that edits of
  entries move at the same time; block filling with a balancing step; lanes from
  the centre. Correct means: everybody gets one lane, nobody shares one, the
  fastest swim last and in the middle.
* **Protocols.** Several ways to lay one event out in tables, each with its own
  ranking, and a small language of rules that is compiled and then evaluated.
  Correct means: every result is listed once, where the first rule that holds
  puts it, and a place counts those who were faster.
* **Exports.** A client polls a job that others retry, expire and lose, while the
  data it was made from changes. Correct means: every export ends with the right
  document or a message, and the message is true.
* **Import.** One transaction on READ COMMITTED that looks up, creates what it
  misses and refers to what it found. Correct means: what is there is found, a
  repeated import adds nothing, only a race makes duplicates or fails.
* **Sessions.** Revocation and account status change in separate calls. Correct
  means: whoever is deactivated or gets a new password has no session left.
* **Protocol configuration.** Checked in one call and written in the next, by a
  form that the page checks in its own way. Correct means: page and service
  agree, only administrators share presets, an untouched form changes nothing.
* **Pages.** Answers that are late, overtaken, lost or for something else than
  what is selected now; forms filled from one row and saved to another; drafts
  laid over newer data. Correct means: a page at rest shows what there is, what
  is sent is what was shown, what was typed is not lost.

`PROJECT.json` lists the hazards one by one, each at its line, with the
properties that cover it.

## Modules

| Module | Models |
|---|---|
| `DocxJob` | what the job pipeline promises: the lifecycle of a job |
| `DocxQueue` | submit handler, worker loop, Redis, faults; implements `DocxJob` |
| `DocxQueueProofs` | theorems about `DocxQueue`: who answers for a job, and what becomes of it |
| `DocxMemory` | the same pipeline in the memory of one process; implements `DocxJob` |
| `ExportClients` | browsers and synchronous endpoints that export over `DocxQueue` (EXTENDS it) |
| `ProtocolConfig` | the protocol configuration and its presets with requests in flight, and a settings tab |
| `SettingsTab` | the form of the settings tab, what it checks and what the service checks |
| `Ranking`, `Protocols` | places of an age group; the configuration in force, the rules, and the tables of a result protocol (pure) |
| `SeedingRules` | order, heat sizes, lanes (pure) |
| `TimeText` | writing and reading of times (pure) |
| `Rules` | enumerates inputs of the pure modules |
| `Results` | `ResultsService` with requests in flight, and the edits around it |
| `ResultsProofs` | theorems about `Results` |
| `Seeding` | `SeedingService` with generations in flight, and the edits around it |
| `SeedingProofs` | theorems about `Seeding` and `Rules` |
| `Import` | `AthletesService.confirmImport` with imports in flight, and the edits around it |
| `AuthSessions` | accounts and sessions with requests in flight |
| `AuthSessionsProofs` | theorems about `AuthSessions` |
| `HeatDrafts` | the secretary page: heats, the form, drafts in the browser |
| `LiveBoard` | the live page: rooms, notifications, loads |
| `ResultsTab`, `EventsTab` | the tabs of a competition, with answers in any order |
| `ImportWizard`, `Applications` | the import page and the page of named applications |
| `AdminPage`, `FeatureFlags`, `Normatives` | the pages of the administrator, with the flags and the tables of norms |
| `Filters` | `Array.filter`, which pages and services use on lists of requests, events and rows |
| `MC...` | several modules for one run of TLC, and values of the constants |
| `OfficeProofs` | theorems about what `MCOffice` composes, and about the whole |
| `DocumentsProofs` | theorems about what `MCDocuments` composes, from those about `DocxQueue` |
| `SetupProofs` | theorems about what `MCSetup` composes |
| `ListLemmas` | where the members of a list are after one is removed, inserted, moved or filtered; induction |

`MCOffice`, `MCSetup`, `MCDocuments` and `MCSeeding` put modules that share no
state into one run. A variable `part` is chosen at first and a behaviour is one
of that part, with the others as they begin: the states explored are the sum of
those of the parts, and the property of each part is checked on its own states.
`MCOffice` has accounts, drafts, the live board, the pipeline in memory, the
administrator's panel, the flags and the results tab; `MCSetup` the import, the
events tab, the import page, the applications and the norms; `MCDocuments` the
exports, the configuration and the settings tab; `MCSeeding` seeding and
`Rules`.

Operators called a mutant in their comment are variants of the definition they
precede that a plausible slip in the code would give. Nothing uses them in the
models; each was put in the place of its definition once, to see that the
property it is listed with in `PROJECT.json` notices.

### DocxQueue

`meta`, `result`, `idem`, `queue` and `dead` are the Redis keys. `worker` holds,
for every service process, the step and the local variables of its worker task,
and `api` those of a submit request, for every handler in `Handlers`. A handler is
a pair of a process and a number: the event loop of a process serves any number of
requests at once, which take turns at their awaits, so how many handlers a process
has is a bound on the open requests and nothing in the code. They end together
when the process does. An action is one Redis command with the
local code up to the next `await`. The two commands of `_save_job` are one action
except in the save of a finished document, where the state in between is seen by
clients and by failures. `_docx_worker` is `WorkerPull` (BLPOP), `WorkerLoad` or
`WorkerDrop`, `WorkerStart` (the save as processing), `WorkerGenerated` and
`WorkerSaveResult`, or `WorkerGenerateRaises` and `WorkerRetry`, `WorkerRequeue`,
or `WorkerGiveUp`, `WorkerBury`; `_enqueue_docx_job` is `SubmitResolve` to
`SubmitEnqueue`.

Faults are chosen by the constant `Faults`: `"crash"` (a process restarts; its
requests and its worker are gone), `"redis"` (a command raises: in the handler a
500; in the worker the task ends, because the loop has no handler around its
commands, except in the completing save, which is inside the `try`), `"expire"`
(keys reach their TTL). All keys have the same TTL, so instead of a clock the
model keeps the order in which live keys were last written (`older`) and lets
only the oldest expire. `used`, `acked` and `orphans` are history: ids generated,
ids returned to a client, and jobs whose handler or worker died holding them.

Abstracted: the payload is its idempotency key; the error text, timestamps and
the document's content are left out. A Redis command happens once or not at all,
except that the completing `SET` of the document may take effect and then fail.
Only requests with an idempotency key are modelled (the backend always sends
one).

### ExportClients

`client[c]` is an export: a browser in `downloadDocxWithRetry` (step `submit`), or
a synchronous endpoint in `requestDocxQueued` (step `request`; it polls before it
looks at a status). `Click` is the request up to the first command of the submit
handler, so it contains `SubmitResolve`; the answer is in the step of `DocxQueue`
that ends the handler (`AnswerExisting`, `AnswerNew`); `Poll` is one GET of the
status, and the download has the two reads of docx-service. The backend keeps no
state between requests; its part is the mapping of statuses in `Heard` and the
502 for every other answer (`error`). The retry of a toast is another click.

`data` stands for everything the payload is built from, and also for its hash,
the idempotency key. The backend reads it in one step here; in the code it takes
several queries, so a payload may mix two states of the competition.
`client[c].job` of a failed export is kept for the property about it.

### Import

`imp[i]` is a transaction with its step and local variables: `group` the age
groups it chose, `who` and `where` the athletes and events it found, `pairs` the
entries it found. `athlete`, `event`, `applied` and `entries` are the tables; an
entry refers to its athlete, its event and possibly an age group. Under READ
COMMITTED each read sees what is committed by then, so each is a step; what the
transaction creates is seen by nobody before its commit, so creating is part of
`Commit`. Referring to a row locks it against deletion: the application does it
for the athlete early (`Locked`), the entries at the end. A violated foreign key
or the unique key of entries ends in `RollBack`, too much time in `TimeOut`.

A swimmer is a name with a birth year; `Fits` tells the age groups of a birth
year. Applications count only as rows that hold an athlete. `clash`, `done` and
`again` are history: imports during which somebody changed the rows, imports that
nobody disturbed, and imports that repeat one.

### Results

One event. `result[e]` is the `Result` row (`scored` is the time for which
points and rank were computed, so it stands for both), `out` the entries out of
competition, `tier[e]` the athlete's rank on an ordinal scale, `comp` the
competition's status (`draft` behaves as `active`). `req[r]` is a handler with
its step and local variables; its steps are its database calls. A Prisma
transaction is atomic at its commit, and the reads of the batch before it are
one step (`HeatRead`): they only decide between update, create and conflict.
`page` is what a client's page shows; `clash` is history: handlers during which
another one committed.

`DQ` stands for DQ, DNS and DNF, which the code treats alike. The age group
stands for the grouping of results; the database lookups of base times and norms
are the function `Tier`. Creating a result for an entry that has one, and
updating a deleted one, raise Prisma errors (`SaveFails`, `HeatRollback`,
`FinalRollback`). The notification and the audit record are one step without
contents (`Audit`). The batch save takes its versions from `HeatVersion`: the
item DTO has no such field and the validation pipe strips it.

### Seeding and rules

`spot[e]` is heat and lane. A generation reads the event (`GenerateBegin`), then
the entries (`GenerateRead`), and writes in one transaction (`GenerateCommit`).
Between reading and writing the code shuffles ties; the model chooses the
outcome at the commit, where it first shows. Both shuffles are there: one splits
the event into heats, one orders the swimmers of a heat. A swimmer without a
lane (a pool of one or two lanes, which the API accepts) keeps the old one, as
Prisma ignores undefined values, and a generation that runs past the last swimmer
raises (`Raises`). `fresh` is history: whose lane the last generation wrote.
`generateAll` is one generation after the other and has no action of its own.

`Protocols` has the way from the row of a competition to the tables of its result
protocol: `FromRow`, `FromDefaults` and `Resolved` (the defaults of who created
the competition count if it has chosen nothing), then `Separate`, `Combined`,
`Mixed` or the rules of advanced grouping, each with its own places, as functions
of a list of results. As in the code, a missing place counts as 999 and a missing
time as 16:39.999 when rows are compared, so that a slower swimmer of a long event
comes after a result without time; and `Separate` makes a table for each name of
an age group, which two age groups may share. A text is the set of its parts, so
that containing is being a subset; `CompileCondition` makes what `ConditionHolds`
looks into, and `EvaluateCondition` is the evaluator that only the unit tests
call. `TimeText` has the three readers and two writers of times, on the numbers of
a text. `Rules` goes through inputs of all of them: pools and times in its first
states, a swimmer or a result more in every step.

### DocxMemory

`memJob`, `memQueue` and `memKey` are the dictionaries and the queue of the
process, `hand` and `busy` its worker. A generation awaits nothing, so while
`busy` nothing else runs; `MemoryLost`, the end of the process, may come at any
time. A record is `old` once its TTL is over. A key is registered before the last
change of its job, so a job is not older than the keys that name it. `told` is
history: what was last said of a job, which outlives its record and is what
`DocxJob` is about.

### ProtocolConfig and SettingsTab

`ProtocolConfig` is about requests that overtake each other: `call[k]` is a
request between its check and its write, with what it read. Of a configuration it
knows whether it has rules. Its settings tab tells apart whether the form was
filled by the server. `SettingsTab` is about the form and runs one request at a
time: `settings` is the tab, `comp` the row of the competition with its age
groups, `saved` the defaults and the preset. `TabTakes` is what the tab checks
before it sends, `ServerTakes` what DTO and service check of what is sent
(`Sent`), over conditions whose values are texts, numbers or lists: sequences of
words, of integers that may be an id, and of `low` ones, zero or negative, that are
none. `Typed` keeps of a list of age groups every integer, as the page does.

### AuthSessions and AdminPage

`account` and `session` are the tables, `request[r]` a handler with its step.
Every call to the database is a step; a request may fail (`Fail`) and the backend
may restart between any two. A session remembers the password it was opened
with; `raced` marks a login that a deactivation or a change of password overtakes
between its check and its session, the session it opens, and those left over by a
request that broke off. The administrator of the environment is restored by
`Restart`. `AdminPage` is the page with the panel of one user's sessions, whose
chains of requests (revoke, then load) are each one step at the server.

### Pages

Every page has its own state, and a sequence or set of its requests in flight;
the server serves them, and the answers are taken, in separate steps and any
order. An answer lost or refused is a step too. In each of them one variable is
history and tells what the page cannot know: `missed` (a change that no
notification told of), `unaware`, `unsure`, `odd`, `blind`, `lag` (a change by
somebody else, an answer overtaken by another, a failed request), `twice`
(a swimmer asked for twice at a time). Each of these exceptions was checked to be
needed: without it the property fails.

* `HeatDrafts`: loading replaces the form, lays the draft over it, and the effects
  of the page write the form back into the storage; in that order, as React runs
  them. A reload and a finalization are each one step with the loading that follows
  (`secretary/page.tsx:352-365`), so what is clicked during these awaits
  is left out; what is clicked during a save is not. `typed` is history: what was
  typed last into a heat and not saved.
* `LiveBoard`: `notices` and `board.inbox` are notifications on their way; joining
  and leaving the room follow the socket, not the loads.
* `EventsTab`: a load of the page takes the tab away and mounts a new one, which
  loads the entries again; a tab that is gone still ends what it has begun.
* `ResultsTab`: whichever load ends takes the sign of loading away.
* `ImportWizard`: what a sheet gives is `Parse`; the page keeps genders and
  events it reviewed next to the preview, and may get another preview meanwhile.
* `Applications`: a swimmer is looked for in the application before, and added
  after, he is asked for.
* `FeatureFlags`: the list is cached for a while, by the module and not the page,
  so it outlives it.
* `Normatives`: a save writes, loads the table and then resets the form, which may
  be another one by then. WA and UA differ in the keys of their rows and in what
  their cards do.

## Runs

Every run finishes with no error, except the ones under Findings. Times are for
two workers.

| Run | Instance | Shows |
|---|---|---|
| `DocxQueueFaults` | 2 jobs, 1 key, 2 services, one of them with two requests at a time, 2 attempts, dead letters cut to 1, all faults; 793 000 states, 1.5 min | types, one carrier per job, Redis agrees with it, stuck jobs are orphans, completed jobs have documents, the dead-letter list agrees, final is final |
| `DocxQueueLive` | 3 jobs, 1 key, 2 services, one of them with two requests at a time, no faults; 30 000 states | accepted jobs settle, refinement of `DocxJob` with its fairness, duplicates of one request are bounded |
| `ResultsEntry` | 1 entry, 2 requests, all operations but the edit of the entry, 3 edits; 490 000 states, 80 s | updates are lost in races only, a completed competition comes to rest |
| `ResultsFinal` | 2 entries, 2 requests, batch saves, finalize, undo, edits of the entries; 1.4 million states, 2.5 min | types, what an undisturbed finalization leaves, ranks drop in races only |
| `Seeding` | 4 swimmers, pools of 1 to 3 lanes, 2 generations in flight, 2 edits; pools of 1 to 20 lanes with up to 50 swimmers; lists of up to 4 results, with times of 15 and 20 min; times up to 70 s; 160 000 states, 2 min | an undisturbed generation follows the rules, when a lane is shared; heats fit, fastest last, lanes from the centre; times read back as written, with the exception named; every protocol lists every result once, with a place that counts who was faster, whatever the age groups are called |
| `Documents` | exports: 1 client, 2 jobs, 2 versions of the data, 1 service with one request at a time, 2 attempts, 2 polls, restarts and expiry; configuration: 2 requests, 1 preset, an administrator and a secretary; settings: 2 age groups, 4 changes, values of up to 2 items; 900 000 states, 3 min | every export ends, its job is made from what was asked, a failure is told when there will be no document; presets are shared by administrators, an untouched form changes nothing, tab and service agree on a form but for the cases named |
| `Setup` | imports: 2 by a secretary and an administrator, 1 swimmer in 2 events, 1 change by others; events tab: 2 events, 1 entry, 2 requests; import page: 2 sheets, 2 parses, 1 import; applications: 2 swimmers, 2 rows, 3 drafts; norms: 2 rows, 2 requests; 1.55 million states, 2.5 min | repeated imports add nothing, duplicates and rollbacks in races only; lists show what the server has once the page rests; forms send what they show |
| `Office` | accounts: 2 users, 2 passwords, 2 sessions, 2 requests; drafts: 2 events of 2 heats; board: 2 events, 2 changes, 2 loads; memory: 3 jobs, 2 keys, 2 attempts; panel: 2 users, 2 sessions, 2 chains; flags: 3 requests; results: 2 events, 2 changes, 3 requests; 1.27 million states, 3 min | open sessions are current, what is typed is in its draft, pages catch up, nothing needed is cleaned up, refinement of `DocxJob` |

**Bounds.** Two jobs are enough for every interplay of two carriers; one key makes
all requests the same export, the case idempotency is about; two attempts give a
first and a last one; the list of one dead letter makes trimming happen. The two
handlers in these runs are of one process (`TwoInOne`), whose end takes both with
it, while the worker of the other goes on; two handlers race in every way two can.
Three jobs in `DocxQueueLive` leave one for a request after such a race. The one
handler of `Documents` stays busy with a request its client has given up, or its
end frees it. In `Results`
two requests race in every way two can; more entries than two only add ties,
which `Rules` covers, so the ranking of `Results` uses the operator `Rules`
checks. `MaxVersion` ends the edits; a request already admitted may exceed it,
hence the bound `MaxVersion + Cardinality(Requests)` in the type. With three
lanes and four swimmers there are two heats and the balancing moves two. Four
results of two age groups and none are the least with which a place after a tie,
and the fourth place, which is no Roman numeral, come about; their times, 15 and 20
minutes, are below and above the 16:39.999 that a missing time counts as. That time
itself is left out (`RulesAssumption`): the pages give whole hundredths. Age groups
have names of their own, the same name, or the one that results without age group
get. One client of
`ExportClients` may leave its job behind and click again, so its next export
meets a job of the last one; clients do not act on each other but through jobs.
Two polls let it give up before a job with two attempts ends. In `Import` two
transactions race in every way two can; ids end at two athletes and three events,
so in some races the second import runs out of ids and only times out; others
leave it enough for duplicates of athletes and of events. `FewIds` cuts the
import off after four ids. For a page two requests in flight are the least that
overtake each other; where a request of another kind may come between (flags,
results tab) there are three. Two events of two heats give `HeatDrafts` a draft
that is not selected, one of another heat and one of another event; `TwoDrafts`
stores two at a time. Four changes by hand on the settings tab reach every field
of a condition of a new group, and a save or a preset before or after it. A value
of two items, of which one is an id, is the least in which one item is wrong.

Requests, entries, jobs and services, imports and events are permuted
(`SYMMETRY`) in runs without liveness only. `Imports` and `Races` of `MCSetup`
are given the same model values, because one permutation applies to both; the
parts they belong to never meet.

Deadlock is checked in `DocxQueueFaults`, `DocxQueueLive`, `ResultsEntry`,
`ResultsFinal` and the export part of `Documents`, whose other parts have a
stuttering step, as nobody has to change a setting. In `Seeding`, `Setup` and
`Office` it is not: the enumeration of inputs ends, a page that could not be
loaded or was left is used no more, and the ids of jobs and sessions run out.

**Fairness.** `DocxQueue!Fairness`: the event loop of a running service resumes
what awaits, so each handler and each worker goes on (weak fairness of a
process's next step); nothing obliges a client to submit, and generation ends, by
success or exception. It is used without faults only: with a fault a task can
end. `DocumentsSpec` (as `ExportSpec`): the timers of a client and of the
backend's requests (`AbortSignal.timeout`) go off, so an export goes on whatever
the service does; nothing is assumed of the service. `Results!FairSpec`: a
request that has begun goes on, nothing obliges anybody to begin one. The pages
need no fairness: that they catch up is stated for when nothing is on its way,
and that something stays on its way for ever is the network's business.

## Findings

Four runs check a statement of the repository that the code does not keep.

* `DocxQueueRetry`: the retry after a failed export carries the same
  idempotency key, so it is answered with the failed job until the key expires
  (`docx-service/main.py:486-490`, `README.md:27`, `docx-download.ts:38-48`).
* `ResultsLocking`: batch saves have no version conflict, the version is stripped
  before the service sees it (`results.controller.ts:46`, `README.md:28`).
* `ResultsPK`: a placed result set to PK is in no list of the next finalization
  and keeps its place (`results.service.ts:244-249`, `README.md:30`).
* `CombinedPlaces`: with all age groups in one ranking the number of a place is
  lost from the fourth on (`export.controller.ts:894`, against 529 and 845).

The exceptions that the properties name are the code's weak points that no
document speaks about. In particular: a login overtaken by a deactivation leaves
a session that comes back with the account (`AccessIsCurrent`); a secretary's edit
of a preset may take back what an administrator has just shared
(`SharedOnlyByAdmin`); a form saved before its configuration came erases the rules
(`FormSavesWhatItShows`); an advanced grouping that one of tab and service takes
and the other refuses, as of an age group -5, alone or in a list, that the tab keeps
and the service stores with a preset (`TabAgreesWithServer`); choosing an event overwrites the
draft of its heat with the form of the event before (`DraftKeepsTyped`); a card of
the WA table fills the form without its id (`FormIsOfItsRow`); a changed gender
drops entries of an import (`SavesWhatWasReviewed`); a second click adds a swimmer
twice (`EverybodyOnce`); a request admitted before the competition is completed
writes after it, as the guard is another call than the write
(`EventuallyFrozen` only says that this ends). Met on the way: the flags in force
are documented for all roles but served to administrators
(`feature-flags.controller.ts:21-36`), so that turning off the autosave of drafts
has no effect on a secretary (`OpenResults` of `FeatureFlags`).

## Proofs

Each theorem holds for every value of the constants that its module assumes, and
TLC has checked the property it states on an instance. The inductive invariants
are conjunctions of named parts; each proof has a lemma per action or per group
of actions that do the same, with a step per part it can disturb.

| Theorem | States |
|---|---|
| `DocxQueueProofs!Invariance` | `Spec => []IndInv` |
| `TypeCorrect`, `OneCarrier`, `CarrierAgrees` | `TypeOK` (attempts never exceed `MaxRetries`), `SingleCarrier`, `CarrierStatus` |
| `FinalIsFinal` | `FinalStatusIsFinal` |
| `NoneStuck` | `StuckOnlyIfOrphaned` |
| `DeadLettersAgree` | `DeadLetterAgrees` |
| `DocumentsStay` | `CompletedDownloadable` |
| `LifecycleKept` | `Spec => Lifecycle!JobSpec` if `Faults \subseteq {"crash"}` |
| `OneJobEach` | `OneJobPerOpenRequest` if `Faults = {}` and `Handlers` is finite |
| `DocumentsProofs!ExportInvariance` | `ExportSpec => []ExportInv` |
| `JobsAreWhatWasAsked`, `FailuresAreFinal`, `DoneAreDownloadable` | `JobIsWhatWasAsked`, `FailureIsFinal`, `DoneIsDownloadable` |
| `ConfigInvariance` | `ConfigSpec => []ConfigInv` |
| `ConfigTypeCorrect`, `SharingByAdmins`, `FormSavesItsAnswer` | `ConfigTypeOK`, `SharedOnlyByAdmin`, `FormSavesWhatItShows` |
| `SettingsTypeCorrect`, `ChecksAgree` | `SettingsTypeOK`, `TabAgreesWithServer` |
| `DocumentsInvariance`, `DocumentsTypesCorrect` | of `DocumentsSpec`: all three invariants, `DocumentsTypeOK` |
| `OfficeProofs!MemoryInvariance` | `MemorySpec => []MemoryInv` |
| `NothingRemoved`, `MemoryRefines` | `NothingNeededIsRemoved`, `MemoryImplementsJob` |
| `DraftInvariance`, `TypedIsKept` | `DraftInv`, `DraftKeepsTyped` |
| `FlagInvariance`, `BoardInvariance`, `ResultsTabInvariance`, `AdminInvariance` | the invariants of these pages |
| `OfficeTypesCorrect`, `PagesFollow` | of `OfficeSpec`: `OfficeTypeOK`, `PagesCatchUp` |
| `AuthSessionsProofs!AuthInvariance` | `AuthSpec => []AuthInv` |
| `AuthTypeCorrect`, `AccessStaysCurrent` | `AuthTypeOK`, `AccessIsCurrent` |
| `SetupProofs!ImportInvariance`, `NormInvariance` | `Spec => []ImportInv` of `Import`, `NormSpec => []NormInv` |
| `SetupInvariance`, `SetupTypesCorrect` | of `SetupSpec`: all five invariants, `SetupTypeOK` |
| `ListsFollow`, `PagesSendIt` | `ListsCatchUp`, `PagesSendWhatTheyShow` |
| `ReimportsAddNothing`, `ImportsAreClean` | `ReimportAddsNothing`, `CleanUnlessRaced` |
| `ResultsProofs!ResultsInvariance` | `Spec => []ResultsInv` |
| `UpdatesLostInRace`, `RanksDropInRace` | `LostUpdateOnlyInRace`, `RankDropsOnlyInRace` |
| `FinalizationsRank`, `ResultsTypesCorrect` | `FinalizationRanks`, `TypeOK` |
| `SeedingProofs!SeedingInvariance` | `Spec => []SeedingInv` |
| `SeedingTypes`, `LanesGivenOnce` | `TypeOK`, `LaneSharedOnlyWithOutsider` |
| `GenerationsSeed` | `GenerationSeeds` |
| `RulesAreFit` | `RulesSpec => []RulesFit` |
| `PlacesOfProtocols`, `ProtocolsAreWhole` | of `RulesSpec`: `ProtocolPlaces`, `ProtocolListsAll` |

**The job pipeline** (`DocxQueueProofs`), under `DocxAssumption`: the bounds are
positive, the faults are among the three, the null values are no ids. The type
invariant is not inductive: `WorkerLoad` counts an attempt, and it stays within
the limit only because a message stands for a job with attempts left. That is
`CarrierStatus`, and it stays true only because nobody else writes the job while a
worker holds it: `SingleCarrier`. That in turn needs that whoever carries a job
carries one that was generated, and that a fresh id is carried by nobody:
`Responsible`. `IndInv` is the conjunction. `HolderWrites` is the argument common
to the actions in which a worker saves the job it holds, `AppendDistinct` and
`TailDistinct` those about the queue. `FinalIsFinal` follows from the invariant:
who writes a record holds it, and then the record is not final.

**What becomes of jobs** (the second half of `DocxQueueProofs`), on top of `IndInv`:

* `NoneStuck`: `CarriedAlong` says of one job and one step that who lets go of it
  has brought it to an end or died, and that nobody writes a job he does not carry.
  With it `StuckOnlyIfOrphaned` is inductive.
* `DeadLettersAgree` needs `DeadGood`: nobody carries a job that is listed, and
  the list is not longer than its limit.
* `DocumentsStay` needs `DocumentsOutlive`: the document of a completed job was
  written after its record, so the record expires first.
* The section job by job says what one step does to one job, its record, its
  worker, its handler and its messages (`WorkerOfJob`, `MetaOfJob`, `HandlerOfJob`,
  `QueueOfJob`); from it follow facts that stay true once they are true: a failed
  job stays failed (`FailedSettled`), a completed one completed or in the hands of
  whoever failed to complete it (`CompletedSettled`), and a job keeps the payload
  it was made from (`MadeFromStays`).
* `LifecycleKept` needs `LifeGood`: jobs stay stored, and who runs a job has
  counted one attempt more than was stored before. Each action is then an action of
  `DocxJob` or leaves status and attempts alone. With expiry a job vanishes, and
  with failing commands a completed one is generated again, which the lifecycle
  rightly does not have; what is said of them then are `FinalStatusIsFinal` and
  `CarrierStatus`.
* `OneJobEach`: counting is done by an injection. `Owners(owner, k)` gives every
  job made for a key a handler of its own, not one that is about to make another
  (so the next job has an owner left), and as long as the key is not registered
  each owner still holds its job (so the handler that finds no key is no owner).
  Once the key is registered it stays, and nobody starts making another.

**Exports** (`DocumentsProofs`): a step of `ExportClients` is a step of
`DocxQueue` or leaves it alone (`ExportStepIsStep`), so the facts about one job
carry over. `ExportInv` says of the pipeline what keys and open requests name
(`PipelineGood`: jobs made from the payload of the key), and of every export what
is known of its job (`ClientsGood`), in terms of facts that no step of the pipeline
undoes. A step then either leaves an export as it is or makes one about which the
same is known.

**The pipeline in memory** (`OfficeProofs`), under `MemoryAssumption`:
`MemoryInv` is `MemoryTypeOK`, `LineGood` (what is in line is queued, once),
`CarriedGood` (what is queued is in line or in hand), `ToldGood` (what was last
said of a job is what is stored, and what is queued has an attempt left) and
`KeysGood` (a key in force names a job that is not old). `NothingRemoved` follows:
what is removed is finished and old. `MemoryRefines` maps every action to one of
`DocxJob` or to a stutter; the end of the process is a stutter, since what was said
of a job is not taken back.

**Results** (`ResultsProofs`), under `ResultsAssumption`: `ResultsInv` is
`ResultsTyped`, `SaveGood` (a save about to update has compared the version it will
overwrite) and `PlanGood` (a plan about to be committed raises ranks only), the
last two unless another request has committed since. `FinalizationsRank` needs what
the ranking computes, for any number of results: any finite set can be put in the
order of its times (`ListLemmas!OrderExists`: a member's position is the number of
those not behind it, ties by any numbering), the recursive function by which `Places` is
defined exists (`PlacesIs`), a place is the first position that has the time
(`PlacesSay`), so places follow times and count who is ahead (`PlacesCount`,
`PlaceOfSays`). `TypeOK` is not inductive: nothing in it keeps a version from
growing. `TypesInv` counts the requests that may yet write a result (`Pending`): a
request is admitted while the version is below `MaxVersion`, and every version
more costs one of them (`BoundKeeps`, `RowStep`). `ResultsAssumption` has finitely
many entries and requests, as an event and a server have.

**Accounts and sessions** (`AuthSessionsProofs`), under `AuthAssumption`:
`AccessIsCurrent` is not inductive, since a login and a change of password carry
what will be true of a session later. `LoginGood` says that a login nobody has
overtaken is as good as the session it will open, `OwnerGood` whom a request of a
session belongs to, `ChangerGood` that the session that changes a password has the
new one unless somebody else is about to revoke it.

**Protocol configuration** (`DocumentsProofs`): `ChangesGood` says that a
secretary's change that nobody has overtaken still finds the sharing it was checked
against, which needs that ids of presets are not given out twice; `FormGood` and
`SavesGood` that an untouched form, and its save in flight, hold what the server
had sent.

**The settings tab** (`DocumentsProofs`), under
`SettingsAssumption`: the form stays a form through every way of editing it
(`BlocksStay`, `FormStays`, `EditKeeps`), so its conditions are conditions
(`ConditionsTyped`), of which the tab and the server think alike one by one
(`ConditionAgrees`), but for the cases `TabAgreesWithServer` names.

**Seeding** (`SeedingProofs`), under `SeedingAssumption`: `SeedingInv` is
`SeedingTyped` and `LaneSharedOnlyWithOutsider`. Both need what the rules compute,
for any number of entries:

* `TakenSays`: the swimmers placed in the last heats, a recursive function over the
  heats (`TakenIs` proves that it exists, by `ByInduction`), never get fewer from a
  heat to the one before. So a rank swims in exactly one heat (`HeatOfSays`,
  `HeatOfOnly`) and a better rank in no earlier one (`HeatOfFalls`).
* `HeatsTake`: all heats are full but the first two, so together they take every
  entry, from three lanes on exactly and in heats that are neither empty nor larger
  than the pool. Below three lanes the second heat may not have what the first one
  lacks; `GenerateRead` then raises, and the types hold all the same.
* `PlanSays` takes a plan apart into the rank in the event, the rank in the heat
  and the count that gives the lane. Swimmers of a heat are counted by rank, so no
  two have the same number (`CountsDiffer`), and no lane is twice in the order of
  the lanes (`OrderDistinct`), which leads from the centre outwards
  (`OrderOutwards`). `PlanDistinct` and `PlanByRules` follow.

`LanesGivenOnce` is then an invariant, and `GenerationsSeed` an action property: of
the steps only a commit ends a generation whose entries are all there
(`WhoCommits`), and what it writes is a plan by the rules. `LaneOrder` is the order
in closed form; the code has a loop over lanes, `LaneLoop`.

**The pure rules** (`SeedingProofs`), under `RulesAssumption`:

* `RulesAreFit`: `HeatsSay` has the heats from the lemmas above; `LoopSays`, by
  induction over the steps of the loop, that it takes the lanes alternately right
  and left of the centre, and so gives the closed form (`LanesSay`); `TimesSay` what
  the three readers make of what the two writers print.
* `PlacesOfProtocols`: the n-th of a set in an order is the one with n - 1 before it
  (`SortedBySays`, from the counts on which `OrderExists` rests too), so a table has
  its rows by class and key (`ByPlaceSays`, `ByTimeSays`). The results in
  competition are then the first rows, and the first row with a time has as many
  before it as were faster: by `PlacesCount` in an age group, and in a joint table
  too, as a missing time comes where its stand-in does and shares it with no other
  (`SamePlaces`: places are the same for two lists of times with the same ties).
  `GroupPlaced` and `JointPlaced` put this in the terms of the property.
* `ProtocolsAreWhole`: the tables of a format are of disjoint parts of the list that
  cover it (`SeparateLists`, `CombinedLists`, `MixedLists`), and so are those of
  rules, each result being in that of the first rule that holds (`AdvancedLists`); a
  compiled condition, block and rule holds where the one that is tested does
  (`ConditionSays`, `BlockSays`, `RuleSays`).

**Drafts** (`OfficeProofs`), under `DraftAssumption`: the page writes the form to
the draft of the chosen heat whenever it shows something else, so `DraftKeepsTyped`
stands only as long as the form is what was typed there (`FormGood`). After a save
the page shows the entries of the event it was about, which need not be the event
chosen by then; nothing of the chosen event may be typed and unsaved meanwhile
(`ShownGood`, and `SavingGood` while the save is under way). `SavingGood` says too
that a draft is dropped only after the save of what was typed last. `OpenGood`: a
page that is closed does nothing.

**Pages that catch up** (`OfficeProofs`). A page shows what there is once nothing is
on its way, which is not inductive: while answers are on their way, one of them
must bring it. So each invariant says of the requests in flight, in whatever order
their answers come, that one of them is still to be served or has an answer that
is not overtaken, or that something has happened the page is not told of. For the
flags the cache of the service is one more such party (`CacheGood`), and only
updates after an answer count (`UpdateAfter`); for the board (`BoardInv`), the
latest load is of the event chosen and current unless a notice waits; for the
results tab only the request that came in time counts (`InTimeIsOfTheEvent`,
`BroughtIsCurrent`, `LoadGoesOn`); for the panel of sessions a chain that empties
it or shows it again (`AnswersCurrent`, `EmptiedIsEmpty`, `PanelCurrent`).

**The events tab** (`SetupProofs`), under `TabAssumption`: of every answer that has
not been overtaken by a write, `CallsGood` says what it tells (`SaysWhatIs`), and
that at most one is of a removal, since a removal makes all others stale.
`EventsGood`: the page shows the events there are or will load again. `EntriesGood`:
so does the tab, or entries come. A removal is shown in what was on the screen when
it was confirmed, without the entry; `RemovesGood` says why that is right if the
screen has not changed: what was there was current before the removal, or entries
come that replace it. A write whose answer nobody waits for, or a request that
failed, is what the page cannot know (`unsure`). `TabInv` was checked with TLC on the
instance of `Setup` before it was proved.

**Norms, import page, applications** (`SetupProofs`). `NormInv` has the same shape
as the others, with `Unread(k)` for a request that is answered after the k-th.
`WizardInv`: genders are those of the file but for the swimmers whose gender was
edited (`PreviewGood`), also in a save that is on its way (`SaveGood`), however
many parses and saves overlap. `ApplicationInv`: a swimmer is in an application
once, or was asked for twice before the first answer came (`OnceIn`, `ClicksIn`);
that needs that the address of the page names a swimmer once, which its code
establishes (`ApplicationAssumption`).

**The import** (`SetupProofs`), under `ImportAssumption`: `Undisturbed` says of an
import that nobody has come in between that all it has read is still what is
there, and `SlotFits` that it refers to rows it has found, each athlete for one
swimmer. `ImportsAreClean` follows: what it creates was not there, and no key is
violated. `Imported` says that the rows of an undisturbed import are there until
somebody deletes one, so a later import of the same file finds everything
(`Repeats`), but for names that two answer to, and has nothing to add:
`ReimportsAddNothing`.

**Compositions** (`OfficeProofs`, `DocumentsProofs`, `SetupProofs`): a step of the
composition is a step of one part or leaves it alone, so the conjunction of the
parts' invariants is one of the whole, and the properties the runs check follow as
they stand in the configurations.

**Lists** (`ListLemmas`): requests are lists from which any member may be taken.
The lemmas say where the others are. The library states induction for an operator,
which no prover here can instantiate; `ByInduction` states it for a set of numbers
and rests on the library's theorem that the numbers are well-founded. With it
`FilteredIs` and `FilteredSays` are proved: that the recursive function by which a
filter is defined exists, and that a filter keeps exactly the members at the given
positions in their order. The lemmas about ranking, on which results and protocols
rest, are there too.

**Only model-checked.** Liveness, which is out of the provers' reach:
`AckedJobsSettle`, `EveryExportEnds`, `EventuallyFrozen` and the fairness part of
`ImplementsLifecycle`. And what the runs under Findings refute.

## Not modelled

`PROJECT.json` gives the reason for every component. In short: document
generation, the reading of Excel, CSV and DOCX cells and PDF conversion (pure, no
state); generated types (`openapi.ts`) and wrappers of `fetch`; layout and wording;
guards, CSRF, routing, health and rate limits; standings, the contents of audit
records and notifications; pages that load a list once or send one form; the fields
of entries, events, competitions and athletes that go straight from a form to a
row; deployment, backups and load tests; commands that the Redis client itself
repeats.

An athlete's or an event's own row may be renamed by somebody else while an import
runs (`athletes.service.ts:277-292`); that changes what an import looks up, so it
would be one more exception to `ReimportAddsNothing` and `CleanUnlessRaced`.

## Plan

1. `Documents` with two requests open at a time in the export part, which needs
   fewer states in its others.
2. `Import` with the renaming of athletes and events, and its exceptions.
