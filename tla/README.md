# PhishLens: TLA+ models and proofs

PhishLens is a Go service that takes suspicious messages (API, web form, CLI, Telegram, IMAP,
Microsoft Graph), analyses each one in a seven-stage pipeline, stores the result in SQLite or
PostgreSQL, and lets employees report and analysts review it. This directory holds TLA+ modules
translated from its source, TLC configurations that check them on small instances, and TLAPS
proofs of what matters most for every instance.

Paths below are relative to the repository (`internal/...` is `src/internal/...` in
`PROJECT.json`, whose `map` gives the lines of every definition).

## 1. Inventory

| Component | State it keeps | Operations | Interacts with | What is hard, what must hold |
|---|---|---|---|---|
| Submission store (`store/sqlite.go`, `postgres.go`) | tables submissions, analyses, signals, submission_iocs | SaveSubmission, UpdateSubmissionStatus, DeleteSubmission, PurgeOlderThan, Get/List | everything below | several statements without a transaction; an upsert that updates three columns; cascades only on PostgreSQL. No orphans, no resurrection, row and analysis agree |
| Submission lifecycle (`httpapi/handlers.go`, `review/review.go`) | one detached goroutine per analysis; nothing else | analyze, poll, review, report, incident, bulk, delete | store, pipeline | read-then-write handlers racing with the final save. What was answered can be polled; decisions name an analyst of the tenant |
| Retention and process life (`cli/serve.go`) | ticker, server, runners | purge every hour, shutdown, start of receivers | store, receivers | shutdown does not wait for detached analyses. Nothing stays `processing` for ever |
| Analysis pipeline (`app/analyzer.go`, `signals/signals.go`) | one analysis: signals, warnings, opinion, deadlines | the stages, RunCategories | checks, reputation, LLM, scoring, store | any lookup may fail, two nested deadlines. Failure is a warning, never evidence, never lost silently |
| Scoring (`score/engine.go`) | weights, thresholds | Evaluate | pipeline | thresholds, hard rules and conflicts in a fixed order. The block list decides; a feed hit is never clean; more evidence never acquits |
| Organisation lists (`app/lists.go`) | process-wide 30 s cache | load, match, invalidate | store, admin API | read outside the lock, written back later; a failed read caches an empty list |
| Reputation client (`reputation/`) | breakers, memory and stored caches, OpenPhish feed | IPListed, DomainListed, DomainAge, FileHashListed | providers, store | breaker races, negative answers cached only when every provider answered |
| LLM service (`llm/`) | result cache, hourly and daily budget | Explain, Vision, reserve/settle/cancel | providers | reservations across a day change, fallback chain |
| Ingest receivers (`ingest/`) | Telegram offset, Graph delta link, IMAP flags | poll, handle, acknowledge | pipeline | at-most-once or at-least-once delivery under failures and restarts |
| Notifications (`notify/`) | webhook subscriptions, sealed with a key | sequential fan-out, webhooks, answers by mail | pipeline, store | one sink's failure or delay against the others; a secret that does not open; a mail dialogue that breaks after the message was taken |
| Migrations, backup (`store/migrate.go`, `backup.go`) | schema_migrations, the database file and its log | up, down, snapshot, restore | store, every process that opens it | two processes that migrate at once, a kill at any point, a write-ahead log beside a replaced file |
| Brands (`brands/brands.go`) | list of brands in memory, table of custom ones | Match, Add | pipeline, admin API, CLI | the matcher's list against the stored one, across tenants; a match looks at the list several times |
| Authentication (`httpapi/auth.go`, `oidc.go`) | API keys, OIDC states, sessions, rate limiters | login, callback, key check | every handler | single use of a state, revocation, roles that change, buckets that are dropped |
| Parsing (`parse/`) | a walk of a message's parts | Parse, OCR, link expansion | pipeline | limits on depth, number and size over a recursion. A message within them is kept whole, one beyond them refused |
| Signal checks (`signals/*`) | none | about sixty checks | pipeline | pure functions, except the network checks |
| Sandbox, own SPF/DKIM (`sandbox/`, `authcheck/`) | none | Detonate, Verify | checks, pipeline | wrappers of external services |
| Web UI, CLI, reports, similarity, i18n | none | forms, flags, rendering | the operations above | presentation |
| Configuration, crypto, metrics, utilities | settings | Load, Encrypt | all | value types |
| Add-ins and deployment | none | | HTTP API | outside the service |

`PROJECT.json` lists the hazards of this code at the lines where they bite; section 4 says which
property answers which question, and section 4 also what no property decides.
## 2. Modules

| Module | What it is |
|---|---|
| `SubmissionStore` | the tables, one operator per SQL statement (or per transaction, where the code opens one) |
| `Submissions` | handlers, detached analyses, bulk actions, purge and restarts over those tables; its properties |
| `AnalysisResource` | the abstract specification of `/v1/analyses/{id}`: opened once, completed at most once, afterwards it can only lose what it shows |
| `MCSubmissions` | tenants and callers of the small instances |
| `Submissions_proofs` | theorems about `Submissions` and `Listings` |
| `Listings` | listings, the export of a subject and the statistics, statement by statement, over the tables while others write |
| `MailParser` | a document of one of five kinds becomes a mail or is refused; the walk of a message's parts |
| `ScoreEngine` | `Evaluate`: weights, sum, clamp, thresholds, hard rules, conflicts |
| `AnalysisPipeline` | one analysis over `ScoreEngine`: stages, checks, lookups, deadlines, warnings; its properties |
| `AnalyzeRequest` | the composition of the two: a request from its bytes to its answer |
| `MCPipeline` | a registry with one check of every kind, weights as in `data/weights.yaml`, and the documents |
| `AnalysisPipeline_proofs` | theorems about `AnalysisPipeline`, the rules of `ScoreEngine`, `MailParser` and the two composed |
| `Mailbox` | the abstract specification of a source of mail: what is handled how often, before or after it is acknowledged |
| `Intake` | what the three receivers share: messages that arrive, verdicts, failures, restarts |
| `TelegramReceiver`, `GraphReceiver`, `ImapReceiver` | one receiver each over `Intake`: offsets and bindings; delta links and pages; flags and sequence numbers |
| `Receivers` | their composition, their properties, the refinement mapping to `Mailbox` |
| `Receivers_proofs` | theorems about the receivers, their refinement of `Mailbox` among them |
| `CircuitBreaker` | one breaker per provider: `allow`, `observe`, cooldown |
| `ReputationClient` | lookups of one key through memory, table and providers, over `CircuitBreaker` |
| `ReputationClient_proofs` | theorems about `ReputationClient` and `CircuitBreaker` |
| `LLMService` | the chain of model providers and the budget's two counters |
| `LLMService_proofs` | theorems about `LLMService` |
| `OrgLists` | the cache of allow and block lists, its loads, and everything that edits the lists |
| `BrandMatch` | what a match of a message with a list of brands is, the edit distance included, as functions |
| `Brands` | the list in memory, the table, additions, restarts and matches under way |
| `Organisation` | the composition of lists and brands |
| `Organisation_proofs` | theorems about `OrgLists`, `Brands` and the edit distance of `BrandMatch` |
| `Notifications` | the fan-out of a verdict to sinks and webhooks, and the edits of the webhooks |
| `MailReply` | the SMTP dialogue of an answer to a reporter |
| `Outbound` | the composition of the two |
| `TokenBuckets` | the abstract specification of a rate limit: a bucket for every caller, none ever forgotten |
| `RateLimiter` | the limiter of `auth.go`, which drops idle buckets |
| `Login` | login states, callbacks and session cookies of OpenID Connect |
| `Access` | the composition: a request's way through authentication, limit and role check |
| `Boundary_proofs` | theorems about what comes in and what goes out: `Access`, `Login`, `RateLimiter`, `Notifications`, `MailReply` |
| `Migrations` | processes that open the store and migrate it up or down |
| `Maintenance` | backup and restore of the SQLite file over `Migrations`, with its write-ahead log |
| `Maintenance_proofs` | theorems about `Migrations` and `Maintenance` |
| `MCReputation`, `MCLLM`, `MCOrganisation`, `MCOutbound`, `MCAccess`, `MCMaintenance` | the values of the small instances |

`Receivers` extends the three receivers, which extend `Intake`; each receiver's actions leave the
others' variables alone, and the composition says so. `ReputationClient` extends `CircuitBreaker`:
a call that is let through, and each answer, is one step of both. `AnalyzeRequest` runs `MailParser`
to its end and only then lets `AnalysisPipeline` take its first step, which is the outcome of the
parse. `AnalysisPipeline` takes a lookup as answered or failed, which is what `ReputationClient`
returns; `Receivers` takes an analysis as a verdict or an error, which is what `AnalysisPipeline`
ends in; `Submissions` takes it from there, and `Notifications` the verdict. `Listings` reads the
tables of `SubmissionStore` with the same writing operators that `Submissions` uses. In `Access` one
request passes `Login`, the keys and `RateLimiter`. `Organisation` and `Outbound` hold two parts that
share no state in the program either: `Init` chooses which one a behaviour is about, so that the
states of one are not multiplied with those of the other; `Listings` and `Access` choose in the same way
(`watched`, `setup`) between questions that would only multiply each other.

Operators whose comment begins with "Fault:" are deliberately wrong variants of the definition that
follows them. No specification uses them; they show that a property can fail.

### State and actions against the code

*Tables.* A row keeps status, reviewer, whether `reviewed_at` is set and whether the message is
stored. `children[id]` is the set of dependent tables with rows of the id. `backend` is the driver:
on PostgreSQL deleting a row cascades, on SQLite the default DSN leaves `foreign_keys` off, so it
does not. `SaveReservation` and `SaveResult` are the one upsert of `SaveSubmission` with and
without a result; it is transactional. `DeleteSubmission` and `PurgeOlderThan` are not: `Delete`,
`JobUndoes` and `PurgeOlderThan` take one statement per step.

*Analyses.* `job[id]` is the goroutine `handleAnalyze` starts (`Reserve`, `JobStores`, `JobFails`,
the three statements of its undo, and their failures), `reply[id]` what the client was told (the
result, an error, or 202 when the sync budget ended). `AnalyzeElsewhere` is `Analyze` called by the
CLI, the web form or a receiver, where the final save is the only write.

*Requests.* `task[w]` is a request between its read and its writes. `Begin` is the first statement
(`submissionForActor`, the 409 check of the report handler), `Update`, `Reload` and `Delete` the later
ones; `Abandon` ends a request anywhere.

*Listings.* `reader` is one listing, export or statistics between two of its statements: `ReadIds`
fetches a page (the rows that at least OFFSET and fewer than OFFSET + LIMIT rows come before, `Before`),
`ReadRow` and `ReadSignals` are the two statements of each of its rows, newest first, and `CountNext` is
one of the eight statements of `Stats`. A row that is gone fails the page, as `ErrNotFound` does in
`ListSubmissions`. `kept` and `changes` are history: what was stored all the while, and how many rows
were written.

*Parsing.* `document` is what the request brings, `agenda` the parts still to be walked, with their
depths: the recursion of `walkBody` as an explicit list, one step for each call (`OpenPart`,
`KeepPart`, `RefusePart`). `found` is what `Message` has gathered, `links` the list of `LinksOf`.
`ReadText`, `ReadImage`, `ReadPDF`, `ReadOutlook` and `OpenMessage` are the five entry points. Pasted
text that looks like a message but exceeds its limits falls back to plain text, as `Parse` does, and an
archive's names are listed only up to their limit, whatever it holds.

*Pipeline.* `queue` holds the checks of the stage, sorted by id as `Registry.Checks` sorts them.
`StartCheck` and `FinishCheck` are the two halves of a turn of `RunCategories`' loop, `Lookup` one
question of a check to the client, answered or failed. How a check takes a failure is read off its
code: some go on and return the first error with what they found, some return at once, two take it
for "no". `live` is the set of contexts not yet ended. `mail` is what is true of the message (the
findings an undisturbed run would make); the checks learn it only by asking.

*Receivers.* `Run` of each receiver is one goroutine; `pc` is where its loop stands, `inHand` what
the current poll has still to handle. Telegram: `GetUpdates`, its two failures (one retries, one ends
`Run`), `HandleUpdate`. The server's side is `confirmed`, the highest offset it was asked for: what
lies below is not offered again, also when the answer to that request was lost. Graph: `FetchPage` is
`poll`'s request for a page, `HandleMessage` the body of its loop (fetch, analyse, mark as read),
`PageDone` the move to the next page or to the new link, `SaveState` the write that follows a
completed poll. IMAP: `Search`, then the server sends and flags bodies (`SendNext`) ahead of the
receiver (`Process`), then `MarkSeen` and `MoveProcessed`. Messages are numbered in order of arrival;
`view` is the folder as the session numbers it.

*Reputation.* `call[c]` is a lookup between two of its steps: the cache in memory, the row in
`reputation_cache`, the providers one by one, then both caches again. `breaker[p]` holds the two
fields of the code's `breaker`; its time field is what remains of the cooldown. A cached entry carries
what remains of its life and, for the properties, its age and the providers it rests on.
`failedInARow`, `reached` and `everListed` are history. `ChangeList` is the providers' own change of
mind, `Overflow` the cache that is emptied at its limit.

*LLM.* `call[c]` is an `Explain` at one provider of the chain; `Ask` is `estimateAndReserve`
(including its turn of hour and day, `Rollover`), `Answered` is `settle`, `GivesBack` is `cancel`.
Estimates and costs are chosen from sets of integers. `reached`, `settled`, `overrun` and `strayed`
are history: calls sent in this hour, what today's answers cost, by how much they exceeded their
estimates, and whether a call of an earlier day was settled in this one.

*Lists.* `entries` is the table, `cache` the map of `app/lists.go` with expiry as an action.
`asking[a]` is a check between the three parts of `load`: `CacheHit` (or not) under the lock,
`ReadTable` without it, `WriteBack` under it again; a failed read writes back an empty list.
`editing[e]` is a handler between its row and the invalidation; `BlockDomain` has the audit between them
and skips the invalidation when it fails. `EditFromCLI` is another process, which has no cache to
drop. `excused` records which keys a race the cache does not promise to survive has touched.

*Brands.* `list` is `Matcher.brands`, `brandRows` the table; `StoreBrand` and `AddToList` the two
steps of `handleAddBrand`, `RestartBrands` the start that reads the global rows. A match is one `Look`
per place of the message in the order of `Match` (sender, links, images, words), then `Describe`, which
finds the brand's name again. The edit distance is `DamerauLevenshtein` by rows, against the least cost
over all alignments.

*Verdicts on their way out.* `delivery[e]` is the goroutine that `Analyze` starts: `CallSink` one
sink, with its rank gate and its own ten seconds, `LoadHooks` the listing of the organisation's hooks,
which opens each sealed secret and fails as a whole, `CallHook` one hook. `cipher` is the key of the
process; a restart may bring another. `reply` is where the SMTP dialogue stands.

*Access.* `states` is `oidcAuth.states`, `sessions` the cookies that were signed (the service keeps
none), `groups` what the provider says of people, `keys` the table of API keys, `buckets` the
limiter's map. `request[r]` goes from `authenticate` (`WithKey`, `WithSession`, `WithNothing`) over
`LimitAndRoute` to `Handled`. `lost` and `recent` are history.

*Maintenance.* `db` is what a connection sees: the versions recorded, the schema they left, and a
stamp that the service's writes change. `base` is the same without the write-ahead log. `run[p]` is
a process that opens the store (`OpenStore`, `ApplyNext`, `Opened`) and serves, or reverts the newest
version (`ReadVersion`, `Revert`). `tool` is one backup or restore between its steps; `tmp` the file it
writes first, `copy` the snapshot.

## 3. Runs that pass

| Run | Question | Bounds |
|---|---|---|
| `submission_races` | one submission, everything that can touch its rows, both drivers, in every interleaving | 1 id, 2 request workers, analysts of its own and of another organisation, 1 restart or storage failure |
| `analysis_pipeline` | what a mail holds, and what score and verdict say of it whatever fails | 1067 documents with nesting of 2, 5 parts, 2 links, 2 names of an archive; 36 sets of facts, 4 local and 4 reputation checks with up to 11 findings, 3 opinions, all failures and deadlines |
| `receivers` | which messages are handled, how often, for whom, and which are lost or wait | any one of the three channels, 3 messages of every kind, 2 failures, 1 restart, 1 removal by another client, pages of 2, replies of 1 long update |
| `reputation_lookups` | what the caches may hold and when circuits are open | 2 concurrent lookups, 2 providers of which one may list the key, threshold 2, cooldown 2, lifetimes 2 and 1 |
| `llm_budget` | what the two counters say and when an explanation ends | 2 callers, a paid and a free provider, 2 estimates, 2 costs, caps of 3 calls and 3 units |
| `organisation` | when the memory agrees with the tables, and what a match says of the owner | 1 organisation and the global one, 2 kinds of lists, 1 check, 1 handler and the command line with 2 edits, 1 failed read; 2 built-in and 3 offered brands, 2 adders, 2 additions or restarts, 6 messages; words of up to 4 letters |
| `outbound` | who is tried, who is told, what the audit log says | 1 event of an organisation or of none, 2 configurations of the 5 sinks, 2 hooks, 1 database failure or restart; 2 answers |
| `access` | who becomes a session, with which role a handler runs, how many requests pass | 1 key, 1 person, 1 address, 2 login states, 2 callbacks, 1 change of groups, times up to 4, bursts of 2, 1 bucket kept unasked |
| `listings` | what a reader without a transaction may miss, repeat or see half of | 3 rows of the subject, pages of 2, every write between any two statements |
| `maintenance` | which schema a start finds, what a snapshot holds, what a restore leaves | 2 processes, 4 openings, 1 kill, 1 change of data, 1 tool; the program's own 5 versions |

Why the bounds are enough. Rows of different ids share only the purge and the bulk action, so the
races are about one id and two requests beside the analysis and the purge; with two workers a
request can overtake another twice. One mishap (`MaxMishaps`) stops any of the multi-statement
operations at any statement; a second one could only hit another operation, or end a restarted one
at the same places. The analyst of the other organisation asks for the same submission and must be
refused at every stage of the others' requests. The proofs remove these and the other runs' bounds from
every safety property. In the pipeline each way of taking a failed lookup occurs with at least one
finding, a collecting check with two, and the weights put totals on both sides of both thresholds. Documents reach every limit of the parser and one
more than it: three levels of nesting where two are allowed, six parts where five are.

The receivers share only the analyzer, which keeps nothing between calls, so `Init` chooses one of
them; the options of the other two are fixed. Three messages fill a page and begin another, and are
the fewest with one before, one at and one behind a message that fails. Two failures are needed for a
failure of a repetition, one restart separates what was saved from what was in memory.
Two lookups are the fewest that overlap: one can be under way while the other fails, opens the
circuit and is refused. With two providers one can answer and the other not; that only one of them
changes its mind (`MayList`) halves the lists and loses nothing, for the order of the chain puts it
last, where its listing must override the first one's "no" and its failure must prevent caching one.
A cooldown of two units lets time pass inside it; with a lifetime of two an entry can be copied with
less than its life left. In `llm_budget` the caps are reached by two calls with the larger estimate
or three with the smaller, and an answer may cost more or less than estimated.

One check and one handler are the fewest that race over a list, and keys of the cache are
independent; a second organisation is the global one. Two adders can store one brand in one order and
list it in the other; a match sees at most two additions between its looks. Words of four letters
over two hold every kind of edit, a transposition inside a longer word included. In `outbound` the two
hooks can be of the organisation and of none, before and after the delivery loads them. Two states and
two callbacks suffice for a state that is taken twice, late, or after a restart; four units of time are two
lives of a session. A capacity of one bucket with three callers makes every request drop what it may.
Three rows in pages of two put a boundary behind a row that moves when another comes or goes. Two
processes and a tool suffice for one that starts, one that reverts and one that copies; four openings let
each do so twice.

Properties of `submission_races`: `AnswerCanBePolled` (what the client was told is there),
`NothingLeftBehind` (no rows without their submission, with the one exception the code has: SQLite and a
DELETE; nothing of a failed analysis), `DecisionHasReviewer` (a decision names an analyst of the
tenant), `ImplementsResource` (refinement to `AnalysisResource`), `ProcessingEnds` (liveness).

Of `analysis_pipeline`: `ParsedIsWhole` (a message within the limits is kept part for part, one beyond
them refused, and the links are those that are shown or hidden, each once), `ListingsDecide` (the block
list means phishing, a feed hit is never clean), `OutageAddsNothing` (a
failure never becomes evidence), `QuietMeansComplete` (no warning means nothing that could report a
failure was lost; `org_blocklist` and `domain_age` cannot, their code takes a failed read for "not
listed"), `EvidenceNeverAcquits` (findings against a message never take it back to clean),
`EveryRequestEnds` (liveness).

Of `receivers`: `ImplementsMailbox` (refinement: Telegram and Graph handle first and
acknowledge afterwards, IMAP acknowledges first and handles at most once), `AnalysedForItsChat` (a
chat's mail is analysed for the organisation of its last `/start`, redelivery and lost bindings
included), `LinkLeavesNothingBehind` (nothing before Graph's delta link is without verdict or mark),
`RepetitionHasACause` (at most one repetition per failure or restart, or a message that holds up its
page), `MovedWasAnalysed` (only analysed mail is moved, unless another client renumbered the
folder), `NoMessageWaitsForEver` (liveness: taken up, or the receiver is stopped or held up by a
message or reply before it).

Of `reputation_lookups`: `AnswersWereGiven` (a cached "no" was said by every provider in one lookup, a
cached listing by one), `NoAnswerOutlivesItsTime`,
`DownProviderIsSpared` (at most threshold - 1 + callers calls reach a
provider between two good answers or cooldowns), `OpenCircuitCloses` (liveness).

Of `llm_budget`: `LedgerBalances` (the day's counter is what its answers cost plus what is reserved),
`CapsHold` (the day's passes its cap only by what answers cost beyond their estimate, the hour's never),
`EveryExplainEnds` (liveness). `LedgerBalances` and the day's cap state one exception the code has: a
call reserved before midnight and settled after it is taken off a counter that never held it.

Of `organisation`: `ListsAreRight` (a cached list is the table's unless one of the races it does not
promise to survive touched it, and no tenant or kind sees another's entries), `ListsConverge` (liveness:
no stale copy survives the edits for longer than its thirty seconds), `MatcherFollowsTable`,
`OfficialMeansOwner` (official means that a brand of that name owned the sender while it was looked at,
whatever was added meanwhile), `DistanceIsShortest`.

Of `outbound`: `VerdictsReachTheirReceivers` (each sink and each hook that stood all the while is called
exactly once, whatever the ones before answered; an organisation's event goes to its own hooks only; one
exception: a secret that does not open), `RepliesAreAccounted`, `DeliveryEnds` (liveness).

Of `access`: `OneSessionPerLogin`, `RoleIsRecent` (a handler's role was the caller's when the request came,
or less than a session's life before), `ImplementsTokenBuckets` (refinement: dropping idle buckets is
never seen).

Of `listings`: `ExportIsComplete` (what was there all the while is exported, once, unless rows of the
subject came or went), `TearsAreWrites` (a failed page or half a row is one being deleted; the
eight figures differ by no more than was written meanwhile).

Of `maintenance`: `SchemaIsSound` (the schema is what the recorded versions stand for, and a lone start
succeeds, except after two `migrate down` crossed), `BackupIsASnapshot` (a state that was committed while the
backup ran), `RestoreIsAtomic` (once, to the whole source; the exception is the log of a killed service,
which SQLite replays over the new file).

### Fairness

`FairSpec` of `Submissions` has weak fairness for the steps of an analysis, for the answer, for the
ageing of rows and for the purge: goroutines are scheduled, `Analyze` runs under a timeout, the
ticker of `retentionLoop` fires every hour. None is assumed for requests, failures or restarts.
`RequestSpec` of `AnalyzeRequest` has weak fairness for the single goroutine of the analysis as a whole:
every client has a timeout, so each lookup returns. The deadlines are not fair: an analysis must
end without them. `Spec` of `Receivers` has weak fairness for the receiver's own steps as a whole:
`Manager` gives each its goroutine and every call has a timeout; nobody has to send anything, nothing
has to fail, and the process need not be restarted. `Spec` of `ReputationClient` has it for the
passing of time only; no lookup need ever be made. `Spec` of `LLMService` has it for each caller,
for each is a goroutine of its own and every client has a timeout. `ListFairness` lets loads and handlers
that have begun go on and time pass over each cached list; nobody has to ask or edit. `Spec` of
`Outbound` has it for each delivery, whose calls have ten seconds each. `Access`, `Listings` and
`Maintenance` state safety only and assume none.

## 4. Disagreements between code and documentation

Each run's one property is found violated; `PROJECT.json` quotes the lines.

| Run | What it shows |
|---|---|
| `delete_leaves_iocs` | `DeleteSubmission` promises to remove the submission "and its children", but on the default SQLite store the indicator rows remain |
| `restored_from_a_backup` | a restore "validates a snapshot", but a source that is not there is created by the check, found sound and put in place of the database |

The models hold five more, which no run of their own repeats; each is an exception that a passing property
names or an action that a reader finds:

* the finished analysis "updates this row", but `Upsert` leaves message, subject, sender domain and
  campaign of a reserved row empty, `store_bodies` or not (`SubmissionStore`);
* an employee's report must not grant review power, but one that read the row before an analyst's
  decision writes `in_review` over it (`Begin` and `Update` of `Submissions`);
* a check "tolerates lookup errors", but `domain_listed` drops a host found in a feed when the lookup
  of another host fails (`Aborting` in `AnalysisPipeline`);
* transient failures of Telegram are to be retried, but a long poll that runs into the client's own
  timeout is taken for the end of the context and stops the receiver (`TelegramReceiver`);
* the model "cannot set clean when there is a strong technical signal", but its -15 points are summed
  before the conflict rule looks (`ScoreEngine`).

Hazards that no property decides, because neither code nor documents say what should hold: which of two
overlapping lookups' answers stays cached; that the breaker counts RDAP's 404 for an unknown domain and
the analysis' own deadline as failures of the provider; that an answer of the model that cannot be
parsed was paid for and is given back whole; that `received_at` is compared as RFC 3339 text, whose
fractions of a second have no fixed width.

## 5. Proofs

Checked by `tlapm` to the last leaf: every safety property that a passing run checks is also a theorem, for
every value of the constants. There are no bounds in them: any set of ids, organisations and workers,
both drivers, any number of failures and restarts, every registry of checks and table of weights, every
tree of parts, messages, hooks and migrations without number.

The assumptions are the named `ASSUME`s of the modules, which TLC evaluates in every run. Most say
that constants have their types, that nobody is not a caller, and that limits are numbers. The others:
thresholds are ordered as `config.Validate` demands, and every finding and opinion is in the catalogue
(`PipelineAssumption`, `SemanticAssumption`); the chain of providers is a sequence, for reputation of
all the enabled ones; lifetimes, threshold and cooldown are positive, prices and caps natural numbers;
callers are finitely many at a time; pages are not empty, there is an organisation, and organisations
are no kinds of messages (`OrgsAssumption`); the parts found in a body are bodies, in a sequence, and
only multiparts and messages have any (`BodiesAssumption`); each of a message's links has a host and
the built-in brands are a list (`BrandAssumption`), words are sequences of letters
(`WordsAssumption`); ids are ordered by arrival (`ListingAssumption`); rate and burst are positive,
and idling fills a bucket (`Rps * Idle >= Burst`: ten minutes do unless the rate is below a token in
that time), keys have a role each and are told from people (`AccessAssumption`).

Hardly any property is inductive alone. The strengthened invariants:

*Submissions and listings* (`Submissions_proofs`)

* `TypeCorrect`: `TypeOK`, one lemma per statement of the store, one step per action.
* `TablesInvariant`: `JobInv` says what each phase
  of the goroutine implies for the id's rows (running: the row is there and has no dependents;
  between the statements of an undo: which dependents are gone; failed: nothing is left), `PurgeInv`
  which dependents of the expired ids are gone at each statement of a purge. With `NoOrphanRows` and
  `AnswerCanBePolled` the conjunction is inductive: a purge may run into a DELETE or an undo because
  expired rows belong only to goroutines that are over. From it: `ResultsAreSettled`,
  `FailuresLeaveNothing`, `NoOrphans`, `NothingIsLeftBehind`, `AnswersCanBePolled`.
* `GoneForGood`: the action property, from `JobInv`: only `Reserve`, `AnalyzeElsewhere` and `JobStores`
  insert, and none is enabled once the job is over.
* `DecisionsHaveReviewers`: `TaskInv` says that a request past its first statement was admitted for
  the id it is about to write; admission depends only on the organisation of a submission, which
  never changes, so the check stays true although the row it read may not.
* `Refinement`: initial states map to initial states and each action to a step of the resource or a
  stutter (a restart maps to giving up every open analysis at once).
* `ExportsAreComplete`: `PagesAreRight` compares each row that was there all the while with the offset
  the export has reached, by how many rows come before it (`Before`). While nothing is removed,
  `Before` of such a row only rises, so one that has not been shown is on the page or still ahead
  (`NoneIsMissed`); while nothing is added it only falls, so one that has been shown stays behind
  (`NoneIsRepeated`). The two hazards of OFFSET are each other's mirror, and each is excused only by its own cause.
* `ReadersSeeWholeRows`: `HalvesAreRight` says that a row on the page that is missing or lacks its
  signals has a deletion in progress; `FiguresAreRight` that a figure taken is off from what it counts by at
  most the writes since, which every writer keeps because it counts itself once and moves each figure by one.

*Analysis* (`AnalysisPipeline_proofs`)

* `NothingIsMadeUp`: `signals` stay within what is true of the message and the opinion given; the
  invariant adds that a running check's hits are true and that nothing was said before the model spoke.
* `TheBlocklistDecides`, `FeedHitsAreReported`, `ListingsAlwaysDecide`: the result is the evaluation of the final signals
  (`ResultIsEvaluation`), and the rules give the verdict whatever the score is, so no fact about the
  sum of contributions is needed.
* `QuietAnalysesAreComplete`: `CompleteInv`. While nothing was reported lost, every check that can be
  answered still awaits its turn in a stage or in the queue, or has left what it would find
  (`NothingLost`); the running one has asked about each of its items or will (`HeadIsFollowed`).
* `FlaggedStaysFlagged`: the action property that findings against a message never take it back to
  clean. A weight in points times a confidence has the weight's sign, the sum of contributions rises with
  each finding against the message (`RawRises`), so does the clamped score (`ScoreRises`), and a verdict
  other than clean is one of the rules or a score above a threshold (`FlaggedMeans`).
* `MailIsParsedWhole`: `WalkIsRight` says that the parts the walk has passed, followed by those below
  its agenda (`Ahead`), are the parts of the message in their order, that those it has passed are within the
  limits, and that the mail holds their leaves. One step moves one part from ahead to behind (`NextPart`),
  so a part that exceeds a limit is one of the message's (`ExcessIsAboveLimits`), and a walk that is over
  has passed them all (`WalkIsOver`). `LinksAreRight` is about the links, for any sequence of them.
* `RequestsKeepThePromises`: with the parser's steps hidden a request is an analysis
  (`RequestsAreAnalyses`), so the properties above hold of `RequestSpec`, which the run checks, too.

*Reputation and model* (`ReputationClient_proofs`, `LLMService_proofs`)

* `OutageNeverClears`, `ListingsAreReal`, `AnswersAreReal`, `AnswersExpire`: `CacheInv` says of every lookup (`Sound`) that
  without a failure it has been told "no" by exactly the providers before the next one, and of every
  entry (`Proper`), in memory, in the table or on its way, what the three properties say. Stale rows
  are written over newer ones and deleted by others, yet each entry is proper by itself.
* `OpensOnlyOnARow`: needs `CountedInARow`, that a count below the threshold never exceeds the failures
  in a row: a late good answer resets both, a late failure adds to both.
* `DownProvidersAreSpared`: `CallsAreAccounted` says that while a circuit is closed every call that
  reached the provider has failed and was counted or is still under way (`UnderWay`, a set whose
  cardinality the proof follows); what is under way is at most one call of each caller.
* `HourIsCapped`, `DayIsCapped`, `BudgetIsCapped`: the hour's history variable equals the counter (`CallsAreCounted`), which
  no path gives back; a reservation is admitted only within the day's cap, settling adds at most what
  `overrun` records, and giving back only lowers. `Placed` (a call under way is at a provider of the
  chain) makes prices natural numbers.
* `TheLedgerBalances`: the property is a sum over the calls under way. `ReservedBy` names it, and one
  lemma says how it changes when one caller's call does; every action is then arithmetic.

*Receivers* (`Receivers_proofs`); `ReceiverInv` holds the three invariants together

* `NoMessageIsSkipped`: `DeltaInv` says that what lies before the link, the saved link, and while paging
  before the end of the page, is done; while a page is worked on each of its messages is done or in hand.
* `ChatsKeepTheirOrganisation`: `TelegramInv` says that the binding is what the last `/start` below the
  next update named (`Names`), and that a verdict was filed for what was named at its message: an update
  that is delivered again finds the binding as it was, or none.
* `RepetitionsHaveCauses`: in `TelegramInv` every update below the next was handled at most once per
  process; `PollInv` says the same of Graph's messages and failures, unless mail that cannot be read
  lies behind (`BadFrom`); in `ImapInv` what is in hand was never handled (`AtMostOnce`).
* `OnlyAnalysedMailIsMoved`: `NumbersHold`, in `ImapInv`: while nobody else removes mail, the session's numbers
  mean what they meant when the folder was selected.
* `ReceiversImplementTheMailbox`: initial states map to initial states, and each action of each
  receiver to an arrival, a handling, an acknowledgement, a restart of `Mailbox`, or a stutter, with
  `ReceiverInv` for what the steps need (that what is handled is offered, that IMAP's flag precedes its handling).

*Lists and brands* (`Organisation_proofs`)

* `TheListsAreRight`: a load that has read the table holds what is in it, unless the read failed or an
  edit passed it (`LoadIsRight`); the cache holds nothing that was never listed under its key, and what
  it holds is the table's, or an editor has yet to drop it, or it is excused (`ListsInv`).
* `TheMatcherFollowsTheTable`: `TableInv` says of every request between its two steps that the table
  holds its brand as the request has it or that somebody else has written since (`AddsWhatIsStored`), and
  of the table that its keys are unique. `AddAll` over the rows in any order then gives each key its row.
* `OfficialMailIsFromAnOwner`: `MatchInv` relates what a match has found with the owners of the
  sender in every list it has looked at (`UnderWay`) and, once over, with what it answers (`Over`).
* `DistancesAreShortest`: for words of any length. Both tables, the program's of numbers and the
  reference's of sets of costs, are shown to exist cell by cell, by the sum of a cell's indices; then each
  number is the least of its cell's set (`LeastOf`), for each of the four edits passes the least on.

*What comes in and what goes out* (`Boundary_proofs`)

* `OneLoginOneSession`: `StatesAreSpent` says that a state in use, by a callback or a session, was given
  out and can no longer be taken; a state is given out once, so it is used once.
* `RolesAreRecent`: `SessionsAreBacked` says of every session, valid or not, that its subject's groups
  still give its role or took it away after it was signed, less than a session's life before it ends.
  With `RequestsAreRecent` each way past `authenticate` needs only the state it starts from.
* `LimiterRefines`: `BucketsOK` bounds tokens and times; a bucket that may be dropped is full
  (`DroppedIsFull`), which is where the assumption on idling enters, so its caller is due what a new
  bucket holds. One unit of time adds the rate before or after the cap alike (`FilledByTime`). The step to
  `TokenBuckets` is `Take` or a stutter for a request, `Refill` for time.
* `VerdictsReachEveryone`: `DeliveryIsRight` says which sinks have been called exactly once (those before the next
  rank that send this verdict) and that each hook entitled to the event is in the queue or was
  called once. Hooks keep their numbers (`HooksAreNumbered`), so one that is added later is not one that stood.
* `RepliesAreCounted`: in each phase of the dialogue the answers asked for, told and audited differ by
  the one under way (`MailInv`).

*Database* (`Maintenance_proofs`)

* `TheSchemaIsSound`: `SchemaInv` says where each process stands in the schema it works on
  (`Stands`: what is below its version is applied) and that every copy of the database, with or without its log, is
  sound (`Sound`: the versions are the first few and the schema is theirs), until two `migrate down` cross.
* `BackupsAreSnapshots`, `RestoresAreAtomic`: `ToolInv` says that the database has been in the
  backup's window since it began and so has what the backup read, that nothing is connected during a
  restore, and that its temporary file is the copy before it is renamed.

What the prover cannot do, and what was done instead. Its backends take no theorem with an operator as
a parameter, so the library's induction theorems are out of reach; where a property is about a
recursive function the induction is written out, on a smallest counterexample (`SmallestSubset`,
`SmallestSet`, by the library's theorem on well-founded relations), and the function's equations are
derived from the existence of one that satisfies them (`SumsExist`, `AddsExist`, `FilterExists`,
`TableExists`, `JoinsExist`; for the parts of a message `ListingsExist`, level by level from the deepest). Operators that end in another operator (`SelectSeq`, `FoldLeft`,
`SetToSortSeq`) and functions of two arguments are opaque to the backends, so the models say the same
with sets of indices, `SubSeq` and functions of one argument or of pairs.

Only model-checked: the liveness properties (`ProcessingEnds`, `EveryRequestEnds`,
`NoMessageWaitsForEver`, `OpenCircuitCloses`, `EveryExplainEnds`, `ListsConverge`, `DeliveryEnds`), which
need ENABLED and fairness; and what the runs that expect a violation show.

## 6. Abstractions

* One id is one ULID; requests for ids that do not exist are no steps, for they change nothing.
* A message that is analysed is its findings; the sixty pure checks, OCR and brand matching enter as
  findings true of it. What parsing keeps of a document is in `MailParser`, whose texts, links and names
  are values. Contributions are exact integers in hundredths where the program rounds float64.
* Confidence, attack type, recommendations, texts, evidence, durations and metrics are left out: no
  verdict or row depends on them.
* Time is abstract: a row expires once its goroutine is over, a deadline may pass at any step, a cached
  list may expire at any time.
* SQLite's pool has one connection, so statements are atomic; on PostgreSQL row locks order the
  statements that write one id.
* Receivers: one Telegram chat, for chats share only the offset, and updates that the server keeps until
  confirmed (it drops them after a day). Graph's feed lists each message once, and its links do not
  expire. Other IMAP clients remove messages but do not flag them. Starting conditions of `Run`
  (missing credentials) are left out.
* Reputation: one key, for keys share only the breakers; the zones of a DNSBL are one provider.
* LLM: one message text and one process, for the counters live in memory and a restart sets them to
  zero. Money is whole units where the program adds float64.
* Limiter: time in whole units, tokens whole where `rate.Limiter` counts fractions. Login: signatures,
  nonces and the exchange with the provider are an outcome, success or failure.
* Lists: one value per list, in the forms a check asks for; brands: domains, keywords and images are
  values with given distances.
* Notifications: a sink's payload and its answer are not told apart, for nothing is done with either.
* Maintenance: rows are one stamp; an fsync is taken to do what it promises.

## 7. Not modelled

Presentation (web forms, reports, i18n, CLI flags), value types and utilities, the add-ins and the
deployment files keep no state of their own; the sandbox and the own SPF/DKIM check wrap one call
each. External services (providers, mail servers, the sandbox) are only outcomes of calls. Prompt
texts, redaction patterns, image hashes and payload formats are data. Of the parser: character sets, HTML
text, addresses and headers, RAR listings and the redirects of shortened links, which only annotate.
Of the reputation client: the local list, file hashes, domain ages (the same breaker and cache over one
provider each) and the OpenPhish snapshot. `weights tune` is an offline report.

## 8. Plan

Done: (1) `SubmissionStore`, `Submissions`, `AnalysisResource` with their proofs; (2) `ScoreEngine` and
`AnalysisPipeline` with theirs; (3) `CircuitBreaker` and `ReputationClient` with theirs; (4)
`LLMService` with its caps; (5) the receivers over `Mailbox` with their proofs; (6) lists and
brands; (7) notifications and answers; (8) listings, export and statistics; (9) migrations, backup and
restore; (10) access and rate limit with their proofs; (11) the parser, composed with the pipeline.

Proofs: every safety property of the passing runs. To come: facts about the code that no run checks yet,
first those of the hazards without a property.
