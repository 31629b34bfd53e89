# A TLA+ model of pr-solution-intelligence

The application turns a corpus of press articles (an uploaded CSV, or a search
in OpenSearch) into an enriched one: a chat collects the parameters, a boolean
query is drafted and confirmed, a worker extracts the articles, a model
enriches them in batches, and SimilarWeb supplies the reach of the publishers.
This directory holds TLA+ modules of its parts, the TLC configurations that
check them, and TLAPS proofs. `PROJECT.json` ties every definition to the source
lines it stands for, and lists the runs, the mutants (one plausible bug per
property, which the property must catch), the hazards and the findings.

All paths below are relative to `src/app/backend/src` unless they start with
`src/`.

    tlc -workers 2 -config MCEnrichment.cfg MCEnrichment     # a run
    tlapm EnrichmentPipeline_proofs.tla                      # a proof module

## 1. The system

One server process runs the HTTP API, the WebSocket endpoint and, inline, the
worker of the only BullMQ queue (`lib/queue.ts`): up to `QUEUE_CONCURRENCY`
(2) entries at a time, of four kinds: `parse-upload`, `data-extract`,
`enrich-batch` and `reach-fetch`. The state is in Postgres (`schema.prisma`);
Redis holds the queue and a publish/subscribe bus that keeps nothing. Almost
every operation is a sequence of short transactions with awaits in between, so
what has to be got right is mostly *what may happen between two of them*.

| component | state | operations | what is hard, and what must be true |
|---|---|---|---|
| Enrichment pipeline (`agents/enrichment.agent.ts`, `workers/enrich-batch.worker.ts`) | job row (status, batches_completed, processed_count), batch rows (status, retry_count), enrichments, queue entries, slots | plan, enqueue; mark processing, call the model, upsert, mark completed, count, finalize; on failure bump, mark retrying, requeue or give up | two slots interleave between the transactions; BullMQ retries nothing, so retries are in-band: each batch is settled and counted once, no batch is lost, the job closes once with the status its rows call for |
| Retry of failed batches (`services/enrichment.service.ts`) | the same rows, read and reset in one request | read failed rows, reset them, enqueue each | runs beside the last steps of the run that failed the batch, and beside other batches |
| Enrichment reads and manual start (same file) | none of its own | status, lists, dashboard JSON; publish a start on the bus | the status of a chat with a job cannot be written as JSON (BigInt columns); the bus loses what nobody listens to |
| Job queue and worker (`lib/queue.ts`, `workers/*`) | waiting, active and stalled entries | add, take, acknowledge, redeliver after a crash | redelivery runs an entry from the start, whatever its first run wrote |
| SimilarWeb reach (`agents/similarweb.agent.ts`, `lib/similarweb-client.ts`) | reach_cache (shared by all users), enrichments.reach | look up, fetch, store, read back, merge | shares the slots with the batches whose rows it merges into; a shared cache that expires or is spoilt; a run that throws is not tried again |
| Chat parameters and flow engine (`services/chat-params.service.ts`, `agents/flow-engine.ts`) | chat_params (parameters, upload, flow_state) | getOrCreate, patchParams in two transactions | a state computed in the first transaction is written in the second; several tabs; the data-extract run writes the same column |
| Boolean query (`services/boolean-query.service.ts`) | boolean_queries (version, confirmed) | generate, edit, confirm (confirm enqueues and patches) | read, then write: two drafts with one version, an older draft confirmed |
| CSV data extraction (`agents/data-extract.agent.ts`) | none of its own; writes flow_state, tells enrichment | perceive, validate, parse, dates, ..., handoff | the upload may be deleted, detached or replaced at any moment |
| Uploads and parsing (`services/upload.service.ts`, `workers/parse-upload.worker.ts`) | uploads.status, articles, stored bytes | create, store, enqueue, parse, insert, delete | deletion races the parser; the articles and the status must agree |
| OpenSearch search (`agents/search.agent.ts`, `data-sources/*`) | articles, a run's cursor and counts | perceive, page, insert, reflect, hand over or open the probe | the cluster moves under the cursor; two runs insert the same ids, and the handover depends on what a run believes it inserted |
| OpenSearch client and data sources (`lib/opensearch-*.ts`, `data-sources/*`) | a client cache with TTL and eviction; override rows | resolve the connection, get a client, search with retries, work out the indices | a cached client outlives a changed password; panel and resolver order the rows differently; windows cut into days or months |
| Conversation (`services/chat.service.ts`, `agents/orchestrator*.ts`) | chat.context, messages | start a reply (synchronous transaction), stream it (in the background, on the context it began with) | lost updates of the context; a failed stream leaves a state without its dispatch |
| Intent extraction (`agents/orchestrator.agent.ts`) | intentExtractedAt | check, call the model, stamp | check and stamp are two transactions |
| Reach probe (`services/reach-probe.service.ts`) | chat.context.state | enter, resolve | read-modify-write of one JSON column, beside the messages' own |
| Authentication (`services/auth.service.ts`, frontend `api-client`) | sessions (hashed refresh tokens); the tokens of each tab | login, refresh with rotation, logout | login and rotation are check-then-act, with bcrypt in between; two calls of a client that expire together both refresh; every exception is a 401 |
| Event bus and WebSocket (`lib/event-bus.ts`, `routes/ws.routes.ts`) | subscriptions | publish, forward | never throws, keeps nothing |
| Frontend sessions (`src/app/frontend/hooks`) | flow, job, reach side, done | load, apply an event, poll, reconnect | events lost, late, or about another job; polls answered late or not at all |
| Batching and gateway (`lib/llm-gateway.ts`) | none | createBatches, planBatching | limits and off-by-one at the token budget |
| Settings (`services/model-config.service.ts` and the other services behind the settings tabs) | models, skills and switches, agents, sources, servers | save, toggle, create, edit, test, delete | find, clear and write apart; saves of whole rows over a list that may be old; optimistic switches |
| Sample classification and probing (`lib/sample-classifier.ts`, `agents/probing-agent.ts`, `ProbingResultCard.tsx`) | the card; chat_params | classify, ask, resolve, supplement | thresholds that must leave no gap; a card that mixes what it knew with what it is told |
| Storage, encryption, clients of Redis and Postgres, the other frontend components | none that other parts depend on | pure, I/O or rendering | nothing concurrent of their own |

How they call each other: the chat's requests patch the parameters; confirming
a query enqueues `data-extract`, whose handoff sets the flow state to `complete` and
tells the enrichment agent; that agent plans a job, enqueues one
`enrich-batch` per batch and, for a job with reach, one `reach-fetch`; every
worker publishes progress on the bus, which the frontend shows; the user may
retry failed batches, fetch reach again, delete the upload or patch a parameter
at any moment.

## 2. The modules

    EnrichmentJob            what an enrichment job promises (abstract)
      ^ implemented by
    EnrichmentPipeline       agent, queue, slots, enrich-batch runs, finalizer
      ^ extended by
    EnrichmentRetry          + the user's retry of failed batches
    EnrichmentFailures       + crash, redelivery, transactions that throw
    ReachPipeline            + reach-fetch on the same slots, the shared cache
    EnrichmentPipeline_proofs  theorems about all four

    ChatFlow                 uploads, parser, patches, query, data-extract run
      ^ extended by
    ChatFlow_proofs          theorems

    Conversation             messages and their tasks, intent hook, reach probe
      ^ extended by
    Conversation_proofs      theorems

    Probing                  classifier, probing card, resolve, supplement
    Planning                 query, indices, matching documents, batches
      ^ joined by
    Preparation              one or the other
    Planning_proofs          theorems about both

    Settings                 the settings tabs over their tables
    Override                 a user's own connection, the client cache
      ^ joined by
    SettingsPage             one or the other
    Settings_proofs          theorems about both

    Search                   runs that page through the cluster
    Logins                   what the logins of a user promise (abstract)
      ^ implemented by
    AuthSession              sessions, refresh with rotation, tabs
    ChatPage                 the chat page: load, events, polls
    Search_proofs, AuthSession_proofs, ChatPage_proofs       theorems

In the order in which a chat meets them: `AuthSession` lets its requests through, `Settings` and
`Override` prepare what it uses, `Conversation` and `Probing` collect the parameters, `ChatFlow` (for
an upload) or `Planning` and `Search` (for the cluster) provide the articles, `EnrichmentPipeline`
and its extensions enrich them, and `ChatPage` shows what became of it. The modules share columns
and events, not variables: `params.flow` of `ChatFlow` is `flow` of `ChatPage`; the publication on
`bus` that ends `Conversation` and `Search` is the dispatch that `EnrichmentPipeline` begins with; its
job rows are `jobs` of `ChatPage`; `Planning` makes the `ArticleIds` of its batches. Each neighbour is
in a module only as the choices it leaves open, which is why it is there whole in its own.

Each MC module gives its component small sets, and each `.cfg` is one question. `SettingsPage` and
`Preparation` join two components that share no state: a behaviour is one of one of them, so
that their states add up; the second component is an `INSTANCE`.

**EnrichmentPipeline.** `slot[s].pc` is the transaction the run in a slot is
before; the actions of `Run(s)` are the steps 1) to 7) of `enrichBatchProcessor`,
`finalizeJobProgress`, `finalizeJob` (its read and its write are two actions,
because they are two statements) and `handleBatchFailure`. The model call and
the validation of its answer either reach the upsert (`Upsert`) or end in the
catch block (`AttemptFails`). `Replies` are the answers the response schema accepts;
with `ExactReplies` the model answers each article of the batch once. Prompts,
tokens, costs and progress events are left out: publishing logs its errors and
never throws, so it changes no control.

**EnrichmentJob.** Per batch an outcome, and one verdict: each batch is settled once,
and the job is closed once, when all are, with the status their outcomes call
for. `EnrichmentPipeline` maps to it by `Outcome` and `jobStatus`.

**EnrichmentRetry.** `RetryRead`, `RetryReset` and `RetryEnqueue` are the three parts of
`retryFailedBatches`: the read and the reset are two transactions, and the
entries are added after the commit. The job row is not reset, as in the code.

**EnrichmentFailures.** `Crash` loses the agent's loop and the slots, keeps the rows
and the waiting entries, and leaves what was running stalled; `TakeStalled`
runs it again once (BullMQ's default). `Caught` and `Uncaught` are a transaction
that throws inside the processor's try block, and outside it.

**ReachPipeline.** One run is lookup, fetch, one upsert per domain, read back, merge.
A cache row is absent, fresh, expired or invalid (no data, or a failed fetch); `CacheChanges` is the
world outside the chat. `ReachThrows` ends a run at any point, for a read, an upsert or the merge that fails: what it has stored
stays, and the entry has no second attempt. `renewed` is a history variable. BullMQ's redelivery of a stalled entry is modelled
for batches only (`EnrichmentFailures`). Composition is by conjunction: a step of one pipeline leaves the
other's variables alone, and both take the same slots.

**ChatFlow.** `params.flow` is the column `flow_state`; `NextFlow` is
`getNextFlowState`. A request of a tab is a record that remembers what its first
transaction read (`draft`, `version`, `next`) until its last one writes. `parse[u]`
is the upload request followed by the parser's run, `extract[e]` a data-extract
entry. `alone` and `trusted` are history variables of the property
`PatchMendsFlow`: no action reads them. Entries are run in any order, which includes
what two slots do. The OpenSearch branch of the worker is `Search`.

**Conversation.** `posts[p]` is one `POST /chats/:id/messages`: the transaction of
`startStreamingReply` (`Post` reads `chat.context`, `Commit` writes all of it, advanced)
and then its task, whose `pc` follows `executeStreaming`: the intent hook
(`Gate`, `Extract`, `Mark`, `Reload`), the reply (`Stream`), the side effect of the probe
(`Patch`, `Pin`, `WritePin`, `Dispatch`), and `Save`. `search` is the search agent from its
`perceive` on, as far as the conversation notices it; pages and inserts are `Search`'s. Postgres runs the transactions at READ COMMITTED, so a read and the
write that follows it are two actions, also inside one transaction; the lock that the
message's foreign key takes keeps a delete waiting (the guard of `DeleteChat`).
`PostFails` at any point is an exception of the model, the database or the process.
The model is asked twice what a free text means, in `Commit` and in `Stream`, and may
answer differently. Replies and chips are left out; `lapsed` is a history variable.
`appendUserMessage` is not modelled: no route calls it.

**Search.** `run[r]` is a data-extract entry whose `pc` follows `SearchAgent.execute`: `Perceive`,
`Reason`, then a page at a time `Fetch`, `Insert`, then `Reflect`, `Finish`, `HandOver`. A document is its
rank in the sort order, and `Newest` below the cursor is `search_after`. `Index` is the cluster going on
meanwhile. `Insert` is one statement that skips known ids and counts the others. `Crash` starts a
run again from the beginning, as BullMQ does. A call that fails is retried up to `Retries` times.

**Probing.** The classifier's scores are functions of the sample with the code's thresholds in per
cent: `Sure`, `Inferred`, `Probes`. `Mentions` counts a company's articles along the sample, and `TopEntity` is the first
of the list sorted by that count; the set `Entities` is the list before it is sorted.
The card's requests are `calls`; each is classified by the server
against the row as it then is, and shown by `Loaded` or `Resolved`. The wizard and the parser write the
same row; `hook` is the intent hook with the supplement's read and write apart. `calm` is a history variable.

**Planning.** One behaviour is one way from parameters to batches. `DaywisePatterns` and `MonthwisePatterns`
have the loops' caps. By months and without dates the code names the index `amx-data` itself, not the wildcard (`JustData`), and
nothing in the repository says what that name holds; what an index holds (`Home`) and what a pattern covers are the cluster's, and
external; `Filed` says that a cluster indexed by months dates only online media and blogs and the like.
`Packing[i]` is what `createBatches` has after `i` articles, and `Put` its loop body.

**AuthSession.** A pair of tokens is the number of its session row. A login reads the user (`Serve`) and
makes the session after bcrypt has run twice (`OpenLogin`), for whoever it read. A request is refused, takes the
refresh route (`Find`, `Rotate`, `Issue`), keeps the new tokens and goes out again. `Throws` is an exception on the server at any of
these points: the routes answer it with a 401 as well, and a client whose refresh is answered so clears its tokens (`Denied`), as does
one whose password was wrong. Tabs share the tokens on disk and keep their own in memory; a page that is reloaded no longer waits for its
requests (`here`), which the server goes on with. `line`, `uses`, `out` and `ended` are history variables.

**Logins.** A login is the chain of its tokens, those that are live, whether one was presented twice, and whether it is
over. Whoever asks for one is admitted while the user is active (`Admit`), and the login is opened after that; if the user was barred
meanwhile it is over from the beginning. `AuthSession` maps to it by `Chain`, `Live`, `Shared`, `Over` and `Due`: `Rotate` and most logouts are `Spend`, `Issue` is `Renew`,
the second use of a token is `Share`, a logout with nothing live and nothing under way behind it is `End`.

**Settings.** Each handler is its transactions: `FindDefault`, `ClearDefaults`, `WriteModel` for the default model;
`CreateCustom`, `Join`, `Toggle` for the custom skill; look, then write, for agents and skills; one transaction
for sources and servers, but two for their tests. `Readable` and `Writable` are the row policies of
the migrations. A row's text is the set of edits it is made of, and a client saves what it shows (`list`) with one more. A reload is a
read at the server and its arrival: awaited before a modal closes (`ReadList`, `ShowList`; `Refused` leaves the modal open), not awaited by
the page after a removal or a test (`ReadLate`, `ShowLate`), and answered, or failing, beside other clicks on the skills tab (`ListSkills`,
`ShowSkills`, `ReloadFails`). `Fail` ends any request between two transactions. Simplified: beside toggles, and one reload after a removal
or test, a tab does one request at a time. `slipped`, `crossed` and `astray` are history variables.

**Override.** The panel reads and then posts, patches or deletes (`Submit`, `Write`); `Resolved` is the
resolver. `Use` is the cache: expiry, the hit that moves a client to the end, eviction of the first; `Kept` is a filter of the entries in
their order, as positions, in place of a recursive one. A call is one step: `search()` (`lib/opensearch-client.ts:240-301`) holds its client across its retries, so
that a call in the code may outlast the TTL by their duration.

**ChatPage.** `view` is what the page shows, `wire` the frames under way on each of its two streams,
`load` the first load, `polls` the status reads; a read and its arrival are two actions. The
server's part is what it commits and publishes, each event apart from the write before it (`Finalize`, `TellEnd`); a SimilarWeb run
that throws publishes nothing (`ReachThrows`). `Merged` is `mergeSnapshot`, `IsDone` is `computeIsDone`. `ReadStatus` can be answered only
while the chat has no job: with one the reply holds the row's BigInt columns and fails. So no page learns of a job's kind from a
poll, and the start event invents 'standard'. `lost` is a history variable.

## 3. The runs

Each run asks one question; the comment on each property says it in full.

| run | question and answer |
|---|---|
| `enrichment` | 3 batches, 2 slots, 3 attempts each. Whatever the interleaving: counted once (`CountMatches`), closed truthfully (`VerdictTruthful`), enriched when 'completed' (`CompletedMeansEnriched`), closed in the end (`JobFinishes`), and `ImplementsJob`. |
| `enrichment_retry` | 2 batches, one client that retries twice, at any moment. No batch is attempted twice at once (`OneAttemptPerBatch`), the counter never lags behind the batches it counts (`CounterNeverShort`), and a job that is at work when it is retried still gets its verdict (`RetriedJobFinishes`; a retry does not put a closed job back to work). |
| `enrichment_failures` | 2 batches, one crash or thrown transaction anywhere. `EnoughRunsAhead`: the counter can still get to the number of batches; `SurvivesFailure`: the job still closes. Both say where they stop: an agent that dies before its last enqueue, and a throw inside `handleBatchFailure`, do leave a job in 'processing'. |
| `reach` | Both pipelines on two slots, one run that throws: a failed fetch costs the shared cache a good row only where another run renewed it after the failing one had looked (`SpoilsOnlyInRace`), a run that starts with an article enriched and its domain's row fresh gives it its value, unless the row is spoilt or a run throws (`RefetchRepairs`), both finish (`PipelinesFinish`). |
| `chat_flow` | Two tabs, an upload that is stored, parsed, attached, detached and deleted at any moment, two drafts, one extraction. What 'processing' and 'complete' mean holds (`ProcessingIsConfirmed`, `CompleteHasArticles`), a patch on its own mends a stale state (`PatchMendsFlow`), and background work ends (`BackgroundWorkEnds`). Deadlock is checked: a user can always act. |
| `conversation` | Two messages at once beside the search run, patches, failures and deletion. No slot is skipped however contexts overwrite each other (`NoSlotSkipped`); the wizard goes back only when requests overlap, never by a late task (`OnlyOverlapRewinds`); every click on the probe that is committed is dispatched unless its task fails (`ConsentIsHonoured`); 'enriching' without a dispatch is always a task that failed or disagreed (`EnrichingIsExplained`); every reply settles (`RepliesSettle`). |
| `planning` | The card over three samples beside the hook and the wizard: what the flow needs is given, inferred or asked for (`AsksWhatIsMissing`); by the classification the card goes by; a card left alone asks what a fresh read would (`CardIsCurrent`; what it lists as known may be less, see section 5). And for every window of nine days, every choice of three media and both kinds of index: no document of the window is missed but beyond the month cap, or by months without dates (`NothingMissed`), and batches take each article once, in order, within the target (`BatchesHold`). |
| `search` | Two runs, pages of two documents, a cluster that indexes and fails, a crash, a patch and the chat's deletion: paging neither repeats nor skips (`FetchIsComplete`), and when every run has ended without an error or a crash the articles were handed over or the user is asked (`NothingStranded`). |
| `auth` | Two requests of a tab and one of another: an ended login is out within one access token's life (`EndedMeansOut`), a token presented once is not turned down while its session lasts (`FirstUseWorks`; a refresh that throws is left out), and the table of sessions implements `Logins` (`ImplementsLogins`): a login is one chain of tokens, one of them live, until a token is presented twice, one that is over is never renewed, and none is opened that was not asked for while the user was active, though login and refresh look once and write later. |
| `settings` | Two clients of a user and one of another. A save leaves a default, and alone leaves one only (`DefaultKept`); the switch shows what is stored unless clicks met or a reload failed (`SwitchShowsStored`); a save of a whole row undoes no edit saved before by its own client, but after a reload that failed or came late (`NoEditUndone`). Or the connection panel in two tabs: what was saved last is in force unless tabs crossed (`SavedIsInForce`), a stale client lasts no longer than the TTL and never serves another account (`StaleWithinTTL`), the cache keeps the accounts called last (`KeepsTheRecent`). |
| `page` | Two jobs with or without reach, lost and late events, late and failed polls, reloads: the page comes to call a job done only with a verdict that a job has (`DoneWasReached`), and when the end of every job was told and nothing was missed it does say so (`ToldEndShowsDone`). |
| `page_poll` (violation) | A comment calls the poll the safety net for dropped events. With a job in the chat no poll is answered, and a page that missed the event shows an ended job as running for ever (`EndedShowsDone`). |

**Bounds.** Three batches on two slots are the least with a batch running,
one waiting and one finished at once, and with all three verdicts; two attempts
more than the first reach both branches of the retry budget. The retry, failure and
reach runs need a batch that fails and another that does not, or a batch and a
fetch: two or one. `MaxRequests = 2` lets a retry's batch fail and be retried again.
`MaxOutside = 1` spoils or expires a row, and `MaxThrows = 1` ends a run, at the worst moment. In `ChatFlow` two tabs are the
least that can interleave; `MCPatches` gives all parameters but the dates in one
patch, takes the brand back, attaches and detaches, so that every flow state
that depends on a race is reached (the collection states in between are visited only
by single-field patches and differ from `collect_brand` in name alone).
In `Conversation` two requests are the least that overlap; the run begins at the first,
a middle and the last question of the wizard (`Begins`), so that two messages reach every
transition, and one search run opens the probe before, between or after them.
In `Search` four documents in pages of two make a full page, a half one and an empty one, the
page limit of three is reached when the cluster indexes, and two runs overlap in every way; one
crash and one patch are enough to change a run's mind or its start. In `AuthSession` tokens that last one and
two ticks expire before, between and after the steps of a refresh; three requests are two of one
tab and one of another, and three sessions a login and two refreshes, and three requests sent
are a login with two refreshes of one token, or with a refresh and a logout; `MaxTime = 2` is a login, the end of its access token and the end of its refresh token. In `Settings` three steps of
users let a save meet another's and a third see the outcome; the cache holds two of
four accounts, so that it evicts, and two ticks exceed the TTL of one. In `ChatPage` two jobs are the
least where an event can be about the wrong one; one frame under way per stream and one fault suffice to lose or
delay any. An edit, a removal with its late reload and another edit are the three steps in which a save can undo one. In `Probing` the samples lie on each side of every threshold, and two answers of the card, one write of
another and one showing are every way in which a request can meet another; in `Planning` months of three days
and a cap of two months cross each boundary of the real calendar (a window within a month, of exactly the
cap, beyond it). No counter of the code is cut off: all bounds are on how often the environment acts
(`MaxRequests`, `MaxFailures`, `MaxRefetches`, `MaxOutside`, `MaxThrows`, `MaxQueries`, `MaxExtracts`, `Duplicates`,
`MaxPosts`, `MaxSearches`, `MaxPatches`, `MaxCrashes`, `MaxSends`, `MaxSessions`, `MaxTime`, `MaxOps`, `MaxRows`,
`MaxSaves`, `MaxJobs`, `MaxWire`, `MaxFaults`, `MaxCalls`, `MaxWrites`, `MaxMounts`, `LastDay`).

**Symmetry** is used for interchangeable tabs and requests (`auth`, `settings`), where only
safety is checked.

**Deadlock.** `Done`-like stuttering actions mark the states in which everything is finished; the check is off where
a system may stop: a job left behind by a failure, messages that are spent, runs that have ended, users
who ask for nothing more, a plan that is made.

**Fairness.** A process that has begun goes on, since Node runs every ready
callback and each awaited call returns or throws (the clients of the model, the
database and SimilarWeb give up by themselves): weak fairness of each run, of the agent's loop and of a request in
flight. The queue serves whatever waits when a slot is free: weak fairness of
taking some entry; in `ReachPipeline`, where the other kind can occupy the slots
between, strong fairness of taking each kind, because BullMQ is first in, first out and
passes over no entry. On the page, timers fire and polls end, in an answer or an error; the streams are not
fair, and may stay down for good. Nothing is assumed of the user, of failures, or of how a model
call ends: a batch's termination comes from the retry budget. Starting a job is
no fair action either: liveness says what follows once there is one.

## 4. What is proved

Everything here holds for any number of batches, slots, articles, retries, clients, tabs, uploads,
patches, messages, runs, requests, sessions, users, rows, jobs and events, and for any thresholds, limits and
lifetimes, under the named assumptions of the modules: that limits are numbers, that a few sets (slots, articles,
documents) are finite, and that `None` is no value. Two theorems have a hypothesis more (`OneClient`, `OneFailure`), without
which they are false. `PROJECT.json` lists the theorems with the property of a run that each one states.

**The pipeline** (`EnrichmentPipeline_proofs`).
`TypeCorrect`, `NoBatchStranded`, `EachBatchCountedOnce`, `VerdictIsTruthful`,
`RetryBudget`, `SettledForGood`, `PipelineImplementsJob`, `CompletedIsEnriched`. None of the invariants is
inductive by itself. The argument goes in layers:

- `Core` = `TypeOK`, `SlotOK`, `DeliveryOK`, `StatusOK`, `NoStrandedBatch`. `DeliveryOK`
  is the heart: from the moment a batch is enqueued there is at most one entry
  *or* one working slot for it, never both. Without it two runs of one batch
  could count it twice, although each action looks right. `StatusOK` ties the
  row to the run: a slot is past the write of the outcome exactly when the row
  has it.
- `CountMatches` then follows: the counter is the number of settled batches
  whose run has passed `Count`. As sets: one step adds one batch to
  `CountedBatches`, and no step removes one.
- `FinalOK`: a slot is at the finalizer only if the counter is full, so every
  batch is settled, its row will not change, and the verdict read is still the right one
  when it is written. `IInv` = `Core`, `CountMatches`, `FinalOK` is the inductive
  invariant of `VerdictIsTruthful`, `SettledForGood` and `PipelineImplementsJob`.
- `RetryOK` is the bound of the budget at each place a run can be, for
  `RetryBudget`.
- `EnrichedOK`: the rows of a completed batch, and of one whose upsert is done, are its own, and what a run adds to
  `processed_count` is the size of its batch or nothing. The count is stated as the number of articles of the counted
  batches, a cardinality of a union, so that no sum over batches and no induction is needed.

**Retry, failures, reach** (same module). `RetryNeverShort`, `OneAttemptAtATime`, `FailureLeavesEnough`,
`ReachRefinesPipeline`, `SlotsAreShared`, `SpoilingIsARace`. The pipeline's `Core` does not survive a retry or a crash, so
each has an invariant of its own.

- `RetryNeverShort` holds for any number of clients, also when two send one batch into two slots: whatever is settled and
  counted once was counted at least once.
- `OneOwner` (for `OneAttemptAtATime`): a batch is in one place, the queue, a slot that attempts it, or a request that is
  to enqueue it. A run behind the write of its outcome no longer attempts, which is why a late run does no
  harm. Under `OneClient`: two requests that have read the same rows do enqueue a batch twice.
- `Ahead` (for `FailureLeavesEnough`): the batches with no run ahead are never more than the counter says, and a full
  counter has a run that will close the job. Under `OneFailure`: a stalled entry is redelivered once, and a second crash
  drops it for good.
- `ReachRefinesPipeline`: each step of both pipelines is one of `EnrichmentPipeline` or leaves its variables alone, so that
  every theorem on it holds beside the reach pipeline.
- `LateNews` (for `SpoilingIsARace`): whatever a run is still to fetch or to store was missing or old when it looked, so a row
  that is fresh by now is one that another run has renewed since.

**The chat flow** (`ChatFlow_proofs`). `TypeCorrect`, `ReadyMeansParsed`,
`StatesAreConfirmed`, `CompleteIsBacked`, `FlowIsMended`: every safety property of the
run. The invariants say what a process in the middle of its transactions may rely on:

- `RequestOK`: a request about to write a state has one to write, and it is never
  'complete', since `NextFlow` answers 'complete' only to a row that is already (`NextFlowRange`).
- `UploadOK`: articles are there only once the parser is through.
- `ConfirmOK`: the confirmation stands behind each *pending* write of 'processing' and each
  entry, not only behind the column; confirmations are never taken back.
- `ExtractOK`: a run past its validation has seen articles, which nothing removes.
- `AloneOK` and `MendOK`: while a request is alone, deletions and the handoff change nothing
  `NextFlow` looks at (`NextFlowSame`), so the state it computed is still right when written.

**The page** (`ChatPage_proofs`). `DoneIsReached`, `ToldEndIsShown`. The first: the property looks at the step that sets `view.done`, but the verdict shown then may have
been read long before, or arrived for another job. `PageInv` therefore says of the view, of every poll and of every event
under way (`Known`) that its verdict is one that a job of the chat has got; `Finalize` is the only step that makes one, and
no step takes one back. For the second, `Told`: as long as nothing was missed, every start is shown or under way, and once all started jobs
are over, either the page shows the end and no start is under way, or an end is on the wire behind every start.

**The conversation** (`Conversation_proofs`). `TypeCorrect`, `NothingSkipped`,
`RewindsOverlap`, `ClickDispatched`, `EnrichingExplained`: every safety property of the
run, for any number of messages in flight.

- `BackedInv`: not only `chat.context` but every context that a request, a task or the
  search run keeps is complete, so that whichever is written last, nothing is skipped.
  `Advance` adds the slot it leaves (`AdvanceBacked`), and the pins leave the wizard.
- `ContextStep` says who writes `chat.context` at all, and `AdvanceForward` that a message
  never leads back; what is left for `OnlyOverlapRewinds` is a commit over a changed context.
- `TaskInv` says what a task has done by each station. Its steps are summed up in five kinds
  (`TaskStep`), so that the later proofs do not open the actions again.
- `ExplainedInv`: a context in 'enriching', also one that is only kept, has a dispatch, a
  lost task or a task that still owes behind it. The step that matters is `ExplainedKept`:
  a task that owes either goes on owing, publishes, or is counted in `lapsed`.

**The search** (`Search_proofs`). `TypeCorrect`, `PagingIsComplete`, `NoneStranded`. `Paged` is what a run may
rely on between two pages: its ids are distinct, as many as it counted, and they leave out nothing of what
there was at its start down to the last. `Index` only adds documents, so that the page limit is the only way to
miss one. It rests on two lemmas about `Newest`, `NewestUpward` and `NewestShort`: a page is the top of what lies below the cursor,
and a short page is all of it.
`Inserted` ties the rows stored to a run that counted them, and such a run to its handover, for as long as no
server died.

**Sessions** (`AuthSession_proofs`). `TypeCorrect`, `FirstUseIsGood`, `LoginHasOneSession`, `EndedIsOut`.
`Presented` counts who holds a token that may still work, `Spent` says that only a token's use or a logout ends its
session, `Tips` that in a login without a double use every session but the last is over and presented by nobody, and
`EndedOK` that an ended login has nothing under way that could make a session. Rotation is check-then-act in the
code; these four are what makes it right as long as no token is presented twice. That a user may be barred while a login is under way
costs nothing: its session is over from the start, and `EndedOK` says so of it. `FirstUseIsGood` is about refreshes that are turned
down; one that throws is answered alike, whatever the token was worth.
`SessionsImplementLogins` is the refinement of `Logins`. `LoginSteps` sums up the steps by what they do to the tables (nothing, a
login that is asked for or given up, a use, a new session, an ended one, the end of the user); `LoginMade` is the one that matters: a rotated request holds, by `Tips`
and `Spent`, the last session of an unshared login, and it is not live, so that the chain goes on from nothing live; by `EndedOK` the
login is not over. `Heads` adds that lines are named by their first session.

**Settings and the connection panel** (`Settings_proofs`). `SwitchIsStored`, `SaveLeavesDefault`, `NoEditIsUndone`,
`SavedStaysInForce`, `NoStaleClient`, `CacheIsLRU`. `SwitchOf` describes a switch whose clicks met no other (one toggle under way, and it is the one
shown, or a reload that brings what is stored), `SaveOf` a save that met no other (it has cleared whatever is a default when it writes); both are vacuous for
those that did, as the code gives no guarantee there. `TextOf` (for `NoEditIsUndone`) says that what a client shows, has read or is
about to send of a row has every edit stored, unless it slipped, or its modal waits for the list that has it. `PanelInv`: unless two tabs crossed there is one override row or none, and
the tab that is busy knows which, so that the panel's first row and the resolver's last are the same.
`CacheInv` says that the cached clients stand in the order in which their accounts were called last (`Lined`), so that the one a
full cache gives up is the one called longest ago, and that an account without a client has had `CacheMax` others called
since, or has expired (`Gone`). The lemmas on
`Kept` (what a filter leaves, and in which order) take the place of facts about `SelectSeq`, of which no theorem is installed.

**Parameters and indices** (`Planning_proofs`). `CardStaysCurrent`, `NothingGoesUnasked`,
`SearchMissesNothing`, `BatchesAreTight`.
`CalmOK`: a card that is left alone has one request under way at most, and that one knows what the server would
say now. `Covered`: some index that is searched covers the home of every document that is sought, but for those that no name reaches (by months, without dates); the two
arithmetic facts are that months are monotone in days (`MonthMonotonic`) and that the first `cap` days or months
reach whatever lies less than `cap` beyond the start (`FirstsReach`). That the days' cap costs nothing is the
assumption `LongWindow < DayCap`, which holds of the code's constants.
`NoGap` goes through the classifier's scores: what is neither given nor sure is inferred, or below the line at which it is asked
for. It says so of the server's answers, and `CallsOK` carries it from there to the card, since a request remembers
an answer that was complete. It needs the floor of inferring to be no higher than the line of asking, and no higher than 50,
the least that dates are trusted with: dates of a short span would be neither inferred nor asked for. The code's constants
are so. `PackingOK` says of `Packing[i]` that the closed batches and the open one are the first `i` articles in order, that each is
within the target or a single article, and that none was closed early; `PackedOK` closes the last. Both rest on
inductions over a list, done by hand: the library's induction theorems take an operator and cannot be used, so a
least counterexample is taken (`Least`, from the well-foundedness of the naturals) and shown to be impossible.

Some of the theorems are about properties that no run lists any more, because a proof says more than a
small instance: the type invariants, `NoStrandedBatch`, `OneLiveSession` (which `Logins` has),
`GivenUpWhenExhausted`, `SettledStays`, `ReadyWithArticles`, `RepliedClickDispatched` and `ReachTypeOK`. TLC found them to hold
on the instances above before they were proved. `ReachRefinesPipeline` is the refinement of a whole specification.

What the proofs asked of the models: folds, sorting and filtering of sequences (`FoldLeft`, `SetToSortSeq`, `SelectSeq`) became
recursive functions and choices that say the same (`Packing`, `Upto`, `Mentions`, `TopEntity`, `Kept`); TLC finds the same states. The
model of the classifier had a bound on competitors that no line of the code has; it is gone.
`Home` in `Planning` and `Handled` in `ChatPage` had CASE arms that overlapped. TLC
takes the first, the prover may take any; they are now written so that one arm applies, the one the code
takes. `None` had to be assumed different from what it is compared with, and slots to be finite where a crash counts them.

**Only model-checked.**

- All liveness, since the prover cannot do fairness and ENABLED: `JobFinishes`, `RetriedJobFinishes`, `SurvivesFailure`,
  `RefetchRepairs`, `PipelinesFinish`, `BackgroundWorkEnds`, `ConsentIsHonoured`, `RepliesSettle`.
- `EndedShowsDone`, which the run `page_poll` shows to be violated.

Every invariant and every action property of the passing runs, and both refinements, are stated by a theorem.

No module declares a RECURSIVE operator, so that all can be proved about.

## 5. Where the code and what is written about it differ

`page_poll` shows one such place, a defect:

- `GET /chats/:id/enrich/status` fails as soon as the chat has a job. `services/enrichment.service.ts:240` returns the raw row, whose
  `totalTokensInput` and `totalTokensOutput` are BigInt (`schema.prisma:552-553`); nothing in the repository serializes them, and
  `JSON.stringify` throws. `src/app/frontend/lib/enrichment.ts:32` says Prisma's default JSON path does it, and the route's tests mock numbers.
  The poll, the "safety net against dropped WS frames" (`src/app/frontend/hooks/useEnrichmentSession.ts:18-20`), therefore never mends
  anything. Nor does the page learn that a job is a reach job: it shows 'done' when the batches are over, while
  `computeIsDone` (62-66) means to wait for SimilarWeb.

The others were met while modelling; the models take the steps the code takes,
and the properties are stated so that they hold all the same.

- `lib/enrichment-schemas.ts:93-94` says the agent enforces a 1:1 mapping of answers to articles. The
  processor compares the answer with nothing: a batch whose answer leaves an article out is
  'completed' without a row for it (with `ExactReplies = FALSE`; `CompletedMeansEnriched` is about exact answers).
- `workers/enrich-batch.worker.ts:327` says 'completed' means every batch is. `retryFailedBatches` leaves
  `batches_completed` where it was, so the first retried batch that finishes closes the job while
  another is pending (`services/enrichment.service.ts:719-731`). Two retry requests at once enqueue a batch twice.
- `src/docs/phase3.md:140` says reach rows are merged into the enrichments. The merge happens once, in no order with the
  batches: an enrichment upserted later keeps no reach until the user fetches again.
- `src/docs/phase2.md:172` says 'complete' is entered when all steps are done. A patch that read the row before
  the handoff writes 'processing' over it (`services/chat-params.service.ts:181`), and no later patch brings it
  back.
- `agents/orchestrator.agent.ts:406-408` says the state an intent skip sets sticks. `startStreamingReply` drops
  the patch, so the reply asks for a later slot while the chat waits for the dates.
- `services/reach-probe.service.ts:51-52` says the probe's state is pinned. A message whose transaction was
  open meanwhile writes the context it had read, and the probe is gone.
- `lib/similarweb-client.ts:96-98` says a negative result is cached, but `reason()` of the SimilarWeb
  agent looks up valid rows only, so the domain is fetched again on every reach-fetch. A reach-fetch that throws is not tried again: its entries
  name no number of attempts.
- `src/app/frontend/lib/probe.ts:97-99` says no probe remains when every field is filled. A brand or a short range that was only
  inferred is never saved: after an answered probe the card lists saved parameters only, has nothing to
  ask, and closes. A language probe, once asked, never goes away, since no parameter keeps its answer.
- `lib/event-bus.ts:77` calls `search:complete` the event after the handoff; the agent publishes it before.
- By months and without dates `lib/opensearch-indices.ts:134` names the index `amx-data`, while the file's header (6-7) has the wildcard
  `amx-data-*`, which is what the daywise branch uses. If the cluster has no index or alias of that name the whole search fails.
- `services/intent-application.service.ts:225` wants the supplement to respect what the user has set. It decides on a row read in one
  transaction and writes in another: an answer or a patch that falls in between is overwritten.
- Any exception of `refresh()` is answered 401 (`routes/auth.routes.ts:57-60`), and `src/app/frontend/lib/api-client.ts:30-35` then clears
  the tokens: a database error signs a client out, whose session may stay active. A login that began before its user was deactivated
  still makes a session; its access token lasts its life, and no refresh renews it.
- The settings' saves send whole rows: a save in one tab undoes what another tab saved since the first one's list was read.
- A window of more than 36 months loses its newest months without a word (`lib/opensearch-indices.ts:113`).

## 6. What is not modelled

Prompts, texts, costs, progress events and rendering: no state of the modelled parts depends on them.
Storage, encryption and the clients of Redis and Postgres are wrappers of libraries, external to the models; the row policies
they set up are in `Settings`. Left out of otherwise modelled parts:

- a crash or a second run of `parse-upload`, which leaves a row in 'parsing' or inserts a CSV twice, and
  `search_history`, which is written and read for a log line;
- two enrichments of one chat beside each other: they have separate jobs and meet only in the
  enrichments they upsert; for two retry requests at once, which `EnrichmentRetry` allows, there is no run, only `RetryNeverShort`;
- what becomes of a publication on the Redis bus: with no subscriber at that moment it is gone
  (`agents/enrichment-subscriber.ts:64`), and nothing in the code asks again;
- the lists, analytics and the dashboard JSON of an enrichment, which only read (the dashboard's JSON is kept as first
  read, also when a retry changes the job later);
- the assembly of a streamed message from its chunks; mapping of hits to articles; schema detection of uploads.

## 7. What could follow

1. A server crash over `ChatFlow` with the second run of the parser, and which of its theorems survive; the same for a search
   whose handover is lost with its server.
2. Two concurrent retry requests in `EnrichmentRetry`: what exactly can be said of the job they leave behind, beyond
   `RetryNeverShort`.
3. An abstract specification of `Conversation`: each probe is answered at most once and each answer dispatched, for
   requests that do not overlap.
4. Liveness, should the prover come to handle fairness: the measure of `JobFinishes` is the retry budget that `RetryBudget` bounds.
