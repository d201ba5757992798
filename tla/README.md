# CarBuyerAssistant in TLA+

CarBuyerAssistant scrapes vehicle auctions and private listings, enriches each row with an LLM, values
it against comparable sales, and alerts a buyer on Discord. It is not one program but about ten, started by
systemd, which share nothing but a PostgreSQL database: the *state* of the system is the set of status columns
of `vehicle_offer`, its *messages* are `NOTIFY` on three channels. All paths below are relative to
`src/src/carbuyer/` unless they say otherwise.

| file | what it is |
|---|---|
| `WorkQueue.tla` | what a status column used as a queue promises: the abstract specification |
| `StageQueue.tla` | one stage of the pipeline: column, channel, advisory lock, worker loop; implements `WorkQueue` |
| `StageQueue_proofs.tla` | theorems about `StageQueue`, checked by TLAPS |
| `MCStageQueue.tla` | the constants and the symmetry TLC uses for `StageQueue` |
| `Pipeline.tla`, `Pipeline_proofs.tla` | one row between the five programs that write it concurrently |
| `Delivery.tla` | abstract specification: a ledger of what the buyer is owed, and the senders that tell him |
| `WantDelivery.tla`, `WantDelivery_proofs.tla` | how the buyer hears of a matching offer: ledger, valuator, notifier, digest, buyer |
| `MCWantDelivery.tla` | the constants TLC uses for `WantDelivery` |
| `LotLifecycle.tla`, `LotLifecycle_proofs.tla` | an auction lot from the catalogue to the record of its sale: ingester, bid poller, distiller |
| `SourcePull.tla`, `MCSourcePull.tla`, `SourcePull_proofs.tla` | the want-list pull of the listing sources, and what it marks removed |
| `CatalogueWalk.tla`, `MCCatalogueWalk.tla` | the ingester's run over the catalogues of the auction sources, page by page |
| `SourceWatchdog.tla` | the hourly watchdog over the auction sources |
| `Sources_proofs.tla` | theorems about `CatalogueWalk` and `SourceWatchdog` |
| `Scoring.tla` | the valuator's arithmetic: comps, fair value, costs, flags; no state |
| `Valuation.tla`, `MCValuation.tla`, `Valuation_proofs.tla` | one offer's value while comps change and operators write estimates; extends `Scoring`; theorems about both |
| `WantGate.tla`, `MCWantGate.tla`, `WantGate_proofs.tla` | which wants an offer satisfies: the coarse gate, the precise match, the backfill |
| `*.cfg` | one file per run, `<module>_<run>.cfg` |
| `PROJECT.json` | components, runs, mutants, the map from definitions to source lines, findings, hazards, theorems |

## 1. The system

### Components

| component | state it keeps | operations | talks to |
|---|---|---|---|
| work queue (`db/queue.py`) | `enrichment_status`, `valuation_status`, `notification_status` of every row | `claim_pending_ids` (select `FOR UPDATE SKIP LOCKED`, mark `in_progress`, commit), `recover_orphans`, `select_pending_ids` | all workers |
| wake-up channel (`db/notify.py`) | the LISTEN connection and its buffer | `notify` (inside the caller's transaction), `listen` (reconnects with backoff) | producers to workers |
| singleton lock (`shared/singleton.py`) | a PostgreSQL session advisory lock on its own connection | `acquire_singleton_lock` | every worker's `main()` |
| enricher | a batch of row ids; attempt counter in the row | recover, sweep, listen; per row: snapshot, LLM call, want-gate, write | notifies valuator |
| valuator | as above | per row: one transaction that reads, prices and writes; a second one for a failure | notifies notifier |
| notifier | as above; `want_matches.notified_at`, `last_notified_*` | evaluate triggers, post, stamp | Discord |
| ingester and upserts | watermark of last scrape per lot, `listing_status` | walk the auction catalogues, pull what the wants ask for, gate, upsert with content cascade, reprice, mark what was not seen removed | notifies enricher or valuator |
| bid poller | due list, `current_high_bid_cad`, `bid_history` | poll, record, extend, close, force-close | notifies valuator |
| vision batcher | `vision_status` | nightly shortlist, photo check, pessimistic override | notifies valuator |
| distiller | `historical_sales` | turn closed lots into sales, delete rows | – |
| daily digest | `want_matches.notified_at` | collect unsent matches, post one message, stamp | Discord |
| dashboard and bot | wants, `user_action`, mutes | rescore all, mark, mute, dismiss, edit wants | notifies valuator |
| source watchdog | `source_alert_state` | hourly: which sources have brought nothing, post an alert each, record them in one commit | Discord |
| operator tools (`tools/value_pending_lots.py`) | estimates in `historical_sales` | list groups short of comps, replace a group's estimates, requeue its lots | notifies valuator |
| scoring, matcher, LLM access, source plugins, flags | none | pure functions or network calls | called by the above |

### How they interact, and what is hard about it

* *Work is state, wake-ups are hints.* A row has to be worked on because its status column says `pending`;
  the NOTIFY only says when to look. A NOTIFY is not stored: whoever is not listening never gets it. Every
  program has to be right about which stage it tells, and when the worker looks without being told.
* *Ownership is a marker, not a lock.* `in_progress` marks a row as taken, and nothing but the rule "one process per stage"
  keeps recovery from taking it away from a live worker.
* *Read, think, write.* Enricher, bid poller and vision batcher read a row, spend seconds or minutes on the network,
  load the row again and write. The session writes only those columns whose new value differs from the
  value *loaded*. Nothing compares the row with what was read. Between the load and the commit, and between the
  read and the load, four other programs may write the same row.
* *Resets across stages.* A new bid resets the valuation; new content resets everything; vision's override
  resets the valuation. Each reset races with the worker that is about to write `done` in the same column.
* *Two sources of truth.* What the auction site says changes between being fetched and being written; the clock stands in for the
  site where it says nothing (force-close); a pull that fails in part still counts as complete;
  and a catalogue is read page by page while lots move across the pages.
* *Deletion.* The distiller selects rows, and deletes each in a transaction of its own without looking again;
  the buyer, the poller, the ingester or a second run may have come in between.
* *One question, two answers.* The gate judges a lot by its text, the matcher by enriched facts, the backfill by what has been valued: they have to
  agree, or a lot is lost before anyone has looked at it.
* *Failure.* Every worker may die between any two transactions, retries its transient failures on a
  budget kept in the row, and may lose its LISTEN connection or the connection that holds its lock.

The complete list of hazards, each with the line where it bites and the property that watches it, is in
`PROJECT.json`.

### What makes each part correct

* queue and worker loop: a row is worked on by one process at a time; after a crash no row stays
  `in_progress` for ever; no wake-up is lost, or else it is known through which hole; a row is given up only when its budget
  is spent; the startup sweep ends; pending rows are drained.
* a row between its programs: what counts as done was derived from what the row shows now; what is reset is told to
  the stage that has to act; every new price is scored and every new content enriched in the end.
* delivery of matches: no match stays unannounced; a match is stamped only if it was announced, at the price it has;
  it is announced twice only through a crash, a lost response or an overlap of notifier and digest; an urgent one is queued.
* end of an auction: nothing is closed while one can bid on it, and nothing stays open for ever, but for named causes; a sale is recorded, at the
  hammer price, and counts once; what the buyer watches or has bought is kept.
* walk over the catalogues: a run misses nothing that stood all the time but for a known cause; what stands is written in the end.
* pull and watchdog: what is removed is gone or could not be seen, and comes back; what is gone is removed; the operator hears of a dark source, and not twice.
* value: a fair value lies among its comps; a dearer bid scores worse; estimates are replaced, not piled up; a requeue is served; no offer is its own comp.
* wants: the gate turns away nothing the match would take; a valued offer has all its matches.

## 2. The modules

### WorkQueue and StageQueue

`StageQueue` is one stage together with the processes that may be started for it. The three workers run the same
code shape, and the constants tell them apart:

| | BatchSize | Concurrency | Counted | HasPermanent |
|---|---|---|---|---|
| enricher | 20 | 4 (semaphore) | `{"done"}` | TRUE |
| valuator | 30 | 1 | `{"done", "skipped"}` | FALSE |
| notifier | 50 | 1 | `{}` | FALSE |

`Counted` holds the outcomes that consume an attempt without being a failure: enricher and valuator increment
the counter before they know how the attempt ends, the notifier only when it fails.

| state or action | code |
|---|---|
| `status`, `attempts` | the stage's columns of `vehicle_offer` (`db/models.py`) |
| `lock`, `phase` | `pg_try_advisory_lock`, and how far `main()` is: lock, recovery, scan, sweep, listen loop |
| `conn`, `inbox` | the LISTEN connection and the notifications delivered to it, `db/notify.py` |
| `busy`, `batch`, `active`, `returned` | one call of `process_pending()`: ids claimed, rows loaded, transient results |
| `Start`, `Recover`, `Scan`, `Connect` | process start |
| `Claim`, `ClaimNothing`, `ClaimError` | `claim_pending_ids`, with the rows that SKIP LOCKED passes over; `ClaimNothing` ends a sweep |
| `Load`, `Complete`, `FailTransient`, `FailPermanently`, `FindMissing`, `Unhandled` | `_process_one` |
| `EndBatch`, `RenotifyError` | the end of `process_pending()`: one NOTIFY if something is to be retried |
| `Enqueue`, `EnqueueSilently`, `EnqueueAll`, `Withdraw`, `Vanish` | what other programs do to the column |
| `Disconnect`, `LoseLock`, `Crash` | faults |

Three history variables take no part in the behaviour. `failures` counts real failures (the column counts attempts).
`stranded` names the rows that were left `in_progress` by somebody who will not come back to them. `holes` names the ways in which a
wake-up may have been lost since the last sweep:

* `gap`: a NOTIFY between the sweep and the first LISTEN,
* `reconnect`: a NOTIFY while the connection was down, or buffered in it when it dropped,
* `locked`: a row passed over by SKIP LOCKED,
* `claim_error`: the claim raised after consuming its notification,
* `renotify`: the NOTIFY for transient leftovers failed,
* `bulk`: one NOTIFY for more rows than a batch,
* `silent`: a reset without a NOTIFY on this channel,
* `zombie`: a process that lost its lock is still at work.

`WakeupCoverage` says that this list is *complete*: as long as none of these happened, the notifications at hand suffice for
the pending rows.

`WorkQueue` knows only rows that are to do, taken, closed or gone, and who holds them. `StageQueue` implements it under the mapping
`work <- WorkStateOf(status)`, `holder <- batch`, provided that the lock lives as long as its process (`~LockDrops`).

### Pipeline

One row of `vehicle_offer`, an auction lot or a private listing, and the five programs that write it: ingester,
enricher, valuator, bid poller and vision batcher. What is modelled exactly is the transactions: what each
program reads, when, and which columns its commit writes (`Commit` compares with the row as *loaded*, as the
SQLAlchemy session does, and writes the difference). What is abstracted is data: content and price are version
numbers, and what a program derives (`enriched`, `vprice`, `venriched`, `cond`, `vcond`) is the version it was derived from. So "the score is
stale" is an inequality of two numbers.

| actions | code |
|---|---|
| `Claim`, `Ignore`, `Crash`, `Restart` | the part of `StageQueue` that shows in one row |
| `IngestLoad`, `IngestCommit`; `Cascade`, `Reprice`, `ToldByIngest` | `db/upserts.py`, `apps/ingester/ingester.py` |
| `EnrichRead` (snapshot), `EnrichLoad`, `EnrichDone`, `EnrichSkip`, `EnrichFail` | `apps/enricher/enricher.py` |
| `ValueLoad`, `ValueCommit`, `ValueSkip`, `ValueError`, `ValueFailLoad`, `ValueFail` | `apps/valuator/valuator.py` |
| `PollRead`, `PollLoad`, `PollCommit` | `apps/bid_poller/poller.py` |
| `VisionRead`, `VisionLoad`, `VisionPlain`, `VisionOverride` | `apps/vision_batcher/batcher.py` |

`told` holds the stages that have been notified, or will sweep, since they last claimed the row. `StageQueue` answers
how far that may be relied upon; `Pipeline` asks whether the programs tell the right stage. `raced` is a history variable: the programs that
committed although the row, or the content they worked from, had changed behind their back. The properties of `Pipeline` say which programs must be in
`raced` for a derived column to be stale; without it they would be false, and the run `bid` shows how.

Left out of `Pipeline`: the notifier and its column (it derives nothing from the row that the row keeps), the dashboard's rescore
(`EnqueueAll` in `StageQueue`), the attempt counters (`StageQueue` has them; here a failure is final or not at choice), polls and ingests that observe nothing
new, deletion of the row, and closing of the auction (`LotLifecycle`).

The vision batcher revises the condition downward (`apps/vision_batcher/batcher.py:20-24`); a later enrichment replaces it, in the code and in
the model (`EnrichDone`) even when no two programs overlap (rescraped, then corrected, then enriched again), and the photos are not looked at again. `FactsFresh` therefore only asks that the score follows the condition last written.

### WantDelivery

One offer, the wants it may match, and the *fire-once ledger* between them: `want_matches`, whose `notified_at` says
that the buyer has been told. The valuator adds matches and queues the offer for the notifier if an open one is urgent;
the notifier posts the urgent ones; the daily digest posts what is left. Both read the ledger, post outside any transaction and stamp afterwards
the ids they read. A price drop clears the stamps.

| state or action | code |
|---|---|
| `row`, `clock` | price, previous price, the two status columns, attempts, `user_action`, `closing_notified_at`; where the lot is relative to its closing window |
| `want`, `match` | `searches` and `want_matches` |
| `seen` | the row as the valuator's session has loaded it |
| `notifier`, `digest` | what they have read, and posted, and not yet stamped |
| `Reprice`, `Bid`, `Rescrape`, `Tick` | `db/upserts.py`, `apps/bid_poller/poller.py`, the clock |
| `CreateWant`, `ToggleWant`, `DeleteWant`, `DismissMatch`, `MarkLot` | `wants/service.py` (backfill), `apps/dashboard/routers/wants.py`, `actions.py`; the bot's commands and buttons do the same |
| `ValueLoad`, `ValueCommit`, `ValueFail`; `Evaluated`, `Urgent`, `Instant` | `value_one`, `evaluate_lot_against_wants`, `_has_unnotified_instant_match`, `delivery_tier` |
| `NotifierClaim`, `NotifierLoad`, `NotifierPost`, `NotifierWrite`, `NotifierCrash`, `NotifierError`, `NotifierRestart` | `apps/notifier/notifier.py` |
| `Post` | `apps/notifier/discord_post.py` and Discord: a response may be lost, the retry may deliver a second time |
| `DigestBuild`, `DigestPost`, `DigestStamp`, `DigestCrash` | `apps/digest/digest.py` |

Four history variables carry what the properties compare with: `heard` (messages per match since it was opened), `shown` (the price last
announced), `doubt` (`"repeat"`: crash, lost response or overlap; `"overtaken"`: a drop while a message was on its
way) and `waived` (matches that may wait for the digest until the next valuation: created by backfill, unmuted, kept quiet, given up after too many
failed posts, or lost because valuator and notifier overwrote each other's status). Without `doubt` and `waived`
the properties would be false: a drop below the price shown that arrives while the digest holds the match is stamped over and never announced
(`upserts.py:335-337` says it is), without any fault.

`Delivery` says what the ledger promises, without prices, urgency, queues or attempts: an item (a match, or the reminder of a lot) is owed, settled or withdrawn; a
sender takes what is owed, posts it, and settles what it posted; a sender that dies loses its work but not the ledger's. `WantDelivery` implements it
(`ImplementsDelivery`): `LedgerOf` reads an item's standing off `want`, `match` and `row.reminded`; the senders are notifier and digest; `InHand` and `Unstamped` are what
they carry before and after the post; `Told` is what `shown` and `heard` record. A reprice is `Reopen`, a backfill or a valuation `Enter`, a deletion or a dismissal `Withdraw`, a load or a build
`Take`, a post `Post` or `Miss`, a write or a stamp `Settle`, a crash or an error `Forget`; all else stutters. The refinement does not say that an item is told once
(`HeardOnce` does, with its causes) or at which price (`StampedMeansTold`).

Left out: channels that are not configured (nothing is posted then), `lot_extended` (the shape of `closing_soon`), deletion of the
offer, the length of the digest, criteria other than the price ceiling. The score is a threshold on the price. Whether another live offer
has the same VIN is a choice made when the match is created, as in the code. The two closing windows (one hour for
reminders, 24 hours for the tier) are taken as one.

### LotLifecycle

Auction lots of two sources between the site, the ingester, the bid poller, the buyer and any number of distillers. The unit of time is a day or more, so
that the poller's delays fall within one unit. HiBid says whether a lot is closed and never when it ends (its end is the auction's); McDougall says when a lot ends and
never that it has closed. This difference decides what the poller can know, and is why a McDougall lot ends only by force-close or by disappearing.

| state or action | code |
|---|---|
| `site`; `SiteBid`, `SiteClose`, `SiteMove`, `SiteDrop` | the auction site: `sources/hibid/`, `sources/mcdougall/` as the programs see it |
| `lot`, `sales` | rows of `auction_lots` (with the end of their auction) and `historical_sales`; `gen` stands for the primary key |
| `Ingest`; `InsertedRow`, `RefreshedRow` | `apps/ingester/ingester.py`, `db/upserts.py`: what a record adds, keeps and overwrites |
| `todo`, `obs`; `PollerLoad`, `Ask`, `AskFails`, `AskGlitch`, `Write`, `PollerCrash` | `apps/bid_poller/poller.py`: one transaction picks the batch, force-closes and makes references; each poll is a fetch and a later write that looks the row up again |
| `dist`; `Select`, `LoadLot`, `Distill`, `DistillFails` | `apps/auction_distiller/distiller.py`: select ids; per lot one transaction that loads, inserts the sale, deletes |
| `Mark` | `apps/dashboard/routers/actions.py` and the bot's buttons |
| `Purchase` | external: the column `was_purchased_by_us`, which the distiller reads (`distiller.py:127`) and no program sets; the model lets it be set for good at any time, which includes never |

Four history variables name the exceptions: `misled` (closed on HiBid's error-in-a-good-response, or by an end that had moved), `again` (still listed after it was
distilled), `doubled` (recorded by a second distiller), `late` (marked or purchased when already on a list).
`SaleRemembered` promises a record of what is closed, whatever the buyer marks, unless the lot was purchased: that one is never distilled, its row stays with its price (`test_distiller.py` has a case for it), and `KeptWhileWatched` forbids deleting it. What a bid does to the valuation is in `Pipeline`.
Three ways to stay open for ever are real and named in `Stuck`: older than the clock-skew ceiling, crowded out of the limited batch, and, at HiBid, refreshed from a record without row id.
The status `"extended"` is unreachable: the poller's branch needs an auction with an end *and* an observation with one, and each source has only one of the two (`TypeOK` says so, and is proved).

### CatalogueWalk

A run of the ingester is two strategies one after the other (the third, the pull, is `SourcePull`), each of them a sequence of catalogues: HiBid's provinces, then
McDougall's one list. `todo` is what is left of that, `page`, `held` and `last` are where the generator stands in the present catalogue. The sites list and withdraw lots at any moment, also
between two pages, and a page is whatever the catalogue has at those places when it is asked for. `held`, what is left of the page in hand, is a set: the code takes a page's lots in their order,
the model in any order, which leaves it free to lose any of them when a strategy fails half-way.

| action | code |
|---|---|
| `StartRun`, `NextCatalogue`, `StrategyFails`, `Dies` | `main`, `_dispatch_strategies` and the two `_run_*_lot_first` in `apps/ingester/ingester.py` |
| `AskHibid` (with `LastPage`) | `discover_vehicle_lots` in `sources/hibid/source.py`: null records are dropped before the page's length is compared, records without auction or id after it, a missing count is 0 |
| `AskMcDougall`, `PageFails`, `Skip` | `iter_catalog_entries` and `discover_vehicle_lots` in `sources/mcdougall/source.py`: cards that cannot be read are skipped, an empty or failed page ends the walk, a lot's page that fails is passed over |
| `Busy` | `sources/retry.py` |
| `Write` | the gate, and the upsert of the two `_run_*` functions; a lot is written in this run or not, the rest is in `Pipeline` and `LotLifecycle` |

`due` is a history variable: the wanted lots that have been listed since before the run and that nothing has put out of its sight. Each cause the code admits takes its lots off `due`: a
bad record, the pages behind a page that looked short, the lot that moves up when one of a page already read is withdrawn, a failed page or strategy, the page limit.
`MissedExplained` says that there is no further one. The model shows that an offset over a moving list misses lots without any fault, and that the next run makes up for it
(`StandingIsWritten`): new lots in front only show the walk a lot twice.

### SourcePull and SourceWatchdog

`SourcePull` is the other half of the ingester: for each listing source, every search of every enabled want is fetched (first page only), each listing upserted in its own
transaction, and what was not seen is marked removed (`Reconcile`), which also makes its asking price the price of a sale. A search that fails is skipped while the pull counts as complete.
`unseen` is the history of what the pull cannot have seen although it is on its site.

`SourceWatchdog` is the hourly check: `StartWatch` reads in one transaction which sources have brought nothing for `StaleAge` and are not muted, `Alert` posts with the
transaction open, `EndWatch` commits all records at once, `WatchDies` rolls all of them back. `AlertFails(s, arrived)` is a post whose failure may be only the
answer's. `unrecorded` is the history of alerts that arrived and were forgotten. Its initial predicate, next-state relation and specifications carry `Watch` in their names, so that
one proof module can extend it and `CatalogueWalk` together; they share no state.

### Scoring and Valuation

`Scoring` holds the arithmetic as operators on whole numbers with a fixed scale: `Normal` (channel multipliers), trimming by mileage, deciles as `statistics.quantiles`
computes them, the band and the expected value, landed cost, premium with cap and floor, all-in cost, score, flag weights. The code's rounding to cents is left out, except where
it decides something: whether a sale at *exactly* two standard deviations is trimmed depends on float rounding, so `AtEdge` is a choice.

`Valuation` uses it in a transaction system: an offer's price and status move, the valuator claims, reads the comps (`Read`) and commits (`Value`), and operators list groups, write
estimates (delete what is visible, insert, commit) and requeue. `basis` and `request` are histories that the properties compare with.

What the model makes visible and the code accepts: with exactly five comps the rounding at two deviations may leave four, hence "insufficient"; the operator tool asks for three comps for an
uncommon make (`tools/value_pending_lots.py:46-47`) although the valuator needs five; a requeue is lost when a valuation that has read its comps commits after it; a lot whose end is unknown (McDougall) is never requeued;
an unknown mileage gives an empty band; `or` turns a rate of 0 into the default of 10% or 5% (`valuator.py:122-126`); green flags weigh against the red ones.

### WantGate

The same question asked three times: `CouldMatchAny` of the scraped text (ingester and enricher), `Matches` of the facts in the row (valuator), and the backfill of a new want
over what has been valued. A text is the set of terms it contains.

| state or action | code |
|---|---|
| `raw`; `Ingest` | what is scraped; `_lot_wanted` in `apps/ingester/ingester.py`. A listing is found by a want's own search and is not gated |
| `facts`, `enrichment`, `valuation`, `live` | the row: its columns, its two statuses (`in_progress` is `pending` with `enricher` or `valuing` under way), and whether the lot is open or the listing active |
| `want`, `match`; `CreateWant`, `WantCreated`, `ToggleWant`, `DeleteWant` | `wants/repo.py`, `wants/service.py`: a want is created in one transaction of two steps, what its backfill sees, and its commit |
| `Backfillable`, `MayReturn` | the selection of `backfill_want`: open or active, `done`, with a make; and its `LIMIT` without `ORDER BY`, which leaves out any offer once there are more (`MaxOthers`, `BackfillLimit`). `MaxOthers` bounds the other offers that are selected; how many there are is a choice at each backfill |
| `Bid`, `Close` | `_write_observation` in `apps/bid_poller/poller.py`: a changed bid re-values whatever the row's enrichment, and may be the last |
| `Reprice`, `Disappear`, `Reappear` | `upsert_private_listing`, `_reconcile_disappeared` |
| `Rescore` | `rescore_all` of the dashboard |
| `StartEnrich`, `Skip`, `Enrich` | `_process_one` and `_apply_to_lot` in `apps/enricher/enricher.py` |
| `StartValue`, `SkipValue`, `Value` | `_process_one` and `value_one` in `apps/valuator/valuator.py`; `valuing` is what the transaction has read. It may claim a row that is not enriched yet, and enricher and valuator may both be at work |

`gated` is the history of the wants the gate last looked at, `excused` of the wants the code does not promise a match for, with the reasons `MatchNotMissed` lists: unmuted (no backfill);
created when the backfill passes over the offer, because it is short of comps, over, or one of more than the backfill reads; committed while it was being valued (neither transaction sees the
other); and, for all wants, an offer whose facts or price changed while it was being valued. A later valuation makes up for all of them. Without any one of these reasons TLC finds a missed match, so none is idle.

Left out: a rescrape of changed content and failures of the workers (`Pipeline`, `StageQueue`), two valuations of one row at a time (they need a lost lock), deletion of the row, and
the duplicates by VIN, whose matches exist but are dismissed (`WantDelivery`). A `Value` or `SkipValue` that overwrites the `pending` of an enrichment or a bid is the race that `Pipeline`'s properties are about.

## 3. The runs

Deadlock is checked in the runs `watchdog` and `walk` only: producers and faults are bounded, so a model whose rows are all settled stops, as the
system does when nothing is scraped. The timers of these two never stop.

| run | module | question | result |
|---|---|---|---|
| `notifier` | MCStageQueue | two processes compete for a sequential stage; crashes, drops, errors, row locks | `TypeOK`, `ClaimsDisjoint`, `RecoveredOwnership`, `WakeupCoverage`, `FailedMeansExhausted`, `ImplementsWorkQueue` hold |
| `enricher` | MCStageQueue | one process, two rows at once, permanent failures, a lock that may be lost; fairness | `PendingIsDrained`, `RestartSettles`, `SweepEnds` hold |
| `row` | Pipeline | five programs on one row; any two overlap, one crash or failed attempt; fairness | `PriceFresh`, `FactsFresh`, `EnrichedFresh`, `WakeChain`, `PriceEventuallyScored`, `ContentEventuallyEnriched` hold |
| `delivery` | MCWantDelivery | one offer and one want between four programs and the buyer; one change, one action of the buyer, one fault at any point; fairness of the digest alone | `StampedMeansTold`, `HeardOnce`, `InstantQueued`, `ImplementsDelivery`, `OpenDelivered` hold |
| `lots` | LotLifecycle | a HiBid and a McDougall lot, two distillers, one surprise at any point; fairness | `TypeOK`, `CountedOnce`, `HammerPrice`, `EarlyCloseExplained`, `KeptWhileWatched`, `EndsClosed`, `SaleRemembered` hold |
| `pull` | MCSourcePull | three listings, two sources, two wants, a search with more than one page; fairness | `RemovedExplained`, `VisibleIsActive`, `GoneIsRemoved` hold |
| `walk` | MCCatalogueWalk | two provinces and McDougall's list, seven lots that come and go, two odd answers or failures at any point; fairness | `MissedExplained`, `StandingIsWritten` hold |
| `watchdog` | SourceWatchdog | two sources, failed posts, lost answers, crashes; fairness | `TellsSparingly`, `StaleIsTold` hold |
| `valuation` | MCValuation | five kinds of offer, two operators; up to two batches of estimates, one failure or price change | `FairValueSound`, `RequeueServes`, `EstimatesReplaced`, `DearerScoresWorse` hold |
| `gate` | MCWantGate | two wants against five lots and a listing, thirteen kinds of vehicle at three prices; prices that move, offers that end, a full backfill | `GateSound`, `MatchNotMissed` hold |
| `bid` | Pipeline | is a lot always re-valued with the latest bid, as `poller.py` says? | `BidRevalued` violated |
| `own` | MCValuation | is no offer a comp of its own, as `valuator.py` says? | `NotItsOwnComp` violated: a lot closed with a changed last bid is valued once more |

Where a theorem states a type invariant for every value of the constants, a run need not check it again: `pull`, `watchdog`, `gate`, `row` and `delivery` leave theirs to the proofs. `walk` and `valuation` have
none to check: what the proofs need of their types is part of `WalkInv`, `ScoreInv` and `RequeueInv`.

The two violations are listed with the quoted lines under "findings" in `PROJECT.json`.

Six more disagreements between code and comments were met while modelling, and are not worth a run each: after the loss of the lock's connection there *is* another claimer at
recovery (`db/queue.py`; `ExclusiveClaims` has it as a premise); FAILED does not mean that the retries were used up for stages that count successes (`db/models.py:307-312`;
`GivesUpAfterBudget` has it as a premise); one NOTIFY of `rescore_all` does not drain more rows than a batch (`routers/actions.py:141-142`; the hole `bulk`); nothing is swept on a reconnect (`db/queue.py:156-157`; the hole `reconnect`); a condition corrected from
the photos (`apps/vision_batcher/batcher.py:20-24`) does not survive the next enrichment; a price drop is stamped over by the digest.

### Bounds

* *Rows and batches.* Two rows and a batch of one (`notifier`) make "more rows than a batch" possible; two rows and a batch of two (`enricher`)
  make a batch with a row in every stage of its processing. Rows interact only through the batch limit, so a third row adds
  no new situation; the theorems hold for any number.
* *Processes.* Two, in `notifier`: the lock is a question between two. In the liveness run there is one, because a second one can only wait for the lock.
* *`MaxAttempts` = 2*: a failure that is retried and one that is final.
* *`MaxEnqueues`* 2 or 3: a reset before, during and after a claim. *`MaxFaults`* 1 or 2: a second crash during recovery from the
  first; the order is arbitrary.
* *`MaxContent` = `MaxPrice` = 2*: the version inserted and one change, which may come at any point; two more would repeat it.
* *`MaxOverlaps` = 1*: a program may start on the row once while another is at work, for every pair of programs
  and every pair of points in their code. That is the least number at which every race of two programs happens. Three programs at work at once do not; for the invariants they are left to the theorems, which hold for any number of overlaps, versions and faults.
* *`delivery`*: wants interact only through the offer's status, and a reminder plus one want already gives "one of several fails"; one want therefore.
  Three prices: a standout, an ordinary deal and one above the ceiling (`MaxPrice` = 3, `Ceiling` = 2, `Standout` = 1); the offer starts
  at one of the first two. `MaxMoves` = `MaxEdits` = `MaxFaults` = 1: a price change, a rescrape or a step of the clock, an action of the buyer, and a crash or disturbed post, in every order and at every point. With
  two moves the safety properties hold as well (5.4 million states). `MaxAttempts` = 2, and the offer starts with one attempt or none used up, so that a failed post is retried or final.
* *`lots`*: one lot of each source; they meet only in the poller's batch, which is one, so that one crowds the other out. `Ends` = {0, 1} and `MaxTime` = 3: an end that moves once, and room for
  the whole way from an end through `ForceAge` (0), `DistillAge` (1) and `KeepAge` (2). One bid (`MaxBid` = 1) is a changed price or none. `MaxSurprises` = 1: one mark, purchase, moved end, odd record, fault or second
  distiller at any point; two at once are left to the theorems, which hold for any number.
* *`pull`*: one search finds three listings of two sources on a page of one, the other finds one of them again. `MaxSurprises` = 3: gone, back, and a failure in between.
* *`walk`*: Alberta has two lots on a page of two, and a third may be listed in front, so that a full page is sometimes the last one and sometimes not; a second province to lose with a strategy; three McDougall lots, one to a page,
  with a limit of two pages (`MaxPages`), so that the limit is reached and a withdrawal moves a lot across it. Every lot may be withdrawn at any point, and none comes back. `MaxRetries` = 1. `MaxSurprises` = 2: a failure after an odd answer. Two lots are not wanted.
* *`watchdog`*: `MaxTime` = 6 is room for two alerts of a source (`StaleAge` 3, `DedupAge` 2); two faults: one that loses a record and one that loses its repetition.
* *`valuation`*: bags of 0 to 16 sales reach every branch: too few, the trimming threshold, medium and high confidence; the batch of three has a sale at exactly two standard deviations of five, so
  that the case `FairValueSound` excepts does occur. Two writes overlap in every way. The offers cover both kinds, unknown mileage, an unidentified lot, cap and floor, and a distant province.
* *`gate`*: one want by make, model and year with every further criterion, one by an archetype's models; each kind of vehicle violates one criterion, or leaves one unknown; the price is not known, below the ceiling or above it. `BackfillLimit` = `MaxOthers` = 1, so that a backfill may be full. `MaxTurns` = 3: both wants created and one unmuted, or created, muted and unmuted; `MaxBids` = 1: one change of price or rescore, at any point.
* *Symmetry*: the two processes of `notifier` and the two operators of `valuation` are interchangeable; those runs check safety only, where symmetry is sound.

### Fairness

`StageQueue!FairSpec` has weak fairness of `Work(w)` for each process: the units in `src/infra/systemd/` say
`Restart=always`, so a process that is down is started again, and a running process goes on with its own loop. No fairness is assumed
of producers, of faults, of the outcome of an attempt or of which row is next beyond the code's own order. With
one process this is all that is needed; the bound on faults stands for "crashes stop at some time".

`Pipeline!FairSpec` has weak fairness for a worker's claim *of a row it has been told of* (this is what `PendingIsDrained` and
`RestartSettles` provide), for the restart, and for programs that have begun work on the row (all their network calls have
timeouts). Nothing makes a rescrape, a poll or a vision batch begin, and a row that nobody was told of may wait for ever, which
is what makes `WakeChain` worth checking.

`WantDelivery!FairSpec` has weak fairness of the digest, which `src/README.md:50` says is started every day (`src/infra/systemd/` has no unit for
it, so that has to be set up by hand), and of nothing else: `OpenDelivered` holds although valuator and notifier may stop at any point for good, which is what `delivery.py` promises of the
digest. That the digest's posts succeed in the end is the bound on faults. Without the digest `OpenDelivered` is false: the notifier alone leaves what is not urgent, or must be quiet, open.

`LotLifecycle!FairSpec`: time passes; the poller, a `Restart=always` unit, goes on with its loop; the nightly timer starts one distiller, and a run that is
under way goes on. The site, the ingester, the buyer, and whoever starts a second distiller by hand are under no obligation. `SourcePull!FairSpec`: the timer runs the
ingester again and again (one WF of the run's own steps; they exclude each other). `CatalogueWalk!FairSpec` is the same for the walk, every request of which has a timeout; `StandingIsWritten` holds
however the sites change, once odd answers and failures stop (their bound). `SourceWatchdog!FairWatchSpec`: time and the hourly timer. `Valuation` and `WantGate` state safety only.

Both liveness properties of `Pipeline` allow for the row's leaving the pipeline (skipped by the want-gate, failed) and for a race of the
kind the finding `bid` shows.

### Mutants

Every property of a passing run comes with a mutated form of a modelled definition that breaks it: a start without the lock, a recovery that
recovers nothing, leftovers that are not re-notified, an off-by-one in the budget, an attempt that is not counted, a startup without a sweep,
a batch whose rows are started and not awaited, a bid that is not re-valued or not notified, an override that does not ask for a new valuation, a cascade that forgets the enrichment, and the
two questions of the ingester's routing swapped, a valuation that writes a dismissed match anew, a digest that stamps what it failed to post or leaves the urgent matches to the notifier, posts
that do not reach the ledger, a valuator that queues only for new matches, a lot given up as soon as its announced end has passed, a sale recorded while its row stays,
a search that forgets what earlier ones have seen, an alert recorded although it could not be posted, the floor of a premium applied before its cap, estimates not deleted,
a full page taken for the last one, one failing source that ends the run,
a gate that drops lots of unknown year, an offer not evaluated again when it is valued again. They stand before the definition they change, marked "mutant".

## 4. The proofs

All theorems hold for every value of the constants that satisfies the module's named assumption. Each proof module lists its theorems at the top.

| theorem | says | argument |
|---|---|---|
| `StageQueue_proofs!TypeCorrect` | `Spec => []TypeOK` | `TypeOK` is inductive. It carries the shape of a `process_pending()` call; the semaphore's bound needs the cardinality lemma `ActiveStep`, since a set of loaded rows grows by one row at a time. |
| `ExclusiveClaims` | `~LockDrops` implies `Spec => []ClaimsDisjoint` | `ClaimsDisjoint` is not inductive: a claim does not look at other batches. The strengthening is `Locked`: only the process that holds the lock is not down. A process that is down has no batch (`TypeOK`). |
| `NoForgottenRow` | `Spec => []RecoveredOwnership` | `Accounted`, free of locks and phases: every `in_progress` row is in somebody's batch or in `stranded`. Needs no assumption about the lock. |
| `GivesUpAfterBudget` | `Counted = {} /\ ~HasPermanent` implies `Spec => []FailedMeansExhausted` | `Budget`: the column counts exactly the failures. For the valuator, which counts successes too, the premise fails. |
| `NoLostWakeup` | `Spec => []WakeupCoverage` | Counting: `CallBound` (what a call holds and has to retry is at most a batch) and `ZombieMarked` (without a `zombie` hole only the lock's holder is up, so `Alone` there is one process to look at). A claim takes the lowest rows: a full batch, or all that is pending (`LowestBounds`, by the least element of the rest). `CoverageStep` goes through the actions: each that adds a pending row adds a notification or a hole, and each that consumes a notification takes a batch. |
| `ImplementsQueue` | `~LockDrops` implies `Spec => ImplementsWorkQueue` | under `TypeOK` and `Locked`, every step is a step of `WorkQueue` or a stutter; at a claim or a recovery nobody holds anything (`NobodyHolds`). |
| `Pipeline_proofs!TypeCorrect` | `Spec => []TypeOK` | `TypeInv`: besides the types, what is loaded or carried is never ahead of the row (`Behind`), and content and price each have one writer at a time (`OneWriter`); without the second a commit could set a version back below what was derived from it. |
| `ScoreFollowsPrice`, `ScoreFollowsFacts`, `EnrichmentFollows` | `Spec => []PriceFresh`, `[]FactsFresh`, `[]EnrichedFresh` | each is inductive relative to `TypeInv`. `CommitStep` says what the unit of work makes of each column, `CommitRest` that a program not in `raced` has loaded the row as it is; one lemma per program (`EnrichStep`, `ValueStep`, `PollStep`, `VisionStep`, `IngestStep`) then says what its commits can leave behind. |
| `ChainUnbroken` | `Spec => []WakeChain` | from the same lemmas: a commit that leaves a column pending found it so or tells its stage, except for the cases `WakeChain` names. A crash takes a worker down, and its restart tells it. |
| `LotLifecycle_proofs!TypeCorrect` | `Spec => []TypeOK` | strengthened by `NoEndSeen`: HiBid's observations carry no end, so `Observed` never takes the branch to `"extended"`. The step lemmas (`IngestStep`, `LoadStep`, `WriteStep`, `AskStep`, `DistStep`, ...) say once what each action does to the rows; everything below cites only them. |
| `HammerPriceKept`, `NoEarlyClose` | `Spec => []HammerPrice`, `Spec => []EarlyCloseExplained` | `SaleInv`: no amount exceeds the site's bid anywhere on its way (row, distiller's hand, sale), and an observation that says "closed" is still true, with its price, when it is written, because a lot that is over does not open or get bids again (`SiteStep`). |
| `WatchedIsKept` | `Spec => KeptWhileWatched` | a purchased row is never deleted, a watched one not before its time. `KeepInv`: a row on a distiller's list stays over, old enough and not ours unless it is marked or purchased since. Its closing time could move only by an observation of a force-closed row; there is none, since references are made of open rows and forced closing happens when no reference is out (`Fresh`). |
| `CountsOnce` | `Spec => []CountedOnce` | `CountInv`: a lot with a sale has no row; a row comes back only through the ingester. |
| `SourcePull_proofs!TypeCorrect`, `RemovalsExplained` | `Spec => []TypeOK`, `Spec => RemovedExplained` | `PullCovers`: what is on the site of the source being pulled is seen, on the page in hand, still to be found by a search to do, or accounted for. |
| `WantDelivery_proofs!TypeCorrect` | `Spec => []TypeOK` | `TypeInv`: types, the life of a match (`Ledger`: ids in a program's hands outlive their match only if the want was deleted), what the senders carry (`Senders`), that only lots have a closing window, and that a counted attempt has cost a fault. The step lemmas (`PostStep`, `RepriceStep`, `MatchingStep`, `WriteStep`, ...) say what each action does to one match, item or message; the rest cites only them. |
| `StampedWasTold` | `Spec => []StampedMeansTold` | `StampedMeansTold` forgets how a stamp comes about. `ToldInv` follows the message: what is read, posted and stamped was `Current` (not above the row's price, unless dismissed or `overtaken`) at each station, for notifier and digest alike. |
| `ToldAtMostOnce` | `Spec => []HeardOnce` | `OnceInv`: as long as there is no doubt about an item, what bears no stamp has not been heard of unless it is in the hands of the one sender that has posted it. |
| `UrgentIsQueued` | `Spec => []InstantQueued` | `QueuedInv`: what is due is pending and rung for, or the notifier is at work on it, or down with the row `in_progress` for its recovery. `LoadTakesDue` and `CommitQueuesDue` are the two steps that matter: the notifier's load finds all that is due, the valuator's commit queues it. |
| `DeliveryImplemented` | `Spec => ImplementsDelivery` | under `TypeInv`, every step is one of `Delivery` or a stutter. `LedgerSteps` and `SenderSteps` put the abstract actions in terms of the four state functions of the mapping (`Book`, `Bags`, `Posts`, `Told`); `DeliveryStep` finds the abstract step of each action from the step lemmas. `Ledger` is what a stamp needs (an id in hand whose match is gone belongs to a deleted want), `PostTells` what a message needs (it reaches all it is about, or none). |
| `SettledMeansTold` | `Spec => []D!SettledWasTold` | an invariant of the abstract specification alone; the refinement carries it over, reminders included. |
| `Sources_proofs!NothingMissed` | `Spec => []MissedExplained` | `WalkInv`: a lot on `due` is written, or held, or behind the page in the present catalogue, or in a catalogue still ahead; a catalogue lists lots of its own, each once. A lot listed in front moves the others back (`AppearStep`), a withdrawal moves one across the page's edge (`VanishStep`: the one that is taken off `due`). `InsertPlaces`, `RemovePlaces` and `PageTurned` are the lemmas on places in sequences; `ShortPageIsLast` is why the walk may stop at a page that is not full. |
| `Sources_proofs!WatchTypeCorrect`, `AlertsAreSpaced` | `WatchSpec => []WatchTypeOK`, `WatchSpec => TellsSparingly` | `WatchInv`: the record is what the operator was told, but for the run under way and for what was lost; a run has not recorded what it has still to tell, and may tell it. |
| `Valuation_proofs!PremiumWithinTerms`, `DearerCostsMore`, `CheaperFromHome` | bounds and monotonicity of premium and all-in cost | by cases on cap and floor; arithmetic on products goes through `TimesMonotone` and `TimesStrict`. |
| `FairInOrder` | for any bag of five sales or more: least price ≤ low ≤ mid ≤ high ≤ greatest price, and low ≤ expected ≤ high | the k-th price is a price of the bag and grows with k (`KthWithin`, from `UpToCounts`); with ten sales or more the cut points of the deciles lie inside the bag and on either side of the median (`DecilesWithin`), with fewer the band is the whole range. |
| `TrimKeepsMost` | trimming drops at most a quarter of any bag | Chebyshev's inequality over whole numbers: a sale that is dropped adds at least four variances to the sum of squares, and that sum is `Size` variances. |
| `FairIsSound` | `Spec => []FairValueSound` | `FairInv`: what a valuation under way is about to write, and what the row has, is the fair value of the bag that `basis` records (`PricedSound`, from the two theorems above). Its last part, that researched offers are not short of comps, needs `ResearchInv`: what an operator has written is in every market read after it, in the offer's band, and no row of it is lost (`CompsOfMarket`). |
| `DearerIsWorse` | `Spec => DearerScoresWorse` | `ScoreInv`: what is in the row, and what a valuation under way is about to write, is the cost and the score of the price it was derived from (`PricedAt`); `CostRises` takes the two theorems above to any two such prices. |
| `RequeueIsServed` | `Spec => []RequeueServes` | `RequestHeard`: a request that came in time finds the row still to be valued, and a valuation of it that has read its comps has read them after the request. `Groups`: only an identified lot's group can be requeued. |
| `NoEstimateTwice` | `Spec => []EstimatesReplaced` | `EstimatesInv`: what a writer does not delete was committed after it began. |
| `WantGate_proofs!TypeCorrect`, `NothingTurnedAway`, `NoMatchLost` | `Spec => []TypeOK`, `[]GateSound`, `[]MatchNotMissed` | `MatchPassesGate`, a lemma about the operators: facts that match, faithfully derived from a text, make the text resemble. `GateInv` keeps it for the wants looked at; `MatchInv` relates the open valuation and the open creation to the matches: a valuation under way has read every enabled want but the excused (`ReadAll`); a want in creation has found the valued offer, or is excused, or it is no match (`BackfillSees`). |

Every safety invariant, every action property and both refinements of the runs are stated by a theorem. Only model-checked are the liveness properties (they rest on fairness and ENABLED).

Means, deviations and deciles are sums over bags of sales, hence folds. What a fold returns for every finite set is an induction over data, and the library's induction theorems take an operator as
a parameter, which the provers cannot instantiate. The proofs go around it: `WFMin`, which takes a set, gives a smallest counterexample among the subsets of a finite set (`SmallestSet`); if a law of sums fails, it fails
for a smallest subset, and taking one element away contradicts that. `TotalStep`, `TotalSum`, `TotalScaled` and `TotalNat` are the laws so obtained.

Proving changed the models in these places. `Scoring` and `Valuation` sum with `SumFunction` over a whole function, and count with `UpTo`, so that one set of laws serves every sum. `FairValueSound` has the premise
`Fitting` where it said that the mileage is known, which was not enough: rows outside the offer's band are written but never read again. The batches of the run were changed so that its exception occurs.
`WantDelivery!FairSpec` asks for less fairness than it did. `CatalogueWalk` kept the page in hand as a sequence filtered with `SelectSeq`, which is recursive inside the library and cannot be reasoned about; it is a set now, with more behaviours.
`RequeueServes` contained a clause about the number of comps; it is a part of `FairValueSound`, which it belongs to. `DearerScoresWorse` says of the score only what the code does: an expected value of 0
or less gives the score 0 at every price. Of the cost it says it in every case.

## 5. Plan and what is not modelled

Done: the queue and its refinement, the row between its programs, delivery and its refinement, the life of a lot, the walk over the catalogues, the pull, the watchdog, the valuation and its arithmetic, the gate. Left, should the code change there:

1. An enrichment that ends after vision's override (a hazard in `PROJECT.json` without a property) needs the condition's provenance in `Pipeline`.
2. An abstract lot (listed, over, recorded, forgotten) that `LotLifecycle` implements; its invariants `SaleInv` and `CountInv` are what the step simulation needs.

Not modelled, and why:

* *LLM access* (`llm/`): a network call with retries; its outcomes (an answer, a transient or a permanent failure) are choices in `StageQueue` and `Pipeline`.
* *Parsing* of HTML, JSON and carfax reports, normalisation of makes and models: pure functions of text, whose outcomes the models take as inputs.
* *Pages, message layout, prompts*: formatting. The digest is one message of unbounded length (a hazard in `PROJECT.json` without a property): its length is data the model abstracts.
* *Rounding to cents*, except where it decides something (see Scoring).
* *`retry_routing`* (`routers/needs_plugin.py:109`) notifies a channel no program listens to: nothing happens, and there is nothing to model.
* *The comp query's filters* on make, model, year and trim: `Valuation` keeps one group, in which they all match.
