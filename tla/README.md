# Verification of Graphling (ALICE)

TLA+ models of Graphling, the voice assistant and trade ledger for Star Citizen
pilots, the TLC runs that check them on small instances, and TLAPS proofs about
them. Paths are relative to the repository (`app/...` is `src/app/...`); `tla/` needs
nothing but the modules in it, the standard and community modules, and TLC and TLAPS.

    tlc -workers 2 -config LedgerConcurrent.cfg MCLedger     # one run
    tlapm LedgerProofs.tla                                   # the proofs

`PROJECT.json` lists the components, the runs, which source lines each definition
models (`map`), the mutants each property is known to catch, the hazards and the
theorems.

## 1. The system

One desktop process per pilot talks over HTTPS with a bearer token to one server.

* **Client.** Two event loops in one process: the overlay (Qt, main thread) and the
  voice loop (a daemon thread), next to a keyboard listener, a thread for the sticks and
  one per timer. The voice loop records while push-to-talk is held,
  transcribes, and sends the text through a LangGraph graph that picks a topic, asks
  a language model, runs its tool calls and speaks the reply. Both loops call the
  server independently, so one pilot regularly has two requests in flight.
* **Server.** FastAPI on one event loop, the only client of PostgreSQL. It keeps the
  trade ledger, caches of UEX prices and of the wiki, and gateways to the language
  model (a preferred host, heket, and a paid fallback) and to two speech engines.

### Inventory

| Component | State | Operations | What makes it correct | Modelled in |
|---|---|---|---|---|
| Ledger service (`server/ledger_service.py`, `routes/ledger.py`) | rows of `trade_run` and `trade_leg` | create, advance, record purchase/sale, update, finalize, write off, delete | legs pass their milestones in order and stay done; a closed run is complete and frozen; a recorded sale is never lost; each pilot changes only their own | `Ledger`, `AtomicLedger` |
| Trade-run helpers (`db/trade_run_store.py`) | none | next milestone, current leg, money of a run | agree with the leg's type and transfer type | `TradeLeg` |
| Voice trade tools (`tools/trade_run/*`, `ledger_client.py`) | none; each call fetches the runs first | mark arrived, acquired, sold, loaded, unloaded, edit details, start run | what is stamped is what the pilot said, although the ledger moved since the fetch | `LedgerClients` |
| Trade runs panel (`overlay/trade_runs_panel.py`) | the run list of the last refresh | advance, record, edit, finalize, write off, abandon | a button offered on a stale list does no harm | `LedgerClients` |
| LLM gateway (`server/llm_gateway_service.py`, `routes/llm.py`) | requests in flight, bench time, probe task, day's spend | open a chat on heket or the fallback, relay, record usage, probe, warm up | bounded load on heket, slots given back, a host marked down is tried again, budget respected | `LlmGateway` |
| UEX budget, prefetch and caches (`server/uex_budget.py`, `uex_route_prefetch.py`, `uex_cache_service.py`, `tools/uexcorp/*cache*.py`) | calls of the day, rows with their age | spend, read through, prefetch, rebuild | background work takes a bounded part of the reserve; rows do not grow old; a failed round is not the last | `UexCaches` |
| Conversation graph and voice loop (`graph.py`, `voice/__init__.py`), topic decisions (`topic_client.py`, `server/topic_decision_service.py`) | messages, topic, tool groups, confirmation flag | classify, route, respond, call tools, speak, announce a failure | the history sent is well formed, nothing of another turn is used, no failed turn is the last | `ConversationTurn` |
| Auth server (`server/routes/auth.py`, `db/user_service.py`) and client (`auth/discord_identity.py`, `session_auth.py`) | pending logins, users; the cached token, the lock, listeners | start, callback, issue; check at start-up, log in again after a 401 | a stale token costs one login however many requests meet it; only one's own login counts; requests end | `Login` |
| Search tools (`tools/best_route_tool.py`, `route_ranking.py`, `trade_advisor_tool.py`, `price_lookup_tool.py`, `uexcorp/matching.py`, `catalog_resolution.py`, `cargo_packing.py`, `travel_time.py`) | the server's route cache, route tokens | match a name, resolve a place, search, rank, pack, estimate | names decide and not the order of rows; the best is the best; loads are the fullest; asking again widens the search | `NameMatching`, `Locations`, `CargoPacking`, `TravelTime`, `SearchTools` |
| Push to talk, voice input and timers (`voice/voice_input.py`, `hotas.py`, `timer_tool.py`, `audio_output.py`) | two flags, the sticks, the stream, the speaker, the table of timers | press, release, plug, record, start, restart, cancel, announce | what is recorded is what was held; a timer that was cancelled is silent, one that ran out is not | `VoiceClient` |
| Route Search tab (`overlay/filter_panel.py`, `results_panel.py`, `uex_lookup.py`, `reachability.py`) | fields, candidate lists, the map, results, what is loaded after | edit, narrow, search, sort | lists and results agree with the fields, late answers do no harm | `RouteFilters`, `SearchPanels` |
| TTS gateway (`server/tts_service.py`, `routes/tts.py`), limits (`server/limits.py`) | bench, the window of request times, characters of the day | speak, allow, add | the paid engine is not used for good; at most N in every window | `Speech` |
| Prompt service (`server/prompt_service.py`) | prompts in memory | first load, refresh | a refresh never takes back what is loaded | `Prompts` |
| Wiki cache (`server/wiki_cache_service.py`, `refresh_static_caches.py`, `tools/starcitizenwiki/client.py`) | rows of a day, a cache and locks in each process | look up, store, refresh by script | a patch of the game reaches the server | `WikiCache` |
| Launcher, remaining overlay, plumbing, migrations, harness, packaging | settings, widgets | | | see section 14 |

### What is hard

* **A guard on a row that was read without a lock.** Every ledger operation reads,
  decides, awaits and commits. Two requests of one pilot overlap whenever the voice
  loop and the overlay act within a round trip of each other, or a client times out
  and the pilot repeats.
* **Decisions on what was fetched earlier.** The panel's buttons and the voice tools act
  on a run list fetched before the call. `POST .../advance` names no milestone. A search
  goes by a map of another moment than its rows.
* **Check, await, act.** In-flight counts, budgets, benches and reserves are
  tested before an await and changed after it; two flags of push-to-talk are cleared one
  after the other while a listener sets them; a timer's thread looks at a table and
  deletes from it in two steps.
* **Late answers and retries.** A client that lost an answer does not know whether the
  server committed; volatilities and times of an old search arrive on a new one; a slow
  failure benches a host that a faster request has found well.
* **What a failed step leaves to the next.** A turn that fails leaves its messages in the
  thread, a cancelled request its thread in front of a lock, a round of the prefetch the
  rows it did not reach.

`PROJECT.json` "hazards" lists forty, each at its line, each with the properties that would
catch it going wrong. A few more are described in the sections below without a property.

## 2. Plan

In order of how much the program's purpose depends on it; 1 to 8 are done:

1. `TradeLeg`, `Ledger`, `AtomicLedger`: the ledger server.
2. `LlmGateway`: slots, bench and probe, fallback, spend.
3. `LedgerClients`: the voice tools and the panel, composed with the atomic ledger.
4. `UexCaches`: the day's calls, which pilots and prefetch spend, and the rows they buy.
5. `ConversationTurn`: the graph with its topic check and the loop around it.
6. `Login`: the pending logins of the server, the login lock of the client, the tabs.
7. `NameMatching`, `Locations`, `CargoPacking`, `TravelTime`, composed in `SearchTools`; and
   `RouteFilters`, `SearchPanels`: how routes are searched, by voice and in the overlay.
8. `VoiceClient`; and `Speech`, `Prompts`, `WikiCache`, checked together in `MCServerSources`.

The proofs about a module are in the module `...Proofs` of its name, but for two that hold those of several: `ServerDataProofs`
(`UexCaches`, `Prompts`, `WikiCache`) and `VoiceProofs` (`VoiceClient`, `Speech`, and `SearchTools` with the operators it is made of).
Every safety invariant and action property that a run checks is a theorem; what is left to the runs alone is liveness.

Left:

* Models: the launcher's key capture and double start, the warm-up of the topic model, two
  processes on one wiki cache at a time, two rebuilds of the reference that overlap row by row.

The project keeps to a dozen runs, all of which pass, and to two to four properties in each, so
that the whole can be checked in one go. Where a sentence of the repository does not hold, the model
keeps it as a property that is in no configuration; the sections below name it, and TLC
refutes it when it is added to the configuration named there.

## 3. The ledger

`TradeLeg` holds the rows and the pure helpers. `Ledger` is the server.

**State.** `live` are the run ids that exist, `run_finalized` is `TradeRun.finalized_at`,
`leg` the two `TradeLeg` rows of each run, `txn` the requests between their first read
and their commit, one per slot.

**A timestamp is the operation that wrote it**, or `"unset"`. The code only asks whether
a milestone is set; the properties ask who set it. Terminal, commodity and ship never
change and are left out.

**A request is two or three steps.**
The *read* is the action named after the operation: it evaluates the code's guards on the
rows as they are, and computes the unit of work: the columns whose new value differs from
the one read, which is what SQLAlchemy puts into the UPDATE. `Commit` writes those columns
on the rows as they are then (READ COMMITTED, no `FOR UPDATE`, no version column).
`advance_leg`, when it finishes a leg, and `record_purchase` SELECT the sibling leg in
between; the session flushes before that SELECT, so from then to its commit the request
holds the row lock of its own leg (`ReadSibling`, phase `"flushed"`, `Locked`).
`finalize_run` and `write_off_run` read the run and its legs by two SELECTs, and
`update_transaction` the leg and then the run's `finalized_at`. One step stands for both.
For `update_transaction` it is the first: nothing reopens a run, so one that is open at the
second SELECT was open at the first. For the other two it is the second: a run that was
closed between the two has a recorded sale by then, and a write-off refuses on that.

**What a request does not do.** A refused request answers 400 or 404 and changes nothing, so
it is a stutter. A request on a run deleted since its read cannot commit (the UPDATE
matches no row, SQLAlchemy raises `StaleDataError`): only `Abort` is left to it. `Abort` also
stands for a lost database connection, a deadlock that PostgreSQL breaks and a server
restart. `update_transaction` refuses negative values (`Optional`); `record_purchase`,
`record_sale` and the creation do not.

**Run ids** are UUIDs, so an id has one creator, `Owner`. A deleted id is used again only
when no request names it: it then stands for a fresh one.

`AtomicLedger` is what the service promises and what its tests (which call operations one
after the other) test: each operation at one instant. `Ledger` instantiates it with its own
rows (`live`, `run_finalized` and `leg` are the abstract state; the requests in flight are left out) as `AtomicSpec`.

### Runs

| Run | Question | Result |
|---|---|---|
| `LedgerSequential` | With one request in flight, is the ledger the atomic one (`AtomicSpec`), and does a finalized run stay as it is (`FinalizedFrozen`)? | holds, 28,897 states |
| `LedgerConcurrent` | What is still true with two requests in flight, in all interleavings, with aborts and deletions? `SaleStampsTransfer`, `FinalizedRunIsComplete`, `NextStopStarted`, `ClosedRunWasBought` | holds, 173,491 states up to symmetry |

Kept in the module, holding when added, and proved: `WriteOffBooksLoss`, `WriteOffSparesSale`, `RecordedOnce`,
`UnloadedStampKept` to the first run, `TypeOK`, `DoneLegIsComplete`, `InFlightInv` and
`OnlyOwnersWrite` to the second.

**What two requests break.** With the slots `{s1, s2}`, `MaxPerPilot = 2` and the quantities `{1, 2}`,
TLC refutes four promises that hold one request at a time:

* `FinalizedFrozen`: an edit that read the run open commits after Finalize, although
  `ledger_service.py:223` says that a leg can be edited "up until its run is finalized".
* `WriteOffSparesSale`: a write-off zeroes a sale that was recorded since its read, although
  `ledger_service.py:282` says that it refuses.
* `RecordedOnce`: the second of two records wins ("Recording a second time stays refused",
  `docs/ledger-edit-path.md`, rule 6).
* `UnloadedStampKept`: a sale overwrites the time of Confirm Unloaded (`ledger_service.py:206`).

And rule 3 of `docs/ledger-edit-path.md:45`, that an edit needs a recorded transaction, is behind the
code: `update_transaction` lets a pending leg be edited, as its docstring says.

So the split is: milestones and whole-run shape survive any interleaving, because nothing
ever unsets a milestone; *values* do not, because the guards that protect them are checked
on an unlocked read.

**Bounds.** One run: no operation reads or writes two runs. Two pilots, so that ownership
can fail. Two requests in flight: each race is between two operations, and three also hold
(3.9 million states, four minutes; not part of the project for its time). Two quantities where
a lost update must be seen, one where only milestones matter. `MaxPerPilot` bounds how
many requests of a pilot are in flight: 1 is the ledger as its tests use it.
No deadlock: deadlock checking is on in every run.

### Proofs (`LedgerProofs`)

For every set of pilots, runs, values and slots:

* `Invariance`: `Spec => []IInv`, hence `TypeCorrect`, `SalesAreUnloaded`, `DoneLegsStayDone`,
  `ClosedRunsAreDone`, `NextStopIsStarted`, `WriteOffsAreWhole`, and the action property
  `OwnersOnly`.

The invariants on rows alone are not inductive: a commit writes what the request decided
on at its read. `InFlightInv` says what each request in flight has secured: if it sets
`finalized_at` of a leg, then each milestone of the leg is in its unit of work *or already
set in the row as it is now*; likewise for the whole run when it closes the run, for
`transferred_at` when it records a sale, for the sibling's `started_at`. `TxnInvStable` shows
that other commits preserve this, because no unit of work unsets a column (`ApplyRow`);
`CommitKeeps` turns it into the invariants on rows; one lemma per operation shows that
its guards establish it. `NextUnsetField` is the only fact about milestone sequences that
is needed. Assumptions: each run has an owner among the pilots, the values are integers,
and `Keep` is none of the values a column takes.

**One request of a pilot at a time.** With `MaxPerPilot = 1`, for every set of pilots, runs, values and slots: `OneAtATimeIsAtomic`
(`Spec => AtomicSpec`) and `ClosedRunsAreFrozen` (`FinalizedFrozen`). The requests of different pilots
still interleave at every step; what one request per pilot gives is that no two are about one run
(a run has one owner, and its owner one request). The invariant added to `IInv` is `RowsAreAsRead`: a
request in flight is the only one on its run, its run exists, and its unit of work is the one its operation computes from the rows
*as they are now*, with the guard still true of them. One lemma per operation then shows that `Apply` of that unit
is the assignment of the abstract operation (`AdvanceIsAtomic`, `PurchaseIsAtomic`, ...). A request
takes effect at its commit; reads, flushes and aborts are stutters. `SlotsAssumption` (finitely many slots) is
used to count a pilot's requests.

The four promises of the docstrings that two requests break then follow from the steps of the atomic ledger, on the rows of
`IInv`: `WriteOffIsOfTheUnsold` (`WriteOffSparesSale`), `WriteOffIsALoss` (`WriteOffBooksLoss`, with the invariant `NothingSold`: the sale of a
lost run stands for nothing, and nothing edits a closed run), `OneRecordPerLeg` (`RecordedOnce`) and `StampOfTheUnloadingStays`
(`UnloadedStampKept`, since an advance stamps only what is unset, `NextFieldIsUnset`).

## 4. The LLM gateway

`LlmGateway` is `app/server/llm_gateway_service.py`: which backend a chat goes to, what it
occupies there, and what brings a failed host back.

**State.** `inflight` and `down_until` are `HeketState`; `spent` is the hosted cost of today's
usage rows; `probe`, `serving` and `warmup` are where the probe task, the start-up and the
warm-up task are; `chat` is where each request is between `open_chat` and the end of
its body (phases of `ChatState`). `box` is heket, the preferred host, as it really is: up or
down, of the pinned build or not, with some models loaded. The code awaits between testing
the bench, asking the budget, being accepted by the host and recording the cost, so these
are separate steps; what lies between two awaits is one step, as on an event loop.

**Time.** The bench is a deadline in the code and `"past"`, `"soon"` or `"never"` here: a
failed chat benches for `DOWN_FOR_S` (30 s), a failed probe for good (`math.inf`). The probe
starts a round every `PROBE_INTERVAL_S` (15 s) and sets the bench anew at its end, so
`BenchExpires` is left to a probe that is dead, or slow in its second request. This timing is
an assumption of the model.

**Faults.** `Faults` says which happen: `"hang_up"` (a client disconnects before the first chunk
of its response, `PilotHungUp`), `"database"` (the budget cannot be read, or the usage row not
written), `"garbled"` (an answer to the probe that is not JSON) and `"restart"` (everything in
memory is lost, what was spent is not). The host comes and goes in every run (`BoxChanges`).

### Runs

| Run | Question | Result |
|---|---|---|
| `GatewaySafety` | Is the in-flight count exact (`InflightCounts`), and does the day's spending exceed the cap by no more than what was already allowed (`SpendBounded`)? With restarts, a flapping host and a dying probe | holds, 113,872 states |
| `GatewayRecovery` | With hang-ups and an unreadable database: is the count ever too low (`SlotsNeverFreedTwice`)? Does a host that stays healthy come back again and again (`WarmBoxComesBack`), does one that stays down or on another build end up benched for good (`DeadBoxIsBenched`)? | holds, 228,896 states |

**What does not hold.**

* `InflightCounts` with `"hang_up"` in the `Faults` of `GatewaySafety`: when a pilot hangs up while heket
  is still to answer, the generator that gives the slot back never starts
  (`llm_gateway_service.py:284`), and the slot is lost. Until a restart the host takes one chat fewer.
* `OverflowNeverRefused`, with `MaxInflight = 1`, a cap of one answer and no faults: an overflow that
  found the cap unspent and, at the second check, spent, is refused instead of queueing on heket.
* `WarmBoxComesBack` with `"garbled"` in the `Faults` of `GatewayRecovery`: an answer to the probe that is not
  JSON ends the probe task, and with it the only way back for a host benched without a deadline.
* `llm_max_inflight` does not bound the chats waiting for heket: the count is raised only when the host
  has answered the request's headers, so chats that arrive together all pass the test. A chat that
  tested the bench, then waited for the budget, may go to a host benched meanwhile; it fails there or
  queues, and changes no bench for the better.
* Two numbers of `docs/llm-gateway.md` differ from the code: `llm_max_inflight` is 2 there (:226) and 3 in
  `server/config.py:94`; the probe asks `/api/version` there (:166) and `/api/tags` in the code.

**Bounds.** `GatewaySafety`: three chats on a host for two, so that one overflows while both
slots are taken, and a cap of two answers, so that all three can pass the budget check
before it; `SpendBound` (6) is above all the spending these can reach. `GatewayRecovery`: two
chats on a host for one, two models so that a warm-up can be half done; spending past the cap
changes no decision, so one answer is enough (`SpendBound`), and one leaked slot closes
the host (`LeakBound`).

### Proofs (`LlmGatewayProofs`)

For any set of chats, any limits, cap and price: `SlotsAreCounted` (no hang-ups implies
`[]InflightCounts`), `NoSlotIsFreedTwice` (under every fault), `SpendingIsBounded` (while the
database answers) and `TypeCorrect`. The count of slots is the cardinality of the chats on
the host, so the invariant is about a set that gains or loses one member at each step. The
spending is not bounded by the cap alone: the inductive invariant is
that spending plus the price of every answer already allowed stays below the cap plus one
answer per chat. Liveness is only model-checked.

## 5. The clients of the ledger

`LedgerClients` composes `AtomicLedger`, taken as the server, with what calls it. That the
server is atomic is the assumption that separates the clients' races from the server's
(section 3): what fails here fails with a perfect server.

**State.** `call` is what each voice tool call (`Voices`) and each click (`Clicks`) has in
flight; `shown` the list the panel rendered last; `armed` its Write off buttons; `known` the
run ids ever given.

**A voice tool** reads the runs in progress (`Resolve`), decides by the milestone
that is next in what it read, and keeps of it the leg's id and the values the pilot did not
state. Then come its requests: one `advance`, or the loop of `catch_up_before_transaction`
(as many as the answers ask for, `AfterAnswer`) and the record. A request
may be refused or never arrive (`Fails`), or be done with its answer lost (`AnswerLost`);
either way the tool ends. Which run the pilot's words mean is any run in progress. The pilot
states all the details or none; each column is treated alike.

**The panel** offers the buttons its list calls for, however old the list is; it fetches
after a click that worked and when its tab is opened; a click that failed replaces the list by
a message. Clicks overlap, because no button is disabled. The fetch and the rendering are
one step: a list that arrives late is an old list, which `shown` may be anyway.

### Runs

| Run | Question | Result |
|---|---|---|
| `LedgerClients` | Do the clients keep the order the server does not enforce (`StepsInOrder`, `WriteOffStands`); and does a tool that nobody overtook stamp only what it is for and keep what was not stated (`UnracedToolDoesItsOwn`)? | holds, 934,538 states up to symmetry |

`record_purchase` and `record_sale` accept any unrecorded leg, and `finalize_run` any complete
run, so the first two properties rest on the clients alone. They survive stale reads
because milestones are never unset: what an old list has seen done is done. What a stale
view gets wrong is what is *not yet* done:

* `NoToolFinalizes`, with two voice calls and no click: the catch-up loop of one runs past the other's
  purchase, through loading, to done, although "FINALIZED_AT" is "the one milestone no AI tool is
  allowed to set" (`tools/trade_run/confirm_cargo_loaded.py:52`).
* `AbandonLosesNothing`, with one click: Abandon on a list from before the purchase deletes the run
  with it ("deleting the run loses no real progress", `trade_runs_panel.py:207`).
* With another call in between, a tool does not keep what the pilot did not state: `mark_cargo_acquired`
  sends back the fee it read before `update_leg_details` saved another. Therefore `unraced` in the property.
* The second click of a double click on Travel confirms an unloading on a manual sale, which
  `advance` cannot tell from a first one.
* The Write off button stays armed over a refresh, although the comment at `trade_runs_panel.py:428`
  says that any re-render disarms it (`armed` is not part of `refresh`).
* After a lost answer the pilot is told that nothing was changed (`uplink_tool.py:23`); the properties
  say that repeating it does no harm, the message itself is untrue.

### Proofs (`LedgerClientsProofs`)

For any number of runs, voice calls and clicks, any details: `TripIsInOrder` (`[]StepsInOrder`), `LossStands`
(`WriteOffStands`) and `OwnWork` (`UnracedToolDoesItsOwn`), all properties of the run. None is inductive, because what a
request does depends on a look at the ledger that may be long past. The invariant says what is left of that look:

* `Kept`: a request in flight is backed by milestones that are set *now*. A request on the sale has the pickup done; a
  record has the arrival; a finalize has a recorded sale and a run that is not written off.
* `ShownIsPast`: a milestone on the list is set in the ledger, and a run whose sale is shown as done has a
  recorded sale and is not written off.
* `OrderedRuns`: the milestones of *every* run are in order, a written-off one included (it has them all), and a sold leg is unloaded.
* `Mine`: a tool that nobody overtook holds the step that its rule gives for the row as it is, and the row's own
  values where the pilot stated none.

`Grows` is why the first two survive every other request: no request unsets a milestone, and a write-off refuses a
run whose sale is recorded. One lemma per operation of the server says which milestones it sets (`AdvanceDoes`,
..., collected in `RequestOutcome`). `AnswerFits` is the catch-up loop: the row in an answer puts the tool before the
record or another step of its own, never past the transaction, since a transaction is recorded only on a leg that was reached
and, for a sale, unloaded. `NextField` replaces the recursion-free search of `next_unset_field` by its cases. Assumed: details are naturals and a
transfer type, and a caller is not both a voice call and a click.

**Bounds.** One run: tools and clicks act on one run at a time, and a second one only adds the
choice the pilot makes. One voice call and two clicks, so that two requests of the panel and
one of the voice overlap; two sets of details that differ in fee and loading, the
loading being what changes the order of a sale.

## 6. The caches of UEX data

`UexCaches` is the server's cache of prices and routes, the hourly prefetch, the reference data, and
the calls of the day that all of them spend.

**State.** `calls` is the day's `uex_call_count`; `age` the time since `fetched_at` of each origin's routes;
`reference` the newest reference row by its day; `search` and `build` the lookups and rebuilds in flight;
`round`, `sleep`, `due`, `stopped` and `fetch` the prefetch and its fetchers. `dipped` and `passed` are
history: what the prefetch took from the reserve, and the origins it could not refresh; so is `lost`, its rebuilds that came to nothing
after calls were taken.

**Actions.** `Ask` spends and `Answered` stores, two steps with the answer of UEX in between, as in
`cached_routes` and `UEXCorpClient.before_call`. `AskReference` and `StartBuild` begin a rebuild, whose two halves
spend separately (`BuildCalls`) and whose row is one transaction (`BuildStores`). A fetcher of the prefetch looks at what is
left (`FetchOne`), spends in a later transaction (`FetchSpends`) and stores (`FetchAnswered`). `UexFails`, `Restart` and `NewDay` come at
any time.

**Time.** A tick is a third of the interval, 20 minutes: an interval is 3, `PREFETCHED_ROUTE_TTL` (75 minutes) 4, `_recent_enough`
(45 minutes) 2, in the order of the code's values. What is in flight ends within a tick, since every request has a timeout. In exact quarters of an
hour (4, 5 and 3) the run has 2,438,461 states, also without an error.

**Bounds.** Two origins, two fetchers (so that both can have looked before either spends), one lookup of a
pilot or of the refresh script, a rebuild of two calls in two halves, a cap of 9 calls with a reserve of 5: the reserve is larger than what the fetchers
and two rebuilds can take, so `ReserveLeftToPilots` does not hold for want of calls. Ages above `OldestAge` are told apart by nothing. 1,446,572 states, 142 s.

`UexCaches` (the run) checks `ReserveLeftToPilots`, `RoutesAgeIsBounded` and, under fairness,
`RoutesComeBack`. The first is a bound on what all the rounds and restarts of a day take from the reserve: a call for each
fetcher, and the calls of one rebuild of the reference, and once more of each rebuild that came to nothing. What does not
hold, and is refuted when added:

* `PrefetchStopsAtReserve`: "stops once today's remaining calls drop to [the reserve]" (`uex_route_prefetch.py:9`). The round
  begins with the reference (`:51`), and a rebuild of it spends its two halves (`client.py:107`, `:139`) without a look at
  the reserve. With fewer calls left than the second half costs, the rebuild fails after the first half, and every hourly round
  spends that half again, all of it the pilots'.
* `RoutesStayFresh`: "Keeps every trade terminal's routes cached" (`uex_route_prefetch.py:1`), with a TTL that
  outlives "one interval plus the run itself" (`price_cache.py:21`). A round after a restart passes
  over rows up to 45 minutes old, and the next is an hour away: they are expired for up to half an hour.
  What does hold is `RoutesAgeIsBounded`, an interval and 45 minutes.
* `CachedReferenceIsServed`: "only a lookup with nothing cached at all gets a 503" (`docs/llm-gateway.md:421`).
  An expired reference row is not served when the calls are used up.
* With a cap smaller than a rebuild and a round, the terminals at the end of `due` are the ones that are never
  refreshed, since each round starts with the same ones.

### Proofs (`ServerDataProofs`)

`TypeCorrect` (the calls of a day stay within the cap and its margin), `ReserveIsLeft` (`ReserveLeftToPilots`) and `RoutesAreYoung`
(`RoutesAgeIsBounded`), for any cap, reserve, times, origins, requests and finitely many fetchers. For the reserve
(`DipsAreOfTheTold`): the calls taken from it and the fetchers that were told there is more, and have not yet spent, are together no
more than the fetchers, a rebuild for each that was lost, and what the round's own rebuild has paid so far; once one was taken, nobody is told so again
that day, and a second rebuild begins only after the first was lost or has stored the reference of the day (`PaidForRebuild`, `DoneBeforeToday`). For the ages (`AgesAreOfOneSleep`): a route that was not
passed over is recent at the end of a round and ages with the sleep; during a round it is recent, on the list, or being fetched. Assumed
of the configuration: `RecentEnough` is positive and below the interval, the interval below the TTL
(`config.py:58`, `uex_route_prefetch.py:46`), a rebuild costs at least one call.

## 7. A turn of the conversation

`ConversationTurn` is the loop of `voice/__init__.py` around the graph of `graph.py`, over several turns of one session.

**State.** `messages` is the thread; `graph` the other fields of `State` that outlive a turn; `node` the node that
runs; `steps` counts nodes against LangGraph's limit; `prompt` is what the reply model was sent while its
answer is awaited. A message is its type, its calls, and what the code looks at in its text: whether it
is empty, asks something, is too long to be spoken, or was left out of an older turn. `judged`, `recorded` and `rejected` are history.

**Actions.** One per node (`classify_topic` with its fallback, `respond` before and after its await, `ToolNode`,
`social_reply`, `decline_topic`), `route_start` and `route_topic` as guards of the edges, `TurnFails` at each call that can fail,
`TooManySteps`, `HostRefuses` for a hosted model that refuses a call without its result, `_announce_failure`,
`Speaks`. Two steps of the loop are outside of its `try` and may end it (node `"stopped"`, of which `on_fatal` tells the pilot): the
playback of the reply (`voice/__init__.py:133`, in `Speaks`) and a recording or speech model that raises (`:98`, `ListeningFails`). Models, tools and services answer anything that the code tells apart. The windows of the history are the code's
function `_windowed_history` on whole threads.

**Bounds.** Three turns with windows of 2 (reply), 1 (whole tool results) and 1 (classifier): the third turn is the
first whose window leaves one out. Four nodes a turn, so that a second round of tools meets the
limit. One tool that records and one that does not, alone and together in one answer.

`ConversationTurn` (the run, 2,308,601 states, 75 s) checks `PromptIsSound`, `SkipFollowsTopic`, `BrokenCallIsForgotten` and
`FailedTurnIsNeverLast`: every turn ends, and one that failed ends with the loop listening, also when its failure cannot be announced. Deadlock is
not checked, since the loop may have ended. `AlwaysListensAgain` is refuted: "One broken turn used to end the voice loop", says
`voice/__init__.py:126`, and now "ALICE listens again"; a reply that cannot be decoded or played, or a speech model that raises, still ends it.
`FailureMeansNothingRecorded` is refuted: a tool that has recorded a sale, and then a reply model that
fails, make the pilot hear that it "didn't go through", although each line "never implies anything was
recorded" and says that the request did not go through (`voice/failure_lines.py:5`).

### Proofs (`ConversationTurnProofs`)

For any number of turns, windows of any size, any calls in an answer and any limit of nodes: `TheModelIsToldTheTruth` (`PromptIsSound`), `OnlyATopicIsContinued`
(`SkipFollowsTopic`), `NoCallBreaksTheSession` (`BrokenCallIsForgotten`) and `SessionTypesHold` (`TypeOK`). The thread outlives its turns, and a
turn may fail after any of its messages, so what the next turn finds is part of the invariant:

* `Thread`: the thread begins with the pilot, and every result stands behind the message that called for it with nothing but results of the
  same message in between. A window begins with a line of the pilot's, so it never cuts a result off from its call.
* `NodeInv`: what the model was sent is still the window of the thread when its answer comes, since only the turn writes to it.
* `TopicInv`: a turn that has not passed the topic check has asked the pilot nothing; one that was declined has left `on_topic` and the
  pending confirmation unset. Without the first half the property is not inductive: a turn that fails before it is judged would leave the
  question of the one before it to be answered.
* `GraphInv`: the runs and tool groups kept from earlier turns carry the turn they are of, and are not taken for this turn's.
* `RefusedInv`: the turns refused since a call was left unanswered are no more than the pilot's lines after it, so that the window has passed
  over it when there are as many as it holds.

`PromptIsSound` then is a fact about `_windowed_history` on threads of that shape, by counting the pilot's lines from the end. `IInv` was checked
by TLC on the states of the run before it was proved. Assumed: every window keeps at least one turn, and there is a step and a turn
(`WindowAssumption`); an answer calls tools that exist (`AnswersAssumption`).

## 8. Login

`Login` is one installation of the client with its browser and the server's half of Discord's login. A login is
the number of its tab, which is also its `client_state` and the name of the token it may bring.

**State.** `cache` is `identity.json`; `age` how old each token is; `lock` the holder of `_relogin_lock`; `at`, `sent`, `login` where each
client is (the requests and the start-up check); `listening` the local listeners; `tab` the tabs;
`pending`, `lapsed`, `users` the server's.

**Actions.** A request is `Send`, `Answered`, and after a 401 `Acquires`, then `TakesToken` or `LogsIn`, then the retry.
`Redirect` gives the browser's redirect to any listener, as a shared port does; where ports cannot
be shared (`MayShare`), a second listener fails. `Callback` uses the nonce up whatever comes of it. The pilot abandons a
tab, Discord refuses, nonces lapse, the server restarts and forgets its pending logins, a request with a time
limit is cancelled (`Cancelled`; its thread goes on waiting for the lock, as `asyncio.to_thread` does: `GhostAcquires`).

**Bounds.** Two requests, one with a time limit, and the start-up check; three tabs, one for each; one
restart. Deadlock is not checked: a session ends when its requests have.

`Login` (the run, 50 s) checks `OneLoginPerRejectedToken`, `OwnLoginOnly` and `RejectedRequestsEnd`. `ActedOnce` and `LockHeldByLogin` hold
when added. Refuted are two (below).

### Proofs (`LoginProofs`)

For any number of requests, tabs and restarts: `OneLogin` (`OneLoginPerRejectedToken`), `NeverTwice` (`ActedOnce`), `LockIsAtWork`
(`LockHeldByLogin`), `OnlyOwnLogin` (`OwnLoginOnly`) and `TypeCorrect`. The invariant: a token that was
replaced has left the cache for good, and a request logs in only for one that was not (`ReplacedIsGone`); that holds because whoever looks
at the cache or logs in holds the lock (`LockIsExclusive`), a login has one client (`OneClientPerLogin`), and no token is issued
twice, the tab that brings it being closed from then on (`IssuedOnce`). Assumed: a name of a request is
not the name of the start-up check or of nobody.

### What does not hold

* `CancelledDoNotBlock`: a request cancelled while its thread waits for the lock leaves a thread that takes
  the lock and never releases it (`discord_identity.py:245`: the `acquire` is outside the `try`, in a thread that a cancellation
  does not reach). Every request that meets a 401 afterwards waits until the app is restarted.
* `OneBrowserTab`: "opens one login no matter how many requests failed at once" (`discord_identity.py:34`) holds for
  tokens, not for tabs: the login of the start-up is not behind the lock, and a failed login leaves its tab behind.

## 9. The search tools

`SearchTools` composes `NameMatching` (names and catalogue), `Locations` (places and regions), `CargoPacking` and
`TravelTime`, which hold pure operators, with the searches that use them.

**What is abstracted.** `terminals_near` sorts its terminals closest first, a place is also looked up by a few aliases, and the best-route tool hedges on a
commodity or region it is not sure of; none of these changes what a property looks at, and they are left out. A spoken name is a *hearing*: how it compares with every entry of the catalogue, on each layer of
the matcher. The edit and metaphone distances are not computed; every combination of their results
is considered. Distances lie on a line; a ship has one speed.

**State.** `world` is what is said, what UEX has and what it fails at; `cached` the origins with a fresh row; `search`
the search that runs, with what it has to fetch; `reply`, `tokens` what the pilot was told.
`BestRoute`, `TradeAdvisor` and `PriceLookup` start, `FetchEnds` and `Expires` change the cache under them, `Reports` ranks and answers.

**Bounds.** A catalogue of 17 entries with twins of every kind; 7,812 worlds, in each of which one kind of name is
heard in every way and the others exactly; one live fetch per search, so that a search leaves origins
out, and two searches, so that the second can widen. `MAX_CHECKED` is 3, where the code has 4: some names then
have more candidates of one score than are checked. 44,616 states.

**A stable sort is an order here.** The code sorts candidates by score and takes the first few; `Before` is the order this puts them in (score,
then the order they were found in, `Turn`, then the catalogue), `Leading` the first of them and `FirstOf` the first few. Compared with the sorted
sequences on 5,508 worlds and every action, for `MAX_CHECKED` 2, 3 and 4, the results are the same.

`SearchTools` (the run) checks `NamesDecideNotOrder`, `LoadIsFullest` (the packing against a reference that
tries every fill), `BestIsBest` and `SearchesWiden`. `ExactRegionWins` holds when added. What does not hold, or was met while modelling:

* `OneShip` is refuted: `estimate_travel_time` gets the pilot's words and resolves them among all
  vehicles (`route_ranking.py:260`), while the hold was taken from the cargo ships. The time can be another ship's.
* `StillTheBestCall` is refuted: `trade_advisor` ranks by profit by default and compares the winner's profit per
  hour with the committed run's; "By profit per hour, … still the best call" can be said although another
  destination earns more in the hour.
* `_contained_matches` keeps two rows of one name, so that a hedge can offer "A or A".
* `catalog_resolution`: a weak top match with a weaker second is committed to where alone it would be hedged; a best
  match by letters that nobody sells is passed over for a lesser one, where a best match by name is answered
  with "no terminal sells it"; four unsold liveries hide a sold fifth (`MAX_CHECKED`).
* The names do not decide alone when more candidates fit equally well than are checked: the catalogue's order picks those whose
  prices are fetched (`catalog_resolution.py:165`). The proof of `NamesDecideNotOrder` failed there; the property now asks that what is left out
  fits worse (`WorseLeftOut`).
* `reachable_scu` with no common container size is the full capacity, with no box and no loading time.
* "Ask again and I'll widen the search" (`best_route_tool.py:347`) does not hold while the first eight uncached origins
  keep failing: they stay first in line. The property therefore asks for one that does not fail.
* "Fewer, bigger boxes" (`cargo_packing.py:48`) is not the fewest: 48 SCU in {8, 24, 32} is 32 + 8 + 8.
* `travel_time`: a jump is charged its spool for a trip to the same place, and inside a gateway's radius,
  although line 192 says that nobody spools there; the confidence "unknown" is never returned, and "high" is also returned for the
  coarse distance between orbits.

### Proofs (`VoiceProofs`)

For any catalogue, any rows, holds, container sizes and distances, any way to hear a name, any number of origins and fetches:

* `LoadsAreFullest` (`LoadIsFullest`), from `PackableIsFullest` and `MixAddsUp`: the table that `max_packable_scu` fills is, at every
  capacity, the most that any mix of boxes holds, and the walk back through it ends in boxes that add up to it. A fullest mix has a last
  box, and without it fits a smaller capacity; a capacity where this fails would have a smallest one, and has none (`OneIsSmallest`).
* `TheBestComesFirst` (`BestIsBest`): one pass keeps the best and the best of the rest (`ThePassKeepsTheBest`), because `Beats` is an order
  also by profit per hour, where quotients are compared by cross-multiplication (`BeatsIsAnOrder`).
* `SearchingAgainWidens` (`SearchesWiden`).
* `NamesMeanWhatIsHeard` (`NamesDecideNotOrder`): each layer of the matcher, applied to a hearing in which two entries are exchanged, finds
  the exchanged entries. Among things, the candidates of the exchanged hearing are a mirror image of the others, and counting who is ahead of whom shows that
  the mirror image of the checked ones is checked; a lead of `CONFIDENT_MARGIN` has one leader, so the winner is mirrored too (`ThingsSwap`).

The invariant of the searches is `SearchInv`: the world is one of `Worlds`, a search that runs holds a ship with a hold and rows of that world,
an offer holds candidates for the hold of its ship. `MeantInv` adds that what a price was looked up for is what the words mean. Folds
and sums are unfolded as functions on the lengths they run over (`FoldGoesLeftToRight`, `SumAdds`), and each induction is
the search for a least counterexample in a set of naturals. Assumed (`CatalogueAssumption`, `CheckedAssumption`, `TravelAssumption`,
`FetchesAssumption`, `WorldsAssumption`): ships have natural holds and integer speeds, the limits are positive, a hearing compares with every entry,
rows have positive box sizes and finitely many of them, and a search starts only for rows the world has.

## 10. Push to talk, recording and timers

`VoiceClient` is the pilot's end of the voice: the flags that listeners set, the recording loop, the sticks, the microphone, the
speaker, and a thread per timer.

**State.** `_pressed`, `_released` are the two events; `held`, `devices`, `ptt` the buttons; `loop` where `record_until_release` is; `stream`,
`mic`, `playing` the audio; `timers` the table, `threads` each timer's thread. `capture` and `outcome` are history.

**Actions.** The two `clear()`s are two steps (`ClearsPressed`, `ClearsReleased`), since the listeners run on other threads. A
timer's thread looks at the table and deletes from it in two steps (`Looks`, `Deletes`), and so does the cancelling tool
(`MatchesLabel`, `CancelTimer`). `sd.play` stops whatever is playing. What Whisper hears is a choice; it may also raise (`WhisperFails`), as may the
playback of the reply (`PlaybackFails`), and either ends the loop, since both are outside of its `try` (`voice/__init__.py:98`, `:133`). It is assumed that SDL lifts the
buttons of a stick before it reports it gone.

**Bounds.** Two twin sticks that come and go and a keyboard, two presses (the second during or after the first's
recording), three changes of sticks or microphone, two timers under one label, so that one takes the label over. 1,466,593
states, 112 s. Deadlock is not checked: voice may have stopped.

`VoiceClient` (the run) checks `TimersSpeakTrue`, `CaptureIsTheHold`, `DeafOnlyWithoutMic` and, under fairness, `PressIsAnswered`.
`DeafOnlyWithoutMic` says what ends voice: until the speech model has the recording, only a microphone that is missing or that went away in
mid-recording; after that only a speech model that raises or a reply that cannot be played, and no button, stick, timer or cancelled label.
`OnlyTimersInterrupt` holds when added. "Records while held" (`voice_input.py:232`) is true but for the
cases that `CaptureIsTheHold` names: a button held over, or tapped, while the flags are cleared; one pressed again
before its release was seen; a twin with the same ordinal. Refuted when added:

* `TwinsAreTold` (`hotas.py:18`): after the first of two twins is unplugged and plugged in again, both have the same ordinal.
* `RunningTimersFire`: a timer whose label is given to another between its look and its `del` can take the other's
  entry with it, and the other is silent.
* `TurnsNeverEndVoice` (`voice/__init__.py:126`): what is outside of the `try` of a turn ends the loop.
* `HeardToTheEnd`: a chirp, a reply or another timer cuts an announcement off.

### Proofs (`VoiceProofs`)

All three safety properties of the run and `OnlyTimersInterrupt`, for any number of sticks, presses, changes, timers and labels: `TimersTellTheTruth`
(`TimersSpeakTrue`), `RecordsWhatIsHeld` (`CaptureIsTheHold`), `OnlyMicSilences` (`DeafOnlyWithoutMic`), `RepliesAreNotChirpedOver` and `VoiceTypesHold` (`TypeOK`).

* Capture (`ButtonInv`, `StreamInv`, `CaptureInv`): a release that is seen while listening is of the press that is recorded
  (`ReleaseIsOfAPress`), and a press that has no release is of a button that is down (`PressIsDown`), but for the races the property names. While one press is
  all there has been since the flags were cleared, at most one button is down.
* Timers (`TimerInv`): the table holds one running timer for each of its labels, and a thread that sleeps finds its own entry there
  (`EntryIsOwn`), unless an entry of its label was lost to a thread that had looked before it was made (`Taken`).

`EntryIsOwn` was not inductive at first, with two labels: the model's `StartTimer` marked the timers of other labels as restarted, which the run,
with its one label, could not show. The model is corrected.

## 11. The Route Search tab

`RouteFilters` holds the map of reachability, the narrowing of the lists and the search itself, as operators.
`SearchPanels` is the filter panel and the results panel on one event loop.

**State.** `text`, `toggles`, `levels`, `cargo_input` are the fields; `seen` what the lists were last narrowed by; `map` the reachability map,
`server` what UEX has now; `queue` the callbacks; `searches` and `fetches` what waits for the server; `panel` and `shown` the results.

**Actions.** A slot that is a coroutine is queued and runs later (`StartsRefresh`, `Narrows`, `Applies`, `StartsSearch`, `SetsRoutes`), with the pilot's edits,
sorts and clicks in between. `MapAnswered`, `Finds`, `FailsToFind`, `VolatilityCame`, `TimesCame`, `FetchFails` are the server's answers, in any order.

**Bounds.** Three terminals in two systems, two commodities, four markets of up to four routes; every setting of the filters for one search,
and a pilot who edits and sorts while two searches run. One route is displayed, so that sorting changes what is
shown. 731,468 states, 118 s. Deadlock is not checked: the pilot's clicks are bounded.

`SearchPanels` (the run) checks `FiltersFollow`, `FoundIsWhatWasAsked`, `FiltersHideNothingFound` and `RowsAreOfLastSearch`; `ButtonComesBack` holds
when added. Refuted when added, or met while modelling:

* `FailureIsTold`: `filter_panel.py:565` catches an exception of `requests`, but the calls are `httpx`'s: a search that fails
  ends in silence.
* `ShipIsOfTheSearch`: "ship name at time of search" (`filter_panel.py:93`) is the one in the field when the answer comes; the canvas's Add takes
  the cargo of the search and the ship of now.
* `LoadingIsLoading`: a time that is shown as loading, after its fetch failed or after a sort, is not being loaded.
* `OneSearchAtATime`: a second click that is queued before the first has disabled the button starts a second search.
* "The filters and the results can't disagree" (`reachability.py:10`) holds only with a map as new as the rows; the properties say so.
* The Reset button (`filter_panel.py:290`) is connected to nothing; a late re-render overwrites a rejection's message; a new map does not narrow the
  lists again; typed text is read where a comment says that only what was selected is.

### Proofs (`SearchPanelsProofs`)

All four properties of the run, for any catalogue of rows, any regions, ships and texts: `ListsFollow`, `SearchFindsWhatWasAsked`,
`NothingFoundIsHidden` and `ResultsAreOfLastSearch`. The invariant says of everything that is on its way what it is on its way *from*:
`Refreshed`, that when the lists are not those of the fields a refresh is queued or has begun; `SearchesAsk`, that a search in flight asks for the commodities
its map names for what was asked; `FetchesAreRanked`, that a fetch belongs to a ranking of routes the panel was once given. That no route found is hidden
is about operators only: every bound by which `RouteFilters` narrows is met by the row of the route itself. Assumed: the rows are
typed and no row goes from a terminal to itself (UEX sends no such route), holds are naturals, there are
finitely many terminals. That the panel shows no more than `DISPLAYED_ROUTES` rows is only checked.

## 12. Voice, prompts and wiki data on the server

Three sources with something to fall back on. They share neither state nor calls, so `MCServerSources` lets one of
them work in each behaviour (`works`) and keeps the other two as they start.

**`Speech`** is a pilot's sentences on the way to Kokoro or ElevenLabs, behind the window and the daily total. `call` is where each
request is, `bench` the ticks to `down_until`, `events` the limiter's deque, `chars` the daily counter. A tick is 15 s: heket
hangs for one, ElevenLabs for two, a bench is two, the limiter's window four. Two sentences are in flight, so that a slow failure meets a
fast success; four requests a window, so that the window fills over several ticks. `WindowHolds` and `HeketComesBack` are
checked; `RefusedOnlyAfterTrying` holds when added. "Every attempt that reaches a backend writes one tts_usage row"
(`tts_service.py:11`) is not so for a timeout; a slow failure benches the box that another sentence has just found well (`:86`), for one
bench, which is what `HeketComesBack` bounds; and a request refused by the daily total has used its place in the window.

**`Prompts`** loads three prompts one after the other. `messages` holds them by release, `hub` is the Hub's release. A pull runs in a thread, so the
Hub may move on before its answer is stored; a refresh is per prompt, so a request between two stores sees prompts of
two releases. `PromptsStay` is checked; `EveryPlaceholderExpands` holds when added.

**`WikiCache`** has the server's rows, one process with its caches and locks, two lookups in it, and the refresh script, across one patch of the
game. A tick is a day. Checked is `PatchReachesTheServer`: a day after the patch the server serves nothing from
before it, whatever was stored in which order. `AskedOnce` and `LookupsEnd` hold when added. What does not hold:

* `PatchReachesThePilots`: `refresh_static_caches.py:4` has pilots see old data "for up to a day", but what a process was told
  stays as long as it runs.
* A lookup that asked the wiki before the patch may store after the script has: the old data is fresh for another
  day. A ship that the wiki does not know is a miss for a whole day. One ship that fails ends the whole script.

`ServerSources` (the run) has 211,968 states. Deadlock is not checked: the server may fail to start without a snapshot.

### Proofs (`ServerDataProofs`, `VoiceProofs`)

* `Prompts`, for any list of prompts and number of releases: `PlaceholdersExpand` (`EveryPlaceholderExpands`) and `PromptsNeverSetBack`
  (`PromptsStay`). The invariant (`PromptsInvariant`): what is left of a refresh is the end of its list, and what has been pulled and not yet
  stored is at least as new as everything loaded, since one refresh runs at a time.
* `WikiCache`, for any ships, lookups and lifetime: `PatchIsServed` (`PatchReachesTheServer`) and `OneAskPerKey` (`AskedOnce`). The invariant:
  an answer from before the patch is stored within a day of it, a row from before it that is still served was stored no later (`OldIsOfBefore`), and
  whoever asks the server holds the lock and found nothing in the process's cache, which nobody can have filled since
  (`AskersHoldLock`). Assumed: the key of the locations is not a ship's name (the two kinds have tables of their own).
* `Speech`, for any sentences: `RefusedAfterTrying` (`RefusedOnlyAfterTrying`); an engine that is asked later knows who failed before it. `NoWindowIsTooFull`
  (`WindowHolds`, with any window and limit): the deque is in the order of its requests, and those of the last ticks are a suffix of it as long as what was
  admitted in them (`WindowInv`), so that dropping the old ones from its front and refusing at its limit bounds every placement of the window. The
  proof found a conjunct of `Popped` that belonged to another; the model is corrected. Assumed: the window is a positive number of ticks and the limit
  a natural (`LimiterAssumption`). `HeketComesBack` is only checked.

## 13. Fairness, and what is assumed

**Safety only:** `Ledger` and `LedgerClients` (the server promises no progress to a request, and a pilot may walk away) and
`SearchTools`, `SearchPanels` (their properties are about what is found, not when; the fairness of `SearchPanels`, of queued callbacks
and of requests under a timeout, is for `ButtonComesBack`).

**Fairness, always of the program and never of people or faults.** `LlmGateway`: weak fairness on the probe's steps (a task in `while True`
with a fixed sleep), on `BenchExpires` (a clock), on each chat's steps and on the warm-up (every await has an HTTP timeout). `UexCaches`: on
the rounds of the prefetch, its fetchers and rebuilds, on answers, ticks and days; that nobody searches, nothing fails and nothing
restarts any more is the premise of `RoutesComeBack`. `ConversationTurn`: on the turn, since every call in it ends in an answer, an error or a
timeout, and the playback of a reply in its end or an error; the pilot need not speak and nothing has to fail. `Login`: on each request, the start-up and the server's own steps, strong on taking the lock (a
`threading.Lock` that is released again and again does not pass over a waiting thread for ever); not on the browser, tokens' ages and cancellations.
`VoiceClient`: on the threads, the end of playback and the release of a button that is held. `Speech`: on ticks and on the
end of each request; `WikiCache`: on each lookup, strong on the lock (`asyncio.Lock` is first come, first served).

**What the proofs assume** are the `ASSUME`s of the modules, evaluated by TLC in every run; the sections above name those that a
proof uses. Beside them, `LlmGatewayProofs` takes the chats as finite and limits and prices as naturals.

**What is only checked.** Liveness, since no prover here reasons about fairness: `WarmBoxComesBack`, `DeadBoxIsBenched`, `RoutesComeBack`,
`FailedTurnIsNeverLast`, `RejectedRequestsEnd`, `PressIsAnswered` and `HeketComesBack`, and of the properties kept in the modules `ButtonComesBack` and
`LookupsEnd`. So are `ExactRegionWins`, which restates the order of the tries, and that the panel shows no more than `DISPLAYED_ROUTES` rows.
Inductions are not made with the library's theorems, whose hypothesis is an operator the provers here cannot instantiate: a least counterexample of a set of naturals is
taken from the well-founded order instead (`WFMin`, in `LoginProofs`, `ConversationTurnProofs` and `VoiceProofs`).

**How the proofs are related to the runs.** Each inductive invariant was model-checked on the instance of its run, those of `VoiceClient` with two labels as well. A
theorem that names a property of a run states it for all values of the constants; the run shows on a small instance that the property
has something to say, and its mutants that the model can break it.

**Type invariants.** Every module with state but `SearchTools`, whose state is made of operators' results, has a type invariant. Those of
`Ledger`, `LlmGateway`, `Login`, `UexCaches`, `ConversationTurn` and `VoiceClient` are proved; the others hold when added to their runs.

## 14. Not modelled

* **Launcher** (`launcher/`): a Qt window over a settings file, in a process that starts the others; its sign-in is
  `Login`'s. Read, and not modelled: `_on_start` catches `StartupError` only, so another exception leaves the window between its states; a Start that is
  queued twice builds two overlays and two voice loops; a key captured late goes to the capture that was opened since.
* **The rest of the overlay**: how rows are drawn, themes, hotkeys, window handling, the finalized-runs panel (it only reads).
* **Of modelled components**: titles and durations of trade runs, the translation between the chat formats, the warm-up of the topic
  model, `sign_out`, edit and metaphone distances, the acceleration profile and fuel of a ship, how answers are worded, audio and earcons,
  the download of the speech model. They are data or presentation, or change no state that a property is about.
* **Client plumbing** (configuration, logs, metrics, schemas, spelling of transcripts), **migrations** (run offline, once), the
  **harness and evaluations** (test doubles and scored conversations), **packaging and the Kokoro host**: no protocol whose interleavings or
  failures a model would explore.
