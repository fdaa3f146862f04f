# A verification development of the verifiable exchange

This directory models the exchange of `src/services` and the anchors of
`src/anchor` in TLA+, model-checks the models with TLC on small instances, and
proves safety properties of the exchange, its ledger and database, the
validators and the inbox with TLAPS for every instance. `PROJECT.json` maps each definition to the lines it
translates, and lists the runs, the mutants of the code that each property
detects, the hazards and the findings.

## 1. The system

A *sequencer* puts every submitted order into one numbered, hash-chained and
signed log. An *exchange* reads the log and executes it deterministically, so
anybody who has the log can rebuild the exchange's state. Around the two stand
services that make lying visible.

| component | state it keeps | operations | how it meets the others |
|---|---|---|---|
| sequencer (`feed.rs`, `feed/`) | log, chain, Merkle nodes, session, accounts' pinned keys and nonces, inbox cursor (SQLite and a window in memory) | publish a batch, serve pages, heads and proofs, drain the inbox | signs heads; read by polling |
| inbox (`inbox.rs`) | entries and their status, pinned keys, epoch | submit, serve pending entries, mark an entry | drained by the sequencer, which marks what it sequenced |
| drain (`feed/drain.rs`) | in memory only: the inbox's epoch, records of entries that failed, the page and the marks in hand | take a page, have it sequenced, mark entries | a task of the sequencer's process; calls the inbox over HTTP |
| message generator (`feed/generate.rs`) | the orders it believes to rest, the last price of each market, counters; none of it on disk | a tick: take an order back, take the best one, or quote; read itself back at a start | a task of the sequencer's process; sees no book |
| exchange, matching (`matcher.rs`, `matcher/`) | books, index by order id, positions, trades, listings, rule set, operator key | New, Cancel, ListSymbol, DelistSymbol, EngineRule | executes one message at a time under one lock |
| reference price window (`matcher/reference_price.rs`) | samples of the mid and two running sums per symbol | observe, answer, restore | asked for the collar of a market order; the checker keeps its own |
| ledger (`ledger.rs`) | available and reserved balances, reservations, last sequence | reserve, settle_fill, release, finish_sequence, snapshot | called by the matching steps, unwrapped with `expect` after a preflight |
| poller and state database (`matcher.rs` Poller, `store.rs`) | runs with owner, epoch, heartbeat, session, rows, claims; the published state | open, claim, resume, reset, poll, commit, publish, replace, pause, finish | SQLite shared by successive or competing processes |
| validator (`validator.rs`) | followed session, pinned key, position, chain, dispute (SQLite row and memory) | ingest an answer, save, attest, clear a dispute | polls the feed; polled by the exchange for a quorum |
| quorum of the exchange (`matcher.rs`, `matcher/`) | quorum mark, last chains, key pinned per URL | a round of questions, conclude, survive a commit | asks validators while the poller commits |
| checker (`verify.rs`, `verify/`) | none that lasts | re-execute a log with rules written a second time, compare rows | reads log and rows |
| audit (`prove.rs`) | none that lasts | read a remote exchange request by request, re-execute, compare claims, trades and anchors | reader of everything published |
| anchors (`src/anchor`, `anchor.rs`) | a contract's anchored positions, pending transactions | read and check, send, land | the sender reads contract and exchange; the audit scans the contract |
| Merkle tree (`merkle.rs`, `feed/tree.rs`) | the hashes of the perfect subtrees, in the sequencer's database | append, root, inclusion and consistency proofs, verify, rebuild, compare | written in the transaction of a publish, checked at a start; the audit walks it |
| hash chain, operator key (`logchain.rs`, `operator.rs`) | - | extend, sign, verify | used by all |
| bot, embedded engine, transport, user interface | - | clients and formatting | - |

What is hard here: two processes on one database and their interleaved SQLite
transactions; a crash between any two of them; a feed that answers wrongly, is
replaced or loses its end; plans computed on copies and executed later with
`expect`; orders that stop half way on an integer overflow; a restart that must
rebuild byte for byte the state a claim was signed for; listings that come and
go under resting orders; an inbox and a sequencer that keep two databases in
step by retried marks, while the front door, the operator and the generator
write to the same log and either database may be lost; rules, and a price
window, that are written twice and must agree; observations that are made
while the state they concern is being committed and swapped; a market maker that guesses
what rests in books it never reads; readers that assemble one view from many requests to a service that goes on.

What makes each part correct:

- ledger: assets add up to their funding, reserved units are exactly what live
  orders are owed, `release` never fails, no step creates value;
- matching: books never cross, price-time priority, fill-or-kill is atomic,
  positions balance and account for every unit of cash, a refusal leaves no
  trace, no `expect` fails, a restart rebuilds the live state;
- price window: the running sums answer as the walk over the samples does, in
  a restarted process too, and the checker reads the same price;
- poller and database: one writer per run, claims chain without a gap, nothing
  published that is not durable, no mixture of two histories;
- sequencer, inbox and drain: histories only grow at the end, no account's nonce
  stands twice in one, memory is what a restart would read, every mark the
  sequencer signs is true, and an entry that nothing speaks against is
  sequenced and confirmed;
- validators and quorum: what is attested was signed by the feed, an honest
  validator never vouches for two histories of a session nor accuses without a
  fork, a saved dispute stands, the mark is backed by enough validators and
  does not get lost in a commit;
- generator: its list is what rests in the books, no account of it trades with
  itself, it cancels only what it sent;
- checker: it accepts what the exchange wrote and no other rows;
- audit: an honest exchange is not accused within the view, and an audit that
  found nothing means that the record stands;
- anchors: they are one growing history however late transactions land, and no
  transaction contradicts what its sender had read;
- Merkle tree: whatever was done to the database while the sequencer was down,
  it signs the tree of what it published or does not start; a reader whose walk
  over the nodes finds no fault can be served every proof; nothing false can be
  proved.

## 2. Modules

| module | models | notes |
|---|---|---|
| `SpotLedger` | `ledger.rs` as operators on a ledger value | `Can...` are the checks before the mutation boundary, `After...` the ledger left; used by `Ledger` and `Exchange` |
| `Ledger` | the ledger as a state machine | one action per public operation, called in any order by a caller that may be wrong; an `Err` leaves the ledger as it was and is no step |
| `MarketTheorems` | lemmas about the operations on one ledger, one position and one book | cited by the two modules on the ledger and the exchange, see section 5 |
| `Ledger_proofs` | theorems about `Ledger` | see section 5 |
| `DataTheorems` | lemmas about sums, extrema and prefixes | cited by the proof modules, see section 5 |
| `Positions` | `Position::after_fill` | cash, cost basis and locked-in profit, integer width `MaxInt` |
| `OrderBook` | steps 2 to 6 over one book | books are price -> queue maps per side |
| `Exchange` | `apply_inner` and every handler | extends the three above; each action is one message handled whole, to `finish_sequence` |
| `ExchangeProperties` | the promises, and `restore` | `Restored...` build the state from the recorded rows and trades the way `MatcherState::restore` does |
| `Exchange_proofs` | theorems about `Exchange`: books, trades, accounts, restarts, funds, limits, refusals | see section 5 |
| `Checker` | `verify.rs`: the matching rules written a second time | one operator per kind of message; shares no operator with `Exchange` |
| `CheckedExchange` | exchange and checker side by side | the checker reads the same messages and the rows the exchange writes, or rows a dishonest operator wrote |
| `MidWindow` | `reference_price.rs`: samples and running sums of one symbol | actions `Push`, `Replace`, `Repeat`, `Restart` |
| `MidHistory` | the checker's window | shares no definition with `MidWindow` |
| `ReferencePrices` | both windows told the same mids | |
| `Window_proofs` | theorems about `MidWindow` and `ReferencePrices` | see section 5 |
| `RunHistory` | the abstract database: an append-only list of runs | the specification that `DurableRuns` implements |
| `DurableRuns` | `poll_feed`, `Poller`, `Store`, `open_state` | one action per SQLite transaction or local step of a process |
| `DurableRunsProperties` | the promises, the refinement, what comments say | |
| `Durable_proofs` | theorems about `DurableRuns` | see section 5 |
| `Submissions` | what an account signs, `validate_submission`, the pin rule | shared by the two services |
| `Inbox` | `inbox.rs`: submit, pending entries, mark | operators and steps over the one variable `inbox` |
| `Sequencer` | `feed.rs` (start, `sequence`), `feed/http.rs`, `feed/generate.rs`, `feed/retention.rs`, `feed/db.rs` | steps over `file`, `feed`, `histories` |
| `Intake` | `feed/drain.rs`, composed with `Sequencer`, `Inbox` and their clients | extends both; its `Next` is the whole |
| `SubmissionLog` | the abstract log: numbered histories and true confirmations | the specification that `Intake` implements |
| `IntakeProperties` | the promises, the refinement, what comments say | |
| `Intake_proofs` | theorems about `Intake` | see section 5 |
| `Validator` | `validator.rs`: what one answer of the feed does | operators on a validator's state |
| `Witnesses` | feed, validators with their databases, and the exchange's quorum | one action per answer, save, commit step or question |
| `WitnessesProperties` | the promises of validators and quorum | |
| `Witnesses_proofs` | theorems about `Witnesses` | see section 5 |
| `Published` | what an exchange shows the outside, and an operator who tampers with it | the feed, claims and recorded trades, without the engine |
| `RootAnchors` | contract, pending transactions, and `src/anchor` | one action per request of a tick |
| `Audit` | `prove.rs`, `audit_url` | one action per request; the checks are sets of names of what failed |
| `AuditProperties` | all of these together, and what a verdict is worth | |
| `MerkleTree` | `merkle.rs`: nodes, walks, proofs, verifiers, the fold of the right edge | operators; a hash is the tuple of what it was made from |
| `FeedTree` | `feed/tree.rs` and what `with_db` and `sequence` do with it | a start in three steps, a publish in one; other hands write to the file while it is not open; with the reader's walk of `reporting.rs`, page by page |
| `FeedTreeProperties` | the tree as RFC 9162 writes it, and the promises | |
| `Generator` | `feed/generate.rs`, and what `feed.rs` does with its list | one action per kind of message, per write, per start; extends `OrderBook` for the exchange's books |
| `GeneratorProperties` | what a user may send, and what the generator relies on | |
| `MCLedger`, `MCMatching`, `MCFunded`, `MCDurable`, `MCIntake`, `MCWitnesses` | instances for TLC | the other runs check a properties module as it is, with its bounds in the `.cfg` |

How state and actions correspond:

- `Exchange`: `books`, `openOrders`, `positions`, `ledger`, `listings`, `rules`,
  `operatorKey`, `lastSeen` are the fields of `MatcherState`. `trades` is the
  run's trade table, `rows` the `open_orders` table that the recorded `Change`s
  build, `panicked` is set where an `expect` or assertion of the code would
  fail. A new order is `RefuseEarly` (steps 1 and 2, order capacity: no book is
  created), `RefuseLate` (steps 3 and 4, position capacity, preflight or plan:
  the book is created and pruned) or `ApplyNew`. Messages with any other id
  than the next are answered with an error that changes nothing.
- `CheckedExchange`: `checker` is the checker's whole state; `astray` notes that
  a message was one the checker cannot read as the exchange did: it depends on
  a position at the end of its integer, which is not in the feed, or on the
  collared limit (the finding of section 6). `AcceptedRowsAreHonest` tries, in the states whose
  log has a length in `TamperedAfter`, every list of up to two rows over
  `RowPrices` and `RowQuantities` in place of the honest ones.
- `MidWindow`: `samples` and `kept` are the fields of the window, `clip` the
  opening of the last observation. `timeline` is history: the mid of every
  millisecond by the rule of the engine's own specification, which is what the
  sums are compared with.
- `DurableRuns`: `runs` is the database, one record per row of `runs` joined
  with its resume point and claims. `procs` is the memory of each process; a
  process is one pid and is started once, a restart is another process. `stage`
  says where between two transactions it stands. The engine is deterministic,
  so its state after a history is represented by the history, a state root by
  the session and the history, a chain by the history it covers. `fresh` says
  whether the heartbeat is inside the grace period; `seenValid` whether the row
  a process read is still the row `take_run` will find. A heartbeat is due every
  five seconds, so a poll that executed nothing may or may not write one
  (`EndPoll`).
- `Intake`: `file` is `feed.db`, `feed` the `FeedState` of the process, `inbox`
  the inbox's database, `histories` everything ever published by session (what
  a reader may hold; it is the only variable no program keeps). A message's
  hash chain, its tree and a head over them are what they commit to, so a proof
  of inclusion (`Included`) is membership in the history its head names. Every
  handler runs under the sequencer's lock and is one step; where it writes in
  two transactions (the pin of a key, then the group), the arguments `pinning`
  and `writes` say which of them the disk takes. `sequence` has three ends:
  `Publish`, `PublishNothing` (the transaction fails, ids go back) and
  `RefuseGroup` (the guard before it refuses, ids do not go back). A pass of
  the drain is `Poll`, `SequenceDue`, and one step per mark; between them every
  other actor may act. `late` holds marks whose answer did not come in time
  and that the inbox may get later. `Opening = 0` is a sequencer without an
  operator key. `faults` counts crashes, failed writes, lost answers and lost
  inbox databases. Refused submissions that reach no state are not steps.
- `Witnesses`: `mem` and `row` are a validator's state and its row; a failed
  save leaves them apart until the next. A chain is the sequence of bodies it
  was hashed from. `candidate` is the copy of the exchange's state that a commit
  works on while rounds go on; `engine` is what readers see. `round` is one
  round of questions, URL by URL, with `pinned` the validator key each URL was
  fixed to. `signed`, `vouched`, `lost`, `stray` are history.
- `Published`, `RootAnchors`, `Audit`: `sender` and `audit` are records whose
  `step` names the next request and whose other fields are what was read so far,
  so that anything may happen between two requests. `tampered` is what the
  operator did once (rewind, replace, rewrite a message, doctor a recorded
  trade), and `audit.tamperedBefore` whether it was before the audit began. Each
  check of `audit_url` is one name, and `audit.failed` the set of those that did
  not pass. `chained` is the older contract.
- `FeedTree`: `file` is the database: the messages by id, the nodes by level and
  index, and the checkpoint with the chain and the root it signs (`None` from a
  build that knew no roots). A chain is the sequence it covers, and a signature
  covers all of a checkpoint, so other hands can remove one but not make one.
  `feed.at` says how far a start got: `counted` (the two counts of the stored
  tree), `checked` (history against checkpoint), `up`. The counts are those read
  before the history was, as in the code. A publish the database refuses (a node
  that is already there, a child that is not) changes nothing and is no step.
  The column of chain links beside the messages is a second copy of the chain
  and is left out. `MTH` in `FeedTreeProperties` is the formula at the head of
  `merkle.rs` and shares no operator with the walks.
- `Generator`: `open`, `sinceCrossing`, `crossings`, `cancels` and `mids` are the
  fields of `FeedState` the generator keeps; `burst` is the tick's messages not
  yet written. Every random draw is a choice: the account, the market, the side,
  the steps behind the best price; a life, which only decides which order is the
  first to be due and when, is the choice of the order to take back. The activity
  state is its placement width. The stored log is represented by what a start
  reads out of it (`stored`), by who sent each id (`authors`) and by the books
  the exchange has after it (`books`, with the operators of `OrderBook` under
  rule set 2 and the check of the price step). A message that is to be a quote is
  `Quote`, or `MakeWay` when the price drawn would meet an own order, which is
  cancelled instead. The generator's own quotes never lead there: it takes a
  start that read a user's price below half a step, which the exchange refuses
  and the last price or the list keeps; the third part of
  `NeverItsOwnCounterparty` says so. `seen` notes which of the events a promise
  excepts have happened.

Operators whose comment begins "A slip the runs must notice" are not part of
the models: each is a plausible bug, and the manifest says which property
detects it when it replaces the definition it stands before.

## 3. Runs

| run | instance | what it shows |
|---|---|---|
| `ledger` | 2 accounts, 3 assets, 2 markets sharing an asset, 3 sequence numbers, prices 0..3, quantities 1..3, integers to 5 | 160,035 states; includes refused prices, overflowing credits, accounts trading with themselves |
| `matching` | 1 symbol, 2 accounts, 9 order forms, 6 messages, integers to 6; the checker beside it, and every dishonest list of up to two rows after the third message | 333,831 states; overflow on the second or third fill, market orders with and without a reference, rule sets 1 and 2 |
| `funded` | 2 accounts, 3 symbols of which 2 fit, grants of at most 5, ledger integers to 6, 7 messages, 2 orders and 2 positions at most | 359,314 states; orders the funds cover or not, credits that overflow, fill-or-kill plans refused late; symbols are closed and listed again on another grid and every limit is met |
| `durable` | 2 processes, 2 bodies, logs of 2, 2 runs, in two scenes: one body and one loss of the end of the feed, or one replacement of its history | 2,567,204 states; takeovers of a live but silent owner, writes of a fenced process, failed writes, wrong answers, crashes inside `start_new_run`, resets |
| `intake` | 4 submissions of 2 accounts (one nonce for two terms, a wrong key, a later session), 3 operator messages, 2 faults of any kind, pages of 2, 1 mark a pass, room for 3 nonces and 2 pairings | 1,229,763 states; both ways in at once, a lost mark repeated, crashes between writing and marking, either database lost |
| `intake_live` | the 3 submissions of the first session, 1 fault, 1 generated message, pages of 1 | about 44,000 states; every entry nothing speaks against is confirmed |
| `window` | a window of 3 ms, timestamps 0..5 in any order, 2 mids and none | 256,705 states; samples that leave, are replaced or repeat, timestamps behind the newest, a restart anywhere |
| `witnesses` | 2 validators behind 3 URLs, 2 bodies, logs of 2, 5 scenes | 2,503,014 states; failed saves, restarts, late and short pages, another feed's answer, a fork, a new session, a redeployed validator, rounds across commits |
| `audit` | 2 sessions, 2 kinds of message, a log of 3 (2 when tampered with), commits and pages of 2, 2 anchors, 2 transactions not landed, 1 anchor of the older contract | 3,367,776 states; a tick or an audit against an exchange that goes on, and every tampering before an audit |
| `tree` | 7 messages in groups of one or two, 3 writes by other hands, walks in pages of 2 and 3; false proofs tried over trees of up to 5 leaves with every list of up to 3 (inclusion) or 4 (consistency) of the hashes there are | 136,786 states; nodes deleted, changed or added, rows changed between the two passes of a rebuild, histories emptied, messages of older builds |
| `generator` | 1 market of seven price steps, 1 account that quotes, 1 that takes, 1 user; 6 messages in ticks of one or two, 1 of them of the user, on the price step or below half of the lowest; at most 4 open orders, 1 order a level, quotes up to three steps out; 1 lost write or restart | 3,007,558 states; levels with two orders once the walk for a free step ends, both ends of the grid, an own order met at its floor, the bound on open orders, a burst lost after it took orders off the list |
| `collared` | `matching` with wide integers | the finding of section 6 |

The bounds are enough for the cases to meet: two fills of one order, a partial
fill followed by a release, a self-match across levels, and a refused later
fill all fit in six messages after the listing; two transactions of two
processes interleave in every order, and a third party adds only another taker
of the same fence. In the intake, two submissions per page make a pass meet a
duplicate of its own batch, two faults let a mark be lost and the process crash
before the retry, one mark per pass leaves the rest to a later pass, and
`MaxNonces = 3` is reached by operator and clients together. In `tree`, sizes to
7 have one, two and three perfect subtrees on the right edge, climbs that skip
one and two levels, and nodes off the edge that no start reads; three writes can
drop a node, keep the count with another and delete a third. `intake_live` was
also run with two faults (373,931 states); its `RefusalLimit` and `MaxTrouble`
are above the faults and entries, because an entry that uses up its refusals is
given up, which is a documented limit and not the question of the run. The
window is shorter than the time there is, so that samples expire, and its two
mids average to neither. In `witnesses`, a behaviour is one *scene*: who takes
part and how often each unusual event may happen. The scenes are chosen so that
the events that matter together are in one: a single validator meets all of
them, and two validators with the exchange meet a new session, a fork, noise
with a silence and a restart, and a redeployment, each on its own; two of three
voices must be two validators, because two URLs lead to one. In `audit`, a page
of two makes a log of three need a second request, a commit of two makes a claim
end inside a page, and the guards in `AuditProperties` leave out what an audit
can no longer see: a sender's ticks after the contract was scanned, and anything
beside an audit of an exchange that was tampered with. In `generator` the
grid ends three steps from the listed price on either side, a crossing order is
due every second message and a cancel may not follow a cancel, so that six
messages fill a level, take from it, take back and meet every limit; accounts
and markets beyond these share only the turn at crossing. Sequence numbers, epochs
and runs only grow and are compared for equality, so longer counters add no new
comparisons. Symmetry is used for accounts, symbols, keys, processes, sessions
and bodies, only in runs without liveness. Deadlock is not checked except in
`window` and `tree`: the other models stop at a bound on messages, runs or events, an audit
ends, and a ledger whose last sequence number is finished has nothing to do.

Some properties that name one promise are a conjunction, so that one run asks
one question:

| property | is |
|---|---|
| `BackingIsThere` | `ReleaseNeverFails` and `FillsFailOnlyOnOverflow` |
| `PositionsAddUp` | `ExchangeTypeOK`, `PositionsBalance`, `ProfitIsAccounted` |
| `CheckerIsRight` | `CheckerFollowsExchange`, `AcceptedRowsAreHonest` |
| `FundsFollowOrders` | `ReservationsMatchOrders`, `LedgerAgreesWithPositions` |
| `BooksAreSound` | `BookAndIndexAgree`, `RestingOrdersOnStep` |
| `ClaimsChainInEveryRun` | `RunsTypeOK`, `ClaimsChainRootToRoot` |
| `DiskIsTheTruth` | `IntakeTypeOK`, `MemoryIsFile`, `FileIsTheHistory` |
| `EveryoneUnderTheirKey` | `PublishedUnderItsKey`, `OpeningIsTheOperators` |
| `WindowAnswersExactly` | `KeptSumsAreTheWalk`, `ReferenceIsTheAverage`, `WindowRestores` |
| `OrdersGetTheirTerms` | `FillOrKillIsAllOrNothing`, `NoSelfTradeUnderRuleTwo` |
| `WhatIsAdmittedFits` | `NeverPanics`, `CapacityRespected` |
| `TreeIsTheHistory` | `TreeTypeOK`, `SignedTreeIsTheHistory`, `UntouchedTreeIsKept`, `TreeIsRebuilt` |
| `HonestWordsAreTrue` | `AttestsWhatWasSigned`, `HonestValidatorsVouchOnce`, `DisputesProveAFork` |
| `AnchorsAreOneHistory` | `HonestAnchorsAreOneHistory`, `SentExtendsWhatWasRead` |
| `ProofsAreRight` | `ServedProofsHold`, `NoFalseProof` |

## 4. Fairness

The runs but one are about safety and assume none. `intake_live` assumes
`FairSpec` of `Intake`: a sequencer that died is started again (its supervisor
does so), its task loop polls, sequences and marks (tokio timers fire, the inbox
answers when it is up), a wait before a retry ends, and the operator of a log
completes the opening positions, without which no other message may enter. Each
condition is weak fairness of one step of that loop. No client has to act, no
fault has to happen, and faults are bounded. `AcceptedIsConfirmed` further
supposes that the entry is within reach of a page (`InReach`), see section 6.

`DurableRuns` states its own `FairSpec`, weak fairness of every process's next
step and of the disk's recovery, for `PausedRunsComeBack` (section 6).

## 5. Proofs

`DataTheorems` holds what the other proofs need to know of sums over sets
(`FoldFunctionOnSet` and its relatives), of the least and greatest of finite
sets, and of prefixes. The library's induction theorems take an operator as a
parameter and cannot be cited; its lemmas are proved by a smallest
counterexample instead. `LeastNatural` gives the least member of a set of
naturals, from the well-foundedness of their order, and `SmallestSet` a smallest
one of a set of finite sets; a fold is unfolded at that counterexample, where the
smaller set still obeys. Sums also have `SumOfPart` and `SumOfMultiples` (a sum of
multiples of a step is one); ranks under a strict order have `EveryRankTaken`;
and a fold over a sequence is a function of its prefixes (`FoldsExist`).

`MarketTheorems` says what each operation of the ledger does to a ledger value,
whoever calls it: that it keeps the type (`ReserveFits`, `SettleFits`,
`ReleaseFits`), the supply and the backing of reservations, what it leaves of each
reservation and each total. `Ledger_proofs` needs them where a caller may be
wrong, `Exchange_proofs` where the matcher calls. It says the same of what a fill
does to one position and to one book.

`Ledger_proofs` proves, from `LedgerConfig` (what `validate_config` demands, and
that a configuration names finitely many accounts) and `LedgerInputs` alone and for every number of accounts, assets, markets,
prices and quantities:

- `TypeCorrect`: `Spec => []LedgerTypeOK`. `LedgerTypeOK` is inductive: it
  contains `UnitsExact`, without which the nonnegative units of a reduced
  reservation would not follow (`ReducedReservation`, `UnitsPositive`).
- `NoValueCreated`: `Spec => ValueOnlyMoves`, by cases on the operation;
  `TotalAfterFill` computes the total of an account and asset after a fill, so
  that only buyer and seller move and by opposite amounts.
- `ObligationsShrinkOnly`: `Spec => ObligationsOnlyShrink`, from type
  correctness and `UnitsMonotone`.

- `BooksAlwaysBalance`: `Spec => []LedgerInv`. `LedgerInv` adds to the types that
  every asset's balances sum to the supply the configuration funded, and that
  what is reserved of a balance is the sum of what the open reservations of the
  account hold of it. An operation changes one or two terms of such a sum;
  `SumTakesAny` takes them out and `SumOfSame` says that the rest stands.
- `SnapshotAccepts` (`Spec => []SnapshotAlwaysAccepted`) and `BackingAlwaysThere`
  (`Spec => []BackingIsThere`) follow: the snapshot's own checks add the same
  sums, and a reservation is no larger than the sum it is a term of.

Of a position `MarketTheorems` proves, for all integers:

- `FillKeepsAccount`: a new position is `Accounted` (cash is locked-in profit
  less open cost, open cost is never negative and zero once flat), and a fill
  keeps it so. One lemma per shape of a fill, as `after_fill` distinguishes
  them: opening or adding, closing in part or whole, turning around. The lemmas
  rest on `AllocationBounded` (a rounded share of the cost is between zero and
  the cost) and `WholeCloseTakesAll` (closing everything leaves no remainder).

`Exchange_proofs` proves, for every set of accounts, symbols, listings and rules,
every funding and width of the integers, and every stream of messages:
`BooksNeverCross` (`Spec => []NeverCrossed`), `BooksStaySound`
(`Spec => []BooksAreSound`), `AccountsAddUp` (`Spec => []PositionsAddUp`),
`RestartsRebuild` (`Spec => []RestartRebuildsState`), and of its steps
`TradesInOrder` (`Spec => PriceTimePriority`) and `OrdersTradeAsAsked`
(`Spec => OrdersGetTheirTerms`). None of the invariants is
inductive; all six follow from `ExchangeInv`, whose parts are:

- `BooksInv`: each book is a function from prices to queues without an empty one,
  its sides do not cross, and it holds *exactly* the orders of `rows` of its symbol,
  each at its side and price, in the order of their ids; the index is that of the
  rows; and no id is above `lastSeen`. The last part is why a new order goes to the
  end of its queue, and why its id is not in any. An arriving order that rests has
  met every order it crosses: `ExecuteTurns` is shown to stop only when the order
  is used up, nothing facing it crosses, or the integer overflowed, in which case
  the rest is dropped, for each turn takes a tenth at least and there are as
  many turns as tenths. For a fill-or-kill the fills are the plan made before.
- `MoneySound`: positions are typed and sum to zero in every symbol
  (`AccountsAgree`), and they are what replaying the recorded trades gives
  (`Replayed`). The second half is what a restart needs, and both halves are kept
  fill by fill: `BookLegs` changes two accounts by opposite amounts, and
  `FillKeepsAccount` of the positions keeps each.
- `GovernanceFits` gives listings, rules and key their types, and `RowsOnStep` says
  that every resting order of a listed symbol lies on its steps; a symbol that is
  delisted, and listed again with other steps, has no order left.

A message is a fold of fills. What one fill keeps is a lemma about `CommitFill`
(`Sound` before and after), the folds are named operators (`ExecuteTurns`,
`ExecutePlan`, `StagePlan`, `Replayed`), and the lemma about each is proved by the
least number of turns at which it would fail. For the trades of a message the
lemma is about `TradesRight`: every trade so far is with a row there was, at its
terms and within the order's limit, and no row that is left stands in front of
its maker (`FrontIsFirst`: the front of the best level is before every row the
book shows; rows only go). `TradesByOrders` makes it a fact about steps:
whatever trades an action adds are those of one order that was admitted, so that
they are under its checks. For a fill-or-kill `PlanDone` counts as well: unless
the process ends, its trades are the plan's fills one by one, whose sum
admission compared with the quantity asked (`PlanAddsUp`); that no earlier trade
names the order as taker is the small invariant `TakersSeen`. The plan of a match is stated by
rank: the place of a maker is the number of makers ahead of it, so that
`DataTheorems` can say once that every rank below the number of members is taken,
which serves the plan and the queues that `restore` builds.

It also proves, for the same constants, what ties the funded ledger to
the matcher: `AdmittedFits` (`Spec => []WhatIsAdmittedFits`), `FundsFollow`
(`Spec => []FundsFollowOrders`) and `RefusalsLeaveNoTrace`
(`Spec => RefusalLeavesNoTrace`). With these every property of the run `funded`
is proved, and every one of the run `matching` but that of the checker. The invariant is `ExchangeInv` with
`AccountsInv`: the process has not panicked, the limits of orders, positions and
symbols are kept, and the ledger is `FundsAt` the messages so far, the positions
and the rows. `FundsAt` says that the ledger is sound by itself (the lemmas of
`MarketTheorems`), that it `Mirrors` the rows, one reservation for each row with
its terms and what is left of it, and that it `AgreesWith` the positions, each
balance being what was funded plus what the account traded. None of the three
properties is inductive, and neither half of the funds is without the other:
that a fill finds its two reservations is the mirror, and that no panic follows
is what keeps the mirror. The argument has three parts:

- *A plan is what the execution takes.* Admission stages the order's whole plan
  against the positions and the ledger; the execution then takes the book turn by
  turn and never looks at the plan again. `PlanStep` shows that what is left
  of a plan after its first fill is the plan of what is left of the order over the
  book that fill leaves: `SpotsShift` and `AheadShifts` move the ranks of all other
  makers up by one, `SumOverImage` the quantities ahead of them. So each turn's fill is
  the next one staged (`TurnsFollow`, and `PlannedTurnsFollow` for a
  fill-or-kill), and its settlement, checked when it was staged, is checked again
  and accepted.
- *Ledger and matcher change alike.* A fill takes the same quantity off the row and
  off the reservation of its maker (`FillMirrors`) and moves each side's balances by
  what it moves its position (`FillAgrees`, from `LegMovesAmount`). What
  remains of the order either rests, and then its reservation is that of the new
  row, or is released (`RemainderFollows`). A release never fails, since
  what it gives back is in the reserved balance (`BackedCanRelease`), so neither a
  cancel nor a delisting of many orders can end the process.
- *Nothing is left of a refusal.* `ExchangeInv` determines books and index from
  the rows, and the positions from the trades (`MarketIsRestored`), so that a message
  that changes neither leaves them, whatever it opened and pruned on the way.
  For the ledger, a reservation that is made and released again gives back every
  unit to where it was taken (`ReserveThenRelease`).

`Window_proofs` proves all that the run `window` checks, for every length of the
window, every set of mids and every stream of observations up to any last time
(`WindowMsAssumption`, `MidsAssumption`, `MaxTimeAssumption`):
`WindowIsExact` (`Spec => []WindowAnswersExactly`) and, with the checker beside,
`WindowIsExactBeside` (`SpecBoth => []WindowAnswersExactly`) and `SamePrice`
(`SpecBoth => []BothReadTheSamePrice`). The sums are unbounded integers in the model: the
code's are `i128`, which holds a `u64` mid times the window. The argument has three parts:

- *The sums kept are those of a walk.* Sums and walk are both totals over the
  samples of what a sample is worth times how long it held, and what an operation
  does is to change how long: an observation closes the newest sample and
  moves the opening forward (`ForwardSums`), a sample that left the window held
  for nothing (`ReachableSums`), a correction gives the newest another worth while
  it is in no sum yet (`ReplaceSums`), and an opening that moves back, because a
  late timestamp is read as that of the newest sample, takes up again what it had
  given away (`BackSums`). So
  `WindowSound`, the invariant, can say that what is kept is what a restart
  computes from the samples, at every moment and whether time went back or not.
- *A walk adds up what held in each millisecond.* `Tells` says that samples and a
  history of mids by the millisecond agree; `WalkTells` that a walk over such
  samples is then the sum over the milliseconds of the window, so the answer is
  `Average` of the history. The sum over samples and the one over
  milliseconds are compared by where the walk has come to, at the least place
  where they would differ.
- *Two histories of one past.* The checker keeps samples of its own
  (`HistorySound`), repeats and all, and reads a late timestamp as the last one it
  saw, but they tell the same history from the opening of the newest on (`AsSamples`
  gives them the engine's names). Both answers are averages of it, so they are
  equal. The case that remains apart is the one in which the clock went back
  (`woundBack`, section 6), where they do differ.

`Intake_proofs` proves all that the run `intake` checks, for every finite set of
submissions and all limits (`DrainLimits`, `RetentionLimits`: they are naturals):
`ListingHolds` (`Spec => []ListedOnceUnderItsKey`), `DiskHolds`
(`Spec => []DiskIsTheTruth`), `KeysHold` (`Spec => []EveryoneUnderTheirKey`),
`NoEvidence` (`Spec => []NoEvidenceAgainstHonestFeed`) and `LogImplemented`
(`Spec => ImplementsSubmissionLog`: every step of the composition is a step of
`SubmissionLog`, or none). `ListingHolds` needs only `ListingInv`, which adds one
key per account (`OneKey`) and the kinds of the rows; no property of the sequencer
is used, so the inbox does not have to trust it for this. The other four follow
from one invariant, `IntakeInv`:

- `FeedSideOK`: every history is numbered without a gap, spends no nonce twice and
  opens with the operator's messages; the file holds the newest one, a process
  that is up is exactly what it would be restored to, and the retention limits
  leave it a file it can start on. The work is in what goes in: `GroupFits` says
  what a group of messages must be, `GroupStands` that the guard before the
  transaction never refuses such a group, so its ids are not left unused, and each
  way in is shown to bring one. For the drain's that is `PassOK`, kept entry by
  entry through the fold of `sequence_drained` (`PassIsSound`): the batch so far
  goes on with the log, each item is of one entry and under its key, and each pair
  to mark is of a message that will stand there.
- `InboxSideOK`: `ListingInv`; a confirmed entry is carried by the message its row
  names, of the session it was signed for; and no rejection is filed.
- `PairingsFit`, `DueOK`, `MarksOK`: whatever is on its way between the two
  databases, a page, a pairing or a mark in hand or late, is true of an entry of
  the database whose epoch it names (`Asks`). That survives every step, because
  histories grow (`Grows`), entries stay (`InboxGoesOn`), and a new database of
  the inbox has a new epoch, of whose entries an old pair says nothing.

`MarkIsRight` puts the sides together: a mark that reaches the database it names is
proved by the log, names the entry's own message, and cannot name a second one,
since no nonce stands twice in a history. So it is never evidence, and in the log
of submissions it is a confirmation (`MarkIsConfirm`). Whether the process had
crashed, the answer was lost or the mark had been given up does not come into it.

`Durable_proofs` proves first `OneWriter`: `Spec => []OneWriterPerRun`, for every
set of processes, from `RunsInputs` (the bounds are naturals, and no scene has
more replacements than `MaxSession` leaves room for). `OneWriterPerRun`
is not inductive: two fenced processes could hold one epoch. The invariant
`FenceInv` says that they cannot (`Fenced`), that no process holds an epoch the
row has not reached (`Known`), and gives every row and memory its fields
(`Typed`). `FenceHolds` carries the argument: whatever a step does, for the
fence its process lets go of its run, looks at one, keeps what it had, or takes
one with an epoch above the row's, and no row's epoch falls. One lemma per
handler shows that it is such a step.

It then proves the rest of what the run `durable` checks, from the
same assumptions: `ClaimsChain` (`Spec => []ClaimsChainInEveryRun`), `Signed`
(`Spec => []HistoryWasSigned`), `Durable` (`Spec => []PublishedIsDurable`) and
`AppendOnly` (`Spec => ImplementsRunHistory`: every transaction of every process
is a step of `RunHistory`, or none). All four follow from one invariant,
`HistoryInv`, which adds to `FenceInv`:

- `RowFits`, the heart of it: a process that holds a run under the epoch *of its
  row* has in memory what the row holds, its session and history, or the candidate
  once it is committed. A process that lost its run has an older epoch, and of it
  nothing is said: it may believe what it likes, since it cannot write. Without the
  fence this is false, which is why the fence comes first.
- `BatchFits` and `AnswerFits`: what stood the checks of `apply_batch` continues
  what is served and is a head that was signed; `FeedFits`: so is every beginning
  of the feed's log, which a wrong answer may be headed with.
- `StateFits` and `PublishFits`: what is served, or about to be, is held by some
  run. `HeldStays` carries this through the steps of the others: rows only grow.
- `RowsFit`: the claims of a row chain (`ChainGrows`), and its history was signed.

A step shows itself to the other processes only as `RowsStep`: histories grow, and
no row but the one its process may write changes at all; `OthersFit` needs no more.
One lemma per handler shows `Fitted`: its rows step so, and its own memory fits
the rows it leaves.

`Witnesses_proofs` proves all four properties of the run `witnesses`, for every
finite set of validators, every list of URLs and all bounds: `HonestWordsHold`
(`Spec => []HonestWordsAreTrue`), `MarkIsBacked` (`Spec => []QuorumIsBacked`),
`VerdictStands` (`Spec => DisputeStands`) and `MarkIsCarriedOver`
(`Spec => MarkOutlivesCommits`). They follow from one invariant, `WitnessInv`:

- `FeedFits`: every beginning of the history the feed has now was signed, whatever
  the feed lost or replaced before. What answers at its address is therefore a
  page of that history under a signed head of it (`AnswerFits`), and
  `IngestFits` shows for every such answer that the validator stands on a signed
  head afterwards and has only gone forwards (`Advances`): a longer chain in its
  session, or the session the feed has now. A hash that does not fit proves two
  signed heads that cannot both be of one history.
- `ValidatorFits`: what a validator whose saves all succeeded has vouched for lies
  behind it, in memory and on disk alike. This is what a lost save breaks, and why
  `HonestWordsAreTrue` excepts it.
- `ExchangeFits`: every entry of the round's list is backed by an attestation of
  its key over the exchange's history, unless the round is older than the run;
  the copy being committed continues the history it was copied from, so that the
  attestations still count after the swap. `QuorumStandsThere` turns the position
  found into that many keys.

The temporal theorems have an initial step where one is needed, one step per
action, and combine them with PTL.

Only model-checked: the exchange beside its checker (`CheckerIsRight`, which is
about a second program of its own), and the generator, the anchors, the audit and the tree, whose definitions are
recursive: what they compute for every input is an induction over data. Liveness
under fairness is for TLC alone.

## 6. Findings

*The exchange and its checker ask the self-trade question of different orders*
(run `collared`). Under rule set 2 the exchange looks for an own resting order
within the collared limit of a market order, the checker within the signed
limit. A market order whose own resting order lies between the two is filled by
the exchange and reported by the checker.

Seen while modelling, without a run in the manifest. A configuration shows it
where one is named (`tlc -config X.cfg Module`):

- *A round of questions outlives the run it was begun for* (`EveryMarkIsBacked` in
  `WitnessesProperties`, false in the instance of `MCWitnesses.cfg`). A round reads the exchange's session and chains URL by URL, and
  concludes with a count of matching answers. When a new run starts between two
  URLs, the answers counted for the old history move the mark of the new one,
  whose comment says that only validators whose chain matches are counted; this
  is what `stray` excepts in `QuorumIsBacked`.
- *The generator cancels orders of others* (`CancelsNoRealOrder` in
  `GeneratorProperties`, false in its instance). A start reads every order that rests back into the
  generator's list, whoever sent it, and the generator cancels it under that
  account when its new life ends; the exchange accepts the cancel. A comment in
  `pin_or_check_account` says nothing the generator publishes "can cancel a real
  order, because it only cancels ids it generated itself".
- *The generator forgets orders that rest.* A burst that was not written gives its
  ids back, but orders it cancelled or took stay off the list although they rest;
  and an order of somebody else at the same price makes the generator drop an own
  order that was not filled. Nothing takes these off the book again, which the
  comments on `generate_message_at` and `OpenOrder` set out to avoid;
  `ListIsTheBooks` excepts both.
- *Two pollers on one database* (`OnePollerPerDatabase` in
  `DurableRunsProperties`, false in the instance of `MCDurable.cfg`). The run claim
  protects a run that exists. Two processes that find nothing to resume each
  create a run and poll, on a new database or between `close_run` and
  `start_run`.
- *A paused run does not come back* (`PausedRunsComeBack` in
  `DurableRunsProperties`, false under its `FairSpec` in the instance of
  `MCDurable.cfg` with one process and the scene `MCQuiet`). A comment in
  `poll_feed` says that the idle branch brings a run back after a failed disk
  works again; the check of `execution_paused` at the top of the loop skips
  every poll until a restart.
- *An inbox that answers with repeated entries leaves a gap in the ids*
  (`IdsHaveNoGaps` in `IntakeProperties`, false under its `SpecAnyInbox` in the
  instance of `MCIntake.cfg` with the submissions `MCTwoSubmissions`, the operator's
  messages `MCOpenings` and no fault). `sequence_drained` numbers its batch before
  `check_retention_batch` looks at it; when that refuses the group (one entry
  twice on a page), the ids are not given back, unlike after a failed
  transaction. The next message follows a gap, against "Ids are 1..N with no
  gaps", and the next start refuses the database. The inbox of this repository
  never sends such a page; the address it is read from is an option.
- *A full page of entries that cannot be sequenced hides those behind it*
  (`PagesReachEveryEntry` in `IntakeProperties`, false in the instance of
  `MCIntakeLive.cfg`). The comment at `PAGE_LIMIT` says a limited
  page still empties the service. The page is always the oldest pending entries,
  and an entry that cannot be sequenced, for instance one signed for a session
  before the sequencer's database was replaced, stays pending for ever.
- *A timestamp behind the newest sample* (`AlwaysTheSamePrice` in
  `ReferencePrices`, false in its instance).
  The comment on the window's question says that the time asked for "is never
  behind the newest sample". Once an older timestamp has been observed as it
  stands, the engine's sums and the checker's walk may answer differently; this
  is what `woundBack` excepts in `BothReadTheSamePrice`.
- *A dispute whose save failed* is forgotten by a restart, and the validator
  vouches on from the row it saved before (`lost` in `Witnesses`): a feed that
  was restored from an older copy can so have one validator sign two chains of
  one session.
- *An audit of a live exchange that has only begun.* When the first request finds
  cursor 0 and messages are committed before the next, or when an anchor of the
  older contract lands after the audit read its envelope, an honest exchange is
  accused (`NoAccusationInView` excepts both); the comment on the view in
  `prove.rs` promises that later rows are no failure.
- *An empty contract*: the comment in `check_tree` that a contract with nothing
  in it is not a failing exchange describes a branch that the decoding of the
  latest root, an error when its index is 0, does not reach.
- *The sender's check of the commitment on chain* (`main.go`) is against the
  newest anchor it read, so a transaction of an earlier tick may land in
  between; the contract's own rule is what keeps `HonestAnchorsAreOneHistory`.
- *A deleted node beside an added one* leaves the count of nodes right. When the
  missing node is off the right edge and the added one is where the next append
  will write, the start finds nothing and every later publish is refused by the
  database; `tree` has such states, and only the reader's walk names the nodes.
- `apply_committed_batch` counts a refused batch on a copy that is dropped with
  it; a record of a failed entry whose mark was handled but not answered stays
  after the entry has left the page, and takes up room until a restart or
  another inbox database; a feed that has published nothing starts under a new
  session, so entries signed for its first are refused.

## 7. Not modelled, and the plan

Left out for good: formatting, HTTP, options, CORS, metrics, the generator's
rates and distributions, the bot and the user interface; cryptography (a
signature is membership in the set of things signed, a hash is what it hashes).

Left out of components that are modelled in part: key pinning and old schemas of
the state database; the sequencer's window in memory, its pages and rate limits;
the inbox's deadlines and read endpoints; the checker's comparison of the cash
ledgers, reused ids and the reading of two databases; the local audit;
reorganisations of the chain and the sender's change of endpoints.

In order of importance, what is to come:

1. Proofs: that the checker accepts every row of an honest exchange, for which
   `ExchangeInv` gives one half and an invariant of the checker's own books the
   other.
2. Liveness: a poller that is not paused catches up with a feed that stops.
3. The checker's comparison of cash ledgers beside a funded exchange.

New properties go into the existing runs where their instance fits, so that one
run answers one question about one component.
