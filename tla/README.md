# Verification of ksor

ksor keeps an organisation's knowledge as a git repository of Markdown (the
*record*), builds a static site from it, and *ingests* it into Postgres, from
which a *door* (an MCP server) answers searches and reads. This directory holds
TLA+ models of ksor, the TLC configurations that check them, and the TLAPS proofs
of the results that should hold for every size.

The code under `src/` is the reference; paths below are relative to it, and
`PROJECT.json` maps every definition to the lines it stands for, lists the
hazards the properties are about, and gives for each property a variant of the
code (a forgotten guard, an off-by-one) under which it fails.

## 1. Inventory

State, operations, interactions, what is hard, and what makes it correct. A
record travels: it is *written* (authors, `ksor migrate`, `ksor init`), *judged*
(checker, build, change control), *published* (site, ingest), and *answered from*
(door); denials cut across all four.

### Writing

**ksor init** (`packages/ksor/src/init`). *State*: a directory, and a stage beside
it. *Hard*: two runs at once, full disks, kills, files of the user's. *Correct
when* a project is there whole or not at all.

**ksor migrate** (`packages/ksor/src/migrate`). *State*: the tree, instance,
ledger, policy and denylist rows of a record from before the profile. *Operations*:
derive each file, refuse if one cannot be, write them one by one. *Hard*: stopped
half way and run again; denials of documents whose name it changes. *Correct when*
no text, no denial and no denier's authority is lost and a second run ends what the
first began.

**Site components** (`…/scaffold/system/site/{lib/srs.ts,components/flashcards.tsx}`).
*State*: a schedule per card in the browser's storage, a queue per page. *Hard*:
effects run after renders, two tabs share the storage, the deck is edited between
visits. *Correct when* the last grade of a card is what is stored.

### Judging

**Record checker and rules** (`packages/content/src/record`, `lib/*-rule.ts`).
*State*: none; profile, policy, links, supersession, ledger and companions of a
tree. *Correct when* what passes can be shown by every surface without showing
somebody more than they may read.

**Change control, lock and ledger history** (`record/{change-control,lock,git-ledger}.ts`,
`packages/ksor/src/build`). *State*: the tree, git history, `build.lock.json`.
*Hard*: history is partly visible, rewritten, or disagrees with the lock. *Correct
when* what an ingest takes was checked by a build, and no ledger act disappears.

**Takedown ledger, its lock file, and the denylist** (`ledger-file.ts`, `commands.ts`,
`takedown-verb.ts`, `ingest/ledger-apply.ts`). *State*: `.ksor/takedowns.yaml` in each
checkout (append-only), the lock file beside it, `takedown_denylist` rows and their
trail. *Operations*: deny, revoke, amend, `--apply`, the ingest's ledger transaction,
merges by git. *Hard*: processes killed inside the lock, recycled pids, two
checkouts with different histories, file and row written in two steps. *Correct
when* no act is lost, site and door agree after a fold, and a denial is lifted by
nothing but its own revocation.

**Command line** (`packages/ksor/src/cli.ts`, `packages/content/src/commands.ts`).
*State*: what an operator finds. *Correct when* the exit code tells what stands.

### Publishing

**Chunking and manifest** (`ingest/{chunking,manifest}.ts`): pure. *Correct when* the
passages are the document, within the ceiling, no code block cut at a blank line,
and nodes are written after their parents.

**Generation lifecycle** (`ingest/{generation,build,gc}.ts`). *State*: the `corpora`
row (active, rollback), one `ingestion_runs` row per generation and its content.
*Operations*: allocate and build under the tenant's advisory lock, drain the embed
queue, finalize, gate, shrink guard, flip, rollback, gc. *Hard*: ingests and
collectors overlap; the flip takes the lock after its guard has read; gc never takes
it; three clocks. *Correct when* the pointer names a whole generation, never
regresses but by an undo, and nothing pinned or pointed to is collected.

**Embed worker, carry-forward and providers** (`ingest/worker.ts`, `lib/embedding.ts`,
`lib/providers`). *Hard*: kills between batches, several poison passages in a batch,
errors the provider cannot classify, answers out of order, truncated or broken off.
*Correct when* every vector is of its own passage, and a passage is quarantined for
nothing that is a neighbour's, the moment's or the account's.

**Site staging and governance** (`site/lib/{stage-knowledge,governance,lock,source}.ts`).
*State*: the staged copy for one viewer, its manifest, `public/sims`, a lock file.
*Correct when* a reader sees exactly the plan and a refused record leaves nothing.

**Schema** (`schema.ts`, `migrate.ts`). *State*: the ladder of applied versions.
*Hard*: several operators and builds, kills between steps. *Correct when* the
version a door reads is the shape the database has.

### Answering

**Door process** (`packages/content-gateway/src/{compose,http}.ts`). *State*: deferred
boot checks and their shared attempt, the readiness verdict, slots in flight, the
drain. *Correct when* nothing is answered before every check has passed and the drain
ends.

**Postgres plane** (`packages/postgres/src/db.ts`). *State*: the pool, its waiters,
transactions, retries. *Correct when* a connection whose transaction is unfinished is
never handed out again and every caller ends.

**Bearer gate** (`packages/gateway-kit/src/{auth,jwks-discovery}.ts`). *State*: the place
of the keys, the key set, two verdict caches. *Correct when* a withdrawn key lapses and
an authorization server that was away is heard again.

**Search and read plane, outline, windowing, abstention** (`service.ts`, `lib/{read,
search,takedown,admit,snapshot,windowing,abstain}.ts`, `calibrate`). *State*: the
generations, the denials, tokens. *Hard*: every statement has its own snapshot and a
token outlives a flip. *Correct when* pages rebuild one generation's document, nothing
barred is on any of them, an outline's rows are the record's, and "not in the record"
is only said when it was looked for.

**Query embedding** (`lib/query-embed.ts`). *State*: an LRU, a map of embeds in flight, a
breaker per space. *Correct when* one miss pays once, nobody waits for ever, and a
breaker opens for its own space and closes again.

### Not modelled

Tools and gateway registration (no state across requests); parts of components marked
`partly` in `PROJECT.json`, each with its note: the development server's staging watcher,
the gate's report, search ranking, SQL roles and permissions, retention of the log.

## 2. Plan

Built, in this order: (1) `Publication`, `Generations`; (2) `FileLock`, `LedgerLock`,
`Staging`; (3) `Takedown`; (4) `QueryEmbed`; (5) `Door`; (6) `Embedding`; (7) `PgPool`;
(8) `Windowing`, `ReadPlane`; (9) `BearerGate`; (10) `SchemaLadder`; (11) `LedgerRules`,
`Publish`; (12) `Migrate`; (13) `Surfaces`; (14) `Passages`, `Study`, `Abstention`,
`Outline`, `Providers`; (15) `Console`, `Scaffold`.

The proof modules follow the components in the same order (`ServicesProofs` has
`QueryEmbed`, `Embedding`, `Door` and `BearerGate`, `RecordProofs` has `LedgerLock`,
`Staging`, `Publish`, `Surfaces` and `Migrate`, `TakedownProofs` has `Takedown` and `Console`,
`PostgresProofs` has `SchemaLadder` and `PgPool`, `CorpusProofs` has `Providers`,
`Scaffold`, `Study`, `Abstention`, `Outline` and `Passages`, `Loops` what several of them need
of loops, ranks and least elements). Left: the composition of `Publish` with `Generations`;
the staging watcher of the development server.

## 3. Modules and the code

An action is what the code does without letting another actor in: a system call on a
file, a statement or (where its first statement takes the lock) a transaction in
Postgres, the code between two awaits in Node, an effect in React.

**Publication** is the abstract promise: a pointer among prepared snapshots.
**Generations** implements it. `active`/`rollbackGen` are the `corpora` row,
`state`/`finishedAt`/`heartbeatAt` columns of `ingestion_runs`, `nodes`/`chunks` counts of
rows. Transactions are cut at the reads they later rely on: `FlipRefusal` before `Flip`;
`GcReadPointer`, `GcReadRuns`, `GcReap`. `SearchQuery`/`SearchMint` pin. Its clock
counts units of the database's; gc and door read clocks ahead of it by at most `Skew`.

**FileLock** is the lock written twice in the code: create-if-absent, stamp, read,
signal-0 probe, remove by name. **LedgerLock** adds reading and appending the ledger,
**Staging** adds `fillStage`, one file operation per action. A process may be killed
between any two and its pid taken by a stranger (`recycled`).

**Takedown** takes the lock as one step and models the acts, both folds, the upsert and
its trail, the ingest's two transactions, and git merges. **LedgerRules** has the
rules of the file as operators: parsing, `denies`, `inForce`, authority, agreement with
the tree, append-only against baselines; **Publish** runs them as `ksor build` and
`ksor ingest` do, over a checkout, its history and its lock. Git history is the list of
commits `git log --full-history --topo-order` gives.

**SchemaLadder**: a transaction begins, waits for the advisory lock, reads the version
again, applies and commits; rows are stamped when it *began* (distinct stamps assumed).

**Migrate**: one directory, its instance, ledger, policy and rows. A run is `Load`, then
one `WriteNext` per file in the order of `Turn`, and may stop in between; `unvouched`, which
no run reads, keeps the entries of a run stopped between its ledger and its policy. **Surfaces**
holds the checker's judgement, the bundles, the stage, the site's twin of the index and
the door's rows of one record, and says where they must agree. The checker has two
copies (`packages/content` and the scaffold's `site/record`), kept equal by a test;
definitions are mapped to one or the other.

**Passages**: documents as sequences of lines (their kind, title, fence, size), cleaned,
cut and packed as `chunking.ts` does; manifests validated, ordered, written and read.
**Study**: two tabs. **Abstention**: scores in ten-thousandths, floors printed in
thousandths; releases of ksor are known by their retrieval predicate. **Outline**: pages
of an outline with a viewer's positions, and the addresses it prints. **Providers**: what
each provider's failures count as, retries, the answer contract.

**QueryEmbed** and **Door** are event loops. **Embedding** follows the vectors through a
sequence of builds, a vector being named by the input it was computed from. A batch may meet
any error, of the provider or of the contract on its answer; the drain stops at those the
provider classifies (`Retryable`, `Fatal`) and splits the batch, down to a quarantine, at all
others, and the row keeps why. **PgPool**: a
connection's transaction in three statements, callers that wait under a timeout, the
guard on a borrowed connection, the retry policy, the prewarm. **BearerGate**: leases and
ages count down; a token names its key. **ReadPlane** extends **Windowing**: one agent
searches, follows the token and reads page by page, an action per statement, while
generations flip, roll back and are collected, and denials come and go.

**Console** is one operator at a keyboard: dispatch, preflight, `takedown` from its
arguments to the row, `grant`, `ingest`, `gc`, and the code each ends with, while the
store comes and goes. **Scaffold**: `ksor init`, a file per action.

## 4. Runs

Constants are in the `.cfg` files, definitions they need in the `MC` modules. Where
components share no state a run checks several side by side: the `MC` module
instantiates each, a variable `lane` says whose behaviour this is, and the others stay as
they begin. Deadlock is switched off where the system really may stop: processes end,
bounds are reached, a door shuts down.

| Run | Lane | Question | Size and why it is enough |
| --- | --- | --- | --- |
| `generations` | | Is what is served whole, does an undo land on content, does a live token keep its generation, is `Publication` implemented? | 2 ingests, 1 collector, 3 generations, clock to 3, a grace of one token and one slow search: a generation can be built, served, pinned, retired, age and be collected while another is built. A grace one unit shorter fails. Skewed clocks and other sizes are left to the proof |
| `services` | search | One payment, own breaker, breakers close | 3 searches, 3 keys, 2 spaces, a cache of 1: sharing, eviction, cooldown |
| | embed | Own vectors, just quarantines, every passage embedded once, a drain ends | 3 builds of 4 passages, batches of 3 (an uneven split), 2 drafts; a blip, a spent balance and an error of neither class, which quarantines 1 passage of a build (`KeyErrors`) |
| | pool | Honest checkouts; every caller ends | a reader, a writer, 2 prewarms, 1 slot, 2 attempts, one fault |
| | bearer | A pulled key lapses, an absent server is heard again | 1 caller, 2 tokens on 2 keys, one of which is rotated in |
| | door | Is a door that answers verified, does everybody get an answer, does a drain end? | 2 connections on 1 slot, 2 chains: a full door, a shared attempt, an abandoned probe beside a fresh one. Any number is left to the proof |
| | lock | Does every takedown that is not killed end, behind whatever lock was left? | 2 processes, kills and recycled pids, 2 polls |
| `record` | ledger | No act lost | 3 processes, kills and recycled pids anywhere: a holder, a breaker and a third |
| | stage | The stage is this build's | 2 evaluations, any leftover stage, kills |
| | publish | The ledger is its history, the lock what was checked | 2 commits, 2 actors, a denial, its revocation and a retargeted entry; 2 runs of the verbs |
| | schema | The version is the shape | 2 operators of builds 2 and 3, 2 doors, 6 transactions |
| | read | Nothing barred is served, pages rebuild, one generation per token | 2 generations, a document of 5 chunks with a repeated heading, a page of 2 characters |
| | migrate | Nothing is lost, deniers may deny, re-runs settle | 5 names with up to 4 shapes each, 5 sets of rows, 2 runs |
| | surfaces | Readers stay inside; one voice | 4 documents in 3 directories, 2 assets, 2 policies, 2 edits |
| `corpus` | cut | Passages are the document, nodes in order | all texts of up to 4 lines and of 3 followed by a gap and a fence; all manifests of 3 nodes |
| | study | The last grade is stored; the queue stands | 2 tabs, a deck and what it is edited to, 3 grades |
| | gate | A measured floor does what was measured | a pair of scores that straddles a rounding boundary, 2 generations, 2 releases |
| | outline | Pages are the record, addresses open what they name | 6 documents, one name at 3 depths, 1 change between pages |
| | vendor | Vectors are of what was asked | each provider, 1 mishap of the account, 5 clients |
| | desk | The exit code tells what stands | every verb against whole and broken records and environments, 1 outage |
| | folds | One answer of file and rows, an honest trail, a fold that repairs | 2 processes in 2 checkouts that merge, 3 entries, a row older than the ledger |
| | init | A project is whole or absent | 2 runs, each word and manager, kills and full disks |
| `shrink_race`, `ledger_lock_broken`, `takedown_race`, `prewarm_crash`, `discovery_guess`, `ingest_reread`, `migrate_republishes`, `deck_images` | | see Findings | the smallest instance that shows each |

**Environment.** `Generations` lets time pass only while builds beat within `MaxBeat`,
flips follow their finalize within `MaxPause` and searches mint within `MaxLatency`; the
assumption `Prompt` of `GenerationsInv` relates them to the intervals in the code (token
lifetime, gc grace, abandoned-after). Section 6 says what happens without it. `FileLock`
assumes that the two polls between a waiter's looks outlast a living holder's create and
stamp; killed ones never stamp. In `Door` rows that were right stay right; the store may
sleep and hang a call for any time. In `Embedding` builds follow one another (their
overlap is in `Generations`). In `PgPool` a store that is up accepts a connection within
a tick, and the prewarm comes before the door serves (`compose.ts`); connections are pooled,
the default (`KSOR_DB_CONNECT_PER_REQUEST` off). In the passing `record` run a
checkout does not change while a verb runs (`EditsDuring`) and `ksor migrate` has its DSN
(`MCOptions`); `ingest_reread` and `migrate_republishes` drop these.

**Fairness.** A process that is not killed takes its next step (`FileLock` users,
`Embedding`): nothing in them waits but bounded polls. `QueryEmbed`, `Door`, `PgPool`,
`BearerGate`: time passes and due timers fire, as Node's do; a store that answers lets a
statement, a check or a probe end; an orchestrator keeps polling `/ready`. No fairness
is assumed of the provider, of a request's own work, or of a store that is away. All
other modules state safety only.

## 5. Proofs

All are checked by TLAPS to the last leaf, for every value of the constants that meets
the named assumptions.

*Generations.* Under `BoundsAssumption` and `Prompt`, `Spec => []Inductive`, any number
of ingests, collectors and generations. No property in question is inductive alone: that
gc spares the pointers depends on what it read two statements ago and how old every flip
since then can be. Hence the parts: `OwnInv` (a process at work owns a run that nobody
else works on, freshly stamped), `RunInv` (a run neither reaped nor to come has its rows,
a complete one passed the gate), `PointerInv`, `GcInv` (what a collector picked is no
pointer, no live build, no pin), `ReadInv` (a pinned generation is served, or was retired
after the search began). From it follow `TypeOK`, `PointerAgrees`, `ServedIsReady`,
`RollbackIsServable`, `TokenPinHolds`, `PointersNeverCollected`, `OnlyRollbackRegresses`
and `ImplementsPublication`. The last three lines of `Prompt` are what the intervals must
satisfy for gc to need no lock. `AlwaysServable`, which holds of every implementation of
`Publication`, comes with it.

*QueryEmbed.* `SingleFlight` for any callers, keys, spaces and sizes, and the action
property `TrippedByItsOwn` (from type correctness of the breakers alone).

*LedgerLock.* `ActsKept` with no assumption on polls, kills or who holds the lock.
`ActsInv` follows one process: no entry of it before its append, one after, and what it
means to append is its own. The lock appears nowhere in it: two processes may be inside
(finding below) and the acts survive, because the append is a single `O_APPEND` write.

*Staging.* `StageIsThisBuilds` for any plan, any leftover stage and any number of evaluations
that nobody kills, or two that may be killed anywhere (`FewAreMortal`). The lock does not
always exclude, and need not. Until the first evaluation has answered it does (`OneHolds`): a
lock changes hands only when its owner is dead, and then the other one is alone. `DoneSoFar`
says what the one inside has done to the stage. From the first answer on, every evaluation
finds the stage full and leaves it, or refuses as the first did (`Stands`), so a lock that is
broken under two of them does no harm. A third process may break a lock under a live holder
before that, once one has been killed: section 6.

*Embedding.* `VectorsAreTheirOwn` and `QuarantineIsJust` from `VecInv`: the rows of every
generation, abandoned ones too, are sound, so that what carry-forward inherits is; a
batch that writes writes each passage its own vector, and only the passage of a batch of
one is marked, with what its batch met. That holds for any `Errors` and any classification
of them. It says nothing of an error the provider does not classify, for which healthy
passages are quarantined (section 6).

*Door.* `DoorInv` gives `OneAttempt`, `ServedWhenRight` and `GreenMeansVerified`. Its part
`Verification` says that what an attempt has seen pass stays right, so the last check
leaves nothing wrong: it holds because `wrong` only shrinks while the door is up, an
assumption of the model. `CleanStop` (the pool is not torn down under a request) is
inductive once the variables are typed: with the listener closed nobody is connected, and
work that ends frees nobody.

*SchemaLadder.* `VersionIsTrue`, for any operators and doors whose builds know a positive
version (`LadderAssumption`). A row is stamped when its transaction *began*, so the latest
stamp need not be the last commit; what saves it is the part `StepsAreBehind` of
`LadderInv`: a transaction that starts from the shape there is began after every row there
is, and one that began earlier starts from a shape that is gone and is refused when it has
the lock and reads again.

*ReadPlane.* `NothingBarredServed`, `OneServableGeneration` and `PagesRebuild`, for any
agents, generations, trees, documents, budgets and denials; `ReadAssumption` says that
generations are positive numbers and the first is one of them, and that a document is a
sequence of chunks with a heading's path each. `ReadInv` says of an agent's call what it may
have taken from the record since it began (a document that is found is not barred
throughout, its generation was servable at some moment, a page is cut where the book ends),
of its book that the pages are the first chunks of the section and the cursor names the
next one, and of its answer that it stands by what the history says. What the record does
then only adds to the history (`RecordMoved`), whatever it does. The windowing rests on
lemmas of its own: a page has a chunk at the least and ends in the document (`WindowInside`),
a cursor leads to the very chunk it was made for, although it may be a heading's path that
comes back later (`CursorLeadsThere`), and a section found by its last word is found again
by its path (`ScopeSettles`).

*Takedown.* `TypeOK` (which says that no act and no merge of branches ever leaves a ledger
the parser refuses), `OneAnswer`, `RowsAreAccounted` and the action property
`FreshFoldAgrees`, for any processes, checkouts, ids, entries and stale folds.
`TakedownInv` adds that an id names one entry whatever branch it is on, that ids are minted
in order, and that a process about to allocate has seen every row with its entry: the last
is why a row from before the ledger cannot come back (`FoldIs`: a fold never takes an entry
from a row). The two loops, the fold's choice among the denials of a name (`ChosenIs`) and
git's merge (`MergedIs`), are recursive functions. `LoopRuns` (in `Loops`) shows that such a
function exists, `LoopKeeps` carries a fact from turn to turn; both rest on `FirstExists`, the
least element of a set of places, and need no induction theorem with an operator parameter.

*Publish.* `LedgerIsHistory` for any documents, entries, people and commits, whatever is
edited while a verb runs, and `LockIsHonest` where nothing is (`~EditsDuring`; section 6 has
what happens otherwise), from `PublishAssumption` (stamps are numbers, some stable document is
approved). `HistoricIs` says what the walk over the committed ledgers recalls:
every entry any commit ever had, with its first text. What a build publishes was read,
judged and written at different moments, and the lock may come from any commit or crash
before it. So each part of `PublishInv` is said of the history so far and can only become
truer (`HistoryLasts`, `StandsLasts`): a lock, wherever it lies, is one a build published
(`LockStands`); what a run has read was so (`FactsStand`), what it judged follows from it
(`JudgementStands`), what it published was judged (`PublicationStands`), and what the ingest's
gate let through was published (`GateStands`). `GatesHold` is what remains with edits under
a verb: a stamp dates the text it is on, and what the gate passed was published.

*PgPool.* `CheckoutsAreHonest` for any slots, readers, writers, prewarmed connections,
timeouts and faults, where connections are kept between requests; two of its three parts,
the shed and the clean hand-back, in every mode (`CheckoutsAreSafe`). `PoolAssumption` says
that slots and prewarms are finite, that a prewarm is no request, and that a timeout is not
zero. `PoolInv` says that a slot and its caller agree on what they do (`SlotsInv`), that
whoever waits is in the queue once and nobody waits beside a free slot (`QueueInv`), that the
prewarm never queues, as it asks for no more than there are slots (`WarmInv`, by counting), and
that a connection whose socket is gone has no transaction open, as every one is when the store
is away (`SickInv`). Being told of an
outage only when something failed rests on `AwayInv`: whoever has waited for longer than an
instant and saw nothing fail waits while every slot is at work, so its timer finds the pool
saturated and it is shed.

*BearerGate.* `PulledKeysLapse` for any callers, tokens, keys, lifetimes and sizes of the
caches; `GateAssumption` says that lifetimes are numbers, every token names a key, and the
cache of verdicts holds one at least. `GateInv` counts from the moment a key is pulled: a
key set never had a key gone when it was fetched, so what is left of it and the time gone
make no more than `JwksTtl` (`KeysInv`); a remembered acceptance is of a good token and
lasts no longer than the token, and what is left of it and the time gone make no more than
`JwksTtl` and a verdict's share of it (`Welcome`). The cache's eviction is a loop, hence
`Loops`.

*Providers.* `VectorsAreWhatWasAsked` for any texts, dimension and numbers of attempts,
whoever shares a client; `VendorAssumption` says that something is asked for and may be tried
once. The accepted answer is what was asked for because an answer that comes in any order
carries its places (`ByIndexSorts`: what is sorted by them is what was sent) and one that
does not fit is refused (`AcceptedIsExact`); that nothing is repeated which time does not
mend is `CallInv`, call by call, where a client that a call gave up is never its own again.

*Scaffold.* `ProjectWholeOrAbsent` for any number of runs at one name, with `OneInPlace` as
a hypothesis of the theorem: two runs that write in place can undo each other's files
(section 7). `RunInv` says of each point of a run what it has in its stage and in the
directory: what is written and what is still to be written are the project together, and
what the rollback removes is all there is of the run. That a rename finds the place empty
or fails makes the others' files stay.

*Study.* `CardsComeBack` for any tabs, decks and ladders (`StudyAssumption`: a ladder has a
rung). `StudyInv` says of a tab that what it shows of a card it did not grade is the last
stored grade, unless another tab has stored one since (`CurrentAt`); that is what makes it
harmless to store the whole of it. What is walked holds all that is due because ranks sort:
to count who comes before gives each card a place of its own and leaves no place empty
(`RanksSort`).

*Surfaces.* `ReadersStayInside` and `OneVoice` for any record, policies, denials and readers
(`SurfacesAssumption`: documents are finitely many places beneath folders, legible, and no
policy word is taken for another). A surface is built from the record as it stood and read
while it is edited again, so both are about what was judged. `SurfacesInv` says that
everything built, wherever it lies, is the selection for its reader of a record that the
check passed: the lock (`LockfileInv`), the site (`SiteInv`), the door's rows (`DoorInv`).
What is left is about one such record (`LegibleRecord`): a link, a companion or a successor
the check let through leads to nobody the reader is not, and the site's index and the door's
filter, written apart, keep the same documents.

*Abstention.* `AbstentionIsHonest` for any scores, floors, histories and releases. `GateInv`
follows a calibration from what was scored to what is judged: the score is of the query and
the generation it was taken from (`ScoreThen`), the two points lie on the side of the floor
they were measured on although the floor is printed to three places (`PointsInv`), the
block that is committed is one that was measured (`BlockInv`, `CalInv`), and what was logged
says which block judged (`LogInv`).

*Console.* `ExitTellsWhatStands`, for any arguments, ledgers, stores and outages
(`ConsoleAssumption`: an address that was typed ends in nothing but empty segments, the rows
are of instances, and a revocation names an entry before it). `ConsoleInv` says of each point
of a verb what it may have changed by then: up to its first write nothing, so that every
refusal may promise it; a takedown at its rows has its entry, in force over what was meant;
an ingest that built has touched neither the grant nor the pointer.

*Outline.* `OutlineIsTheRecord` for any trees, readers, depths and limits
(`OutlineAssumption`: trees are finite, siblings have slugs and positions of their own, and
what a node holds is placed beneath it). The property is about pages put together by a
reader who pages while the record changes; `OutlineInv` says that as long as it stood still
the reader has the first rows of the outline that would be told now (`PageByPage`), and that
an address it was told still opens what it named. It rests on what positions do: they put
every document behind its folder (`BeforeOrders`, `SiblingsAreBeneath`), so the rows have an
order without ties, and a page is the rows whose rank is past the cursor (`PositionIsRank`,
`NthIs`, from `RanksSort`). `SameAdmittedSameAnswers` says that what a reader may not see
leaves no trace: two trees with the same admitted part are told with the same words.

*Passages.* `CorpusIsWritten` for any documents, budgets and manifests (`PassagesAssumption`:
documents are lines and manifests are nodes, and the budget of a piece is at most the
ceiling). The one invariant says that what is there is what the code computes; all else is
about loops over sequences, each a recursive function on 0..n, so an argument over its rounds
is an induction over naturals (`LoopRuns`, `LoopKeeps`). What they have in common is
`Laid(ys, T, a, b)`: the elements of ys are laid one after the other from a to b, each as T
allows. Lines are laid in sections (`SegmentsAre`), a section's lines in runs of gaps and of
text (`PartsAre`), runs in pieces (`PackedIs`), a piece's code points in cuts (`CeilingIs`),
and all of them in the rows of the document; what is laid in spans of a text flattens to
that text (`LaidText`), so nothing is lost or moved. A piece starts outside code because
the fence that packing carries from part to part is the fence of the whole text
(`FencesGoOn`), and it outgrows the budget only where it could not be flushed. Of a manifest:
`Visit` places each node once, after its parent, and all that have a topmost above them
(`TopologicalIs`); what is left out has its parent left out too (`PlacedEnds`), and that is a
cycle.

*Migrate.* `RecordSurvives` and `RerunsSettle` for any directories, instances, ledgers, rows
and options, any number of runs, each stopped wherever, and whatever is restored, built and
denied in between (`MigrateAssumption`: documents are what is read of them and a text is one
document's; a reserved name has neither the profile's frontmatter nor an entry of the
ledger; an entry for the section is of the subtree). `MigrateInv` relates what there is to
the record as it was: each name has what it had, what some run made of the document that
belongs there, or nothing because the overview has its text (`PapersInv`), and documents are
on their way to the same names throughout (`Landing`). Of a run it says which record it
loaded and which files are left (`Midway`): the instance is as it was until all else is
written, since another run would derive audiences from it, and no reserved name loses its
prose before the overview has it and the ledger was written. That is the order of `Turn`.
The part `DeniersMayDeny` of `RecordSurvives` rests on `AuthorityInv`: where there is no policy
yet, the run that has to write it plans one that names whoever denied what its ledger gains.
Entries of a run that was stopped in between (`unvouched`) are excluded: section 6 says what
becomes of them. Each theorem has a hypothesis: `RecordSurvives` that every run has a DSN
(`RowsAreRead`: without it `migrate_republishes` refutes `DenialsFollowTheText`), `RerunsSettle` that no document
points at a reserved name (`PointersStay`: section 6 says what becomes of one that does).

*Only model-checked:* liveness, which is beyond the prover: `SearchesRecover`,
`EveryPassageOnce`, `EveryCallerEnds`, `HeardAgain`, `DoorDrains`, `AnswersComeBack` and
`EveryActEnds`. Every other property of a passing run is a theorem.
`LiftedOnlyByItsRevocation` is no theorem: `takedown_race` refutes it.

## 6. Findings

Disagreements between what the repository says and what its code does, each the
counterexample of a run; `PROJECT.json` quotes the lines.

| Run | What happens |
| --- | --- |
| `shrink_race` | The shrink guard compares with a generation that is no longer active when the flip takes the lock; a large drop is served. |
| `ledger_lock_broken` | A waiter judges one holder's lock and removes, by name, the next holder's: two writers at once. No act is lost (`ActsKept`), but an entry is decided from stale text. |
| `takedown_race` | The slower of two takedowns applies the file it parsed earlier and lifts the newer denial; the next fold repairs it (`FreshFoldAgrees`). |
| `prewarm_crash` | A connection the store ends while the prewarm waits for the others to connect has no listener: the error is uncaught and the door dies at boot. |
| `discovery_guess` | An authorization server that is away at the first resolution leaves the guessed place of its keys memoized for the life of the process; it is not heard again. |
| `ingest_reread` | An ingest checks the record it loaded and then reads each document again from disk: what it publishes was never built. |
| `migrate_republishes` | With a ledger and no DSN, a migration moves a denied `index.md`; the re-run it asks for can no longer tell what the row was of, and the text is shown. |
| `deck_images` | The check judges the links of documents and summaries; a bundle and a site also take the images that a deck, a quiz or slides show, from directories the check would refuse. `ReadersStayInside` speaks of documents and summaries. |

Where checked properties stop holding when the constants are changed:

- two collectors in `Generations`: each reaps its own choice on either side of a grace
  boundary, and fewer than two complete generations remain. `gc.ts:10` says two always do.
- a pause as long as the grace between finalize and flip (`MaxPause = 3`): the flip commits
  between a collector's readings and its commit, and what it published is reaped.
- three evaluations in `Staging`, with kills: the lock is broken as in
  `ledger_lock_broken`, and `StageIsThisBuilds` fails (`FewAreMortal` in section 5).
- edits while a verb runs in `Publish` (`EditsDuring`): `ksor build` asks git whether the tree
  is dirty before it reads the tree, so a save in between gives a lock that says "not dirty"
  of content that is in no commit, and `LockIsHonest` fails.
- a connection for every request in `PgPool` (`PerRequest`): a caller that waited out a busy
  pool is handed the slot of a finished request, its timer fires while that slot connects,
  and a busy pool is reported as a failed connection, not shed (`DownMeansAway` fails).

What the modelling met, each excluded by name in the property it concerns:

- *Takedown.* A fold of a file that lacks a branch's denial overwrites the very row it
  reports as still refused (`ledger-apply.ts:153`). The shrink baseline is read in one
  transaction and recorded in another, so a later run can record fewer entries than an
  earlier one (`record/ledger.ts:521`). Removing a torn lock makes the acts of an authority
  that has since departed be judged again.
- *Reading order.* `plain-tree.ts:123` takes a folder's place from all its documents, drafts
  too, `index-file.ts:46` from the viewer's only; `lib/order-rule.ts:2` says there is one rule.
- *Migrate.* A run stopped between writing `overview.md` and deleting `index.md` or
  `README.md` is refused when run again, though `migrate/index.ts:565` calls it re-runnable
  (`RerunsSettle` excludes `HalfMoved`). A pointer to a reserved name that this very run moves
  passes and is stranded (`:417`). A run stopped when it had written the ledger and not yet the
  policy leaves denials that the next run takes for accounted (`:606`): its policy names the
  operator and not those who denied (`:477`, `:745`), and the check refuses the ledger
  (`site/record/check.ts:281`) until somebody edits the policy, though `:569` calls an
  interrupted run simply re-runnable (`DeniersMayDeny` excludes `unvouched`). The ledger is
  read at load and written whole without the
  ledger's lock (`:449`).
- *Study.* Two tabs overwrite each other's grades; a stale tab of an old deck drops a new
  card's; a card removed and restored starts anew.
- *Calibration.* Scores closer than a thousandth can round to a floor that is on one of them
  (`calibrate/math.ts:205` and `:502`); the generation is counted and sampled in separate
  statements (`run.ts:193`, `:223`). `AbstentionIsHonest` asks for a margin of a thousandth.
- *Outline.* An address tries stable ids first: with a folder `knowledge/` inside the bundle,
  `knowledge/a` opens another document than its row. Of documents `a/x` and `b/a/x`, `a/x` is
  ambiguous and the error offers `a/x` again (`tools.ts:89`).
- *Embedding.* `lib/embedding.ts:66-72` says that a revoked key aborts an ingest with its queue
  pending. `isFatal` (`openai.ts:72`) knows a spent quota only and gemini has none, so a revoked
  key, like a miscounted, misshapen or torn answer (`embedding.ts:142-159`), is in neither class:
  `worker.ts:119-130` splits the batch down to single passages and quarantines them, healthy as
  they are. In the run `services` the error "key" does. Near the end of a queue the failures
  stay under the allowed share and the generation completes without those passages; the next
  build asks for them again. `QuarantineIsJust` is therefore of the errors a provider does
  classify, and of refused texts.
- *Providers.* `gemini.ts:81` does not take a connection that breaks in the body for a blip,
  `openai.ts:38` does. The default of `KSOR_QUERY_EMBED_TIMEOUT_S` is 10 s in one file and 5 s in
  another (`embedding.ts:109`, `query-embed.ts:64`).
- *Console.* `--scope node` of a folder, or an id typed with `.md`, writes a denial that denies
  nothing and exits 0 (`takedown-verb.ts:111` refuses the trailing slash only). An ingest that
  refuses an unledgered row says that nothing was written after it committed the ledger's fold
  (`commands.ts:591`).

## 7. Limits

Data is abstracted to what the properties tell apart: documents, queries, vectors and
entries are model values; node counts stand for content. Ranking, wording, formats, SQL
permissions and cryptography are outside. The bounds of section 4 are all the checks
cover; the proofs of section 5 have none. Module by module:

- *Generations*: one corpus per tenant; one gc at a time. *Staging*: the watcher of the
  development server is left out. *Door*: what the probe reads is left out.
- *ReadPlane*: one agent suffices in the run, since agents share only what other actors
  write; the proofs have any number. A denial
  that lands after the gate has judged is served by the door's rows, not by the gate
  (`NothingBarredServed` looks at answers, not at what was published). `PgPool`:
  `KSOR_DB_CONNECT_PER_REQUEST` is off in the run.
- *BearerGate*: a pulled key is refused once the key set and the verdict have aged, at most
  `JwksTtl + PosTtl`. *SchemaLadder*: two transactions do not begin at the same instant;
  `compatible_from` is written and never read (`schema.ts`).
- *Publish*: a stamp moved back under an old approval passes change control; the git facts
  are read before the tree is loaded; deck links and the mode that only checks are left out.
- *Surfaces*, *Abstention*: dates are a small clock, or left out. *Passages*: characters are
  counted, not read; JSX is a tag with or without attributes. *Study*: rounding of halves is
  nondeterministic; counts of reviews and lapses are left out.
- *Console*: one operator at a time (races are in `Takedown` and `LedgerLock`).
- *Scaffold*: the user's files are considered with the by-name form, and the directory that
  a run works in place in is there from the start. Two runs in place in one directory, a
  by-name stage renamed into it, or a file put beside an in-place run after its check, can
  be overwritten and removed by a rollback that removes all that the run names.
