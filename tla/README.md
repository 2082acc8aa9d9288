# TLA+ models of gogopool-go

This directory holds TLA+ specifications of the client-side access layer in
`src/`, the TLC configurations that check them, and `PROJECT.json`. That file
lists the components, runs, mutants, the definition-to-source map, the findings
and the hazards.

## 1. The system

The layer sits between application code and the protocol's contracts. It has
four reusable pieces; every domain package is built on them.

| Part | Source | State | Operations |
|---|---|---|---|
| Registry and TTL caches | `gogopool/gogopool.go` | `addresses`, `abis`, `contracts` maps of `{value, time}`, each behind its own `RWMutex`; `CacheTTL = 300` s | `GetAddress`, `GetABI`, `GetContract` (two goroutines via `errgroup`), the `get/set/deleteCached*` helpers, `GetAddresses/GetABIs/GetContracts` fan-outs, `MakeContract` |
| Per-name getters | every domain file, e.g. `node/node.go:706-737` | one package-level `sync.Mutex` per contract name and package | `getGoGoNodeManager` etc.: `Lock; defer Unlock; ggp.GetContract(name)` |
| Event log retriever | `utils/avax/logs.go` | none of its own; mutates the caller's `intervalSize` and `fromBlock` `*big.Int`s | `GetLogs` (defaulting, unchunked call, chunk loop) and `FilterContractLogs` (upgrade history then the query) |
| Batched parallel fetcher | `auction.GetLots`, `dao.GetProposals`, `minipool.GetMinipoolAddresses`, `node.GetNodes`, `trustednode.GetMembers`, ... | the result slice | a count read, then sequential batches of one goroutine per index, `errgroup.Wait` per batch |
| Address precomputer | `utils/address_generation.go` | none | `GetNodeSalt`, `GenerateAddress` (manager address from the registry, then CREATE2) |
| Participation estimator | `node/node.go:318-704` | none | head, member count, member list and per-member `GetLogs`, then the chi-square statistic; the latest-interval map (`GetTrustedNodeLatest*Participation`) |
| DAO proposal fetchers | `dao/proposals.go` | the result slices | `GetProposals`, `GetDAOProposals` and their `WithMember` variants: a count, a name phase (DAO filter), batches of detail goroutines, each fanning out one goroutine per field |
| Id-returning transactions | `auction.CreateLot`, `trustednode.SubmitProposal` | none | a count read with `opts` nil, the transaction sent, the id computed from the count returned |
| Deposit retrieval | `utils/deposit_retrieval.go` | none | `GetDeposits` (a `GetLogs`, group by pubkey, sort by block and tx index) |

**How the parts interact.**
- Every domain call goes through a getter, so through the getter's mutex and then `GetContract`.
- `FilterContractLogs` and `GenerateAddress` also call `GetContract`, `GetAddress` and `GetABI` directly, without a mutex.
- The log retriever is used by `FilterContractLogs`, the participation estimators, the lifetime reward calculators and `GetDeposits`. Several of these pass one `intervalSize` pointer to several `GetLogs` calls.
- The chain is the environment. Its head grows, and a governance upgrade (`BootstrapUpgrade`, `dao/trustednode/dao.go:438`) rebinds a name to a new address and ABI in storage.

**What is hard.**
- **Registry:** concurrent misses on one name. The cache is checked, filled and stored as separately locked steps, so correctness rests on the getter mutex. Some names have two different mutexes, one per package: `gogoNetworkPrices` and `rocketMinipoolManager`. Some callers use no mutex at all.
- **Upgrades:** an upgrade can land between the address read and the ABI read of one `GetContract`.
- **Log retriever:** the arithmetic of the chunk loop, and the in-place mutation of the caller's `big.Int`s.
- **Participation estimator:** `uint64` arithmetic near zero, and submission blocks read after the head snapshot.

**What must hold.** These are the spec's invariants:
- Cache entries are never served past the TTL.
- A handle is built from one address and one ABI resolved together.
- A batch fetch returns complete-and-ordered results or nothing.
- Chunk boundaries never drop or duplicate a log.
- Every call returns.

## 2. Modules

### Registry.tla (with MC_Registry.tla)

**What it models.**
- A set of goroutines `Procs`. `Init` chooses the program `Calls` from `Workloads`: for each goroutine, the calls it may make. Each goroutine repeatedly makes one call from `Calls[p]`:
  - a getter for a name under a named mutex (`Locks`);
  - a direct `GetContract`;
  - a direct `GetAddress` or `GetABI`.
- `storage[n]`: the deployment version bound to name `n` on chain.
- `clock`: `time.Now().Unix()`.
- `cached["addr"|"abi"]` and `contracts`: the three maps. A missing key is absence from the function's domain.
- `holder[l]`: the owner of mutex `l`.

**How state and actions map to the code.**
- `pc[p]` follows `GetContract`: `check` → `delete` → `wait` → `idle`. A getter first passes through `lock`.
- `child[p][k]` follows the `GetAddress` and `GetABI` goroutines: `check` → `delete` → `fetch` → `set` → `done` or `err`. A direct `GetAddress` or `GetABI` call uses the same child steps.
- Each step is one locked helper of the code (`getCached*`, `deleteCached*`, the storage read, `setCached*`). The interleavings TLC explores are exactly those the locks allow.
- `GetContractJoin` is `errgroup.Wait`: it waits for both children. On an error it returns without caching. Otherwise it caches the handle `{addr, abi, time, addrAt, abiAt}`, where the last two are the read times of its parts.
- `Tick` advances the clock. `Upgrade(n)` is `BootstrapUpgrade`.
- `installed` is a history variable: the newest version ever written to each address or ABI entry.

**Fairness.**
- Weak fairness on every goroutine step. A running goroutine keeps running, and RPCs eventually answer or fail.
- Strong fairness on `AcquireLock`. Go's `sync.Mutex` switches to starvation mode and hands the lock to a waiter that has waited more than 1 ms.
- `Tick` and `Upgrade` are not fair.

### LogRetriever.tla (with MC_LogRetriever.tla)

**What it models.**
- One caller goroutine making a sequence of `GetLogs` calls (`queries`). `Init` chooses it from `Callers`, together with the `intervalSize` it passes (`requested`, from `IntervalSizes`, `Nil` meaning nil). Every call receives the same `intervalSize` (`interval`). This is what `FilterContractLogs` does, and what the participation estimators do: one `getLatestMemberCountChangedBlock` plus one `GetPricesSubmissions` per member.
- The chain: `events`, the blocks that carry a matching log (chosen in `Init` over all subsets), and `head`, which grows through `Mine`.
- A log is identified by its block. Address and topic filters are abstracted because chunking splits only on block numbers.

**Actions.**
- `ResolveFrom`: fromBlock defaulting, or the `deploy.block` read.
- `ResolveTo`: toBlock defaulting, the in-place decrement, and the first clamped chunk.
- `SingleQuery`: the `intervalSize == nil` path.
- `QueryChunk`: one loop iteration. It queries the chunk, appends, and either returns or advances and clamps.
- `*Fails`: the three RPCs that can fail. After a failure the caller returns the error.

**Fairness.** Weak fairness on the successful steps only. Failures and new blocks are never forced. So `CallerReturns` asks whether the calls finish while the node keeps answering.

**Bound.** An `ASSUME` keeps `intervalSize + 1 >= Len(queries)` for every caller shape and every interval. The shared interval then never goes below -1. Below -1 the chunk loop walks `start` downwards forever, and the state space is infinite.

### BatchFetch.tla, FetchSnapshot.tla (with MC_BatchFetch.tla)

`BatchFetch` models `trustednode.GetMembers` (`dao/trustednode/dao.go:35-120`),
which is the batch pattern as the participation estimators use it. The call has
three steps:

1. `GetMemberCount`.
2. `GetMemberAddresses`: batches of goroutines doing `GetMemberAt(mi)`.
3. Batches of goroutines doing `GetMemberDetails(addresses[mi])`.

Each batch ends with `errgroup.Wait`. Any error returns an empty slice.

**State.**
- `hist`: the chain's member list, one entry per block.
- `Pinned`: whether every read uses a fixed block (`opts` set) or the latest block at the moment of the read (`opts == nil`).
- `workers`: the goroutines of the current batch.
- `addrs` and `details`: the two slices.

**Environment.**
- `Join` appends a member.
- `Leave` moves the last member into the leaver's slot. This is how the protocol's address-set storage deletes, and it is an assumption about the contract: the contract is not in `src/`.
- A read past the end returns the zero address.

**Abstract spec.** `FetchSnapshot` is the promise in one atomic step. The call returns an error, or the list as it stood at one block between the call's start and its return. `BatchFetch` is checked against it through `Abs == INSTANCE FetchSnapshot WITH apc <- ..., start <- pin`. The property `Snapshot == Abs!ASpec` includes the abstract weak fairness on the return, so it also says the call finishes.

**Fairness.** Weak fairness on the caller's steps and on each goroutine's successful read. The goroutines of a batch are all started and `Wait` blocks until all of them return. Failures and joins or leaves are not forced.

### ParticipationEstimator.tla (with MC_ParticipationEstimator.tla)

`ParticipationEstimator` models `CalculateTrustedNodePricesParticipation`
(`node/node.go:410-495`), with the two helpers it calls:
`getLatestMemberCountChangedBlock` (375-407) and `GetPricesSubmissions`
(318-343). The balances variant (346-372, 497-570) is the same code over
another event, so it is not modelled separately.

**State.**
- The chain: `head`, the trusted `members`, the member-count-change logs `changes` (`{at, success}`), and the price submissions `subs` (`{node, blk, at}`: the node, the block it submitted for, and the block that logged it).
- The estimator: one program counter `pc`, plus the locals of the function: `cur` (currentBlockNumber), `minBlock`, `latest`, `count`, `start`, `passed`, the member list `listed`, the members still to visit `todo`, and the results `actual` and `table`.

**Arithmetic.** Every `uint64` operation is `U(x) == x % 2^Width`. The `int64(fromBlock)` conversion inside `GetLogs`' caller is `Int64`, and a negative `fromBlock` is refused by the node, so it is an error.

**Actions.** One per RPC of the function, in the code's order, each with its failure action:
- `ReadHead`: `BlockNumber` and `minBlock`;
- `LatestChange`: the newest-first scan that skips refuted challenges (`NewestChange`, RECURSIVE);
- `ReadCount`: `GetMemberCount`, `startBlock` and `intervalsPassed`;
- `ReadMembers`: `GetMembers`;
- `VisitMember`: one iteration of the member loop, including `GetPricesSubmissions` and the table writes; an index at or beyond `intervalsPassed` is the Go panic (`pc = "panic"`);
- `Return`.

The chain moves between any two of them: `Mine`, `Join`, `Leave`, `ChallengeRefuted`, and `Submit` (a member submits for the current or the previous boundary). `GetLogs` is taken as one atomic read of the logs up to the head; `LogRetriever` checks that it returns exactly those logs.

**Bounds.** Two nodes (with symmetry), `Freq = 2`, `Lookback = 2`, `Width = 6` and `MaxBlock = 8`, starting at head 3. Then:
- the chain starts young enough that `minBlock` wraps, and it grows past that;
- a member change, a refuted challenge and submissions can land before, inside and after the window;
- the head can move during the member loop.

**Fairness.** None. The properties are invariants, and no liveness is claimed: every RPC may fail.

**The latest-interval map.** `Init` may instead choose `fn = "latest"`: `GetTrustedNodeLatestPricesParticipation` (671-704) with `GetLatestPricesSubmissions` (645-668).
- `LatestReadHead`: the frequency and the header.
- `LatestReadMembers`: `GetMembers(ggp, nil)`.
- `LatestReadSubmissions`: `fromBlock = cur / freq * freq`, the submitters logged from `fromBlock` to the head (`LatestSubmitters`), and the table: every listed member false, then every submitter true (`ParticipationMap`).

Choosing the function in `Init` adds the two state spaces instead of multiplying them.

### ProposalFetch.tla (with MC_ProposalFetch.tla)

`ProposalFetch` models the four proposal fetchers of `dao/proposals.go`. `Init` chooses the caller's `shape` from `Shapes`: a DAO name or `AllDAOs` (all proposals), with or without member data. It also chooses `pinned`: `opts` names a block, or is nil as in the tests.

**State.**
- `hist`: the chain's proposal list, one entry per block. Proposals are appended (`Propose`) and change (`Change`: votes, state, receipts, abstracted to `ver`); a proposal's DAO never changes.
- The call: `pc`, `count`, the batch start `bsi`, the name goroutines `workers` and `names`, the selected `ids`, the detail goroutines `wstat`, their field goroutines `fstat` (status and stored value), `details` and `result`.

**Actions.** In the code's order, each RPC with its failure:
- `ReadCount`: `GetProposalCount`; for `AllDAOs` the ids are `1..count`.
- `StartNameBatch`, `NameWorker(i)` (`GetProposalDAO(i + 1)`), `NamesWait`, then `FilterIds` (the DAO filter of `GetDAOProposalIDs`).
- `StartDetailBatch`, then per detail goroutine `FieldRead(i, f)` for each field and `DetailJoin(i)`, which stores `details[i]` only if its own `Wait` saw no error; `DetailsWait` and `EndDetails`.

Detail fields are abstracted to the DAO and one changing field (two with member data): the properties only need a field that never changes and one that does.

**Bounds.** Two DAOs, at most 3 proposals (the chain starts with at most 2, so one can be proposed during a call), one change per proposal, 3 blocks, batches of 2. So both batch loops run twice, the second batch is clamped, and a proposal can be created or changed between any two reads.

**Fairness.** Weak fairness on the caller's steps and on each goroutine's successful read: `Wait` blocks until every goroutine returns. Failures and chain steps are not forced.

### IdPrediction.tla (with MC_IdPrediction.tla)

`IdPrediction` models `auction.CreateLot` (`auction/auction.go:517-531`) and `trustednode.SubmitProposal` (`dao/trustednode/proposals.go:221-235`), which every `Propose*` of the trusted-node DAO ends in. `Init` chooses which.
- `ReadCount(c)`: the getter and `GetLotCount(ggp, nil)` or `GetProposalCount(ggp, nil)`, the count of the latest block.
- `Transact(c)`: the transaction is sent (added to `pool`), and the call returns `lotCount` (`CreateLotId`) or `proposalCount + 1` (`SubmitProposalId`).
- `Mine(t)`: the chain mines a pending transaction, any sender first but one sender's in nonce order, and the contract gives it the next index (lots are 0-based, proposals 1-based, as `GetLots` and `GetProposals` read them). `OtherCreate`: another account's creation.

Sending returns before mining: that is the transport's `sendTransaction` as the spec describes it. The binding is not under `src/`, so `Mine` is modelled from the spec.

### MinipoolIndex.tla (with MC_Collections.tla)

`MinipoolIndex` models the readers of the minipool manager's index in
`minipool/minipool.go`. `Init` chooses one of three functions, and whether
`opts` pins a block or is nil:

- `GetMinipools` (40-46): `GetMinipoolAddresses` (96-137, a count at `opts`,
  then batches of `GetMinipoolAt(mi)`), then `loadMinipoolDetails` (58-93,
  batches of `GetMinipoolDetails`, whose exists and pubkey goroutines are one
  `Worker` step; the pubkey is abstracted away);
- `GetPrelaunchMinipoolAddresses` (139-167): `GetMinipoolCount(ggp, nil)`, the
  latest block whatever `opts` says, then pages `getPrelaunchMinipools(offset,
  limit)` at `opts`, appended (`Page`, `PageFails`, `EndPages`);
- `GetMinipoolCountPerStatus` (336-384): the same count and pages of
  per-status counts, added status by status into `tally`.

**State.** `hist[b]` is the status of each indexed minipool at block `b`. The
index is append-only (its statuses include dissolved and withdrawable, and
nothing in `src/` removes a minipool), so the minipool at index `i` keeps the
address `i + 1`; `Create` appends one in prelaunch and `SetStatus` changes
one's status. A page returns the minipools of its index range that exist at
the block it reads. The append-only index and the page clamping are
assumptions about the contract, which is not in `src/`.

**Properties.**
- `MinipoolsSnapshot`: `GetMinipools` refines `FetchSnapshot` (through
  `Abs`, which maps the index to its address list), with `opts` pinned or nil.
  With nil the count and each read see different blocks; it holds because the
  count is read first and the index only grows.
- `PagedPinnedExact`: with `opts` pinned, the prelaunch list and the counts
  are exactly those of the pinned block (`PrelaunchOf`, `CountsOf`), although
  the number of pages comes from the latest block.
- `NilScanCountsEach`: with `opts` nil the counts add up to at least the
  count read at the start and at most the index's length now, and no
  prelaunch address is listed twice. Equality with the start count does not
  hold: a minipool created during the scan falls inside the last page.

**Composition.** `MC_Collections` extends `BatchFetch` and instantiates
`MinipoolIndex` and `LotFetch` over renamed variables (`mhist`, `mpc`, ...,
`lhist`, `lpc`, ...). `Init` chooses `reader`, and the components that do not
run keep one fixed initial state each, so the state spaces add. Each fairness condition is conditioned on its reader
running, so no behaviour is excluded by the fairness of the reader that is not
running.

### LotFetch.tla (with MC_Collections.tla)

`LotFetch` models `auction.GetLots` and `auction.GetLotsWithBids`
(`auction/auction.go:39-122`) with the per-field fan-out of `GetLotDetails`
(`125-240`) and `GetLotDetailsWithBids` (`243-271`). `Init` chooses the
function (`withBids`) and whether `opts` is pinned.

- State:
  - `hist[b]` is the lot list at block `b`. A lot is its creation block,
    its bid count and the bidder's share of the bids.
  - `fstat[i][f]` is field goroutine `f` of lot goroutine `i`.
  - `wstat[i]` is the lot goroutine of the current batch.
  - `details` is the result slice, and `result` is what the call returned.
- Fields: the 14 getters fall into four kinds, and each kind is one field.
  - `startBlock`: fixed at creation.
  - `totalBid`: changed by bids.
  - `priceAtBlock`: the price at the block the call reads.
  - `addressBid`: `GetLotAddressBidAmount`, with bids only.
- `GetLotDetailsWithBids` waits on two groups, one nested in the other. This
  has the same outcome as one group of every field, and `DetailJoin` is that
  group's `Wait`.
- The chain steps are `CreateLot` and `PlaceBid`. A bid is by the bidder or
  by someone else.
- Property `PinnedLots`: with `opts` pinned, a successful call returns every
  lot of the pinned block, in order. Each record holds all its fields at that
  block.
- Bounds, set in `MC_Collections`: two lots, one bid each, and batches of one
  lot, so the batch loop runs twice.

### DepositRetrieval.tla (composed in MC_LogRetriever.tla)

`DepositRetrieval` extends `LogRetriever` with `utils.GetDeposits`
(`utils/deposit_retrieval.go:40-114`). Its one `GetLogs` call, from
`startBlock` to the latest block with the caller's `intervalSize`, is
`LogRetriever`'s caller shape `DepositsQueries`. When that call returns,
`Process` does the rest of the function in one step: the loop over the logs
(`UnpackLog`, the pubkey filter, the amount, the append to
`depositMap[pubkey]`) and the trailing `sortDepositData` on every slice of more
than one deposit. `ProcessFails` is a failing `UnpackLog` or `binary.Read`.

`LogRetriever` identifies a log by its block, because the chunk loop only
splits on block numbers. Here a returned block stands for all its
`DepositEvent` logs, `BlockDeposits[b]`, in log order. `MC_LogRetriever` fixes
them: two deposits for `p1` in one transaction of block 2, and an unwanted
`p3` deposit before a `p1` deposit in block 3.

`sort.Slice` sorts slices of at most 12 elements by insertion sort, and every
model slice is shorter. So `SortDepositData` is that insertion sort
(`RECURSIVE InsertDeposit`) with the code's less function, which compares the
block and the transaction index only.

**Property.** `DepositsExact`: a successful `GetDeposits` gives each wanted
pubkey exactly its deposits of the range, in chain order, with the deposits of
one transaction in log order. Its mutant moves an element past equal ones, as
an unstable sort can.

`getCasperDeposit`'s failure is not modelled. It returns before `GetLogs` runs
and before anything changes.

## 3. Runs

The registry runs use two goroutines, `TTL = 1`, `MaxTime = 3` and `MaxVersion = 2`. These bounds are enough for these reasons:
- An entry can be fresh, then stale, then refilled within `MaxTime`.
- One upgrade can land at any point of a call.
- `registry_single_guard` chooses between the getter program and the direct program (an unguarded `GetContract` racing a direct `GetAddress` and `GetABI`) in `Init`, so one run covers both.

The batch runs use members `{a, b, c}`, at most 3 at once, 3 blocks and batches of 2. The minipool readers use at most 3 minipools, statuses `{"prelaunch", "staking"}`, and batches and pages of 2, so a scan takes a full page and then a partial one, and a minipool can be created or change status between any two pages. Two batches per phase means both the "same batch" and the "next batch" interleavings occur.

The estimator runs use the bounds given with the module above.

For the log runs, `MaxBlock = 5`, `InitialHead = 3` and `DeployBlock = 1`. Every subset of blocks carries logs, so every boundary block is tested with and without a log.

| Run | Expect | What it shows |
|---|---|---|
| `registry_single_guard` | pass | Either two goroutines sharing one getter mutex, or an unguarded `GetContract` racing a direct `GetAddress` and `GetABI`. No contract entry is filled twice on one miss (`NoOverwrite`, an action property). When every call goes through the getter, the address and ABI caches never go back to a version older than one already cached (`GuardedCacheNeverRegresses`). Every call returns (`CallsReturn`). |
| `registry_handle_mismatch` | violation | `HandleConsistent`: an upgrade between the two reads caches an `{old address, new ABI}` handle. |
| `registry_handle_stale` | violation | `HandleWithinTTL`: a fresh handle carries an address read more than TTL earlier. |
| `registry_address_race` | violation | `CacheNeverRegresses`: `FilterContractLogs`' unguarded `GetAddress` writes the pre-upgrade address back. |
| `logs_chunked` | pass | The three caller shapes (`FilterContractLogs`, the participation estimator, `GetDeposits`), with `intervalSize` nil or 3 shared by all calls. `GetDeposits` returns each wanted pubkey's deposits exactly, in chain and log order (`DepositsExact`). Each call returns exactly its range's logs, in order (`LogsExact`). No chunk exceeds the requested size (`ChunkWithinLimit`). The caller finishes (`CallerReturns`). |
| `logs_interval_hang` | violation | `CallerReturns`: `FilterContractLogs` with `intervalSize = 1` hangs on its second call. |
| `batch_pinned` | pass | `MC_Collections`. With `opts` pinned, `GetMembers` refines `FetchSnapshot` (`Snapshot`): every member list or error it returns is a snapshot of the pinned block. `GetMinipools` refines it with `opts` pinned or nil (`MinipoolsSnapshot`). The paged minipool readers are exact at a pinned block (`PagedPinnedExact`), and with `opts` nil count each minipool of the start once (`NilScanCountsEach`). `GetLots` and `GetLotsWithBids` with `opts` pinned return the pinned block's lots, every field read at that block (`PinnedLots`). |
| `batch_duplicates` | violation | `MembersDistinct`: with `opts == nil`, `GetMemberAt(1)` reads `b` before `a` leaves and `GetMemberAt(0)` reads `b` after, so `b` is listed twice. |
| `estimator` | pass | Whenever the estimator returns, its window starts after the last successful member change (`WindowAfterLastChange`), and its table holds exactly the on-step submissions of the window (`TableExact`). The latest-interval map lists every member, marks every member that submitted in the head's interval, and marks nobody for an earlier submission (`LatestTableCurrent`). `TypeOK` only states the variables' sets; its table clause holds by the shape of the index computation. The uint64 wrap of the index is checked by `NoPanic` in `estimator_panic`. |
| `proposals` | pass | Every shape, with `opts` pinned or nil, while proposals are created and change. Pinned, a successful call returns the caller's proposals exactly as at the pinned block (`PinnedSnapshot`). Pinned or not, it lists exactly the ids of its DAO among the first `count`, in id order (`ListMatchesCount`). Every call returns (`CallReturns`). |
| `id_back_to_back` | violation | `IdsMatch`: two `CreateLot` calls in a row, the second sent before the first is mined, both return lot 0. |
| `estimator_panic` | violation | `NoPanic`: a late submission, or one logged while the member loop runs, gives an index outside the table, and the code panics. |

Each property of a passing run has a mutant in `PROJECT.json`. A mutant is a plausible bug in the mapped definition that TLC catches, for example:
- the getter lock removed;
- the error path keeping the lock;
- the chunk start at `end` instead of `end + 1`;
- the `- 1` dropped;
- the loop exit test moved past the end;
- the error of `wg.Wait()` ignored;
- the batch end not clamped to the count;
- the member-change scan taking the oldest change first;
- the participation index computed as a signed difference;
- the `block % freq` filter dropped;
- the deposit insertion sort moving an element past equal ones;
- the latest map's `fromBlock` taken as the head, not rounded down to the interval;
- the proposal name goroutine reading `GetProposalDAO(pi)` instead of `pi + 1`;
- the DAO filter over ids `0..count-1`;
- a detail `Wait` that waits only for the goroutines that succeed;
- `GetMinipoolAddresses` reading its count with nil;
- a page read at the latest block instead of at `opts`;
- a page offset advanced by one less than the limit;
- the lot total-bid getter called with nil instead of `opts`.

`registry_two_mutexes` is no longer a run. It showed `NoOverwrite` violated when two packages' mutexes guard one name (`network/prices.go:91` and `node/node.go:716`); its slot went to `id_back_to_back`. `MC_Registry` keeps `TwoMutexesProgram`, and the case is listed as a hazard in `PROJECT.json`.

An earlier run, `batch_latest`, showed with `Snapshot` that `GetMembers(ggp, nil)` can return a list with a member whose `Exists` is false. It was dropped to keep the set of runs small. `batch_duplicates` now carries the same finding: with `opts == nil` the list is no block's list.

## 4. Findings

| Finding | Location | Run |
|---|---|---|
| Mixed handle | `gogopool.go:218` | `registry_handle_mismatch` |
| Handle older than the TTL | `gogopool.go:220` | `registry_handle_stale` |
| Returned lot index or proposal id names another entry | `auction/auction.go:522`, `dao/trustednode/proposals.go:226` | `id_back_to_back` |
| Cache regression from an unguarded `GetAddress` | `utils/avax/logs.go:40` | `registry_address_race` |
| Shrinking chunks, then a non-terminating `GetLogs` once the shared `intervalSize` reaches zero | `utils/avax/logs.go:88` | `logs_interval_hang` |
| Member list that existed at no block (the participation estimator's `GetMembers(ggp, nil)`) | `node/node.go:446` | `batch_duplicates` |
| Duplicate member | `dao/trustednode/dao.go:102` | `batch_duplicates` |
| Index-out-of-range panic in the participation table | `node/node.go:471` | `estimator_panic` |

`PROJECT.json` gives the details of each.

## 5. Plan

The modules, in order of importance:

1. **Registry.** Done. Still to add:
   - the `GetAddresses`, `GetABIs` and `GetContracts` fan-outs;
   - `MakeContract`.
2. **LogRetriever.** Done for `GetLogs`. Still to add:
   - the aliasing of `fromBlock` by callers that reuse it;
   - the address-history union of `FilterContractLogs`.
3. **BatchFetch.** Done for `GetMembers`, for the minipool readers in `MinipoolIndex` and for the lot readers in `LotFetch`, with refinement of `FetchSnapshot`. `ProposalFetch` covers the two-phase proposal fetchers, with their 1-based ids. Still to add:
   - the torn detail record under `opts` nil (`proposals.go:288`): the model reaches it, but no run states it;
   - two concurrent top-level fetches, and their combined goroutine count.
4. **ParticipationEstimator.** Done for the prices estimator and the latest-interval map. Open points:
   - memberCount against len(members) is modelled, but no run has a property about it;
   - the young-chain case, where `minBlock` wraps and every call errors, is modelled, but no run has a property about it;
   - the latest map's entries for submitters that are no longer members;
   - the floating-point statistics are not modelled.
5. **IdPrediction.** Done. A pass run for a chain that mines each transaction before the next read (the tests' setting) would show the ids right there.
6. **AddressPrecompute.**
   - `GenerateAddress` over Registry: the manager address can predate an upgrade.
   - CREATE2 as an injective function over small sets, checked against the formula's inputs.
7. **DepositRetrieval.** Done, composed with `LogRetriever`. Still to add: the `startBlock` aliasing, which no caller in this repository observes.

Item 6 needs a run of its own; the project keeps its runs to twelve. The registry pass runs were merged by choosing the workload in `Init`, and that slot went to `proposals`; `registry_two_mutexes` gave its slot to `id_back_to_back`.

## 6. Not modelled

- `contracts/rocket-storage.go`: generated binding.
- The per-contract setting, token and DAO wrappers: one contract call each, through a getter the Registry models. The per-field fan-outs of `GetMinipoolDetails` and `GetNodeDetails` follow the pattern that `ProposalFetch` checks for `GetProposalDetails` and `LotFetch` checks for `GetLotDetails`. `GetNodes` follows the one-phase pattern of `GetProposals`; they are not mapped separately. `GetNodeMinipools`, `GetNodeMinipoolAddresses` and `GetNodeValidatingMinipoolPubkeys` are `MinipoolIndex`'s batch code over per-node getters.
- A lot record torn under nil `opts` (`auction.go:258`), with `AddressBidAmount` above `TotalBidAmount`: `LotFetch` reaches it, but no run states it.
- A nil-`opts` prelaunch scan that matches no single block (`minipool.go:159`): `MinipoolIndex` reaches it, but a violation run for it would need a thirteenth run.
- `GenerateAddress` and `GetNodeSalt` (`utils/address_generation.go`): Keccak and CREATE2 are hashing; the registry read inside is the Registry's.
- ABI encoding, transaction signing and hashing: the RPC transport's job.
- The tests under `src/tests`.
- Wall-clock precision and the 300-second TTL are scaled down to a unit clock with `TTL = 1`. Only the comparison `now - time <= TTL` matters.
