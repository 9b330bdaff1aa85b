# TLA+ models of the web crawler core

This directory holds TLA+ models of the concurrent core of the Go web crawler in
`src/Go/webcrawler`, and of the router of the gee web framework
(`src/Go/gee-web/3-router`), together with the TLC configurations that check
them. Every
module is translated from the Go source. `PROJECT.json` maps each definition to
the lines it models and lists the runs, mutants, findings and hazards.

## The system

Data flows from the request pool to the download workers (Downloader modules),
then to the response pool and the analysis workers (Analyzer modules). New
requests go back to the request pool and items go to the item pool, which the
pipeline workers drain. Errors go to an error pool.

* **Buffer** (`toolkit/buffer/buffer.go`) is a channel of fixed capacity.
  * `Put` and `Get` never block.
  * `Close` sets a closed flag by CAS, then takes `closingLock` for writing to
    run `close(ch)`.
  * `Put` holds the read side of `closingLock` from its `Closed()` check until
    its send.
* **Pool** (`toolkit/buffer/pool.go`) is a set of buffers circulating through the
  channel `buffCh`.
  * Blocking `Put` and `Get` range over `buffCh`. Each call receives a buffer,
    works on it, and gives it back in the defer of `putData`/`getData`.
  * A putter grows the pool under the write lock after `5 × bufferNumber` failed
    puts.
  * A getter retires an empty buffer, without taking a lock, after
    `10 × bufferNumber` failed gets.
  * `Close` CASes `closed`, then closes and drains `buffCh`.
* **Scheduler status** (`scheduler/status.go`, `scheduler/scheduler.go`).
  * `checkAndSetStatus` checks and sets the status under `statusLock` with
    `checkStatus`'s rules.
  * `Init` and `Start` end with a deferred write of either the final status or
    the status they read.
  * `Init` runs `initBufferPool`, `resetContext` and `registerModules`.
  * `Start` recovers panics.
* **Registrar** (`module/registrar.go`) maps each type to its instances, guarded
  by one RWMutex. `Get` rescores every instance and picks one with a
  minimum-score loop.
* **Analyzer** (`module/local/analyzer/analyzer.go`, `toolkit/reader/reader.go`).
  * `Analyze` checks the response.
  * It reads a body once into a multiple reader.
  * Each parser gets a fresh reader over that body. `appendDataList` rewrites
    request depths, and nil data and nil errors are filtered out.
  * It updates the counters that the registrar's scores read.
* **SN generator** (`module/sn.go`) hands out serials `start..max` cyclically.

The gee router (`gee-web/3-router/gee/router.go`) is a separate program.
`addRoute` inserts a pattern into the trie of its method and stores the handler
under `method + "-" + pattern`. `handle` finds a node with `getRoute`, which
binds the `:name` and `*name` parameters, and then calls the handler stored
under a key.

## Modules

| Module | Models | Actions |
|---|---|---|
| `Buffer` | `myBuffer` with concurrent putters, getters and closers | `PutRLock`, `PutCheck`, `PutSend`, `Get`, `CloseCAS`, `CloseLock`, `CloseFinish` |
| `Pool` | pool.go, with the buffer's `Put`/`Get` as single steps | `PutBegin`, `PutTake`, `PutRangeEnd`, `PutData`, `GrowLock`, `GrowCount`, `PutReturn`, `GetBegin`, `GetTake`, `GetRangeEnd`, `GetData`, `Shrink`, `GetReturn`, `CloseCAS`, `CloseDrain` |
| `SchedulerStatus` | status.go and scheduler.go `Init`/`Start`/`checkAndSetStatus`/`initBufferPool`/`resetContext`/`registerModules`; `Stop` from spec 4.5 | `InitCheck`, `InitFinish`, `StartCheck`, `StartFinish`, `StopCheck`, `StopFinish` |
| `Registrar` | registrar.go | `Register`, `Unregister`, `Get`, `Clear` |
| `Analyzer` | analyzer.go and reader.go | `AnalyzeBegin`, `ParseStep`, `AnalyzeEnd` |
| `SNGenerator` | sn.go | `GetRead`, `GetUpdate` |
| `GeeRouter` | gee-web 3-router router.go; `node.search` from the trie's matching rule | `AddRoute`, `Handle` |

Each `MC*` module fixes the model values and inputs of one setting.

### Correspondence with the code

* **Atomic steps.** A step is one atomic region of the code: an atomic load, add
  or CAS, one channel operation, or one section under a lock.
* **Buffer.** `Put` is three steps, so a `Close` can run between its `Closed()`
  check and its send.
  * The RWMutex gives a waiting writer precedence, and the model states that
    precedence directly: `PutRLock` is disabled while `writerWaiting` holds.
  * A send on the closed channel would panic, recorded as `panicked`.
  * No abstract FIFO is checked against `Buffer`. A refinement to a bounded
    queue mapped at `close(buf.ch)` holds by the channel's own semantics (a
    send on a closed channel and a second close are stutters), whatever the
    locking, so it says nothing about the close race; `NoSendOnClosed` does.
* **Pool.** The unlocked shrink test is evaluated in `GetData` and the shrink is
  a later step (`Shrink`), which reproduces the code's check-then-act gap. The
  grow path holds the write lock across `GrowLock` and `GrowCount`.
* **SchedulerStatus.** `CheckStatus` follows `checkStatus` rule by rule. The
  defer order is kept: on a panic in `Start`, the status defer runs before the
  recover.
* **Registrar.** The loop of `Get` is the recursive operator `SelectFrom`,
  applied in every map order (`Orders`). Scores are any value of `Scores`,
  because `SetScore` is not in the source tree.
* **Analyzer.** Parsers are user functions, so a parser call returns any element
  of `Outputs`. `AppendAll` translates the data loop and `NonNilErrors` the error
  loop. A response carries its own body and the body of the request it
  answers; `AnalyzeBegin` reads the request's, as line 77 does. The counters belong to `stub.ModuleInternal`, which is not in the tree;
  they are modelled through the calls `Analyze` makes to them.
* **GeeRouter.** A path is the sequence `strings.Split` returns. Each segment
  is kept as its first byte (`:`, `*` or other) and the rest. `ParsePattern`
  and `BindFrom` are recursive translations of `parsePattern` and the binding
  loop of `getRoute`.
  * A joined `*` value is kept as the sequence of segments it joins.
  * A map key `method + "-" + s` is the pair `<<method, s>>`.
  * `trie.go` is not in the source tree. `Matches` states which registered
    pattern a search can return, and `Handle` may pick any pattern that
    matches.

## Runs

| Run | cfg | Expect | Shows |
|---|---|---|---|
| pool_concurrent | MCPool.cfg | pass | See the four Pool properties below. |
| pool_shrink_race | MCPoolShrinkRace.cfg | violation | Two getters pass the unlocked shrink test together, and `bufferNumber` reaches 0 on an open pool. |
| pool_put_after_close | MCPoolCloseAck.cfg | violation | A Put overtaken by Close returns nil without storing its item. |
| status_sequential | MCStatusSeq.cfg | pass | The status moves only along the lifecycle (`LegalTransitions`). Workers never run on rebuilt pools (`RunningConsistent`). A transient status is always left again (`StatusSettles`, under fairness). |
| status_concurrent_start | MCStatusRace.cfg | violation | With two fair callers, a rejected Start or Init writes back a stale transient status that is never left again (`StatusSettles`). |
| status_start_panic | MCStatusPanic.cfg | violation | After a recovered panic, Start returns an error but leaves the status STARTED instead of the status it found. |
| buffer_close_race | MCBuffer.cfg | pass | No send on the closed channel (`NoSendOnClosed`). A Close that won the CAS completes although putters keep taking the read lock (`CloseCompletes`). |
| analyzer_concurrent | MCAnalyzer.cfg | pass | Output requests carry depth d+1 and no nil datum is returned (`DepthRule`). |
| analyzer_response_body | MCAnalyzerBody.cfg | violation | The parsers of an Analyze call read the body of the HTTP request, not of the response (`ParsersReadResponseBody`). |
| sn_duplicate | MCSNRace.cfg | violation | Two concurrent Get calls under the read lock return the same serial. |
| gee_router_dispatch | MCGeeRouter.cfg | violation | `POST /static/css/geektutu.css` is matched to `/static/*filepath` and gets the documented parameters. `handle` then looks up the key of the raw path and calls a nil handler. |
| registrar_ops | MCRegistrar.cfg | pass | Get returns instances of the requested type only. When no instance scores 0, Get returns a minimum-score instance in every map order. |

The Pool properties checked by `pool_concurrent`:

* Items are neither lost nor duplicated.
* `total` and `bufferNumber` stay exact.
* `bufferNumber` stays within its maximum although two putters pass the
  unlocked grow test together.

Every property of a passing run has a mutant in `PROJECT.json` that breaks it.
Among them:

* Put without the read lock, which breaks `NoSendOnClosed`;
* an RLock that ignores a waiting writer, which breaks `CloseCompletes`;
* `checkAndSetStatus` returning the new status as the old one, which breaks
  `StatusSettles`;
* `appendDataList` without its depth rewrite, which breaks `DepthRule`.

### Findings

The findings are in `PROJECT.json`:

* the unlocked shrink race, which leaves the pool with no buffer so every caller
  blocks;
* Put returning nil after Close;
* stale status write-backs by rejected calls, which leave the scheduler stuck in
  a transient status;
* the defer order in Start, which defeats the rollback after a panic;
* `Analyze` parsing the request's body instead of the response's
  (`analyzer.go:77`; spec 6 and the comment on that line say the response);
* duplicate serials from a generator that writes under a read lock;
* the gee router's `handle`, which looks the handler up under the request path
  instead of the matched pattern, so every `:` or `*` route panics (the
  counterexample is a `*` route).

The hazards list also records things without a run of their own, because runs
are kept to one per question:

* Init returning nil when rejected (`scheduler.go:78`). A return-value
  property for Init fails in three steps, and in the panic run that shorter
  trace would hide the panic.
* the score-0 selection rule, where spec 4.4 is ambiguous;
* Unregister's lock mismatch (`registrar.go:77`, never called by the code);
* the router's `parsePattern` applied to the request path, which drops
  everything after a segment starting with `*`. Every matched `*` request
  already fails on the handler lookup, so `MCGeeRouter` leaves such paths
  out and its counterexample stays on the dispatch bug.
* `NewSNGenertor` with `start > max` (`sn.go:39`). The constructor does not
  check the range; the first id is already past `max`, the equality wrap test
  never holds, and serials run on to 2^64-1. `SNGenerator` assumes
  `Start <= Max`, the range the constructor documents; the constructor has
  no caller in the tree.
* `next` passing `max` (`sn.go:74`) after two racing calls both read `max-1`
  and both increment; `sn_duplicate` stops earlier, at the duplicate serial
  the same race produces.
* Start from STOPPED after an Init that failed in `registerModules`. This
  depends on `checkBufferPoolForStart` and `Stop`, neither of which is in the
  source tree, so it is left out.

## Bounds

* **Pool.**
  * One-slot buffers and at most two of them make growth reachable. The factors
    are the code's 5 and 10, and the failure counter is saturated at its
    threshold.
  * Three items over two putters give concurrent growers and a Put racing Close.
  * Two getters appear only in the shrink-race run, where they break
    `NeverEmptied` at once. With one getter `NeverEmptied` would only restate
    the shrink guard, so the passing run does not check it.
* **Buffer.**
  * Capacity 2 and two items allow full and partly full channels.
  * Two putters are the least that can keep the read lock held forever without
    writer precedence.
  * Two closers exercise the losing CAS.
* **Status.** One caller covers every sequential outcome. Two callers show the
  race.
* **Analyzer.** Two callers with two calls each, two parsers, and four response
  kinds:
  * a readable request body;
  * a nil request body (a GET) at depth 1;
  * a request body whose read fails;
  * a rejected response.

  Each carries a response body that differs from its request body, so the
  body the parsers read tells the two apart.

  The three parser outputs are a wrong-depth request with a nil datum, an item
  with a nil error, and an error.
* **Registrar.** Three instances, one of them mislabeled, with scores `0..3`.
* **SN generator.** `Start = 1` and `Max = 3`; two goroutines making three
  calls between them, one cycle, so any repeated serial is a duplicate.
* **Router.** Two methods and three patterns: a static route, a `:` route and
  a `*` route, shaped like `main.go` and the examples in `getRoute`'s comment.
  Four request paths: one per route and one that matches nothing. Routes and
  requests come in any order.

## Fairness

* **Buffer.** `Buffer!Spec` has weak fairness for each putter's and each
  closer's steps, because the Go scheduler keeps running runnable goroutines.
  `CloseFinish` is disabled while readers hold the lock, and the fairness is
  enough only because a waiting writer blocks new readers. This is RWMutex's
  writer precedence, and the `PutRLockIgnoringWriter` mutant shows that without
  it the Close can starve.
* **Scheduler.** `SchedulerStatus!FairSpec` gives weak fairness to each caller's
  finishing step (`Finish(c)`). A call past its check blocks on nothing but
  `statusLock`.
* **Other modules.** No fairness is assumed. Runs that end use a stuttering
  `Terminating` or `Finished` step. The registrar run disables deadlock checking
  only because the fatal error in Unregister ends the process.

## Not modelled

* **Not in the source tree.** The worker loops (`download`, `analyze`, `pick`,
  `sendReq`, the request filter), `Stop`, `checkBufferPoolForStart`, the module
  stub (`SetScore`, counters), `CheckType` and `SplitMID` are absent. `Stop` is
  modelled from spec 4.5. The others are abstracted as nondeterministic outcomes
  or as the calls made to them.
* **Error types.** `errors/errors.go` only constructs and formats error values.
* **Separate programs.** `go-rpc`, the bookstore and every part of `gee-web`
  except the stage-3 router are tutorial programs unrelated to the crawler.
  * The gee contexts and the logger format replies.
  * `Next` and `Fail` of stage 7 walk a handler list.
  * None of them has concurrency or a protocol of its own to check.
  * The stage-7 `Next`/`Fail` chain is a sequential loop over a slice; the
    router is the one gee part whose behaviour depends on state built by
    earlier calls, so it is the one modelled.
* **Runs not added.** The rejected Init returning nil (`scheduler.go:78`) and
  the Unregister lock mismatch (`registrar.go:77`) are recorded as hazards
  with notes. Each would be a violation run of its own, and the project keeps
  its twelve runs for the questions listed above.
* **The serial cycle in isolation.** A sequential check of the wrap of `Get`
  was dropped for the analyzer's body run; the wrap only goes wrong through
  the read-lock race, which `sn_duplicate` already shows.

## Plan for later work

* An abstract bag-of-items specification of the pool, with `Pool` shown to
  refine it.
* A composition of the status machine with a pool (Init closing pools under
  running workers).
* Liveness for the pool's blocking Put and Get under fairness. An item whose
  Put returned nil is eventually returned by a Get unless the pool is closed.
  Under weak fairness for putters and getters this holds on `MCPool`, but the
  check takes about four and a half minutes. It needs a smaller configuration
  of its own.
