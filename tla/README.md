# TLA+ models and proofs of fiume-rl

fiume-rl is a rate-limiting service in Rust: clients ask over TCP or HTTP
whether a request of some cost may proceed, one of five algorithms decides, and
what the algorithm remembers of a client lives in a versioned key-value store,
in process or in an etcd that several replicas share.  This directory holds
TLA+ models of the service, TLC configurations that check them on small
instances, and TLAPS proofs about them.  Source paths below are relative to the
repository (`src/algorithms/...`, `clients/python/...`).

    tlc -config FixedWindow.cfg MCFixedWindow.tla
    tlapm FixedWindowProofs.tla
    tlc -config Service.cfg MCService.tla
    tlapm ServiceProofs.tla

## The system

| component | state | operations | talks to | what is hard |
|---|---|---|---|---|
| check loop (in every `src/algorithms/*.rs`) | none between checks; per check: attempt, clock reading, snapshot, expected version | `check(client, resource, cost)`: up to five rounds of clock, `get`, evaluate, `cas` | store, wall clock | other tasks write between `get` and `cas`; the clock is read before an await; failed and half-failed store calls; the caller disappears |
| fixed window | count, window | evaluate, count and wait | loop | a reading of another window than the stored one, before or after it |
| sliding window counter | previous count, count, window | weigh, shift windows | loop | the same, plus the shift |
| sliding window log | timestamps | prune, append | loop | timestamps that arrive out of order |
| token bucket | tokens, time of last refill | refill, take | loop | a refill time that moves back; truncation |
| leaky bucket | queue depth, time of last leak | leak, add | loop | the same |
| store interface (`store/mod.rs`) | key -> (value, version) | `get`, `put`, `cas`, `ping` | | versions are what the loop rests on |
| local store (`store/local.rs`) | map under a mutex, version counter | as above | | `put` stamps before it locks |
| etcd store (`store/etcd.rs`) | client under an async mutex | as above, each an RPC or two | etcd | lost calls, lost answers, a mutex held across RPCs without timeout |
| TCP server (`server.rs`) | one task per connection | accept, read frame, check, write frame | limiter, codec | pipelined frames, refused frames, peers that close midway |
| HTTP server (`http_server.rs`) | one handler future per request | `POST /check`, three probes | limiter, store | handlers dropped midway, headers, readiness |
| startup and end (`main.rs`, `config.rs`) | configuration, store, limiter | build, bind, serve; `select!` of the two servers | all | one server ends the other; what a restart forgets; unvalidated values |
| command-line client (`bin/client.rs`) | one TCP connection | request, answer, next request | TCP server | ends at the first error |
| Python client and middleware (`clients/python`) | one TCP connection | `check`, `dispatch`, `verify_rate_hmac` | TCP server, HTTP server | no timeout, no reconnection, no number on answers |
| codec (`flatbuf/mod.rs`, `schema/`) | | build, verify, read | | defaults that are left out on the wire |
| deployment (`k8s/`, `helm/`, `docker-compose.yml`) | replicas, etcd | readiness and liveness probes | HTTP, TCP | probes that do not fit the server; clocks of several hosts |

A check runs as one Tokio task.  Tasks of one server share its limiter and its
store; replicas share only the etcd.  The keys carry the algorithm's name, the
client and the resource, and a check touches one key, so keys do not interact
and the models have one key.  Nothing holds a lock across a check: the only
thing that orders two checks is the version the `cas` compares.

What makes each part correct:

* loop: a check is decided against what is stored at that moment, once; it ends;
  it is refused for contention only if there was contention;
* fixed window, sliding counter: a window lets in at most its quota; the count
  is what was let in; the advised wait leads to a window with room;
* sliding counter besides: what it lets in keeps the weighted sum of two windows
  within the limit, so that they never see twice the limit between them;
* sliding log: no stretch of the window's length lets in more than the quota;
* buckets: over any interval, at most the capacity plus the rate times the time;
* stores: every call behaves as on one atomic register per key, at most once;
  a version is never given twice;
* servers and clients: every request gets one answer, its own, or an error; what
  goes ahead was let in first; the headers say what the decision says;
* process: a restart forgets no more than its store; a pod gets traffic while its
  store answers.

The hazards, each at its line, are listed in `PROJECT.json`.

## Modules

| module | models | contents |
|---|---|---|
| `Decision` | `limiter.rs` | answers of a check |
| `CheckLoop` | the loop of `fixed_window.rs` l.46-105, the same in all five | variables and actions of the loop, its types, `RoundsInOrder`, `ContentionHasCause` |
| `AtomicLimiter` | what `RateLimiter::check` promises | abstract specification: a check is one step |
| `WindowLedger` | windows of seconds (l.55-56) | account of what each window let in, `WindowBudget`, `WindowLimit` |
| `FixedWindow` | `fixed_window.rs` | the limiter, its invariant, its refinement of `AtomicLimiter` |
| `SlidingWindowCounter` | `sliding_window_counter.rs` | the limiter and its properties |
| `RateLedger` | | account of what a bucket let in since an observer began to count |
| `TokenBucket` | `token_bucket.rs` | the limiter and its properties |
| `LeakyBucket` | `leaky_bucket.rs` | the limiter, its refinement of `TokenBucket` |
| `SlidingWindowLog` | `sliding_window_log.rs` | the limiter and its properties |
| `StoreCalls` | the trait of `store/mod.rs` | calls, answers, the map of versioned entries |
| `StateStore` | what a store promises | abstract specification: a call takes effect in one step; a failed one at most once, perhaps late |
| `LocalStore` | `store/local.rs` | the store, its refinement of `StateStore` |
| `EtcdStore` | `store/etcd.rs` | mutex, RPCs, failures; refinement of `StateStore` |
| `Messages` | `flatbuf/mod.rs`, `encode_response` of `server.rs` | which slots a builder writes, what a reader gives for a missing one, what the verifier requires |
| `TcpServer` | `server.rs` | connections, frames, the task of a connection |
| `TcpClients` | `bin/client.rs`, `client.py`, `middleware.py` | the peers: command-line client, application, a peer of other make |
| `HttpServer` | `http_server.rs`, `hmac_utils.py` | handlers, status, headers, signature and its verification |
| `Process` | `main.rs`, `config.rs` | startup, end, choice of store and secret |
| `Service` | all of these | `TcpClients`, `HttpServer` and `Process` composed with `AtomicLimiter`, and their properties |
| `Pod` | probes of `http_server.rs`, `k8s/`, `helm/` | a replica under a kubelet |
| `CheckLoopProofs` | | what the loop's actions keep, for any limiter that uses them; arithmetic of windows |
| `FixedWindowProofs`, `TokenBucketProofs`, `LeakyBucketProofs`, `SlidingWindowCounterProofs`, `SlidingWindowLogProofs` | | theorems about the limiters |
| `StoreProofs` | | theorems about both stores; the local one is its instance `Local` |
| `ServiceProofs` | | theorems about the codec and the service |
| `MC...` | | symmetry sets, homes of tasks, an algorithm for `Service`, the manifests for `Pod` |

### The loop

`pc[t]` says where task t stands: `idle`, before the answer of `get`, before the
answer of `cas`, or asleep between rounds.  Each action is what runs between two
awaits:

| action | code (`fixed_window.rs`) |
|---|---|
| `Begin` | l.46-56: entry, first clock reading, call of `get` |
| `Get` | l.58-65: the store answers; a failed etcd call reads as an absent key (`etcd.rs` l.34) |
| `Commit` | l.67-95: evaluate, the `cas` succeeds, return the decision |
| `Conflict` | l.80, l.96-104: the `cas` fails; next round, or after the last one refuse |
| `CommitUnseen` | the same, where etcd did write and the answer was lost (`etcd.rs` l.70) |
| `Wake` | l.50-56: the sleep ends, the clock is read again |
| `Abandon` | the HTTP handler is dropped with its connection |
| `Tick` | the true time passes |

The evaluation is folded into the step of the `cas`, since it reads only what
the task already holds.  A limiter module supplies `Evaluate(state, now, cost)`,
a pure operator cut into the quantities the code computes (`Fits`, `CountAfter`,
`UntilWindowEnds`, ...), and composes the loop's actions with its account.
Variables named as history (`start`, and the accounts) are not program state.

Clocks: `now` may be any reading at most `Drift` behind the true time: replicas'
clocks are not synchronised by anything in the code.  With `Drift = 0` all
readings are exact; every violation below is shown with exact clocks.

Faults: a task in `Unreliable` may have its etcd calls fail before or after they
are applied and may lose its caller.  With `Unreliable = {}` the store is the
in-process one, or an etcd that answers.  Both kinds of task share the key, as
replicas with and without a working connection do.

### The stores

A call is entered (`Call`, `Enter`), takes effect, and returns (`Return`).  The
limiters make their calls through `CheckLoop`, which has one key and takes the
effect of a call for granted; these modules say why it may.

`LocalStore` has one action per critical section: `get` and `cas` are one, `put`
is two, since it takes its version before the lock (`PutStamp`, l.39) and stores
after (`PutInsert`, l.40).

`EtcdStore` has one action per step of an RPC:

| action | code (`etcd.rs`) |
|---|---|
| `Enter` | the call joins the line of its replica's mutex |
| `Send` | `lock().await` returns for the first of the line, the RPC is sent |
| `ExecuteSent`, `ExecuteGet` | external: etcd executes the first RPC, the second |
| `Receive` | the answer arrives: the call ends and unlocks, or a cas whose transaction did not succeed sends its second get (l.70-78) |
| `Break` | the RPC returns an error, before or after it was executed |
| `Drop` | the caller's future is dropped, holding the mutex or waiting for it |
| `ExecuteLate` | external: a write whose caller gave up is executed after all |

The refinement maps a call to the instant etcd executes it, and a failed cas to
the instant of its second get: by then the version it reports is current, and it
cannot be the expected one again, as versions never come back.

In `CheckLoop` a write whose answer is lost lands before its round ends, or
never; in `EtcdStore` and `StateStore` it may also land later.  For the key, and
for every other check, a write that lands late is the write of one more
unreliable task with the same cost and the same reading, which stays before its
`cas` that long and is then dropped: the limiters' properties speak of the
reliable tasks and of the key, and the theorems hold for any set of tasks.
`put` is called by no limiter, and is in the stores' modules since the trait
offers it.

### The service

`Service` is the server process with what talks to it.  It does not repeat the
check loop: it instantiates `AtomicLimiter`, which the loop implements
(`ChecksAreAtomic`), and lets a check of an unreliable task be charged without
an answer as that module does.  Time stands still in it; what time does to a
limiter is in the limiter's module.  Where state and steps come from:

| model | code |
|---|---|
| `link[c]` | the TCP connection of peer c: `up`; `half` once the peer closed; `cut` once the server did |
| `up[c]`, `down[c]` | frames and answers in flight, in order |
| `task[c]`, `Accept`, `TakeRequest`, `RefuseFrame`, `EndOfStream`, `WriteAnswer` | `handle_conn`, `server.rs` l.59-96, one action per stretch between awaits that a peer can tell apart |
| `awaited[c]`, `Connect`, `Send`, `Receive`, `Fail`, `Quit` | the client's loop, `bin/client.rs` l.32-81, `client.py` l.92-109; an application keeps a connection that is cut, l.93 |
| `SendOther` | a peer that is not of the repository: a second frame before the first answer, an empty frame, one without a client |
| `call[h]`, `Arrive`, `Respond`, `Disconnect` | `check_handler`, `http_server.rs` l.123-191 |
| `phase`, `Advance`, `End`, `Forgets` | `main.rs` l.27-123 |
| `Check` | `limiter.check(..).await`, from the call to the decision |
| `opened[c]`, `longest[c]` | history of c's connection: the exits of the server before it was made, the longest frame c wrote to it |
| `granted`, `paid[t]`, `spent[t]`, `due[c]` | history: what was let in, in all and for each client, what went ahead of each, the decisions owed to each peer |

An exit may come at any moment: it takes every task, handler and check with it,
may lose answers in flight, and empties the store if that is the local one.  The
process is started again with the same configuration.  `Pod` has the same
`Process` under a kubelet, with an etcd that comes and goes.

### Abstractions

* One key in the limiters; contents of names, wording of `reason`, `limit` and logging left out.
* Bytes under a key are the state they encode.  The code treats bytes that do
  not parse as an absent state; nothing in the service writes such bytes.
* `f64` quantities are exact: tokens and queue depth are counted in units, of
  which a token has `Unit` and a millisecond moves `Rate`; the sliding counter's
  estimate is scaled by the window length.  Truncation to whole milliseconds and
  whole tokens is kept; rounding in the last bit is not, with one exception.
  The sliding counter's wait (`sliding_window_counter.rs` l.90) is exactly a whole
  number of milliseconds, so there rounding decides what truncation leaves: the
  product may fall just short (0.0999... of 10 s at second 9: 999 ms, not 1000).
  `MsLeft` takes a millisecond off at the seconds in `ShortSeconds`, a constant
  that may be any set of seconds; the product is never off by as much as one
  more.  Elsewhere rounding can turn a request that fits exactly into one that
  does not, tell a `remaining` of one less, or cut another millisecond off the
  wait of a bucket whose rate is no binary fraction; the models do not show that.
* The length of the sleeps (2, 4, 8, 16 ms) is abstracted: a sleep ends whenever
  it may.
* `Answer.stamp` and `verdict = "contended"` are in no answer of the code; they
  name the write an answer came from, and tell the refusal of l.98-104 from the
  others, which the code does in `reason` only.
* Configurations are sane: windows and rates are positive (`LimitAssumption`,
  `BucketAssumption`, ...).  The code does not check it.
* A TCP frame is read in one step: its two reads share nothing with anybody, and
  a frame whose sender closes before its end is as good as none.  Lengths are
  what `MAX_MSG_BYTES` tells apart: no client looks at the length of what it
  sends (`client.py` l.96-98, `bin/client.rs` l.53-57), so every request is sent at
  the greatest length that is taken or at the first that is not (`Lengths`).
* An HTTP body that does not parse is answered by axum and changes nothing.
* The HMAC is taken to be injective.  Clocks do not enter its model: the header
  is verified the moment it is made.

## What is checked

Bounds are named constants: `MaxClock`, `RequestsPerTask`, `MaxCalls` (guards in
the actions), `MaxAttempts` (2 or 3 where the code has 5: what matters is that
the last round differs from the others), and the tasks.  Two tasks, one of them
unreliable, with up to three rounds each give every hazard of the list: a late
writer, the writer it overtook, and a check that suffers from it; the account's
observer may start at any moment in between.  In the sliding counter each task
asks twice, as its previous window must be filled too, and the limit of 5 takes
two requests of cost 2 in one window and leaves less than two in the next.  Its
window has two seconds, and the wait is a millisecond short in the second of
them.  (The real product falls short from windows of 5 s on, which are out of
TLC's reach; the theorem takes any window and any such seconds.)  In the stores,
three callers and three or four calls give a write between another call's two
steps and a call after that.  Deadlock checking is off since tasks make a bounded number of
requests and then stop.  Symmetry is used over what is alike, and only where no
liveness is checked.

`Service` has an application, a foreign peer and an HTTP caller; two requests in
all, of cost 1 against a bucket that holds one token (`Capacity = Unit`), so that the
second is denied unless the first was forgotten, and is told to wait a second and a half; `MaxAttempts = 1` and one
decision that may go unanswered (`MaxVersion`); one exit; both kinds of store.
The bucket holds whole tokens in it, as requests take them whole.
Two requests are enough for each property to fail when the code is changed: two
frames sent ahead, a request before an exit and one after it, one over TCP and
one over HTTP.  `MaxMsgBytes = 1` makes 0, 1 and 2 the three lengths that matter; a request of
any client has length 1 or 2.

| run | instance | shows |
|---|---|---|
| `FixedWindow` | two tasks, one unreliable, three rounds, clocks that lag by up to a second, two windows, fairness | `IInv` (the invariant the proofs use), `CountIsAdmissions`, `WindowBudget`, `ContentionHasCause`, `AdvisedRetrySucceeds`, `ChecksAreAtomic`, `EveryCheckEnds` |
| `TokenBucket` | two tasks, one unreliable, three rounds, lagging clocks; capacity 2.5 tokens, 1.5 tokens a millisecond, so that truncation happens | `IInv`, `RateBound`, `ReliablyCharged`, `PaysByRound`, `RetrySucceedsSoon`, `ChecksAreAtomic` |
| `LeakyBucket` | two tasks, one unreliable, two rounds, lagging clocks; two requests, 1.5 leaked a millisecond | `RateBound` (with it, that the queue never overflows), `IsTokenBucket` |
| `SlidingWindowCounter` | two tasks, one unreliable, two requests each, two rounds, three windows, cost 2 against a limit of 5 so that the weight decides, a wait that is short in one second of two | `IInv`, `WindowBudget`, `CountsAreAdmissions`, `AdmitsWithinEstimate`, `NoBoundaryBurst`, `RetrySucceedsNextWindow`, `ChecksAreAtomic` |
| `SlidingWindowLog` | two tasks, one unreliable, two rounds, lagging clocks, a window of 2 ms | `IInv` (with it, that the log never outgrows the limit), `NoBurstInOrder`, `BurstPerRewind`, `LogIsExact`, `RetryForOneSucceeds`, `ChecksAreAtomic` |
| `LocalStore` | three threads, two keys, four calls | `IInv`, `IsStateStore` |
| `EtcdStore` | two tasks of one replica, one of them unreliable, and one of another; three calls; fairness | `IInv`, `IsStateStore`, `EveryCallReturns` |
| `Service` | see above; fairness | `IInv`, `AnswersMatch`, `AdmissionsPaid`, `QuotaPerState`, `CutForCause`, `RetryAfterLeadsIn`, `EveryRequestEnds` |

The properties, in words:

* `CountIsAdmissions`, `LogIsExact`, `CountsAreAdmissions`: what is stored is what
  was let in, whatever tasks race and whatever calls are lost.  This is what the
  `cas` is for.
* `WindowBudget`: the quota of a window, plus once the quota for every write that
  moved the stored window back.  `RateBound` is the same idea for a bucket:
  capacity, plus the refill of the time that passed, plus once more the refill
  of every stretch the stored time was moved back over; of the leaky bucket it
  says this by its queue and its leak.  They say exactly how
  far the limits hold, and the runs below show that the excess is real.
* `BurstPerRewind` says it for the sliding log: a stretch of the window's length
  sees the limit once, and once more for every write whose reading was older
  than the one before.  In the instance it sees more than the limit.
* `AdmitsWithinEstimate`, `NoBoundaryBurst`: an admission of the sliding counter
  keeps the estimate within the limit, taken of what the two windows really let
  in and not of the stored counts; so two windows in a row let in at most twice
  the limit less `MaxRequests / WindowSecs`.  Both speak of a key none of whose
  writes was rewound.
* `ContentionHasCause`: five lost rounds mean five foreign writes.
* `ChecksAreAtomic`: seen from outside, the loop is `AtomicLimiter`: the awaits
  between clock, `get` and `cas`, the sleeps and the lost rounds cannot be told.
* `IsTokenBucket`: under tokens = capacity - queue the leaky bucket is the token
  bucket, answer by answer; a bound proved of one holds of the other.  The loop
  is the same on both sides, so what the loop does wrong is mirrored and not
  seen here: that is what `RateBound` of the leaky bucket is run for.
  `ReliablyCharged`, `RetrySucceedsSoon` and `ChecksAreAtomic` of `LeakyBucket`
  say what the mapping means of its queue; they are theorems, and runs check
  them on the token bucket.
* `AdvisedRetrySucceeds` and its weaker forms: a denied caller that waits as told
  is let in if nobody came meanwhile.  It holds as stated for the fixed window;
  the token bucket needs a millisecond more, the sliding counter up to a window
  and that millisecond, the sliding log keeps it for cost 1.  Without the
  millisecond the sliding counter's is false: where one request fills a window,
  a wait that was cut short leads to the last second of the next window, in
  which a second's weight of the first is still too much.
* `ReliablyCharged`: a task whose calls are answered pays exactly when it is told
  to proceed, whatever happens to the calls of others.
* `PaysByRound`: what lost answers cost at most.  A check pays its price no more
  than once a round, and one that is let in has paid it.
* `IsStateStore`: whatever the order of critical sections, or of RPCs, failures
  and late executions, a call has its effect at one instant and at most once,
  and no cas writes over an entry other than the one its version names.
* `AnswersMatch`: an answer is, field by field, the decision on the request its
  reader takes it for, charged at the cost that was asked.  Nothing on the wire
  names the request: it rests on the order of reads and writes, and on a
  connection dying with whatever is on it.  It also holds the codec to its word:
  what a builder leaves out is what the reader fills in.
* `AdmissionsPaid`: what a client does was let in first, and for that client, over
  connections that break, handlers that are dropped and exits between a decision
  and its answer: no answer serves twice or reaches another.
* `QuotaPerState`: with etcd a restart grants nothing; with the local store each
  one grants the quota again.  This is the price of the local store, stated.
* `CutForCause`: a client of the repository is cut off because the server it
  connected to ended, or because it wrote a frame above `MAX_MSG_BYTES` to that
  connection.  The second does happen: `check()` of the Python client sends names
  of any length, the server closes without an answer (`server.rs` l.69-72), and
  the application has no connection from then on (`client.py` l.93).  What it
  sends up to the limit, the limit included, is taken.
* `RetryAfterLeadsIn`: the header is the wait with the rest of a second cut off,
  one at least (the comment at `http_server.rs` l.144 has it rounded up): a
  caller that comes back a second after it is let in.
* `EveryRequestEnds`: every request over TCP or HTTP ends with an answer or an
  error.  Fairness is weak, per connection, on what its task and its check do,
  and on the client's reading of what arrived; exits, starts and new requests
  are not fair.  It assumes that a check ends, which `EveryCheckEnds` shows, and
  so, through it, that etcd answers or its RPC fails: the clients have no
  timeout of their own.
* `EveryCheckEnds`, `EveryCallReturns`: liveness.  Fairness is weak, per task, on the steps of a check
  under way (`Advance`): Tokio runs a task that is ready, a sleep ends, a call of
  the store returns or fails.  Beginning a request, hanging up and the clock are
  not fair.  For a call of etcd (`Progress`) this assumes that every RPC is
  answered or fails: the code sets no timeout and leaves that to the transport.

Disagreements between code and comments, each a run that TLC must find violated:

| run | comment | what the code does |
|---|---|---|
| `FixedWindowLimit` | `fixed_window.rs` l.4 "every subsequent request in that bucket is rejected" | a check that read the clock before the boundary writes the old window over the new one, which then starts over |
| `TokenBucketCharge` | `token_bucket.rs` l.4-5 "consumes `cost` tokens" | a lost answer of etcd makes a check pay twice, or pay and be refused |
| `HttpMac` | `hmac_utils.py` l.46 "Return True iff the header is authentic and fresh" | the server signs `true` or `false` (`http_server.rs` l.172-175), the verifier formats `True` or `False` (l.71): no header of the server verifies |
| `PodReadiness` | `http_server.rs` l.17-19 "`GET /health/ready` ... maps to k8s readinessProbe" | the manifests probe `GET /check` (`k8s/` l.49, `helm/` l.54), which is routed for POST only: 405, and no pod becomes ready |

`FixedWindowLimit` comes from the clock being read before `get` is awaited, and
the state being brought to that reading even if the stored one is later.  The
other limiters share it: it is why `RateBound` and the sliding counter's
`WindowBudget` count rewinds, and why `NoBurstInOrder` and `LogIsExact` speak of
readings that reach the store in order.  Smaller disagreements are stated by the
form of a property rather than by a run: the token bucket's wait is truncated
(`RetrySucceedsSoon` needs a millisecond more), `Retry-After` is too
(`RetryAfterLeadsIn`), the leaky bucket lets a burst up to its capacity in at
once, where `leaky_bucket.rs` l.5 has "a perfectly steady output rate"
(`RateBound`, `IsTokenBucket`), and a `put` overtaken between `local.rs` l.39 and l.40
stores an older version over a newer one, which no caller of the service can
meet and which `IsStateStore` allows.

## What is proved

For every set of tasks and costs, every configuration, any drift, any number of
rounds and any set of unreliable tasks:

| module | theorem | statement |
|---|---|---|
| `FixedWindowProofs` | `Invariance`, `TypeCorrect` | `Spec => []IInv`, `Spec => []TypeOK` |
| | `NoAdmissionLost` | `Spec => []CountIsAdmissions` |
| | `QuotaKept` | `Spec => []WindowBudget` |
| | `ContentionEarned` | `Spec => []ContentionHasCause` |
| | `AloneWithinLimit` | with one task and an exact clock, `Spec => []WindowLimit` |
| | `WaitsEnough` | `Spec => []AdvisedRetrySucceeds` |
| | `Atomicity` | `Spec => ChecksAreAtomic`, the refinement of `AtomicLimiter` |
| all five limiters | `TakesFromRoom` | at any one time, decisions take what they let in from a room that is the limit or capacity at first |
| `TokenBucketProofs` | `Invariance` | `Spec => []IInv` |
| | `RateKept` | `Spec => []RateBound` |
| | `PaidAsAnswered` | `Spec => []ReliablyCharged` |
| | `PaysForRounds` | `Spec => []PaysByRound` |
| | `WaitsEnough` | `Spec => []RetrySucceedsSoon` |
| | `PastTheWait` | what a bucket denies and can hold, it lets in at any time past the wait |
| | `Atomicity` | `Spec => ChecksAreAtomic` |
| `LeakyBucketProofs` | `Invariance` | `Spec => []IInv` |
| | `TokenBucketRefined` | `Spec => IsTokenBucket` |
| | `RateKept`, `PaidAsAnswered`, `WaitsEnough` | `Spec => []RateBound`, `[]ReliablyCharged`, `[]RetrySucceedsSoon` |
| | `Atomicity` | `Spec => ChecksAreAtomic` |
| `SlidingWindowCounterProofs` | `Invariance` | `Spec => []IInv` |
| | `QuotaKept` | `Spec => []WindowBudget` |
| | `EstimateGrounded` | `Spec => []CountsAreAdmissions` |
| | `WithinEstimate` | `Spec => AdmitsWithinEstimate` |
| | `NoBurst` | `Spec => []NoBoundaryBurst` |
| | `WaitsEnough` | `Spec => []RetrySucceedsNextWindow` |
| | `Atomicity` | `Spec => ChecksAreAtomic` |
| `SlidingWindowLogProofs` | `Invariance`, `TypeCorrect` | `Spec => []IInv`, `Spec => []TypeOK` |
| | `LogExact` | `Spec => []LogIsExact` |
| | `NoBurst` | `Spec => []NoBurstInOrder` |
| | `BurstsCounted` | `Spec => []BurstPerRewind` |
| | `ContentionEarned` | `Spec => []ContentionHasCause` |
| | `WaitsEnough` | `Spec => []RetryForOneSucceeds` |
| | `KeptOfSorted` | what `Vec::retain` leaves of a log in order is its last part |
| | `Atomicity` | `Spec => ChecksAreAtomic` |
| `StoreProofs` | `EtcdInvariance`, `EtcdTypeCorrect` | `Spec => []IInv`, `Spec => []TypeOK`, for any replicas, tasks and keys |
| | `EtcdRefines` | `Spec => IsStateStore` |
| | `LocalInvariance`, `LocalTypeCorrect`, `LocalRefines` | the same three of the local store |
| `ServiceProofs` | `ResponseRoundTrip`, `RequestRoundTrip` | what one end builds the other reads, whatever defaults are left out |
| | `Invariance` | `Spec => []IInv`, for any peers, callers, requests and exits |
| | `AnswersMatched` | `Spec => []AnswersMatch` |
| | `CutWithCause` | `Spec => []CutForCause` |
| | `QuotaOutlives` | `Spec => []QuotaPerState` |
| | `SpentIsPaid` | `Spec => []AdmissionsPaid` |
| | `RetryLeadsIn` | `WaitsSuffice` implies `Spec => []RetryAfterLeadsIn` |
| | `NoMacVerifies` | no signature that any caller is ever sent verifies |

The assumptions are those of the modules: costs and limits are naturals; windows,
rates and rounds positive.  The stores assume finitely many callers
(`StoreAssumption`).  `ServiceProofs` adds two: that TCP clients and HTTP
callers are different, and `AlgorithmAssumption`, that a limiter's decision at an
instant takes what it lets in from the room its state has left.  Every limiter
meets it (`TakesFromRoom`), a bucket with the whole tokens it holds as the room,
the others with what their count or log leaves of the limit; TLC evaluates it on
the bucket of `MCService`.

`RetryLeadsIn` has a hypothesis more, `WaitsSuffice`: past the wait it names, and
for the two seconds the header may add, the algorithm lets in what it denied.
It is a hypothesis of that theorem and no assumption of the module since not
every limiter meets it: the sliding log advises the time its oldest entry leaves,
which is too early for a cost above 1, and the sliding counter may need another
window and a millisecond.  The token bucket meets it, by `PastTheWait` and, on the instance of
`MCService`, by TLC, and with it the leaky bucket.

The loop.  None of the limiters' properties is inductive: a step from a state
where a task holds a stale snapshot under the current version would break it.
`CheckLoopProofs` has, for any limiter, what each action of the loop does to

* `RoundsInOrder`: a reading is no older than the check by more than the drift,
  and a task served well has at least as many foreign writes behind it as rounds
  lost, which gives `ContentionHasCause` at the last round and, in the
  refinement, the guard of `Refuse`;
* snapshots: one whose version is still current is what is stored, or a fresh
  state if the key was absent (`SnapshotsFaithful`).  Versions only grow, so a
  write by another task makes the antecedent false for good.

The limiters.  Each module adds its account, one step of the proof per action:

* windows: `AdmittedByWindow` splits `WindowBudget` by window: nothing later
  than the stored window, `since` in it, a quota before it, plus a quota per
  rewind.  Any write whose count is within the limit keeps it (`ShareKept` of
  `CheckLoopProofs`, and `BookKeepsQuota` of both limiters that count windows).
  The sliding counter needs `WindowsInOrder` besides: where its two counts are
  those of the two windows.  `WithinEstimate` follows step by step from
  `CountsAreAdmissions`: who writes has the stored counts, those are the true
  ones, and `Fits` weighs them.  `NoBurst` takes it from there: when a window lets
  something in, what the previous one admitted weighs at least one second of the
  window, and it admits nothing any more once the next one has begun.
* one task by an exact clock (`AloneWithinLimit`): its reading is never older
  than the stored window when it writes (`Undisturbed`), so no write is rewound
  and the budget is the limit.  Both hypotheses are needed: `FixedWindowLimit`
  has exact clocks and two tasks, and one task whose readings lag can take its
  own window back.
* sliding log: `admitted` is all that was let in, in the order of the writes.
  `LogIsExact` is inductive with `HistoryInOrder` (while readings come in order,
  so does the history) and `Spaced` (entries `MaxRequests` apart in the history
  are a window apart in time), which gives `NoBurstInOrder`: of a stretch that
  sees too many, the first and the last would be too close (`WindowSeesFew`).
  `Vec::retain` is defined entry by entry, by a function over the length of the
  prefix; that the definition has a value at all, and what it leaves, is proved
  from the well-foundedness of the naturals (`LeastExists`, `NaturalsReached`),
  as the induction theorems of the library are out of the provers' reach.
  Out of order, `BurstPerRewind` rests on counting by stretches of writes in
  order.  `rewinds.units` is where the current stretch begins in the history;
  the log has an entry for each of its units that a window ending with the last
  reading, or later, still covers (`StretchLogged`), so the stretch adds at most
  the limit to any window, and the stretches before it keep to theirs
  (`WithinQuotas`).  A write that is older than the last begins a stretch,
  with a share of its own (`BackwardInQuota`); `Vec::retain` over a log in any
  order is handled by `KeptLater`.
* token bucket: `RateBound` with `BucketFits` and `NothingBooked` is inductive,
  since a refill adds at most the rate times what the reading moved on, and a
  reading that moves back is counted in `rewound`.  `AccountsInOrder` says what a
  task has paid while its check runs, for `ReliablyCharged`; `PaysInOrder` is the
  same of the unreliable ones, by the number of rounds they have behind them,
  for `PaysByRound`.
* waits: in all four `WaitsInOrder` says that an answer whose stamp is still the
  version tells of the state that is stored; the rest is arithmetic of the
  truncated division.  The sliding counter's holds for any `ShortSeconds`.
* leaky bucket: each action is the same action of the token bucket under tokens
  = capacity - queue (`TokenBucketRefined`).  Capacity, rate and unit of the leaky
  bucket satisfy `BucketAssumption`, so the theorems of `TokenBucketProofs` hold
  of the mapped bucket; `LeakyBucketProofs` instantiates that module under the
  mapping and brings its conclusions back to queue, leak and wait.
* refinement of `AtomicLimiter` (`Atomicity`): a step maps to the decision at the
  `cas`, to the beginning or the end of a check, or to none.  By
  `OutcomeIsJudgement` who writes judges what is stored, since its snapshot is
  current, with a reading the check may have made; `RoundsInOrder` gives the
  guard of `Refuse`.  The leaky bucket has it through `TokenBucketRefined` and the
  token bucket's theorem, its room taken back to a queue.

The stores.  Both refine `StateStore` because versions are never used twice.
What makes them so is a count: versions given, plus the calls that may still
take one (`Owing`), plus, for etcd, the writes left behind, are no more than the
calls made (`OneWriteACall`).  The proofs weigh each step by whom it moves in or
out of those sets.  For etcd `IInv` further has the line at each mutex (only its
first has an RPC, and who is in it waits: `Lines`, `Placed`) and `LostForGood`: a
transaction that failed could not succeed any more, since the key's version
passed the expected one.  That lets a refused cas take effect, in the mapping
(`ReplyOf`), when its second get is executed, whatever happened between the two
RPCs.  In the local store each call takes effect in the step that holds the
lock; a put that was overtaken after it took its version still writes that one,
which `StateStore` allows.

The service.  `AnswersMatch` speaks of answers on their way; `CoreInv` adds where
every request is before that (`RequestsInOrder`): along a living connection the
requests a client waits for are, from the oldest, those answered, the one
decided or under check, and those in frames not yet read.  `ClosedEnds` says what is left of
a connection with one end closed, `FramesFit` that frames of the repository's
clients are taken while none of them was too long (`longest`), and `RoomLeft` is `QuotaPerState` with the room of the stored
state added.  The proof is by connection (`Connection`): a step concerns one of
them (`OneConnection`), except for an exit.  The round trips of the codec take an
answer from its table to its reader.

`IInv` is `CoreInv` with two accounts.  `PaidInOrder` is for `AdmissionsPaid`: each
decision owed to c carries what c had been let in for by then, and from one to
the next that grows by at least what the decision will let c do
(`DecisionsPaid`); so the decision a client hears, always the oldest, is covered,
and the rest stay covered without a sum over the queue.  A connection that is
lost drops what is owed and keeps what was paid.  `AdviceInOrder` is for
`RetryAfterLeadsIn`: what a caller holds is the header of its last answer, and
that is the wait of the stored state if nobody was decided since and the state
was not lost in a restart (`Remembered`).  `NoMacVerifies` is apart: every
signature sent is of the text of a Rust flag (`RustSigned`), which is never the
text the verifier digests.

Only model-checked: liveness (`EveryCheckEnds`, `EveryCallReturns`,
`EveryRequestEnds`; fairness and `ENABLED` are beyond the prover), and of course
the four properties TLC finds violated.  Every invariant and every refinement
that a passing run checks is proved, those of the local store for the instance
`Local` of `StoreProofs`.  Two of the violated properties have a theorem that says
where the fault is: `AloneWithinLimit` and `NoMacVerifies`; `PaysForRounds` bounds
what a third one shows.

## Not modelled

* The byte layout of FlatBuffers, the wording of answers, logging and tracing.
  `flatbuf/messages_generated.rs` is generated and declared by no module.
* `accept` failing for want of descriptors, which changes no state (`server.rs` l.53).
* Replicas of different configuration over one stored state.
* The liveness probe (a connection to the TCP port), scaling and rollouts; the
  demo application, which has no state.
* Overflow of `u64` and `i64` arithmetic: costs are `u32` and counts stay within
  the limit, so it takes limits near 2^64.
* `window_secs = 0` and rates of 0, which the code does not reject.
* Expiry of keys: there is none in the code.

## What could follow

1. `Service` over a limiter whose time passes, so that waits and restarts meet.
2. Replicas of different configuration on one stored state.
3. The sliding counter over any stretch of time, not only from one window's
   boundary to another's: that needs the times inside a window, which the code
   forgets, as its comment at l.11 says.
