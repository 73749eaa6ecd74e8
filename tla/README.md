# Specifications of the HFT course project

TLA+ models of the programs in this repository that have behaviour worth
checking: the lock-free order pipeline (`Session7`), the limit order book and
matching engine (`Phase_4`), the price server with its momentum clients
(`Phase_2`), the trading contest (`final_project`), the trade simulation
(`Phase_3`), the order books of `Phase_5` and the matrix kernels of `Phase 1`.
TLC checks them on small instances; TLAPS proves nearly all of their safety
properties for every instance (see Proofs, which also names the few it does not).

    tlc -config <run>.cfg <module>.tla      # the runs listed below
    tlapm <module>Proofs.tla                # the proofs

`PROJECT.json` lists the runs, the source lines behind every definition
("map"), the hazards, and for every checked property a *mutant*: a bug one could
plausibly write, kept beside the definition it would replace and marked
`\* Mutant:`, that makes the property fail. Mutants are part of no `Next`.

## The system

The repository is a series of separate programs; they share ideas, not code.

| component | state | operations | hard behaviour | model |
|---|---|---|---|---|
| **Session7 queue** `ConcurrentQueue.hpp` | `buffer`, atomic `head`, `tail` | `push`, `pop` | lock-free interleaving of load, copy and store; the ring's boundaries | `ConcurrentQueue` |
| **Session7 pipeline** `OrderProcessing.cpp`, `main.cpp` | order book and completed orders under one mutex each, `producersDone`, `ordersProcessed`, a start latch, a counting semaphore | `orderProducer`, `orderConsumer`, `main` | shutdown race, locks taken one after the other, spinning on a full or empty ring | `OrderProcessing` |
| Session7 analytics `Analytics.cpp` | none | statistics of the completed orders | reads after the joins | `Report` in `OrderProcessing` |
| **Session7 experiments** `ExperimentalQueue.hpp` | the same ring | `push` and `pop` in a relaxed, a seq_cst and a fenced version | loads that read old stores, slots written before or after their index is seen | `MemoryOrders` |
| **Session7 benchmark** `MemoryOrderingBenchmark.cpp` | `startFlag`, `produced`, `consumed` | `producer_fn`, `consumer_fn`, the joins, for each of the four rings | four producers and four consumers on rings made for one of each; relaxed counters; consumers that count to a number | `QueueBenchmark` |
| **Phase_4 book** `OrderBook.cpp`, `MemoryPool.h` | slots, two multimaps that own them, `id_lookup_` | `add_order`, `remove_order`, best bid and ask | an exhausted pool, stale iterators, slots reused | `OrderBook` |
| **Phase_4 engine and tick loop** `MatchingEngine.cpp`, `test_latency.cpp`, `TradeLogger.cpp`, `OrderManager.cpp` | the book, the manager's own copies of the orders, the trade log | `create_order`, `match_orders`, `log_trade`, `flush_to_file` | long sequences of partial fills, two copies of an order, a pool that fills up | `MatchingEngine` |
| Phase_4 feed, timer, demo | none of interest | random ticks | - | the inputs of `Tick` |
| **Phase_2 server** `hft_server.cpp` | `clients` under `clientsMutex`, `priceTimestamps` and `priceAlreadyHit` under `priceMutex`, `priceId` | broadcast, accept, one order thread per client | a blocking `send` under a mutex, entries that outlive their descriptor, merged messages, threads and clients that wait for each other | `PriceServer`, `PriceStreams` |
| **Phase_2 client** `hft_client.cpp` | deque of three prices | read a price, detect momentum, order | as above, late orders | `PriceServer`, `PriceStreams` |
| **final_project contest server** `main_server.cpp` | `current_challenge` under `challenge_mutex`, `global_challenge_id` | broadcast by UDP, sessions over TCP, judging | late, lost and repeated datagrams; a challenge replaced while answers are on their way; connections that close or break, a handler that throws | `ChallengeServer` |
| **final_project client** `client.cpp` (and `src/Client.cpp`) | none between rounds | receive, answer | as above | `ChallengeServer` |
| final_project `TradeEngine.cpp`, `TradeInterface.cpp`, `Buffer.cpp` | - | - | does not compile (undeclared names, member functions passed as threads), so it has no behaviour | not modelled |
| **Phase_3 simulation** `main.cpp`, `market_snapshot.cpp`, `order_manager.cpp` | price levels of both sides, the strategy's orders and the price it sold at last | one loop over a feed: update, fill, sell | reports early, late or excessive; a top of book that moves and returns | `TradeSim` |
| **Phase_5 books** `OrderBook.cpp` | every order twice, by price level and by id; a vector used as a ring | add, modify, delete; insert, two at a time | the two copies, the wrap, lists of odd length | `LevelBook`, `CircularPool` |
| **Phase 1 matrices** `MatrixOps.cpp` | the caller's result array | seven kernels and an empty one | offsets in two layouts, an unrolled loop and its remainder, sums that start from what the array held | `MatrixOps` |
| Windows shims, build output | - | - | vendored and generated | not modelled |

What makes each one correct:

- *Queue*: first in, first out, no loss, no duplicate, no torn order; never two
  threads at one slot.
- *Pipeline*: volumes booked agree with the orders completed although two
  mutexes guard them; what is analysed is what was popped; the semaphore's
  permits all come back; the flag comes after the last push; the program ends.
- *Book*: slots, sides and lookup table describe the same set of orders.
- *Memory orders*: no version overruns or waits for ever, with one thread at each
  end; those that claim order keep it.
- *Engine*: the book is not crossed between ticks, price limits and time
  priority are kept, an order leaves exactly when it is filled, matching ends.
- *Benchmark*: the counters account for every push and pop, whatever the ring does.
- *Price server*: a price is hit once, by someone who was sent it; nobody orders
  a price the server does not know; each client is sent a price once for itself;
  a client that connects is served, unless the server waits for itself in a circle.
- *Contest*: the first right answer wins and no other; no answer is ahead of the
  server; every line is read, unless its connection breaks or the server dies.
- *Simulation*: the snapshot is what the feed said last; one sale for each new
  best bid; the fills of an order are the reports since it was placed.
- *Phase_5*: both copies of an order agree; the pool holds the latest orders.
- *Phase 1*: each entry of a result is the sum of exactly its products.

## Modules

    BoundedFifo                      abstract: a channel of bounded length
      ^ refined by
    ConcurrentQueue  --MCConcurrentQueue,  ConcurrentQueueProofs
      ^ INSTANCE                                   ^ INSTANCE
    OrderProcessing  --MCOrderProcessing,  OrderProcessingProofs

    MemoryOrders     the ring under weaker memory orders  --MemoryOrdersProofs
                     (refines BoundedFifo where the loads acquire)
    QueueBenchmark   whatever the ring does  --MCPrograms, QueueBenchmarkProofs

    OrderBook
      ^ EXTENDS
    MatchingEngine                       --MatchingEngineProofs (of both)

    PriceStreams                     abstract: who waits for whom
      ^ refined by
    PriceServer      --MCPriceServer,      PriceServerProofs

    ChallengeServer  --MCChallengeServer,  ChallengeServerProofs

    MatrixOps, TradeSim, LevelBook, CircularPool   --MCPrograms
              (all four)                           --SequentialProofs

The MC modules add the bounds of their runs to the specifications (and
`MCChallengeServer` the liveness property, which is about boundedly many lines).
`MCPrograms` puts the single-threaded programs and the test of `QueueBenchmark` side
by side, none of which is asked for liveness: one is chosen in the initial state
and runs alone.

### ConcurrentQueue

`push` and `pop` are split at every access to shared memory: `PushLoadTail`,
`PushCheckFull` (loads `head`), `PushWriteId` and `PushWriteBody` (the copy of an
order is not atomic: two parts are enough to tear it), `PushStoreTail`, and the
same for `pop`. `pc` says where each thread is, `idx`, `arg` and `item` are its
locals, `pushed` and `popped` record what the calls returned `true` for. The
capacity is the size of the ring, one slot of which always stays empty.

Memory is sequentially consistent. With one producer and one consumer this loses
nothing: every access to `buffer` is ordered by the acquire load of an index
that the other thread stored with release, so there is no data race
(`SlotsSynchronized` of `MemoryOrders`), and what an old index can do is part of
every interleaving already (`PushCheckFull` compares once and writes later).

With several threads at one end it is an assumption. Their loads of their own
index are relaxed (`ConcurrentQueue.hpp:14,31`): a second consumer may see the new
`head` and yet a `tail` older than the one the first consumer saw, find the ring
not empty and move `head` past `tail`. Slots are written in data races, too. The
behaviours shown are then among those of the program, not all of them: enough for
`queue_two_producers`, which shows one. What `OrderProcessing` checks of its safety
is about joins, locks, permits and the flag, and asks nothing of the ring but that
a call returns an order or does not; its `Termination` is checked under sequential
consistency only.

`BoundedFifo` knows only two histories, what was sent and what was received:
at most `Bound` items are in between, and items are received in the order sent.
The ring implements it with `sent` mapped to `pushed`, `received` to `popped` and
`Bound` to `Capacity - 1`: `PushStoreTail` is the send, `PopStoreHead` the
receive, and every other step stutters.

### MemoryOrders

The four rings that the benchmark compares, one thread at each end: the standard
one of `ConcurrentQueue.hpp` and the three of `ExperimentalQueue.hpp`, which
differ in memory orders only. Each index has one writer; its stores are a
sequence, and the other thread loads any of them that is not older than its last
(under `seq_cst`, where all accesses to the indices have one total order, the
latest). Vector clocks track happens-before: `Publish` releases the thread's
clock, `Synchronize` acquires the one that is loaded, at once or at the next
acquire fence, which in the fenced version stands *before* the load. `Readable` is
what a read of a slot may return: a write that no later one hides; a racing read
of an `int` is taken to return one of the values written. Items are integers, as
in the benchmark. A load may be old, but not for ever (`LoadLatest`): C++ asks
that stores become visible in a finite time. With loads that acquire, stores map
to `Send` and `Receive` of `BoundedFifo`, as those of `ConcurrentQueue` do.

### OrderProcessing

The whole of `main()`: producers and consumers around the queue's own steps
(`Queue == INSTANCE ConcurrentQueue`). `stage` is where a thread is outside the
queue's code, `mainStage` where `main()` is. A block under a mutex touches only
what that mutex guards, so it is one step: `UpdateBook`, `RecordCompleted`.
Between them a consumer may be overtaken. `producersDone` is read after a pop
that failed (`CheckDone`), as in the code. The empty order that `pop` of two
consumers can return is booked under the empty symbol, as the code does.
Sleeping and time stamps are left out. `setup` is chosen once: the threads that
`main()` starts and how many orders each producer has, constants of the code.
`Report` is what `runAnalytics` prints of the completed orders: how many, how
many of each symbol, how many buys, each counted by `Times`; the latencies are
left out. Without orders there is no report (`Reports`), which happens when every
consumer has left early (`DrainedOnExit`).

### QueueBenchmark

Any of the twenty tests of `MemoryOrderingBenchmark.cpp`: the text of the four in
the program is the same but for the ring, and nothing survives from one to the
next. No ring of the four is made for four producers and four consumers. What
they may do then is not worked out; instead `Push` and `Pop` return true or false
as they like, items are not looked at, and what is checked holds whatever the ring
does. The load of `consumed`, the pop and the count are separate steps
(`TestConsumed`, `Pop`, `CountConsumed`). The counters are relaxed as in the code: a
load returns any value not older than what the consumer knows of (`seen`), while
`fetch_add` adds to the latest. That a test ends is no property: it need not (see
below). What a ring with one thread at each end does is said by `MemoryOrders`.

### OrderBook, MatchingEngine

A place in a multimap is a record of key, insertion number and slot, which is
all that `begin()`, `erase` and a stored iterator depend on. `InsertOrder` takes
the first free slot, as `allocate()` does; `RemoveFrom` erases entries, whose
deleters free the slots. `BookNext` is any caller that keeps the documented
uniqueness of ids. `MatchingEngine` is the loop of `test_latency.cpp`: `Tick`
creates an order in the manager and copies it to the book, `Trade` is one
iteration of `match_orders`, `MatchEnd` its `break` together with the `log_trade`
calls, `Flush` the writing of the log, which may fail. Random prices and
quantities are nondeterministic.

`fill_order` and `cancel_order` of the OrderManager are called by nothing.
Overflow of quantities is out of the picture at 100 units a tick.

### PriceServer

Three kinds of server threads (`Broadcaster`, `Acceptor`, `Handler(k)`) and the
client processes. `feed.stage = "send"` is the broadcaster holding `clientsMutex`;
`Register` waits for it. Streams are queues of whole messages: `recv` returns one
or several at once, of which the client parses the first and the server reads the
digits as one number (`Atoi`, for ids of any length): orders 2 and 3 received as
one are an order for price 23. A hit therefore notes whether its order was
received alone, and `HitOnce` says who may hit of those only. A message is never
cut: they are some thirty bytes long and read into a kilobyte. `send` waits on a
full stream, and on a closed descriptor or for a client that has gone it sends
nothing; that a write to a disconnected peer may also raise SIGPIPE and end the
server is not modelled, nor is a client with an empty name. Descriptors are
numbers that `close` frees and `accept` hands out again, lowest first: entries of
`clients` are never removed, so an old entry may lead to a new client. All clients
have the default name, which is one model value.

`PriceStreams` is what remains of this without prices, orders and hits: the lock,
the table, the handlers, and how many messages each stream holds. `PriceServer`
implements it, with the lengths of `down` and `up` as its counters, so that a step
of the server waits only for what it waits for there. The feed never ends in it,
as `broadcastPrices` never does, and TLC can look at it for ever.

### ChallengeServer

The UDP thread (`OpenSocket`, `GenerateChallenge`, `Publish`, `Broadcast`) and
the handlers of the single-threaded `io_context`, each atomic with respect to the
others: `DoAccept` and the two other ways an accept can go, and `ReadLine` or
`ReadError` for a line or an error of a session. A challenge asks for the bid and
ask of a ticker; the pair is one value of `Quote`, equal if within the server's
tolerance. A datagram, once sent, may reach any trader any number of times at any
later moment, or never. Announcements of about 394 bytes fit one fragment of
`MAX_UDP_PAYLOAD`, so there is no loop over fragments.

`Guessers` are traders that run some other program than `client.cpp` and write any
line: any challenge id, quote and name, an empty line, or one of another header.
The others answer with the quote they were sent, so `NoAnswerAhead` is about them.

Error paths are those of the code. A read error ends the session without reading
again (`ReadError`, line 130); an empty line and one of another header are read and
ignored, and the session reads on (lines 134, 157). A trader may leave (`Close`),
after which what it wrote can still be read, and a connection may break (`Reset`),
after which it may not; as `client.cpp` reads no reply, the one often follows the
other. An accept error loses the connection or leaves it waiting, and the server
accepts on (`AcceptError`, line 217). `remote_endpoint()` throws for a peer that has
gone (line 215): the exception leaves `io_context.run()` and reaches `main`, which
destroys `udp_broadcast` without a join, so the process ends (`RemoteEndpointThrows`).
The replies are left out: nobody reads them, a failed one is only reported, and
the buffer of `process_order` that `async_write` may read after its return decides
nothing. A port that is taken already, which ends the program at once, is left out
as well.

### TradeSim

One action per kind of event, each the whole loop body: update the snapshot or
fill an order, then let the strategy look at the best bid. Prices are integers as
far as only their order and the threshold 100.00 matter. The feed is any sequence
of events, kept as the history the properties recompute everything from:
`LevelsAfter` is the last update of each price, `Sales` the events at which the
strategy should sell and `PlacedBy` the id of the order a sale places, all read
off the feed without running the strategy. Quantities are not negative. `cancel`
is called by nothing; the best ask is only printed.

### LevelBook, CircularPool

The two independent books of Phase_5. `PutOrder` is `addOrder`; `ErasedFrom` is the
`erase` behind `operator[]`, which makes a level that is missing and leaves one
that has become empty. The pool's vector grows to its size once (`orderCounter`
is its length) and is then written around; `Iterate` is one iteration of the
unrolled loop, `Call` the next list. The benchmark only adds; `modifyOrder` and
`deleteOrder` are modelled as a caller that knows its ids would use them.

### MatrixOps

Kernels on arrays, which are functions of offsets, with the code's own index
expressions; `RowMajor` and `ColMajor` say which matrix element is at an offset.
Elements are positions, a product is a pair of them and a sum a bag of products:
the kernels add in different orders, and equality is that of real numbers
(rounding is left out). `Sum` is what a loop `temp += ...` leaves: each product as
often as the loop brings it. An offset outside an array is an error of TLC's. A shape
is chosen, its result array is allocated with arbitrary contents, and kernels are
called with it in any order, as the benchmarks call each 25 times. A kernel
refuses a length of zero, and `multiply_mm_naive` also matrices that do not fit;
the transposed kernels do not look, so their callers must (`MultiplyMmTransposedB`).
Null pointers, refused in the same way, are left out.
`multiply_mm_naive_inline` checks and returns: the array stays as it is, which
`Multiplies` excepts.

## Runs

| run | shows | bounds, and why they are enough |
|---|---|---|
| `queue_spsc` | `Fifo`, `NoDataRace`, the inductive `RingInv` with the types, `BoundedFifo` implemented | three slots and six pushes: the ring is empty, half full and full, and each index goes round twice. Any number of threads and slots is in the proofs. |
| `queue_two_producers` | **violation** of `NoneLost` | two producers of one order each are enough |
| `pipeline_mpmc` | the inductive `PipelineInv`, book against completed orders, report against pops, semaphore, flag, end of the program | the smallest ring (`Capacity = 2`) and one permit, with two producers of one order and two consumers, two producers of two orders and one consumer, one producer of three and two consumers: losses, duplicates, both symbols and sides, and waiting for the permit all occur |
| `pipeline_drain` | **violation** of `DrainedOnExit` | one producer and one consumer |
| `engine` | the inductive `EngineInv` with the consistency of the book, the engine's other invariants, matching ends, a full pool stays full | every sequence of four ticks with two prices and quantities 1 to 3 on three slots: partial fills, one order against two, equal prices, a full pool |
| `engine_overfill` | **violation** of `NoOverfill` | as `engine` |
| `prices` | the inductive `PriceInv`, `HitOnce`, `OrdersKnown`, `SentOncePerOwner`, and `ImplementsStreams` (`PriceStreams` implemented) | two clients, four prices, streams of two messages. Prices swing (each above or below all before it), which gives every run of momentum. Two clients reuse a descriptor. |
| `streams` | `EveryoneServed` | three clients, streams of one message, a feed without end: full streams in both directions, two reuses of a descriptor, and the circular wait itself, which the property excepts |
| `challenge` | the inductive `JudgingInv`, `FirstCorrectWins`, `NoAnswerAhead`, `EveryLineProcessed` | two challenges with equal or different quotes, an answer of `client.cpp` and two lines of a guesser that may be ahead: late, wrong, repeated and competing answers, lines that are none before and after answers, connections that close or break, the death of the server. Another answer of `client.cpp` would be one a guesser may write. Quotes differ in name only, so the first is fixed. |
| `orders` | the inductive `OrdersInv`, `NeverOverruns` and `EveryItemPopped` in all four versions, `SlotsSynchronized` and `AcquiringImplementsFifo` (`BoundedFifo` implemented) in the two whose loads acquire | six items on three slots: the indices go round twice, and a load may be up to six stores late |
| `orders_fenced` | **violation** of `FencesSuffice` | as `orders`, the fenced version only |
| `programs` | `BenchInv`, `CountsAccount`; `Multiplies`; `BookIsLastUpdate`, `SellsOncePerTop`, `FillsAccounted`; `CopiesMatch`; `KeepsLatest` | *kernels*: one to nine columns (none, one and two groups of four and every remainder), non-square products, matrices that do not fit, empty ones. *Simulation*: every feed of five events at three prices, one of them not above the threshold; two reports of 30 fill an order of 50 and more. *Level book*: two orders at two prices, every sequence of changes. *Benchmark*: two producers of two items, three consumers: pushes and pops that fail, loads of `consumed` that are old, consumers that all pop too much. *Pool*: nine orders or more through a pool of three by lists of one to four. `CHECK_DEADLOCK FALSE`, as the feed ends and the lists do. |

The code's constants are scaled down: a ring of 1024 to two or three slots, five
producers and consumers to two each, a pool of 1024 slots to three and 100 000
ticks to four. Nothing in the code depends on the size itself, only on the ring
being empty, full or wrapped, and the pool being full.

Two consumers that pop the same slot are the mirror image of
`queue_two_producers` and have no run of their own.

### Fairness

- *Pipeline*: weak fairness of every thread, which is what a preemptive
  scheduler gives. No order among threads and no strong fairness: nothing is
  assumed of who gets a released permit, yet the program ends, since each
  producer has finitely many orders.
- *Memory orders*: weak fairness of both threads, and strong fairness of the load
  of the latest index, since a store becomes visible in a finite time: who looks
  again and again does not see the same old value for ever. *Benchmark*: none.
- *Engine*: weak fairness of the one thread.
- *Prices* (`PriceStreams`; `PriceServer` states none): weak fairness of the server's
  threads and of a client that runs. A client reads again after every message, as
  `hft_client` does; one that stopped reading for ever would, with `clientsMutex`
  held, stop the server. Clients need not connect nor leave. Taking
  `clientsMutex` in the accepting thread is *strongly* fair: the broadcaster takes
  it again and again, but leaves it free for the five seconds it sleeps between two
  rounds, so the thread that waits gets it. Weak fairness would not be enough, as
  the feed never ends.
- *Contest*: weak fairness of the accepting handler and of each session's
  (`io_context.run()` serves every ready socket) while the server runs, none of the
  UDP thread nor of the traders. Accepting may fail for a while, not for ever.

### Disagreements found

1. `push` takes the tail without a compare-and-swap, and `main()` runs five
   producers: two of them fill one slot and both return `true`
   (`queue_two_producers`).
2. A consumer reads `producersDone` after its pop failed, so an order pushed in
   between stays in the queue, against "exit when no more producers and queue
   drained" (`pipeline_drain`).
3. The quantity of a trade is computed from full quantities, so a partly filled
   order trades its whole quantity again; the recorded `trade_log.csv` shows it
   (`engine_overfill`).
4. In the fenced ring the acquire fences stand before the loads they should
   order, so a pop may see the new tail and the old slot, against "Different
   memory orderings allow for performance optimization without sacrificing
   correctness" (`orders_fenced`). The standard and seq_cst rings are right; the
   relaxed one promises nothing.

More facts follow from the models without a run of their own. The benchmark may
never end: with two producers one item is lost (`queue_two_producers`), `consumed`
stays below `NUM_OPERATIONS` and the consumers spin; with two consumers a relaxed
load of `head` beside an old `tail` may move `head` past `tail`, and a producer then
spins before a ring that looks full. The price server may stop for good
(`CircularWait`): a client accepted on the descriptor of an entry whose own client
has left gets prices by that entry before anyone reads its orders; once both its
streams are full, the broadcaster waits for it, it waits for its handler, and the
accepting thread, which would start the handler, waits for the broadcaster's lock.
With streams as long as sockets' buffers this takes as many prices as fill them
while that thread has not got the lock. The contest server dies of a trader that
leaves before it is accepted (`main_server.cpp:215`). `multiply_mm_naive_inline`
multiplies nothing. Orders that rest exhaust the pool and from then on nothing is
ever traded (`FullPoolIsFinal`), which is why the recorded log stops at order 4736
although `BriefAnalysis.txt` saw no exhaustion. And `correct` in `process_order` is
never set, so every submission, the winning one too, is answered INCORRECT.

## Proofs

Every theorem holds for all values of the constants that satisfy the named
`ASSUME`s of the modules, which are as weak as the code needs: threads of
different kinds are different, and consumers, the benchmark's threads and the
clients are finitely many; the capacity is at least one, a pool has a natural
number of slots (that of Phase_5 one or more); prices are integers or, where
there are no negative ones, naturals; quantities are at least one; a value that
stands for "none" is not one of the others. The inductive invariants `RingInv`,
`PipelineInv`, `BenchInv`, `OrdersInv`, `EngineInv`, `PriceInv` and `JudgingInv` are
invariants of the runs as well.

**ConcurrentQueueProofs.** `TypesHold` holds for any number of threads. The other
four theorems assume `OneProducer` and `OneConsumer`: with two of either they are
false, as `queue_two_producers` shows. The lemmas about the steps are also used by
`OrderProcessingProofs`.

- The inductive invariant is `RingInv` (`RingInvHolds`). `Fifo` by itself is not
  inductive: a producer about to store the tail must be known to have written
  its order to the very slot the tail points at (`IndicesFresh`,
  `CopiesInProgress`), to have room still although it compared with a head that
  may be old (`ChecksHold`: the other side only makes more room), and the orders
  between head and tail must be intact (`ContentsIntact`).
- `RingStep`, the step of the invariant, asks only that of each kind of thread all
  but one are idle (`Alone`), before and after it.
- `RingArithmetic`, `AfterTailStore` and `AfterHeadStore` say what the size and
  the slots in use are before and after an index is stored; the modulo is
  visible to `SuccCases` only.
- From the invariant: `FifoHolds`, `DataRaceFreedom` and
  `RingImplementsFifo`: `Init` maps to `FifoInit`, a tail store to `Send`, a head
  store to `Receive`, any other step to a stutter.

**OrderProcessingProofs.** The inductive invariant is `PipelineInv`
(`PipelineInvHolds`), whatever threads `main()` starts. A thread is inside a call
of the queue only in the stage that calls it (`StagesInStep`); what was joined has
left (`JoinsAwaited`); the permits missing are those of the consumers between
`acquire` and `release` (`PermitsHeld`); and of every kind of order a report can
tell apart, the pops are the completed ones plus those in the hands of a consumer
(`EachPopCompleted`). The types of the ring are those of `ConcurrentQueueProofs`
(`RingTypes`): races between producers and consumers lose and repeat orders, and
none of these properties minds. From it follow `SemaphoreHolds`,
`NoPushesAfterDone`, an action property (a producer that could push has not
left, so it has not been joined), and `ReportsHold`: two sequences that hold each
kind of order equally often have one report (`SameReports`). `BookAlwaysMatches`
needs `BookCounted` beside it, the types of book and items: the units of an order
enter the book with `BookingCounts` and move from the consumer's hands to the
completed orders with `RecordingCounts`.

**QueueBenchmarkProofs.** `BenchInvHolds`: `BenchInv` is inductive, for any number of
threads and whatever the ring does. The items the producers counted are those
before their loop variables (`ItemsCounted`), so that after the joins they are the
whole product of producers and shares, which is `NUM_OPERATIONS` of them
(`AllCounted`). A consumer that pops knew of less than `NUM_OPERATIONS` counts, while
there may be more already; when it counts it comes to know of all. So each count
beyond `NUM_OPERATIONS - 1` makes one consumer more know that enough was popped
(`Knowing`), after which that one pops no more: `CountsInStep` bounds `consumed` by
their number, which keeps the surplus below the number of consumers. Each step
moves one thread, or one item, in or out of a counted set. `CountsHold` follows.

**MemoryOrdersProofs.** `OrdersInvHolds`: `OrdersInv` is inductive, for every
capacity and number of items. A check that was passed was passed against the
store that was *seen*, however old, and that is what `RoomSeen` says; as the other
index only advances, there is at least as much room by its latest. `PlacesCounted` reads
the positions modulo the capacity as counts, `StoresCarry` says which accesses
happen before whoever loads a store with acquire, and `WritesInPlace` and
`TouchesInPlace` which of them a slot has had. `NothingOverruns` holds in all four
versions, `AccessesSynchronized` and `AcquiringRingImplementsFifo` in the two that
acquire: the store of the tail maps to `Send`, for which there is room even by the
head that was seen, and the store of the head to `Receive` of the item whose number
is next. `ItemsLeft` adds that no call is for an item beyond the last.
Together they justify the sequential consistency of `ConcurrentQueue` for one
thread at each end.

**MatchingEngineProofs.** First the book: `BookStaysConsistent` says that
`BookTypeOK /\ BookConsistent` is inductive. The two operations are lemmas of
their own (`InsertConsistent`, `RemoveConsistent`), the removal for a pool whose
orders have been updated meanwhile, so that the engine can use it.

The inductive invariant of the engine is `EngineInv`. `TimePriority` speaks
of all the trades there ever were: none of them went to an order that came after
one of its side and price that still rests, and as it holds after each trade, it
does not matter whether the later one has been filled and has left. It needs
`InsertedBefore` (a new entry is later than every resting one), `InsertedById` (among
resting entries the insertion numbers go as the ids do) and the consistency of the
book (the slots touched are those of the best entries); price limits need
`CopiesAgree` (side and price of the book's copy are those of the manager's order).
`TickStep`, `TradeStep`, `MatchEndStep` and `IdleStep` are the step of each action;
`EngineInvariant` follows, and from it `EngineKeepsBook`, `TimePriorityHolds` and
`TradesWithinLimits`.

`BookRestsUncrossed` needs that a side that is not empty has a best entry. The
library's induction over finite sets takes an operator and cannot be used; the
strict subset relation on finite sets is well-founded, so that a smallest
nonempty set without a first entry would exist, and does not (`FirstExists`).
`FullPoolStaysFull` follows, although its property is temporal: a full pool whose
sides do not cross and that has no trades pending (`Exhausted`) stays so, because
every new order is dropped and matching finds nothing to match.

`OrdersLeaveWhenFilled` is about sums over all trades. A sum is stated as the
number of units in them (`UnitsIn`, a set of pairs), so that a trade adds a set
disjoint from the others and `FS_Union` says how many there are: no fold, no
induction over the log. What a trade takes, its fill, is at most what both orders
have left (`TradeFills`), so that it cannot fill one beyond its quantity;
`FillsCounted` is the inductive invariant. The other two sums,
of `BookMatchesCompleted` and `FillsAccounted`, are stated and proved likewise.

**PriceServerProofs.** `PriceInvHolds`: `PriceInv` is inductive, for any clients,
feed, descriptors and streams. `OrdersKnown` and `HitOnce` rest on `IdsWereSent`
(what is in a stream, or in a client's hands, was noted before it was sent) and
`HitsLogged` (the set of hit prices is what the hits say). The bound of
`SentOncePerOwner` is not inductive: `CopiesByPassed` counts the copies a client
has of the price being sent by the entries the broadcaster has passed that hold
its descriptor, and `OneEntryEach` says that every client was accepted once.
`FeedInStep` is the broadcaster's place in the list. `PricesAreHitOnce`,
`OrdersAreKnown` and `PricesSentOncePerOwner` follow. `ServerImplementsStreams`: every
step of the server is one of `PriceStreams` or a stutter (`NewPrice` and `Stamp` are),
and `PriceInv` says that descriptors in use are those of entries.

**ChallengeServerProofs.** `JudgingInvariant`: `JudgingInv` is inductive.
`FirstCorrectWins` alone is not: when a challenge is published there must be no
line judged against it already (`AnsweredInPast`: none against a later one than
the current), it must be new and unwon, and what is announced must be published
(`PublishedInOrder`). What traders write and how their connections end is not in
the way (`WriteStep`). A line that is read is either ignored or judged
(`LineTaken`); `ProcessStep` is the heart: a line that wins is the first right one
because no earlier one was, and one that does not leaves the first as it was. The
network needs no assumption, nor do the guessers, nor the error paths.
`FirstCorrectWinsHolds`, `NoAnswerIsAhead` and `ContestTypes` follow.

**SequentialProofs.** `CopiesAlwaysMatch`: `CopiesMatch` is inductive beside the types,
which say that a changed order keeps its id. `modifyOrder` and `addOrder` share
`PutMatches`, about levels without an order of the id that is put, and
`modifyOrder` and `deleteOrder` share `ErasedLevels`, which makes such levels.
`AlwaysKeepsLatest`: the inductive `PoolInv` says without a modulo which order is
at each index, before and after the oldest one (`Holds`), and is stated of any
pool, since an unrolled iteration handles its second order by a pool that no
state ever shows. `HandleHolds` is one order, `ModOnce` reads the pool around. Both
theorems state the types too, which no run repeats.

For the simulation of Phase_3 the inductive `TradeInv` is the types, the finite
number of levels and the two properties proved of it, `SnapshotFollows` and
`SellsOnce`, for feeds of any length. An event that is appended leaves what was
said of the events before it as it is; the last update of a price exists because
the positions of a feed are finitely many (`MaxExists`, again by
well-foundedness). The strategy remembers one price, while `Sales` looks back over
the feed: `LastSold`, part of `SellsOncePerTop`, says that this price is the latest
best bid above the threshold, which is what makes one variable enough.
`FillsAddUp` needs `FillsCounted`: every order was placed by a sale that the
feed shows, so that an order just placed has no reports yet (`NoReportsYet`) and
an event adds one report at most (`ReportsGrow`), that of the order it names.

`KernelsMultiply` is about matrices of any shape. `Layouts` says where each layout
puts an entry, from the uniqueness of quotient and remainder (`Offset`), and that
the offsets stay in the arrays (`InArray`). The products of a row and a column
differ, so that a sum has each of them once (`SumOfDistinct`) and sums over
disjoint columns add up to the sum over all (`BagOfParts`). `DotProductIsSum` is
the unrolled loop: its four sums take the columns below `FirstLeft` by their
remainders modulo four, and the loop behind it the others (`Groups`).
`Multiplies` is then inductive, with the shape among those there are (`Calling`).

Only model-checked:

- liveness (`Termination`, `EveryItemPopped`, `MatchReturns`,
  `EveryoneServed`, `EveryLineProcessed`), which is out of the prover's reach;
- what the four runs that expect a violation refute.

## Not modelled

- `TradeEngine.cpp`, `TradeInterface.cpp` and `Buffer.cpp` of `final_project` do not
  compile, so they have no behaviour.
- `fill_order` and `cancel_order` of Phase_4's OrderManager, `cancel` of Phase_3's
  and the observers `size()` and `empty()` of the ring are called by nothing;
  where the properties speak of the size it is an operator. The demo of Phase_4
  adds 10000 orders to 1024 slots without matching: the full pool of `engine`.
- Numbers nothing depends on: latencies and their statistics, timers, rounding.
- `src/Client.cpp` is a later copy of the contest client with the same behaviour.
- The kernels that `MatrixOpsTest.cpp` defines for itself (strided, aligned) are
  part of the measurements.
- The replies of the contest server, and servers that cannot bind their ports.
- Generated and vendored files.

## State of the proofs

Every program that compiles has its module, and every invariant and action
property of the passing runs has its theorem; of the temporal properties,
`FullPoolIsFinal`, the two refinements of `BoundedFifo` and that of `PriceStreams`
have one. What remains with TLC is the list above.
