# A verification project for VGServer

VGServer is two programs in one repository: a Go service that registers
accounts by mail (`AuthorVGroup/`) and a C++ HTTP server on uWebSockets
(`src/`), which carries a lock-free queue in its tree (`src/concurrentqueue/`).
The programs share no process; a client takes a token from the first and would
present it to the second.  This directory holds TLA+ modules of their
concurrent parts, TLC runs on small instances and proofs checked by TLAPS for
every instance.  Paths below are relative to the repository.

## The system

| Component | State it keeps | Operations | What is hard |
|---|---|---|---|
| Mail registration, `AuthorVGroup/router/gmail.go` | Redis keys `verify_code:<address>` with an expiry; mails sent | `/send_code`, `/email_register` | every request is a goroutine, every Redis, SQL and SMTP call a point where another request, an expiry or a crash intervenes; calls that fail after taking effect |
| User tables, `AuthorVGroup/users.sql`, `models/` | `users`, `identities`, `user_risks`, the SERIAL, at most 50 connections | INSERTs in one gorm transaction, lookups outside it | unique keys held by uncommitted rows, rollback, pool exhaustion |
| Token refresh, `gmail.go:275-361` | the signed tokens clients hold; `is_active` | `/refresh_token` | expiry, deactivation after issue; either kind of token renews, so renewals chain |
| SMS codes, `router/iphone.go` (no route) | Redis keys | send, verify and delete | read, compare and delete are separate calls; the code is stored before it is sent |
| Apple login, `router/apple.go` (no route) | the user tables | exchange code, find or register | the key function of `parseAppleIDToken` returns no key, so jwt/v5 refuses every token and the code after it is not reached |
| AES endpoint, `src/controller/aes.cpp`, `pub.hpp` | one abort flag, body and raw response pointer per request; pool queue; deferred closures | read the body, compute on a worker, answer on the loop | three threads of control for one request; the connection may go at any time |
| Process lifecycle, `src/main.cpp` | thread pool, io thread, loop | start, signals, clean-up | signals do not stop the loop |
| HTTP routing, `src/gin/UWSWrapper.hpp` | the route table | `addRoute`, `listen`, `run` | unknown methods, routes the probes need |
| Database pool wrapper, `src/database/db_pool.cpp` and its test | one static pool pointer, the results of the test's threads | init, test, shutdown | unlocked test-then-use, a failed REQUIRE that skips the shutdown, a shared `vector<bool>` |
| JWT library, `src/jwt-cpp/` | none | base64url, sign, decode, validate | truncation to seconds, claims the Go side does not write |
| Cipher utilities, logging, `Result`, interfaces | none of their own | wrappers | context ownership on exceptions |
| Producer queues, `concurrentqueue.h`: `ExplicitProducer`, `ImplicitProducer`, `FreeList` | per producer four counters, blocks of elements, a circular block index; the parent's free list | `enqueue`, `enqueue_bulk`, `dequeue`, `dequeue_bulk`, the destructors; `add`, `try_get` | one writer and many readers without a lock; indexes replaced under their readers; counters that wrap; calls that fail half-way |
| Producer lookup, `concurrentqueue.h`: `get_or_add_implicit_producer` | a chain of hash tables, the used count, the resize lock, the producers' `inactive` flags | look up, grow, recycle, thread exit | a table that grows and is cleared while others probe it; failed allocations; reused thread ids |
| Concurrent and blocking queue, `concurrentqueue.h`, `blockingconcurrentqueue.h`, `lightweightsemaphore.h` | the producer list, consumer tokens and the global offset; `m_count` and the POSIX semaphore | the dequeues with and without token, rotation; wait, signal, time out | elements passed by a walk over a list that grows; lost wake-ups; permits without elements |
| Deployment files | - | - | - |

Interaction: the two mail handlers meet in Redis (the code), in the mailbox of
the address and in the user tables; they never share memory.  The AES handler
runs on the loop thread, posts to the asio pool, and the worker posts back with
`Loop::defer`, the only call that may cross into the loop.  In the queue a consumer
takes permits from the semaphore, walks the producer list, claims positions of one
producer and finds them through its block index; emptied blocks go to the free list
that every producer draws from.

What makes each correct: registration - an account is whole, unique, and belongs
to somebody who read a code at its address, and its tokens go to one client;
AES - each complete request is computed once and answered on its own
connection; refresh - renewals end with the user; SMS - a client told "sent"
holds the code that works, and it verifies once; lifecycle - a stop signal
ends the process after the work in flight; pool wrapper - no use after free, and its test
reports what happened; JWT - decode inverts encode, and invalid claims are refused;
queue - each element comes out once and in its producer's order, no block is lost or
used twice, a thread has one producer of its own, a waiting consumer is woken when
there is something for it.  `PROJECT.json` lists the hazards line by line.

## Modules

**`Accounts`** is the abstract specification: a set of accounts that opens one at
a time, distinct in address and number, and a set of granted accounts.

**`UserTables`** is the database as the handlers see it: committed rows, the rows
of each open transaction, the sequence and the pool.  One statement is one step.
An INSERT waits while another open transaction holds its unique key and fails
when a committed row has it; reads see committed rows.  A number is drawn when
its INSERT succeeds or fails, not when it starts to wait; the handlers never
compare numbers, so only their order differs.

**`Registration`** extends it with the two handlers.  `pc[r]` names the next remote
call of request `r`, `email`, `code`, `uid` and `reply` are its local variables;
`store` is Redis, `mailbox` what SMTP delivered, `now` the clock of the expiry.

| Action | Code |
|---|---|
| `Refuse` | the empty-field returns of both handlers |
| `SendCheck`, `SendLookup`, `SendMail`, `SendSave` | the four calls of `SendEmailGmail`: EXISTS, the users lookup, SMTP, SET |
| `RegGet`, `RegLookup` | GET with the comparison, the lookup of `EmailGmailRegister` |
| `RegBegin`, `RegUser`, `RegIdentity`, `RegRisk`, `RegCommit` | the transaction, one statement each; `Rollback` is gorm's answer to an error |
| `RegReply` | both tokens and the answer |
| `Crash` | the process dies, its sessions roll back, Redis and mail stay |
| `Tick` | a unit of time for the expiry |

Every call has a failing outcome; SMTP, SET and COMMIT may fail after they took
effect.  A request is one invocation and does not return to `idle`; a retry is
another request.  The symbols of the tokens are abstracted to the account they
name.

**`AesRequests`** is the AES endpoint.  `input` and `left` describe what a client
sends, `conn`, `address` and `wire` the connection, the address of its response
object and the answers written on it; `aborted` is the shared flag, `tasks`,
`busy` and `deferred` the pool queue, the workers and the loop's queue.  `stale`
records the closures that used the pointer of a closed connection.  That use is
undefined in C++; the model lets it show nowhere or on the connection that
occupies the address by then.

| Action | Code |
|---|---|
| `Receive`, `Chunk` | `aesHandler` up to `onData`; one call of the `onData` callback |
| `Abort`, `Close` | the connection goes before (`onAborted`) or after an answer |
| `WorkerTake`, `WorkerFinish` | the posted lambda starts; it defers its closure |
| `RunDeferred` | the loop runs one closure, which writes whatever the flag says |

**`Tokens`** is the life of the tokens.  No program stores one, so the state is the
set `tokens` of unexpired ones with the time each has `left`; the clock itself is
unbounded.  `status` is the row of each user.  `late` records the handlers
caught between their check and their signature when their user was switched off.
Nothing tells the kinds of token apart: both have `user_id` and `exp`, the only
claims `RefreshTokenHandler` reads.

| Action | Code |
|---|---|
| `RegCommit`, `RegSign` | the commit of `EmailGmailRegister`, then its two tokens |
| `RefreshRefuse`, `RefreshParse` | `jwt.Parse` and the claims of `RefreshTokenHandler` |
| `RefreshLookup`, `RefreshSign` | the users lookup with `is_active`; the new access token |
| `SwitchOff`, `SwitchOn` | somebody edits `users`; no handler does |
| `Tick` | time passes and tokens expire |

**`SmsCode`** is `SendSmsCode` and `VerifySmsCode` over their Redis keys, call by
call.  `router/main.go` does not route them; they are modelled as handlers that
run concurrently, which is what a route makes them.  `told` and `crossed` record what
clients were answered and whose sends overlapped.

| Action | Code |
|---|---|
| `SendRefuse` | `isValidPhone` |
| `SendSet`, `SendSms` | SET of the new code, then the Tencent call |
| `VerifyGet`, `VerifyDel` | GET with the comparison; DEL with its error ignored |
| `Crash`, `Tick` | the process dies; keys expire |

**`DBPool`** is `DBPool` of `db_pool.cpp` driven by the two cases of
`test_dbpoll.cpp`, its only caller, in the order Catch2 runs them in one process.
The test file and `db_pool.hpp` both define `host`, `port` and the other names of the
connection; the module models what the test does once that clash is
resolved.  A thread's assignment to `results[i]` is a read of the shared word and a
write of it.  libzdb is external: a connection is granted below
`max_conns` or refused.

| Action | Code |
|---|---|
| `InitPostgres` | `init_postgres`: throws, dies on an exception of libzdb, or starts the pool and the case's threads |
| `GetConnection`, `Query`, `Close` | the calls of `test_connection` |
| `Read`, `Write` | `results[i] = ...` |
| `Join`, `Shutdown` | the joins and REQUIREs; `shutdown` |

### The queue

The queue is modelled in layers, each against what the layer below promises.

**`SubQueue`** is the abstract promise of one producer's queue: elements, named by the
order in which they were enqueued, are given out in that order, each to one consumer,
which then moves out the very elements it was given.

**`Claims`** is how consumers claim elements, the same in both kinds of producer: `tailIndex`,
`headIndex`, `optimistic` (`dequeueOptimisticCount`), `overcommit` (`dequeueOvercommit`), and
in `claim[c]` the place and the locals of a consumer.  **`ProducerBase`** adds what the kinds
share: `pool` (blocks to be had), `tailBlock`, the elements in `cell`, the producer's call
in `prod`, the consumer's walk over blocks in `hand`.

| Action | Code |
|---|---|
| `Look`, `Reserve`, `Confirm`, `Refund`, `Take` | the loads, the two fetch_adds and the refund of `dequeue` and `dequeue_bulk` |
| `EnqueueInBlock`, `Publish` | `enqueue` with room in the block; `tailIndex.store` |
| `MoveOutOf`, `NextBlock` | elements moved out; on to the next block of a bulk, or the end |

**`ExplicitQueue`**: blocks in a `ring` with `flags` (`emptyFlags`); `indexes` has every
block index made, because a consumer may still read an old one.

| Action | Code |
|---|---|
| `EnqueueReuse`, `EnqueueNewBlock`, `Expose` | `enqueue` at a block boundary, `new_block_index` included; `front.store` |
| `BulkBegin`, `BulkReuse`, `BulkNewBlock`, `BulkFill` | `enqueue_bulk`, with its undoing |
| `LoadIndex`, `LoadFront`, `FindSlot`, `MoveOut`, `Release` | a consumer's way to its elements; `set_many_empty` |

**`ImplicitQueue`**: an index of pointers to entries, `key` and `value`, that larger
indexes share; `count` is `elementsCompletelyDequeued`.

| Action | Code |
|---|---|
| `Enqueue`, `EnqueueBulk`, `InsertEntry`, `NewBlock`, `Fill` | `enqueue`, `enqueue_bulk`, `insert_block_index_entry`, the failure paths |
| `LoadIndex`, `LoadTail`, `FindSlot`, `MoveOut`, `Release`, `Unlink` | `get_block_index_index_for_index`; the consumer that empties a block gives it back |

**`FreeList`** is the free list, one action per atomic access: `LoadHead`, `LoadRefs`, `Pin`,
`LoadNext`, `Swing`, `Taken`, `Unpin` are `try_get`; `Add`, `PutHead`, `SetNext`, `SetRefs`,
`Link`, `Relink` are `add` and `add_knowing_refcount_is_zero`.

**`ProducerHash`** is the lookup of a thread's producer.  `tables` has the tables oldest
first, `mine` the producer a thread works with.

| Action | Code |
|---|---|
| `Search`, `Readd` | the search of all tables; an entry found in an old one is put in the newest |
| `CountIn`, `TryLock`, `Resize`, `ResizeFails`, `Unlock`, `Reload` | a new thread is counted; growth under the lock; the wait for it |
| `Recycle`, `Create`, `CreateFails` | `recycle_or_create_producer` |
| `Insert`, `Uncount` | the probe for a slot |
| `Exit`, `ExitClear`, `ExitRetire` | `implicit_producer_thread_exited` |

**`LightweightSemaphore`** is the semaphore: `Call`, `TakeSome`, `TakeNone`, `TakeMore`,
`Decrement`, `TakePost`, `TimeOut`, `LoadCount`, `NoPost`, `Undo` are the ways to wait, `Signal`
and `Post` the signal.  **`ConcurrentQueue`** is the walk over producers: `CountProducer`
and `ListProducer` are `add_producer`; `Begin`, `Score`, `Best`, `Reload`, `Sweep` the dequeue
without a token, `RotateTail`, `RotateOffset`, `Current`, `NextTail`, `Around` the one with it.  A
dequeue from one producer's queue is two steps there: `Look` reserves elements, `DequeueFrom`,
a part of the actions above, ends the `visit`.  What it gives is exact for a consumer
that is alone at that producer: by `CountersBalance` (a theorem) the counters show the elements there are
when no claim is in progress.  While another consumer has tickets there it may
give fewer, or none, although an element is unclaimed: a ticket drawn in vain stands against everybody's until its refund, and a
count loaded before a refund makes a ticket look vain.  `ImplementsSubQueue` says what is given, in which order and to whom; it
does not say that a dequeue gives something.  **`BlockingQueue`** composes the two: `Enqueue`
then `SignalPut`; `Ask`, the wait, `Permitted`, then turns of the inner dequeue (`Turn`).

*Modelling choices.*  Atomics are sequentially consistent.  Counters are kept unwrapped and
compared modulo `W`, so a wrap shows where the code's unsigned arithmetic would show it;
`Starts` has the empty queue and one near the wrap.  The three loads of `Look` are one
step, because an older tail or a newer count only makes a consumer ask for less.  A consumer
reads the block pointer of its slot again at `Release`, where the code keeps it in a local; the entry
cannot change between them.  A search of the hash tables is one step, because only its
own thread writes a thread's key.  `dry` records, for `NoneMissed`, the producers that appeared
empty to a call: nothing was left there for anybody when it looked, beyond what it reserved itself, or another consumer was inside.  `Current` rotates on `== QUOTA` for one element and on `>=` for
several, as the code does, so a mix of the two forms can step over the quota.

**`MCRegistration`**, **`MCSmsCode`**, **`MCDBPool`**, **`MCProducerHash`** and **`MCBlockingQueue`**
hold symmetry sets and constants; the first also the statement of a comment the mail
handlers do not keep.  **`MCStalledThreads`** fixes one schedule of `ProducerHash` (`Part`, `Done`).  **`MCQueues`** puts an explicit and an implicit queue behind one flag, as
`ProducerBase::dequeue` does.  **`RegistrationProofs`**, **`AesProofs`**, **`TokensProofs`**,
**`SmsProofs`**, **`ThreadProofs`** (of `DBPool` and `BlockingQueue`), **`ProducerHashProofs`**,
**`QueueProofs`** and, built on the last, **`ImplicitIndexProofs`** hold the theorems.  Definitions marked "Mutant" are
deliberate errors that show each property can fail; no specification uses them.

## Runs

| Run | Instance | Shows |
|---|---|---|
| `registration` | 3 requests, 2 addresses, 2 codes, 2 connections, 2 numbers, expiry 1, time 1, 1 crash | the type and safety invariants below; every started handler answers or dies; the handlers implement `Accounts` |
| `duplicate_send` | 2 requests | a violation: `gmail.go:123` |
| `aes` | 3 requests of 4 kinds, 2 workers, 2 addresses, bodies of up to 2 chunks | every complete body is answered, once, on its own connection |
| `aes_stale_write` | 2 requests, 1 address | a violation: `aes.cpp:30` |
| `tokens` | 2 handlers, 2 users, access token 2, refresh token 3 | renewals do not outlive their user |
| `sms` | 4 requests, 2 numbers, 2 codes, expiry 2 | the newest message holds the stored code |
| `dbpool` | 3 threads, 2 connections | the pool outlives its users; no failure is hidden |
| `sub_queues` | both kinds of producer, 2 consumers, 3 blocks of 2, index of 2, 28 values of `index_t`, 5 positions, bulks of 3 | the producers' queues implement `SubQueue`; indexes, blocks and destructors agree |
| `explicit_bulk` | an explicit producer, 8 positions, bulks that may fail | a violation: `concurrentqueue.h:1862` |
| `free_list` | 3 threads, 2 nodes | no block taken twice, linked twice or lost; each gets back |
| `producer_hash` | 3 threads, first table of 2, 1 exit, 1 failed malloc | a producer of its own for each thread; room in every table; every call ends |
| `blocking_queue` | 2 producers, a consumer with a token and one without, 2 elements, 4 ways to wait, quota 1 | elements, permits and sleepers agree; dequeues end unless consumers get in each other's way for ever; sleepers wake |

* `AccountIntegrity`: whole accounts only, unique by address and number.
* `NoIdentityClash`: the second unique key never conflicts once the first is won.
* `OwnershipProved`: codes are mailed before they are saved, saved before they
  are accepted, and no address is registered without one.
* `TokensMatchAccount`: one token answer per address, for the account stored.
* `Answered` (registration): no cycle of waits on connections and keys.
* `ImplementsAccounts`: refinement of `Accounts`.
* `InOnePlace`: a complete body is queued, computed, deferred or answered, once.
* `NoCrosstalk`: unless some connection went away with its answer pending, every
  client reads one answer, its own.
* `Answered` (AES): a complete request is answered on its connection or that is
  gone.
* `OffDwindles`: once a user is off, no step gives a token that outlives those
  held, except by the handlers in `late`.
* `CutOff`: a user off for good is without a token at some point and stays so.
* `NewestWorks`: after sends that do not overlap, a key that exists holds the code
  of the newest message, although the code is stored before it is sent.
* `NoFalsePass`: a case that reaches its shutdown saw every test succeed.
* `NoUseAfterShutdown`: no thread holds a connection where a case has ended.
* `RefusedAfterFailure`: a case finds the pool already there only after a failed
  REQUIRE.
* `HeadBehindTail`: positions taken, and granted and still to be taken, stay behind
  the tail, whatever stale count each consumer decided from.
* `CountersBalance`: at rest the optimistic count less the overcommitted is the head.
* `IndexLeadsToElement`: the newest block index leads to every element not yet moved
  out, through growth, reuse, wrap and failed calls (an explicit producer's constructors that
  throw and bulks that fail half-way are left out, and shown to break it by `explicit_bulk`).
* `BlocksAccounted`: an implicit producer's blocks are in the pool or in one entry.
* `DestructorCleansUp`: the destructors destroy what is left and free each block once.
* `ImplementsSubQueue`: refinement of `SubQueue`.
* `OneTaker`, `OneLinker`: of the free list, one thread takes a node and one links it,
  and nobody looks at its `next` meanwhile.
* `NothingLost`: a node not in use is on the list, in one thread's hands, or will be
  linked by one that still has to let go.
* `GetsBack`: a node that should be on the list gets there.
* `OwnProducer`, `ProducersApart`: one producer per thread, the same in every table;
  no two threads share one, and one without a thread can be recycled.
* `RoomBeforeExits`: until a thread exits, every table has a free slot, so probes end (`SlotFree`).
* `CallsEnd`: every lookup and every exit ends.
* `SleepersCovered`: each thread that took the count down and has not settled it is
  covered by a post made, one about to be made, or the debt the count shows.
* `PermitForEachElement`: elements are permits offered, owed, held or yet to signal.
* `NoneMissed`: a dequeue that falls short looked, during the call, at every producer listed when it began,
  while that one had no unclaimed element or another consumer was inside (the comment's "appeared empty").
* `LoopsEnd`: a consumer with permits finds its elements, or meets another one at the
  producer it looks at over and over.
* `SleepersWake`: a sleeper wakes while there is an element without an owner.

*Bounds.* Two registrations and the request that mailed their code need three
requests; the second address and the second code interfere with them.  Two connections
for three requests fill the pool: two open transactions
make the third request wait, for a connection or for a key.  Two numbers run the
sequence dry.  Time 1 with expiry 1 lets a code expire while its handler runs and be
replaced; one crash separates handlers before and after.  Two addresses for
three connections make reuse happen, two workers let bodies overtake.  An access token of 2 and a refresh token of 3 units are
the smallest that let a renewed token be renewed again before it expires.  Four SMS
requests are two sends and two verifications of one number, or one of each of
two.  Three threads over two connections fill the pool, and two of them can race
for the results while the third still queries.  The real
values (50 connections, 180 seconds, 4 workers, 10 threads) are larger instances of the same
constants.  Requests are finite, so the runs stop and deadlock is not an error
there; the liveness properties rule out stopping half-way.

Blocks of two elements, a first index of two slots and five positions make a producer fill a
block, grow its index with consumers still in the old one, and meet "no block left" with the
third.  `W` = 28 is fourteen blocks, so that a behaviour that starts at position 26 wraps after
the first of them; it is the least even number of blocks above twice what the counters can be apart in this instance, as
`RangeAssumption` of `MCQueues` asks (64 bits are, for fewer than 2^63 elements and attempts in one behaviour).  `MaxFutile` = 1 allows one attempt beyond the elements there are, enough for a ticket
to be given back while another consumer decides from it.  Three threads and two nodes
are the fewest with which the head can change and change back during a `try_get`
while a third holds a count on it.  A first
table of two slots is half full with its first thread; hashes 1, 5 and 2 collide in the small
tables.  One exit lets a new thread take the place of `t1`, recycle its producer and
reuse its slots.  What more exits can do to `SlotFree` takes far more threads than a
search of all states can have (see below).  Two elements from two producers
let a consumer with a bulk permit need both queues, and let one consumer's element be
found by the other.  The real sizes (blocks of 32, 64-bit `index_t`, first table of 32,
quota 256) are larger values of these constants.

*Fairness.* Registration: weak fairness of each handler's own steps - a remote
call returns or fails and the Go scheduler resumes the goroutine.  An INSERT that
waits for a key, or a statement that waits for a connection, is not enabled and is
promised nothing.  Clients, the clock and crashes are under no fairness.  AES: weak
fairness of each worker and of the loop's deferred queue; clients may stop
sending at any point.  Tokens: weak fairness of the clock and of each started handler;
clients and whoever edits `users` may do nothing, or go on for ever.  `FreeList`, `ProducerHash`
and `BlockingQueue`: weak fairness of each thread's steps inside a call, which is the
scheduler's; nobody has to call again.  A thread that sleeps is not enabled until
there is a post, and a wait without timeout may sleep for ever when nothing comes.  `CallsEnd` uses
that malloc fails `MaxFails` times at most: a thread that waits for a larger table makes it
itself when the others fail.  `LoopsEnd` has its exception because no fairness of the scheduler takes it
away: two consumers at the last element of one producer can go on for ever, each reserving while the other's vain
ticket is not refunded and each failing by the overcommit count it loaded before the other's refund.
The loop around `try_dequeue` then turns as long as they stay in step; with one consumer at a
producer it ends.  `SmsCode`, `DBPool` and the producers' queues state no liveness.

*Violations.* `duplicate_send`: the key is set only after the lookup and the SMTP
dialogue, so two overlapping requests both pass the check and mail.
`aes_stale_write`: all three closures write even when the flag is set, through a
pointer that is gone, and the `shared_ptr` frees and keeps nothing.  `explicit_bulk`: a bulk
enqueue that fails after it put a block in the ring keeps the block but sets the count
of used slots back; a later enqueue reuses that block without a look at the count
and overwrites the entry of a block that still holds elements.  A constructor that throws
takes the same path, and `~ExplicitProducer`, which trusts the count, then misses elements; `MCQueues` therefore
leaves both out of the explicit queue.  `ThrowIn`, `BulkFill` and this run model them.

One comment more is not kept, at `concurrentqueue.h:3412`: a probe is "Not an infinite loop because at least one slot
is free in the hash table" (`SlotFree`).  It takes more threads than a search of all states can have, so
`MCStalledThreads` follows one schedule of seventeen, and it is not among the runs of the project:
`tlc -config StalledThreads.cfg MCStalledThreads` ends with `SlotFree` violated.  All search the first
table, of 8 slots.  One takes a slot there and exits;
two pass the room check of that table and stop; the next makes the second table, of 16.  The fifteen that still mean to
enter the first one do so in turn: each takes the slot the one before it left, is taken off the count for
that (`concurrentqueue.h:3514`), enters the second table uncounted (`:3430`) at its next call, and
exits, and a new thread with its id takes the slot it had in the second table.  The count stays small and all 16 slots
are used, after which a probe for a thread that is not there does not end.  A larger
first table (the real one has 32 slots) takes more such threads.  `RoomBeforeExits` is the part of the comment that holds,
and `CallsEnd` of `producer_hash` says what it says for one exit.

Three more disagreements show in the code without a run: the mail says 10 minutes and the
key lives 3 (`gmail.go:99`, `:158`, `:159`); `VerifySmsCode` deletes a code after it compared it and ignores
a failing DEL, so that one code may verify twice (`iphone.go:72`); the REQUIRE
at `test_dbpoll.cpp:40` may fail although every thread succeeded, because the results are bits of
one word of a `vector<bool>` and a thread may write back an older word (`DBPool` has that word).

## Proofs

`RegistrationProofs` proves, for every value of the constants that satisfies
`TablesAssumption` and `RegistrationAssumption` (positive pool size and expiry,
`NoCode` not a code), `TypeCorrect`, `Integrity`, `IdentityFree`, `Ownership`,
`OneWinner` and `Refinement`.  All rest on one inductive invariant, `IInv`:

* `TypeInv`: the types, and that a handler past its first INSERT has a number.
* `PendingRows`: the rows of an open transaction are exactly those its `pc` has
  reached.  Without it a commit could publish anything.
* `KeysApart`: pending rows differ in address and number from each other and
  from committed rows, and the sequence is ahead of all.  `AccountIntegrity` is
  not inductive without it: it says nothing of rows about to be committed.
* `AccountIntegrity` itself.
* `Winners`: whoever committed or answered tokens is in `users`, alone with the
  address.
* `CodesMailed`: a saved or accepted code is in the mailbox.

Steps are grouped by what they do to the rows: `QuietKeeps` for steps that touch
none, `RollbackKeeps`, one lemma for each insert, `Committed`, `AnsweredKeeps`,
`CrashKeeps`.  The refinement maps `accounts` to the users rows with both
companions (all of them, by `AccountIntegrity`) and `granted` to the token
answers: `RegCommit` is `Open`, `RegReply` is `Grant`, all else stutters.

`AesProofs` proves `TypeCorrect`, `OnePlace` and `OwnAnswers` from `AesAssumption`.
`AesInv` strengthens `InOnePlace`, which counts the places of a complete body and is
not inductive: it adds that no queue holds a request twice (`NoRepeat`), that the
queues and the workers are apart (`Apart`) and that whatever is there belongs to a
request that posted it (`Tracked`).  `OwnAnswers` also needs `Calm`: unless a
pending connection went away, every closure still finds its own connection.

`TokensProofs` proves `TypeCorrect` and `Dwindling` from `TokensAssumption`.  The
invariant `SeenActive` says that a handler about to sign found its user active, so that
user is active still or the handler is in `late`.

`SmsProofs` proves `TypeCorrect` and `Newest` from `SmsAssumption`.  `SendsApart` says
that sends of a number that is not `crossed` never run two at a time; then the one
that answers "sent" is the one whose code is stored.

`ThreadProofs` first proves `TypeCorrect` and `TruePass` of the pool from `DBPoolAssumption`.  `BitsEarned`
says that a true bit in the word, or in any copy a thread has read, is a
result its thread really got: a lost write can only lose a true.

It also proves `NothingHeld` (`NoUseAfterShutdown`) and `LeftBehind`
(`RefusedAfterFailure`): where a case has ended every thread has, and a thread holds a
connection only between getting and closing it; and a pool is there at the start of
a case only if the case before failed.

`QueueProofs` has six parts.  Of the free list it proves `TakenOnce` (`OneTaker`), `LinkedOnce`
(`OneLinker`) and `NoneLost` (`NothingLost`) from
`NodesAssumption` and `ShouldAssumption`, the latter being that the top bit is above any count of
threads.  Neither property is inductive.  `Counts` gives a node's references by its state: in use,
they are the threads that hold it; listed or just taken, one more; wanted on the list,
`Should` more; and a node is in one thread's hands at most.  `Reading` says what a thread
that holds a count has read of the node: its `next` cannot have changed since, although the head
may have been away and come back.  `Listing` says that the head and the `next` of listed nodes lead to
listed nodes, no two to the same one, and that every set of nodes the list does not leave has them all.

Of the counters it first proves, in `Claims` alone, that they balance (`ClaimsBalance`):
`ClaimInv` counts what each consumer has reserved, been granted and is to return into one equation, of which
`CountersBalance` is the case of consumers at rest.  `ClaimsAhead` is that the head stays behind the tail
as long as the counters that are compared are in a `Window` of half the range of `index_t`; its invariant `Ahead` orders the reservations by the count they got: a stale
overcommit count can only make a consumer see less, and if all earlier reservations
are granted in full there is still room for this one (`Covered`).  `QueuesClaim` then shows that every step of the
explicit and of the implicit queue is a step of `Claims` or leaves its counters alone (`QueuesStep`, one case for each action), and `Bounded`
that `MaxPut`, `MaxFutile` and the number of consumers keep the counters in the `Window` when
`RangeAssumption` holds.  `CountersAlwaysBalance` and `HeadStaysBehindTail` are the results for the producers'
queues, for every number of consumers, size of bulk and start of the counters.

The next part is about positions and blocks, whichever kind of queue: `First` and `Number` are the arithmetic of blocks by number, `Walks` says that
owners have ranges of positions of their own below the head, and `Outside` that a position is out
when it is below the head and nobody owes it.  From these each consumer's step is shown to be a step of
`SubQueue` (`GiveStep`, `MoveStep`, `QuietStep`), provided it moves out the elements of
its positions, which is what the blocks are for.

What those blocks are for is the last part of `QueueProofs` for an explicit producer and
`ImplicitIndexProofs` for an implicit one.  Together they prove, from the assumptions of `Claims`,
`ProducerBase` and `MCQueues` and so for blocks and first indexes of every size, bulks of every size and any
number of consumers: `QueuesImplementSubQueue` (`ImplementsSubQueue`), `IndexLeads` (`IndexLeadsToElement`),
`TypesKept` (`TypeOK`), `BlocksAreAccounted` (`BlocksAccounted`) and
`DestructorsCleanUp` (`DestructorCleansUp`).  Calls fail in these theorems as they do in `MCQueues`: an implicit
producer's in all their ways, an explicit one's for want of a block or a larger index before they took
a block.  An explicit producer's constructor that throws and its bulk that fails half-way are excluded, and
`explicit_bulk` shows that its index does not lead to every element after them.  `IndexLeadsToElement` is far from inductive: it speaks of the newest index and of elements
at rest, and consumers are led astray by an entry overwritten under one who read an older index, or by a block
refilled under one who still moves out of it.  The blocks are numbered as they are begun.
Of an explicit producer that is `XInv`.
Those in use are `Oldest .. Made - 1`; where block q's entry is follows from q and a `Phase` that only
changes when the index grows or wraps.

* `XIndex`: the newest index has the entries of the blocks in use, each in the slot its number and the phase give, and every older version is in a phase of its own, so that the distance in blocks from *any* filled slot leads to the right one (`SlotFound`, `SlotOfIs`).
* `XRing`: the ring goes through the blocks in use in the order of their numbers, and through no other.
* `XCells`: an element that is `Live` (not taken, or owned and not given up) stands in its block's cell; a mark in a block in use is of a position before the head that is not `Live`.  So a block all of whose cells are marked has none (`OldestGone`), and may be the newest.
* `XHands`: a consumer on its way finds in the version it loaded, old or new, an entry of the right block for each of its positions.
* `XCall`: what an `enqueue_bulk` half-way remembers: the first of its blocks, the block it began in and the slots it will go back to.

The steps have a lemma each (`XReuse`, `XNew`, `XBulkReuse`, `XRelease`, ...), and each is a step of `SubQueue` or a
stutter.  What the index does when an entry is added or the slots are doubled is stated of indexes alone
(`PutIndex`, `GrowIndex`).  The blocks of a bulk are found along the ring by a recursive function on `0 .. k`;
that it is what its equation says comes from the library's recursion on a well-founded
relation, for which `Successors` is the induction.

The destructor needs the converse of `XCells` as well, `Marked`: a cell of a block in use
whose position is before the head and not `Live` has its mark, so that a block not wholly marked has an element
left.  It is not a consequence of `XInv`, which allows marks to be missing, and it is
shown apart from it: each step's lemma says that blocks go out of use from the oldest on and
those that stay keep their marks (`Stays`), and that an element only goes with a mark set (`Emptied`); `MarkedStep`
needs no more.  `XDestroys`, which stands in `ImplicitIndexProofs` beside its counterpart `YFreesAll`, then follows the destructor: `InRingIs` (its walk of as many steps as there are blocks
comes to each block in use, whence `BlocksAssumption`: they are finite in number), `HalfIs` (the slot it looks for is the
one of the head's block; the comparison is modulo the width of `index_t`), `LeftFrom` and `LeftTo` (where it begins and
ends in a block).

Of an implicit producer it is `YInv`, with the failing calls: no block for an entry, an index that would
meet itself, a constructor that throws.  An entry belongs to a block number, `Ents[q]`, from the
moment it is made; larger indexes share the entries, so that a consumer with an old index and the producer
with the newest write and read the same ones.

* `YIndex` (`Stored`): in every version of the index an entry's key is of a number that goes in that slot, by a phase of the version's own, and the newest version has all the entries; a tail some consumer may start from has a key of this behaviour; from a block's entry to the last one the keys are those of the numbers.  `None`, which a key holds before any, is no position (`NoneAssumption`): `INVALID_BLOCK_BASE` is 1, and keys are multiples of the block size.
* `YBlocks`: each block is in the pool or housed under one number, never both.
* `YCount`: a block is housed until its positions are `Spent`, and its count says how many are; a housed block that is spent has one consumer at `Unlink`.  So whatever the producer clears or fills again is of a block whose count is complete.
* `YCells`: an element that is not spent stands in its block's cell.
* `YHands`: the version a consumer loaded, old or new, has the entries of all its positions, and it stands at the right one.
* `YCall`: the tail block and the start block of a call are the newest blocks housed, so that a call that fails returns to where it began.

What an index does when its tail moves, a key is written, the slots are doubled or a call takes its entries back
is again stated of indexes alone (`MoveTail`, `PutKey`, `GrowStored`, `GiveBack`), and each action has a lemma
(`YInsert`, `YNewBlock`, `YFill`, `YRelease`, `YUnlink`, ...).  The key an index's slot is reckoned from is
compared modulo the width of `index_t`; `RangeAssumption` is what makes that distance the true one
(`SlotOfEntry`).

`ProducerHashProofs` proves `OwnOne` (`OwnProducer`), `Apart` (`ProducersApart`) and `RoomStays` (`RoomBeforeExits`) from
`ThreadsAssumption`, `IdsAssumption` (the two invalid ids are no thread's) and `CapAssumption`.  The
invariant adds to `ProducersApart` what each place of a call may trust (`Placed`: whether the
thread has a producer and is listed, and which tables an exit has cleared), that a thread's key is in
a table only while it has a producer and with that producer's value (`Keys`), and that the
producer is one of those made (`Known`).

`RoomStays` needs an invariant of its own, `Roomy`, of the states before any exit.  A thread counts
(`Counted`) from its `fetch_add` until its call fails or for good, and the count is never less than the threads
it stands for (`Covers`).  `Fitting(m)` are the threads with a slot in a table whose room, three quarters of
its slots, is at most `m`, and those on their way to one: with a number below `m`, or past the check of such a table.  `Shares`
says that they are fewer than `m`, for every `m`.  Only `CountIn` adds to the set, and its number is then at least as
large as all that count, hence `CountInRoomy`.  An entry into a newer table (`Readd`) adds nothing because
tables only grow (`Growing`), so the thread fits there if it fitted in the old one, and a thread
enters a table once (`Once`).  A table with no free slot would have as many threads fitting in it as slots
(`RoomIsLeft`, by the pigeonhole principle), which is more than `Shares` allows.

Of the blocking queue `ThreadProofs` proves `AllAppearedEmpty` (`NoneMissed`) from `QueueAssumption` and
`BlockingAssumption`.  `ListInv` says that the list has each thread's producer once, and that
the counter the rotation divides by is ahead of it; `Seen` says, by the place of a
dequeue, which producers have appeared empty to it: those above `ptr` in a sweep, and on the way round
from the token's own those of `Passed`, which starts over when a producer gives
something; `VisitInv` says that a consumer inside a producer's queue reserved what it
wants, or all there was, or met another one; `WaitInv` says that a consumer that waits for permits is not in a dequeue.
It also proves `EverySleeperCovered` (`SleepersCovered`) and `PermitsAreElements`
(`PermitForEachElement`).  A sum over threads is there the number of pairs of a thread and one of its units, so that the
library's facts about the cardinality of unions and products give the laws of sums without an
induction.  `CountInv` has both equations and what a wait may have at each of its places
(`Fits`): a permit only at its end or before it asks for the rest, and a decrement to take back only while the count
shows a debt.  One lemma gives what a step of one consumer's wait adds to each sum.

Only model-checked: both `Answered` properties, `CutOff`, `GetsBack`, `CallsEnd`, `LoopsEnd` and
`SleepersWake` are liveness, out of the prover's reach.

## Not modelled

Of the modelled components: the HTML of the mail, JSON bodies and status texts; the cipher (one
outcome); the outer `catch` of `aesHandler` (`aes.cpp:103`), which only a failing allocation reaches; loss of Redis keys other than by expiry; a replaced or restarted database; HTTP
pipelining.  Of the queue: move and swap of whole queues, which nobody may call
concurrently; the initial block pool and `MAX_SUBQUEUE_SIZE` (a counter and a comparison that
never binds at its default); failing allocations in constructors; the chain of
thread-exit listeners, which one thread owns; weaker memory orders than sequential consistency.

Components left out, and why:

* Process lifecycle: one start-up sequence.  A signal prints a line and `run()` does not
  return, so the join order after it is not reached in a running server (`main.cpp:16`).
* HTTP routing: a table filled before the loop runs.  That the deployment's probes ask for
  paths nobody routes (`deployment.yaml:43`) is a mismatch of two lists.
* JWT library: a pure codec without a caller in the server.  Read from the code: it cuts times to
  seconds (`jwt_auth.hpp:53`) and requires `sub`, `iss` and `aud` (`:62`), which the Go service
  does not write.
* Apple login: not routed, and `parseAppleIDToken` gives jwt/v5 no key, so that what follows it
  is not reached.
* Cipher utilities, logging, `Result`, the database interfaces and their mock: wrappers that
  keep no state between calls.
* Deployment files: declarative.

## Order of the modules

`Accounts`, `UserTables`, `Registration`; `AesRequests`; `Tokens`; `SmsCode`; `DBPool`; then the queue
from below: `Claims` and `SubQueue`, `ProducerBase`, the two producers' queues, `FreeList`,
`ProducerHash`, `LightweightSemaphore`, `ConcurrentQueue`, `BlockingQueue`.
