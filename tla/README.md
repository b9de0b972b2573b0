# A TLA+ model of bespokv

bespokv puts a proxy, `conproxy`, in front of single-server key-value stores
("datalets") and makes a replicated store of them. The proxy reads requests from
client connections, sends them to datalets over connections of its own and
returns the answers; a configuration file picks a topology (`ms` master-slave,
`aa` active-active, `no`), a consistency model (`strong`, `eventual`, `without`)
and a technique (`cr` chain replication, `rl` redlock, `zk` ZooKeeper). With
Kafka compiled in, sets also go to a shared log that slaves consume and that a
restarted node replays.

This directory models the modes in which that replication is hardest to get
right, the lock libraries two of them rest on, the threads of the datalets and the
client library. It checks them with TLC on small instances and proves, with TLAPS
and for instances of any size, every safety property the passing runs check.

## The system and its parts

| Part | Source | State | Concurrency |
|---|---|---|---|
| Event loop and handlers | `src/net.cpp`, `src/msg.cpp` | per connection: two queues, registered events, error mark, flags `fwd_to_replicas`, `tail` | one thread; clients, network, datalets run between handlers |
| Links and parsers | `src/link.cpp` | buffers | one read may return several messages |
| Log replication | `src/net.cpp` (`consume_kafka`, `recover_kafka`), `src/co_kafka.cpp` | producer queue, log, offset | one thread each, beside the event loop |
| Locks | `redlock-cpp/ConLock.cpp`, `redlock.cpp`, `src/co_zk.cpp` | a lock per key on a server all proxies share | several proxies |
| Datalets | `apps/iHT`, `apps/ilog`, `apps/imt` | table, queue of new connections | worker threads |
| Client library | `apps/clibs/libckv` | connections, poll set | waits for answers or times out |
| Heartbeats, controller | `src/net.cpp`, `src/controller` | a counter per proxy | 30 s timer against a 32 s check |

What makes them hard: the order of two connections' requests at two datalets;
flags on a connection read after a later request has changed them; several
responses in one read; datalets and nodes that stop in the middle of a
replication; a replay that runs beside new requests; locks that expire or are
given back by somebody else; threads that share queues and descriptor numbers;
answers that come after the client has given up. `PROJECT.json` lists these
hazards at their lines.

## Modules

| Module | Models |
|---|---|
| `ChainRepl` | the proxy in mode ms/strong/cr, with its clients and datalets |
| `AtomicKV` | abstract specification: one atomic map |
| `SharedLog` | mode eventual, topologies ms and aa: producers, log, replaying threads, crash and restart |
| `ReplicatedLog` | abstract specification: replicas replay prefixes of one log |
| `LockedWrites` | mode aa/strong: a lock per key in redis around each request |
| `RedLock` | `CRedLock`: a lock on a majority of redis servers |
| `ZkLock` | `ZooKeeper::Lock` and `Unlock`, and the proxy's use of them in mode ms/strong/zk |
| `Datalet` | dispatcher, worker threads, connections and descriptors of a datalet |
| `ClientPool` | a call of the client library over its connections |
| `MCChainRepl`, `MCSharedLog`, `MCLockedWrites`, `MCRedLock`, `MCZkLock`, `MCClientPool` | instances for TLC |
| `ChainReplSteps`, `ChainReplProofs` | theorems on `ChainRepl`: where a request is; what follows from it |
| `SharedLogProofs`, `LockedWritesProofs`, `RedLockProofs`, `ZkLockProofs`, `DataletProofs`, `ClientPoolProofs` | theorems on the modules of these names |

**ChainRepl.** One action per handler, under the handler's name: `ReqRecv`,
`ReqSend`, `ReplicaReqSend`, `RspRecv`, `ReplicaRspRecv`, `RspSend`; `Accept` is
the listening socket, including the `exit(EXIT_FAILURE)` when a datalet refuses.
`imsg`/`omsg` are `imsg_q`/`omsg_q`, `ev`/`cev` the registered epoll events,
`err`/`cerr` the error mark. `ReadBuffer` lets one read take any number of
waiting responses, and the handler then advances one request, as in the code.
`tail` is not set by `Link`'s constructor and is read as either value until
assigned. A buffer of several requests is handled in one loop in the code and
request by request in the model, which allows more interleavings. A request
carries a value nobody else writes; the history variables `issued`, `answers`,
`applied` and `lin` record what properties speak of.

**SharedLog.** A client waits for its answer, so its position (`stage`) replaces
the queues. `ReqRecv` puts a set in the producer's queue (`outq`) and goes on;
`Deliver` (Kafka) moves it to the log later. `Consume`, `ReplaySend` and
`ReplayHandle` are the loop of `consume_kafka` and `recover_kafka`, one entry in
flight; `ConsumeNothing` ends a recovery. `Crash` loses a proxy with its datalet
and queues; `Restart` starts it with the recovery option. `ParsedAs` is the
constructor's reading of `consistency_model`.

**LockedWrites.** `ReqRecv` produces to Kafka, tries the lock and, if
`fwd_to_replicas` is set (it is never reset in this mode), queues the request on
every slave link, or drops it when the lock is refused. `RspRecv` deletes the
lock, whoever holds it. `Expire` is redis ending a lock after 500 ms; the history
variable `expired` names the keys to which that has happened.

**RedLock.** `LockInstance` and `UnlockInstance` are one command to one server; it
or its answer may be lost. `Decide` counts the answers and computes
`m_validityTime`, `Retry` is the loop of `Lock`. Time is a `Tick`; keys carry the
time they have left, attempts their age, both in ticks and as `time(NULL)` counts
it, in seconds that began since. Clients in `Continuing` call `ContinueLock`,
which differs in replacing the value the object set before. One resource is
modelled.

**ZkLock.** Each action is one call of the ZooKeeper library: create the znode
(`CreatePath`), create the sequential, ephemeral child (`Enqueue`), list the children
(`List`), wait for one of them (`Gone`), list again and delete in `Unlock`. A
znode that was deleted and made again numbers its children from 0. `Throw` is an
error code: the exceptions are not caught, so the process ends and its session
with it. A process used as `"set"` is the proxy, which creates the znode, locks,
unlocks and deletes the znode in `req_recv` and unlocks again in `rsp_recv`;
`"r"` and `"w"` are callers that lock, work and unlock.

**Datalet.** `Accept`, `Push` and `Notify` are the dispatcher's way from `accept`
through `cq_push` to the byte in the pipe; `Wake`, `Pop` and `Register` the worker's
way back. `file` is the kernel's table of descriptors; `accept` takes the lowest
free number. `Close` and `CloseAgain` are the two `close` calls of `conn_close`, in
`Link::close` and once more in the destructor. The frame is the same, line by
line, in `iLog.cpp` and `iMT.cpp`.

**ClientPool.** `Dispatch` is `dispatchRetrieval`/`dispatchStorage` with the
reconnects; `Poll`, `HandleError`, `HandleOut`, `HandleIn`, `Timeout` and
`PollError` are `waitPoll`; `Destroy` is the caller's clean-up. A connection can
break between the return of `poll` and its turn in the loop. `count` is
`m_nActiveConn` with its wrap-around, and the history variable `twice` records that
a connection that had answered was counted down again for an error.

Definitions called seeded faults (`TargetTail`, `LockAlways`, ...) are the
mutations named in `PROJECT.json`; no specification uses them.

## Runs

Runs that pass:

| Run | Instance | Shows |
|---|---|---|
| `chain_order` | 2 clients x 1 request, 2 slaves | types; the invariants `ClosedLoop`, `AckedEverywhere`, `ChainOrder`; every set and get is answered |
| `chain_repeat` | 2 clients x 2 (set, get, del), 1 slave | an atomic map; agreement on keys with one writer |
| `chain_faults` | 1 client, 2 requests outstanding, 2 slaves, anything stops | no lost wakeup; nothing stored that was not produced; the handlers' `CHECK`s never abort |
| `log_ms` | 2 nodes, 2 clients x 2 sets, 2 keys, the slave crashes | a slave's table is the replay of a log prefix; refinement of `ReplicatedLog`; keys with one writer converge; every acknowledged set reaches every datalet |
| `log_aa` | 1 client x 3 sets, both nodes may crash | a key with one writer converges |
| `lock` | 2 clients with 2 and 1 requests, sets and gets, 2 keys, expiry | on keys that are only written and whose lock never expired a request works under its own lock, one at a time; agreement on keys with one writer; only contended requests are dropped; stored implies produced; every acknowledged set reaches every datalet |
| `redlock` | 3 servers, one client calls `Lock` once, the other `ContinueLock` twice, 2 attempts each | mutual exclusion; keys that counted stay |
| `zk_lock` | a proxy with 2 sets, a writer that may crash, a reader or writer whose session may lapse | holders exclude each other; an exception leaves no child; every wait in `Lock` ends |
| `datalet` | 2 workers, 2 descriptors, 3 connections x 2 requests | no byte without its connection; the threads hold exactly the open descriptors; every request is answered |
| `client` | 2 connections, 3 calls x 1 or 2 items, 2 faults | nothing is left on a connection between calls; replies are the call's own; `RET_OK` means answered; every call returns |

Runs that TLC refutes, each against a line of the repository that states or
exercises the behaviour (`findings` in `PROJECT.json` quotes them):

| Run | What happens |
|---|---|
| `chain_pipelined` | two pipelined sets whose answers arrive in one read: only one goes on, the other is never answered |
| `log_recovery` | recovery replays an old value over one just acknowledged, and ends before the newer one is in the log |

Other properties the modules define do not hold either; they have no run of their
own. Listing them in the configuration named here shows it:

* `ReplicasAgree` of `ChainRepl` (`chain_repeat.cfg`): two connections walk the chain
  over links of their own, and their sets of one key may end in different orders at
  master and slave (`net.h:50` calls the technique "lockless consistency").
* `Converges` of `SharedLog` (`log_ms.cfg`): the order of two connections in the log
  is not their order at a datalet.
* `EveryAckReplicated` and `SingleWriterConverges` of `SharedLog`, as `log_ms.cfg` with
  `Model <- SlaveAsPrinted`: the repository's README prints a slave's
  `consistency_model` as `evenual`, which the constructor does not know, and the
  slave need not start a consumer.
* `ReadsApart` of `LockedWrites` (`lock.cfg`): a get ignores a refused lock
  (`msg.cpp:103`), although "A-A strong consistency requires read + write lock"
  (`msg.cpp:98`).
* `ReplicasAgree` of `LockedWrites` (`lock.cfg`): the lock is given back before the
  other nodes have the set.
* `SetUnderLock` of `ZkLock` (`zk_lock.cfg`): `req_recv` gives the lock back itself
  (`msg.cpp:155`), before the set is sent.
* `DeletesItsOwn` of `ZkLock` (`zk_lock.cfg`): the second `Unlock`, in `rsp_recv`
  (`msg.cpp:428`), deletes by name, and once the znode was made again the name may
  be another process's. If nobody has made it again this `Unlock` throws.
* `ValidAsClaimed` of `RedLock`, as `redlock.cfg` with `N = 1` and `Second = 2`: the time
  an attempt took is measured in whole seconds (`redlock.cpp:143`), and
  `m_validityTime` can be longer than the keys live.
* `ClosesItsOwn` of `Datalet` (`datalet.cfg`): the second `close` may hit a descriptor
  that another thread's `accept` has just been given.
* `NoLateReplies` of `ClientPool` (`client.cfg`): an error on a connection that has
  answered counts `m_nActiveConn` down a second time, the call returns without its
  last reply, and a later call reads it.

The comments do not define "consistency"; the model reads it in the weakest useful
way: when nothing is in flight any more, the replicas agree.

**Bounds.** `MaxOps` bounds the requests of a client, `Window` the unanswered
ones, `CanFail`, `CanClose`, `CanCrash` what may stop (a node crashes at most
once). Two clients are enough for every conflict between connections, two slaves
for a chain with a middle node, two requests for state that one request leaves
to the next. No run has two clients with several requests each on two slaves, or a
third node in the log and lock models, and no run checks `ClosedLoop`,
`AckedEverywhere` or `ChainOrder` with datalets stopping: there the theorems,
which hold for any size and with failures, are the evidence. In `redlock` three
servers are the smallest number with a majority that is not all; `Retries` is 2
and `Ttl` two ticks, so that keys expire within an attempt. In `zk_lock` one process
makes the znode anew while another is between two calls; three processes give a
holder, a waiter and one who leaves. In `datalet` there are fewer descriptors than
connections, so that `accept` fails for a while and numbers are used again. In
`client`, `Wrap = 16` stands for 2^32: only the step below zero matters.
`ClientSymmetry` is used only in safety runs. Deadlock is
checked in `redlock`, where time goes on; elsewhere a system whose clients have
made all their requests stops.

**Fairness.** Weak fairness of the handlers: epoll is level triggered and the
loop serves every ready descriptor. The loop prefers reading to writing on one
descriptor; as requests are finite this delays a write and does not starve it.
Datalets, replaying threads, the broker and reading clients keep running; a
crashed slave that restarts replays the log. A thread of a datalet runs whenever
its event loop has something to do; so does the caller of the client library,
whose `poll` returns after `m_pollTimeout` at the latest. ZooKeeper ends the
session of a process that is gone. No fairness on clients sending, on failures,
crashes, restarts or expiry, and none on the proxies a `ClientPool` talks to.

## Proofs

All theorems hold for every value of the constants that satisfies the modules'
`ASSUME`s, plus the hypothesis named in the theorem. There are two: `Window = 1`
(clients wait for an answer before they ask again) and `Configured` (below). Each
proof shows that an invariant stronger than the property is kept by every action;
the invariants were model-checked before they were proved.

`Spec => []TypeOK` is proved for all seven models. `DataletProofs` needs a count for
it: `init_count` stays in its type because it and the threads that have not started
make up at most `num_threads`.

**ChainRepl, closed-loop clients** (`ASSUME Window = 1`).

* `ClosedLoopHolds`, `AckedEverywhereHolds`, `ChainOrderHolds`. `AckedEverywhere` is not
  inductive: whether a tail's response acknowledges a set depends on `fwd`, which
  belongs to the connection and not to the request. `ClosedLoop` says that a
  client's only request is in one place, that `fwd` is the one it set, and which
  nodes have stored it. `ChainReplSteps` has one lemma per action. With `Window > 1`
  the argument breaks where `chain_pipelined` does.
* `Linearizable`: every step is a step of `AtomicKV` or a stutter, the tail's datalet
  being the map. `LinInv` adds to `ClosedLoop` how the histories stand: as long as the
  request is before the tail it is the one `lin` has not got, from then on its answer
  is the one the client has not read. Datalets may stop and clients leave.
* `SingleWriterAgreementHolds`, for behaviours without failures. `AgreeInv`: two nodes
  differ on a key with one writer only while a set of it is halfway between two of
  the nodes from one to the other, and the node it comes from holds its value.

**ChainRepl, any window.** These do not use `ClosedLoop`: several requests may be
on a link.

* `ChecksNeverAbort` and `AppliedIsLoggedHolds`, from `LinksInv`: on every link the
  requests the datalet has and the answers it has given are no more than `omsg_q`
  holds, what goes to a node that is not the tail is a set, and every set on its
  way is in the log. The inequality is what a read of several answers needs.
* `NoLostWakeupHolds`, from `WakeInv`: besides the property, a connection that has not
  been accepted has nothing queued, as `Accept` registers events without a look at
  the queue.

**SharedLog.**

* `ImplementsReplicatedLogHolds` and `SlavesFollowLogHolds`, from `LogDiscipline`: only
  sets are in the log, the clients of a slave do not write, a thread is never ahead
  of the log. Each step maps to a step of `ReplicatedLog` or a stutter; that the
  table equals the last writes of the prefix follows by one more invariant.
* `SingleWriterConvergesHolds`, in both topologies, if the deployment is `Configured`:
  every proxy's configuration says `eventual`, and in topology ms the master does
  not crash. Without the first half a slave may start no thread (`SlaveAsPrinted`,
  above); `log_recovery` is the counterexample without the second half. In topology
  aa every node may crash. The
  invariant `ConvergeInv` has four parts. `ThreadsRun`: a node that is to replay has
  its thread. `LogCarries`: what is queued or in the log was issued by a client.
  `Replaying`: for a key with one writer, a replaying table has the outcome of the
  whole log, or one of its threads has a write of the key ahead of it, or the write
  is still in the queue of its own proxy's producer. `Producing`: the write on its
  way to a datalet, and in topology ms the value the master has, is the last one the
  log will have. The last two need each other: a client's own write overtakes the
  log at its datalet, and is harmless because the log ends with it.

**LockedWrites**, without hypotheses.

* `HoldsLockHolds` and `OneAtATimeHolds`: the properties speak of keys that are only
  written and whose lock has not expired, and other keys may be read and lose their
  locks meanwhile. `ReadsApart` shows that the first condition is needed.
* `AppliedIsLoggedHolds` follows one request from `req_recv` to the datalets: what is
  on its way has been produced.
* `DroppedOnlyContendedHolds`, from `LockOwner`: a lock that is set belongs to a request
  between `req_recv` and `rsp_recv`, although `rsp_recv` deletes locks of others.
* `SingleWriterAgreementHolds`, from `InStep`: of a key nobody but c writes, every
  other node holds, or is owed by the slave link of c, what c has last written.

**RedLock.** `KeptOnServers` and `Exclusive`. The invariant relates an attempt's age to
its keys: a server that counted holds the key with at least `Ttl - age` left, and
only the owner of a value replaces or deletes it. Two holders have a server of their
majorities in common, which would have to hold both values.

**ZkLock.** `ExclusiveHolds` and `FailedLeavesNothingHolds`, from `ZkInv`: the numbers of
the children differ and are below the next one (`Numbered`), children go with their
session (`Ephemeral`), and of each process: its child is of the kind it asked for
(`Marked`), has nobody before it that `Lock` would wait for once `Lock` has returned
(`First`), and is gone after its `Unlock` (`Released`). `First` is about a child that is
there: the second `Unlock` of a proxy may delete another process's child, and the
property speaks of holders that still have theirs. The numbers make it inductive: a
new child is behind all others, and a znode is made anew only when it has none.

**Datalet.** `QueueNotEmptyHolds`, from `ByteInv`: the length of a worker's queue is the
number of bytes in its pipe, plus the one it has just read, plus the one the
dispatcher is about to write. `HeldIsOpenHolds`, from `HoldInv`: an item is in one of
its places (dispatcher, a place in a queue, a worker's hands, a link) and in one of
them just while its descriptor is open for its connection (`Once`, `Exact`). That a
place holds an item twice is what the set `Held` of the property cannot see, and what
a `Pop` would break.

**ClientPool.** `QuietBetweenCallsHolds`, `OwnRepliesHolds` and `OkIsAnsweredHolds`. The
invariant `Inv` has one part per piece of state: what `poll` reported (`Reported`),
what a connection waits for (`Waits`), what is on its wires (`Wires`, while nothing
was counted twice), what was parsed (`Parsed`), that `m_nActiveConn` is the number of
connections still waited for (`Counted`, likewise, or while there was no error) and,
for a call without errors, that the others have answered (`Answered`).

Only model-checked: the liveness properties (`EveryRequestAnswered`,
`EveryAckReplicated`, `EveryLockReturns`, `EveryCallReturns`), as fairness is out of the
prover's reach, and the refutations, which are counterexamples.

## Not modelled

* Partial writes (`msg_send` at a full socket buffer), parse errors, reuse of
  links after a client has closed.
* Topics with several partitions, broker errors, a broker that stalls so long
  that recovery ends early; producers deliver in order.
* Failure of a datalet without its proxy in `SharedLog`; any node failure in
  `LockedWrites`; `del` in `LockedWrites`; clients that set at a slave.
* Memory errors: the key a server link keeps after it was deleted, the redlock
  object (`dlm`) no code sets up, and for that reason mode ms/strong with `rl` in the
  proxy; two datalet threads in the table at once, which no lock prevents and whose
  outcome the language leaves undefined.
* In `RedLock` clocks of different speed; in `ZkLock` sequence numbers beyond eight
  digits; in `Datalet` failed sends; in `ClientPool` requests sent in part, delete,
  the text protocol, which is not in this build, and failover, which is off.
* Recovery in the strong modes, topology `no` and model `without`, heartbeats and
  controller, the proxy's pool of links.
* Vendored code, benchmarks and scripts. Most of the repository's lines are theirs:
  librdkafka, hiredis, Masstree and generated protobuf code. The models cover the
  parts of bespokv's own code where its processes and threads meet.

## Plan

1. Recovery in the strong modes: `ChainRepl` and `LockedWrites` with the log they
   already produce.
2. `Propagate`: topology `no` and model `without`.
3. `Heartbeat`: proxy timer and controller.
4. Reuse of links in the proxy (`get_conn`, `put_conn`).
