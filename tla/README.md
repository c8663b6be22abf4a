# Verification of the Sprout runtime

Sprout (`sprout-lang`) is a language with a self-hosted compiler and a C runtime.
Its concurrency (green tasks, structured scopes, channels, deadlines) is about 1900
lines of C in `runtime/sprout_scheduler.c` and `runtime/sprout_poll.c`, driven by
thin wrappers in `stdlib/task.sprout` and `stdlib/chan.sprout`.  `runtime/sprout_runtime.c`
holds its heap, collected by a generational mark-sweep collector, and the builtins that talk
to the world: sockets, names, HTTP, child processes.  This directory holds
TLA+ models of all these, the TLC configurations that check them on small instances,
and TLAPS proofs of the properties that matter for every size.

## 1. Inventory

| component | state | operations | modelled in |
|---|---|---|---|
| handle table (`sprout_scheduler.c` 412-513) | slots with pointer, 32-bit generation and kind; free list | `handle_alloc`, `handle_release`, `handle_lookup` | `HandleTable` |
| channels (145-186, 261-377, 1232-1491) | per channel a growable ring, a send queue, a receive queue, a select queue, `closed`; per task a delivery slot | `__chan_new`, `__chan_send`, `__chan_recv`, `__chan_close`, `__chan_select`, the drop of a parked task | `Channel`, against `BoundedFifo` |
| scheduler (43-143, 188-243, 379-410, 515-1230) | ready queue, list of tasks in the poller, per scope a live count, waiter, owner and stop reason, per task an awaiter, a park and a timer | `pump_loop`, `task_trampoline`, `__scope_open/spawn/join/cancel`, `__task_fork/await`, `task_yield`, `__task_sleep`, `__await_deadline`, the parks on descriptors | `Scheduler`; the walks of a cancel in `CancelWalk` |
| poller (`sprout_poll.c`) | epoll or kqueue registrations, or the Windows arrays; timer descriptors, identifiers or the Windows heap | add, remove, add timer, remove timer, wait | `Poller`, against `Readiness`; `TimerHeap`; the interface inside `Scheduler` |
| generational collector (`sprout_runtime.c` 869-3745) | slots with sticky color bits, remembered set, regions with youngmaps and counts, free lists, root contexts, the weak cache of nullary constructors | allocate, load, store with barrier, push and pop roots, minor and major collection, full and young-only sweep | `GenGC` |
| heap regions and the arena (1136-1585, 3415-3566) | sorted table of regions, arena chunks used and recycled, map from chunk to table index, address bounds | open, allocate large, release in a sweep, find the region of an address | `RegionTable` |
| `proc_run` (`sprout_runtime.c` 4376-4912) | a request shared by a task and a helper thread, five pipes, a child | fork, exec, drain, feed, reap, kill, time out, cancel | `ProcRun` |
| async DNS (8930-9135) | a resolver thread per look-up, its request with two references, a count in flight | resolve, answer, abandon | `HttpClient` |
| HTTP client (8279-8324, 8364-8914, 9135-9772) | what a request owns at each of its parks; the reader of its response | request, connect, handshake, send, receive, time out, be dropped | `HttpClient`, `HttpReader` |
| TCP builtins and accept fairness (251-273, 11092-11761) | connection table, reserve descriptor, accept streak | connect, accept, shed, wait, read, write, close | `TcpServer`, `HttpClient` (connect) |
| persistent maps (10017-10366) | immutable balanced trees | set, remove, get, has, nth, keys | `AvlMap` |
| HTTP server (`stdlib/http_server.sprout`) | connection cap, keep-alive | serve | planned |
| terminal, analysis service | buffers | parsing and I/O | not modelled |
| compiler (`stdlib/compiler`) | syntax trees | inference, linear check, IR, code generation | not modelled: pure transformations |
| standard library, REPL, LSP, editors, benches | - | - | not modelled |

**How the parts interact.** Sprout code runs on one OS thread; the resolver threads of
name look-ups and the helper thread of a child process run beside it and share one
reference-counted record with the task that waits for them on a pipe.  The *pump* pops a task
off the ready queue and switches into it; the task runs without interruption until it
*parks*: in the poller (descriptor, timer or both), in a channel, in an await, in a
join, or as the owner of a deadline.  Whoever makes the condition true pushes the task
back.  Cancel and an expired deadline *force-drop* parked tasks: their registrations
are removed and their stacks are freed without unwinding.  Programs name scopes, tasks
and channels by handles, decoded on every call by the handle table.  A collection runs to
its end inside an allocation, or at exit, and marks from the root contexts of all tasks and
channels, which the pump switches with the tasks.

**What is hard.** Each wake-up must happen exactly once although a deadline owner or a
bounded read can be woken from two places; a drop must undo whatever the task is
linked into; timers are descriptors whose second close hits someone else's; the
delivery in channels is a handoff without a re-check of any condition; handles outlive
their records.  A builtin parked in the middle of its work owns sockets, pipes, buffers and
threads that nothing else refers to, a different set at each park, and a cancel, a time-out or a
failure may strike at each.  A minor collection is right only if no store into an old object goes
unrecorded, and a young-only sweep only if the youngmap is exact.  None of these is reachable by a test that cannot choose the order of
events in an epoll batch.  `PROJECT.json` lists the hazards line by line.

**What makes each component correct.** A handle resolves to its own record or to
none.  A channel is a bounded FIFO that hands every message over once and ends after
it is drained.  The scheduler wakes every task that can proceed, once; keeps every
task inside a scope that somebody joins; drops only parked tasks; and answers every
`with_timeout`.  The collector reclaims nothing the program can reach, lists each free
slot once, keeps its counts exact, and reclaims all garbage in the end.  The poller backends
keep one contract.  A builtin releases everything once whatever ends it, comes back
when its time is up, and tells the truth about what happened.  A response means the same
however the network cuts it.

## 2. Modules

### HandleTable, TableProofs

The variables are the C globals (`g_handles`, `g_handles_len`, `g_handles_free` as the
sequence threaded through `next_free`) and three history variables: every handle ever
`issued`, the number of records created (`lives`) and the handles of the records whose life has
not ended (`live`).  A record is a serial number, so two records at the same malloc
address stay distinct.  `handle_alloc` is `AllocReused`, `AllocFresh` and `AllocOut`;
`handle_release` is `Release`; `Use` presents any handle ever issued under any kind.
`MaxGen` stands for `UINT32_MAX` and `MaxSlots` for `HANDLE_NONE`; the run uses 3 and
2, the proofs any value.  `TableProofs` holds the proofs of this table and of `RegionTable`.

### BoundedFifo, Channel, ChannelProofs, MC_Channel

`Channel` has one action per branch of each builtin up to its park or return, and
`ResumeReturns`/`ResumeSendOnClosed` for the part after the park.  The ring keeps the
source's `buffer`, `slots`, `count`, `head`, `tail`; `chan_grow` is `GrownSlots` and
`GrownBuffer`.  A message is the number of its send on its channel.  The select queue of
a channel is the set of the tasks registered on it, ordered by `elder`, because one
parked select is in several queues at once and its place in each is the time it parked.
The order in which runnable tasks resume is left open, which allows more than the
ready queue does.  `BoundedFifo` is the abstract specification: accept, pass through, receive,
forget (only what lies beyond the bound, with its sender), close, announce the end.
`Fifo` instantiates it with the ring contents followed by what parked senders hold.

### Scheduler, SchedulerProofs, MC_Scheduler

An action is one call of the running task up to its park or return, the rest of a call
after its park, or one step of the pump (run a task, poll, harvest one event, give up).  `pc[t]` says
where a task is; `io`, `rq`, `armed`, `batch` are the poller list, the ready queue,
the registrations that can still report and the events of the last wait that were not
yet harvested.  `timerfd` maps timer descriptors to the task whose timer they are and
reuses the lowest free one as the kernel does; `misclosed` records a teardown that
closed somebody else's.  `deadline_child` is derived: it is set exactly while its owner
is parked in `__await_deadline`.  What a program does between calls is open: the
running task may make any call in `Uses` with any scope it can reach, where it can
reach the scopes it opened and the ones of its closure.  `with_scope` and
`with_timeout` come from `stdlib/task.sprout`: a scope is joined by its opener, innermost first,
and `with_timeout` opens a scope, forks the body into it, parks in
`__await_deadline`, and joins.  Fork handles are linear, so a fork is awaited at most once.
A handle starts with the task that forked; it can be moved into a `once` closure or through a channel, so with `"move"` in `Uses`
any task may turn out to hold it (`Holds`), the fork itself included.

`Uses` also holds two habits of programs that the passing runs leave out and that the
violation runs are about: `"capture"` (a task is given a scope that may be joined before
the task ends) and `"nested"` (a task that can be dropped parks inside the body of a
scope it opened itself).

### CancelWalk

`Scheduler` takes `__scope_cancel` as one step that drops the parked tasks of a scope.  `CancelWalk` is the walk behind that step
(`sprout_scheduler.c` 894-928): tasks park on the poller list and on the send, receive and select queues in any order, a select on a list of channels that may name
one twice, and the cancel then goes over the lists link by link while its own drops unlink what it stands on.  The pointer it holds
(`cwAt.link`) is the saved `next`, or for selects the head read again.

### GenGC, GenGCProofs, MC_GenGC

A slot is a place for an object and never moves.  `color` is the set of slots whose color
bit is set (marked during a collection, old between two), `rbit` and `remembered` are the
barrier's bit and list, `youngmap`, `young_count` and `old_count` the per-region
bookkeeping, `freelist` the number of times a slot is on the free lists, `gen` the
`g_gen` record.  The program may allocate, load, store, root, pop, hand values to other contexts and switch
contexts in any order.  An allocation takes a listed slot of its class, else bumps, else
opens a region, as `sprout_gc_alloc_block` does.  A collection is `StartMark` (choose the
kind, clear, mark roots, push the remembered objects), `DrainMark` per object on the
worklist, and one of `SweepFull` and `SweepYoung`, chosen by `gen_record` and `young_sweep_ok`.

Abstractions: objects have one field (so a graph is a set of chains and cycles that share tails);
slots have a fixed class, as if regions were cut in advance; a large region holds one
slot; there is one nullary constructor.  Sizes are not modelled, hence neither is the
threshold, and a collection may start at any allocation.  Permanent roots and the handles given to C
code are marked like roots of `Main` and are not separate.  The roots of a context
are a set: the LIFO discipline is codegen's.

### Poller, Readiness, TimerHeap, HeapOps, Loops, PollerProofs

`Poller` has the operations of `sprout_poll.h` as functions on the state of a backend, one
branch per backend (`epoll`, `kqueue`, `wsapoll`), and the scheduler's park, resume, harvest and
force-drop as actions that compose them in the order of the code.  Descriptors are given out
lowest first, so a number comes back at once; on epoll a timer is a descriptor too.
What the code aborts on (an add or remove on a closed descriptor) or would do to a stranger (a
timer closed twice) is recorded in `misuse`.  `Readiness` is the contract `sprout_scheduler.c` relies on, and every backend is
checked to implement it.  `HeapOps` has the arrays of the Windows backend, the deadline heap with its sifts
and its removal from the middle among them; `Poller` uses it, and `TimerHeap` checks the heap alone with more entries.
A loop of the code is `After(Turn, start, turns)` of `Loops`: `Turn` is the body, the identity once the
condition is false, and `turns` a number the loop cannot exceed.  A
descriptor has one waiter.  `stdlib.net` keeps to that for its linear connections; a program that uses the raw
`Int` handles it also exports can have a second waiter, which `BACKLOG.md` 505-510 calls latent and the models exclude.

### HttpClient, NetProofs

A call of `http_request` or `tcp_connect` from its start to its return, in steps that end
where the code parks.  `live` is what the call owns (request text, parsed URL, response buffer, socket, TLS
context, the look-up's record and pipe), `wrong` what was released without being owned.
`async_resolve` is `dns_try_numeric`, `resolve_here` (a look-up that blocks) and
`resolve_on_thread`; the thread has three steps, each of which may come before or after the task's own.  `BudgetSpent` is the passing of
the request's time.  How a park ends is open: ready, timed out when the budget is gone, or dropped.
A park whose timer cannot be armed also answers that the time is up; the call then takes the exit it
takes when its budget is gone, which releases the same set, so that case is not separate.
What a request says and what it is answered are left out; `HttpReader` is about the latter.

### HttpReader, NetProofs

The incremental reader of responses: the head found line by line, `Content-Length`,
`Transfer-Encoding`, the limits, end of file, the decoder of chunks and the final
classification.  A response is a sequence of symbols (a byte, a line end, or a whole header
line as one), cut at any place (`cut`) and delivered in any pieces.  The size of a chunk has a small limit (`HrSizeMax`)
in place of that of `size_t`.  The loops that look for the blank line (`ScanTurn`) and that decode the chunks (`ChunkTurn`)
are `After` with a turn as their body; `http_reader_step` is the head (`ReadHead`) and then the framing (`Framed`).

### TcpServer, NetProofs

A server under the pump: one accepting task, a handler per connection, a ready queue that is
run to its end before the pump polls.  `tcp_accept` is its branches (`accept_*`), the loop of
`accept_shed_backlog` is `shed_one` and `shed_end`.  The kernel is a backlog and a count of
open descriptors; the rest of the process opens and closes some of its own.  Handlers send with an idle bound,
send without one, read, or wait.  A bounded park (`ParkBounded`) takes one more descriptor for its timer, as it does on Linux, until the timer
fires or the park ends; when none is left it answers at once that the time is up.  `due` is the deadline in the code's local, `expired` its flag;
`idle` and `unarmed` are the truth they should mirror.  An `accept` that fails for good (`accept_fails`) ends the serving: the caller closes the
listener, and the handlers go on.

### ProcRun, ProcRunProofs

One call of `proc_run_raw`: the task, the helper thread, the child, and descendants of the
child that keep its pipes open.  The steps of the task up to its park may fail one by one.  The helper polls, serves what was ready
at the poll, reaps, closes and wakes in separate steps.  `procLedger` is the account of
descriptors and blocks.  Bytes are counted.  A read may fail for good, after which the code treats the stream as ended; `broken` records
the streams on which that happened.

### RegionTable, TableProofs, AvlMap

`RegionTable` has the sorted table, the arena and the chunk map with their addresses as small
integers; `region_find` is translated with its three paths, its binary searches and the walk of the
sweep as loops (`After`).  Which regions a sweep finds
empty is open.  `AvlMap` is the balanced tree of the persistent map, compared with a function
(`mapDict`).  `map_get` answers `Nothing` for a stored value equal to its sentinel
`LLONG_MIN`; `MapSound` says nothing of that value.

### MC_Net, MC_Local

Each puts components that share no state side by side: `part` selects the one that moves and
the others start, and stay, in a state of rest in which their properties hold and their
fair actions are disabled, so that fairness of one part constrains no other.

## 3. Runs

| run | instance | asks |
|---|---|---|
| `channels` | 3 tasks; a channel of capacity 3 whose ring starts at 1 slot, with 5 sends, and a rendezvous channel with 1; both select orders and the empty list | FIFO through wrap, growth, refill, close and drops; selects fire once and leave nothing linked; implements `BoundedFifo` |
| `scheduler_poller` | main + 2 tasks, 1 scope, 2 timers | parks, bounded parks, sleeps, unowned sockets and cancels against event batches |
| `scheduler_deadline` | main + 2 tasks, 2 scopes, 2 timers | every `with_timeout` is answered |
| `scheduler_cancel` | main + 2 tasks, 2 scopes, 2 timers | cancel against sleeps, channels, awaits through moved handles and deadlines; what a deadlock can be due to |
| `gc_heap` | 3 slots of 2 classes in 1 region, a major after 3 minors | no reachable object reclaimed; barrier and free lists agree with a full walk; a major leaves no garbage and releases an empty region |
| `gc_tasks` | an ordinary and a large slot, 2 root contexts, a major after 2 minors | values of suspended tasks and messages survive; old garbage is reclaimed in the end |
| `network` | 2 requests of any scheme, 1 candidate, 1 piece, 1 resolver thread; a server with 2 handles, 5 descriptors, a backlog of 2; 2 parking tasks, 3 descriptors, batches of 2, the three backends | everything released once, calls end, late answers are harmless; descriptors accounted for, accept yields, handlers end, time-outs true; the backends implement `Readiness` |
| `local` | 2 slots of 3 generations; 6 timers; 3 parked tasks on the poller and 2 channels; 4 regions over 3 chunks; 7 keys; responses of up to 20 symbols in every sequence of pieces; one child | see the properties of the parts below |
| `scheduler_starve` (violation) | as `scheduler_deadline`, with yields | a yielding task keeps deadlines from firing |
| `scheduler_capture` (violation) | main + 3 tasks, 2 scopes | a join does not see a task spawned between its wake-up and its return |
| `scheduler_nested` (violation) | main + 2 tasks, 2 scopes | dropping a task orphans the scope it has open |
| `network_cancel` (violation) | as `network`, with 1 request and 4 descriptors | a cancel during a name look-up leaks the request |

The parts of `local`: an old handle never reaches another record and a live one always its own
(`StaleNeverResolves`, `LiveAlwaysResolves`); the timer heap stays a heap and loses nothing
(`HeapSound`); a cancel drops each parked task of its scope once and nobody else, and never follows a link that a drop has freed
(`CancelDropsExactly`); the region found for an address is the one it lies in, by whichever path
(`RegionFindExact`); the map agrees with a dictionary in every way of reading it and stays
balanced (`MapSound`); a response is read alike however it is cut into pieces, and one that
is accepted is whole (`HttpSplitIndependent`, `HttpBodyWhole`); a call of `proc_run` closes
and frees everything once, signals and reaps only its own child, reports what happened and ends
in time (`ProcReleasedOnce`, `ProcKillsOwnChild`, `ProcVerdict`, `ProcCallEnds`).

**Why the bounds are enough.** Three generations show first use, reuse and
retirement.  A ring that starts at one slot and is bounded by three grows twice, by doubling
and by clamping, and wraps in between.  Two task records beside
main give an awaiter and its body, a canceller and a dropped sibling, or a deadline
in a deadline; two timers suffice for one to be reused while the other is
armed, and their exhaustion is reached.  `MaxSends`, `MaxTasks`, `MaxScopes` and
`MaxTimers` are guards of the actions that consume them.  Tasks are symmetric
in the channel run; in the scheduler runs they are numbered by allocation and no symmetry
is used.

Two requests and one resolver thread give a look-up beside another that finds the cap
reached; with one candidate the loop over addresses has its first, its last and its empty turn.
Five descriptors beside two handles let the process run out of them before the
table is full and after, at an accept and at the timer of a park, with the reserve armed and without; a streak of one is reached by the second call.  Responses arrive in pieces that end
at any symbol, inside line ends and chunks too; chunked ones are also broken off at every symbol, the others inside
the head, inside the body and not at all.  Six timers are the least for a heap in which the entry moved into a hole
must go up; three parked tasks put one of the scope before, between and after others on a queue, with a select that is twice on it; seven keys make trees of height four, in which a removal needs every
rotation, the ones at equal balance included; three chunks and four regions let a chunk be recycled while the index above it shifts.  The child and
its descendants write up to two units against a cap of one.

For the collector, three slots in one region are the least that let an old object hold a
young one while a third slot is free, reused or double-listed; three minors between majors let
an object be allocated in one minor, promoted in the next and written to before the third.
The one ordinary region of these instances is released and reopened; several ordinary regions side by side
are covered by the proofs only.  `MajorEvery` bounds `minors`, and nothing else in the model is unbounded.

Deadlock checking is off in `channels` (a channel program may block for ever) and `local` (a table may be
exhausted, a response read, a call over) and on elsewhere: for the scheduler it shows that
the pump never blocks in a poller with nothing armed, for the network that a server and a
request can always go on.

**Fairness.** The scheduler's `FairSpec` assumes weak fairness of the whole next-state relation (the
process goes on: it is one thread and no action waits for another thread), and strong
fairness of the report of each armed timer (the kernel reports an expired timer in some
wait; the pump may spend waits on other events first).  Nothing is assumed of
descriptors: a peer may never send.  In `scheduler_deadline` programs do not
yield for ever; `scheduler_starve` shows what happens when one does.

The collector's `FairSpec` assumes that a collection that has started runs to its end (it is a
plain function call), that after a task has finished the pump finds another to run, and that a program which keeps
running reaches its allocation threshold again.  The last two are statements about the
program: one that blocks for ever or stops allocating keeps its garbage until it exits,
and that is how the code behaves.

`HttpFairness`: a task that can run is run, `getaddrinfo` returns and its thread goes on, time passes, and a park whose
budget is gone is ended by its timer.  Nothing is assumed of the peer.  `TcpFairness`: the thread
runs, `accept` does not fail with a retryable error for ever, and time passes for a handler
with a bound; clients may connect without end.  `ProcFairness`: the task and the helper
thread run and an exec ends; the child and its descendants need never exit, write or close anything.

## 4. What the runs found

* `scheduler_capture`: `__scope_join` tests the live count before it parks and not after
  it resumes.  The last child only *queues* the joiner; a task ahead of it in the ready
  queue that holds the scope can still spawn into it, and the joiner frees the scope
  under the new task.  The comment there and the contract of `with_scope` say otherwise.
* `scheduler_nested`: a task parked on I/O or a timer inside the body of a `with_scope`
  of its own can be dropped by a cancel of the outer scope.  The inner tasks then have no
  joiner.  The design documents consider only the task parked *in the join*.
* `scheduler_starve`: the pump polls only when the ready queue is empty, so a yielding
  sibling postpones a deadline without bound; `with_timeout` promises one
  scheduling step of the body.

* `network_cancel`: while a request waits for a name, the clean-up its park carries frees the
  look-up's record only.  A cancel or a deadline in that window loses the request text and the
  parsed URL.  The design of the look-up asks that a cancel there leak neither memory nor
  descriptors; descriptors it does not leak.

The remaining properties hold; in particular the protocols around deadlines (the
deduplicated wake-up in the trampoline, the second classification when the body is
runnable, exactly-once teardown of timers) are right in every interleaving, and for
programs without the two habits above that is proved for any number of tasks, scopes and timers.

## 5. Proofs

* `TableProofs`, handles: `HandleInvariant`, `HandleSafety` (`StaleNeverResolves`) and
  `HandleAvailability` (`LiveAlwaysResolves`), for every set of kinds and any number of
  slots and generations.  `StaleNeverResolves` is not inductive: it says nothing of
  slots that are free now and reused later.  The inductive invariant `HandleInv` adds
  that a pair (generation, index) is issued once (`HandlesUnique`), that a slot on the
  free list is unoccupied, there once, and ahead of every generation issued for it
  (`FreeListSound`), and that each live handle describes its slot (`SlotsDescribed`).
* `ChannelProofs`: `ChannelInvariant` and `ChannelWaiters` (`WaitersMatchCounts`, the
  invariants the source states in the comment above `chan_ring_alloc`), for any tasks,
  channels, capacities, select lists and initial ring size.  The strengthening
  `ChannelInv` adds types and `RingBounds`: that a sender parks only with `count = slots =
  Cap` needs `slots <= Cap` and that a ring of a buffered channel is never of size 0.

* `GenGCProofs`: `GCInvariant`, `GCSafety` (`NoDangling`), `GCBarrier`
  (`RememberedComplete`) and `GCFreeLists` (`FreeListsExact`), for any finite heap, any
  regions, classes and root contexts, any major interval and both modes.  `NoDangling` is
  far from inductive: a sweep is safe only because of what the mark established.  `GCInv`
  adds `MarkSound` (while marking, a colored object with an uncolored child is on the
  worklist, and all roots are colored, the tri-color invariant with old objects counted as
  black), `YoungFound` (while objects are old, every uncolored object is in the youngmap, or large,
  in a region that counts young ones, so that the young-only sweep sees it), `SlotsPlaced`
  (a youngmap bit or a FREE header never sits on a large slot or outside the table) and
  `ModeSound`.  `MarkComplete` draws from `MarkSound` with an empty worklist that the colored
  objects are closed under the field, and `SweptInv` shares the rest of the argument between the two
  sweeps.

  `GCExact` (`SweepsExactly`) is the other direction: a collection keeps no more than it should.  `ExactInv` adds to `GCInv` that
  a major colors only what the program can reach (`MajorReaches`: what is reached is in every set closed under
  the roots and the field, so an object popped off the worklist passes it on to its child), that the count of survivors recorded
  last is the number of old objects (`OldCounted`, so that adding this minor's marks to it is right), and that a region that counts old objects
  has one (`OldPlaced`, so that a young-only sweep, which looks at counts and not at objects, keeps no empty region).

* `ChannelProofs`, its second half: `ChannelLinks` (`LinkedWhereParked`),
  `ChannelImplementsFifo` (`ImplementsFifo`) and `ChannelHandsOver` (`HandedOverOnce`), for any
  tasks, channels, capacities (0 included), select lists and first ring size.  Three
  inductive invariants, each needing the one before.  `LinkInv`: a task is on the wait queue its
  call parked it on, once, and on no other; the queues say who holds a message, so nothing about messages
  can be said without it.  `FifoInv`: `tail` is the slot behind the last message
  (`RingSound`) and `Closed` was answered on closed channels only (`EndedSound`).  A state is mapped to the queue `RingQueue`,
  the ring read from `head` with the wrap, then the words of the parked senders; lemmas
  about the ring say what the code's writes (store at the tail, take at the head, move a sender's word in, grow and
  re-lay) do to that sequence, and every action is then one step of `BoundedFifo` or a stutter.  `HandInv`:
  no message is in two places (`MessagesSound`, which follows from the abstract steps) and one that
  was taken out is returned or in the slot of one woken receiver.

* `SchedulerProofs`: `SchedulerTypes`, `SchedulerQueue` (`QueueSound`), `SchedulerWakes` (`Wakeable`), `SchedulerPointers`
  (`NoDanglingTask`), `SchedulerTimers` (`TimersSound`), `SchedulerLeaks` (`NothingLeaked`), `SchedulerTimeouts`
  (`BoundedParkTruthful`), `SchedulerDeadlock` (`DeadlockHasCause`), `SchedulerScopes` (`TasksInsideScopes`)
  and `SchedulerOrphans` (`NoOrphans`), for any number of tasks, scopes and timers, under the hypothesis `Disciplined`: no
  `"capture"` and no `"nested"` in `Uses`.  The hypothesis is needed: `scheduler_capture` and
  `scheduler_nested` violate the last two without it, and the passing runs, whose `Uses` all satisfy it, show
  that it excludes neither cancels nor deadlines.

  No property is inductive alone.  `SchedInv` has a group for each concern.  `QueueInv`: a task is ready or in the
  one queue its place says, and a suspended one is linked where its wake-up comes from.  `PollInv`: for
  each place of a task, parked or already harvested, the events still to come and whether its
  timer is armed; every timer descriptor is that of a task with its timer event to come, so a teardown never
  closes a stranger's.  `AwaitInv`: an awaited task has one awaiter, not
  runnable unless it is a deadline owner, and the body of a deadline is in the scope that the call opened.
  `JoinInv`: a joiner waits for its innermost scope while that has live tasks and is runnable only when it has none.
  `ScopeInv`: the live count is the number of unfinished tasks of the scope; open scopes lie
  on their openers' stacks, inner ones younger; a closure names only scopes around the task's own.  `BirthInv` says that records are given out in
  order, which gives the order on tasks and scopes that the others use.

  Two arguments need more than a step.  *A join frees nothing in use*: when the live count of the innermost scope of `t`
  is 0, no open scope and no unfinished task can name it (`NobodyElseNames`).  Otherwise take the oldest open scope that could: its opener
  is not `t`, so has the name from its closure, so runs in an older scope that could name it too.  *A deadlock
  has a cause* (`YoungestNotBlocked`): with nothing runnable, nobody in the
  poller or a channel and no await of oneself or an elder, every unfinished task awaits a younger one or joins a scope whose tasks are younger;
  the youngest can do neither.

* `NetProofs`, requests: `HttpReleases` (`HttpReleasedOnce`) and `DnsSafety` (`DnsSound`), for any finite
  set of calls, numbers of addresses and pieces, and thread cap.  `HttpReleasedOnce` speaks of the end of a call; `HttpInv`
  says what the frame, the resolver thread and the record they share hold at each program point, what the
  reference count is at each pair of them, and that the count in flight is the number of
  threads that are looking up or have yet to close their pipe.

* `NetProofs`, server: `TcpDescriptors` (`TcpAccounted`), `TcpTimeouts` (`TcpTimeoutTruthful`) and `TcpFairAccept`
  (`TcpAcceptYields`), for any finite handle table and any limits.  `TcpInv` adds what the accepting task holds
  at each of its program points (`AccSound`), that the ready queue holds each runnable handler once
  (`ReadySound`), what a handler's deadline and its timer mean where it is (`HandlerSound`) and the sum of open descriptors (`FdsSound`).
  That a time-out is true needs both histories: a handler whose flag is set has been idle or without a timer since the peer last took bytes.

* `NetProofs`, reader: `HttpPieces` (`HttpSplitIndependent`) and `HttpBodies` (`HttpBodyWhole`), for every response, every limit, every way
  in which `recv` cuts the response into pieces and every place where the peer closes.  The first compares a read with another that never
  happened.  `HrInv` makes it inductive: a reader whose head is open lies on the scan of all the bytes (`Chain`, `HeadOpen`), because a
  turn over a prefix is a turn over the whole (`PieceChain`); one that has its head has the head all the bytes have (`HeadOfAll`); and one that reads
  on would not have stopped before.  The second adds `Delivered`: a reader that stopped without a failure has what its framing asks
  for.  That an accepted chunked body is all the chunks rests on the layout of what is sent (`OnWire`): over any prefix of it, a turn
  of the decoder goes from the start of a chunk to the start of the next, ends at the last one or refuses (`WireTurn`); and the blank line of
  the head is the first of the response (`BodyBehind`), so that the decoder starts where the chunks start.

* `LoopProofs`: what the loops of `HeapOps` compute, for every array.  `Induct` is induction over the naturals for a set, from
  a minimal counterexample; `Iterate` says that a loop `After(Turn, x, k)` stays in a set its turn stays in.  The
  states of a loop that keep what the next turn needs make such a set: of a sift, an array that would be a heap but for the entry
  in hand; of the harvest, a heap without what was taken so far.  `TableProofs` and `NetProofs` use the two lemmas for the loops of `RegionTable` and `HttpReader`.

* `PollerProofs`: `HeapStaysSound` (`HeapSound`), `PollAgrees` (`PollInv`), `PollSafety` (`PollNeverMisused`) and `PollRefines`
  (`PollImplements`), for the three backends and any number of tasks, descriptors, delays and events in a batch.  That a removal
  hits the caller's wait and no other cannot be seen in a backend alone.  `PollInv` therefore ties the backend to the tasks:
  every armed wait is where its task says and was not reported (`WatchesFit`, `AlarmsFit`), no descriptor and no timer belongs to two
  tasks (`TasksSound`), what was reported is a wait of a task still parked (`ToldFits`), and the representation is sound (`BackendSound`, `EpollFits`).  `WatchView` and `AlarmView`
  read the armed waits out of each representation in one shape, so an operation is described once for the three, and each
  step of the scheduler is then a step of `Readiness` or a stutter.

* `TableProofs`, regions: `RegionLookups` (`RegionFindExact`), for any chunk size, place and size of the arena, any large regions beside it and
  any `MinRegions`; so the answer does not depend on that threshold, as the comment at `sprout_runtime.c` 1568 says.  `RtSound` has
  four parts: the table is sorted and disjoint and a region is one chunk or outside the arena (`TableSound`); the chunk map is the table seen from
  the chunks (`ChunkMapSound`), which an insertion or a release in the middle must shift; a chunk that can be handed out is no
  region's (`FreeSound`); and the address bounds hold every region (`BoundsSound`).

* `ProcRunProofs`: `ProcReleases` (`ProcReleasedOnce`), `ProcKills` (`ProcKillsOwnChild`) and `ProcTruthful` (`ProcVerdict`),
  for any caps and amounts.  `ProcInv` gives, for each pair of program points of the task and the helper
  thread, the ledger (`LedgerSound`), the places they can be at together (`PlacesSound`), the references
  (`RefsSound`) and the state of the child (`ChildSound`), and relates bytes written, read and kept
  (`ReadSound`), stream by stream and with the failed ones set apart, to the verdict (`VerdictSound`).

The assumptions are the named `ASSUME`s of the modules: capacities are naturals, the
initial ring has a slot, sends per channel are bounded by naturals, there are at least one kind and one generation, the heap has
finitely many slots and a large region one, bounds on tasks, scopes and timers are naturals, the null pointer is no
task number, the calls of a process are finitely many, handles are positive and finitely many, the limits of the TCP server are naturals, the tasks of the
poller are finitely many, delays and descriptors naturals and a batch has room for an event, and a chunk has an address.  Of a peer that sends chunks
`HrAssumption` says that it does so properly: its head ends at its only blank line, and its chunks have one or two bytes, which is what the digits of
the model can say; it may still close anywhere.  Of the other responses nothing is assumed but that they are sequences.

Only model-checked: the liveness properties (`DeadlineHonoured`, `GarbageReclaimed`, `HttpCallEnds`, `TcpHandlerEnds`,
`ProcCallEnds`), because fairness is beyond the prover; `CancelDropsExactly`, whose lists are filtered link by link
and would need induction over sequences; and `MapSound` of `AvlMap`, whose trees have no bound on their depth: it is
written with `RECURSIVE` operators and would need induction over trees.  Every other invariant and
action property of the passing runs is a theorem.

## 6. Not modelled

Allocation failure outside `ProcRun`, stacks and their guard pages, the values of results and messages,
the freeing of a scope's channels by its join (a channel lives as long as the model),
two tasks on one descriptor, the collector's diagnostic modes
(lineage poisoning, age profile, header checks), its adaptive threshold and livelock detection,
NOSCAN vectors, and the components marked so in the
table above.  `Scheduler` knows only that a task is parked in a channel; `Channel` has no
ready queue; the builtins know of the scheduler only how a park can end.  The text of requests, the URL grammar, the conversion of header
values, the path search of `proc_run`, `tcp_read_some`, `tcp_write_some`, the opening of
listeners and a server that accepts again after a failed `accept` are left out of the builtins.  The generated parser under `tree-sitter-sprout`
and the compiler are pure transformations.

## 7. Plan

1. `Scheduler` composed with `Channel`: joins that free channels (`sprout_scheduler.c` 1068-1104).
2. The HTTP server's cap and keep-alive (`stdlib/http_server.sprout`); the terminal's single
   waiter; persistent vectors, UTF-8 and base64 as algorithms against reference definitions.
3. Proofs: chunk sizes of several digits in `HttpReader`, for which the value of a digit string has to be known for every length; the
   map, with its trees as functions from paths, so that the recursion is over numbers.
