# A TLA+ verification of zo: runtime and compiler core

zo is a programming language: a compiler in Rust, and a runtime,
`crates/compiler/zo-runtime`, that is linked into every compiled program. The
runtime is where the system is concurrent: green tasks multiplexed on an OS
thread, channels used by tasks and by OS threads, `select`, sockets behind a
`kqueue`/`epoll` selector, a work-stealing pool, and task stacks that grow
under a fault handler. The compiler is sequential, and hard in another way: what
one handler or pass leaves behind is relied on much later, on every path control
can take through the code it produced. This directory holds TLA+ models of both,
the TLC configurations that check them, and proofs checked by TLAPS.

## Inventory

| component | state it keeps | operations | what is hard | what makes it correct |
|---|---|---|---|---|
| channel (`channel.rs`) | buffer, closed flag, wait lists of senders and receivers, one latch per parked OS thread | send, recv, recv_timeout, try_recv, close | waiters are taken off a list under the mutex and woken after it; barging callers; deadlines; a panic under the mutex | FIFO per sender, nothing lost; nobody sleeps while the buffer would serve him; close releases everybody |
| scheduler and tasks (`scheduler.rs`, `task.rs`) | run queue, current task, scheduler context, tick; per task its state, outcome, waiters | spawn, await, nursery drain, task death, dispatch, yield | dispatch is re-entrant (a nursery in a task), raw pointers in queues and lists, fairness between ready tasks and I/O, telling a deadlock | a task is in one place; every level of dispatch restores what it found; an awaited task is dead when its awaiter goes on; ready tasks run |
| select (`select.rs`) | none of its own | wait on several channels | it spins: in a task by yielding, in main by driving the queue | it must not keep others from running |
| selector and sockets (`net.rs`) | fd to parked task | register, poll, park, accept, connect, read, write | blocking and interrupted polls, one waiter per fd | a task whose data arrived runs |
| pool (`pool.rs`) | one queue and one park per worker, pending count, shutdown flag | spawn, steal, wait_idle, shutdown | stealing between two locks, parking against pushing, who frees a task | every task runs, once; the count reaches zero exactly when all are done |
| stacks (`stack.rs`) | arena of slots, recycling pool, registry of live stacks | reserve, recycle, register, extend on fault | the fault handler reads the registry | a slot belongs to one task |
| task-local storage (`tls.rs`) | map from task to values | set, get, clear | cleared on the thread the task dies on | values do not outlive the task |
| runtime map (`map.rs`) | open-addressing table with tombstones | insert, remove, get, grow | probing past tombstones, growth | it is a function |
| executor (`zo-executor`) | the stack of values, the open branches and scopes, what a statement will do at its end, the code so far | one handler per node of the tree | what a handler leaves is used by another, perhaps many nodes later; a branch can end in many ways | jumps land; a value is computed wherever it is read; every arm of a branch leaves its value |
| liveness and register allocation | sets of live values; pools of registers, spill slots, a snapshot per instruction | a backward sweep until nothing changes, one forward pass | one pass over code with loops and joins; calls clobber every register | a value is in the register where the code looks for it |
| code generation (`zo-codegen-arm`) | registers and slots at run time | translation of each instruction, spill code, moves of arguments | moves overwrite one another | operands and arguments arrive |
| the rest of the compiler (tokenizer, parser, resolver, SIR passes, ownership, linker) | trees and instruction lists | one sequential pass each | size | output means what the input means |
| UI runtime, ECS, providers, driver, language server | component trees, archetypes, binding graphs | sequential updates | order of updates | consistency of indexes |
| fret (packager), eazy (tweener), swisskit (text tools), grammars, site | - | sequential | - | - |

The components interact through calls and shared state. A task parks by putting
itself on a channel's wait list, in another task's waiter list, or in the
selector, marking itself blocked and switching to the scheduler context; the
counterpart puts it back in the run queue. Main has no task of its own: while
it waits it dispatches tasks from its own stack, and so does a task that opens
a nursery. The thread that runs a task reaches the task's stack through the fault
handler, and its values through a table keyed by the task's address. In the
compiler the executor hands the code of a function to liveness, which tells the
allocator what is live, and code generation asks the allocator's result where
each operand is.

`PROJECT.json` lists every component with its files and, under `hazards`, the
places in the code where something can go wrong that a test would hardly reach.

## Modules

| module | what it is |
|---|---|
| `BlockingFifo` | what a channel promises: a bounded FIFO whose blocked calls take effect in one step |
| `Channel` | `channel.rs` between OS threads, one step per lock section and per wake-up |
| `ChannelProofs` | theorems about `Channel`, proved by TLAPS |
| `ListLemmas` | lemmas about lists without duplicates, what they hold and how much, for the proof modules |
| `MCChannel` | constants for TLC |
| `GreenTasks` | `scheduler.rs`, the green half of `task.rs`, and channels, select and I/O as green tasks and main use them, on one OS thread |
| `GreenTasksProofs` | theorems about `GreenTasks`, proved by TLAPS |
| `MCGreenTasks` | constants for TLC: which calls each agent's code makes |
| `Pool` | `pool.rs`: clients, workers, and what tasks do on a worker, one step per lock section or atomic access |
| `PoolProofs` | theorems about `Pool`, proved by TLAPS |
| `MCPool` | constants for TLC: what each task may do |
| `Dictionary` | what a map promises: calls answered from a set of entries |
| `RuntimeMap` | `map.rs`, one step per slot looked at |
| `RuntimeMapProofs` | theorems about `RuntimeMap`, proved by TLAPS |
| `MCRuntimeMap` | constants for TLC: keys that collide |
| `TaskMemory` | `stack.rs` and `tls.rs`: the stacks and the task-local values of tasks, between OS threads |
| `TaskMemoryProofs` | theorems about `TaskMemory`, proved by TLAPS |
| `MCTaskMemory` | symmetry for TLC |
| `Sir` | the instructions of the intermediate code: what each defines, reads and jumps to |
| `Paths` | reachability in code, as a recursive function on the naturals, for properties |
| `Lowering` | `zo-executor`: the handlers that lower a function, one action per node |
| `LoweringPaths` | what holds on every path through the code of a lowered function |
| `LoweringProofs` | theorems about `Lowering`, proved by TLAPS |
| `MCLowering` | constants for TLC: which constructs a program may use |
| `RegAlloc` | `zo-liveness` and `zo-register-allocation` for values |
| `Machine` | what the code emitted by `zo-codegen-arm` does to registers and slots |
| `Compiler` | `Lowering`, `RegAlloc` and `Machine` one after the other on the same function |
| `CompilerProofs` | theorems about paths through lowered code and about liveness, proved by TLAPS |
| `MCCompiler` | constants for TLC: programs and registers |

### Channel

A thread is at `idle`, at a point where it is about to take the mutex (`send`,
`recv`, `timed`, `timedExpired`, `try`, `close`), waiting on its latch, or
waking others after an unlock. What the code does under the mutex is one action
(`SendPush`, `SendPark`, `Pop`, ...); the wake-ups it owes are left in
`waking[t]` and delivered one by one by `Wake`. A `PthreadPark` is a pair of the
thread that allocates it and a slot, used again once nobody refers to it.
`TimedGiveUp` is the window in `zo_chan_recv_timeout` between reading the latch
and taking the mutex again. Time is not modelled: a deadline may pass at any
such point. `PanicUnwinds` says whether a panic unwinds (and poisons the mutex)
or aborts, as the release profile has it. `BlockingFifo` knows only the buffer
and what each thread asks for; `Fifo` in `Channel` is the refinement mapping.

### GreenTasks

One agent, a task or `Main`, has the CPU; nothing else changes the runtime's
state, except data arriving on an fd (`Arrive`). The code of an agent is a
choice of calls from `Calls[a]`, at most `MaxCalls[a]` of them; the rest is what
`scheduler.rs` does. `Dispatch` is the first half of `run_one`, up to the
context switch: the driver keeps the task, the previous current task and the
previous scheduler context in `frame[d]`, the locals on its stack. `SwitchOut`
is the second half: control goes to whoever `schCtx` says, as in the code,
and that driver restores from its own frame, requeues the task and polls if its
loop polls then. A driver is at `drain` (a nursery's end), `await` (main only),
`sendParked`, `recvParked` (`park_thread_cooperative`), `timedParked` or
`select`. The channel is that of `Channel`, with counts for values; on one OS
thread a lock section and its wake-ups are one step. Each agent has an fd of
its own.

### Pool

A client is in `spawn` (`scan`, `push`, `unpark`: the count, the search for the
emptiest queue, the push and the wake-up are steps of their own), in
`wait_idle`, or, if it is the owner, in `shutdown`. A worker goes round the loop
of `worker_main`: `loop` (the flag), `own`, `steal` (one victim at a time,
`probe`), `stash` (it carries what it stole from one lock to the other), `park`.
`chain[w]` is its call stack: the task run by `run_task`, and above it those a
nursery in that task dispatches. `match` is `run_one` after the switch back,
`ran` is `run_task` before it reads the state again; that these are steps of
their own is what lets another worker interfere with a task that parks on a
channel (`Listen`, `MarkBlocked`, `Leave`, `Wake`). `fault` names undefined
behaviour; nothing is promised after it. `Deeds` says what each task may do:
with tasks that only yield the pool is correct, and two runs show what breaks
when tasks spawn children or park.

### RuntimeMap and Dictionary

A call is entered by `Call`, walks the table one slot at a time (`ProbePasses`,
`Free`, then one of the `...Hit` and `...Miss` actions) and returns; an insert
first moves the old table if `ShouldGrow` (`MoveSkips`, `MoveStarts`,
`PlacePasses`, `Place`, `MoveEnds`). One step per slot makes a probe that never
ends a behaviour, and makes what the table stands for in the middle of a growth
(`Entries`: the new table and what is left of the old one) something to state.
Keys are abstract and `Hash` is any function. `Dictionary` knows a set of
entries and the call being served; `Dict` is the refinement mapping.

### TaskMemory

A thread reserves a stack (from the arena, else the pool, else a new mapping),
builds a task at an address (`Build`), publishes a mapping to the fault handler
(`Register`, `Registered`: the lock is a state of its own), runs tasks, and drops
dead ones in the order of `ZoTask::drop` (`Unregister`, `Unregistered`, then
`FreeSlot`, `Pooled` or `Unmap`). `Touch` is an access to any page of the stack;
on a page that is not committed the thread is in the handler (`ExtendSlot`, or
`ReadRegistry`, `ExtendMap`, `SpinsOut`; that it finds no stack is excluded by
`RegistryIsSafe`) and its other steps wait.
`storage[t][b]` says whose value a thread has stored under an address.

### Lowering

A behaviour of `Lowering` is a program, walked. Each action is the executor's
handler of one node, from `execute_node`; between them the program is free, as far
as the grammar allows: `goal` is what the walk has to find next. The record `ex`
is the executor: the code, the stack of values, `branch_stack` (`branches`), the
scopes with the declaration each put aside, the declaration, assignment and return
that wait for their value, the short circuits that wait for their right operand.
The helpers have the executor's names in their comments (`SinkStore` is
`emit_branch_sink_store`, `Settle` is `apply_deferred_short_circuit`, ...). A type
is one of the two register classes. `Tokens` says which constructs a program may
use; a few name programs the code lowers wrongly, listed below: they are in no
run, but the theorem about labels holds for them too.

The executor's stack of values is `left` and on top of it `values`. `values` are those
of the statement that is being walked; a block whose last expression has no semicolon
and that nobody asked for a value (`MayLeave`) ends with one on the stack, and
`LeaveBehind` makes it part of `left`. No handler takes it away again: whatever looks
at the whole stack (`Height`, `LastValue`, `Drop`; an `&&` that finds two values and
does not branch, `EagerAnd`) still sees it.

A brace that closes an `if` closes the ifs it is an `else if` of as well, in a loop
of the handler. The model takes a step for each (`goal` is `merge`; no other action
is enabled then, so the handler remains one run of steps). The loop that closes
ternaries at the end of a statement is a single step instead: an arm opens no
ternary, so there is at most one on top (`Ternaries`, a conjunct of the invariant).

### RegAlloc, Machine and Compiler

`RegAlloc` takes a function, sweeps backwards until liveness is stable (`Analyze`,
a step per round) and allocates with one step per instruction: `AllocLoad`,
`AllocCall` (everything live is stored, all registers are given up, the result is
in register 0, what was stored goes back to where it was unless that was register
0) and `AllocOther` (operands come back, dead ones free their registers, the
result gets one). The order in which values die is a hash map's, hence any.
`Machine` runs the result: a register holds the number of the value that was put
there or nothing known; spill code, the search for an operand's register
(`RegisterOf`: snapshot, last reload, map of the function) and the moves before a
call are those of `codegen.rs`. A value computed again in another turn of a loop
makes its old copies stale. Variables are in memory and do not matter.
`Compiler` composes them: what is allocated and run is what `Lowering` produced.

## What the runs check

Passing runs:

| run | instance | shows |
|---|---|---|
| `channel` | two senders, a plain receiver, one with a deadline, a thread that polls and closes; panics unwind | every free slot has a filler on the way while somebody is parked; popped waiters are woken; order per sender; a close empties the lists for good; the inductive invariant of the proofs |
| `channel_live` | two senders, two plain receivers, a thread that polls and closes; panics abort; fair | every value has a taker on the way; `Channel` implements `BlockingFifo`, liveness included; after a close every parked thread gets going |
| `green_tasks` | main with three calls, two tasks with two each, two channels, one of them received from with a deadline | re-entrant dispatch restores what it found; a task is where its state says and nowhere else; a resumed awaiter finds its target dead; nobody oversleeps on a channel; a deadlock is announced only when it is one; what main's nursery leaves behind cannot run |
| `green_fair` | main and two tasks, four calls each, fair | a ready task runs; a task whose data arrived is queued, although others spin in a select |
| `pool` | two clients, two workers, two tasks that yield, one of them submitted again whenever it is done, for ever; fair | stealing keeps a task in one place; the count is zero only when all are done; a shutdown ends without the 5 ms timeouts and frees what never ran; a task that yielded runs again, unless its worker is given new ones again and again |
| `pool_deeds` | one client, two workers, two tasks and a child that spawn, await, drain, park and wake | only new work moves; no worker sleeps on a queue nobody is about to wake it for |
| `runtime_map` | four keys that collide, tables of four slots and of eight | both counters are exact; what is stored is found, once; a slot is always empty, so every probe ends; the table implements `Dictionary` |
| `task_memory` | two threads, two addresses, one arena slot, two mappings, a pool of one, three pages | no stack is lost or shared; the handler follows only pointers to live stacks; `low` promises committed pages only; a task reads its own values; faults of one access come to an end |
| `lowering` | every function of up to four constructs, two deep, with blocks that end in values nobody asked for | jumps land; values are computed wherever they are read; every arm that reaches the end of its branch has stored its value; counted loops count |
| `compiler` | functions of up to three calls, short circuits, operators, loops and declarations, two general and three float registers | liveness is exact; on every path an operand is where the code looks for it; arguments arrive |

Runs that refute what the documentation says (`findings` in `PROJECT.json`
quotes each line):

| run | what the model shows |
|---|---|
| `pool_two_holders` | a task that parks on a channel is woken by another worker while it still runs |
| `compiler_float_arguments` | `f(x, h())` on floats passes `x` twice, with the register lists of the code |

### More that is known to fail

These configurations are kept to be run by hand; each refutes one property:

| configuration | module | property | what it shows |
|---|---|---|---|
| `MCChannelTimed.cfg` | `MCChannel` | `ParkedOnlyOnEmpty` | a timed receive that expires after it was chosen leaves a value and a sleeping receiver (`channel.rs:566`) |
| `MCGreenSelectStarves.cfg` | `MCGreenTasks` | `ArrivalsServed` | main in a select never looks at the fds while another task spins (`select.rs:91`) |
| `MCGreenDriver.cfg` | `MCGreenTasks` | `DriversProgress` | a nursery in a task is never left while a sibling spins in a select (`scheduler.rs:226`) |
| `MCGreenOrphan.cfg` | `MCGreenTasks` | `NurseryWaits` | main leaves a nursery while a child is blocked on a channel (`scheduler.rs:247`) |
| `MCPoolAwait.cfg` | `MCPool` | `LastOwner` | a worker frees a dead child that its awaiter is about to free (`pool.rs:353`) |
| `MCPoolStarves.cfg` | `MCPool` | `YieldedAlwaysRuns` | a client that goes on submitting keeps a worker at its shared queue, and a task that yielded there never runs again (`pool.rs:296-310`) |
| `MCLoweringStray.cfg` | `MCLowering` | `DefsDominateUses` | in a function with a result, an `if` without an `else` stores its value in one arm and loads it in both (`executor.rs:4333-4349`); with `SinksAreAssigned` instead, the same |

Modelled as the code has it, and worth knowing although no run is about it: a
send on a closed channel panics with the mutex held and so poisons it for
receivers that should drain the buffer (`PoisonedLock`); capacity 0 is one slot,
not the rendezvous `sir.rs` speaks of (`Bound`); a select that can never fire
loops instead of panicking (`SelectIdle`); a nursery in a task is left while
children wait for their fd (`DrainIdle`); a nursery in a pool task may end other
pool tasks, which are then never counted off (`DrainDispatch`); where panics abort, the first one ends
the program (`Panics`); a task that goes on on another worker misses its
task-local values (`Moves = TRUE`).

In the compiler, met while modelling, and left out of the instances by the tokens
named (line numbers of `executor.rs` unless another file is named):

- `continue` in a loop over an array increments the element and not the index
  (6058, token `skip`); `BranchCtx` says at 27191 that it must not be incremented.
- A last `when` after an earlier `return` ends in its second arm only; what its
  first arm stored is never loaded (3907-3932, token `late`).
- `x = if ..` and `return if ..` are finished by the brace of the first arm
  (3876-3882), and an assigned `when` in a function without a result has no sink
  (16720-16729; token `assigned`). A `when` as the last value of an `if` arm, and
  `when a && f() ? ..`, are not generated either: nothing closes the one before the
  arm's brace, nor the circuit of the other before the question mark.
- A block that ends in a value nobody asked for, `if c { 5 }` or `while c { 5 }` as a
  statement, leaves it on the stack of values (4302-4349). Where something around it
  waits for a value, or the function has a result, the `if` has been given a sink: one
  without an `else` stores in its one arm and loads in both (16720-16729,
  4333-4349), although both arms must store "before reconverging" (3282) and a load of a
  slot that nobody stored to "pushes garbage" (16840). A later `&&` has two values on
  the stack and takes the old one for its left operand (6532-6538); a `return`
  without a value, and the end of a function with a result, return it (20945, 3957-4122;
  token `stray`). In functions without a result where nothing waits, which is how the
  tests write such blocks (`control_flow.rs` 14-58, 201-246), they do no harm, and are in
  the instances (token `leftover`).
- `h() == (a && f())`: the result of `h` is in register 0 when the branch is taken;
  the path through `f` moves it elsewhere, the other does not (`allocator.rs:463`,
  token `held`).
- With more operands than registers, the reload of one operand may evict another
  of the same instruction (`allocator.rs:565`), and an evicted float is reloaded as
  an integer (`allocator.rs:166`). `MaxValues` keeps the instances below that.
- Before a call two overwritten sources are kept aside; calls of six arguments in
  one another can need three (`codegen.rs:9117`).

### Bounds

`Channel`: two senders, two receivers and two sends each on a buffer of two are
enough for a full buffer, a waiter on each list, a barging caller, and a second
waiter behind the one that was chosen; `Slots` names parks a thread allocates
while an older one is still referred to. The runs without a deadline need one
slot only. `GreenTasks`: main and two tasks give a driver inside a driver;
three calls of main spawn both tasks and wait for them; `PollInterval` is 2 or 3
instead of 64 so that both a polled and an unpolled tick occur; `MaxCalls` ends
programs, which is also what the liveness runs need: a program that computes for
ever without calling the runtime starves everybody on a cooperative scheduler.
`Pool`: two workers
steal from each other, two clients race with one another and with a shutdown;
`UsizeMax` is small so that a count below zero shows; a task makes `MaxDeeds`
calls, but yields without bound. In `pool` the names in `Reused` stand for new tasks
again once they are freed (`Recycle`), so that clients can submit for ever with two
names; a shutdown ends that. Symmetry is used where no liveness is checked: names of senders in `channel`,
names of tasks in `green_tasks`, threads, addresses and mappings in `task_memory`.
`RuntimeMap`: tables of four slots instead of sixteen, so that a few keys fill
them with entries and tombstones; at `MaxCapacity` a table does not grow, which
ends histories after one growth; the hashes make probes wrap round and two keys
collide at every size. `TaskMemory`: one slot, two mappings and a pool of one make
each reservation and each release fall back at some point; three pages make the
handler's doubling overshoot. `Lowering`: four constructs two deep hold an `if`
with a `when` or an early `return` in an arm, an `else if` in a loop, a `continue`
in an `else`, a block that leaves a value (it costs as much as a statement) before a
branch; two operands may wait, for one operator (a second one is generated
only while there may still be an operator for it).
`Compiler`: three constructs and two waiting operands give a call between two
results, a short circuit in parentheses with an operand waiting below, a loop
whose body calls; the register lists are cut to as many as there are operands, in
the order of the code's, temporaries before argument registers, so that a value
meets a register that was used before. With `MaxValues` at most the number of
registers nothing is ever evicted: what happens then is listed above.

### Fairness

`Channel`: a thread inside a call keeps running. A mutex is granted
eventually, wake-ups are plain code, and a parked thread re-reads its latch
every 50 ms. No fairness is assumed of new calls. `GreenTasks`: the one OS thread
keeps running (`WF` of its step); nothing is assumed of data arriving. `Pool`: every worker and
every client inside a call keeps going, a task on a CPU yields or ends, and the 5 ms
timeout of a parked worker is never relied on (`Fairness`, in `EndlessSpec`). That a
yielded task runs again is claimed only for workers whose shared queue is empty from
some time on, for `worker_main` tries that queue first. That a fresh task starts is not
claimed: two idle workers may steal it from each other for ever, and only timing
makes that improbable. `RuntimeMap`, `TaskMemory`, `Lowering` and `Compiler` state no
fairness and no liveness: that a probe, the faults of an access or a counted loop come to an
end is stated by safety properties (`AnEmptySlotIsLeft`, `HandlerProgresses`,
`LoopsAdvance`).

## What is proved

`ChannelProofs` proves, for any finite set of threads, any assignment of roles,
any capacity, and any bound on sends:

- `Invariance`: `IInv` holds in every reachable state. It says what each
  property needs to be inductive: roles are respected; a thread holds a park of
  its own exactly while it waits (`HoldsWhileWaiting`); a registered park is
  held by a thread that waits for that very thing, is not notified, is nobody's
  to wake, and is registered once (`ListsRegistered`); and a poisoned mutex
  means a close (`FaultMeansClosed`).
- From it `TypeCorrect`, `NoWakeupLost`, `ClosedListsEmpty`,
  `SendersNotStranded`, and, if nobody uses deadlines, `ReceiversNotStranded`
  (`MCChannelTimed.cfg` shows a state in which it fails with deadlines).
- `NothingOvertakes`: per sender, the values that were received and those in the
  buffer, in that order, are 1, 2, 3, .. without a gap (`PerSenderFifo`). A value
  goes in at the back when its sender is past the check for room, so its number is
  the largest of its sender's; everything else moves the front of the buffer to the
  end of what was received, which leaves the sequence of both as it is.
- `Refinement`: where panics abort, every behaviour of `Channel` is one of
  `BlockingFifo`'s safety part.

The heart is a counting argument: taking a waiter off a list moves a thread from
"parked" to "coming", so the number of threads on their way to the buffer grows
with every value pushed and falls only with a value popped.

`PoolProofs` proves, for any number of workers, clients and tasks, and whatever
each task may do (the theorems are about `Spec`, where each task is submitted once: with
any number of tasks no name has to be used again; the assumptions are that there is a worker, that tasks of the
pool are not children, and that fewer tasks exist than the count can hold):

- `Invariance`: `IInv` holds in every reachable state up to the first undefined
  behaviour. Its first half, `AwakeInv`, adds to the types what the loop of a
  worker relies on without saying it: a client that is about to push has a task
  (`CarriesTask`), whoever is inside `run_one` has one on the stack
  (`InRunOne`), a thief has a victim left (`VictimLeft`). Its second half says
  that clients, shared queues and thieves hold only tasks of the pool that never
  ran (`HandsHoldFresh`), each in one hand (`OneHand`), and that everything else
  which refers to a task (stacks, local queues, wait lists, an await) refers to a
  child or to a task that has started (`RestStarted`).
- From it `TypeCorrect`; `NoWorkOverslept` (`SleepersOwedWake`), because a worker
  goes to sleep only over a queue it has seen empty, and every push is followed
  by setting the latch; and `StealsAreNew` (`OnlyNewWorkMoves`). The last needs
  both `OneHand`, or a second copy in a queue could have run, and `RestStarted`,
  or a wake-up could change the state of a task somebody is stealing.

Its second half goes on from there, with two more invariants.

- `Reclaiming`: a running task is on the stack of a worker that is inside
  `run_one` (`StacksRun`); a submitted task that never ran is in a queue, with a
  thief or with a client (`FreshHeld`); and the owner shuts down alone
  (`OwnerLast`). It holds whatever tasks do.
- From it `ShutdownComplete` (`ShutdownReclaims`): once all workers are gone and all
  queues are empty there is nowhere left for a running or a new task to be.
- `AtHome`: every task has a home, a worker, such that every local queue, call stack,
  wait list and await that refers to the task is that worker's (`Settled`). It assumes
  `NoListen`, that no task parks on a channel: `pool_two_holders` is what happens
  otherwise, the waker's worker becoming a second home.
- From it, under the same assumption, `OneHolder` (`HeldByOne`) and `NeverTwoRunners`:
  a task that may run is held once, and nobody enters one that another executes.
- `NoUndefinedBehaviour` assumes in addition that tasks do not spawn, or do not
  await. Both together let a worker free the child whose handle its awaiter still
  holds (`MCPoolAwait.cfg`).
- `Counting` (`CountInv`) assumes `NoListen` and `NoSpawn`: the count is at least the
  number of submitted tasks that are still there and at most the number ever
  submitted. It is not exact: a task that dies in another task's nursery is never
  counted off. `CountedDown` (`IdleMeansDone`) follows. A worker counts off whatever
  it reaps, so a child of a task that spawns is counted off though nobody counted it
  in; `IdleMeansDone` with the deeds of `MCPoolAwait.cfg` fails for that reason.

`RuntimeMapProofs` proves, for any keys, values, hash function and initial
capacity of at least four (`CapacityAssumption`; with three slots the load factor
may leave none empty), and any bound on growth:

- `Invariance`: `IInv` holds in every reachable state. Beside the types and the
  three properties it says where a call is: a probe has passed neither an empty
  slot nor its key, and the tombstone it remembers is on its way (`ProbeOK`); what
  is left of the old table shares no key with itself or with the new one
  (`GrowthOK`, `PlaceOK`); slots that are not empty are counted by `len +
  tombstones`, of which an insert has one to spare (`RoomOK`).
- From it `ExactCounts`, `WholeChains`, `SearchesEnd`.
- `Refinement`: `RuntimeMap` implements `Dictionary`. Moving an entry in a growth,
  passing a slot and remembering a tombstone are stutters; a probe that meets an
  empty slot has shown that the key is not stored, by `ChainsAreWhole` and
  `ProbeOK`.

The heart is `Distance`: a slot is on the way from a home to another if it is
nearer to the home, wrapping round; placing an entry at an index a probe has
reached keeps the chain whole because the probe has passed no empty slot.

`TaskMemoryProofs` proves, for any number of threads, addresses, slots, mappings
and pages and any bound on the pool (the assumptions are that slots and mappings
differ and that there are finitely many slots):

- `Invariance`: `IInv` holds in every reachable state. `PlacesOK` says that a stack
  is in a list, in one hand or in one box and in one of them only, and that the
  mappings that exist are those that are somewhere; `CustodyOK` what a thread holds
  at each step of a reservation or a drop, the order in which a box is withdrawn
  from the registry included; `TasksOK` that a box has a stack while it is in use,
  that a task runs on one thread, and that only threads that run one fault;
  `StorageOK` that, while tasks stay on their thread, an address is taken in no
  table but that of the thread its task ran on last.
- From it `NoStackLostOrShared` (the four counts of `Times` are of sets with one
  element at most), `HandlerReadsLiveTasks`, `LowIsTrue`, and `OwnStorage`, which
  assumes that no task moves (`~Moves`): without that it fails.
- `FaultsEnd`: the action property `HandlerProgresses`. A mapping that exists has
  at least one page below `low` (`LowOK`), so doubling it moves it, unless it covers
  the whole stack; then the faulting page is committed.

`GreenTasksProofs` proves, for any number of tasks and channels, any arms of a
select, any calls an agent's code may make, any capacity, polling interval and
bounds, and both builds (the assumptions only give the constants their types and
say that main and `None` are not tasks and that there are finitely many tasks):

- `Invariance`: `IInv` holds in every reachable state. `ChainOK` says that the frames
  of `run_one` form a chain that ends at the CPU and has no circle, so that when main
  has the CPU there is none; `QueueOK` that the run queue holds the ready tasks once
  and the chain the running ones; `ParkOK` that a blocked task is on the list for
  which its program stopped, once; `MainOK` that main, which has no state, is on the
  list of the channel it parks on and only before its latch is set; `AwaitOK` that a
  handle has one holder, which is on the task's list of waiters while that is alive.
- From it `TypeCorrect`, `DispatchIsNested`, `AwaitConsumesTheDead`,
  `DeadlocksAreReal`, and `NoTaskLostOrShared`: the counts of `OnePlace` are of sets
  with one element at most, because no list repeats a task (`ParkedOnce`).
- `ParkedAreWoken` (`NobodyOversleeps`), by `SleepInv` beside `IInv`: on each channel,
  if a receiver is parked there are at least as many receivers on their way as values,
  and if a sender is parked as many senders as free places (`Timely`), unless the
  channel is received from with a deadline (`DeadlinesKnown`). The counts are of sets
  of agents: a value moves the first of the list from the parked to the coming, the
  one who takes it is no longer coming, and `ParkOK` makes sure that whoever left the
  list can only be at the point at which it retries.
- `NurseryIsDrained`: the action property `NurseryRunsAllItCan`. Only `DrainIdle`
  takes main out of a nursery (`LeavesDrain`), and main's poll blocks while an fd is
  waited for.

The invariant must hold together: that `Die` puts each waiter in the queue once needs
`ParkOK`, which needs that a task parks with the CPU, which needs `ChainOK`.

`IInv` of `TaskMemory` and of `GreenTasks` were also checked by TLC: add it to the
INVARIANTS of `MCTaskMemory.cfg` or `MCGreenTasks.cfg`. That of `Lowering` has a
configuration of its own, `MCLoweringLabels.cfg` (module `MCLowering`): three
constructs, three deep, of every kind that mints labels, the miscompiled ones
included.

`LoweringProofs` proves, for any variables, parameters, signatures of callees,
set of constructs and bounds (`LoweringAssumption` gives the constants their types:
what a program may declare are variables of the user, its parameters are parameters,
a call has a value of one class or none):

- `Invariant`: `IInv` holds after every handler, hence for every program, however
  long and deep. Beside the types it says two things. `LabelsOwned`: a label that
  was minted has one owner at most, which is the place where it stands, or the branch
  whose end or whose second arm it is, or the short circuit that will place it; a
  label that is jumped to has an owner, and a loop's stands already. `Nested`:
  how branches fit scopes. Only a ternary is above a statement's branches and it is
  the innermost (`Ternaries`); branches of one depth are an `else if` chain
  (`Chains`); each scope but the function's was opened by a branch
  (`ScopesOpened`); between a branch and its brace the walk faces that branch
  (`Faces`); what a brace's loop still has to close is a chain of ifs in their
  last arms (`Merges`).
- From it `TypeCorrect`, and `JumpsHaveTargets` (`JumpsLand`): when the function is
  done no branch and no circuit is open, so the owner of the label of a jump is a
  place in the code, and there is one.

`LabelsOwned` alone is not inductive. A brace closes the innermost branch and pops a
scope; that it is the branch the brace belongs to, that no outer branch is forgotten
at the end of the function, and that a ternary's label is not placed twice follow
from `Nested` only. Most lemmas say of one helper of the handlers (`Produce`,
`SinkStore`, `CheckReturn`, ...) that it is `Quiet`: it emits no label and no jump
and leaves branches, circuits and scopes as they are, which keeps both halves. The last section says the same of what is left
(`Kin`, `Spares`), for the proof of `DefinitionsReachUses`.

`CompilerProofs` proves what is true of paths through the code. The library's
induction theorems take an operator as a parameter and cannot be used here, but that
the naturals are well-founded can be: the least natural at which a set of naturals is
not closed is a counterexample that has no predecessor (`Least`, `Induction`).
`Reached` and the sweep of liveness are functions on the naturals, so `Waves`
says what a path can reach after k rounds, `ReachedStays` that a set that is closed
under successors and holds the start holds all that is reached, `ReachedCloses` that
what is reached is closed, because fewer rounds find something new than there are
instructions.

- `Analysis`, for any function that `Lowering` can produce: from the moment
  allocation starts, `liveIn` and `liveOut` are a solution of the equations of
  liveness, and the least one: a value is in them only where a path to a use
  starts (`Solved`). A sweep keeps the sets among those known to be justified
  (`Sweeps`), and one that changes nothing is a solution (`FixedIsSolved`).
- `LivenessIsExact` (`LivenessExact`) follows: both directions are needed, for a
  value believed dead too early loses its register, and one believed live for ever
  keeps it.
- `DefinitionsReachUses` (`DefsDominateUses`), for any variables, parameters,
  signatures and bounds, and any set of constructs without `"assigned"`, `"late"`,
  `"stray"` and `"mixed"`. With the first three the code does lose the value of an arm or
  take one that was left (see the list above), and the property is false. `"mixed"` are
  branches with a sink in a function that has left a value and has no result: they are
  lowered rightly as far as the run `lowering` can see, but the invariant below would have to
  tell the values left before a branch from those of its arms. The invariant is `FlowInv` of
  `LoweringPaths`, beside `IInv`. It
  says for each value that is read, and for each that waits on the stack, that control
  comes to where it is read only from its definition (`Sealed`): no jump from
  outside lands in between, and no label in between belongs to an open loop, which a
  later `continue` could jump to. What waits below a circuit must have been defined
  before its jump (`Outlasts`). That a new jump or a label placed later keeps this needs
  to know where values can wait at all: none below a branch (`Sinks`), at most
  one where an arm ends (`Heights`), and that an arm that ends with a value belongs
  to a branch with a sink (`Tails`, `Asked`, `SameUse`). What blocks left is covered
  by `LeftInv`: while something is left no sink is open, the function has no result and a
  statement that waits for a value is in its expression, so that whoever takes a value finds
  one of its own statement (`LeftAlone`).

- `LoopsCount` (`LoopsAdvance`), for any set of constructs without `"skip"` (the
  `continue` in a loop over an array, which does skip the index). The invariant is
  `CountInv`, beside `IInv`. A counted loop is known by the instructions before its
  label, so no other label may be placed right after such instructions: the code
  always ends in something else (`Rests`), because the end of a range and an index are
  defined together with the label that follows, and what a statement stores to is
  never the end of a range (`Stored`). For a label that does start a counted loop,
  the counter is stored to before it with no label in between, and right before every
  jump back to it (`Advances`); for that, the branch of an open loop must know the
  counter its label was placed with (`Counters`). Then what is reached from the body
  without such a store is closed under successors and leaves the label out
  (`CounterStops`).

The proof of `DefinitionsReachUses` found a guard that the model lacked: an `&&` takes the operand
right above an enclosing circuit, never the one below it (`AndNode`). The runs were
too small to generate such a program; without the guard `CircuitsNest` is not
inductive.

`CountInv` was checked by TLC first, on `MCLowering.cfg`, and `FlowInv` and `LeftInv` there
without the token `mixed`.

Only model-checked, and why:

- all liveness, and the liveness half of the refinement;
- `SinksAreAssigned`: a sink is stored to in several places, one for each arm, so
  what has to be kept is not one definition but a set of them that nobody passes by;
- `OperandsRead`, `ArgumentsArrive`: they are true of the programs the runs generate
  and not of all (see the list above), and what distinguishes them, that no expression has
  more operands than there are registers, is a bound on programs that
  `Lowering` does not keep in its state.

## What is not modelled

See `components` in `PROJECT.json`. In the modelled components: `zo_chan_free`,
`spawn thread` and its join, the cancel flag (nothing in the runtime acts on
it), two tasks on one fd, the selector's batch of 64 events, a blocking poll that a
signal interrupts (`drain_until_dead` takes it for a deadlock), wake-ups of pool
tasks by threads outside the pool, and everything a context switch does to
registers. Of `stack.rs`, addresses, the installation of the handler and
`madvise`; of `tls.rs`, the values of threads that run no task.

Of the executor, everything but one function's control flow: the type checker,
`match`, closures, structures, templates, generics, methods, tasks and nurseries, and
programs it rejects. Conditions and operands of the modelled constructs are names, literals, calls,
operators and `&&` before a call. The SIR passes between lowering and allocation
(folding, propagation, inlining, dead code) are not in the composition: what is
allocated is the code as lowered. Of the allocator, variables in registers, indirect
calls and frame sizes; of code generation all that `Machine` does not say.

The rest of the repository is not modelled: scanners, parsers, printers, linkers and
bindings keep no state whose interplay a model could show, and layout, drawing and
easing are arithmetic on floating-point numbers. The ECS, the binding graph of the
user interface, the module resolver, ownership and the watcher of the driver are
left for later.

## Plan

1. An abstract bag of tasks that each start once, and `Pool` shown to implement it.
2. That the stores to sinks cover the paths to their loads. That `RegAlloc` gives a
   register to one value at a time.
3. The SIR passes between `Lowering` and `RegAlloc` (dead code, folding): a pass
   keeps what the properties of `Lowering` say.
4. `match`, tasks and nurseries in `Lowering`; evictions and six-argument calls in
   `Compiler`, once the code is meant to handle them.
5. The selector with shared fds; task-local storage on a pool.
6. The ECS archetype moves, the reactive binding graph, the module resolver.
