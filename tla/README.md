# A TLA+ development of Mythryl's concurrency runtime

Mythryl is a self-compiling ML-family language. Its repository holds a compiler, a build
tool (makelib), a large library, and a runtime in which three kinds of concurrency meet:

- **hostthreads**, posix threads that share one garbage-collected heap and stop at a
  rendezvous when one of them cleans it (C, `src/src/c/`);
- **task hostthreads**, pools of server hostthreads that run system calls and long
  computations for the thread scheduler (Mythryl, `src/src/lib/std/src/hostthread/`);
- **microthreads**, cooperative and preempted threads in the manner of Concurrent ML, all in one
  hostthread, with tasks, condvars and mail between them
  (Mythryl, `src/src/lib/src/lib/thread-kit/src/`).

Below them lie the generational **heapcleaner** itself, which moves the chunks that all of
them use, and the path of **posix signals** into Mythryl code, which the preemption of
microthreads relies on.

This is the part of the system whose correctness depends on interleavings, and it is what
the modules here model, check with TLC and prove with TLAPS.

Short names used below: `HS` = `c/heapcleaner/hostthread-heapcleaner-stuff.c`,
`HP` = `c/hostthread/hostthread-on-posix-threads.c`, `IO` =
`lib/std/src/hostthread/io-bound-task-hostthreads.pkg`, `MPS` =
`thread-kit/src/core-thread-kit/microthread-preemptive-scheduler.pkg`, `MT` =
`.../microthread.pkg`, `BASE` = `thread-kit/src/glue/threadkit-base-for-os-g.pkg`,
`IS` = `c/machine-dependent/interprocess-signals.c`, `A0` =
`c/heapcleaner/heapclean-agegroup0.c`, `AN` = `c/heapcleaner/heapclean-n-agegroups.c`,
`CH` = `c/heapcleaner/call-heapcleaner.c`, `MK` =
`c/heapcleaner/make-strings-and-vectors-etc.c`, `MOP`, `MS`, `MD` = `mailop.pkg`,
`mailslot.pkg`, `maildrop.pkg` beside `MPS`.
The line numbers of every definition are in `PROJECT.json`, under `map`.

## 1. Inventory

| component | state | operations | what is hard | what makes it correct |
|---|---|---|---|---|
| heapcleaner rendezvous, hostthread table (`HS`, `HP`, `call-heapcleaner.c`) | mode of each table slot, heapcleaner state, count of RUNNING hostthreads, extra-roots buffer, agegroup0 buffers, one mutex, one condvar | start, join and finish a heapcleaning; release and recover the heap round a blocking call; create and exit | every hostthread may arrive, block, return, exit or be born during a heapcleaning; one condvar serves all waits; a mutex locked by one thread is unlocked by its child | the cleaner is alone in the heap, the count is exact, roots are valid and complete, nothing allocated is lost, everybody resumes |
| io-bound and cpu-bound task hostthreads (`IO`, `cpu-bound-...`) | two request lists, two counts, the process id, one mutex, one condvar | submit; serve; start and stop servers; `is_doing_useful_work` | sleeps and wakeups, a condvar shared by servers and manager, a heap image that outlives the process | first in first out, each request once; counts off by nothing but what an image left behind; orders lead to the desired number; no lost wakeup |
| microthread scheduler, threads and tasks (`MPS`, `MT`, `BASE`) | thread and task records, condvars, foreground and background queues, the scope mutex, the request queue | make, kill, exit, raise, yield, wait; preempt, dispatch, bury; take requests; decide to shut down | the alarm may strike between any two operations; requests arrive at any time; a thread may be dead when its turn comes | no thread lost or doubled, exact counts, deaths announced, requests in order, everybody is served, no early shutdown |
| mailops, mailslots, nacks (`MOP`, `MS`) | two queues of blocked calls per mailslot, a priority, the condvars of nacks | `do_one_mailop` over a list, put and take, plain, as mailops and nonblocking | a call joins several queues and is answered once; answering it sends nacks, which answer other calls; entries of answered calls stay in the queues | each call is answered by one alternative, both sides of a mailslot at once, exactly the right nacks are sent, nobody waits for what is there, no ready mailop is passed over for ever |
| maildrops, oneshots, mailqueues | a value or a queue, blocked takers | put, take, peek, swap, nonblocking forms | the value is handed on from taker to taker | one place, first in first out |
| mailcaster, simple-rpc | threads that serve mailslots | multicast, call | as mailslots | as mailslots |
| timeouts, I/O mailops (`timeout-mailop.pkg`, `io-now-possible-mailop.pkg`) | sleep queue, fd list | sleep, poll, wake | a timeout races the event it bounds | a completed run wakes nobody |
| io-wait hostthread (`io-wait-hostthread.pkg`) | fds watched, request queue, private pipe | start, stop, watch, unwatch | requests interrupt a blocking select through the pipe | a request is seen although select blocks |
| hostthread mutexes, condvars, barriers, join (`HP`, `hostthread.pkg`) | id vectors, barrier counters, table slots | allocate, free, lock, wait, join | a free id reused, a barrier without a wait loop, a slot reused before join | a barrier passes all or none |
| start, stop, heap export (`thread-scheduler-control-g.pkg`) | run flags, saved signal handlers | start up, shut down, export | restart after an image is loaded | nothing stale survives |
| run-at, logger, deathwatch | phase lists | start-up and shutdown phases | order | phases in order |
| generational heapcleaner (`A0`, `AN`, `heapcleaner-stuff.c`, `hugechunk.c`) | chunks in agegroups, senior chunks, cards, changelog, weakrefs, code quires | allocate, store; clean agegroup 0 or the youngest n: roots, changelog, cards, sweep, weakrefs, release | a cleaning must find every pointer into what it moves; the pointers' ends are promoted at different times | no dangling pointer, every old-to-young pointer is known, the reachable graph is kept, garbage goes |
| sizes of heap buffers (`CH`, `AN`, `MK`) | size, use and seniors of each sib, requested space | decide what to clean, size the to-spaces, trim, make a large chunk | copying does not look for the end of a buffer; sizes are computed beforehand from five quantities | no to-space overflows, requested space is there |
| posix signals (`IS`, `prim.intel32.asm`, `interprocess-signals-guts.pkg`) | counters per signal, flags of the hostthread, the Mythryl-level table, the kernel's mask | catch, probe, choose, run the root handler, return to the interrupted thread or to the scheduler; mask, unmask, set a handler, pause | the kernel interrupts between any two steps; the table and the kernel change in two steps, and a handler may give the processor to another thread between them | no signal lost or doubled, no nesting, none starved, table and kernel agree while operations on them do not overlap |
| heap image import and export | the image | save, load | what survives | see `TaskHostthreads` |
| compiler, makelib, standard library, x-kit, applications | trees, files, data structures | sequential | size | not treated here |

How they interact: a microthread submits a request to a task hostthread pool (`IO` `do`); a
server hostthread runs it and posts a thunk to the scheduler (`MPS` `do`); the scheduler
queues the thunk at its next entry; when nothing is runnable it asks the pools
whether they are working, looks at the request queue, and sleeps or shuts down. All of
these hostthreads allocate in one heap, so each meets the heapcleaner rendezvous at its
heap-limit probes, and each blocking system call is bracketed by release and recover.

The hazards this code is exposed to, at their lines, are in `PROJECT.json` under `hazards`,
with the properties that guard against each, or why there is none yet.

## 2. Modules

| module | models |
|---|---|
| `StopTheWorld` | abstract: a set of hostthreads using the heap, and a cleaner that runs only when it is empty |
| `HeapcleanerRendezvous` | the rendezvous and the life of a table slot; implements `StopTheWorld` |
| `RequestQueue` | abstract: a FIFO queue, each request taken by one server and run once at most; the servers may all go, with what they run |
| `TaskHostthreads` | a pool of server hostthreads; implements `RequestQueue` |
| `Microthreads` | microthreads, tasks, condvars, the preemptive scheduler, requests, the shutdown decision |
| `MailExchange` | abstract: calls with alternatives of which exactly one happens, nacks, one-place boxes, FIFO mail |
| `Mailops` | `do_one_mailop`, mailslots, maildrops, oneshots, mailqueues, condvars and nacks; implements `MailExchange` |
| `AgegroupHeapcleaning` | the generational heapcleaner on a graph of chunks |
| `AgegroupSpace` | the sizes of the heap's buffers |
| `InterprocessSignals` | a signal's way from the kernel to its Mythryl-level handler, and the signal table |
| `HeapcleanerRendezvousProofs`, `TaskHostthreadsProofs`, `MicrothreadsProofs`, `AgegroupHeapcleaningProofs`, `AgegroupSpaceProofs`, `InterprocessSignalsProofs`, `MailopsProofs` | the theorems about each |
| `QueueOperators` | operators on the sequences that stand for queues, for `TaskHostthreads`, `Microthreads` and `Mailops` |
| `InductionLemmas` | induction over numbers in a form the provers can use, how often a sequence holds an element, and what `Among` keeps of one |
| `MC...` | instances for TLC: symmetry sets, programs; the values are in the `.cfg` files |

Definitions named `M_...` are plausible faulty versions of the definition that follows them.
Putting one in its place makes the property that `PROJECT.json` lists with it fail: this is
how we know that the property constrains the code.

### HeapcleanerRendezvous

Variables keep the names of the globals without `pth__` and `__global`: `mode` is
`hostthread->mode`; `waiters` is the set of hostthreads asleep in `pth__condvar`; `pc` says
in which call a hostthread is; `held` is the heap reference that its C frames hold (an extra
root, or the argument of a blocked call); `agegroup0` says whether the slot's buffer holds
values that have not been copied out.

`pth__mutex` is held from the first to the last line of each critical section, so one critical
section is one action, and `pthread_cond_wait` ends it. The exception is kept:
`pth__pthread_create` leaves the mutex locked and the child unlocks it, so between the two
steps no other critical section can begin (`MutexIsFree`). Entering a heapcleaning makes the
hostthread primary or secondary; the
primary waits until the count is zero, cleans (`call_heapcleaner`, one step that copies
live values out of the buffers of every slot that is not VOID) and finishes with the
partition that resets every buffer. `pth__pthread_create` takes the first VOID slot, or
undoes its increment when `pthread_create()` fails. `pth__pthread_exit` cleans the heap and
then voids the slot. Spurious wakeups are always possible.

The exit of the initial hostthread ends the process and is not an action. A created
hostthread has no user values in its buffer before it runs. Memory ordering is not modelled:
every access of the shared variables is under the mutex, except the probe of
`need_to_call_heapcleaner`, whose only effect is to enter the rendezvous.

### TaskHostthreads

`io-bound-task-hostthreads.pkg` and `cpu-bound-task-hostthreads.pkg` are the same program
and one module stands for both. Critical sections are actions; the broadcasts that the
code makes after `release_mutex` are separate steps (`do_broadcasts`,
`server_code_broadcasts`, `stop_one_broadcasts`). A server is `spawned`, then counts itself
in, loops, sleeps on the condvar, is busy, and on `DO_STOP` counts itself out. The `manager` is
the one caller that `startstop_mutex` admits to `change_number_of_server_hostthreads_to`.
`fork_to_disk` and `spawn_to_disk` start the saved image in a new process with the package's
variables and without its hostthreads. The first stops the servers before; the second does not, and the
servers are lost wherever the cleaning that writes the image has stopped them, with the requests they ran.
`lost_servers` and `lost_thunks` record how many the two counts hold that no longer exist.
`get_count_of_live_hostthreads` resets `running_servers_count` in a new process, but only when it is called from
outside before `change_number_of_server_hostthreads_to`, which sets `pid` first (section 4). Nothing
resets `running_thunks_count`, so after such an image `is_doing_useful_work` may answer yes for ever: `UsefulWorkIsSeen`
says only that it never answers no wrongly. An image is saved when no client is between its post and its broadcast and
the manager is idle: these are calls of the hostthread that saves.

### Microthreads

All microthreads share a hostthread, so between two alarms code runs alone. An operation sets
`uninterruptible_scope_mutex` (`enter_scope`), does its work in one step of `scope_body`,
and clears the mutex (`Return`), installs another thread, or leaves to the scheduler
(`Leave`). The alarm may come between all these steps: it preempts when the
mutex is 0 and leaves a note (`need_to_switch`) when it is not. Every turn of the dequeue loops is
a step.

State: `state`, `task`, `task_state`, `alive_threads_count` are the records' fields;
`is_set` and `waiting` are the done and task condvars with their lists of do1mailopruns, a
run being shared by every list it is on, so that its `blocked` flag changes everywhere at
once; `front` and `back` are the two halves of the foreground queue, which
the code treats differently (the first thread after a refill is not examined);
`background` is the queue of cpu-bound threads; `didmail` the records whose flag is set.
Requests of other hostthreads are numbers in the order of arrival; `working` and `replied` count
the pools' tasks before and after their reply.

Actions: `make_thread`, `make_task`, `kill_task`, `kill_thread`, `kill_the_dead`,
`mark_thread_as_done_and_dispatch_next_thread` (`thread_exit`), `do_handler` (an uncaught
exception), `yield`, `wait_on_condvars` and `fire_mailop` (`do_one_mailop` over one or two
condvars), the alarm, the dispatcher with its refill, dequeue and burial, the idle fate with its
tests of queues, driver, pools and request queue, and the other hostthreads' `do`. A thread's
program is any sequence of such calls, also in its exception handler, and also in a thread that is
dead and still runs.

Abstracted here: what mail carries and which call is answered (`Mailops`). `block_for_mail` is a thread that waits for a slot,
drop, queue, timeout or file descriptor; `hand_over` and `switch_to_thread__xu` are the two
ways in which a thread or a request thunk gives the processor to it, and `driver` the way the
scheduler wakes it. `microthread_switch_lock` nests a second time round code that is one
step here. Property lists of threads and tasks, `reset_thread_scheduler`, the choice of the
time quantum and debugging output are left out.

### Mailops

Microthreads again, seen from the other side: how threads are queued and preempted is left to
`Microthreads`, and any thread that is not blocked may run when no scope is open. What remains
is the content of each uninterruptible scope. Most scopes are one step. The exception is the
sending of nacks: `set_condvar__iu` answers every call that waits for the nack, each of those
sends nacks of its own before the loop goes on, and the mailslot that was chosen fires after
all of it. `agenda` is the stack of what is left to do, so that the order is the code's.

A call is a record: how it is made (`plain`, `nonblocking`, `mailop`), its alternatives in the
order in which they are tested, each with the nacks whose groups it lies in (what
`gather_base_mailops_and_nackstates` computes as flags), and the list of its nacks in the order
in which they are sent. `Programs` is a set of sets of calls; a behaviour picks one set and its threads
make any sequence of calls from it, and put into the maildrops and mailqueues that it mentions.
`waiting` has the two queues of each mailslot and the one queue of everything else;
an answered call becomes `Stale` in the queues of mailslots, where it stays until somebody cleans
it away, as in the code (the two-list queues drop some stale entries earlier than the front; nothing
distinguishes the two). `priority` has the counters; a tie is broken by any choice, of which
`pick_fairly`'s counter makes one. `left_open` is the thread that came out of
`nonblocking_take_from_maildrop` or `nonblocking_take_from_oneshot` with NULL: they return without
ending the scope (`MD`:425), so nobody else runs until that thread's next operation.
A nack condvar is made when its call is prepared, outside the scope, and may be waited for from then on.

The refinement of `MailExchange` is a function of the state: `Pending`, `Waiters`, `Returned` and `Sent`. A rendezvous counts
as done when it is decided, although `agenda` still holds it behind the nacks, and a nack counts as sent when it
is put on `agenda`. Everything else is what the variables say.

Two operators say which programs the theorems are about (section 5). `PartnersAwaitNoNack`: a call that may be picked as the
partner in a mailslot waits for no nack, if the call that picks it sends some. `MaildropsApart`: a mailop offers only
maildrops or none, and nothing else twice. `MCMailops` has an `ASSUME` that both hold of the programs of the passing run and
that the first does not hold of the program of `mailops_nacks`.

Left out: `always'` and timeout mailops with their fixed priority, I/O mailops, the wrapping of results
and exceptions, `reset_mailslot`.

### AgegroupHeapcleaning

A chunk keeps its identity when it is copied; what changes is its address. `stale` is the set
of slots that hold the address of a chunk that was in from-space when the cleaning began; forwarding
a slot takes it out, and what is still in it when from-space is released dangles. A chunk has
one field and a kind: `ro` (records, strings and all that is never stored into), `rw` (refcells, rw_vectors),
`weak`, `code` (hugechunks, which are not copied but change agegroup, and are found through the quire that holds
them). `min_age` is the card map of each agegroup. A cleaning goes through the phases of the code: roots,
changelog and sweep for agegroup 0; flip, roots, cards of the older agegroups, sweep, weakrefs,
release for the others. In each the order of the slots is free. The assembly and compiler side is
the write barrier: every store of a pointer into a refcell is put on the changelog (`heap_changelog`).

`RwHoldsCode` says whether refcells point straight at code chunks. The place of a copy is
reduced to the card on which it falls, any card. Only one field per chunk, so a record that refers to
two younger chunks is two records here.

### AgegroupSpace

The sizes of one sib through the agegroups, in abstract units; which chunks live is a free choice
within the bounds. `call_heapcleaner` decides what to clean by `must_clean_agegroup1` and `may_stop_after`,
`heapclean_n_agegroups` computes the to-spaces and copies in one step, `trim_heap`
shrinks one agegroup in a step. A hostthread that makes a large chunk tests the free space, requests more, calls the
heapcleaner and comes back (`pc` is `call`, `back`, `run`); other hostthreads may run between. `overrun`
is what a cleaning of agegroup 0 copied past the end of agegroup 1.

### InterprocessSignals

One hostthread, several microthreads. `at` is the place in assembly and C (`asm_run_mythryl_task`, the probe, `set_request`, the
eventloop, `choose_signal`), `level` the Mythryl code that runs or will be resumed: `main`, which is that of
`current`, a thread or the scheduler; `root_handler`; `handler`; or `resume`, the fate that
`load_task_from_posthandler_resumption_fate` ends. `frame` is the place of each thread, and of the handler, inside an
operation on the signal table. A handler returns a fate (`return_from_signal_handler`): the one of the interrupted code, or that of
the scheduler, which is what the alarm handler returns when it preempts. Then `current` is in `interrupted` until the scheduler
dispatches it again, in the middle of whatever it was doing, and others run operations of their own meanwhile.

The kernel delivers unblocked signals between any two steps; `c_signal_handler` runs with
all signals blocked and is one step. Every step of Mythryl code begins with a heap-limit probe. A signal
with the default action is dropped by the kernel (its effect would be to end the process).
A handler that raises an exception ends the process (`died`). `Fixed` are the signals for which `set_signal_state` returns early
(SIGKILL, SIGSTOP, SIGFPE, SIGSEGV, and those the host does not have), `Unblockable` those that no mask blocks: the Mythryl
table changes for these all the same, so table and kernel are compared on the others only.

`disturbed` is a history variable: it becomes TRUE when an operation on the table begins in a handler, or while
another thread is in the middle of one. Nothing in the code prevents either. `KernelAgreesWithTable` speaks of the behaviours
up to that point, in which one thread at a time changes the table and handlers and other threads may run at every step of
it; `RootHandlerFindsHandler` speaks of all behaviours and is false (section 4).

## 3. Runs

| run | shows |
|---|---|
| `heapcleaner` | the running count is the number of RUNNING slots (`CountMatchesTable`); one primary and no running hostthread while the heap is cleaned (`CleanerIsAlone`); the extra roots belong to frames that exist and the argument of a blocked call is a root (`RootsAreRight`); the partition loses no values (`NoAllocationLost`); the refinement `StopsTheWorld`; a requested heapcleaning starts (`CleaningStarts`), and every hostthread that waited for its end runs again (`WorldResumes`) |
| `task_hostthreads` | both counts (`CountsAreRight`), `UsefulWorkIsSeen` (the shutdown test overlooks no request), `OrdersLeadToDesired` (the wait for equality cannot be jumped over and no stop request is left behind), the refinement `ServesInOrder`; no wakeup is lost (`RequestIsTaken`; `ChangeCompletes`, unless servers were lost with an image) |
| `microthreads` | `TypeOK`, `EveryThreadInOnePlace`, `DeathIsAnnounced`, `AliveThreadsAreCounted`, `ThreadDiesOnce` with two threads and two tasks, kills, mail, uncaught exceptions and waits for one or two condvars |
| `microthreads_requests` | `RequestsBeginInOrder`, `NoEarlyShutdown`, `ForegroundIsServed`, `RequestsAreServed` with two requests and both queues |
| `microthreads_dead_run` | violated: `OnlyTheLivingRun`, finding 1 |
| `mailops` | blocked threads are listed where their partners look and nothing they wait for is there (`NobodyWaitsInVain`); the counter of a ready mailop never exceeds the number of things that have such a counter, so that it is passed over at most once for each of the others (`NoReadyMailopIsPassedOver`); the refinement `ExchangesMail` |
| `mailops_nacks` | violated: `PartnerIsStillBlocked`, finding 2 |
| `agegroups` | `TypeOK` (nothing is promoted beyond the oldest agegroup), `NoDanglingPointers`, `InterAgegroupPointersAreKnown` (changelog and cards cover every old-to-young pointer), `FullCleaningReclaimsAllGarbage`, `CleaningPreservesTheGraph` |
| `agegroups_code` | violated: `InterAgegroupPointersAreKnown` with five agegroups and refcells that hold code, finding 3 |
| `agegroup_space` | `NoTospaceOverflow`; `RoomForOneAgegroup0`, room for the buffer of one hostthread; `RequestIsGranted` |
| `interprocess_signals` | `SignalsAreNoticed`, `NoSignalIsLost`, `HandlersDoNotNest`, `NoSignalIsPassedOver`, `SeenSignalIsHandled` with one thread and the scheduler |
| `interprocess_signals_threads` | `KernelAgreesWithTable` with two threads that are preempted in the middle of operations, one signal being fixed and unblockable |

### Bounds

- *Rendezvous:* three slots. Two hostthreads give a primary and one other; the third gives a
  secondary together with one that blocks, recovers, exits or is created, and a successor
  primary while a secondary of the last cleaning still waits. Slots need not be all alive, so
  the case of two is included, and the safety properties are proved for any number.
- *Pools:* two tasks and two servers. With the stop requests the lists grow to four elements, so a
  refill of more than one element is followed by another submission; two servers compete for one
  request and for one stop. `MAX_PIDS = 2` is one change of process; a process id that
  recurs, with which the code says "we lose", is left out.
- *Microthreads:* two threads and two tasks, of which one can end: a killer and a victim, a waiter and
  what it waits for, a thread that mails and one that gets the processor. That no thread is lost or doubled is proved for any
  number. `Calls` chooses which calls a run explores besides making threads, yielding and exiting: all of them in `microthreads`,
  kills alone in `microthreads_dead_run`, which has a third thread, and none in `microthreads_requests`, where
  the request thunks are what else is runnable. `Awaited` are the threads and tasks that others wait for, both threads and the task that can
  end; nobody waits for the default task, which never does. `MaxTeam = 1` is
  at most one thread per `make_task`, with `make_thread` adding more. `MaxRequests = 2` shows
  order. Threads are created once; no operation revives one.
- *Mailops:* three threads: a caller, its partner, and one that is left in a queue or waits for a nack.
  Four programs, because one program with all calls is out of reach: choices between two mailslots
  (stale entries, both directions), a request with a nack and its server, a server with a
  nack of its own (a nack that leads to a nack, and a thread that waits for both), and all operations on a
  maildrop with a oneshot. In them no thread that may be woken by a nack is the partner in a
  mailslot of the call that sends it (`PartnersAwaitNoNack`): where it is, finding 2 ends the program. Alternatives on a
  maildrop stand only beside others on it (`MaildropsApart`), for the reason given in section 4. `MaxMail = 2` shows order; `MaxPriority` bounds the
  counter of a maildrop, which the code never resets.
- *Agegroups:* three chunks, at most two refcells and one of every other kind, two roots, three agegroups, one
  card per agegroup. Three agegroups are the fewest in which a pointer leads from an agegroup that is not
  cleaned past one that is. One card is the hardest case: whatever shares it must be remembered by
  one number. Five agegroups are what finding 3 needs, explored for one program (`ProgramSpec`).
- *Sizes:* two hostthreads, three agegroups, units that make rounding to books, the soft limit and the ratio
  each decide a size somewhere. The results are proved for all values.
- *Signals:* two signals, three sendings: one may arrive while another is counted, and a third while its
  handler runs. `MAX_MASK = 1` is one level of masking by each of the program and its handlers. For the table, two threads
  and two signals, one of them fixed, with two sendings: the one thread is preempted in the middle of an operation, the other begins or
  ends one, and a signal arrives. `HandlersChangeSignals` bounds what handlers do: it is FALSE in both
  runs, since `KernelAgreesWithTable` stops at the first change in a handler anyway; the theorems hold for both values.
- Deadlock is not checked where the system may stop: in `Microthreads`, `shutdown` is an end, and a scheduler
  blocked on a pool whose task never replied has nothing left to do; in `Mailops` all threads may wait for
  each other; in `AgegroupSpace` and `InterprocessSignals` the bounds on live data and on signals end a behaviour.
  It is checked for the rendezvous, the pools and the agegroups.

### Fairness

- *Rendezvous:* weak fairness for each hostthread inside the rendezvous. `joins_heapcleaning` is fair
  because `need_to_call_heapcleaner` answers TRUE while a heapcleaning is under way
  and compiled code probes it at every allocation point; a hostthread in a blocking call owes nothing,
  because it does not count as running. Strong fairness on the return to user code: between two
  cleanings the posix scheduler gives the mutex to a waiting thread sooner or later.
- *Pools:* weak fairness for every server, client broadcast and manager. A task that runs
  returns: the code has no timeout for one that does not.
- *Microthreads:* the hostthread keeps running (weak fairness of `scope_body` and
  `scheduler`). The 50 Hz timer keeps coming, and not always inside a scope (strong fairness
  of `alarm_preempts`); a pass through the scheduler is far shorter than a time slice, so not
  every pass is hit by a signal (the two `quiet` conditions: without them an alarm inside each
  dispatch would send it through the driver for ever). Microthreads owe nothing: a thread
  that never calls anything is the case `ForegroundIsServed` is about. Background threads are
  not promised service; the code starves them while the foreground queue is busy.

- *Signals:* weak fairness of the steps that are the hostthread's own: the entry into Mythryl code, the
  eventloop, the return from a handler, and the probe once the limit is zeroed, since compiled code probes at every
  allocation; weak fairness of the kernel's delivery of a signal that stays deliverable. Strong fairness of the root handler
  and of the handler's return: a further signal may interrupt each of them, but not every time. A handler
  is assumed to return; a program in `pause()` waits for a new signal, and is excepted.
- `Mailops` and the two agegroup modules have safety properties only. Which of several partners comes first
  is the scheduler's business, and a cleaning is a terminating loop.

## 4. Findings

### With a run

Each is a run that ends in a counterexample.

1. **A dead thread may run** (`MPS`:579, `microthreads_dead_run`). After a refill of the foreground queue its first
   thread is not examined, so a killed thread, or a thread of a dead task, runs on; `microthread.api`:97
   says it never does.
2. **A nack may answer the partner** (`MOP`:786, `mailops_nacks`). A client offers two takes, each under a nack, and
   one server offers both puts and waits for both nacks: the ordinary way to give up a request. The server waits; the
   client finds both takes ready and picks one. `send_nacks_as_appropriate` sets the condvar of
   the other, which answers the server's call; then `fire_mailop` takes the server's entry from the mailslot and
   `end_do1mailoprun_and_return_thread` raises the exception commented "Never happens" (`MS`:134).
3. **A card forgets a young chunk** (`AN`:1211, `agegroups_code`). When the scan of a card of an agegroup that is
   not cleaned meets a code chunk whose quire is being cleaned, it marks the card with the age of
   the code chunk, although a chunk of a younger agegroup that is not being cleaned may be referenced from the same card. A later
   cleaning of that agegroup does not scan the card. Three agegroups are too few for it.

### Without a run

Each is a definition that states what a comment or the documentation says, and that TLC refutes when it is made the property of
the instance named here in place of those listed there.

4. **The process-id test is void** (`IO`:269; `ServersCountIsRight` in `MCTaskHostthreads.cfg`). `pid` is assigned just before it is compared, so a
   count that came with an image is not reset, as `IO`:57-58 says it is. `spawn_to_disk` saves one: the call that would stop the
   servers is commented out. The next `change_number_of_server_hostthreads_to` may then start too few servers or none, or wait for ever
   for stops that nobody obeys (which is why `ChangeCompletes` excepts `lost_servers > 0`).
5. **Two threads that mask signals** (`interprocess-signals-guts.pkg`:487; `RootHandlerFindsHandler` in `MCInterprocessSignals_threads.cfg`). `mask_signals` computes the
   kernel's mask from the table and is preempted at the probe before its system call. Another thread masks another signal, in the kernel
   and in the table. The first goes on and sets its older mask, which unblocks that signal; when it arrives the
   root handler finds it masked and raises FAIL `inconsistent state', which ends the process.
6. **Handlers that change the table** (`c/main/run-mythryl-code-and-runtime-eventloop.c`:212; `RootHandlerFindsHandler` in
   `MCInterprocessSignals.cfg` with `HandlersChangeSignals = TRUE`). A second instance of a signal is counted
   while its handler runs, and the handler masks or redirects the signal. The kernel's mask comes too late for what was
   counted, and the root handler raises FAIL.
7. **Extra roots of a late secondary** (`HS`:379; `ExtraRootsNotLost` in `MCHeapcleanerRendezvous.cfg`). A secondary that brought
   extra roots and has not got the mutex back when the next cleaning starts is stopped through it without its
   roots. `CH`:275-278 believes that extra roots are no longer lost. `RootsAreRight` is the other half: no root
   that is in the buffer dangles.
8. **A task may die twice** (`MT`:291; `TaskDiesOnce` in `MCMicrothreads_dead_run.cfg`). `thread_exit { success => FALSE }` overwrites
   the state of a task that has ended and sets its condvar again, which raises an exception;
   `microthread.api`:71 allows exactly one transition. Of threads this is true (`ThreadDiesOnce`).
9. **`kill_thread { success => TRUE }` ends its task** (`MT`:254; `SuccessMeansAllDone` in
   `MCMicrothreads_dead_run.cfg`) while other threads of it are ALIVE. The comment
   and `microthread.api`:87-90 say when the count goes to zero.
10. **Room in agegroup 1** (`CH`:223; `Agegroup1HasRoom` in `MCAgegroupSpace.cfg`). "We require that each
   agegroup1 sib have more free space than the size of the complete agegroup0" (`CH`:207); the code asks for the
   allocation area of one hostthread, and the buffers of two are copied. What holds is `RoomForOneAgegroup0`.
11. **A large read-only vector may never be made** (`MK`:625; `LargeChunkIsMade` under `FairSpec`, in `MCAgegroupSpace.cfg`
    without symmetry, with one hostthread, two active agegroups, `RATIO = 2` and the kind `ro` only). Its allocator decides its `clean_level` before the
   first cleaning and keeps it on jumping back. When that cleaning fills agegroup 1 so far that the vector does not fit, but not so far
   that `call_heapcleaner` cleans agegroup 1 of itself, every further round cleans an empty agegroup 0; `MK`:63-66
   gives the loop another purpose, to clean again when other hostthreads took the space, and here there is one hostthread. At exact equality of free and needed
   space the other allocators of large chunks, which compare with `<=`, can do the same. What holds is `RequestIsGranted`: a cleaning of
   agegroup 1 does make the space.

Remarks:

- When a scope ends by `uninterruptible_scope_mutex := 0`, nothing looks at the note that the alarm handler left
  (`MPS`:1285), although its comment says that the thread is preempted "as soon as it exits the critical section". The
  model does what the code does; the thread is preempted by a later alarm, which is what the fairness of
  `alarm_preempts` says.
- `choose_signal` asks in a comment to be called with signals masked (`IS`:759) and is not; `NoSignalIsLost` shows that no
  harm comes of it.
- Firing `take_from_maildrop'`, `peek_in_maildrop'` or `maildrop_swap'` does not reset the maildrop's priority, as every other
  mailop does. A maildrop that is full whenever it is looked at is preferred to all others more and more, against the comment
  on `pick_fairly` ("so that we don't consistently pass over any one ready mailop", `MOP`:457). `NoReadyMailopIsPassedOver` is stated for
  lists without such a neighbour.
- `requested_extra_free_bytes` is one variable for all hostthreads: one that resets it drops the request of another, who
  then goes round its loop again.
- Answered calls stay in the queues of maildrops, mailqueues and condvars until something is put there; this costs memory only.

## 5. Proofs

Checked by TLAPS for every value of the constants that satisfies the named assumption:
`MaxHostthreadsAssumption` (the table has at least one slot), `TaskHostthreadsAssumption`
(finitely many servers; `DO_STOP` and `None` are not tasks), `MicrothreadsAssumption`
(finitely many threads; threads, tasks, request numbers and the two special records are
different things), `ConstantsAssumption` of `AgegroupHeapcleaning` (at least one agegroup; chunks and registers are
different things), `ConstantsAssumption` of `AgegroupSpace` (sizes are natural numbers, books and limits not zero)
`InterprocessSignalsAssumption` (at least one signal, at least one thread, what cannot be blocked is fixed) and `MailopsAssumption` (finitely many mailslots, maildrops,
mailqueues and nacks, all different; each call of a program is well formed). Some theorems have a hypothesis besides, given
below. Each invariant has the form `Init => Inv` and `Inv /\ [Next]_vars => Inv'`, one lemma per action or group of
actions.

**`HeapcleanerRendezvousProofs`.** `TypeCorrect`, `CountIsRight`, `CleanerAlone`,
`RootsRight` (from `RootsDoNotDangle` and `BlockedArgProtected`), `AllocationsSurvive`, and `Refinement`
(`Spec => StopsTheWorld`). None is inductive alone: that the cleaner is alone needs that a
mode and a place in the code go together (`ModeMatchesPC`), that there is one primary and the
state is its state (`StateMatchesPrimary`), and that the count is right, for a zero count to mean
that nobody runs. That no allocation is lost needs `BuffersAreSwept`: which
hostthreads can have uncopied values when the partition comes. That roots do not dangle needs that
their owner cannot leave before this cleaning ends (`RootsAreHeld`). The count is a
cardinality; two lemmas say what one change of mode does to it.

**`TaskHostthreadsProofs`.** `TypeCorrect`, `CountsRight`, `UsefulWorkSeen` and `Refinement` (`Spec => ServesInOrder`). The counts are inductive together
with: a server has a request exactly when it is busy, sleepers are waiting, the manager has
orders left in its loops, and while `pid` is that of another process no server has been started in this one, so that the
reset by `get_count_of_live_hostthreads` drops lost servers only. `OrdersBalance` proves `OrdersLeadToDesired` with the invariant `Balance`: while a manager
starts servers no stop request is under way, while one stops them no server is being born, and in both directions
the servers that run, those under way and the orders left add up to the desired number. The stops under way are counted in both request
lists and in the servers that have taken one. The refinement rests on lemmas about reversing: prepending to the
external list appends to the pending sequence, and a dequeue with or without a refill
removes its head.

**`MicrothreadsProofs`.** `LifecycleInvariant`, and from it `AliveCounted`, `DeathAnnounced`,
`DefaultTaskImmortal`, `SchedulerUninterruptible` and `DiesOnce`. The invariant joins counts,
condvars and states because the operations do: a burial gives the thread the state of its
task, which is a final state only because a thread is never in a task that is not made
(`ThreadsHaveTasks`); `make_task` overwrites the count, which is right only because no thread is in
the task yet; a thread's exit ends the task when the count reaches zero, which cannot happen to the default
task because its count starts at 10^9. `EndThreadStep` is the common lemma of the five places that
end a thread.

A second invariant, `QInv`, is about what the queues hold. From it follow `TypeCorrect`, `ThreadsInOnePlace`
(`EveryThreadInOnePlace`), `RequestsInOrder` (`RequestsBeginInOrder`) and `EndsOnlyIdle` (`NoEarlyShutdown`), for any number
of threads, tasks and requests and every mix of calls.
Its parts:

- `PlacesOK`: the places of a thread, counted queue by queue (`Sum`), are one for an ALIVE thread, none for one that is not made,
  and at most one for a dead one. `Count` is additive over concatenation and changes by one with an element at either end,
  so that each action is a small sum: what leaves one place arrives at one other. Waking is the case that is not local: a
  do1mailoprun is listed at several condvars and completed everywhere when one is set. `OnceOK` says that it is listed at most once at each;
  without it one `set_condvar__iu` would queue a thread twice. `WokenOnce` and `Wakes` carry this through the deaths, which set
  one or two condvars, and the burials.
- `RequestsOK`: the thunks that have not begun are, in the order front, back, request queue read backwards, the numbers
  from `started` + 1 to `posted`; none is in the background queue, since a thread or thunk gets there by being preempted, hence
  after it began. A head that is begun is therefore `started` + 1.
- `EndOK`: from the check of the pools to the end the queues are empty and the pools idle, so that nobody is left who could post.
  The order of the two checks matters here.

**`AgegroupSpaceProofs`.** `SpaceInvariant`, and from it `TypeCorrect`, `CleaningsStayInTheirBuffers`,
`RoomForOneIsKept` and `RequestsAreGranted`, for any number of agegroups and hostthreads and all sizes. The
inductive invariant `IInv` joins `TypeOK`, `NoTospaceOverflow` and `RoomForOneAgegroup0` with two parts that are needed only
between the steps of a cleaning: `PhaseOK`, the ranges of `level` and `trimmed` in each phase, and `TrimKeepsRequest`, that
while `trim_heap` is at work agegroup 1 has room for the request and a full agegroup-0 buffer besides what is
used. The lemma `MinBytes` carries the argument: `min_bytes_for_sib` of an agegroup covers what lives in it, what the
next younger one may promote into it and, in agegroup 1, the request and a buffer of agegroup 0.

**`AgegroupHeapcleaningProofs`.** `HeapInvariant`, and from it `TypeCorrect`, `NothingDangles`, `OldToYoungIsKnown`,
`GraphIsPreserved` and `AllGarbageIsReclaimed`, for any number of agegroups, chunks, cards and registers. The difficulty is
that in the middle of a cleaning the two ends of a pointer are promoted at different times, so neither the
order of ages along pointers nor the marks on the cards hold then. The invariant `AInv` states them for where a chunk will
be when the cleaning ends (`settled`, `will_be_senior`), which forwarding it does not change. `HeapOK` is that order;
`PhaseOK` says what each phase knows of the agegroups; `SlotsOK` says which slots have been visited (`Visited`)
and that these refer to forwarded chunks, the others being stale; `CardsOK` says which pointer the changelog or a card has to
know, before and after the scan of the cards; `FullOK` says that a cleaning of everything forwards only what was reachable.
Reachability is defined without recursion, as membership in every set that is closed under pointers (`Reachable`).

All six have the hypothesis `CardsSuffice`: refcells do not refer straight to code or, if they do, there are at most two agegroups more than
the one that code is allocated in. It is needed: with the code's own constants and refcells that hold
code the property is false, which is finding 3. It is met by the constants of the run `agegroups`, and for
any number of agegroups when `RwHoldsCode` is FALSE.

**`InterprocessSignalsProofs`.** `SignalsInvariant`, and from it `TypeCorrect`, `SignalsNoticed`, `NoSignalLost`,
`HandlersAreAlone` and `RotorIsFair`, for any number of signals. The invariant is the conjunction of these properties and of
`ControlOK` (where the hostthread is fixes whether it counts as executing Mythryl code and whether a request is outstanding),
`PendingOK` (a signal that is pending makes the next probe fail), `ChoiceOK` (what `choose_signal` will report has been seen), `RotorOK`
(a signal that was passed over n times is n places nearer to the rotor, so it is not passed over N times) and
`FramesOK` (an operation on the table has something left to do at each of its steps). That the counters of all signals
agree with their sum, which decides whether a signal is pending, needs the lemmas about `Total`: how it
changes with one entry, and that it is monotonic, strictly so, so that equal sums mean equal counters.

`KernelAgrees` proves `KernelAgreesWithTable`, for any number of threads, whatever handlers do and whatever signals are fixed. Its
invariant `KernelInv` says that, unless `disturbed`, one thread at most is inside an operation (`FrameOK`), how table and kernel differ at each of
its steps (`TableOK`), and that what the kernel may deliver, or has delivered and nobody has handled, has a handler
and is not masked in the table (`DeliveryOK`). Preemption needs no case of its own: the argument is about the thread that operates, whether it
has the processor, is interrupted or is being resumed. The lemmas go operation by operation: what a step leaves alone (`OperationFrame`,
`OperationAlone`), what it does to the table (`OperationTable`) and to what may be delivered (`OperationDelivery`).

**`MailopsProofs`.** `MailInvariant`, and from it `NobodyWaits` (`NobodyWaitsInVain`), `PartnerStillBlocked`
(`PartnerIsStillBlocked`), `CountersFair` (`NoReadyMailopIsPassedOver`) and `Refinement` (`Spec => ExchangesMail`), for any
number of threads and objects, any calls, and queues of any length. `MailInvariant` and `NobodyWaits` hold of every program.
In the middle of a scope what they say of the queues is not true as it stands, since what is left to do is on `agenda`; each part of `MailInv` says what is
missing and where it is:

- `CallsOK`: a thread has a call exactly while it is not ready. `QueuesOK`: only mailslots keep entries of completed calls, every other entry
  is that of a blocked thread and stands where its alternative waits.
- `ListedOK`: an alternative of a blocked thread is listed, unless it waits for a nack that has been sent, when it is on
  `agenda` to be woken. `NothingThere`: what it waits for is not there, unless it is a value that is being relayed.
- `AgendaOK`: nacks and wakings come before a relay or a mailslot that is still to fire, so there is at most one of
  these and it is the last step; each item finds what it needs.
- `NacksOK`: a nack belongs to one call, is sent at most once, and only after the call is over. This is why no condvar is set twice.

The lemmas `Answer...` are common to the five places that answer a call: it leaves all queues at once (`CompletedFacts`), others keep their
entries, and its nacks go on the agenda. Each action has a lemma for the invariant (`WakeKeeps`, `FiresKeeps`, ...), and each a second one that
says what it does to the decided rendezvous and the nacks (`WakeStep`, ...), on which the other theorems rest.

`PartnerStillBlocked` and `Refinement` have the hypothesis `PartnersAwaitNoNack`. It is needed: without it the property is
false, which is finding 2. The invariant added is `PromiseOK`: the partner of a decided rendezvous is first in its queue and,
while nacks are still to be sent, waits for none; so completing others does not move it (`WokenKeepsPartner`). The refinement
maps each action to one of the exchange: preparing to `Offer`, blocking to `Wait`, giving up to `GiveUp`, firing to `Meet`,
`UseBox`, `TakeMail` or `SeeNack`, waking to `SeeNack`, a turn of `relay_msg` to `UseBox`, the puts to `PutInBox`, `PutInMail` and `PassMail`;
setting a condvar and `fire_mailslot` are stutters. `Wait` and `GiveUp` are where `MailInv` is needed: that nothing
was found ready must mean that nothing can happen (`CanHappenIsReady`), so every partner that waits has to be in the queue that is looked at.

`CountersFair` has the hypothesis `MaildropsApart`. It is needed because the counter of a maildrop is never reset when a mailop
fires (`MD`:402, section 4), so one that stands beside others starves them. A mailop that offers one thing twice would add two to its counter at once. The invariant `CountersOK` is stronger than
the bound: for each k, at most n - k of the n counters are above k. A mailop that fires adds one to the counters of those found
ready and sets the highest of them to 1, which keeps it; the bound alone is not kept, as two counters at n could both be found ready.

**`InductionLemmas`.** The library's induction theorems take an operator as a parameter, which the provers cannot instantiate.
`SetInduction` and `InductionUpTo` say the same of a set, and follow from the well-foundedness of the numbers. With them
the values of recursive functions (`Total`, `Among`) are proved, one opaque step at a time. `Among`, which picks the elements of a
queue that are in a set, is a recursive function and not `SelectSeq` of the standard modules: that one is defined by a recursion
the provers cannot expand. `AmongIsKept` shows that it can be computed element by element, and the lemmas after it what it
keeps, that it distributes over concatenation, and what it counts.

**Model-checked only.** Liveness under fairness, which this prover does not reach: `CleaningStarts`, `WorldResumes`, `RequestIsTaken`,
`ChangeCompletes`, `ForegroundIsServed`, `RequestsAreServed`, `SeenSignalIsHandled`. Every safety property, action property
and refinement of a passing run is a theorem, under the hypotheses named above. The findings are counterexamples; the properties they refute are false of the code and are not theorems.

## 6. Not modelled

- Hostthread barriers, `pth__pthread_join`, the id vectors of mutexes and condvars (`HP`): the hazards are listed;
  a join needs table slots with generations.
- Timeouts, I/O mailops and the io-wait hostthread: a timeout that races mail is a second source of
  wakeups for `Mailops`, and needs a clock.
- Start-up, shutdown and export of the scheduler, run-at phases, logger, deathwatch: sequences of calls with
  little state.
- The overflow of the extra-roots buffer: it would need a count of roots per hostthread.
- The pickler and the format of heap images; `heapcleaner-initialization.c`; the allocation of memory from the
  operating system: data layout and calls of the kernel.
- The signal code of other processors and of win32; the clearing of the signal table around a heap image.
- The compiler, makelib, the standard library, x-kit, lex, yacc and the applications are sequential programs over trees and
  files. Most lines of C in the repository are in none of these: they are bindings to gtk, opengl, ncurses and posix calls
  that convert arguments and results one by one, generated code, the vendored `dtoa.c`, and the C programs that c-kit is
  tested with. None keeps state of its own that a model could say something about.

## 7. Plan

Done, in this order: (1) the rendezvous, since everything else runs above it; (2) the task hostthreads;
(3) microthreads, tasks and the scheduler; (4) signals, which preempt them; (5) the generational heapcleaner and
(6) the sizes of its buffers; (7) mailops, mailslots, maildrops and mailqueues with their abstract exchange.

Next:

8. `Timeouts` and the io-wait hostthread: the sleep queue, timeouts that race mail, the private pipe, composed with
   `Mailops`.
9. `Hostthreads`: `pth__pthread_join` and slot reuse, barriers (`HP`:505 waits without a loop), id vectors.
10. Start-up, shutdown and export of the scheduler, composed with `TaskHostthreads`.

Theorems to add: that a barrier lets all or none pass.
