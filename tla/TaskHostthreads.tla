--------------------------- MODULE TaskHostthreads ---------------------------
(***************************************************************************)
(* The pools of server hostthreads to which the thread scheduler offloads  *)
(* system calls and long computations.                                     *)
(*                                                                         *)
(*   src/lib/std/src/hostthread/io-bound-task-hostthreads.pkg              *)
(*   src/lib/std/src/hostthread/cpu-bound-task-hostthreads.pkg             *)
(*                                                                         *)
(* The two packages are the same program.  `mutex' is held from the start  *)
(* to the end of a critical section and given up inside wait_on_condvar    *)
(* only, so a critical section is one step; a broadcast that the code      *)
(* makes after release_mutex is a step of its own.                         *)
(*                                                                         *)
(* DO_ECHO and DO_TASK differ in the closure the server calls, so a member *)
(* of Tasks stands for either.  startstop_mutex lets one caller at a time  *)
(* into change_number_of_server_hostthreads_to: "manager" is that caller.  *)
(***************************************************************************)
EXTENDS Integers, Sequences, FiniteSets, QueueOperators

CONSTANTS
    Tasks,          \* client requests; each is outstanding at most once
    Servers,        \* names for the hostthreads of the pool
    DO_STOP,        \* the request that ends a server
    None,           \* no request
    MAX_PIDS        \* bound: how many processes the heap image lives in

ASSUME TaskHostthreadsAssumption ==
    /\ IsFiniteSet(Servers)
    /\ DO_STOP \notin Tasks
    /\ None \notin Tasks \cup {DO_STOP}
    /\ MAX_PIDS \in Nat \ {0}

Requests == Tasks \cup {DO_STOP}

VARIABLES
    external_request_queue,   \* newest request first
    internal_request_queue,   \* oldest request first
    running_servers_count,
    running_thunks_count,
    pid,                      \* the process that last set the counts
    actual_pid,               \* get_process_id ()
    waiters,                  \* servers asleep on condvar
    pc,                       \* where each server is
    doing,                    \* the request each server is running
    client,                   \* where the client of each task is
    manager,                  \* where change_number_of_... is: pc, its
                              \* argument, orders still to give, asleep?
    lost_servers,             \* history: how many servers, and servers not
    lost_thunks               \* asleep, the counts hold that were left
                              \* behind when the heap image was saved

lost == <<lost_servers, lost_thunks>>

vars == <<external_request_queue, internal_request_queue,
          running_servers_count, running_thunks_count, pid, actual_pid,
          waiters, pc, doing, client, manager, lost>>

PCs == {"none", "spawned", "broadcast", "loop", "wait", "busy"}

Counts == 0 .. Cardinality(Servers)

Managers == [pc : {"idle", "start", "stop", "stop_broadcast", "wait"},
             desired : Counts, left : Nat, asleep : BOOLEAN]

TypeOK ==
    /\ external_request_queue \in Seq(Requests)
    /\ internal_request_queue \in Seq(Requests)
    /\ running_servers_count \in Nat
    /\ running_thunks_count \in Nat
    /\ pid \in 0 .. MAX_PIDS
    /\ actual_pid \in 1 .. MAX_PIDS
    /\ waiters \in SUBSET Servers
    /\ pc \in [Servers -> PCs]
    /\ doing \in [Servers -> Requests \cup {None}]
    /\ client \in [Tasks -> {"idle", "broadcast"}]
    /\ manager \in Managers
    /\ lost_servers \in Nat
    /\ lost_thunks \in Nat

Init ==
    /\ external_request_queue = <<>>
    /\ internal_request_queue = <<>>
    /\ running_servers_count = 0
    /\ running_thunks_count = 0
    /\ pid = 0
    /\ actual_pid = 1
    /\ waiters = {}
    /\ pc = [s \in Servers |-> "none"]
    /\ doing = [s \in Servers |-> None]
    /\ client = [t \in Tasks |-> "idle"]
    /\ manager = [pc |-> "idle", desired |-> 0, left |-> 0, asleep |-> FALSE]
    /\ lost_servers = 0
    /\ lost_thunks = 0

\* Servers that have counted themselves in, and those among them that are
\* not asleep in get_next_request.
Live == {s \in Servers : pc[s] \in {"broadcast", "loop", "wait", "busy"}}
Awake == {s \in Servers : pc[s] \in {"broadcast", "loop", "busy"}}

-----------------------------------------------------------------------------
(* Helpers *)

Goto(s, l) == pc' = [pc EXCEPT ![s] = l]

\* `external_request_queue := request ! *external_request_queue'
prepend(r) == external_request_queue' = <<r>> \o external_request_queue

\* The requests nobody has taken yet, oldest first.
pending == internal_request_queue \o Backward(external_request_queue)

request_queues_are_empty ==
    /\ external_request_queue = <<>>
    /\ internal_request_queue = <<>>

\* broadcast_condvar wakes the servers and the caller of change_number_of_...
\* The manager's other fields are set in the same step to those of m.
M_broadcast(m) ==                                  \* signal, not broadcast
    \/ /\ m.asleep
       /\ manager' = [m EXCEPT !.asleep = FALSE]
       /\ UNCHANGED waiters
    \/ /\ \E s \in waiters : waiters' = waiters \ {s}
       /\ manager' = m
    \/ /\ ~m.asleep /\ waiters = {}
       /\ manager' = m
       /\ UNCHANGED waiters
broadcast(m) ==
    /\ waiters' = {}
    /\ manager' = [m EXCEPT !.asleep = FALSE]

-----------------------------------------------------------------------------
(* Clients *)

Outstanding(t) == \/ client[t] = "broadcast"
                  \/ \E i \in DOMAIN pending : pending[i] = t
                  \/ \E s \in Servers : doing[s] = t

\* do, echo: queue the request ...
do(t) ==
    /\ ~Outstanding(t)
    /\ prepend(t)
    /\ client' = [client EXCEPT ![t] = "broadcast"]
    /\ UNCHANGED <<internal_request_queue, running_servers_count,
                   running_thunks_count, pid, actual_pid, waiters, pc, doing,
                   manager, lost>>

\* ... and, after release_mutex, wake whoever sleeps on the condvar.
do_broadcasts(t) ==
    /\ client[t] = "broadcast"
    /\ broadcast(manager)
    /\ client' = [client EXCEPT ![t] = "idle"]
    /\ UNCHANGED <<external_request_queue, internal_request_queue,
                   running_servers_count, running_thunks_count, pid,
                   actual_pid, pc, doing, lost>>

\* What no_runnable_threads_left__fate asks before it gives up.
M_is_doing_useful_work == ~request_queues_are_empty
is_doing_useful_work ==
    \/ running_thunks_count > 0
    \/ external_request_queue # <<>>
    \/ internal_request_queue # <<>>

-----------------------------------------------------------------------------
(* Servers *)

server_code(s) ==
    /\ pc[s] = "spawned"
    /\ running_servers_count' = running_servers_count + 1
    /\ running_thunks_count' = running_thunks_count + 1
    /\ Goto(s, "broadcast")
    /\ UNCHANGED <<external_request_queue, internal_request_queue, pid,
                   actual_pid, waiters, doing, client, manager, lost>>

server_code_broadcasts(s) ==
    /\ pc[s] = "broadcast"
    /\ broadcast(manager)
    /\ Goto(s, "loop")
    /\ UNCHANGED <<external_request_queue, internal_request_queue,
                   running_servers_count, running_thunks_count, pid,
                   actual_pid, doing, client, lost>>

\* The two queues once their oldest request is gone: the internal queue is
\* refilled from the external one only when it is empty.
M_dequeue ==                                       \* not reversed
    /\ internal_request_queue' = Tail(internal_request_queue \o external_request_queue)
    /\ external_request_queue' = <<>>
dequeue ==
    \/ /\ internal_request_queue # <<>>
       /\ internal_request_queue' = Tail(internal_request_queue)
       /\ UNCHANGED external_request_queue
    \/ /\ internal_request_queue = <<>>
       /\ internal_request_queue' = Tail(Backward(external_request_queue))
       /\ external_request_queue' = <<>>

\* running_thunks_count from `acquire_mutex' to the sleep, where "loop" has
\* entered get_next_request and "wait" is back from wait_on_condvar.
thunks_asleep(s) == IF pc[s] = "loop" THEN running_thunks_count - 1
                                      ELSE running_thunks_count

get_next_request(s) ==
    /\ pc[s] = "loop" \/ (pc[s] = "wait" /\ s \notin waiters)
    /\ \/ /\ request_queues_are_empty
          /\ running_thunks_count' = thunks_asleep(s)
          /\ waiters' = waiters \cup {s}
          /\ Goto(s, "wait")
          /\ UNCHANGED <<external_request_queue, internal_request_queue, doing>>
       \/ /\ ~request_queues_are_empty
          /\ running_thunks_count' = thunks_asleep(s) + 1
          /\ doing' = [doing EXCEPT ![s] = Head(pending)]
          /\ dequeue
          /\ Goto(s, "busy")
          /\ UNCHANGED waiters
    /\ UNCHANGED <<running_servers_count, pid, actual_pid, client, manager,
                   lost>>

\* do_echo, do_task: the closure runs and returns (or raises, and do_task
\* drops the exception).
do_task(s) ==
    /\ pc[s] = "busy"
    /\ doing[s] \in Tasks
    /\ doing' = [doing EXCEPT ![s] = None]
    /\ Goto(s, "loop")
    /\ UNCHANGED <<external_request_queue, internal_request_queue,
                   running_servers_count, running_thunks_count, pid,
                   actual_pid, waiters, client, manager, lost>>

\* do_stop: count this server out, tell change_number_of_..., exit.
M_thunks_after_stop == running_thunks_count
thunks_after_stop == running_thunks_count - 1

do_stop(s) ==
    /\ pc[s] = "busy"
    /\ doing[s] = DO_STOP
    /\ running_servers_count' = running_servers_count - 1
    /\ running_thunks_count' = thunks_after_stop
    /\ broadcast(manager)
    /\ doing' = [doing EXCEPT ![s] = None]
    /\ Goto(s, "none")
    /\ UNCHANGED <<external_request_queue, internal_request_queue, pid,
                   actual_pid, client, lost>>

-----------------------------------------------------------------------------
(* change_number_of_server_hostthreads_to *)

\* get_count_of_live_hostthreads, called with `pid' = p: the count is reset
\* when the heap image has moved to another process.
count_of_live_hostthreads(p) == IF p # actual_pid THEN 0 ELSE running_servers_count

\* The same function, called from outside through the API, sets `pid' and
\* the count itself, but not running_thunks_count.
get_count_of_live_hostthreads ==
    /\ pid # actual_pid
    /\ pid' = actual_pid
    /\ running_servers_count' = count_of_live_hostthreads(pid)
    /\ lost_servers' = 0
    /\ UNCHANGED <<external_request_queue, internal_request_queue,
                   running_thunks_count, actual_pid, waiters, pc, doing,
                   client, manager, lost_thunks>>

\* Entry.  The code sets `pid' and only then compares it.  Without an order
\* to give the caller leaves at once.
change_number_of_server_hostthreads_to(desired) ==
    /\ manager.pc = "idle"
    /\ pid' = actual_pid
    /\ LET current == count_of_live_hostthreads(pid') IN
          /\ running_servers_count' = current
          /\ \/ /\ current = desired
                /\ UNCHANGED manager
             \/ /\ current < desired
                /\ manager' = [pc |-> "start", desired |-> desired,
                               left |-> desired - current, asleep |-> FALSE]
             \/ /\ current > desired
                /\ manager' = [pc |-> "stop", desired |-> desired,
                               left |-> current - desired, asleep |-> FALSE]
    /\ UNCHANGED <<external_request_queue, internal_request_queue,
                   running_thunks_count, actual_pid, waiters, pc, doing,
                   client, lost>>

\* One round of a loop that gives orders: the manager's state after it.
M_one_ordered(loop) ==
    [manager EXCEPT !.left = @ - 1, !.pc = IF manager.left = 0 THEN "wait" ELSE loop]
one_ordered(loop) ==
    [manager EXCEPT !.left = @ - 1, !.pc = IF manager.left = 1 THEN "wait" ELSE loop]

start_one_server_hostthread(s) ==
    /\ manager.pc = "start"
    /\ pc[s] = "none"
    /\ Goto(s, "spawned")
    /\ manager' = one_ordered("start")
    /\ UNCHANGED <<external_request_queue, internal_request_queue,
                   running_servers_count, running_thunks_count, pid,
                   actual_pid, waiters, doing, client, lost>>

stop_one_server_hostthread ==
    /\ manager.pc = "stop"
    /\ prepend(DO_STOP)
    /\ manager' = [manager EXCEPT !.pc = "stop_broadcast"]
    /\ UNCHANGED <<internal_request_queue, running_servers_count,
                   running_thunks_count, pid, actual_pid, waiters, pc, doing,
                   client, lost>>

stop_one_broadcasts ==
    /\ manager.pc = "stop_broadcast"
    /\ broadcast(one_ordered("stop"))
    /\ UNCHANGED <<external_request_queue, internal_request_queue,
                   running_servers_count, running_thunks_count, pid,
                   actual_pid, pc, doing, client, lost>>

\* Sleep on condvar until the count is the desired one.
await_desired_count ==
    /\ manager.pc = "wait"
    /\ ~manager.asleep
    /\ manager' = IF running_servers_count # manager.desired
                  THEN [manager EXCEPT !.asleep = TRUE]
                  ELSE [manager EXCEPT !.pc = "idle"]
    /\ UNCHANGED <<external_request_queue, internal_request_queue,
                   running_servers_count, running_thunks_count, pid,
                   actual_pid, waiters, pc, doing, client, lost>>

-----------------------------------------------------------------------------
(* The environment *)

\* wait_on_condvar may return without a broadcast.
spurious_wakeup ==
    /\ \/ \E s \in waiters : waiters' = waiters \ {s} /\ UNCHANGED manager
       \/ /\ manager.asleep
          /\ manager' = [manager EXCEPT !.asleep = FALSE]
          /\ UNCHANGED waiters
    /\ UNCHANGED <<external_request_queue, internal_request_queue,
                   running_servers_count, running_thunks_count, pid,
                   actual_pid, pc, doing, client, lost>>

\* The heap image is saved and starts up again in another process: the
\* variables of the package survive, the hostthreads do not.  The bound
\* MAX_PIDS leaves out a process id that recurs.
resume_from_disk ==
    /\ actual_pid < MAX_PIDS
    /\ manager.pc = "idle"
    /\ \A t \in Tasks : client[t] = "idle"
    /\ actual_pid' = actual_pid + 1
    /\ waiters' = {}
    /\ pc' = [s \in Servers |-> "none"]
    /\ doing' = [s \in Servers |-> None]
    /\ lost_servers' = lost_servers + Cardinality(Live)
    /\ lost_thunks' = lost_thunks + Cardinality(Awake)
    /\ UNCHANGED <<external_request_queue, internal_request_queue,
                   running_servers_count, running_thunks_count, pid, client,
                   manager>>

\* fork_to_disk stops the support hostthreads first.
fork_to_disk == /\ \A s \in Servers : pc[s] = "none"
                /\ resume_from_disk

\* spawn_to_disk does not, the call that would is commented out: the
\* servers are wherever the cleaning that writes the image stopped them.
spawn_to_disk == resume_from_disk

ServerStep(s) ==
    \/ server_code(s)
    \/ server_code_broadcasts(s)
    \/ get_next_request(s)
    \/ do_task(s)
    \/ do_stop(s)

ManagerStep ==
    \/ \E s \in Servers : start_one_server_hostthread(s)
    \/ stop_one_server_hostthread
    \/ stop_one_broadcasts
    \/ await_desired_count

Next ==
    \/ \E t \in Tasks : do(t) \/ do_broadcasts(t)
    \/ \E s \in Servers : ServerStep(s)
    \/ \E n \in Counts : change_number_of_server_hostthreads_to(n)
    \/ ManagerStep
    \/ get_count_of_live_hostthreads
    \/ spurious_wakeup
    \/ fork_to_disk
    \/ spawn_to_disk

Spec == Init /\ [][Next]_vars

\* Every posix thread that can take a step takes one, and a request that
\* runs returns.
Fairness ==
    /\ \A t \in Tasks : WF_vars(do_broadcasts(t))
    /\ \A s \in Servers : WF_vars(ServerStep(s))
    /\ WF_vars(ManagerStep)

FairSpec == Spec /\ Fairness

-----------------------------------------------------------------------------
(* Properties *)

\* What get_count_of_live_hostthreads says of itself: the count that came
\* with a heap image is bogus, "We detect this by checking if the pid has
\* changed".  Once `pid' names the process, running_servers_count counts
\* hostthreads that exist.  The code does not keep this promise:
\* change_number_of_server_hostthreads_to sets `pid' before the comparison.
ServersCountIsRight ==
    pid = actual_pid => running_servers_count = Cardinality(Live)

\* However the births, sleeps, refills and stops of the servers interleave
\* and whenever an image is saved, running_servers_count ("count of servers
\* running") and running_thunks_count ("count of servers actually processing
\* a request") are off by exactly the servers that images left behind.
CountsAreRight ==
    /\ running_servers_count = Cardinality(Live) + lost_servers
    /\ running_thunks_count = Cardinality(Awake) + lost_thunks

\* When is_doing_useful_work answers no, no request is queued or being run:
\* the thread scheduler may call the system deadlocked.
UsefulWorkIsSeen ==
    ~is_doing_useful_work =>
        /\ pending = <<>>
        /\ \A s \in Servers : doing[s] = None

\* Births and deaths ordered so far, and still to be ordered, lead exactly
\* to the desired number of servers: the wait for `count = desired' is not
\* for a value that was or will be jumped over, and no stop request is left
\* over for a later call.
Stops == Cardinality({i \in DOMAIN pending : pending[i] = DO_STOP})
       + Cardinality({s \in Servers : doing[s] = DO_STOP})

OrdersLeadToDesired ==
    LET spawned == Cardinality({s \in Servers : pc[s] = "spawned"})
    IN  \/ manager.pc = "idle" /\ spawned = 0 /\ Stops = 0
        \/ /\ manager.pc = "start" \/ (manager.pc = "wait" /\ Stops = 0)
           /\ running_servers_count + spawned + manager.left = manager.desired
        \/ /\ manager.pc = "stop" \/ (manager.pc = "wait" /\ spawned = 0)
           /\ running_servers_count - Stops - manager.left = manager.desired
        \/ /\ manager.pc = "stop_broadcast"
           /\ running_servers_count - Stops - (manager.left - 1) = manager.desired

\* A request does not wait for ever while there are servers: no wakeup is
\* lost between the queue test and the sleep.
RequestIsTaken ==
    \A t \in Tasks :
        (\E i \in DOMAIN pending : pending[i] = t)
            ~> \/ \A i \in DOMAIN pending : pending[i] # t
               \/ \A s \in Servers : pc[s] = "none"

\* change_number_of_server_hostthreads_to returns, unless it counts servers
\* that an image left behind, which will not obey its stop requests.
ChangeCompletes ==
    manager.pc # "idle" ~> manager.pc = "idle" \/ lost_servers > 0

\* The strengthening of the two counts that every step preserves.
IInv == /\ TypeOK
        /\ CountsAreRight
        /\ \A s \in Servers : doing[s] # None <=> pc[s] = "busy"
        /\ \A s \in waiters : pc[s] = "wait"
        /\ manager.pc \in {"start", "stop", "stop_broadcast"} => manager.left > 0
        /\ pid # actual_pid => /\ manager.pc = "idle"
                               /\ \A s \in Servers : pc[s] = "none"

-----------------------------------------------------------------------------
\* The pool implements the queue it promises: requests are taken in the
\* order of submission and each is run once.
RQ == INSTANCE RequestQueue WITH serving <- doing

ServesInOrder == RQ!Spec
=============================================================================
