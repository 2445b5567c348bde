---------------------------- MODULE Microthreads ----------------------------
(***************************************************************************)
(* Microthreads, the tasks they belong to, and the preemptive scheduler    *)
(* that runs them all in one hostthread.                                   *)
(*                                                                         *)
(*   thread-kit/src/core-thread-kit/microthread-preemptive-scheduler.pkg   *)
(*   thread-kit/src/core-thread-kit/microthread.pkg                        *)
(*   thread-kit/src/core-thread-kit/mailop.pkg       (wait_on_condvar')    *)
(*   thread-kit/src/glue/threadkit-base-for-os-g.pkg                       *)
(*                                                                         *)
(* One hostthread runs everything, so only two things interrupt a piece    *)
(* of code: SIGALRM, and requests that other hostthreads append to         *)
(* request_queue.  An operation sets uninterruptible_scope_mutex           *)
(* (enter_scope), does its work in one step and either clears the mutex or *)
(* calls dispatch_next_thread__usend__noreturn; each turn of the dequeue   *)
(* loops is a step.  A microthread's program is any sequence of calls, its *)
(* exception handler's too.                                                *)
(*                                                                         *)
(* The code's lists are kept oldest first, except request_queue, which is  *)
(* reversed when it is read.  The background queue is only ever read after *)
(* it has been normalised, so its two halves are one sequence here; those  *)
(* of the foreground queue are not interchangeable.                        *)
(***************************************************************************)
EXTENDS Integers, Sequences, FiniteSets, QueueOperators

CONSTANTS
    Threads, Tasks,
    DefaultThread, DefaultTask,     \* itt::default_thread, itt::default_task
    Idle,         \* no_runnable_threads_left_thread, with its fate
    Soon,         \* run_thunk_soon_thread, which all request thunks share
    MaxRequests,  \* bound: replies of other hostthreads
    MaxTeam,      \* bound: threads in one make_task call
    Calls,        \* bound: what the microthreads do besides making
                  \* threads, yielding and ending
    Awaited       \* bound: the threads and tasks that they wait for

ASSUME MicrothreadsAssumption ==
    /\ IsFiniteSet(Threads) /\ DefaultThread \in Threads
    /\ DefaultTask \in Tasks
    /\ Threads \cap Tasks = {}
    /\ Threads \cap Nat = {}
    /\ {Idle, Soon} \cap (Threads \cup Tasks \cup Nat) = {}
    /\ Idle # Soon
    /\ MaxRequests \in Nat /\ MaxTeam \in Nat
    /\ Calls \subseteq {"kill", "raise", "wait", "mail"}
    /\ Awaited \subseteq Threads \cup Tasks

Condvars == Threads \cup Tasks     \* done_condvar and task_condvar
Thunks   == 1 .. MaxRequests       \* request thunks, in the order of arrival
Fates    == Threads \cup Thunks \cup {Idle}

VARIABLES
    state,                 \* thread state; "UNBORN" before it is made
    task,                  \* the task of each thread
    task_state,
    alive_threads_count,
    is_set,                \* the condvars that are CONDVAR_IS_SET
    waiting,               \* the do1mailopruns waiting for each condvar
    mail_wait,             \* threads waiting for mail, a timeout or I/O
    current_thread,
    front, back,           \* foreground_run_queue
    background,            \* background_run_queue
    didmail,               \* the Microthread records with didmail set
    uninterruptible_scope_mutex,
    need_to_switch,        \* need_to_switch_threads_when_exiting_...
    pc,                    \* where the hostthread is
    request_queue,         \* newest first
    posted, started,       \* requests posted; thunks begun
    working, replied       \* tasks of the pools: running, and past their reply

life  == <<state, task, task_state, alive_threads_count>>
conds == <<is_set, waiting>>
fg    == <<front, back>>
pools == <<working, replied>>
reqs  == <<request_queue, posted>>
vars  == <<life, conds, mail_wait, current_thread, fg, background, didmail,
           uninterruptible_scope_mutex, need_to_switch, pc, reqs, started,
           pools>>

Final == {"SUCCESS", "FAILURE", "UNCAUGHT_EXCEPTION"}
States == Final \cup {"UNBORN", "ALIVE"}

PCs == {"run", "scope", "dispatch", "scheduler", "dequeue", "dequeue_cpu",
        "no_runnable", "checked", "blocked", "shutdown"}

Runs == [thread : Threads, blocked : BOOLEAN]   \* Do1mailoprun_Status

LifeTypeOK ==
    /\ state \in [Threads -> States]
    /\ task \in [Threads -> Tasks]
    /\ task_state \in [Tasks -> States]
    /\ alive_threads_count \in [Tasks -> Nat]
    /\ is_set \in SUBSET Condvars
    /\ waiting \in [Condvars -> Seq(Runs)]

TypeOK ==
    /\ LifeTypeOK
    /\ mail_wait \in SUBSET Threads
    /\ current_thread \in Fates
    /\ front \in Seq(Fates) /\ back \in Seq(Fates)
    /\ background \in Seq(Fates)
    /\ didmail \in SUBSET (Threads \cup {Idle, Soon})
    /\ uninterruptible_scope_mutex \in {0, 1}
    /\ need_to_switch \in BOOLEAN
    /\ pc \in PCs
    /\ request_queue \in Seq(Thunks)
    /\ posted \in 0 .. MaxRequests /\ started \in 0 .. MaxRequests
    /\ working \in Nat /\ replied \in Nat

\* alive_threads_count of the default task, before it has any thread
default_alive_threads_count == 1000000000

\* first_thread_thunk runs, and the fate that start_up_thread_scheduler''
\* queued behind it has had its turn: it only dispatches the next thread.
\* The first thread may have yielded to it or been preempted.
Init ==
    /\ state = [t \in Threads |->
                  IF t = DefaultThread THEN "ALIVE" ELSE "UNBORN"]
    /\ task = [t \in Threads |-> DefaultTask]
    /\ task_state = [k \in Tasks |->
                       IF k = DefaultTask THEN "ALIVE" ELSE "UNBORN"]
    /\ alive_threads_count =
         [k \in Tasks |-> IF k = DefaultTask
                            THEN default_alive_threads_count + 1 ELSE 0]
    /\ is_set = {} /\ waiting = [c \in Condvars |-> <<>>]
    /\ mail_wait = {}
    /\ current_thread = DefaultThread
    /\ front = <<>> /\ back = <<>> /\ background = <<>>
    /\ didmail \in SUBSET {DefaultThread}
    /\ uninterruptible_scope_mutex = 0
    /\ need_to_switch = FALSE
    /\ pc = "run"
    /\ request_queue = <<>> /\ posted = 0 /\ started = 0
    /\ working = 0 /\ replied = 0

-----------------------------------------------------------------------------
(* Queues, condvars and scopes *)

self == current_thread

\* The Microthread record that a queued fate goes with.
Record(e) == IF e \in Thunks THEN Soon ELSE e

IsIn(e, q) == \E i \in DOMAIN q : q[i] = e

\* get_any_new_inter_hostthread_requests__iu
M_new_requests == request_queue                     \* not reversed
new_requests == Backward(request_queue)

\* The back half once if_pending_requests_then_add_..._to_run_queue is done;
\* every action that uses it also empties request_queue.
back_with_requests == back \o new_requests

TakesRequests == request_queue' = <<>> /\ UNCHANGED posted

\* `log::uninterruptible_scope_mutex := 0', and the caller carries on.
Return ==
    /\ uninterruptible_scope_mutex' = 0
    /\ pc' = "run"
    /\ UNCHANGED <<current_thread, need_to_switch>>

\* dispatch_next_thread__usend__noreturn is called, or its hook.
Leave(l) ==
    /\ pc' = l
    /\ UNCHANGED <<current_thread, uninterruptible_scope_mutex>>

\* enqueue_old_thread_plus_old_fate_then_install_new_thread, and the new
\* thread's code begins with `uninterruptible_scope_mutex := 0'.
install_new_thread(t) ==
    /\ TakesRequests
    /\ didmail' = didmail \cup {Record(self)}
    /\ back' = Append(back_with_requests, self)
    /\ current_thread' = t
    /\ uninterruptible_scope_mutex' = 0
    /\ pc' = "run"
    /\ UNCHANGED <<front, need_to_switch>>

\* The threads whose do1mailoprun is blocked on c, given the lists w.
woken(w, c) ==
    LET blocked == Among(w[c], {r \in Runs : r.blocked})
    IN  [i \in 1 .. Len(blocked) |-> blocked[i].thread]

\* Their do1mailoprun_status is now DO1MAILOPRUN_IS_COMPLETE, wherever the
\* run is listed; c has no list any more.
M_completed(w, c) == [w EXCEPT ![c] = <<>>]         \* status left alone
completed(w, c) ==
    [d \in Condvars |->
        IF d = c THEN <<>>
        ELSE [i \in DOMAIN w[d] |->
                [w[d][i] EXCEPT !.blocked = @ /\ ~IsIn(w[d][i], w[c])]]]

\* set_condvar__iu of t's done_condvar and then, if k_too, of k's
\* task_condvar.
announce(t, k, k_too) ==
    LET w == completed(waiting, t)
    IN  IF k_too
          THEN /\ is_set' = is_set \cup {t, k}
               /\ waiting' = completed(w, k)
               /\ back' = back \o woken(waiting, t) \o woken(w, k)
          ELSE /\ is_set' = is_set \cup {t}
               /\ waiting' = w
               /\ back' = back \o woken(waiting, t)

set_condvar__iu(c) ==
    /\ is_set' = is_set \cup {c}
    /\ waiting' = completed(waiting, c)
    /\ back' = back \o woken(waiting, c)

\* An ALIVE thread ends; ends_task says that its task takes the same state.
M_end_thread(t, final, ends_task) ==                \* not counted out
    /\ state' = [state EXCEPT ![t] = final]
    /\ task_state' = IF ends_task THEN [task_state EXCEPT ![task[t]] = final]
                                  ELSE task_state
    /\ announce(t, task[t], ends_task /\ task[t] \notin is_set)
    /\ UNCHANGED <<task, alive_threads_count>>
end_thread(t, final, ends_task) ==
    /\ state' = [state EXCEPT ![t] = final]
    /\ alive_threads_count' = [alive_threads_count EXCEPT ![task[t]] = @ - 1]
    /\ task_state' = IF ends_task THEN [task_state EXCEPT ![task[t]] = final]
                                  ELSE task_state
    /\ announce(t, task[t], ends_task /\ task[t] \notin is_set)
    /\ UNCHANGED task

-----------------------------------------------------------------------------
(* Calls of the running microthread *)

enter_scope ==
    /\ pc = "run"
    /\ self \in Threads \/ (self \in Thunks /\ mail_wait # {})
    /\ uninterruptible_scope_mutex' = 1
    /\ pc' = "scope"
    /\ UNCHANGED <<life, conds, mail_wait, current_thread, fg, background,
                   didmail, need_to_switch, reqs, started, pools>>

ThreadCalls == pc = "scope" /\ self \in Threads

make_thread(t, k) ==
    /\ ThreadCalls
    /\ state[t] = "UNBORN" /\ task_state[k] # "UNBORN"
    /\ state' = [state EXCEPT ![t] = "ALIVE"]
    /\ task' = [task EXCEPT ![t] = k]
    /\ alive_threads_count' = [alive_threads_count EXCEPT ![k] = @ + 1]
    /\ install_new_thread(t)
    /\ UNCHANGED <<task_state, conds, mail_wait, background, started, pools>>

make_task(k, team) ==
    /\ ThreadCalls
    /\ task_state[k] = "UNBORN"
    /\ \A i \in DOMAIN team : state[team[i]] = "UNBORN"
    /\ \A i, j \in DOMAIN team : team[i] = team[j] => i = j
    /\ task_state' = [task_state EXCEPT ![k] = "ALIVE"]
    /\ state' = [t \in Threads |-> IF IsIn(t, team) THEN "ALIVE" ELSE state[t]]
    /\ task' = [t \in Threads |-> IF IsIn(t, team) THEN k ELSE task[t]]
    /\ alive_threads_count' = [alive_threads_count EXCEPT ![k] = Len(team)]
    /\ didmail' = didmail \cup {t \in Threads : IsIn(t, team)}
    /\ back' = back \o team
    /\ Return
    /\ UNCHANGED <<conds, mail_wait, front, background, reqs, started, pools>>

kill_task(k, final) ==
    /\ ThreadCalls
    /\ k # DefaultTask /\ task_state[k] = "ALIVE"
    /\ task_state' = [task_state EXCEPT ![k] = final]
    /\ set_condvar__iu(k)
    /\ Return
    /\ UNCHANGED <<state, task, alive_threads_count, mail_wait, front,
                   background, didmail, reqs, started, pools>>

\* A killed thread takes its task with it, whether SUCCESS or FAILURE.
TaskCanEnd(t) == task[t] # DefaultTask /\ task_state[task[t]] = "ALIVE"

M_may_be_killed(t) == state[t] # "UNBORN"           \* no test for ALIVE
may_be_killed(t) == state[t] = "ALIVE"

kill_thread(t, final) ==
    /\ ThreadCalls
    /\ may_be_killed(t)
    /\ end_thread(t, final, TaskCanEnd(t))
    /\ Return
    /\ UNCHANGED <<mail_wait, front, background, didmail, reqs, started,
                   pools>>

\* kill_task and kill_thread of the dead: the scope is entered and left.
kill_the_dead ==
    /\ ThreadCalls
    /\ \/ \E t \in Threads : state[t] \in Final
       \/ \E k \in Tasks : task_state[k] \in Final
    /\ Return
    /\ UNCHANGED <<life, conds, mail_wait, fg, background, didmail, reqs,
                   started, pools>>

\* The task ends with the last of its threads, and with the first FAILURE.
done_ends_task(t, final) ==
    \/ final = "FAILURE" /\ task[t] # DefaultTask
    \/ /\ final = "SUCCESS"
       /\ alive_threads_count[task[t]] - 1 = 0
       /\ task_state[task[t]] = "ALIVE"

\* set_condvar__iu raises FAIL "condvar already set": do_handler finds the
\* thread dead already, clears the mutex and calls the exception handler.
condvar_already_set(t, final) ==
    done_ends_task(t, final) /\ task[t] \in is_set

mark_thread_as_done_and_dispatch_next_thread(final) ==
    /\ ThreadCalls
    /\ \/ /\ state[self] = "ALIVE"
          /\ end_thread(self, final, done_ends_task(self, final))
          /\ IF condvar_already_set(self, final)
               THEN Return
               ELSE Leave("dispatch") /\ UNCHANGED need_to_switch
       \/ /\ state[self] # "ALIVE"
          /\ Leave("dispatch")
          /\ UNCHANGED <<life, conds, back, need_to_switch>>
    /\ UNCHANGED <<mail_wait, front, background, didmail, reqs, started,
                   pools>>

\* The thread raises an exception that it does not catch.
do_handler ==
    /\ ThreadCalls
    /\ \/ /\ state[self] = "ALIVE"
          /\ end_thread(self, "UNCAUGHT_EXCEPTION", TaskCanEnd(self))
       \/ /\ state[self] # "ALIVE"
          /\ UNCHANGED <<life, conds, back>>
    /\ Return
    /\ UNCHANGED <<mail_wait, front, background, didmail, reqs, started,
                   pools>>

yield ==
    /\ ThreadCalls
    /\ didmail' = didmail \cup {self}
    /\ back' = Append(back, self)
    /\ Leave("dispatch")
    /\ UNCHANGED <<life, conds, mail_wait, front, background, need_to_switch,
                   reqs, started, pools>>

\* do_one_mailop of thread_done__mailops and task_done__mailops.
wait_on_condvars(S) ==
    /\ ThreadCalls
    /\ S \cap is_set = {}
    /\ waiting' = [c \in Condvars |->
                     IF c \in S
                       THEN Append(waiting[c],
                                   [thread |-> self, blocked |-> TRUE])
                       ELSE waiting[c]]
    /\ Leave("dispatch")
    /\ UNCHANGED <<life, is_set, mail_wait, fg, background, didmail,
                   need_to_switch, reqs, started, pools>>

\* The same when one of the mailops is ready to fire.
fire_mailop ==
    /\ ThreadCalls
    /\ is_set # {}
    /\ Return
    /\ UNCHANGED <<life, conds, mail_wait, fg, background, didmail, reqs,
                   started, pools>>

\* A mailslot, maildrop, mailqueue or timeout blocks the thread ...
block_for_mail ==
    /\ ThreadCalls
    /\ mail_wait' = mail_wait \cup {self}
    /\ Leave("dispatch")
    /\ UNCHANGED <<life, conds, fg, background, didmail, need_to_switch, reqs,
                   started, pools>>

\* ... and a put or give hands the processor over to it ...
hand_over(t) ==
    /\ pc = "scope"
    /\ t \in mail_wait
    /\ mail_wait' = mail_wait \ {t}
    /\ install_new_thread(t)
    /\ UNCHANGED <<life, conds, background, started, pools>>

\* ... but a mailslot partner lets others go first if their turn has come.
switch_to_thread__xu(t) ==
    /\ pc = "scope"
    /\ t \in mail_wait
    /\ mail_wait' = mail_wait \ {t}
    /\ \/ /\ need_to_switch
          /\ need_to_switch' = FALSE
          /\ TakesRequests
          /\ back' = back_with_requests \o <<t, self>>
          /\ Leave("scheduler")
          /\ UNCHANGED <<front, didmail>>
       \/ ~need_to_switch /\ install_new_thread(t)
    /\ UNCHANGED <<life, conds, background, started, pools>>

\* do () of a task hostthread pool.
submit ==
    /\ pc = "run" /\ self \in Threads
    /\ posted + working < MaxRequests
    /\ working' = working + 1
    /\ UNCHANGED <<life, conds, mail_wait, current_thread, fg, background,
                   didmail, uninterruptible_scope_mutex, need_to_switch, pc,
                   reqs, started, replied>>

\* A thunk ends.
dispatch_next_thread__noreturn ==
    /\ pc = "run" /\ self \in Thunks
    /\ uninterruptible_scope_mutex' = 1
    /\ pc' = "dispatch"
    /\ UNCHANGED <<life, conds, mail_wait, current_thread, fg, background,
                   didmail, need_to_switch, reqs, started, pools>>

-----------------------------------------------------------------------------
(* The scheduler *)

\* preempt__eu: a thread that did mail stays in the foreground and brings a
\* background thread along.
M_preempt_scope == 0                    \* Reppy's: the scope is not entered
preempt_scope == 1
preempt__eu ==
    /\ uninterruptible_scope_mutex' = preempt_scope
    /\ \/ /\ Record(self) \in didmail
          /\ didmail' = didmail \ {Record(self)}
          /\ IF background = <<>>
               THEN /\ back' = Append(back_with_requests, self)
                    /\ UNCHANGED background
               ELSE /\ back' = back_with_requests \o <<Head(background), self>>
                    /\ background' = Tail(background)
       \/ /\ Record(self) \notin didmail
          /\ back' = back_with_requests
          /\ background' = Append(background, self)
          /\ UNCHANGED didmail

M_alarm_preempts ==                                 \* mailers only
    /\ uninterruptible_scope_mutex = 0 /\ pc # "shutdown"
    /\ Record(self) \in didmail
    /\ TakesRequests
    /\ preempt__eu
    /\ pc' = "scheduler"
    /\ UNCHANGED <<life, conds, mail_wait, current_thread, front,
                   need_to_switch, started, pools>>
alarm_preempts ==
    /\ uninterruptible_scope_mutex = 0 /\ pc # "shutdown"
    /\ TakesRequests
    /\ preempt__eu
    /\ pc' = "scheduler"
    /\ UNCHANGED <<life, conds, mail_wait, current_thread, front,
                   need_to_switch, started, pools>>

alarm_defers ==
    /\ uninterruptible_scope_mutex # 0
    /\ need_to_switch' = TRUE
    /\ UNCHANGED <<life, conds, mail_wait, current_thread, fg, background,
                   didmail, uninterruptible_scope_mutex, pc, reqs, started,
                   pools>>

alarm_handler == alarm_preempts \/ alarm_defers

\* The driver queues a thread that slept long enough, or whose I/O is
\* possible, if there is one.
driver ==
    \/ UNCHANGED <<mail_wait, didmail, back>>
    \/ \E t \in mail_wait :
         /\ mail_wait' = mail_wait \ {t}
         /\ didmail' = didmail \cup {t}
         /\ back' = Append(back, t)

\* run_next_runnable_thread__usend__hook
wake_sleeping_threads ==
    /\ pc = "scheduler"
    /\ driver
    /\ Leave("dispatch")
    /\ UNCHANGED <<life, conds, front, background, need_to_switch, reqs,
                   started, pools>>

dispatch_next_thread__usend__noreturn ==
    /\ pc = "dispatch"
    /\ TakesRequests
    /\ back' = back_with_requests
    /\ need_to_switch' = FALSE
    /\ Leave(IF need_to_switch THEN "scheduler" ELSE "dequeue")
    /\ UNCHANGED <<life, conds, mail_wait, front, background, didmail,
                   started, pools>>

\* set_current_thread, uninterruptible_scope_mutex := 0, switch_to_fate
switch_to(e) ==
    /\ current_thread' = e
    /\ uninterruptible_scope_mutex' = 0
    /\ pc' = "run"
    /\ started' = IF e \in Thunks /\ e > started THEN e ELSE started

Runnable(e) ==
    e \in Threads => state[e] = "ALIVE" /\ task_state[task[e]] = "ALIVE"

\* `Task is dead, so we're dead too.'
MustBeBuried(e) ==
    e \in Threads /\ state[e] = "ALIVE" /\ task_state[task[e]] # "ALIVE"

M_bury(e) ==                                        \* not announced
    /\ state' = [state EXCEPT ![e] = task_state[task[e]]]
    /\ alive_threads_count' = [alive_threads_count EXCEPT ![task[e]] = @ - 1]
    /\ UNCHANGED <<task, task_state, conds, back>>
bury(e) == end_thread(e, task_state[task[e]], FALSE)

\* The back half becomes the front half.  Its first thread is not examined.
dequeue_refill ==
    /\ pc = "dequeue"
    /\ front = <<>> /\ back # <<>>
    /\ switch_to(Head(back))
    /\ front' = Tail(back) /\ back' = <<>>
    /\ UNCHANGED <<life, conds, mail_wait, background, didmail,
                   need_to_switch, reqs, pools>>

dequeue_foreground ==
    /\ pc = "dequeue"
    /\ front # <<>>
    /\ front' = Tail(front)
    /\ LET first == Head(front)
       IN  \/ /\ Runnable(first)
              /\ switch_to(first)
              /\ UNCHANGED <<life, conds, back>>
           \/ /\ MustBeBuried(first)
              /\ bury(first)
              /\ Leave("dequeue") /\ UNCHANGED started
           \/ /\ ~Runnable(first) /\ ~MustBeBuried(first)
              /\ Leave("dequeue") /\ UNCHANGED <<started, life, conds, back>>
    /\ UNCHANGED <<mail_wait, background, didmail, need_to_switch, reqs,
                   pools>>

dequeue_settles_for_cpu_bound ==
    /\ pc = "dequeue"
    /\ front = <<>> /\ back = <<>>
    /\ Leave("dequeue_cpu")
    /\ UNCHANGED <<life, conds, mail_wait, fg, background, didmail,
                   need_to_switch, reqs, started, pools>>

dequeue_cpu_bound_thread ==
    /\ pc = "dequeue_cpu"
    /\ background # <<>>
    /\ background' = Tail(background)
    /\ LET first == Head(background)
       IN  \/ /\ Runnable(first)
              /\ switch_to(first)
              /\ UNCHANGED <<life, conds, back>>
           \/ /\ MustBeBuried(first)
              /\ bury(first)
              /\ Leave("dequeue_cpu") /\ UNCHANGED started
           \/ /\ ~Runnable(first) /\ ~MustBeBuried(first)
              /\ Leave("dequeue_cpu")
              /\ UNCHANGED <<started, life, conds, back>>
    /\ UNCHANGED <<mail_wait, front, didmail, need_to_switch, reqs, pools>>

dequeue_finds_nothing ==
    /\ pc = "dequeue_cpu"
    /\ background = <<>>
    /\ switch_to(Idle)
    /\ UNCHANGED <<life, conds, mail_wait, fg, background, didmail,
                   need_to_switch, reqs, pools>>

-----------------------------------------------------------------------------
(* no_runnable_threads_left__fate, and the hostthreads it waits for *)

no_runnable_threads_left__fate ==
    /\ pc = "run" /\ self = Idle
    /\ uninterruptible_scope_mutex' = 1
    /\ pc' = "no_runnable"
    /\ UNCHANGED <<life, conds, mail_wait, current_thread, fg, background,
                   didmail, need_to_switch, reqs, started, pools>>

is_doing_useful_work == working + replied > 0

request_queue_is_empty == request_queue = <<>>

M_first_check == ~request_queue_is_empty            \* only the queue
first_check == is_doing_useful_work
second_check == ~request_queue_is_empty

\* The driver pauses until the next signal if some thread that waits is asleep
\* or waits for I/O or a subprocess.
block_until_some_thread_becomes_runnable == mail_wait' # {}

\* The queues, the driver, the three pools: in this order.
look_for_work ==
    /\ pc = "no_runnable"
    /\ driver
    /\ \/ /\ \/ front # <<>> \/ back' # <<>> \/ background # <<>>
             \/ block_until_some_thread_becomes_runnable
          /\ Leave("dispatch")
       \/ /\ front = <<>> /\ back' = <<>> /\ background = <<>>
          /\ Leave(IF first_check THEN "blocked" ELSE "checked")
    /\ UNCHANGED <<life, conds, front, background, need_to_switch, reqs,
                   started, pools>>

block_until_inter_hostthread_request_queue_is_nonempty ==
    /\ pc = "blocked"
    /\ ~request_queue_is_empty
    /\ Leave("dispatch")
    /\ UNCHANGED <<life, conds, mail_wait, fg, background, didmail,
                   need_to_switch, reqs, started, pools>>

look_at_request_queue ==
    /\ pc = "checked"
    /\ IF second_check
         THEN Leave("dispatch")
         ELSE /\ pc' = "shutdown"
              /\ uninterruptible_scope_mutex' = 0
              /\ UNCHANGED current_thread
    /\ UNCHANGED <<life, conds, mail_wait, fg, background, didmail,
                   need_to_switch, reqs, started, pools>>

\* do (): a server of a pool posts the reply of the task it is running.
do ==
    /\ working > 0
    /\ posted' = posted + 1
    /\ request_queue' = <<posted + 1>> \o request_queue
    /\ working' = working - 1 /\ replied' = replied + 1
    /\ UNCHANGED <<life, conds, mail_wait, current_thread, fg, background,
                   didmail, uninterruptible_scope_mutex, need_to_switch, pc,
                   started>>

\* The task is over; it may never have replied.
task_ends ==
    /\ \/ replied > 0 /\ replied' = replied - 1 /\ UNCHANGED working
       \/ working > 0 /\ working' = working - 1 /\ UNCHANGED replied
    /\ UNCHANGED <<life, conds, mail_wait, current_thread, fg, background,
                   didmail, uninterruptible_scope_mutex, need_to_switch, pc,
                   reqs, started>>

-----------------------------------------------------------------------------

Teams == UNION {[1 .. n -> Threads] : n \in 0 .. MaxTeam}

Born(c) == IF c \in Threads THEN state[c] # "UNBORN"
                            ELSE task_state[c] # "UNBORN"

\* The body of an uninterruptible scope: the call that entered it.
scope_body ==
    \/ \E t \in Threads, k \in Tasks : make_thread(t, k)
    \/ \E k \in Tasks, team \in Teams : make_task(k, team)
    \/ /\ "kill" \in Calls
       /\ \/ \E k \in Tasks, final \in {"SUCCESS", "FAILURE"} :
               kill_task(k, final)
          \/ \E t \in Threads, final \in {"SUCCESS", "FAILURE"} :
               kill_thread(t, final)
          \/ kill_the_dead
    \/ \E final \in {"SUCCESS", "FAILURE"} :
         mark_thread_as_done_and_dispatch_next_thread(final)
    \/ "raise" \in Calls /\ do_handler
    \/ yield
    \/ /\ "wait" \in Calls
       /\ \/ \E c, d \in {c \in Awaited : Born(c)} : wait_on_condvars({c, d})
          \/ fire_mailop
    \/ /\ "mail" \in Calls
       /\ \/ block_for_mail
          \/ \E t \in Threads : hand_over(t) \/ switch_to_thread__xu(t)

scheduler ==
    \/ wake_sleeping_threads
    \/ dispatch_next_thread__usend__noreturn
    \/ dequeue_refill
    \/ dequeue_foreground
    \/ dequeue_settles_for_cpu_bound
    \/ dequeue_cpu_bound_thread
    \/ dequeue_finds_nothing
    \/ no_runnable_threads_left__fate
    \/ look_for_work
    \/ block_until_inter_hostthread_request_queue_is_nonempty
    \/ look_at_request_queue

Next ==
    \/ enter_scope
    \/ scope_body
    \/ submit
    \/ dispatch_next_thread__noreturn
    \/ alarm_handler
    \/ scheduler
    \/ do
    \/ task_ends

Spec == Init /\ [][Next]_vars

\* Fairness.  The hostthread keeps running: it leaves every scope, and the
\* scheduler takes its steps.  The timer signal keeps coming (50 Hz) and sooner
\* or later arrives outside every scope; and a pass through the scheduler takes
\* far less than a time slice, so that not every pass is hit by a signal.
quiet(A) == A /\ ~need_to_switch

Fairness ==
    /\ WF_vars(scope_body)
    /\ WF_vars(scheduler)
    /\ SF_vars(alarm_preempts)
    /\ SF_vars(quiet(wake_sleeping_threads))
    /\ SF_vars(quiet(dispatch_next_thread__usend__noreturn))

FairSpec == Spec /\ Fairness

-----------------------------------------------------------------------------
(* Properties *)

InRunQueues == front \o back \o background

IsRunning(t) == pc \in {"run", "scope"} /\ current_thread = t

IsBlockedOn(t, c) == IsIn([thread |-> t, blocked |-> TRUE], waiting[c])

IsWaiting(t) == t \in mail_wait \/ \E c \in Condvars : IsBlockedOn(t, c)

\* How many times t is running, runnable or waiting.
Places(t) ==
    Cardinality({i \in DOMAIN InRunQueues : InRunQueues[i] = t})
    + (IF IsRunning(t) THEN 1 ELSE 0)
    + (IF t \in mail_wait THEN 1 ELSE 0)
    + (IF \E c \in Condvars : IsBlockedOn(t, c) THEN 1 ELSE 0)

\* A microthread is never queued twice, or queued while it runs or waits
\* (crash_if_thread_is_already_in_run_queues never fires), and no ALIVE thread
\* is ever lost: it is running, runnable or waiting, through every preemption,
\* hand-over, wakeup and burial.
EveryThreadInOnePlace ==
    \A t \in Threads :
        /\ Places(t) <= 1
        /\ state[t] = "ALIVE" => Places(t) = 1

\* The scheduler runs inside an uninterruptible scope until it has taken a
\* thread: the `bogus value' test of dispatch_next_thread__usend__noreturn
\* never fires, and an alarm never queues the thread that is on its way out.
SchedulerIsUninterruptible ==
    pc \notin {"run", "shutdown"} <=> uninterruptible_scope_mutex = 1

AliveIn(k) == {t \in Threads : state[t] = "ALIVE" /\ task[t] = k}

\* get_task's_alive_threads_count is the number of ALIVE threads in the task,
\* whichever of kill_thread, thread_exit, an exception or a burial in the
\* dequeue loops ends a thread.
AliveThreadsAreCounted ==
    \A k \in Tasks :
        alive_threads_count[k] =
            (IF k = DefaultTask THEN default_alive_threads_count ELSE 0)
            + Cardinality(AliveIn(k))

\* A done_condvar or task_condvar is set exactly from the moment its thread or
\* task leaves ALIVE, and then nobody is left waiting for it.
DeathIsAnnounced ==
    /\ \A t \in Threads : t \in is_set <=> state[t] \in Final
    /\ \A k \in Tasks : k \in is_set <=> task_state[k] \in Final
    /\ \A c \in is_set : waiting[c] = <<>>

\* The default task remains ALIVE no matter what happens to its threads.
DefaultTaskLives == task_state[DefaultTask] = "ALIVE"

\* The thunks that have not begun, in the order in which they will begin.
NotBegun ==
    Among(InRunQueues \o Backward(request_queue), {e \in Thunks : e > started})

\* Requests of other hostthreads are begun in the order in which they were
\* posted, and none is dropped between request_queue and the run queues.
RequestsBeginInOrder ==
    NotBegun = [i \in 1 .. posted - started |-> started + i]

\* The scheduler shuts the process down for lack of work only when there is
\* none: no queued request, no task in the pools, nothing runnable.
NoEarlyShutdown ==
    pc = "shutdown" =>
        /\ request_queue = <<>> /\ working + replied = 0
        /\ InRunQueues = <<>>

\* The inductive invariant behind the theorems of MicrothreadsProofs: what
\* ends a thread keeps the counts and the condvars in step with the states,
\* in particular because a thread is never in a task that does not exist yet.
ThreadsHaveTasks ==
    \A t \in Threads : state[t] # "UNBORN" => task_state[task[t]] # "UNBORN"

Lifecycle ==
    /\ LifeTypeOK
    /\ AliveThreadsAreCounted
    /\ DeathIsAnnounced
    /\ DefaultTaskLives
    /\ ThreadsHaveTasks

Control ==
    /\ uninterruptible_scope_mutex \in {0, 1}
    /\ pc \in PCs
    /\ SchedulerIsUninterruptible

IInv == Lifecycle /\ Control

\* A thread's state makes one transition, out of ALIVE.
ThreadDiesOnce ==
    [][\A t \in Threads : state[t] \in Final => state'[t] = state[t]]_vars

\* A thread in the foreground queue is dequeued, however long the others run.
ForegroundIsServed ==
    \A t \in Threads :
        IsIn(t, front \o back) ~> ~IsIn(t, front \o back)

\* A request that another hostthread posted is begun.
RequestsAreServed ==
    \A k \in Thunks : (posted >= k) ~> (started >= k)

-----------------------------------------------------------------------------
(* What the documentation says, and the code does not do *)

\* microthread.api: "Thread and tasks states are both allowed to make exactly
\* one transition".
TaskDiesOnce ==
    [][\A k \in Tasks : task_state[k] \in Final
                          => task_state'[k] = task_state[k]]_vars

\* microthread.api: the task goes to SUCCESS "when its count of ALIVE threads
\* goes to zero".
SuccessMeansAllDone ==
    [][\A t \in Threads :
         (/\ state[t] = "ALIVE" /\ state'[t] = "SUCCESS"
          /\ task_state[task[t]] = "ALIVE"
          /\ task_state'[task[t]] = "SUCCESS")
            => alive_threads_count'[task[t]] = 0]_vars

\* microthread.api: the other threads of a dead task "will never be scheduled
\* to run again"; a thread that is not ALIVE is dropped on the floor.
OnlyTheLivingRun ==
    [][pc = "dequeue" /\ pc' = "run" => Runnable(current_thread')]_vars
=============================================================================
