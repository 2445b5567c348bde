------------------------- MODULE InterprocessSignals -------------------------
(***************************************************************************)
(* How a posix signal reaches its Mythryl-level handler.                   *)
(*                                                                         *)
(*   src/c/machine-dependent/interprocess-signals.c                        *)
(*   src/c/machine-dependent/prim.intel32.asm                              *)
(*   src/c/main/run-mythryl-code-and-runtime-eventloop.c                   *)
(*   src/lib/std/src/nj/interprocess-signals-guts.pkg                      *)
(*                                                                         *)
(* One hostthread alternates between Mythryl code and C.  The kernel may   *)
(* interrupt it between any two steps: c_signal_handler counts the signal  *)
(* and, if Mythryl code is running, sets interprocess_signal_pending and   *)
(* zeroes the heap limit so that the next heap-limit probe leaves to the   *)
(* runtime eventloop.  There choose_signal picks a signal and the root     *)
(* handler is run in place of the interrupted computation.  The handler    *)
(* returns the fate to go on with, the interrupted one or the thread       *)
(* scheduler's.  The microthreads meanwhile mask, unmask and redirect      *)
(* signals, through a table of their own and system calls that are not     *)
(* atomic with it; a thread may be interrupted, and others run, at any     *)
(* point of these operations.                                              *)
(*                                                                         *)
(* c_signal_handler is installed with all signals blocked, so it is one    *)
(* step.  A step of Mythryl code begins with a heap-limit probe, as the    *)
(* entry of every allocating function does.                                *)
(***************************************************************************)
EXTENDS Integers, FiniteSets, FiniteSetsExt

CONSTANTS
    N,                      \* SIGNAL_TABLE_SIZE_IN_SLOTS
    Fixed,                  \* signals whose disposition the kernel or the
                            \* runtime keeps: SIGKILL, SIGSTOP, SIGFPE,
                            \* SIGSEGV and those the host does not have
    Unblockable,            \* SIGKILL, SIGSTOP, and those again
    Threads,                \* the microthreads
    HandlersChangeSignals,  \* bound: do handlers mask and redirect signals?
    MAX_SENT,               \* bound: signals sent to the process
    MAX_MASK                \* bound: nesting of masks by one level of code

ASSUME InterprocessSignalsAssumption ==
    /\ N \in Nat \ {0}
    /\ Fixed \subseteq 0 .. N - 1
    /\ Unblockable \subseteq Fixed
    /\ Threads # {}
    /\ Threads \cap {"scheduler", "handler", "root_handler", "resume"} = {}
    /\ HandlersChangeSignals \in BOOLEAN
    /\ MAX_SENT \in Nat
    /\ MAX_MASK \in Nat

Signals == 0 .. N - 1           \* portable signal ids
Actions == {"IGNORE", "DEFAULT", "HANDLER"}

VARIABLES
    \* the Hostthread record
    executing_mythryl_code,
    interprocess_signal_pending,
    handler_is_running,     \* mythryl_handler_for_interprocess_signal_is_...
    seen_count, done_count, \* posix_signal_counts
    all_seen, all_done,     \* all_posix_signals
    posix_signal_rotor,
    arg,                    \* the root handler's argument: next_posix_signal_id
                            \* and next_posix_signal_count
    limit_is_zeroed,        \* the heap limit makes the next probe fail
    \* where the hostthread is
    at,                     \* in which piece of assembly or C code
    request,                \* the request set_request was called with
    reg,                    \* the slot that choose_signal looks at
    delta,                  \* choose_signal's local
    level,                  \* which Mythryl code it runs or will resume
    current,                \* whose code "main" is: a thread's or the
                            \* scheduler's
    interrupted,            \* those whose fate was made for a handler
    frame,                  \* where each thread and the handler are in an
                            \* operation on the signal table
    \* Mythryl-level signal_table
    mask, action,
    \* the kernel
    os_mask, os_state, os_pending, sent,
    \* history
    delivered,              \* total of the counts passed to handlers
    passed,                 \* how often others were chosen while one waited
    disturbed               \* did an operation on the table ever begin in a
                            \* handler, or while another was in progress?

hostthread_vars == <<executing_mythryl_code, interprocess_signal_pending,
                     handler_is_running, seen_count, done_count, all_seen,
                     all_done, posix_signal_rotor, arg,
                     limit_is_zeroed>>
code_vars == <<level, current, interrupted>>
control_vars == <<at, request, reg, delta, code_vars, frame>>
table_vars == <<mask, action>>
kernel_vars == <<os_mask, os_state, os_pending, sent>>
history_vars == <<delivered, passed, disturbed>>
vars == <<hostthread_vars, control_vars, table_vars, kernel_vars,
          history_vars>>

\* Who operates on the signal table.
Levels == Threads \cup {"handler"}

NoChange == [signal |-> 0, action |-> "NONE", override |-> FALSE]

Changes == {NoChange}
           \cup [signal : Signals, action : Actions, override : BOOLEAN]

\* An operation on the table in progress: the entries it has yet to update,
\* the mask that it computed for the kernel, and the change of action that
\* set_signal_handler makes between masking and unmasking everything.
Frames == [pc : {"run", "mask_os", "inc", "set", "state", "unmask", "dec",
                 "unmask_os"},
           todo : SUBSET Signals, masked : SUBSET Signals, new : BOOLEAN,
           change : Changes]

NoFrame == [pc |-> "run", todo |-> {}, masked |-> {}, new |-> FALSE,
            change |-> NoChange]

NoArg == [signal |-> 0, count |-> 0]

NoRequest == [code |-> "NONE"]

Requests ==
    [code : {"NONE", "HEAPCLEANING", "RETURN_FROM_SIGNAL_HANDLER",
             "RESUME_AFTER_RUNNING_SIGNAL_HANDLER",
             "HANDLE_UNCAUGHT_EXCEPTION", "pause"}]
    \cup [code : {"set_signal_mask"}, masked : SUBSET Signals]
    \cup [code : {"set_signal_state"}, signal : Signals, state : Actions]

Places == {"asm_run", "asm_test", "mythryl", "set_request",
           "eventloop", "choose", "chosen", "paused", "died"}

\* The variables have their types: among others, no mask count goes below
\* zero and choose_signal's delta, a difference of two counters that an
\* interrupt may change between the reads, is never negative.
TypeOK ==
    /\ executing_mythryl_code \in BOOLEAN
    /\ interprocess_signal_pending \in BOOLEAN
    /\ handler_is_running \in BOOLEAN
    /\ seen_count \in [Signals -> Nat]
    /\ done_count \in [Signals -> Nat]
    /\ all_seen \in Nat
    /\ all_done \in Nat
    /\ posix_signal_rotor \in Signals
    /\ arg \in [signal : Signals, count : Nat]
    /\ limit_is_zeroed \in BOOLEAN
    /\ at \in Places
    /\ request \in Requests
    /\ reg \in Signals
    /\ delta \in Nat
    /\ level \in {"main", "handler", "root_handler", "resume"}
    /\ current \in Threads \cup {"scheduler"}
    /\ interrupted \in SUBSET (Threads \cup {"scheduler"})
    /\ frame \in [Levels -> Frames]
    /\ mask \in [Signals -> Nat]
    /\ action \in [Signals -> Actions]
    /\ os_mask \in SUBSET Signals
    /\ os_state \in [Signals -> Actions]
    /\ os_pending \in SUBSET Signals
    /\ sent \in 0 .. MAX_SENT
    /\ delivered \in [Signals -> Nat]
    /\ passed \in [Signals -> Nat]
    /\ disturbed \in BOOLEAN

\* set_up_hostthread_state, clear_signal_counts, and the table as
\* initialize_posix_interprocess_signal_handler_table leaves it in a process
\* that inherited no ignored signal.
Init ==
    /\ executing_mythryl_code = FALSE
    /\ interprocess_signal_pending = FALSE
    /\ handler_is_running = FALSE
    /\ seen_count = [s \in Signals |-> 0]
    /\ done_count = [s \in Signals |-> 0]
    /\ all_seen = 0
    /\ all_done = 0
    /\ posix_signal_rotor = 0
    /\ arg = NoArg
    /\ limit_is_zeroed = FALSE
    /\ at = "asm_run"
    /\ request = NoRequest
    /\ reg = 0
    /\ delta = 0
    /\ level = "main"
    /\ current \in Threads
    /\ interrupted = {}
    /\ frame = [l \in Levels |-> NoFrame]
    /\ mask = [s \in Signals |-> 0]
    /\ action = [s \in Signals |-> "DEFAULT"]
    /\ os_mask = {}
    /\ os_state = [s \in Signals |-> "DEFAULT"]
    /\ os_pending = {}
    /\ sent = 0
    /\ delivered = [s \in Signals |-> 0]
    /\ passed = [s \in Signals |-> 0]
    /\ disturbed = FALSE

-----------------------------------------------------------------------------
(* The kernel and the C-level handler *)

\* Somebody sends the process a signal.  The kernel drops it unless it is to
\* be handled, and remembers one instance of it while it is blocked.
kill(s) ==
    /\ sent < MAX_SENT
    /\ sent' = sent + 1
    /\ os_pending' = IF os_state[s] = "HANDLER" THEN os_pending \cup {s}
                                                ELSE os_pending
    /\ UNCHANGED <<hostthread_vars, control_vars, table_vars, os_mask,
                   os_state, history_vars>>

\* The condition under which c_signal_handler makes the next probe fail.
M_must_trap == executing_mythryl_code /\ ~interprocess_signal_pending
M_must_trap_2 == FALSE
must_trap ==
    /\ executing_mythryl_code
    /\ ~interprocess_signal_pending
    /\ ~handler_is_running

c_signal_handler(s) ==
    /\ at # "died"
    /\ s \in os_pending \ os_mask
    /\ os_pending' = os_pending \ {s}
    /\ seen_count' = [seen_count EXCEPT ![s] = @ + 1]
    /\ all_seen' = all_seen + 1
    /\ interprocess_signal_pending' = (interprocess_signal_pending \/ must_trap)
    /\ limit_is_zeroed' = (limit_is_zeroed \/ must_trap)
    /\ at' = IF at = "paused" THEN "asm_run" ELSE at      \* pause() returns
    /\ UNCHANGED <<executing_mythryl_code, handler_is_running, done_count,
                   all_done, posix_signal_rotor, arg,
                   request, reg, delta, code_vars, frame, table_vars, os_mask,
                   os_state, sent, history_vars>>

-----------------------------------------------------------------------------
(* asm_run_mythryl_task *)

\* `Note that we are entering Mythryl'
M_noted == executing_mythryl_code
noted == TRUE

asm_run ==
    /\ at = "asm_run"
    /\ at' = "asm_test"
    /\ executing_mythryl_code' = noted
    /\ UNCHANGED <<interprocess_signal_pending, handler_is_running,
                   seen_count, done_count, all_seen, all_done,
                   posix_signal_rotor, arg, limit_is_zeroed,
                   request, reg, delta, code_vars, frame, table_vars,
                   kernel_vars, history_vars>>

\* Is there something to handle, and no handler running?  (A signal between
\* the load and the comparison meets executing_mythryl_code set, so its own
\* handler does what the comparison would have done.)
signals_wait == all_seen # all_done /\ ~handler_is_running

\* `Handle signals', then jump to the Mythryl code.
asm_test ==
    /\ at = "asm_test"
    /\ at' = "mythryl"
    /\ interprocess_signal_pending' =
           (interprocess_signal_pending \/ signals_wait)
    /\ limit_is_zeroed' = (limit_is_zeroed \/ signals_wait)
    /\ UNCHANGED <<executing_mythryl_code, handler_is_running, seen_count,
                   done_count, all_seen, all_done, posix_signal_rotor,
                   arg, request, reg, delta, code_vars, frame,
                   table_vars, kernel_vars, history_vars>>

\* Leave Mythryl code with a request.  Until set_request has noted it, the
\* hostthread still counts as executing Mythryl code.
Leave(r) ==
    /\ at' = "set_request"
    /\ request' = r

set_request ==
    /\ at = "set_request"
    /\ at' = "eventloop"
    /\ executing_mythryl_code' = FALSE
    /\ UNCHANGED <<interprocess_signal_pending, handler_is_running,
                   seen_count, done_count, all_seen, all_done,
                   posix_signal_rotor, arg, limit_is_zeroed,
                   request, reg, delta, code_vars, frame, table_vars,
                   kernel_vars, history_vars>>

\* A heap-limit probe fails: because of a signal, or for want of space.
probe_fails ==
    /\ at = "mythryl"
    /\ level # "resume"
    /\ Leave([code |-> "HEAPCLEANING"])
    /\ UNCHANGED <<hostthread_vars, reg, delta, code_vars, frame, table_vars,
                   kernel_vars, history_vars>>

-----------------------------------------------------------------------------
(* The runtime eventloop *)

Requested(code) == at = "eventloop" /\ request.code = code

\* A heapcleaning that no signal caused; it sets the heap limit anew.
call_heapcleaner ==
    /\ Requested("HEAPCLEANING")
    /\ ~interprocess_signal_pending
    /\ limit_is_zeroed' = FALSE
    /\ at' = "asm_run"
    /\ request' = NoRequest
    /\ UNCHANGED <<executing_mythryl_code, interprocess_signal_pending,
                   handler_is_running, seen_count, done_count, all_seen,
                   all_done, posix_signal_rotor, arg,
                   reg, delta, code_vars, frame, table_vars,
                   kernel_vars, history_vars>>

\* The request is really a signal: a zeroed limit means a heapcleaning first.
M_scan_start == 0
scan_start == posix_signal_rotor

begin_choose_signal ==
    /\ Requested("HEAPCLEANING")
    /\ interprocess_signal_pending
    /\ limit_is_zeroed' = FALSE
    /\ reg' = scan_start
    /\ at' = "choose"
    /\ UNCHANGED <<executing_mythryl_code, interprocess_signal_pending,
                   handler_is_running, seen_count, done_count, all_seen,
                   all_done, posix_signal_rotor, arg,
                   request, delta, code_vars, frame, table_vars, kernel_vars,
                   history_vars>>

\* `Wrap circularly around the signal vector'
successor(s) == IF s + 1 = N THEN 0 ELSE s + 1

\* One turn of choose_signal's loop.
choose_signal ==
    LET s == successor(reg)
        d == seen_count[s] - done_count[s] IN
    /\ at = "choose"
    /\ reg' = s
    /\ delta' = d
    /\ at' = IF d = 0 THEN "choose" ELSE "chosen"
    /\ UNCHANGED <<hostthread_vars, request, code_vars, frame, table_vars,
                   kernel_vars, history_vars>>

\* The count that is marked as done: the one that will be passed on, not
\* what has been seen by now.
M_done_now(s) == seen_count[s]
done_now(s) == done_count[s] + delta

\* The rest of choose_signal, and the hand-over to the root handler.
run_root_handler ==
    LET s == reg IN
    /\ at = "chosen"
    /\ posix_signal_rotor' = s
    /\ arg' = [signal |-> s, count |-> delta]
    /\ done_count' = [done_count EXCEPT ![s] = done_now(s)]
    /\ all_done' = all_done + delta
    /\ handler_is_running' = TRUE
    /\ interprocess_signal_pending' = FALSE
    /\ level' = "root_handler"
    /\ interrupted' = interrupted \cup {current}
    /\ at' = "asm_run"
    /\ request' = NoRequest
    /\ reg' = 0
    /\ delta' = 0
    /\ passed' = [t \in Signals |-> IF t = s \/ seen_count[t] = done_count[t]
                                    THEN 0 ELSE passed[t] + 1]
    /\ UNCHANGED <<executing_mythryl_code, seen_count, all_seen,
                   limit_is_zeroed, current, frame, table_vars,
                   kernel_vars, delivered, disturbed>>

\* The handler returned the fate to go on with: the interrupted one, which
\* makes another request at once, the one that reloads the interrupted state;
\* or, as alarm_handler does unless the thread scheduler itself was
\* interrupted, the scheduler's.
return_from_signal_handler ==
    /\ Requested("RETURN_FROM_SIGNAL_HANDLER")
    /\ handler_is_running' = FALSE
    /\ arg' = NoArg
    /\ \/ level' = "resume" /\ UNCHANGED current
       \/ current \in Threads /\ current' = "scheduler" /\ level' = "main"
    /\ at' = "asm_run"
    /\ request' = NoRequest
    /\ UNCHANGED <<executing_mythryl_code, interprocess_signal_pending,
                   seen_count, done_count, all_seen, all_done,
                   posix_signal_rotor, limit_is_zeroed,
                   reg, delta, interrupted, frame, table_vars, kernel_vars,
                   history_vars>>

resume_after_handling_signal ==
    /\ at = "mythryl"
    /\ level = "resume"
    /\ Leave([code |-> "RESUME_AFTER_RUNNING_SIGNAL_HANDLER"])
    /\ UNCHANGED <<hostthread_vars, reg, delta, code_vars, frame, table_vars,
                   kernel_vars, history_vars>>

load_task_from_posthandler_resumption_fate ==
    /\ Requested("RESUME_AFTER_RUNNING_SIGNAL_HANDLER")
    /\ level' = "main"
    /\ interrupted' = interrupted \ {current}
    /\ at' = "asm_run"
    /\ request' = NoRequest
    /\ UNCHANGED <<hostthread_vars, reg, delta, current, frame, table_vars,
                   kernel_vars, history_vars>>

handle_uncaught_exception ==
    /\ Requested("HANDLE_UNCAUGHT_EXCEPTION")
    /\ at' = "died"
    /\ UNCHANGED <<hostthread_vars, request, reg, delta, code_vars, frame,
                   table_vars, kernel_vars, history_vars>>

\* REQUEST_CALL_CFUN cleans the heap first if the limit says so.
CfunReturns(place) ==
    /\ limit_is_zeroed' = FALSE
    /\ at' = place
    /\ request' = NoRequest
    /\ UNCHANGED <<executing_mythryl_code, interprocess_signal_pending,
                   handler_is_running, seen_count, done_count, all_seen,
                   all_done, posix_signal_rotor, arg,
                   reg, delta, code_vars, frame, table_vars, sent,
                   history_vars>>

\* The kernel and sigaddset pass over what cannot be blocked.
set_signal_mask ==
    /\ Requested("set_signal_mask")
    /\ os_mask' = request.masked \ Unblockable
    /\ CfunReturns("asm_run")
    /\ UNCHANGED <<os_state, os_pending>>

\* The kernel forgets a blocked signal that is not to be handled any more.
\* Attempts to change what becomes of a Fixed one are silently ignored.
set_signal_state ==
    /\ Requested("set_signal_state")
    /\ \/ /\ request.signal \in Fixed
          /\ UNCHANGED <<os_state, os_pending>>
       \/ /\ request.signal \notin Fixed
          /\ os_state' = [os_state EXCEPT ![request.signal] = request.state]
          /\ os_pending' = IF request.state = "HANDLER" THEN os_pending
                           ELSE os_pending \ {request.signal}
    /\ CfunReturns("asm_run")
    /\ UNCHANGED os_mask

pause_until_signal ==
    /\ Requested("pause")
    /\ CfunReturns("paused")
    /\ UNCHANGED <<os_mask, os_state, os_pending>>

-----------------------------------------------------------------------------
(* Mythryl code: the root handler and the thread scheduler *)

\* Code of this level or thread is at a probe that succeeds.
Running(l) ==
    /\ at = "mythryl"
    /\ l = IF level = "main" THEN current ELSE level
    /\ ~limit_is_zeroed

root_mythryl_handler_for_interprocess_signals ==
    /\ Running("root_handler")
    /\ IF action[arg.signal] = "HANDLER" /\ mask[arg.signal] = 0
       THEN /\ level' = "handler"
            /\ delivered' = [delivered EXCEPT ![arg.signal] = @ + arg.count]
            /\ UNCHANGED <<at, request>>
       ELSE /\ Leave([code |-> "HANDLE_UNCAUGHT_EXCEPTION"])
            /\ UNCHANGED <<level, delivered>>
    /\ UNCHANGED <<hostthread_vars, reg, delta, current, interrupted, frame,
                   table_vars, kernel_vars, passed, disturbed>>

handler_returns ==
    /\ Running("handler")
    /\ frame["handler"].pc = "run"
    /\ Leave([code |-> "RETURN_FROM_SIGNAL_HANDLER"])
    /\ UNCHANGED <<hostthread_vars, reg, delta, code_vars, frame, table_vars,
                   kernel_vars, history_vars>>

\* The handler's exception fate is the one of last resort.
handler_raises ==
    /\ Running("handler")
    /\ frame["handler"].pc = "run"
    /\ Leave([code |-> "HANDLE_UNCAUGHT_EXCEPTION"])
    /\ UNCHANGED <<hostthread_vars, reg, delta, code_vars, frame, table_vars,
                   kernel_vars, history_vars>>

pause(t) ==
    /\ Running(t)
    /\ frame[t].pc = "run"
    /\ Leave([code |-> "pause"])
    /\ UNCHANGED <<hostthread_vars, reg, delta, code_vars, frame, table_vars,
                   kernel_vars, history_vars>>

\* A thread yields, blocks or ends: the scheduler's code takes over.
yield_to_next_thread(t) ==
    /\ Running(t)
    /\ frame[t].pc = "run"
    /\ current' = "scheduler"
    /\ UNCHANGED <<hostthread_vars, at, request, reg, delta, level,
                   interrupted, frame, table_vars, kernel_vars, history_vars>>

\* The scheduler throws to the fate of the thread that is next.  Where a
\* handler took the processor from it, the fate is the one that was made for
\* that handler.
dispatch_next_thread(t) ==
    /\ Running("scheduler")
    /\ current' = t
    /\ level' = IF t \in interrupted THEN "resume" ELSE "main"
    /\ UNCHANGED <<hostthread_vars, at, request, reg, delta, interrupted,
                   frame, table_vars, kernel_vars, history_vars>>

-----------------------------------------------------------------------------
(* Mythryl code: the operations on the signal table *)

is_masked(s) == mask[s] > 0

\* Is somebody other than l in the middle of an operation?
OthersOperate(l) == \E k \in Levels \ {l} : frame[k].pc # "run"

\* A step of code that runs at level l and leaves the processor to nobody;
\* the first one of an operation notes whether it disturbs the others.
Local(l, f) ==
    /\ frame' = [frame EXCEPT ![l] = f]
    /\ disturbed' = \/ disturbed
                    \/ frame[l].pc = "run" /\ (l = "handler" \/ OthersOperate(l))
    /\ UNCHANGED <<hostthread_vars, at, request, reg, delta, code_vars,
                   kernel_vars, delivered, passed>>

\* mask_signals scans the table.  The system call comes before the table is
\* updated, so that signals already seen are handled while it says unmasked.
M_pc_after_scan(new) == "inc"
pc_after_scan(new) == IF new THEN "mask_os" ELSE "inc"

start_masking(l, ss, change) ==
    LET new == \E s \in ss : ~is_masked(s) IN
    /\ Running(l)
    /\ frame[l].pc = "run"
    /\ l = "handler" => HandlersChangeSignals
    /\ Local(l, [pc |-> pc_after_scan(new), todo |-> ss,
                 masked |-> IF new
                            THEN ss \cup {s \in Signals : is_masked(s)}
                            ELSE {},
                 new |-> FALSE, change |-> change])
    /\ UNCHANGED table_vars

mask_signals(l, ss) ==
    /\ \A s \in ss : mask[s] < MAX_MASK
    /\ start_masking(l, ss, NoChange)

\* set_signal_handler and, if override, override_signal_handler: mask all,
\* change the table, change the kernel's handling, unmask all.  The two differ
\* for an ignored signal only, so the second is tried for those only.
set_signal_handler(l, s, a, override) ==
    /\ override => action[s] = "IGNORE"
    /\ \A t \in Signals : mask[t] <= MAX_MASK
    /\ start_masking(l, Signals, [signal |-> s, action |-> a,
                                  override |-> override])

set_os_mask(l) ==
    LET f == frame[l] IN
    /\ Running(l)
    /\ f.pc \in {"mask_os", "unmask_os"}
    /\ frame' = [frame EXCEPT ![l] =
                     IF f.pc = "mask_os"
                     THEN [f EXCEPT !.pc = "inc", !.masked = {}]
                     ELSE NoFrame]
    /\ Leave([code |-> "set_signal_mask", masked |-> f.masked])
    /\ UNCHANGED <<hostthread_vars, reg, delta, code_vars, table_vars,
                   kernel_vars, history_vars>>

increment_mask(l) ==
    LET f == frame[l]
        s == Min(f.todo)
        rest == f.todo \ {s} IN
    /\ Running(l)
    /\ f.pc = "inc"
    /\ mask' = [mask EXCEPT ![s] = @ + 1]
    /\ Local(l, CASE rest # {} -> [f EXCEPT !.todo = rest]
                  [] rest = {} /\ f.change = NoChange -> NoFrame
                  [] OTHER -> [f EXCEPT !.todo = {}, !.pc = "set"])
    /\ UNCHANGED action

\* Does changing the action from old to c.action need anything done?
nothing_to_do(old, c) ==
    \/ c.override /\ old = "IGNORE"
    \/ old = c.action /\ old # "HANDLER"

change_signal_action(l) ==
    LET f == frame[l]
        c == f.change
        old == action[c.signal]
        next == IF nothing_to_do(old, c) \/ old = c.action THEN "unmask"
                                                           ELSE "state" IN
    /\ Running(l)
    /\ f.pc = "set"
    /\ action' = IF nothing_to_do(old, c) THEN action
                 ELSE [action EXCEPT ![c.signal] = c.action]
    /\ Local(l, [f EXCEPT !.pc = next])
    /\ UNCHANGED mask

change_signal_state(l) ==
    LET f == frame[l] IN
    /\ Running(l)
    /\ f.pc = "state"
    /\ frame' = [frame EXCEPT ![l].pc = "unmask"]
    /\ Leave([code |-> "set_signal_state", signal |-> f.change.signal,
              state |-> f.change.action])
    /\ UNCHANGED <<hostthread_vars, reg, delta, code_vars, table_vars,
                   kernel_vars, history_vars>>

\* The scan of unmask_signals.  Here the table is updated first.
unmask_signals(l, ss) ==
    /\ Running(l)
    /\ \/ frame[l].pc = "run" /\ (l = "handler" => HandlersChangeSignals)
       \/ frame[l].pc = "unmask" /\ ss = Signals
    /\ Local(l, [pc |-> "dec", todo |-> ss,
                 masked |-> {s \in Signals : IF s \in ss THEN mask[s] > 1
                                                         ELSE is_masked(s)},
                 new |-> \E s \in ss : mask[s] <= 1,
                 change |-> NoChange])
    /\ UNCHANGED table_vars

mask_after_decrement(m) == IF m > 0 THEN m - 1 ELSE m

decrement_mask(l) ==
    LET f == frame[l]
        s == Min(f.todo)
        rest == f.todo \ {s} IN
    /\ Running(l)
    /\ f.pc = "dec"
    /\ mask' = [mask EXCEPT ![s] = mask_after_decrement(@)]
    /\ Local(l, CASE rest # {} -> [f EXCEPT !.todo = rest]
                  [] rest = {} /\ f.new ->
                         [f EXCEPT !.todo = {}, !.pc = "unmask_os"]
                  [] OTHER -> NoFrame)
    /\ UNCHANGED action

-----------------------------------------------------------------------------
(* The specification *)

Operation(l) ==
    \/ \E ss \in (SUBSET Signals) \ {{}} : mask_signals(l, ss)
    \/ \E ss \in (SUBSET Signals) \ {{}} : unmask_signals(l, ss)
    \/ \E s \in Signals, a \in Actions, o \in BOOLEAN :
           set_signal_handler(l, s, a, o)
    \/ set_os_mask(l)
    \/ increment_mask(l)
    \/ change_signal_action(l)
    \/ change_signal_state(l)
    \/ decrement_mask(l)

Enter == asm_run \/ asm_test

Eventloop ==
    \/ call_heapcleaner
    \/ begin_choose_signal
    \/ choose_signal
    \/ run_root_handler
    \/ return_from_signal_handler
    \/ load_task_from_posthandler_resumption_fate
    \/ handle_uncaught_exception
    \/ set_signal_mask
    \/ set_signal_state
    \/ pause_until_signal

Next ==
    \/ \E s \in Signals : kill(s) \/ c_signal_handler(s)
    \/ Enter
    \/ set_request
    \/ probe_fails
    \/ Eventloop
    \/ resume_after_handling_signal
    \/ root_mythryl_handler_for_interprocess_signals
    \/ handler_returns
    \/ handler_raises
    \/ \E t \in Threads : \/ pause(t)
                          \/ yield_to_next_thread(t)
                          \/ dispatch_next_thread(t)
    \/ \E l \in Levels : Operation(l)

Spec == Init /\ [][Next]_vars

\* The kernel delivers; the hostthread runs, and Mythryl code reaches its
\* next probe, which fails if the limit is zeroed; handlers return (a heap
\* may be cleaned any number of times meanwhile, hence strong fairness).
Fairness ==
    /\ \A s \in Signals : WF_vars(c_signal_handler(s))
    /\ WF_vars(Enter \/ set_request \/ Eventloop)
    /\ WF_vars(resume_after_handling_signal)
    /\ WF_vars(limit_is_zeroed /\ probe_fails)
    /\ SF_vars(root_mythryl_handler_for_interprocess_signals)
    /\ SF_vars(handler_returns)

FairSpec == Spec /\ Fairness

-----------------------------------------------------------------------------
(* Properties *)

\* Mythryl code that runs outside a handler while a signal waits has a zeroed
\* heap limit, so its next probe leaves to the eventloop: no signal slips
\* between the test in asm_run_mythryl_task and the entry into Mythryl code,
\* or between the decision to leave and set_request.
SignalsAreNoticed ==
    at = "mythryl" /\ ~handler_is_running /\ all_seen # all_done
        => interprocess_signal_pending /\ limit_is_zeroed

\* The number of signals on their way to the handler of s.
InFlight(s) ==
    IF level = "root_handler" /\ arg.signal = s THEN arg.count ELSE 0

\* The sum of a count over all signals.
Total(count) ==
    LET sum[n \in 0 .. N] == IF n = 0 THEN 0 ELSE sum[n - 1] + count[n - 1]
    IN  sum[N]

\* Every signal that c_signal_handler saw is waiting, on its way to the
\* Mythryl-level handler, or was reported to it; none is lost or reported
\* twice although signals arrive during choose_signal.  The totals that
\* asm_run_mythryl_task compares agree with the counts per signal, so
\* choose_signal's loop, which trusts its caller to have seen one, finds one.
NoSignalIsLost ==
    /\ \A s \in Signals : /\ delivered[s] + InFlight(s) = done_count[s]
                          /\ done_count[s] <= seen_count[s]
    /\ all_seen = Total(seen_count)
    /\ all_done = Total(done_count)
    /\ at = "choose" => \E s \in Signals : seen_count[s] # done_count[s]

\* Handlers do not nest: a signal interrupts the main computation only, and
\* while the flag is set it is a handler that runs, from the eventloop's
\* assignment to the handler's return.
HandlersDoNotNest ==
    /\ level \in {"root_handler", "handler"} <=> handler_is_running
    /\ at \in {"choose", "chosen"} => level = "main"

\* The rotor is fair: a signal that waits is passed over at most once for
\* each other signal.
NoSignalIsPassedOver == \A s \in Signals : passed[s] < N

\* The root handler finds a handler for what it is called with, and the signal
\* unmasked: its other branch raises FAIL "inconsistent state", which nobody
\* catches.  mask_signals changes the kernel's mask before the table and
\* unmask_signals after it "to avoid a race condition".
RootHandlerFindsHandler ==
    ~(level = "root_handler" /\ request.code = "HANDLE_UNCAUGHT_EXCEPTION")

\* As long as no operation on the table begins in a handler, where signals
\* that were seen already wait, or while another thread is in the middle of one
\* (nothing in the code sees to either): whatever arrives between its steps and
\* whoever runs then, the root handler finds a handler; and between operations
\* the kernel blocks exactly the signals that the table says are masked, and
\* catches exactly those that have a handler, apart from those that it never
\* blocks or whose disposition is fixed.
KernelAgreesWithTable ==
    ~disturbed =>
        /\ RootHandlerFindsHandler
        /\ ( /\ \A l \in Levels : frame[l].pc = "run"
             /\ request.code \notin {"set_signal_mask", "set_signal_state"} )
           => /\ os_mask = {s \in Signals : is_masked(s)} \ Unblockable
              /\ \A s \in Signals \ Fixed : os_state[s] = action[s]

\* A signal that was seen is handled, unless the program went to sleep in
\* pause() meanwhile or a handler raised an exception.
SeenSignalIsHandled ==
    \A s \in Signals :
        seen_count[s] # done_count[s]
            ~> (level = "handler" /\ arg.signal = s) \/ at \in {"paused", "died"}
=============================================================================
