---------------------- MODULE InterprocessSignalsProofs ----------------------
(***************************************************************************)
(* What is true of InterprocessSignals whatever the number of signals.     *)
(***************************************************************************)
EXTENDS InterprocessSignals, InductionLemmas

-----------------------------------------------------------------------------
(* Totals *)

\* sum is the sequence of the partial sums of count.
PartialSums(sum, count, m) ==
    /\ sum \in [0 .. m -> Nat]
    /\ sum[0] = 0
    /\ \A n \in 1 .. m : sum[n] = sum[n - 1] + count[n - 1]

\* Every count has partial sums, and Total is the last of them.
LEMMA TotalIsASum ==
    ASSUME NEW count \in [Signals -> Nat]
    PROVE  \E sum : PartialSums(sum, count, N) /\ Total(count) = sum[N]
<1>. USE InterprocessSignalsAssumption DEF Signals
<1>. DEFINE S == {m \in 0 .. N : \E sum : PartialSums(sum, count, m)}
            F(g) == [n \in 0 .. N |-> IF n = 0 THEN 0
                                      ELSE g[n - 1] + count[n - 1]]
            t == CHOOSE g : g = F(g)
<1>1. 0 \in S
  <2>1. PartialSums([n \in 0 .. 0 |-> 0], count, 0)
    BY DEF PartialSums
  <2>. QED BY <2>1
<1>2. ASSUME NEW m \in 0 .. N - 1, m \in S PROVE m + 1 \in S
  <2>1. PICK sum : PartialSums(sum, count, m)
    BY <1>2
  <2>2. PartialSums([n \in 0 .. m + 1 |-> IF n = m + 1 THEN sum[m] + count[m]
                                          ELSE sum[n]], count, m + 1)
    BY <2>1 DEF PartialSums
  <2>. QED
    BY <2>2
<1>3. N \in S
  <2>1. N \in Nat /\ N \in 0 .. N
    OBVIOUS
  <2>2. \A m \in 0 .. N - 1 : m \in S => m + 1 \in S
    BY <1>2
  <2>3. 0 .. N \subseteq S
    <3>. HIDE DEF S
    <3>. QED BY <1>1, <2>1, <2>2, SetInduction
  <2>. QED
    BY <2>1, <2>3
<1>4. PICK sum : PartialSums(sum, count, N)
  BY <1>3
<1>5. sum = F(sum)
  BY <1>4 DEF PartialSums
<1>6. t = F(t)
  <2>. HIDE DEF F
  <2>. QED BY <1>5, Zenon
<1>7. Total(count) = t[N]
  BY Zenon DEF Total
<1>8. PartialSums(t, count, N)
  <2>. HIDE DEF t
  <2>. DEFINE W == {n \in 0 .. N : t[n] \in Nat}
  <2>1. 0 \in W
    BY <1>6
  <2>2. \A n \in 0 .. N - 1 : n \in W => n + 1 \in W
    BY <1>6
  <2>3. 0 .. N \subseteq W
    <3>. HIDE DEF W
    <3>. QED BY <2>1, <2>2, SetInduction
  <2>. QED
    BY <1>6, <2>3 DEF PartialSums
<1>. QED
  BY <1>7, <1>8

\* When nothing is counted, the total is 0.
LEMMA TotalOfNothing == Total([s \in Signals |-> 0]) = 0
<1>. USE InterprocessSignalsAssumption DEF Signals
<1>. DEFINE none == [s \in Signals |-> 0]
<1>1. none \in [Signals -> Nat] /\ N \in Nat /\ N \in 0 .. N
  OBVIOUS
<1>2. PICK a : PartialSums(a, none, N) /\ Total(none) = a[N]
  <2>. HIDE DEF none
  <2>. QED BY <1>1, TotalIsASum
<1>. DEFINE W == {n \in 0 .. N : a[n] = 0}
<1>3. 0 \in W
  BY <1>2 DEF PartialSums
<1>4. ASSUME NEW n \in 0 .. N - 1, n \in W PROVE n + 1 \in W
  BY <1>2, <1>4 DEF PartialSums
<1>5. 0 .. N \subseteq W
  <2>. HIDE DEF W
  <2>. QED BY <1>1, <1>3, <1>4, SetInduction
<1>. QED
  BY <1>1, <1>2, <1>5

\* A count that grows by d in one place grows by d in total.
LEMMA TotalOfUpdate ==
    ASSUME NEW count \in [Signals -> Nat], NEW s \in Signals, NEW d \in Nat
    PROVE  Total([count EXCEPT ![s] = @ + d]) = Total(count) + d
<1>. USE InterprocessSignalsAssumption DEF Signals
<1>. DEFINE new == [count EXCEPT ![s] = @ + d]
<1>1. new \in [Signals -> Nat] /\ N \in Nat /\ N \in 0 .. N
  OBVIOUS
<1>2. PICK a : PartialSums(a, count, N) /\ Total(count) = a[N]
  BY TotalIsASum
<1>3. PICK b : PartialSums(b, new, N) /\ Total(new) = b[N]
  <2>. HIDE DEF new
  <2>. QED BY <1>1, TotalIsASum
<1>. DEFINE W == {n \in 0 .. N : b[n] = a[n] + (IF n > s THEN d ELSE 0)}
<1>4. 0 \in W
  BY <1>2, <1>3 DEF PartialSums
<1>5. ASSUME NEW n \in 0 .. N - 1, n \in W PROVE n + 1 \in W
  <2>1. /\ a[n + 1] = a[n] + count[n]
        /\ b[n + 1] = b[n] + new[n]
        /\ a[n] \in Nat /\ b[n] \in Nat
    <3>. HIDE DEF new
    <3>. QED BY <1>2, <1>3 DEF PartialSums
  <2>2. new[n] = IF n = s THEN count[n] + d ELSE count[n]
    OBVIOUS
  <2>. HIDE DEF new
  <2>. QED
    BY <1>5, <2>1, <2>2
<1>6. 0 .. N \subseteq W
  <2>. HIDE DEF W
  <2>. QED BY <1>1, <1>4, <1>5, SetInduction
<1>. QED
  BY <1>1, <1>2, <1>3, <1>6

\* Of two counts the one that is nowhere greater has no greater total, and the
\* same total only if it is the same.
LEMMA TotalIsMonotonic ==
    ASSUME NEW x \in [Signals -> Nat], NEW y \in [Signals -> Nat],
           \A s \in Signals : x[s] <= y[s]
    PROVE  Total(x) <= Total(y) /\ (Total(x) = Total(y) => x = y)
<1>. USE InterprocessSignalsAssumption DEF Signals
<1>1. PICK a : PartialSums(a, x, N) /\ Total(x) = a[N]
  BY TotalIsASum
<1>2. PICK b : PartialSums(b, y, N) /\ Total(y) = b[N]
  BY TotalIsASum
<1>. DEFINE W == {n \in 0 .. N : /\ a[n] <= b[n]
                                 /\ \A s \in 0 .. n - 1 :
                                        x[s] # y[s] => a[n] < b[n]}
<1>3. 0 \in W
  BY <1>1, <1>2 DEF PartialSums
<1>4. ASSUME NEW n \in 0 .. N - 1, n \in W PROVE n + 1 \in W
  <2>1. /\ a[n + 1] = a[n] + x[n] /\ x[n] \in Nat
        /\ b[n + 1] = b[n] + y[n] /\ y[n] \in Nat
        /\ a[n] \in Nat /\ b[n] \in Nat
    BY <1>1, <1>2 DEF PartialSums
  <2>2. a[n + 1] <= b[n + 1]
    BY <1>4, <2>1
  <2>3. ASSUME NEW s \in 0 .. n, x[s] # y[s] PROVE a[n + 1] < b[n + 1]
    <3>1. CASE s = n
      BY <1>4, <2>1, <2>3, <3>1, SMTT(30)
    <3>2. CASE s \in 0 .. n - 1
      BY <1>4, <2>1, <2>3, <3>2, SMTT(30)
    <3>. QED
      BY <3>1, <3>2
  <2>. QED
    BY <2>2, <2>3
<1>5. N \in W
  <2>1. N \in Nat /\ N \in 0 .. N
    OBVIOUS
  <2>. HIDE DEF W
  <2>. QED BY <2>1, <1>3, <1>4, SetInduction
<1>6. a[N] \in Nat /\ b[N] \in Nat
  <2>1. N \in 0 .. N
    OBVIOUS
  <2>. QED
    BY <2>1, <1>1, <1>2 DEF PartialSums
<1>7. ASSUME Total(x) = Total(y), NEW s \in Signals PROVE x[s] = y[s]
  <2>1. ~(a[N] < b[N])
    BY <1>1, <1>2, <1>6, <1>7
  <2>. QED
    BY <1>5, <2>1
<1>. QED
  BY <1>1, <1>2, <1>5, <1>6, <1>7

-----------------------------------------------------------------------------
(* The inductive invariant *)

\* Where the hostthread is says whether it counts as executing Mythryl code
\* and whether a request is outstanding; the request says on whose behalf.
ControlOK ==
    /\ executing_mythryl_code <=> at \in {"asm_test", "mythryl", "set_request"}
    /\ at \in {"asm_run", "asm_test", "mythryl", "paused"} => request = NoRequest
    /\ at \in {"choose", "chosen"} => request.code = "HEAPCLEANING"
    /\ at = "died" => request.code = "HANDLE_UNCAUGHT_EXCEPTION"
    /\ request.code = "HEAPCLEANING" => level # "resume"
    /\ request.code = "RETURN_FROM_SIGNAL_HANDLER" => level = "handler"
    /\ request.code = "RESUME_AFTER_RUNNING_SIGNAL_HANDLER" => level = "resume"
    /\ request.code \in {"set_signal_mask", "set_signal_state"}
           => level \in {"main", "handler"}
    /\ request.code = "pause" => level = "main"

\* A pending signal was seen, is not handled yet and makes the next probe
\* fail; choose_signal runs on account of one.
PendingOK ==
    /\ interprocess_signal_pending => ~handler_is_running /\ all_seen # all_done
    /\ at = "mythryl" /\ interprocess_signal_pending => limit_is_zeroed
    /\ at \in {"choose", "chosen"} => interprocess_signal_pending

\* What choose_signal has decided to report has been seen and not reported.
ChoiceOK ==
    at = "chosen" => /\ delta > 0
                     /\ done_count[reg] + delta <= seen_count[reg]

\* The number of slots that the rotor passes on its way from r to s.
Between(r, s) == IF s > r THEN s - r - 1 ELSE s - r - 1 + N

\* A signal that was passed over so many times has come so much nearer to the
\* rotor.  One that does not wait was not passed over, nor was one that this
\* scan has found not to wait.
RotorOK ==
    /\ \A s \in Signals : passed[s] + Between(posix_signal_rotor, s) < N
    /\ \A s \in Signals : seen_count[s] = done_count[s] => passed[s] = 0
    /\ at = "choose" /\ reg # posix_signal_rotor =>
         \A s \in Signals :
           Between(posix_signal_rotor, s) <= Between(posix_signal_rotor, reg)
             => passed[s] = 0
    /\ at = "chosen" =>
         \A s \in Signals :
           Between(posix_signal_rotor, s) < Between(posix_signal_rotor, reg)
             => passed[s] = 0

\* An operation on the table that scans it has entries left to update; one
\* that changes an action knows which.
FramesOK ==
    \A l \in Levels :
        /\ frame[l].pc \in {"mask_os", "inc", "dec"} => frame[l].todo # {}
        /\ frame[l].pc \in {"set", "state"} => frame[l].change # NoChange

IInv ==
    /\ TypeOK
    /\ ControlOK
    /\ PendingOK
    /\ ChoiceOK
    /\ RotorOK
    /\ FramesOK
    /\ SignalsAreNoticed
    /\ NoSignalIsLost
    /\ HandlersDoNotNest

-----------------------------------------------------------------------------
(* The table and the kernel *)

Masked == {s \in Signals : is_masked(s)}

\* What the kernel blocks and catches once the outstanding request is served.
mask_to_be == IF request.code = "set_signal_mask"
              THEN request.masked \ Unblockable ELSE os_mask
state_to_be(s) ==
    IF request.code = "set_signal_state" /\ request.signal = s /\ s \notin Fixed
    THEN request.state ELSE os_state[s]

\* How the table and the kernel differ at each point of an operation by l.
FrameOK(l) ==
    LET f == frame[l]
        all_masked == Masked = Signals /\ mask_to_be = Signals \ Unblockable
        states_agree == \A s \in Signals \ Fixed : state_to_be(s) = action[s] IN
    /\ f.pc # "state" => states_agree
    /\ f.pc = "run" => mask_to_be = Masked \ Unblockable
    /\ f.pc = "mask_os" =>
         /\ os_mask = Masked \ Unblockable
         /\ request.code # "set_signal_mask"
         /\ f.masked = Masked \cup f.todo
    /\ f.pc = "inc" => mask_to_be = (Masked \cup f.todo) \ Unblockable
    /\ f.pc \in {"mask_os", "inc"} /\ f.change # NoChange =>
         Signals \subseteq Masked \cup f.todo
    /\ f.pc \in {"set", "state", "unmask"} => all_masked
    /\ f.pc = "state" =>
         /\ action[f.change.signal] = f.change.action
         /\ \A s \in Signals \ ({f.change.signal} \cup Fixed) :
                state_to_be(s) = action[s]
    /\ f.pc = "dec" =>
         /\ Masked \ Unblockable \subseteq mask_to_be
         /\ f.masked = {s \in Signals : IF s \in f.todo THEN mask[s] > 1
                                                        ELSE is_masked(s)}
         /\ ~f.new => mask_to_be = f.masked \ Unblockable
    /\ f.pc = "unmask_os" => /\ f.masked = Masked
                             /\ Masked \ Unblockable \subseteq mask_to_be

\* One thread at most is in an operation, and only it makes them differ.
TableOK ==
    \E l \in Threads : /\ FrameOK(l)
                       /\ \A k \in Levels \ {l} : frame[k].pc = "run"

\* What the kernel may deliver now, or has delivered and nobody has handled,
\* has a handler and is not masked according to the table.
DeliveryOK ==
    /\ os_pending \subseteq {s \in Signals : os_state[s] = "HANDLER"}
    /\ \A s \in Fixed : os_state[s] = "DEFAULT"
    /\ \A s \in Signals \ (os_mask \cup Fixed) :
         mask[s] = 0 /\ os_state[s] = action[s]
    /\ \A s \in Signals :
         seen_count[s] # done_count[s] \/ (level = "root_handler" /\ arg.signal = s)
           => mask[s] = 0 /\ action[s] = "HANDLER"
    /\ RootHandlerFindsHandler

\* An operation that begins in a handler, or while another is in progress,
\* leaves none of this true.
KernelInv == IInv /\ (~disturbed => TableOK /\ DeliveryOK)

-----------------------------------------------------------------------------
(* The operations on the table *)

\* A nonempty set of signals has a least one.
LEMMA MinIsMember ==
    ASSUME NEW ss \in SUBSET Signals, ss # {}
    PROVE  Min(ss) \in ss
<1>1. ss \in SUBSET Nat
  BY InterprocessSignalsAssumption DEF Signals
<1>2. \E s \in ss : \A t \in ss : s <= t
  BY <1>1, LeastNatural
<1>. QED
  BY <1>2, Zenon DEF Min

\* Whose code is at a probe that succeeds.
LEMMA WhoRuns ==
    ASSUME TypeOK, NEW l, Running(l)
    PROVE  /\ at = "mythryl" /\ ~limit_is_zeroed
           /\ l \in Threads \cup {"scheduler"} => level = "main" /\ current = l
           /\ l \in {"handler", "root_handler"} => level = l
  BY InterprocessSignalsAssumption DEF Running, TypeOK

\* What an operation on the table leaves alone but for its request.
OperationLeaves ==
    /\ UNCHANGED <<hostthread_vars, reg, delta, code_vars, kernel_vars,
                   delivered, passed>>
    /\ disturbed => disturbed'
    /\ disturbed \in BOOLEAN => disturbed' \in BOOLEAN

\* An operation runs at a probe that succeeds and changes nothing but the
\* table and its frame; or it leaves with a request to the kernel.  One that
\* begins in a handler, or while another is in progress, disturbs.
LEMMA OperationEffect ==
    ASSUME NEW l \in Levels, Operation(l)
    PROVE  /\ Running(l)
           /\ OperationLeaves
           /\ \/ UNCHANGED <<at, request>>
              \/ /\ at' = "set_request"
                 /\ request'.code \in {"set_signal_mask", "set_signal_state"}
           /\ ~disturbed' /\ frame[l].pc = "run" =>
                  l # "handler" /\ ~OthersOperate(l)
<1>1. ASSUME NEW f, Local(l, f)
      PROVE  /\ OperationLeaves
             /\ UNCHANGED <<at, request>>
             /\ ~disturbed' /\ frame[l].pc = "run" =>
                    l # "handler" /\ ~OthersOperate(l)
  BY <1>1 DEF Local, OperationLeaves
<1>. DEFINE Conclusion ==
              /\ Running(l)
              /\ OperationLeaves
              /\ UNCHANGED <<at, request>>
              /\ ~disturbed' /\ frame[l].pc = "run" =>
                     l # "handler" /\ ~OthersOperate(l)
<1>2. ASSUME NEW ss, mask_signals(l, ss) PROVE Conclusion
  BY <1>1, <1>2 DEF mask_signals, start_masking
<1>3. ASSUME NEW ss, unmask_signals(l, ss) PROVE Conclusion
  BY <1>1, <1>3 DEF unmask_signals
<1>4. ASSUME NEW s, NEW a, NEW o, set_signal_handler(l, s, a, o)
      PROVE  Conclusion
  BY <1>1, <1>4 DEF set_signal_handler, start_masking
<1>5. CASE increment_mask(l)
  BY <1>1, <1>5 DEF increment_mask
<1>6. CASE decrement_mask(l)
  BY <1>1, <1>6 DEF decrement_mask
<1>7. CASE change_signal_action(l)
  BY <1>1, <1>7 DEF change_signal_action
<1>8. CASE set_os_mask(l) \/ change_signal_state(l)
  BY <1>8 DEF set_os_mask, change_signal_state, Leave, OperationLeaves,
     history_vars
<1>. QED
  BY <1>2, <1>3, <1>4, <1>5, <1>6, <1>7, <1>8 DEF Operation

\* The same, seen from whoever was interrupted or not: an operation is by the
\* handler or by the thread that runs.
LEMMA OperationLevel ==
    ASSUME TypeOK, NEW l \in Levels, Operation(l)
    PROVE  /\ at = "mythryl" /\ ~limit_is_zeroed
           /\ level = IF l = "handler" THEN "handler" ELSE "main"
  BY OperationEffect, WhoRuns DEF Levels

-----------------------------------------------------------------------------
(* Types *)

\* What a frame may be.
LEMMA FrameFields ==
    ASSUME TypeOK, NEW l \in Levels
    PROVE  /\ frame[l] \in Frames
           /\ frame[l].todo \in SUBSET Signals
           /\ frame[l].masked \in SUBSET Signals
           /\ frame[l].change \in Changes
           /\ frame[l].new \in BOOLEAN
  BY DEF TypeOK, Frames

\* A frame other than NoChange's names a signal and an action.
LEMMA ChangeFields ==
    ASSUME NEW c \in Changes, c # NoChange
    PROVE  c.signal \in Signals /\ c.action \in Actions
  BY DEF Changes

\* The frame of code that is in no operation is a frame.
LEMMA NoFrameType == NoFrame \in Frames /\ NoChange \in Changes
  BY DEF NoFrame, Frames, Changes

\* An operation on the table keeps the types of the table and of the frames,
\* and makes well-formed requests.
LEMMA OperationTypes ==
    ASSUME IInv, NEW l \in Levels, Operation(l)
    PROVE  /\ frame' \in [Levels -> Frames]
           /\ FramesOK'
           /\ mask' \in [Signals -> Nat]
           /\ action' \in [Signals -> Actions]
           /\ request' \in Requests
<1>. DEFINE f == frame[l]
<1>1. /\ frame \in [Levels -> Frames] /\ mask \in [Signals -> Nat]
      /\ action \in [Signals -> Actions] /\ request \in Requests
      /\ f \in Frames /\ f.todo \in SUBSET Signals
      /\ f.masked \in SUBSET Signals /\ f.change \in Changes /\ f.new \in BOOLEAN
      /\ f.pc \in {"mask_os", "inc", "dec"} => f.todo # {}
      /\ f.pc \in {"set", "state"} => f.change # NoChange
  BY FrameFields DEF IInv, TypeOK, FramesOK
<1>2. ASSUME NEW g \in Frames, frame' = [frame EXCEPT ![l] = g],
             g.pc \in {"mask_os", "inc", "dec"} => g.todo # {},
             g.pc \in {"set", "state"} => g.change # NoChange
      PROVE  frame' \in [Levels -> Frames] /\ FramesOK'
  BY <1>1, <1>2 DEF IInv, FramesOK
<1>3. ASSUME NEW ss \in (SUBSET Signals) \ {{}}, NEW c \in Changes,
             start_masking(l, ss, c)
      PROVE  frame' \in [Levels -> Frames] /\ FramesOK'
             /\ UNCHANGED <<table_vars, request>>
  <2>. DEFINE new == \E s \in ss : ~is_masked(s)
              g == [pc |-> pc_after_scan(new), todo |-> ss,
                    masked |-> IF new
                               THEN ss \cup {s \in Signals : is_masked(s)}
                               ELSE {},
                    new |-> FALSE, change |-> c]
  <2>1. g \in Frames
    BY DEF Frames, pc_after_scan
  <2>2. frame' = [frame EXCEPT ![l] = g] /\ UNCHANGED <<table_vars, request>>
    BY <1>3 DEF start_masking, Local
  <2>3. g.todo # {} /\ g.pc \notin {"set", "state"}
    BY DEF pc_after_scan
  <2>. HIDE DEF g
  <2>. QED
    BY <1>2, <2>1, <2>2, <2>3
<1>4. ASSUME NEW ss \in (SUBSET Signals) \ {{}}, mask_signals(l, ss)
      PROVE  frame' \in [Levels -> Frames] /\ FramesOK'
             /\ UNCHANGED <<table_vars, request>>
  BY <1>3, <1>4, NoFrameType DEF mask_signals
<1>5. ASSUME NEW s \in Signals, NEW a \in Actions, NEW o \in BOOLEAN,
             set_signal_handler(l, s, a, o)
      PROVE  frame' \in [Levels -> Frames] /\ FramesOK'
             /\ UNCHANGED <<table_vars, request>>
  <2>1. [signal |-> s, action |-> a, override |-> o] \in Changes
    BY DEF Changes
  <2>2. Signals \in (SUBSET Signals) \ {{}}
    OBVIOUS
  <2>. QED
    BY <1>3, <1>5, <2>1, <2>2 DEF set_signal_handler
<1>6. ASSUME NEW ss \in (SUBSET Signals) \ {{}}, unmask_signals(l, ss)
      PROVE  frame' \in [Levels -> Frames] /\ FramesOK'
             /\ UNCHANGED <<table_vars, request>>
  <2>. DEFINE g == [pc |-> "dec", todo |-> ss,
                    masked |-> {s \in Signals : IF s \in ss THEN mask[s] > 1
                                                            ELSE is_masked(s)},
                    new |-> \E s \in ss : mask[s] <= 1,
                    change |-> NoChange]
  <2>1. g \in Frames
    BY NoFrameType DEF Frames
  <2>2. frame' = [frame EXCEPT ![l] = g] /\ UNCHANGED <<table_vars, request>>
    BY <1>6 DEF unmask_signals, Local
  <2>3. g.todo # {} /\ g.pc = "dec"
    OBVIOUS
  <2>. HIDE DEF g
  <2>. QED
    BY <1>2, <2>1, <2>2, <2>3
<1>7. CASE set_os_mask(l)
  <2>. DEFINE g == IF f.pc = "mask_os" THEN [f EXCEPT !.pc = "inc", !.masked = {}]
                                       ELSE NoFrame
  <2>1. g \in Frames
    BY <1>1, NoFrameType DEF Frames
  <2>2. g.pc \in {"mask_os", "inc", "dec"} => g.todo # {}
    BY <1>1 DEF Frames, NoFrame
  <2>3. g.pc \notin {"set", "state"}
    BY <1>1 DEF Frames, NoFrame
  <2>4. frame' = [frame EXCEPT ![l] = g]
    BY <1>7 DEF set_os_mask
  <2>5. request' \in Requests /\ UNCHANGED <<mask, action>>
    BY <1>1, <1>7 DEF set_os_mask, Leave, Requests, table_vars
  <2>. HIDE DEF g
  <2>. QED
    BY <1>1, <1>2, <2>1, <2>2, <2>3, <2>4, <2>5
<1>8. CASE increment_mask(l)
  <2>. DEFINE s == Min(f.todo)
              rest == f.todo \ {s}
              g == CASE rest # {} -> [f EXCEPT !.todo = rest]
                     [] rest = {} /\ f.change = NoChange -> NoFrame
                     [] OTHER -> [f EXCEPT !.todo = {}, !.pc = "set"]
  <2>1. f.pc = "inc" /\ f.todo # {}
    BY <1>1, <1>8 DEF increment_mask
  <2>2. s \in Signals
    BY <1>1, <2>1, MinIsMember
  <2>3. /\ frame' = [frame EXCEPT ![l] = g]
        /\ mask' = [mask EXCEPT ![s] = @ + 1]
        /\ UNCHANGED <<action, request>>
    BY <1>8 DEF increment_mask, Local
  <2>4. g \in Frames
    BY <1>1, NoFrameType DEF Frames
  <2>5. /\ g.pc \in {"mask_os", "inc", "dec"} => g.todo # {}
        /\ g.pc \in {"set", "state"} => g.change # NoChange
    BY <1>1, <2>1 DEF Frames, NoFrame
  <2>6. mask' \in [Signals -> Nat]
    BY <1>1, <2>2, <2>3
  <2>. HIDE DEF g, s
  <2>. QED
    BY <1>1, <1>2, <2>3, <2>4, <2>5, <2>6
<1>9. CASE change_signal_action(l)
  <2>. DEFINE c == f.change
              old == action[c.signal]
              next == IF nothing_to_do(old, c) \/ old = c.action THEN "unmask"
                                                                 ELSE "state"
              g == [f EXCEPT !.pc = next]
  <2>1. f.pc = "set" /\ c # NoChange
    BY <1>1, <1>9 DEF change_signal_action
  <2>2. c.signal \in Signals /\ c.action \in Actions
    BY <1>1, <2>1, ChangeFields
  <2>3. /\ frame' = [frame EXCEPT ![l] = g]
        /\ action' = IF nothing_to_do(old, c) THEN action
                     ELSE [action EXCEPT ![c.signal] = c.action]
        /\ UNCHANGED <<mask, request>>
    BY <1>9 DEF change_signal_action, Local
  <2>4. g \in Frames /\ g.pc \in {"unmask", "state"} /\ g.change # NoChange
    BY <1>1, <2>1 DEF Frames
  <2>. HIDE DEF g, old, c
  <2>. QED
    BY <1>1, <1>2, <2>2, <2>3, <2>4
<1>10. CASE change_signal_state(l)
  <2>. DEFINE g == [f EXCEPT !.pc = "unmask"]
  <2>1. f.pc = "state" /\ f.change # NoChange
    BY <1>1, <1>10 DEF change_signal_state
  <2>2. f.change.signal \in Signals /\ f.change.action \in Actions
    BY <1>1, <2>1, ChangeFields
  <2>3. /\ frame' = [frame EXCEPT ![l] = g]
        /\ request' = [code |-> "set_signal_state", signal |-> f.change.signal,
                       state |-> f.change.action]
        /\ UNCHANGED <<mask, action>>
    BY <1>1, <1>10 DEF change_signal_state, Leave, table_vars
  <2>4. g \in Frames /\ g.pc = "unmask"
    BY <1>1 DEF Frames
  <2>. HIDE DEF g
  <2>. QED
    BY <1>1, <1>2, <2>2, <2>3, <2>4 DEF Requests
<1>11. CASE decrement_mask(l)
  <2>. DEFINE s == Min(f.todo)
              rest == f.todo \ {s}
              g == CASE rest # {} -> [f EXCEPT !.todo = rest]
                     [] rest = {} /\ f.new ->
                            [f EXCEPT !.todo = {}, !.pc = "unmask_os"]
                     [] OTHER -> NoFrame
  <2>1. f.pc = "dec" /\ f.todo # {}
    BY <1>1, <1>11 DEF decrement_mask
  <2>2. s \in Signals
    BY <1>1, <2>1, MinIsMember
  <2>3. /\ frame' = [frame EXCEPT ![l] = g]
        /\ mask' = [mask EXCEPT ![s] = mask_after_decrement(@)]
        /\ UNCHANGED <<action, request>>
    BY <1>11 DEF decrement_mask, Local
  <2>4. g \in Frames
    BY <1>1, NoFrameType DEF Frames
  <2>5. /\ g.pc \in {"mask_os", "inc", "dec"} => g.todo # {}
        /\ g.pc \notin {"set", "state"}
    BY <1>1, <2>1 DEF Frames, NoFrame
  <2>6. mask' \in [Signals -> Nat]
    BY <1>1, <2>2, <2>3 DEF mask_after_decrement
  <2>. HIDE DEF g, s
  <2>. QED
    BY <1>1, <1>2, <2>3, <2>4, <2>5, <2>6
<1>. QED
  BY <1>1, <1>4, <1>5, <1>6, <1>7, <1>8, <1>9, <1>10, <1>11
     DEF Operation, table_vars

\* The requests without arguments, and the empty argument.
LEMMA RequestTypes ==
    /\ NoRequest \in Requests
    /\ \A c \in {"HEAPCLEANING", "RETURN_FROM_SIGNAL_HANDLER",
                 "RESUME_AFTER_RUNNING_SIGNAL_HANDLER",
                 "HANDLE_UNCAUGHT_EXCEPTION", "pause"} :
           [code |-> c] \in Requests
    /\ 0 \in Signals
    /\ NoArg \in [signal : Signals, count : Nat]
  BY InterprocessSignalsAssumption DEF NoRequest, Requests, NoArg, Signals

\* What the requests to the kernel carry.
LEMMA RequestFields ==
    ASSUME request \in Requests
    PROVE  /\ request.code = "set_signal_mask" =>
                  request.masked \in SUBSET Signals
           /\ request.code = "set_signal_state" =>
                  request.signal \in Signals /\ request.state \in Actions
  BY DEF Requests

\* Wrapping around the signal vector stays within it.
LEMMA SuccessorType == \A s \in Signals : successor(s) \in Signals
  BY InterprocessSignalsAssumption DEF Signals, successor

\* Every step keeps the types.
LEMMA TypeStep ==
    ASSUME IInv, [Next]_vars
    PROVE  TypeOK' /\ FramesOK'
<1>1. TypeOK /\ FramesOK
  BY DEF IInv
<1>2. ASSUME NEW s \in Signals, kill(s) PROVE TypeOK' /\ FramesOK'
  <2>1. s \in Signals /\ sent' \in 0 .. MAX_SENT
    BY <1>2, <1>1, InterprocessSignalsAssumption DEF kill, TypeOK
  <2>2. os_pending' \in SUBSET Signals
    BY <1>2, <1>1 DEF kill, TypeOK
  <2>. QED
    BY <1>2, <1>1, <2>1, <2>2 DEF kill, hostthread_vars, control_vars,
       code_vars, table_vars, history_vars, TypeOK, FramesOK
<1>3. ASSUME NEW s \in Signals, c_signal_handler(s) PROVE TypeOK' /\ FramesOK'
  BY <1>3, <1>1, RequestTypes, RequestFields DEF c_signal_handler, must_trap,
     hostthread_vars, control_vars, code_vars, table_vars, kernel_vars,
     history_vars, TypeOK, FramesOK, Places, Levels
<1>4. CASE asm_run
  BY <1>4, <1>1, RequestTypes, RequestFields DEF asm_run, noted,
     hostthread_vars, control_vars, code_vars, table_vars, kernel_vars,
     history_vars, TypeOK, FramesOK, Places, Levels
<1>5. CASE asm_test
  BY <1>5, <1>1, RequestTypes, RequestFields DEF asm_test, signals_wait,
     hostthread_vars, control_vars, code_vars, table_vars, kernel_vars,
     history_vars, TypeOK, FramesOK, Places, Levels
<1>6. CASE set_request
  BY <1>6, <1>1, RequestTypes, RequestFields DEF set_request, hostthread_vars,
     control_vars, code_vars, table_vars, kernel_vars, history_vars, TypeOK,
     FramesOK, Places, Levels
<1>7. CASE probe_fails
  BY <1>7, <1>1, RequestTypes, RequestFields DEF probe_fails, Leave,
     hostthread_vars, control_vars, code_vars, table_vars, kernel_vars,
     history_vars, TypeOK, FramesOK, Places, Levels
<1>8. CASE call_heapcleaner
  BY <1>8, <1>1, RequestTypes, RequestFields DEF call_heapcleaner, Requested,
     hostthread_vars, control_vars, code_vars, table_vars, kernel_vars,
     history_vars, TypeOK, FramesOK, Places, Levels
<1>9. CASE begin_choose_signal
  BY <1>9, <1>1, RequestTypes, RequestFields DEF begin_choose_signal,
     Requested, scan_start, hostthread_vars, control_vars, code_vars,
     table_vars, kernel_vars, history_vars, TypeOK, FramesOK, Places, Levels
<1>10. CASE choose_signal
  <2>. DEFINE s == successor(reg)
              d == seen_count[s] - done_count[s]
  <2>1. s \in Signals
    BY <1>1, SuccessorType DEF TypeOK
  <2>2. d \in Nat
    BY <1>1, <2>1 DEF TypeOK, IInv, NoSignalIsLost
  <2>3. /\ reg' = s /\ delta' = d /\ at' \in {"choose", "chosen"}
        /\ UNCHANGED <<hostthread_vars, request, code_vars, frame, table_vars,
                       kernel_vars, history_vars>>
    BY <1>10 DEF choose_signal
  <2>. HIDE DEF s, d
  <2>. QED
    BY <1>1, <2>1, <2>2, <2>3 DEF hostthread_vars, code_vars, table_vars,
       kernel_vars, history_vars, TypeOK, FramesOK, Places
<1>11. CASE run_root_handler
  <2>1. /\ reg \in Signals /\ delta \in Nat
        /\ arg' = [signal |-> reg, count |-> delta]
        /\ done_count' = [done_count EXCEPT ![reg] = done_count[reg] + delta]
        /\ passed' \in [Signals -> Nat]
    BY <1>11, <1>1 DEF run_root_handler, done_now, TypeOK
  <2>2. arg' \in [signal : Signals, count : Nat] /\ done_count' \in [Signals -> Nat]
    BY <1>1, <2>1 DEF TypeOK
  <2>3. all_done' \in Nat
    BY <1>11, <1>1, <2>1 DEF run_root_handler, TypeOK
  <2>4. /\ posix_signal_rotor' = reg /\ handler_is_running' = TRUE
        /\ interprocess_signal_pending' = FALSE /\ level' = "root_handler"
        /\ at' = "asm_run" /\ request' = NoRequest /\ reg' = 0 /\ delta' = 0
        /\ interrupted' = interrupted \cup {current}
        /\ UNCHANGED <<executing_mythryl_code, seen_count, all_seen,
                       limit_is_zeroed, current, frame, table_vars,
                       kernel_vars, delivered, disturbed>>
    BY <1>11 DEF run_root_handler
  <2>. QED
    BY <1>1, <2>1, <2>2, <2>3, <2>4, RequestTypes DEF table_vars,
       kernel_vars, TypeOK, FramesOK, Places
<1>12. CASE return_from_signal_handler
  BY <1>12, <1>1, RequestTypes, RequestFields DEF return_from_signal_handler,
     Requested, hostthread_vars, control_vars, code_vars, table_vars,
     kernel_vars, history_vars, TypeOK, FramesOK, Places, Levels
<1>13. CASE load_task_from_posthandler_resumption_fate
  BY <1>13, <1>1, RequestTypes, RequestFields DEF
     load_task_from_posthandler_resumption_fate, Requested, hostthread_vars,
     control_vars, code_vars, table_vars, kernel_vars, history_vars, TypeOK,
     FramesOK, Places, Levels
<1>14. CASE handle_uncaught_exception
  BY <1>14, <1>1, RequestTypes, RequestFields DEF handle_uncaught_exception,
     Requested, hostthread_vars, control_vars, code_vars, table_vars,
     kernel_vars, history_vars, TypeOK, FramesOK, Places, Levels
<1>15. CASE set_signal_mask
  BY <1>15, <1>1, RequestTypes, RequestFields DEF set_signal_mask, Requested,
     CfunReturns, hostthread_vars, control_vars, code_vars, table_vars,
     kernel_vars, history_vars, TypeOK, FramesOK, Places, Levels
<1>16. CASE set_signal_state
  BY <1>16, <1>1, RequestTypes, RequestFields DEF set_signal_state, Requested,
     CfunReturns, hostthread_vars, control_vars, code_vars, table_vars,
     kernel_vars, history_vars, TypeOK, FramesOK, Places, Levels
<1>17. CASE pause_until_signal
  BY <1>17, <1>1, RequestTypes, RequestFields DEF pause_until_signal,
     Requested, CfunReturns, hostthread_vars, control_vars, code_vars,
     table_vars, kernel_vars, history_vars, TypeOK, FramesOK, Places, Levels
<1>18. CASE resume_after_handling_signal
  BY <1>18, <1>1, RequestTypes, RequestFields DEF
     resume_after_handling_signal, Leave, hostthread_vars, control_vars,
     code_vars, table_vars, kernel_vars, history_vars, TypeOK, FramesOK,
     Places, Levels
<1>19. CASE root_mythryl_handler_for_interprocess_signals
  <2>1. arg.signal \in Signals /\ arg.count \in Nat
    BY <1>1 DEF TypeOK
  <2>2. delivered' \in [Signals -> Nat]
    BY <1>19, <1>1, <2>1 DEF
       root_mythryl_handler_for_interprocess_signals, TypeOK
  <2>3. /\ at' \in Places /\ request' \in Requests
        /\ level' \in {"main", "handler", "root_handler", "resume"}
    BY <1>19, <1>1, RequestTypes DEF
       root_mythryl_handler_for_interprocess_signals, Leave, Running,
       TypeOK, Places, Levels
  <2>. QED
    BY <1>19, <1>1, <2>2, <2>3 DEF
       root_mythryl_handler_for_interprocess_signals, hostthread_vars,
       table_vars, kernel_vars, TypeOK, FramesOK
<1>20. CASE handler_returns
  BY <1>20, <1>1, RequestTypes, RequestFields, WhoRuns DEF handler_returns,
     Leave, Running, hostthread_vars, control_vars, code_vars, table_vars,
     kernel_vars, history_vars, TypeOK, FramesOK, Places, Levels
<1>21. CASE handler_raises
  BY <1>21, <1>1, RequestTypes, RequestFields, WhoRuns DEF handler_raises,
     Leave, Running, hostthread_vars, control_vars, code_vars, table_vars,
     kernel_vars, history_vars, TypeOK, FramesOK, Places, Levels
<1>22. ASSUME NEW t \in Threads, pause(t)
      PROVE  TypeOK' /\ FramesOK'
  BY <1>22, <1>1, RequestTypes, RequestFields, WhoRuns DEF pause, Leave,
     Running, hostthread_vars, control_vars, code_vars, table_vars, kernel_vars,
     history_vars, TypeOK, FramesOK, Places, Levels
<1>23. ASSUME NEW t \in Threads, yield_to_next_thread(t)
      PROVE  TypeOK' /\ FramesOK'
  BY <1>23, <1>1, RequestTypes, RequestFields, WhoRuns DEF
     yield_to_next_thread, Running, hostthread_vars, control_vars, code_vars,
     table_vars, kernel_vars, history_vars, TypeOK, FramesOK, Places, Levels
<1>24. ASSUME NEW t \in Threads, dispatch_next_thread(t)
      PROVE  TypeOK' /\ FramesOK'
  BY <1>24, <1>1, RequestTypes, RequestFields, WhoRuns DEF
     dispatch_next_thread, Running, hostthread_vars, control_vars, code_vars,
     table_vars, kernel_vars, history_vars, TypeOK, FramesOK, Places, Levels
<1>25. ASSUME NEW l \in Levels, Operation(l) PROVE TypeOK' /\ FramesOK'
  BY <1>25, <1>1, OperationEffect, OperationTypes DEF TypeOK, Places,
     OperationLeaves, hostthread_vars, code_vars, kernel_vars
<1>26. CASE UNCHANGED vars
  BY <1>26, <1>1, RequestTypes, RequestFields DEF vars, hostthread_vars,
     control_vars, code_vars, table_vars, kernel_vars, history_vars, TypeOK,
     FramesOK, Places, Levels
<1>. QED
  BY <1>2, <1>3, <1>4, <1>5, <1>6, <1>7, <1>8, <1>9, <1>10, <1>11, <1>12,
     <1>13, <1>14, <1>15, <1>16, <1>17, <1>18, <1>19, <1>20, <1>21, <1>22,
     <1>23, <1>24, <1>25, <1>26
     DEF Next, Enter, Eventloop

\* The requests are made and served where they should be.
LEMMA ControlStep ==
    ASSUME IInv, [Next]_vars
    PROVE  ControlOK'
<1>1. TypeOK /\ ControlOK
  BY DEF IInv
<1>2. ASSUME NEW s \in Signals, kill(s) PROVE ControlOK'
  BY <1>2, <1>1 DEF kill, hostthread_vars, control_vars, code_vars, table_vars,
     kernel_vars, history_vars, TypeOK, ControlOK, Places, Levels, NoRequest
<1>3. ASSUME NEW s \in Signals, c_signal_handler(s) PROVE ControlOK'
  BY <1>3, <1>1 DEF c_signal_handler, must_trap, hostthread_vars,
     control_vars, code_vars, table_vars, kernel_vars, history_vars, TypeOK,
     ControlOK, Places, Levels, NoRequest
<1>4. CASE asm_run
  BY <1>4, <1>1 DEF asm_run, noted, hostthread_vars, control_vars, code_vars,
     table_vars, kernel_vars, history_vars, TypeOK, ControlOK, Places,
     Levels, NoRequest
<1>5. CASE asm_test
  BY <1>5, <1>1 DEF asm_test, signals_wait, hostthread_vars, control_vars,
     code_vars, table_vars, kernel_vars, history_vars, TypeOK, ControlOK,
     Places, Levels, NoRequest
<1>6. CASE set_request
  BY <1>6, <1>1 DEF set_request, hostthread_vars, control_vars, code_vars,
     table_vars, kernel_vars, history_vars, TypeOK, ControlOK, Places, Levels,
     NoRequest
<1>7. CASE probe_fails
  BY <1>7, <1>1 DEF probe_fails, Leave, hostthread_vars, control_vars,
     code_vars, table_vars, kernel_vars, history_vars, TypeOK, ControlOK,
     Places, Levels, NoRequest
<1>8. CASE call_heapcleaner
  BY <1>8, <1>1 DEF call_heapcleaner, Requested, hostthread_vars,
     control_vars, code_vars, table_vars, kernel_vars, history_vars, TypeOK,
     ControlOK, Places, Levels, NoRequest
<1>9. CASE begin_choose_signal
  BY <1>9, <1>1 DEF begin_choose_signal, Requested, scan_start,
     hostthread_vars, control_vars, code_vars, table_vars, kernel_vars,
     history_vars, TypeOK, ControlOK, Places, Levels, NoRequest
<1>10. CASE choose_signal
  BY <1>10, <1>1 DEF choose_signal, successor, hostthread_vars,
     control_vars, code_vars, table_vars, kernel_vars, history_vars, TypeOK,
     ControlOK, Places, Levels, NoRequest
<1>11. CASE run_root_handler
  BY <1>11, <1>1 DEF run_root_handler, done_now, hostthread_vars,
     control_vars, code_vars, table_vars, kernel_vars, history_vars, TypeOK,
     ControlOK, Places, Levels, NoRequest
<1>12. CASE return_from_signal_handler
  BY <1>12, <1>1 DEF return_from_signal_handler, Requested, hostthread_vars,
     control_vars, code_vars, table_vars, kernel_vars, history_vars, TypeOK,
     ControlOK, Places, Levels, NoRequest
<1>13. CASE load_task_from_posthandler_resumption_fate
  BY <1>13, <1>1 DEF load_task_from_posthandler_resumption_fate, Requested,
     hostthread_vars, control_vars, code_vars, table_vars, kernel_vars,
     history_vars, TypeOK, ControlOK, Places, Levels, NoRequest
<1>14. CASE handle_uncaught_exception
  BY <1>14, <1>1 DEF handle_uncaught_exception, Requested, hostthread_vars,
     control_vars, code_vars, table_vars, kernel_vars, history_vars, TypeOK,
     ControlOK, Places, Levels, NoRequest
<1>15. CASE set_signal_mask
  BY <1>15, <1>1 DEF set_signal_mask, Requested, CfunReturns, hostthread_vars,
     control_vars, code_vars, table_vars, kernel_vars, history_vars, TypeOK,
     ControlOK, Places, Levels, NoRequest
<1>16. CASE set_signal_state
  BY <1>16, <1>1 DEF set_signal_state, Requested, CfunReturns,
     hostthread_vars, control_vars, code_vars, table_vars, kernel_vars,
     history_vars, TypeOK, ControlOK, Places, Levels, NoRequest
<1>17. CASE pause_until_signal
  BY <1>17, <1>1 DEF pause_until_signal, Requested, CfunReturns,
     hostthread_vars, control_vars, code_vars, table_vars, kernel_vars,
     history_vars, TypeOK, ControlOK, Places, Levels, NoRequest
<1>18. CASE resume_after_handling_signal
  BY <1>18, <1>1 DEF resume_after_handling_signal, Leave, hostthread_vars,
     control_vars, code_vars, table_vars, kernel_vars, history_vars, TypeOK,
     ControlOK, Places, Levels, NoRequest
<1>19. CASE root_mythryl_handler_for_interprocess_signals
  BY <1>19, <1>1, WhoRuns DEF root_mythryl_handler_for_interprocess_signals,
     Leave, Running, hostthread_vars, control_vars, code_vars, table_vars,
     kernel_vars, history_vars, TypeOK, ControlOK, Places, Levels, NoRequest
<1>20. CASE handler_returns
  BY <1>20, <1>1, WhoRuns DEF handler_returns, Leave, Running, hostthread_vars,
     control_vars, code_vars, table_vars, kernel_vars, history_vars, TypeOK,
     ControlOK, Places, Levels, NoRequest
<1>21. CASE handler_raises
  BY <1>21, <1>1, WhoRuns DEF handler_raises, Leave, Running, hostthread_vars,
     control_vars, code_vars, table_vars, kernel_vars, history_vars, TypeOK,
     ControlOK, Places, Levels, NoRequest
<1>22. ASSUME NEW t \in Threads, pause(t)
      PROVE  ControlOK'
  BY <1>22, <1>1, WhoRuns DEF pause, Leave, Running, hostthread_vars,
     control_vars, code_vars, table_vars, kernel_vars, history_vars, TypeOK,
     ControlOK, Places, Levels, NoRequest
<1>23. ASSUME NEW t \in Threads, yield_to_next_thread(t)
      PROVE  ControlOK'
  BY <1>23, <1>1, WhoRuns DEF yield_to_next_thread, Running, hostthread_vars,
     control_vars, code_vars, table_vars, kernel_vars, history_vars, TypeOK,
     ControlOK, Places, Levels, NoRequest
<1>24. ASSUME NEW t \in Threads, dispatch_next_thread(t)
      PROVE  ControlOK'
  BY <1>24, <1>1, WhoRuns DEF dispatch_next_thread, Running, hostthread_vars,
     control_vars, code_vars, table_vars, kernel_vars, history_vars, TypeOK,
     ControlOK, Places, Levels, NoRequest
<1>25. ASSUME NEW l \in Levels, Operation(l) PROVE ControlOK'
  BY <1>25, OperationEffect, OperationLevel, <1>1 DEF OperationLeaves,
     hostthread_vars, control_vars, code_vars, table_vars, kernel_vars,
     history_vars, TypeOK, ControlOK, Places, Levels, NoRequest
<1>26. CASE UNCHANGED vars
  BY <1>26, <1>1 DEF vars, hostthread_vars, control_vars, code_vars, table_vars,
     kernel_vars, history_vars, TypeOK, ControlOK, Places, Levels, NoRequest
<1>. QED
  BY <1>2, <1>3, <1>4, <1>5, <1>6, <1>7, <1>8, <1>9, <1>10, <1>11, <1>12,
     <1>13, <1>14, <1>15, <1>16, <1>17, <1>18, <1>19, <1>20, <1>21, <1>22,
     <1>23, <1>24, <1>25, <1>26
     DEF Next, Enter, Eventloop

-----------------------------------------------------------------------------
(* Signals that were seen *)

\* Nothing is reported that was not seen.
LEMMA DoneIsSeen ==
    ASSUME TypeOK, NoSignalIsLost
    PROVE  /\ all_done <= all_seen
           /\ all_seen # all_done <=> seen_count # done_count
  BY TotalIsMonotonic DEF TypeOK, NoSignalIsLost

\* A pending signal waits, and makes the next probe fail.
LEMMA PendingStep ==
    ASSUME IInv, [Next]_vars
    PROVE  PendingOK' /\ SignalsAreNoticed'
<1>1. TypeOK /\ ControlOK /\ PendingOK /\ SignalsAreNoticed /\ all_done <= all_seen
  BY DoneIsSeen DEF IInv
<1>2. ASSUME NEW s \in Signals, kill(s) PROVE PendingOK' /\ SignalsAreNoticed'
  BY <1>2, <1>1 DEF kill, hostthread_vars, control_vars, code_vars, table_vars,
     kernel_vars, history_vars, TypeOK, ControlOK, PendingOK,
     SignalsAreNoticed, NoRequest
<1>3. ASSUME NEW s \in Signals, c_signal_handler(s) PROVE PendingOK' /\ SignalsAreNoticed'
  BY <1>3, <1>1 DEF c_signal_handler, must_trap, hostthread_vars,
     control_vars, code_vars, table_vars, kernel_vars, history_vars, TypeOK,
     ControlOK, PendingOK, SignalsAreNoticed, NoRequest
<1>4. CASE asm_run
  BY <1>4, <1>1 DEF asm_run, noted, hostthread_vars, control_vars, code_vars,
     table_vars, kernel_vars, history_vars, TypeOK, ControlOK, PendingOK,
     SignalsAreNoticed, NoRequest
<1>5. CASE asm_test
  BY <1>5, <1>1 DEF asm_test, signals_wait, hostthread_vars, control_vars,
     code_vars, table_vars, kernel_vars, history_vars, TypeOK, ControlOK,
     PendingOK, SignalsAreNoticed, NoRequest
<1>6. CASE set_request
  BY <1>6, <1>1 DEF set_request, hostthread_vars, control_vars, code_vars,
     table_vars, kernel_vars, history_vars, TypeOK, ControlOK, PendingOK,
     SignalsAreNoticed, NoRequest
<1>7. CASE probe_fails
  BY <1>7, <1>1 DEF probe_fails, Leave, hostthread_vars, control_vars,
     code_vars, table_vars, kernel_vars, history_vars, TypeOK, ControlOK,
     PendingOK, SignalsAreNoticed, NoRequest
<1>8. CASE call_heapcleaner
  BY <1>8, <1>1 DEF call_heapcleaner, Requested, hostthread_vars,
     control_vars, code_vars, table_vars, kernel_vars, history_vars, TypeOK,
     ControlOK, PendingOK, SignalsAreNoticed, NoRequest
<1>9. CASE begin_choose_signal
  BY <1>9, <1>1 DEF begin_choose_signal, Requested, scan_start,
     hostthread_vars, control_vars, code_vars, table_vars, kernel_vars,
     history_vars, TypeOK, ControlOK, PendingOK, SignalsAreNoticed, NoRequest
<1>10. CASE choose_signal
  BY <1>10, <1>1 DEF choose_signal, successor, hostthread_vars, control_vars,
     code_vars, table_vars, kernel_vars, history_vars, TypeOK, ControlOK,
     PendingOK, SignalsAreNoticed, NoRequest
<1>11. CASE run_root_handler
  BY <1>11, <1>1 DEF run_root_handler, done_now, hostthread_vars,
     control_vars, code_vars, table_vars, kernel_vars, history_vars, TypeOK,
     ControlOK, PendingOK, SignalsAreNoticed, NoRequest
<1>12. CASE return_from_signal_handler
  BY <1>12, <1>1 DEF return_from_signal_handler, Requested, hostthread_vars,
     control_vars, code_vars, table_vars, kernel_vars, history_vars, TypeOK,
     ControlOK, PendingOK, SignalsAreNoticed, NoRequest
<1>13. CASE load_task_from_posthandler_resumption_fate
  BY <1>13, <1>1 DEF load_task_from_posthandler_resumption_fate, Requested,
     hostthread_vars, control_vars, code_vars, table_vars, kernel_vars,
     history_vars, TypeOK, ControlOK, PendingOK, SignalsAreNoticed, NoRequest
<1>14. CASE handle_uncaught_exception
  BY <1>14, <1>1 DEF handle_uncaught_exception, Requested, hostthread_vars,
     control_vars, code_vars, table_vars, kernel_vars, history_vars, TypeOK,
     ControlOK, PendingOK, SignalsAreNoticed, NoRequest
<1>15. CASE set_signal_mask
  BY <1>15, <1>1 DEF set_signal_mask, Requested, CfunReturns, hostthread_vars,
     control_vars, code_vars, table_vars, kernel_vars, history_vars, TypeOK,
     ControlOK, PendingOK, SignalsAreNoticed, NoRequest
<1>16. CASE set_signal_state
  BY <1>16, <1>1 DEF set_signal_state, Requested, CfunReturns,
     hostthread_vars, control_vars, code_vars, table_vars, kernel_vars,
     history_vars, TypeOK, ControlOK, PendingOK, SignalsAreNoticed, NoRequest
<1>17. CASE pause_until_signal
  BY <1>17, <1>1 DEF pause_until_signal, Requested, CfunReturns,
     hostthread_vars, control_vars, code_vars, table_vars, kernel_vars,
     history_vars, TypeOK, ControlOK, PendingOK, SignalsAreNoticed, NoRequest
<1>18. CASE resume_after_handling_signal
  BY <1>18, <1>1 DEF resume_after_handling_signal, Leave, hostthread_vars,
     control_vars, code_vars, table_vars, kernel_vars, history_vars, TypeOK,
     ControlOK, PendingOK, SignalsAreNoticed, NoRequest
<1>19. CASE root_mythryl_handler_for_interprocess_signals
  BY <1>19, <1>1, WhoRuns DEF root_mythryl_handler_for_interprocess_signals,
     Leave, Running, hostthread_vars, control_vars, code_vars, table_vars,
     kernel_vars, history_vars, TypeOK, ControlOK, PendingOK,
     SignalsAreNoticed, NoRequest
<1>20. CASE handler_returns
  BY <1>20, <1>1, WhoRuns DEF handler_returns, Leave, Running,
     hostthread_vars, control_vars, code_vars, table_vars, kernel_vars,
     history_vars, TypeOK, ControlOK, PendingOK, SignalsAreNoticed, NoRequest
<1>21. CASE handler_raises
  BY <1>21, <1>1, WhoRuns DEF handler_raises, Leave, Running, hostthread_vars,
     control_vars, code_vars, table_vars, kernel_vars, history_vars, TypeOK,
     ControlOK, PendingOK, SignalsAreNoticed, NoRequest
<1>22. ASSUME NEW t \in Threads, pause(t)
      PROVE  PendingOK' /\ SignalsAreNoticed'
  BY <1>22, <1>1, WhoRuns DEF pause, Leave, Running, hostthread_vars,
     control_vars, code_vars, table_vars, kernel_vars, history_vars, TypeOK,
     ControlOK, PendingOK, SignalsAreNoticed, NoRequest
<1>23. ASSUME NEW t \in Threads, yield_to_next_thread(t)
      PROVE  PendingOK' /\ SignalsAreNoticed'
  BY <1>23, <1>1, WhoRuns DEF yield_to_next_thread, Running, hostthread_vars,
     control_vars, code_vars, table_vars, kernel_vars, history_vars, TypeOK,
     ControlOK, PendingOK, SignalsAreNoticed, NoRequest
<1>24. ASSUME NEW t \in Threads, dispatch_next_thread(t)
      PROVE  PendingOK' /\ SignalsAreNoticed'
  BY <1>24, <1>1, WhoRuns DEF dispatch_next_thread, Running, hostthread_vars,
     control_vars, code_vars, table_vars, kernel_vars, history_vars, TypeOK,
     ControlOK, PendingOK, SignalsAreNoticed, NoRequest
<1>25. ASSUME NEW l \in Levels, Operation(l) PROVE PendingOK' /\ SignalsAreNoticed'
  BY <1>25, OperationEffect, OperationLevel, <1>1 DEF OperationLeaves,
     hostthread_vars, control_vars, code_vars, table_vars, kernel_vars,
     history_vars, TypeOK, ControlOK, PendingOK, SignalsAreNoticed, NoRequest
<1>26. CASE UNCHANGED vars
  BY <1>26, <1>1 DEF vars, hostthread_vars, control_vars, code_vars, table_vars,
     kernel_vars, history_vars, TypeOK, ControlOK, PendingOK,
     SignalsAreNoticed, NoRequest
<1>. QED
  BY <1>2, <1>3, <1>4, <1>5, <1>6, <1>7, <1>8, <1>9, <1>10, <1>11, <1>12,
     <1>13, <1>14, <1>15, <1>16, <1>17, <1>18, <1>19, <1>20, <1>21, <1>22,
     <1>23, <1>24, <1>25, <1>26
     DEF Next, Enter, Eventloop

\* Handlers do not nest.
LEMMA NestingStep ==
    ASSUME IInv, [Next]_vars
    PROVE  HandlersDoNotNest'
<1>1. TypeOK /\ ControlOK /\ PendingOK /\ HandlersDoNotNest
  BY DEF IInv
<1>2. ASSUME NEW s \in Signals, kill(s) PROVE HandlersDoNotNest'
  BY <1>2, <1>1 DEF kill, hostthread_vars, control_vars, code_vars, table_vars,
     kernel_vars, history_vars, TypeOK, ControlOK, PendingOK,
     HandlersDoNotNest, Levels
<1>3. ASSUME NEW s \in Signals, c_signal_handler(s) PROVE HandlersDoNotNest'
  BY <1>3, <1>1 DEF c_signal_handler, must_trap, hostthread_vars,
     control_vars, code_vars, table_vars, kernel_vars, history_vars, TypeOK,
     ControlOK, PendingOK, HandlersDoNotNest, Levels
<1>4. CASE asm_run
  BY <1>4, <1>1 DEF asm_run, noted, hostthread_vars, control_vars, code_vars,
     table_vars, kernel_vars, history_vars, TypeOK, ControlOK, PendingOK,
     HandlersDoNotNest, Levels
<1>5. CASE asm_test
  BY <1>5, <1>1 DEF asm_test, signals_wait, hostthread_vars, control_vars,
     code_vars, table_vars, kernel_vars, history_vars, TypeOK, ControlOK,
     PendingOK, HandlersDoNotNest, Levels
<1>6. CASE set_request
  BY <1>6, <1>1 DEF set_request, hostthread_vars, control_vars, code_vars,
     table_vars, kernel_vars, history_vars, TypeOK, ControlOK, PendingOK,
     HandlersDoNotNest, Levels
<1>7. CASE probe_fails
  BY <1>7, <1>1 DEF probe_fails, Leave, hostthread_vars, control_vars,
     code_vars, table_vars, kernel_vars, history_vars, TypeOK, ControlOK,
     PendingOK, HandlersDoNotNest, Levels
<1>8. CASE call_heapcleaner
  BY <1>8, <1>1 DEF call_heapcleaner, Requested, hostthread_vars,
     control_vars, code_vars, table_vars, kernel_vars, history_vars, TypeOK,
     ControlOK, PendingOK, HandlersDoNotNest, Levels
<1>9. CASE begin_choose_signal
  BY <1>9, <1>1 DEF begin_choose_signal, Requested, scan_start,
     hostthread_vars, control_vars, code_vars, table_vars, kernel_vars,
     history_vars, TypeOK, ControlOK, PendingOK, HandlersDoNotNest, Levels
<1>10. CASE choose_signal
  BY <1>10, <1>1 DEF choose_signal, successor, hostthread_vars, control_vars,
     code_vars, table_vars, kernel_vars, history_vars, TypeOK, ControlOK,
     PendingOK, HandlersDoNotNest, Levels
<1>11. CASE run_root_handler
  BY <1>11, <1>1 DEF run_root_handler, done_now, hostthread_vars,
     control_vars, code_vars, table_vars, kernel_vars, history_vars, TypeOK,
     ControlOK, PendingOK, HandlersDoNotNest, Levels
<1>12. CASE return_from_signal_handler
  BY <1>12, <1>1 DEF return_from_signal_handler, Requested, hostthread_vars,
     control_vars, code_vars, table_vars, kernel_vars, history_vars, TypeOK,
     ControlOK, PendingOK, HandlersDoNotNest, Levels
<1>13. CASE load_task_from_posthandler_resumption_fate
  BY <1>13, <1>1 DEF load_task_from_posthandler_resumption_fate, Requested,
     hostthread_vars, control_vars, code_vars, table_vars, kernel_vars,
     history_vars, TypeOK, ControlOK, PendingOK, HandlersDoNotNest, Levels
<1>14. CASE handle_uncaught_exception
  BY <1>14, <1>1 DEF handle_uncaught_exception, Requested, hostthread_vars,
     control_vars, code_vars, table_vars, kernel_vars, history_vars, TypeOK,
     ControlOK, PendingOK, HandlersDoNotNest, Levels
<1>15. CASE set_signal_mask
  BY <1>15, <1>1 DEF set_signal_mask, Requested, CfunReturns, hostthread_vars,
     control_vars, code_vars, table_vars, kernel_vars, history_vars, TypeOK,
     ControlOK, PendingOK, HandlersDoNotNest, Levels
<1>16. CASE set_signal_state
  BY <1>16, <1>1 DEF set_signal_state, Requested, CfunReturns,
     hostthread_vars, control_vars, code_vars, table_vars, kernel_vars,
     history_vars, TypeOK, ControlOK, PendingOK, HandlersDoNotNest, Levels
<1>17. CASE pause_until_signal
  BY <1>17, <1>1 DEF pause_until_signal, Requested, CfunReturns,
     hostthread_vars, control_vars, code_vars, table_vars, kernel_vars,
     history_vars, TypeOK, ControlOK, PendingOK, HandlersDoNotNest, Levels
<1>18. CASE resume_after_handling_signal
  BY <1>18, <1>1 DEF resume_after_handling_signal, Leave, hostthread_vars,
     control_vars, code_vars, table_vars, kernel_vars, history_vars, TypeOK,
     ControlOK, PendingOK, HandlersDoNotNest, Levels
<1>19. CASE root_mythryl_handler_for_interprocess_signals
  BY <1>19, <1>1, WhoRuns DEF root_mythryl_handler_for_interprocess_signals,
     Leave, Running, hostthread_vars, control_vars, code_vars, table_vars,
     kernel_vars, history_vars, TypeOK, ControlOK, PendingOK,
     HandlersDoNotNest, Levels
<1>20. CASE handler_returns
  BY <1>20, <1>1, WhoRuns DEF handler_returns, Leave, Running,
     hostthread_vars, control_vars, code_vars, table_vars, kernel_vars,
     history_vars, TypeOK, ControlOK, PendingOK, HandlersDoNotNest, Levels
<1>21. CASE handler_raises
  BY <1>21, <1>1, WhoRuns DEF handler_raises, Leave, Running, hostthread_vars,
     control_vars, code_vars, table_vars, kernel_vars, history_vars, TypeOK,
     ControlOK, PendingOK, HandlersDoNotNest, Levels
<1>22. ASSUME NEW t \in Threads, pause(t)
      PROVE  HandlersDoNotNest'
  BY <1>22, <1>1, WhoRuns DEF pause, Leave, Running, hostthread_vars,
     control_vars, code_vars, table_vars, kernel_vars, history_vars, TypeOK,
     ControlOK, PendingOK, HandlersDoNotNest, Levels
<1>23. ASSUME NEW t \in Threads, yield_to_next_thread(t)
      PROVE  HandlersDoNotNest'
  BY <1>23, <1>1, WhoRuns DEF yield_to_next_thread, Running, hostthread_vars,
     control_vars, code_vars, table_vars, kernel_vars, history_vars, TypeOK,
     ControlOK, PendingOK, HandlersDoNotNest, Levels
<1>24. ASSUME NEW t \in Threads, dispatch_next_thread(t)
      PROVE  HandlersDoNotNest'
  BY <1>24, <1>1, WhoRuns DEF dispatch_next_thread, Running, hostthread_vars,
     control_vars, code_vars, table_vars, kernel_vars, history_vars, TypeOK,
     ControlOK, PendingOK, HandlersDoNotNest, Levels
<1>25. ASSUME NEW l \in Levels, Operation(l) PROVE HandlersDoNotNest'
  BY <1>25, OperationEffect, OperationLevel, <1>1 DEF OperationLeaves,
     hostthread_vars, control_vars, code_vars, table_vars, kernel_vars,
     history_vars, TypeOK, ControlOK, PendingOK, HandlersDoNotNest, Levels
<1>26. CASE UNCHANGED vars
  BY <1>26, <1>1 DEF vars, hostthread_vars, control_vars, code_vars, table_vars,
     kernel_vars, history_vars, TypeOK, ControlOK, PendingOK,
     HandlersDoNotNest, Levels
<1>. QED
  BY <1>2, <1>3, <1>4, <1>5, <1>6, <1>7, <1>8, <1>9, <1>10, <1>11, <1>12,
     <1>13, <1>14, <1>15, <1>16, <1>17, <1>18, <1>19, <1>20, <1>21, <1>22,
     <1>23, <1>24, <1>25, <1>26
     DEF Next, Enter, Eventloop

\* What choose_signal has decided on stays to be reported.
LEMMA ChoiceStep ==
    ASSUME IInv, [Next]_vars
    PROVE  ChoiceOK'
<1>1. TypeOK /\ ChoiceOK
  BY DEF IInv
<1>2. ASSUME NEW s \in Signals, kill(s) PROVE ChoiceOK'
  BY <1>2, <1>1 DEF kill, hostthread_vars, control_vars, code_vars, table_vars,
     kernel_vars, history_vars, TypeOK, ChoiceOK
<1>3. ASSUME NEW s \in Signals, c_signal_handler(s) PROVE ChoiceOK'
  BY <1>3, <1>1 DEF c_signal_handler, must_trap, hostthread_vars,
     control_vars, code_vars, table_vars, kernel_vars, history_vars, TypeOK,
     ChoiceOK
<1>4. CASE asm_run
  BY <1>4, <1>1 DEF asm_run, noted, hostthread_vars, control_vars, code_vars,
     table_vars, kernel_vars, history_vars, TypeOK, ChoiceOK
<1>5. CASE asm_test
  BY <1>5, <1>1 DEF asm_test, signals_wait, hostthread_vars, control_vars,
     code_vars, table_vars, kernel_vars, history_vars, TypeOK, ChoiceOK
<1>6. CASE set_request
  BY <1>6, <1>1 DEF set_request, hostthread_vars, control_vars, code_vars,
     table_vars, kernel_vars, history_vars, TypeOK, ChoiceOK
<1>7. CASE probe_fails
  BY <1>7, <1>1 DEF probe_fails, Leave, hostthread_vars, control_vars,
     code_vars, table_vars, kernel_vars, history_vars, TypeOK, ChoiceOK
<1>8. CASE call_heapcleaner
  BY <1>8, <1>1 DEF call_heapcleaner, Requested, hostthread_vars,
     control_vars, code_vars, table_vars, kernel_vars, history_vars, TypeOK,
     ChoiceOK
<1>9. CASE begin_choose_signal
  BY <1>9, <1>1 DEF begin_choose_signal, Requested, scan_start,
     hostthread_vars, control_vars, code_vars, table_vars, kernel_vars,
     history_vars, TypeOK, ChoiceOK
<1>10. CASE choose_signal
  <2>1. successor(reg) \in Signals
    BY <1>1, SuccessorType DEF TypeOK
  <2>2. /\ reg' = successor(reg) /\ delta' = seen_count[reg'] - done_count[reg']
        /\ at' = "chosen" => delta' # 0
        /\ UNCHANGED <<seen_count, done_count>>
    BY <1>10 DEF choose_signal, hostthread_vars
  <2>. HIDE DEF choose_signal
  <2>. QED
    BY <1>1, <2>1, <2>2 DEF TypeOK, ChoiceOK, IInv, NoSignalIsLost
<1>11. CASE run_root_handler
  BY <1>11, <1>1 DEF run_root_handler, done_now, hostthread_vars,
     control_vars, code_vars, table_vars, kernel_vars, history_vars, TypeOK,
     ChoiceOK
<1>12. CASE return_from_signal_handler
  BY <1>12, <1>1 DEF return_from_signal_handler, Requested, hostthread_vars,
     control_vars, code_vars, table_vars, kernel_vars, history_vars, TypeOK,
     ChoiceOK
<1>13. CASE load_task_from_posthandler_resumption_fate
  BY <1>13, <1>1 DEF load_task_from_posthandler_resumption_fate, Requested,
     hostthread_vars, control_vars, code_vars, table_vars, kernel_vars,
     history_vars, TypeOK, ChoiceOK
<1>14. CASE handle_uncaught_exception
  BY <1>14, <1>1 DEF handle_uncaught_exception, Requested, hostthread_vars,
     control_vars, code_vars, table_vars, kernel_vars, history_vars, TypeOK,
     ChoiceOK
<1>15. CASE set_signal_mask
  BY <1>15, <1>1 DEF set_signal_mask, Requested, CfunReturns, hostthread_vars,
     control_vars, code_vars, table_vars, kernel_vars, history_vars, TypeOK,
     ChoiceOK
<1>16. CASE set_signal_state
  BY <1>16, <1>1 DEF set_signal_state, Requested, CfunReturns,
     hostthread_vars, control_vars, code_vars, table_vars, kernel_vars,
     history_vars, TypeOK, ChoiceOK
<1>17. CASE pause_until_signal
  BY <1>17, <1>1 DEF pause_until_signal, Requested, CfunReturns,
     hostthread_vars, control_vars, code_vars, table_vars, kernel_vars,
     history_vars, TypeOK, ChoiceOK
<1>18. CASE resume_after_handling_signal
  BY <1>18, <1>1 DEF resume_after_handling_signal, Leave, hostthread_vars,
     control_vars, code_vars, table_vars, kernel_vars, history_vars, TypeOK,
     ChoiceOK
<1>19. CASE root_mythryl_handler_for_interprocess_signals
  BY <1>19, <1>1, WhoRuns DEF root_mythryl_handler_for_interprocess_signals,
     Leave, Running, hostthread_vars, control_vars, code_vars, table_vars,
     kernel_vars, history_vars, TypeOK, ChoiceOK
<1>20. CASE handler_returns
  BY <1>20, <1>1, WhoRuns DEF handler_returns, Leave, Running,
     hostthread_vars, control_vars, code_vars, table_vars, kernel_vars,
     history_vars, TypeOK, ChoiceOK
<1>21. CASE handler_raises
  BY <1>21, <1>1, WhoRuns DEF handler_raises, Leave, Running, hostthread_vars,
     control_vars, code_vars, table_vars, kernel_vars, history_vars, TypeOK,
     ChoiceOK
<1>22. ASSUME NEW t \in Threads, pause(t)
      PROVE  ChoiceOK'
  BY <1>22, <1>1, WhoRuns DEF pause, Leave, Running, hostthread_vars,
     control_vars, code_vars, table_vars, kernel_vars, history_vars, TypeOK,
     ChoiceOK
<1>23. ASSUME NEW t \in Threads, yield_to_next_thread(t)
      PROVE  ChoiceOK'
  BY <1>23, <1>1, WhoRuns DEF yield_to_next_thread, Running, hostthread_vars,
     control_vars, code_vars, table_vars, kernel_vars, history_vars, TypeOK,
     ChoiceOK
<1>24. ASSUME NEW t \in Threads, dispatch_next_thread(t)
      PROVE  ChoiceOK'
  BY <1>24, <1>1, WhoRuns DEF dispatch_next_thread, Running, hostthread_vars,
     control_vars, code_vars, table_vars, kernel_vars, history_vars, TypeOK,
     ChoiceOK
<1>25. ASSUME NEW l \in Levels, Operation(l) PROVE ChoiceOK'
  BY <1>25, OperationEffect, OperationLevel, <1>1 DEF OperationLeaves,
     hostthread_vars, control_vars, code_vars, table_vars, kernel_vars,
     history_vars, TypeOK, ChoiceOK
<1>26. CASE UNCHANGED vars
  BY <1>26, <1>1 DEF vars, hostthread_vars, control_vars, code_vars, table_vars,
     kernel_vars, history_vars, TypeOK, ChoiceOK
<1>. QED
  BY <1>2, <1>3, <1>4, <1>5, <1>6, <1>7, <1>8, <1>9, <1>10, <1>11, <1>12,
     <1>13, <1>14, <1>15, <1>16, <1>17, <1>18, <1>19, <1>20, <1>21, <1>22,
     <1>23, <1>24, <1>25, <1>26
     DEF Next, Enter, Eventloop

\* No signal is lost or reported twice.
LEMMA CountsStep ==
    ASSUME IInv, [Next]_vars
    PROVE  NoSignalIsLost'
<1>1. TypeOK /\ ControlOK /\ PendingOK /\ HandlersDoNotNest /\ NoSignalIsLost
  BY DEF IInv
<1>2. ASSUME NEW s \in Signals, kill(s) PROVE NoSignalIsLost'
  BY <1>2, <1>1 DEF kill, hostthread_vars, control_vars, code_vars, table_vars,
     kernel_vars, history_vars, TypeOK, ControlOK, NoSignalIsLost, InFlight
<1>3. ASSUME NEW s \in Signals, c_signal_handler(s) PROVE NoSignalIsLost'
  <2>1. /\ seen_count' = [seen_count EXCEPT ![s] = @ + 1]
        /\ all_seen' = all_seen + 1
        /\ at' = "choose" => at = "choose"
        /\ UNCHANGED <<done_count, all_done, arg, level, delivered>>
    BY <1>3 DEF c_signal_handler, code_vars, history_vars
  <2>2. all_seen' = Total(seen_count')
    <3>1. seen_count \in [Signals -> Nat] /\ 1 \in Nat
      BY <1>1 DEF TypeOK
    <3>2. Total([seen_count EXCEPT ![s] = @ + 1]) = Total(seen_count) + 1
      BY <3>1, TotalOfUpdate
    <3>. QED
      BY <1>1, <2>1, <3>2 DEF NoSignalIsLost
  <2>3. all_done' = Total(done_count')
    BY <1>1, <2>1 DEF NoSignalIsLost
  <2>4. \A t \in Signals : /\ delivered'[t] + InFlight(t)' = done_count'[t]
                           /\ done_count'[t] <= seen_count'[t]
    BY <1>1, <2>1 DEF TypeOK, NoSignalIsLost, InFlight
  <2>5. seen_count'[s] # done_count'[s]
    BY <1>1, <2>1 DEF TypeOK, NoSignalIsLost
  <2>. QED
    BY <2>2, <2>3, <2>4, <2>5 DEF NoSignalIsLost
<1>4. CASE asm_run
  BY <1>4, <1>1 DEF asm_run, noted, hostthread_vars, control_vars, code_vars,
     table_vars, kernel_vars, history_vars, TypeOK, ControlOK,
     NoSignalIsLost, InFlight
<1>5. CASE asm_test
  BY <1>5, <1>1 DEF asm_test, signals_wait, hostthread_vars, control_vars,
     code_vars, table_vars, kernel_vars, history_vars, TypeOK, ControlOK,
     NoSignalIsLost, InFlight
<1>6. CASE set_request
  BY <1>6, <1>1 DEF set_request, hostthread_vars, control_vars, code_vars,
     table_vars, kernel_vars, history_vars, TypeOK, ControlOK, NoSignalIsLost,
     InFlight
<1>7. CASE probe_fails
  BY <1>7, <1>1 DEF probe_fails, Leave, hostthread_vars, control_vars,
     code_vars, table_vars, kernel_vars, history_vars, TypeOK, ControlOK,
     NoSignalIsLost, InFlight
<1>8. CASE call_heapcleaner
  BY <1>8, <1>1 DEF call_heapcleaner, Requested, hostthread_vars,
     control_vars, code_vars, table_vars, kernel_vars, history_vars, TypeOK,
     ControlOK, NoSignalIsLost, InFlight
<1>9. CASE begin_choose_signal
  <2>1. seen_count # done_count
    BY <1>9, <1>1, DoneIsSeen DEF begin_choose_signal, PendingOK
  <2>2. \E s \in Signals : seen_count[s] # done_count[s]
    BY <1>1, <2>1 DEF TypeOK
  <2>. QED
    BY <1>9, <1>1, <2>2 DEF begin_choose_signal, code_vars, history_vars,
       NoSignalIsLost, InFlight
<1>10. CASE choose_signal
  BY <1>10, <1>1 DEF choose_signal, hostthread_vars, code_vars,
     history_vars, NoSignalIsLost, InFlight
<1>11. CASE run_root_handler
  <2>1. /\ reg \in Signals /\ delta \in Nat /\ level = "main"
        /\ done_count[reg] + delta <= seen_count[reg]
    BY <1>11, <1>1 DEF run_root_handler, TypeOK, HandlersDoNotNest, IInv,
       ChoiceOK
  <2>2. /\ done_count' = [done_count EXCEPT ![reg] = @ + delta]
        /\ all_done' = all_done + delta
        /\ arg' = [signal |-> reg, count |-> delta]
        /\ level' = "root_handler" /\ at' = "asm_run"
        /\ UNCHANGED <<seen_count, all_seen, delivered>>
    BY <1>11 DEF run_root_handler, done_now
  <2>3. all_done' = Total(done_count')
    <3>1. done_count \in [Signals -> Nat] /\ reg \in Signals /\ delta \in Nat
      BY <1>1, <2>1 DEF TypeOK
    <3>2. Total([done_count EXCEPT ![reg] = @ + delta]) = Total(done_count) + delta
      BY <3>1, TotalOfUpdate
    <3>. QED
      BY <1>1, <2>2, <3>2 DEF NoSignalIsLost
  <2>4. ASSUME NEW t \in Signals
        PROVE  /\ delivered'[t] + InFlight(t)' = done_count'[t]
               /\ done_count'[t] <= seen_count'[t]
    <3>1. CASE t = reg
      BY <1>1, <2>1, <2>2, <3>1 DEF TypeOK, NoSignalIsLost, InFlight
    <3>2. CASE t # reg
      BY <1>1, <2>1, <2>2, <3>2 DEF TypeOK, NoSignalIsLost, InFlight
    <3>. QED
      BY <3>1, <3>2
  <2>. QED
    BY <1>1, <2>2, <2>3, <2>4 DEF NoSignalIsLost
<1>12. CASE return_from_signal_handler
  BY <1>12, <1>1 DEF return_from_signal_handler, Requested, hostthread_vars,
     control_vars, code_vars, table_vars, kernel_vars, history_vars, TypeOK,
     ControlOK, NoSignalIsLost, InFlight
<1>13. CASE load_task_from_posthandler_resumption_fate
  BY <1>13, <1>1 DEF load_task_from_posthandler_resumption_fate, Requested,
     hostthread_vars, control_vars, code_vars, table_vars, kernel_vars,
     history_vars, TypeOK, ControlOK, NoSignalIsLost, InFlight
<1>14. CASE handle_uncaught_exception
  BY <1>14, <1>1 DEF handle_uncaught_exception, Requested, hostthread_vars,
     control_vars, code_vars, table_vars, kernel_vars, history_vars, TypeOK,
     ControlOK, NoSignalIsLost, InFlight
<1>15. CASE set_signal_mask
  BY <1>15, <1>1 DEF set_signal_mask, Requested, CfunReturns, hostthread_vars,
     control_vars, code_vars, table_vars, kernel_vars, history_vars, TypeOK,
     ControlOK, NoSignalIsLost, InFlight
<1>16. CASE set_signal_state
  BY <1>16, <1>1 DEF set_signal_state, Requested, CfunReturns,
     hostthread_vars, control_vars, code_vars, table_vars, kernel_vars,
     history_vars, TypeOK, ControlOK, NoSignalIsLost, InFlight
<1>17. CASE pause_until_signal
  BY <1>17, <1>1 DEF pause_until_signal, Requested, CfunReturns,
     hostthread_vars, control_vars, code_vars, table_vars, kernel_vars,
     history_vars, TypeOK, ControlOK, NoSignalIsLost, InFlight
<1>18. CASE resume_after_handling_signal
  BY <1>18, <1>1 DEF resume_after_handling_signal, Leave, hostthread_vars,
     control_vars, code_vars, table_vars, kernel_vars, history_vars, TypeOK,
     ControlOK, NoSignalIsLost, InFlight
<1>19. CASE root_mythryl_handler_for_interprocess_signals
  <2>1. arg.signal \in Signals /\ arg.count \in Nat /\ level = "root_handler"
    BY <1>19, <1>1, WhoRuns DEF
       root_mythryl_handler_for_interprocess_signals, TypeOK
  <2>2. /\ at' # "choose"
        /\ UNCHANGED <<seen_count, done_count, all_seen, all_done, arg>>
        /\ \/ /\ level' = "handler"
              /\ delivered' = [delivered EXCEPT ![arg.signal] = @ + arg.count]
           \/ UNCHANGED <<level, delivered>>
    BY <1>19 DEF root_mythryl_handler_for_interprocess_signals, Running,
       Leave, hostthread_vars
  <2>3. ASSUME NEW t \in Signals
        PROVE  delivered'[t] + InFlight(t)' = done_count'[t]
    <3>1. CASE t = arg.signal
      BY <1>1, <2>1, <2>2, <3>1 DEF TypeOK, NoSignalIsLost, InFlight
    <3>2. CASE t # arg.signal
      BY <1>1, <2>1, <2>2, <3>2 DEF TypeOK, NoSignalIsLost, InFlight
    <3>. QED
      BY <3>1, <3>2
  <2>. QED
    BY <1>1, <2>2, <2>3 DEF NoSignalIsLost
<1>20. CASE handler_returns
  BY <1>20, <1>1, WhoRuns DEF handler_returns, Leave, Running,
     hostthread_vars, control_vars, code_vars, table_vars, kernel_vars,
     history_vars, TypeOK, ControlOK, NoSignalIsLost, InFlight
<1>21. CASE handler_raises
  BY <1>21, <1>1, WhoRuns DEF handler_raises, Leave, Running, hostthread_vars,
     control_vars, code_vars, table_vars, kernel_vars, history_vars, TypeOK,
     ControlOK, NoSignalIsLost, InFlight
<1>22. ASSUME NEW t \in Threads, pause(t)
      PROVE  NoSignalIsLost'
  BY <1>22, <1>1, WhoRuns DEF pause, Leave, Running, hostthread_vars,
     control_vars, code_vars, table_vars, kernel_vars, history_vars, TypeOK,
     ControlOK, NoSignalIsLost, InFlight
<1>23. ASSUME NEW t \in Threads, yield_to_next_thread(t)
      PROVE  NoSignalIsLost'
  BY <1>23, <1>1, WhoRuns DEF yield_to_next_thread, Running, hostthread_vars,
     control_vars, code_vars, table_vars, kernel_vars, history_vars, TypeOK,
     ControlOK, NoSignalIsLost, InFlight
<1>24. ASSUME NEW t \in Threads, dispatch_next_thread(t)
      PROVE  NoSignalIsLost'
  BY <1>24, <1>1, WhoRuns DEF dispatch_next_thread, Running, hostthread_vars,
     control_vars, code_vars, table_vars, kernel_vars, history_vars, TypeOK,
     ControlOK, NoSignalIsLost, InFlight
<1>25. ASSUME NEW l \in Levels, Operation(l) PROVE NoSignalIsLost'
  BY <1>25, OperationEffect, OperationLevel, <1>1 DEF OperationLeaves,
     hostthread_vars, control_vars, code_vars, table_vars, kernel_vars,
     history_vars, TypeOK, ControlOK, NoSignalIsLost, InFlight
<1>26. CASE UNCHANGED vars
  BY <1>26, <1>1 DEF vars, hostthread_vars, control_vars, code_vars, table_vars,
     kernel_vars, history_vars, TypeOK, ControlOK, NoSignalIsLost, InFlight
<1>. QED
  BY <1>2, <1>3, <1>4, <1>5, <1>6, <1>7, <1>8, <1>9, <1>10, <1>11, <1>12,
     <1>13, <1>14, <1>15, <1>16, <1>17, <1>18, <1>19, <1>20, <1>21, <1>22,
     <1>23, <1>24, <1>25, <1>26
     DEF Next, Enter, Eventloop

-----------------------------------------------------------------------------
(* The rotor *)

\* Fewer than N slots lie between two slots.
LEMMA BetweenType ==
    ASSUME NEW r \in Signals, NEW s \in Signals
    PROVE  /\ Between(r, s) \in 0 .. N - 1
           /\ Between(r, s) = N - 1 <=> s = r
  BY InterprocessSignalsAssumption DEF Between, Signals

\* The scan comes nearer by one slot.
LEMMA BetweenSuccessor ==
    ASSUME NEW r \in Signals, NEW s \in Signals
    PROVE  /\ s = r => Between(r, successor(s)) = 0
           /\ s # r => Between(r, successor(s)) = Between(r, s) + 1
  BY InterprocessSignalsAssumption DEF Between, Signals, successor

\* When the rotor moves on from r to s, what lies beyond s is nearer.
LEMMA BetweenAdvance ==
    ASSUME NEW r \in Signals, NEW s \in Signals, NEW t \in Signals,
           Between(r, s) < Between(r, t)
    PROVE  Between(s, t) < Between(r, t)
  BY InterprocessSignalsAssumption DEF Between, Signals

\* No two slots are as far away.
LEMMA BetweenInjective ==
    ASSUME NEW r \in Signals, NEW s \in Signals, NEW t \in Signals,
           Between(r, s) = Between(r, t)
    PROVE  s = t
  BY InterprocessSignalsAssumption DEF Between, Signals

\* A signal that is passed over has come nearer to the rotor.
LEMMA RotorStep ==
    ASSUME IInv, [Next]_vars
    PROVE  RotorOK'
<1>1. TypeOK /\ ControlOK /\ RotorOK
  BY DEF IInv
<1>2. ASSUME NEW s \in Signals, kill(s) PROVE RotorOK'
  BY <1>2, <1>1 DEF kill, hostthread_vars, control_vars, code_vars, table_vars,
     kernel_vars, history_vars, TypeOK, RotorOK, Between
<1>3. ASSUME NEW s \in Signals, c_signal_handler(s) PROVE RotorOK'
  <2>1. /\ seen_count' = [seen_count EXCEPT ![s] = @ + 1]
        /\ at' \in {"choose", "chosen"} => at' = at
        /\ UNCHANGED <<done_count, posix_signal_rotor, reg, passed>>
    BY <1>3 DEF c_signal_handler, code_vars, history_vars
  <2>2. \A t \in Signals : seen_count'[t] = done_count'[t]
                             => seen_count[t] = done_count[t]
    BY <1>1, <2>1 DEF TypeOK, IInv, NoSignalIsLost
  <2>. QED
    BY <1>1, <2>1, <2>2 DEF RotorOK, Between
<1>4. CASE asm_run
  BY <1>4, <1>1 DEF asm_run, noted, hostthread_vars, control_vars, code_vars,
     table_vars, kernel_vars, history_vars, TypeOK, RotorOK, Between
<1>5. CASE asm_test
  BY <1>5, <1>1 DEF asm_test, signals_wait, hostthread_vars, control_vars,
     code_vars, table_vars, kernel_vars, history_vars, TypeOK, RotorOK,
     Between
<1>6. CASE set_request
  BY <1>6, <1>1 DEF set_request, hostthread_vars, control_vars, code_vars,
     table_vars, kernel_vars, history_vars, TypeOK, RotorOK, Between
<1>7. CASE probe_fails
  BY <1>7, <1>1 DEF probe_fails, Leave, hostthread_vars, control_vars,
     code_vars, table_vars, kernel_vars, history_vars, TypeOK, RotorOK,
     Between
<1>8. CASE call_heapcleaner
  BY <1>8, <1>1 DEF call_heapcleaner, Requested, hostthread_vars,
     control_vars, code_vars, table_vars, kernel_vars, history_vars, TypeOK,
     RotorOK, Between
<1>9. CASE begin_choose_signal
  BY <1>9, <1>1 DEF begin_choose_signal, scan_start, history_vars, RotorOK,
     Between
<1>10. CASE choose_signal
  <2>. DEFINE r == posix_signal_rotor
              s == successor(reg)
  <2>1. r \in Signals /\ reg \in Signals /\ s \in Signals
    BY <1>1, SuccessorType DEF TypeOK
  <2>2. /\ at = "choose" /\ reg' = s
        /\ (at' = "choose" /\ seen_count[s] = done_count[s]) \/ at' = "chosen"
        /\ UNCHANGED <<seen_count, done_count, posix_signal_rotor, passed>>
    BY <1>10, <1>1, <2>1 DEF choose_signal, hostthread_vars, history_vars,
       TypeOK
  <2>3. ASSUME NEW t \in Signals, Between(r, t) < Between(r, s)
        PROVE  passed[t] = 0
    <3>1. reg # r /\ Between(r, t) <= Between(r, reg)
      BY <2>1, <2>3, BetweenSuccessor, BetweenType
    <3>. QED
      BY <1>1, <2>2, <3>1 DEF RotorOK
  <2>4. ASSUME seen_count[s] = done_count[s],
               NEW t \in Signals, Between(r, t) <= Between(r, s)
        PROVE  passed[t] = 0
    <3>1. CASE t = s
      BY <1>1, <2>4, <3>1 DEF RotorOK
    <3>2. CASE t # s
      BY <2>1, <2>3, <2>4, <3>2, BetweenType, BetweenInjective
    <3>. QED
      BY <3>1, <3>2
  <2>. QED
    BY <1>1, <2>2, <2>3, <2>4 DEF RotorOK, Between
<1>11. CASE run_root_handler
  <2>. DEFINE r == posix_signal_rotor
              s == reg
  <2>1. /\ r \in Signals /\ s \in Signals /\ N \in Nat
        /\ \A t \in Signals : passed[t] \in Nat
    BY <1>1, InterprocessSignalsAssumption DEF TypeOK
  <2>2. /\ at = "chosen" /\ at' = "asm_run" /\ posix_signal_rotor' = s
        /\ \A t \in Signals :
             passed'[t] = IF t = s \/ seen_count[t] = done_count[t]
                          THEN 0 ELSE passed[t] + 1
        /\ \A t \in Signals \ {s} : done_count'[t] = done_count[t]
        /\ UNCHANGED seen_count
    BY <1>11, <1>1 DEF run_root_handler, TypeOK
  <2>3. ASSUME NEW t \in Signals PROVE passed'[t] + Between(s, t) < N
    <3>1. Between(s, t) \in 0 .. N - 1 /\ Between(r, t) \in 0 .. N - 1
          /\ Between(r, s) \in 0 .. N - 1
      BY <2>1, BetweenType
    <3>2. CASE passed'[t] = 0
      BY <2>1, <3>1, <3>2
    <3>3. CASE t # s /\ passed'[t] = passed[t] + 1
      <4>1. Between(s, t) < N - 1
        BY <2>1, <3>1, <3>3, BetweenType
      <4>2. CASE Between(r, t) < Between(r, s)
        BY <1>1, <2>1, <2>2, <3>1, <3>3, <4>1, <4>2 DEF RotorOK
      <4>3. CASE Between(r, s) < Between(r, t)
        <5>1. Between(s, t) < Between(r, t)
          BY <2>1, <4>3, BetweenAdvance
        <5>2. passed[t] + Between(r, t) < N
          BY <1>1 DEF RotorOK
        <5>. QED
          BY <2>1, <3>1, <3>3, <5>1, <5>2
      <4>. QED
        BY <2>1, <3>1, <3>3, <4>2, <4>3, BetweenInjective
    <3>. QED
      BY <2>2, <3>2, <3>3
  <2>4. \A t \in Signals : seen_count'[t] = done_count'[t] => passed'[t] = 0
    BY <2>2
  <2>. QED
    BY <2>2, <2>3, <2>4 DEF RotorOK, Between
<1>12. CASE return_from_signal_handler
  BY <1>12, <1>1 DEF return_from_signal_handler, Requested, hostthread_vars,
     control_vars, code_vars, table_vars, kernel_vars, history_vars, TypeOK,
     RotorOK, Between
<1>13. CASE load_task_from_posthandler_resumption_fate
  BY <1>13, <1>1 DEF load_task_from_posthandler_resumption_fate, Requested,
     hostthread_vars, control_vars, code_vars, table_vars, kernel_vars,
     history_vars, TypeOK, RotorOK, Between
<1>14. CASE handle_uncaught_exception
  BY <1>14, <1>1 DEF handle_uncaught_exception, Requested, hostthread_vars,
     control_vars, code_vars, table_vars, kernel_vars, history_vars, TypeOK,
     RotorOK, Between
<1>15. CASE set_signal_mask
  BY <1>15, <1>1 DEF set_signal_mask, Requested, CfunReturns, hostthread_vars,
     control_vars, code_vars, table_vars, kernel_vars, history_vars, TypeOK,
     RotorOK, Between
<1>16. CASE set_signal_state
  BY <1>16, <1>1 DEF set_signal_state, Requested, CfunReturns,
     hostthread_vars, control_vars, code_vars, table_vars, kernel_vars,
     history_vars, TypeOK, RotorOK, Between
<1>17. CASE pause_until_signal
  BY <1>17, <1>1 DEF pause_until_signal, Requested, CfunReturns,
     hostthread_vars, control_vars, code_vars, table_vars, kernel_vars,
     history_vars, TypeOK, RotorOK, Between
<1>18. CASE resume_after_handling_signal
  BY <1>18, <1>1 DEF resume_after_handling_signal, Leave, hostthread_vars,
     control_vars, code_vars, table_vars, kernel_vars, history_vars, TypeOK,
     RotorOK, Between
<1>19. CASE root_mythryl_handler_for_interprocess_signals
  BY <1>19, <1>1, WhoRuns DEF root_mythryl_handler_for_interprocess_signals,
     Leave, Running, hostthread_vars, control_vars, code_vars, table_vars,
     kernel_vars, history_vars, TypeOK, RotorOK, Between
<1>20. CASE handler_returns
  BY <1>20, <1>1, WhoRuns DEF handler_returns, Leave, Running,
     hostthread_vars, control_vars, code_vars, table_vars, kernel_vars,
     history_vars, TypeOK, RotorOK, Between
<1>21. CASE handler_raises
  BY <1>21, <1>1, WhoRuns DEF handler_raises, Leave, Running, hostthread_vars,
     control_vars, code_vars, table_vars, kernel_vars, history_vars, TypeOK,
     RotorOK, Between
<1>22. ASSUME NEW t \in Threads, pause(t)
      PROVE  RotorOK'
  BY <1>22, <1>1, WhoRuns DEF pause, Leave, Running, hostthread_vars,
     control_vars, code_vars, table_vars, kernel_vars, history_vars, TypeOK,
     RotorOK, Between
<1>23. ASSUME NEW t \in Threads, yield_to_next_thread(t)
      PROVE  RotorOK'
  BY <1>23, <1>1, WhoRuns DEF yield_to_next_thread, Running, hostthread_vars,
     control_vars, code_vars, table_vars, kernel_vars, history_vars, TypeOK,
     RotorOK, Between
<1>24. ASSUME NEW t \in Threads, dispatch_next_thread(t)
      PROVE  RotorOK'
  BY <1>24, <1>1, WhoRuns DEF dispatch_next_thread, Running, hostthread_vars,
     control_vars, code_vars, table_vars, kernel_vars, history_vars, TypeOK,
     RotorOK, Between
<1>25. ASSUME NEW l \in Levels, Operation(l) PROVE RotorOK'
  BY <1>25, OperationEffect, OperationLevel, <1>1 DEF OperationLeaves,
     hostthread_vars, control_vars, code_vars, table_vars, kernel_vars,
     history_vars, TypeOK, RotorOK, Between
<1>26. CASE UNCHANGED vars
  BY <1>26, <1>1 DEF vars, hostthread_vars, control_vars, code_vars, table_vars,
     kernel_vars, history_vars, TypeOK, RotorOK, Between
<1>. QED
  BY <1>2, <1>3, <1>4, <1>5, <1>6, <1>7, <1>8, <1>9, <1>10, <1>11, <1>12,
     <1>13, <1>14, <1>15, <1>16, <1>17, <1>18, <1>19, <1>20, <1>21, <1>22,
     <1>23, <1>24, <1>25, <1>26
     DEF Next, Enter, Eventloop

-----------------------------------------------------------------------------
(* The theorems that hold whatever handlers do *)

\* The initial states satisfy the invariant.
LEMMA InitIInv == Init => IInv
<1>. SUFFICES ASSUME Init PROVE IInv
  OBVIOUS
<1>. USE InterprocessSignalsAssumption
<1>1. TypeOK
  <2>1. 0 \in Signals /\ 0 \in 0 .. MAX_SENT
    BY DEF Signals
  <2>. QED
    BY <2>1, RequestTypes, NoFrameType DEF Init, TypeOK, Places, Levels,
       Actions
<1>2. NoSignalIsLost
  BY TotalOfNothing DEF Init, NoSignalIsLost, InFlight
<1>3. RotorOK
  BY <1>1, BetweenType DEF Init, RotorOK, TypeOK
<1>4. FramesOK
  BY DEF Init, FramesOK, NoFrame
<1>5. ControlOK /\ PendingOK /\ ChoiceOK /\ SignalsAreNoticed /\ HandlersDoNotNest
  BY DEF Init, ControlOK, PendingOK, ChoiceOK, SignalsAreNoticed,
     HandlersDoNotNest, NoRequest
<1>. QED
  BY <1>1, <1>2, <1>3, <1>4, <1>5 DEF IInv

\* Every step keeps the invariant.
LEMMA StepIInv == IInv /\ [Next]_vars => IInv'
  BY TypeStep, ControlStep, PendingStep, NestingStep, ChoiceStep,
     CountsStep, RotorStep DEF IInv

\* The inductive invariant holds in every state.
THEOREM SignalsInvariant == Spec => []IInv
  BY InitIInv, StepIInv, PTL DEF Spec

\* The variables always have their types: no mask count goes below zero, and
\* choose_signal never finds a negative number of signals to report.
THEOREM TypeCorrect == Spec => []TypeOK
<1>1. IInv => TypeOK
  BY DEF IInv
<1>. QED
  BY <1>1, SignalsInvariant, PTL

\* No signal slips between the tests of asm_run_mythryl_task and the entry into
\* Mythryl code: SignalsAreNoticed.
THEOREM SignalsNoticed == Spec => []SignalsAreNoticed
<1>1. IInv => SignalsAreNoticed
  BY DEF IInv
<1>. QED
  BY <1>1, SignalsInvariant, PTL

\* choose_signal and the root handler neither lose nor duplicate a signal, and
\* choose_signal's loop finds one: NoSignalIsLost.
THEOREM NoSignalLost == Spec => []NoSignalIsLost
<1>1. IInv => NoSignalIsLost
  BY DEF IInv
<1>. QED
  BY <1>1, SignalsInvariant, PTL

\* Handlers are not interrupted by handlers: HandlersDoNotNest.
THEOREM HandlersAreAlone == Spec => []HandlersDoNotNest
<1>1. IInv => HandlersDoNotNest
  BY DEF IInv
<1>. QED
  BY <1>1, SignalsInvariant, PTL

\* posix_signal_rotor is fair: NoSignalIsPassedOver.
THEOREM RotorIsFair == Spec => []NoSignalIsPassedOver
<1>1. IInv => NoSignalIsPassedOver
  <2>. SUFFICES ASSUME IInv, NEW s \in Signals PROVE passed[s] < N
    BY DEF NoSignalIsPassedOver
  <2>1. /\ passed[s] \in Nat /\ posix_signal_rotor \in Signals /\ N \in Nat
        /\ passed[s] + Between(posix_signal_rotor, s) < N
    BY InterprocessSignalsAssumption DEF IInv, TypeOK, RotorOK
  <2>2. Between(posix_signal_rotor, s) \in 0 .. N - 1
    BY <2>1, BetweenType
  <2>. QED
    BY <2>1, <2>2
<1>. QED
  BY <1>1, SignalsInvariant, PTL

-----------------------------------------------------------------------------
(* The table and the kernel, as long as nothing disturbs *)

\* A step that is no operation on the table.
TableStays ==
    /\ UNCHANGED <<mask, action, frame, disturbed, mask_to_be>>
    /\ \A s \in Signals : state_to_be(s)' = state_to_be(s)
    /\ request.code # "set_signal_mask" =>
           UNCHANGED os_mask /\ request'.code # "set_signal_mask"

\* Only operations on the table change how the table and the kernel differ.
LEMMA TableFrame ==
    ASSUME IInv, [Next]_vars
    PROVE  TableStays \/ \E l \in Levels : Operation(l)
<1>1. /\ TypeOK /\ ControlOK
      /\ request.code = "set_signal_state" => request.signal \in Signals
  BY RequestFields DEF IInv, TypeOK
<1>2. ASSUME NEW s \in Signals, kill(s) PROVE TableStays
  BY <1>2, <1>1 DEF kill, hostthread_vars, control_vars, code_vars, table_vars,
     kernel_vars, history_vars, TypeOK, ControlOK, TableStays, mask_to_be,
     state_to_be, NoRequest
<1>3. ASSUME NEW s \in Signals, c_signal_handler(s) PROVE TableStays
  BY <1>3, <1>1 DEF c_signal_handler, must_trap, hostthread_vars,
     control_vars, code_vars, table_vars, kernel_vars, history_vars, TypeOK,
     ControlOK, TableStays, mask_to_be, state_to_be, NoRequest
<1>4. CASE asm_run
  BY <1>4, <1>1 DEF asm_run, noted, hostthread_vars, control_vars, code_vars,
     table_vars, kernel_vars, history_vars, TypeOK, ControlOK, TableStays,
     mask_to_be, state_to_be, NoRequest
<1>5. CASE asm_test
  BY <1>5, <1>1 DEF asm_test, signals_wait, hostthread_vars, control_vars,
     code_vars, table_vars, kernel_vars, history_vars, TypeOK, ControlOK,
     TableStays, mask_to_be, state_to_be, NoRequest
<1>6. CASE set_request
  BY <1>6, <1>1 DEF set_request, hostthread_vars, control_vars, code_vars,
     table_vars, kernel_vars, history_vars, TypeOK, ControlOK, TableStays,
     mask_to_be, state_to_be, NoRequest
<1>7. CASE probe_fails
  BY <1>7, <1>1 DEF probe_fails, Leave, hostthread_vars, control_vars,
     code_vars, table_vars, kernel_vars, history_vars, TypeOK, ControlOK,
     TableStays, mask_to_be, state_to_be, NoRequest
<1>8. CASE call_heapcleaner
  BY <1>8, <1>1 DEF call_heapcleaner, Requested, hostthread_vars,
     control_vars, code_vars, table_vars, kernel_vars, history_vars, TypeOK,
     ControlOK, TableStays, mask_to_be, state_to_be, NoRequest
<1>9. CASE begin_choose_signal
  BY <1>9, <1>1 DEF begin_choose_signal, Requested, scan_start,
     hostthread_vars, control_vars, code_vars, table_vars, kernel_vars,
     history_vars, TypeOK, ControlOK, TableStays, mask_to_be, state_to_be,
     NoRequest
<1>10. CASE choose_signal
  BY <1>10, <1>1 DEF choose_signal, successor, hostthread_vars, control_vars,
     code_vars, table_vars, kernel_vars, history_vars, TypeOK, ControlOK,
     TableStays, mask_to_be, state_to_be, NoRequest
<1>11. CASE run_root_handler
  BY <1>11, <1>1 DEF run_root_handler, done_now, hostthread_vars,
     control_vars, code_vars, table_vars, kernel_vars, history_vars, TypeOK,
     ControlOK, TableStays, mask_to_be, state_to_be, NoRequest
<1>12. CASE return_from_signal_handler
  BY <1>12, <1>1 DEF return_from_signal_handler, Requested, hostthread_vars,
     control_vars, code_vars, table_vars, kernel_vars, history_vars, TypeOK,
     ControlOK, TableStays, mask_to_be, state_to_be, NoRequest
<1>13. CASE load_task_from_posthandler_resumption_fate
  BY <1>13, <1>1 DEF load_task_from_posthandler_resumption_fate, Requested,
     hostthread_vars, control_vars, code_vars, table_vars, kernel_vars,
     history_vars, TypeOK, ControlOK, TableStays, mask_to_be, state_to_be,
     NoRequest
<1>14. CASE handle_uncaught_exception
  BY <1>14, <1>1 DEF handle_uncaught_exception, Requested, hostthread_vars,
     control_vars, code_vars, table_vars, kernel_vars, history_vars, TypeOK,
     ControlOK, TableStays, mask_to_be, state_to_be, NoRequest
<1>15. CASE set_signal_mask
  BY <1>15, <1>1 DEF set_signal_mask, Requested, CfunReturns, hostthread_vars,
     control_vars, code_vars, table_vars, kernel_vars, history_vars, TypeOK,
     ControlOK, TableStays, mask_to_be, state_to_be, NoRequest
<1>16. CASE set_signal_state
  BY <1>16, <1>1 DEF set_signal_state, Requested, CfunReturns,
     hostthread_vars, control_vars, code_vars, table_vars, kernel_vars,
     history_vars, TypeOK, ControlOK, TableStays, mask_to_be, state_to_be,
     NoRequest
<1>17. CASE pause_until_signal
  BY <1>17, <1>1 DEF pause_until_signal, Requested, CfunReturns,
     hostthread_vars, control_vars, code_vars, table_vars, kernel_vars,
     history_vars, TypeOK, ControlOK, TableStays, mask_to_be, state_to_be,
     NoRequest
<1>18. CASE resume_after_handling_signal
  BY <1>18, <1>1 DEF resume_after_handling_signal, Leave, hostthread_vars,
     control_vars, code_vars, table_vars, kernel_vars, history_vars, TypeOK,
     ControlOK, TableStays, mask_to_be, state_to_be, NoRequest
<1>19. CASE root_mythryl_handler_for_interprocess_signals
  BY <1>19, <1>1, WhoRuns DEF root_mythryl_handler_for_interprocess_signals,
     Leave, Running, hostthread_vars, control_vars, code_vars, table_vars,
     kernel_vars, history_vars, TypeOK, ControlOK, TableStays, mask_to_be,
     state_to_be, NoRequest
<1>20. CASE handler_returns
  BY <1>20, <1>1, WhoRuns DEF handler_returns, Leave, Running,
     hostthread_vars, control_vars, code_vars, table_vars, kernel_vars,
     history_vars, TypeOK, ControlOK, TableStays, mask_to_be, state_to_be,
     NoRequest
<1>21. CASE handler_raises
  BY <1>21, <1>1, WhoRuns DEF handler_raises, Leave, Running, hostthread_vars,
     control_vars, code_vars, table_vars, kernel_vars, history_vars, TypeOK,
     ControlOK, TableStays, mask_to_be, state_to_be, NoRequest
<1>22. ASSUME NEW t \in Threads, pause(t)
      PROVE  TableStays
  BY <1>22, <1>1, WhoRuns DEF pause, Leave, Running, hostthread_vars,
     control_vars, code_vars, table_vars, kernel_vars, history_vars, TypeOK,
     ControlOK, TableStays, mask_to_be, state_to_be, NoRequest
<1>23. ASSUME NEW t \in Threads, yield_to_next_thread(t)
      PROVE  TableStays
  BY <1>23, <1>1, WhoRuns DEF yield_to_next_thread, Running, hostthread_vars,
     control_vars, code_vars, table_vars, kernel_vars, history_vars, TypeOK,
     ControlOK, TableStays, mask_to_be, state_to_be, NoRequest
<1>24. ASSUME NEW t \in Threads, dispatch_next_thread(t)
      PROVE  TableStays
  BY <1>24, <1>1, WhoRuns DEF dispatch_next_thread, Running, hostthread_vars,
     control_vars, code_vars, table_vars, kernel_vars, history_vars, TypeOK,
     ControlOK, TableStays, mask_to_be, state_to_be, NoRequest
<1>25. CASE UNCHANGED vars
  BY <1>25, <1>1 DEF vars, hostthread_vars, control_vars, code_vars, table_vars,
     kernel_vars, history_vars, TypeOK, ControlOK, TableStays, mask_to_be,
     state_to_be, NoRequest
<1>. QED
  BY <1>2, <1>3, <1>4, <1>5, <1>6, <1>7, <1>8, <1>9, <1>10, <1>11, <1>12,
     <1>13, <1>14, <1>15, <1>16, <1>17, <1>18, <1>19, <1>20, <1>21, <1>22,
     <1>23, <1>24, <1>25
     DEF Next, Enter, Eventloop

\* What the other steps leave as it is, an operation by l finds as it left it.
LEMMA FrameStays ==
    ASSUME NEW l \in Threads, FrameOK(l), TableStays
    PROVE  FrameOK(l)'
<1>. DEFINE f == frame[l]
<1>1. Masked' = Masked
  BY DEF TableStays, Masked, is_masked
<1>2. f.pc = "mask_os" => request'.code # "set_signal_mask" /\ UNCHANGED os_mask
  BY DEF FrameOK, TableStays
<1>3. frame' = frame /\ mask' = mask /\ action' = action
  BY DEF TableStays
<1>. QED
  BY <1>1, <1>2, <1>3 DEF FrameOK, TableStays, is_masked

\* Each step of an operation leaves the table and the kernel as its next
\* step expects them.
LEMMA OperationTable ==
    ASSUME IInv, NEW l \in Threads, FrameOK(l), Operation(l)
    PROVE  FrameOK(l)'
<1>. DEFINE f == frame[l]
<1>1. /\ TypeOK /\ FramesOK /\ ControlOK /\ FrameOK(l)
      /\ l \in Levels
  BY DEF IInv, Levels
<1>2. /\ request = NoRequest
      /\ os_mask' = os_mask /\ os_state' = os_state
  BY <1>1, OperationEffect, OperationLevel DEF ControlOK, OperationLeaves,
     kernel_vars
<1>3. mask_to_be = os_mask /\ \A s \in Signals : state_to_be(s) = os_state[s]
  BY <1>2 DEF mask_to_be, state_to_be, NoRequest
<1>4. UNCHANGED request =>
         mask_to_be' = os_mask /\ \A s \in Signals : state_to_be(s)' = os_state[s]
  BY <1>2 DEF mask_to_be, state_to_be, NoRequest
<1>5. ASSUME NEW ss \in (SUBSET Signals) \ {{}}, NEW c \in Changes,
             start_masking(l, ss, c), c # NoChange => ss = Signals
      PROVE  FrameOK(l)'
  <2>. DEFINE new == \E s \in ss : ~is_masked(s)
              g == [pc |-> pc_after_scan(new), todo |-> ss,
                    masked |-> IF new THEN ss \cup {s \in Signals : is_masked(s)}
                               ELSE {},
                    new |-> FALSE, change |-> c]
  <2>1. /\ frame' = [frame EXCEPT ![l] = g] /\ f.pc = "run"
        /\ UNCHANGED <<request, mask, action>>
    BY <1>5 DEF start_masking, Local, table_vars
  <2>2. frame'[l] = g
    BY <1>1, <2>1 DEF TypeOK, Levels
  <2>3. Masked' = Masked /\ os_mask = Masked \ Unblockable
    BY <1>1, <1>3, <2>1 DEF Masked, is_masked, FrameOK
  <2>4. /\ g.pc \in {"mask_os", "inc"} /\ g.todo = ss /\ g.change = c
        /\ g.pc = "mask_os" => g.masked = Masked \cup ss
        /\ g.pc = "inc" => ss \subseteq Masked
    BY DEF pc_after_scan, Masked
  <2>5. \A s \in Signals \ Fixed : state_to_be(s)' = action'[s]
    BY <1>1, <1>3, <1>4, <2>1 DEF FrameOK
  <2>. HIDE DEF g
  <2>. QED
    BY <1>1, <1>2, <1>4, <1>5, <2>1, <2>2, <2>3, <2>4, <2>5 DEF
       FrameOK, NoRequest
<1>6. ASSUME NEW ss \in (SUBSET Signals) \ {{}}, mask_signals(l, ss)
      PROVE  FrameOK(l)'
  BY <1>5, <1>6, NoFrameType DEF mask_signals
<1>7. ASSUME NEW s \in Signals, NEW a \in Actions, NEW o \in BOOLEAN,
             set_signal_handler(l, s, a, o)
      PROVE  FrameOK(l)'
  <2>1. [signal |-> s, action |-> a, override |-> o] \in Changes
    BY DEF Changes
  <2>2. Signals \in (SUBSET Signals) \ {{}}
    OBVIOUS
  <2>. QED
    BY <1>5, <1>7, <2>1, <2>2 DEF set_signal_handler
<1>8. ASSUME NEW ss \in (SUBSET Signals) \ {{}}, unmask_signals(l, ss)
      PROVE  FrameOK(l)'
  <2>. DEFINE g == [pc |-> "dec", todo |-> ss,
                    masked |-> {s \in Signals : IF s \in ss THEN mask[s] > 1
                                                            ELSE is_masked(s)},
                    new |-> \E s \in ss : mask[s] <= 1,
                    change |-> NoChange]
  <2>1. /\ frame' = [frame EXCEPT ![l] = g] /\ f.pc \in {"run", "unmask"}
        /\ UNCHANGED <<request, mask, action>>
    BY <1>8 DEF unmask_signals, Local, table_vars
  <2>2. frame'[l] = g
    BY <1>1, <2>1 DEF TypeOK, Levels
  <2>3. Masked' = Masked /\ os_mask = Masked \ Unblockable
    BY <1>1, <1>3, <2>1 DEF Masked, is_masked, FrameOK
  <2>4. ~g.new => g.masked = Masked
    BY <1>1 DEF Masked, is_masked, TypeOK
  <2>5. \A s \in Signals \ Fixed : state_to_be(s)' = action'[s]
    BY <1>1, <1>3, <1>4, <2>1 DEF FrameOK
  <2>6. /\ g.pc = "dec" /\ g.todo = ss
        /\ g.masked = {s \in Signals : IF s \in g.todo THEN mask'[s] > 1
                                                       ELSE is_masked(s)'}
    BY <2>1 DEF is_masked
  <2>. HIDE DEF g
  <2>. QED
    BY <1>1, <1>2, <1>4, <2>1, <2>2, <2>3, <2>4, <2>5, <2>6 DEF
       FrameOK, NoRequest
<1>9. CASE set_os_mask(l)
  <2>. DEFINE g == IF f.pc = "mask_os" THEN [f EXCEPT !.pc = "inc", !.masked = {}]
                                       ELSE NoFrame
  <2>1. /\ frame' = [frame EXCEPT ![l] = g]
        /\ f.pc \in {"mask_os", "unmask_os"}
        /\ request' = [code |-> "set_signal_mask", masked |-> f.masked]
        /\ UNCHANGED <<mask, action>>
    BY <1>9 DEF set_os_mask, Leave, table_vars
  <2>2. frame'[l] = g
    BY <1>1, <2>1 DEF TypeOK, Levels
  <2>3. /\ mask_to_be' = f.masked \ Unblockable
        /\ \A s \in Signals : state_to_be(s)' = os_state[s]
    BY <1>2, <2>1 DEF mask_to_be, state_to_be
  <2>4. Masked' = Masked /\ \A s \in Signals \ Fixed : state_to_be(s)' = action'[s]
    BY <1>1, <1>3, <2>1, <2>3 DEF Masked, is_masked, FrameOK
  <2>5. CASE f.pc = "mask_os"
    <3>1. g.pc = "inc" /\ g.todo = f.todo /\ g.change = f.change
      BY <1>1, <2>5, FrameFields DEF Frames
    <3>. HIDE DEF g
    <3>. QED
      BY <1>1, <1>2, <2>1, <2>2, <2>3, <2>4, <2>5, <3>1 DEF FrameOK
  <2>6. CASE f.pc = "unmask_os"
    <3>1. g = NoFrame /\ g.pc = "run"
      BY <2>6 DEF NoFrame
    <3>. HIDE DEF g
    <3>. QED
      BY <1>1, <1>2, <2>1, <2>2, <2>3, <2>4, <2>6, <3>1 DEF FrameOK
  <2>. QED
    BY <2>1, <2>5, <2>6
<1>10. CASE increment_mask(l)
  <2>. DEFINE s == Min(f.todo)
              rest == f.todo \ {s}
              g == CASE rest # {} -> [f EXCEPT !.todo = rest]
                     [] rest = {} /\ f.change = NoChange -> NoFrame
                     [] OTHER -> [f EXCEPT !.todo = {}, !.pc = "set"]
  <2>1. f.pc = "inc" /\ f.todo # {} /\ f.todo \in SUBSET Signals /\ f \in Frames
    BY <1>1, <1>10, FrameFields DEF increment_mask, FramesOK
  <2>2. s \in f.todo /\ s \in Signals
    BY <2>1, MinIsMember
  <2>3. /\ frame' = [frame EXCEPT ![l] = g]
        /\ mask' = [mask EXCEPT ![s] = @ + 1]
        /\ UNCHANGED <<action, request>>
    BY <1>10 DEF increment_mask, Local
  <2>4. frame'[l] = g
    BY <1>1, <2>3 DEF TypeOK, Levels
  <2>. HIDE DEF s
  <2>5. Masked' = Masked \cup {s}
    BY <1>1, <2>2, <2>3 DEF Masked, is_masked, TypeOK
  <2>6. os_mask = (Masked \cup f.todo) \ Unblockable
        /\ (f.change # NoChange => Signals \subseteq Masked \cup f.todo)
    BY <1>1, <1>3, <2>1 DEF FrameOK
  <2>7. Masked' \cup rest = Masked \cup f.todo
    BY <2>2, <2>5
  <2>8. \A t \in Signals \ Fixed : state_to_be(t)' = action'[t]
    BY <1>1, <1>3, <1>4, <2>1, <2>3 DEF FrameOK
  <2>9. mask_to_be' = (Masked' \cup rest) \ Unblockable
    BY <1>4, <2>3, <2>6, <2>7
  <2>10. CASE rest # {}
    <3>1. g.pc = "inc" /\ g.todo = rest /\ g.change = f.change
      BY <2>1, <2>10 DEF Frames
    <3>. HIDE DEF g, rest
    <3>. QED
      BY <1>1, <1>2, <2>3, <2>4, <2>6, <2>7, <2>8, <2>9, <3>1 DEF
         FrameOK, NoRequest
  <2>11. CASE rest = {} /\ f.change = NoChange
    <3>1. g.pc = "run"
      BY <2>11 DEF NoFrame
    <3>. HIDE DEF g, rest
    <3>. QED
      BY <1>1, <1>2, <2>3, <2>4, <2>8, <2>9, <2>11, <3>1 DEF
         FrameOK, NoRequest
  <2>12. CASE rest = {} /\ f.change # NoChange
    <3>1. g.pc = "set"
      BY <2>1, <2>12 DEF Frames
    <3>2. Masked' = Signals /\ mask_to_be' = Signals \ Unblockable
      BY <2>6, <2>7, <2>9, <2>12 DEF Masked
    <3>. HIDE DEF g, rest
    <3>. QED
      BY <1>1, <1>2, <2>3, <2>4, <2>8, <3>1, <3>2 DEF FrameOK, NoRequest
  <2>. QED
    BY <2>10, <2>11, <2>12
<1>11. CASE change_signal_action(l)
  <2>. DEFINE c == f.change
              old == action[c.signal]
              next == IF nothing_to_do(old, c) \/ old = c.action THEN "unmask"
                                                                 ELSE "state"
              g == [f EXCEPT !.pc = next]
  <2>1. f.pc = "set" /\ c # NoChange /\ c \in Changes /\ f \in Frames
    BY <1>1, <1>11, FrameFields DEF change_signal_action, FramesOK
  <2>2. c.signal \in Signals /\ c.action \in Actions
    BY <2>1, ChangeFields
  <2>3. /\ frame' = [frame EXCEPT ![l] = g]
        /\ action' = IF nothing_to_do(old, c) THEN action
                     ELSE [action EXCEPT ![c.signal] = c.action]
        /\ UNCHANGED <<mask, request>>
    BY <1>11 DEF change_signal_action, Local
  <2>4. frame'[l] = g
    BY <1>1, <2>3 DEF TypeOK, Levels
  <2>5. g.pc = next /\ g.change = c
    BY <2>1 DEF Frames
  <2>6. Masked' = Signals /\ mask_to_be' = Signals \ Unblockable
    BY <1>1, <1>3, <1>4, <2>1, <2>3 DEF FrameOK, Masked, is_masked
  <2>7. \A s \in Signals \ Fixed : state_to_be(s)' = action[s]
    BY <1>1, <1>3, <1>4, <2>1, <2>3 DEF FrameOK
  <2>8. next = "unmask" => \A s \in Signals : action'[s] = action[s]
    BY <1>1, <2>2, <2>3 DEF TypeOK
  <2>9. next = "state" => /\ action'[c.signal] = c.action
                          /\ \A s \in Signals \ {c.signal} : action'[s] = action[s]
    BY <1>1, <2>2, <2>3 DEF TypeOK
  <2>10. next \in {"unmask", "state"}
    OBVIOUS
  <2>. HIDE DEF g, next, old, c
  <2>. QED
    BY <1>1, <1>2, <2>3, <2>4, <2>5, <2>6, <2>7, <2>8, <2>9, <2>10 DEF
       FrameOK, NoRequest
<1>12. CASE change_signal_state(l)
  <2>. DEFINE g == [f EXCEPT !.pc = "unmask"]
  <2>1. f.pc = "state" /\ f.change # NoChange /\ f.change \in Changes /\ f \in Frames
    BY <1>1, <1>12, FrameFields DEF change_signal_state, FramesOK
  <2>2. /\ frame' = [frame EXCEPT ![l] = g]
        /\ request' = [code |-> "set_signal_state", signal |-> f.change.signal,
                       state |-> f.change.action]
        /\ UNCHANGED <<mask, action>>
    BY <1>1, <1>12 DEF change_signal_state, Leave, table_vars, TypeOK
  <2>3. frame'[l] = g
    BY <1>1, <2>2 DEF TypeOK, Levels
  <2>4. g.pc = "unmask"
    BY <2>1 DEF Frames
  <2>5. Masked' = Signals /\ mask_to_be' = Signals \ Unblockable
    BY <1>1, <1>2, <1>3, <2>1, <2>2 DEF FrameOK, Masked, is_masked,
       mask_to_be
  <2>6. \A s \in Signals \ Fixed : state_to_be(s)' = action'[s]
    BY <1>1, <1>2, <1>3, <2>1, <2>2 DEF FrameOK, state_to_be
  <2>. HIDE DEF g
  <2>. QED
    BY <1>1, <1>2, <2>2, <2>3, <2>4, <2>5, <2>6 DEF FrameOK
<1>13. CASE decrement_mask(l)
  <2>. DEFINE s == Min(f.todo)
              rest == f.todo \ {s}
              g == CASE rest # {} -> [f EXCEPT !.todo = rest]
                     [] rest = {} /\ f.new ->
                            [f EXCEPT !.todo = {}, !.pc = "unmask_os"]
                     [] OTHER -> NoFrame
  <2>1. f.pc = "dec" /\ f.todo # {} /\ f.todo \in SUBSET Signals /\ f \in Frames
    BY <1>1, <1>13, FrameFields DEF decrement_mask, FramesOK
  <2>2. s \in f.todo /\ s \in Signals
    BY <2>1, MinIsMember
  <2>3. /\ frame' = [frame EXCEPT ![l] = g]
        /\ mask' = [mask EXCEPT ![s] = mask_after_decrement(@)]
        /\ UNCHANGED <<action, request>>
    BY <1>13 DEF decrement_mask, Local
  <2>4. frame'[l] = g
    BY <1>1, <2>3 DEF TypeOK, Levels
  <2>. HIDE DEF s
  <2>5. /\ Masked \ Unblockable \subseteq os_mask
        /\ f.masked = {t \in Signals : IF t \in f.todo THEN mask[t] > 1
                                                       ELSE is_masked(t)}
        /\ ~f.new => os_mask = f.masked \ Unblockable
    BY <1>1, <1>3, <2>1 DEF FrameOK
  <2>6. Masked' \subseteq Masked
    BY <1>1, <2>2, <2>3 DEF Masked, is_masked, mask_after_decrement, TypeOK
  <2>7. f.masked = {t \in Signals : IF t \in rest THEN mask'[t] > 1
                                                  ELSE is_masked(t)'}
    BY <1>1, <2>2, <2>3, <2>5 DEF is_masked, mask_after_decrement, TypeOK
  <2>8. rest = {} => f.masked = Masked'
    BY <2>7 DEF Masked
  <2>9. \A t \in Signals \ Fixed : state_to_be(t)' = action'[t]
    BY <1>1, <1>3, <1>4, <2>1, <2>3 DEF FrameOK
  <2>10. mask_to_be' = os_mask
    BY <1>4, <2>3
  <2>11. CASE rest # {}
    <3>1. g.pc = "dec" /\ g.todo = rest /\ g.new = f.new /\ g.masked = f.masked
      BY <2>1, <2>11 DEF Frames
    <3>. HIDE DEF g, rest
    <3>. QED
      BY <1>1, <1>2, <2>3, <2>4, <2>5, <2>6, <2>7, <2>9, <2>10, <3>1
         DEF FrameOK, NoRequest
  <2>12. CASE rest = {} /\ f.new
    <3>1. g.pc = "unmask_os" /\ g.masked = f.masked
      BY <2>1, <2>12 DEF Frames
    <3>. HIDE DEF g, rest
    <3>. QED
      BY <1>1, <1>2, <2>3, <2>4, <2>5, <2>6, <2>8, <2>9, <2>10,
         <2>12, <3>1 DEF FrameOK, NoRequest
  <2>13. CASE rest = {} /\ ~f.new
    <3>1. g.pc = "run"
      BY <2>13 DEF NoFrame
    <3>. HIDE DEF g, rest
    <3>. QED
      BY <1>1, <1>2, <2>3, <2>4, <2>5, <2>8, <2>9, <2>10, <2>13,
         <3>1 DEF FrameOK, NoRequest
  <2>. QED
    BY <2>11, <2>12, <2>13
<1>. QED
  BY <1>6, <1>7, <1>8, <1>9, <1>10, <1>11, <1>12, <1>13 DEF Operation

\* An operation moves nobody else's frame.
LEMMA OperationFrame ==
    ASSUME NEW l \in Levels, Operation(l), NEW k \in Levels \ {l}, TypeOK
    PROVE  frame'[k] = frame[k]
<1>1. /\ \A ss : mask_signals(l, ss) \/ unmask_signals(l, ss) => frame'[k] = frame[k]
      /\ \A s, a, o : set_signal_handler(l, s, a, o) => frame'[k] = frame[k]
  BY DEF mask_signals, unmask_signals, set_signal_handler, start_masking,
     Local, TypeOK
<1>2. set_os_mask(l) \/ change_signal_state(l) => frame'[k] = frame[k]
  BY DEF set_os_mask, change_signal_state, TypeOK
<1>3. increment_mask(l) \/ decrement_mask(l) \/ change_signal_action(l)
        => frame'[k] = frame[k]
  BY DEF increment_mask, decrement_mask, change_signal_action, Local, TypeOK
<1>. QED
  BY <1>1, <1>2, <1>3 DEF Operation

\* As long as nothing disturbs, an operation is by a thread, the others are in
\* none, and the table and the kernel are as it expects.
LEMMA OperationAlone ==
    ASSUME KernelInv, NEW l \in Levels, Operation(l), ~disturbed'
    PROVE  /\ l \in Threads /\ FrameOK(l)
           /\ \A k \in Levels \ {l} : frame[k].pc = "run"
           /\ DeliveryOK
<1>1. ~disturbed
  BY OperationEffect DEF OperationLeaves
<1>2. PICK t \in Threads : /\ FrameOK(t)
                           /\ \A k \in Levels \ {t} : frame[k].pc = "run"
  BY <1>1 DEF KernelInv, TableOK
<1>3. CASE frame[l].pc = "run"
  <2>1. l # "handler" /\ \A k \in Levels \ {l} : frame[k].pc = "run"
    BY <1>3, OperationEffect DEF OthersOperate
  <2>2. l \in Threads /\ frame[t].pc = "run"
    BY <1>2, <1>3, <2>1 DEF Levels
  <2>3. FrameOK(l)
    BY <1>2, <1>3, <2>2 DEF FrameOK
  <2>. QED
    BY <1>1, <2>1, <2>2, <2>3 DEF KernelInv
<1>4. CASE frame[l].pc # "run"
  BY <1>1, <1>2, <1>4 DEF KernelInv
<1>. QED
  BY <1>3, <1>4

\* One thread at most is in an operation, and only it makes the table and the
\* kernel differ.
LEMMA TableStep ==
    ASSUME KernelInv, [Next]_vars, ~disturbed'
    PROVE  TableOK'
<1>1. CASE TableStays
  <2>1. ~disturbed /\ frame' = frame
    BY <1>1 DEF TableStays
  <2>. QED
    BY <1>1, <2>1, FrameStays DEF KernelInv, TableOK
<1>2. ASSUME NEW l \in Levels, Operation(l) PROVE TableOK'
  <2>1. /\ l \in Threads /\ FrameOK(l)
        /\ \A k \in Levels \ {l} : frame[k].pc = "run"
    BY <1>2, OperationAlone
  <2>2. FrameOK(l)'
    BY <1>2, <2>1, OperationTable DEF KernelInv
  <2>3. \A k \in Levels \ {l} : frame'[k].pc = "run"
    BY <1>2, <2>1, OperationFrame DEF KernelInv, IInv
  <2>. QED
    BY <2>1, <2>2, <2>3 DEF TableOK
<1>. QED
  BY <1>1, <1>2, TableFrame DEF KernelInv

\* An operation changes the entries of masked signals only, or of fixed ones.
LEMMA OperationDelivery ==
    ASSUME IInv, NEW l \in Threads, FrameOK(l), DeliveryOK, Operation(l)
    PROVE  \A s \in Signals \ (os_mask \cup Fixed) : mask'[s] = 0 /\ action'[s] = action[s]
<1>. DEFINE f == frame[l]
<1>1. TypeOK /\ FramesOK /\ ControlOK /\ FrameOK(l) /\ DeliveryOK
  BY DEF IInv
<1>2. l \in Levels
  BY DEF Levels
<1>3. request = NoRequest /\ mask_to_be = os_mask
  BY <1>1, <1>2, OperationLevel DEF ControlOK, mask_to_be, NoRequest
<1>4. \A s \in Signals \ (os_mask \cup Fixed) : mask[s] = 0
  BY <1>1 DEF DeliveryOK
<1>5. CASE increment_mask(l)
  <2>. DEFINE s == Min(f.todo)
  <2>1. f.pc = "inc" /\ mask' = [mask EXCEPT ![s] = @ + 1] /\ action' = action
    BY <1>5 DEF increment_mask
  <2>2. f.todo # {} /\ f.todo \in SUBSET Signals
    BY <1>1, <1>2, <2>1, FrameFields DEF FramesOK
  <2>3. s \in f.todo
    BY <2>2, MinIsMember
  <2>4. s \in os_mask \cup Fixed
    BY <1>1, <1>3, <2>1, <2>3, InterprocessSignalsAssumption DEF FrameOK
  <2>. HIDE DEF s
  <2>. QED
    BY <1>1, <1>4, <2>1, <2>4 DEF TypeOK
<1>6. CASE decrement_mask(l)
  <2>. DEFINE s == Min(f.todo)
  <2>1. mask' = [mask EXCEPT ![s] = mask_after_decrement(@)] /\ action' = action
    BY <1>6 DEF decrement_mask
  <2>. HIDE DEF s
  <2>. QED
    BY <1>1, <1>4, <2>1 DEF TypeOK, mask_after_decrement
<1>7. CASE change_signal_action(l)
  <2>1. f.pc = "set"
    BY <1>7 DEF change_signal_action
  <2>2. os_mask \cup Fixed = Signals
    BY <1>1, <1>3, <2>1, InterprocessSignalsAssumption DEF FrameOK, Signals
  <2>. QED
    BY <2>2
<1>8. CASE set_os_mask(l) \/ change_signal_state(l)
  BY <1>4, <1>8 DEF set_os_mask, change_signal_state, table_vars
<1>9. \A ss : mask_signals(l, ss) \/ unmask_signals(l, ss)
                 => UNCHANGED <<mask, action>>
  BY DEF mask_signals, unmask_signals, start_masking, table_vars
<1>10. \A s, a, o : set_signal_handler(l, s, a, o) => UNCHANGED <<mask, action>>
  BY DEF set_signal_handler, start_masking, table_vars
<1>. QED
  BY <1>4, <1>5, <1>6, <1>7, <1>8, <1>9, <1>10 DEF Operation

\* What the kernel may deliver has a handler and is not masked.
LEMMA DeliveryStep ==
    ASSUME KernelInv, [Next]_vars, ~disturbed'
    PROVE  DeliveryOK'
<1>1. TypeOK /\ ControlOK /\ HandlersDoNotNest
  BY DEF KernelInv, IInv
<1>2. ~disturbed /\ TableOK /\ DeliveryOK
  <2>1. ~disturbed
    BY TableFrame, OperationEffect DEF KernelInv, TableStays, OperationLeaves
  <2>. QED
    BY <2>1 DEF KernelInv
<1>3. ASSUME NEW s \in Signals, kill(s) PROVE DeliveryOK'
  BY <1>1, <1>2, <1>3 DEF kill, hostthread_vars, control_vars, code_vars,
     table_vars, history_vars, TypeOK, DeliveryOK, RootHandlerFindsHandler
<1>4. ASSUME NEW s \in Signals, c_signal_handler(s) PROVE DeliveryOK'
  <2>1. /\ s \in os_pending /\ s \notin os_mask
        /\ os_pending' = os_pending \ {s}
        /\ seen_count' = [seen_count EXCEPT ![s] = @ + 1]
        /\ UNCHANGED <<done_count, level, arg, request, mask, action, os_mask, os_state>>
    BY <1>4 DEF c_signal_handler, code_vars, table_vars
  <2>2. mask[s] = 0 /\ action[s] = "HANDLER"
    BY <1>2, <2>1 DEF DeliveryOK
  <2>3. \A t \in Signals : t # s => seen_count'[t] = seen_count[t]
    BY <1>1, <1>2, <2>1 DEF TypeOK
  <2>. QED
    BY <1>1, <1>2, <2>1, <2>2, <2>3 DEF DeliveryOK, RootHandlerFindsHandler
<1>5. CASE asm_run
  BY <1>5, <1>1, <1>2 DEF asm_run, noted, hostthread_vars, control_vars,
     code_vars, table_vars, kernel_vars, history_vars, TypeOK, ControlOK,
     DeliveryOK, RootHandlerFindsHandler, NoRequest
<1>6. CASE asm_test
  BY <1>6, <1>1, <1>2 DEF asm_test, signals_wait, hostthread_vars,
     control_vars, code_vars, table_vars, kernel_vars, history_vars, TypeOK,
     ControlOK, DeliveryOK, RootHandlerFindsHandler, NoRequest
<1>7. CASE set_request
  BY <1>7, <1>1, <1>2 DEF set_request, hostthread_vars, control_vars,
     code_vars, table_vars, kernel_vars, history_vars, TypeOK, ControlOK,
     DeliveryOK, RootHandlerFindsHandler, NoRequest
<1>8. CASE probe_fails
  BY <1>8, <1>1, <1>2 DEF probe_fails, Leave, hostthread_vars, control_vars,
     code_vars, table_vars, kernel_vars, history_vars, TypeOK, ControlOK,
     DeliveryOK, RootHandlerFindsHandler, NoRequest
<1>9. CASE call_heapcleaner
  BY <1>9, <1>1, <1>2 DEF call_heapcleaner, Requested, hostthread_vars,
     control_vars, code_vars, table_vars, kernel_vars, history_vars, TypeOK,
     ControlOK, DeliveryOK, RootHandlerFindsHandler, NoRequest
<1>10. CASE begin_choose_signal
  BY <1>10, <1>1, <1>2 DEF begin_choose_signal, Requested, scan_start,
     hostthread_vars, control_vars, code_vars, table_vars, kernel_vars,
     history_vars, TypeOK, ControlOK, DeliveryOK, RootHandlerFindsHandler,
     NoRequest
<1>11. CASE choose_signal
  BY <1>11, <1>1, <1>2 DEF choose_signal, successor, hostthread_vars,
     control_vars, code_vars, table_vars, kernel_vars, history_vars, TypeOK,
     ControlOK, DeliveryOK, RootHandlerFindsHandler, NoRequest
<1>12. CASE run_root_handler
  <2>1. /\ reg \in Signals /\ delta > 0 /\ done_count[reg] + delta <= seen_count[reg]
        /\ done_count[reg] \in Nat /\ seen_count[reg] \in Nat /\ delta \in Nat
    BY <1>12 DEF run_root_handler, KernelInv, IInv, ChoiceOK, TypeOK
  <2>2. mask[reg] = 0 /\ action[reg] = "HANDLER"
    BY <1>1, <1>2, <2>1 DEF DeliveryOK, RootHandlerFindsHandler
  <2>3. /\ arg'.signal = reg /\ request' = NoRequest
        /\ done_count' = [done_count EXCEPT ![reg] = done_now(reg)]
        /\ UNCHANGED <<seen_count, mask, action, os_mask, os_state, os_pending>>
    BY <1>12 DEF run_root_handler, table_vars, kernel_vars
  <2>4. \A t \in Signals : t # reg => done_count'[t] = done_count[t]
    BY <1>1, <1>2, <2>3 DEF TypeOK
  <2>. QED
    BY <1>1, <1>2, <2>2, <2>3, <2>4 DEF DeliveryOK, RootHandlerFindsHandler,
       NoRequest
<1>13. CASE return_from_signal_handler
  BY <1>13, <1>1, <1>2 DEF return_from_signal_handler, Requested,
     hostthread_vars, control_vars, code_vars, table_vars, kernel_vars,
     history_vars, TypeOK, ControlOK, DeliveryOK, RootHandlerFindsHandler,
     NoRequest
<1>14. CASE load_task_from_posthandler_resumption_fate
  BY <1>14, <1>1, <1>2 DEF load_task_from_posthandler_resumption_fate,
     Requested, hostthread_vars, control_vars, code_vars, table_vars,
     kernel_vars, history_vars, TypeOK, ControlOK, DeliveryOK,
     RootHandlerFindsHandler, NoRequest
<1>15. CASE handle_uncaught_exception
  BY <1>15, <1>1, <1>2 DEF handle_uncaught_exception, Requested,
     hostthread_vars, control_vars, code_vars, table_vars, kernel_vars,
     history_vars, TypeOK, ControlOK, DeliveryOK, RootHandlerFindsHandler,
     NoRequest
<1>16. CASE set_signal_mask
  <2>1. /\ request.code = "set_signal_mask"
        /\ os_mask' = request.masked \ Unblockable
        /\ request' = NoRequest
        /\ UNCHANGED <<arg, seen_count, done_count, level, mask, action,
                       os_state, os_pending>>
    BY <1>16 DEF set_signal_mask, Requested, CfunReturns, code_vars, table_vars
  <2>2. mask_to_be = os_mask' /\ \A s \in Signals : state_to_be(s) = os_state[s]
    BY <2>1 DEF mask_to_be, state_to_be
  <2>3. PICK t \in Threads : FrameOK(t)
    BY <1>2 DEF TableOK
  <2>4. frame[t].pc \in {"run", "mask_os", "inc", "set", "state", "unmask",
                         "dec", "unmask_os"}
    BY <1>1, FrameFields DEF Levels, Frames
  <2>5. Masked \ Unblockable \subseteq mask_to_be
    BY <2>1, <2>3, <2>4 DEF FrameOK, Masked
  <2>6. \A s \in Signals \ (mask_to_be \cup Fixed) : state_to_be(s) = action[s]
    BY <2>1, <2>3, <2>4, InterprocessSignalsAssumption DEF FrameOK
  <2>7. \A s \in Signals \ (mask_to_be \cup Fixed) : mask[s] = 0
    <3>1. /\ mask \in [Signals -> Nat] /\ Unblockable \subseteq Fixed
          /\ \A s \in Signals : s \in Masked <=> mask[s] > 0
      BY <1>1, InterprocessSignalsAssumption DEF Masked, is_masked, TypeOK
    <3>. QED
      BY <2>5, <3>1
  <2>. QED
    BY <1>2, <2>1, <2>2, <2>6, <2>7 DEF DeliveryOK, RootHandlerFindsHandler,
       NoRequest
<1>17. CASE set_signal_state
  <2>. DEFINE t == request.signal
  <2>1. /\ request.code = "set_signal_state" /\ request' = NoRequest
        /\ \/ t \in Fixed /\ UNCHANGED <<os_state, os_pending>>
           \/ /\ t \notin Fixed
              /\ os_state' = [os_state EXCEPT ![t] = request.state]
              /\ os_pending' = IF request.state = "HANDLER" THEN os_pending
                               ELSE os_pending \ {t}
        /\ UNCHANGED <<arg, seen_count, done_count, level, mask, action, os_mask>>
    BY <1>17 DEF set_signal_state, Requested, CfunReturns, code_vars, table_vars
  <2>2. t \in Signals
    BY <1>1, <2>1, RequestFields DEF TypeOK
  <2>3. \A s \in Signals : os_state'[s] = state_to_be(s)
    BY <1>1, <2>1, <2>2 DEF TypeOK, state_to_be
  <2>4. PICK l \in Threads : FrameOK(l)
    BY <1>2 DEF TableOK
  <2>5. frame[l].pc # "state" =>
            \A s \in Signals \ Fixed : state_to_be(s) = action[s]
    BY <2>4 DEF FrameOK
  <2>6. frame[l].pc = "state" => os_mask = Signals \ Unblockable
    BY <2>1, <2>4 DEF FrameOK, mask_to_be
  <2>7. \A s \in Signals \ (os_mask \cup Fixed) : os_state'[s] = action[s]
    BY <2>3, <2>5, <2>6, InterprocessSignalsAssumption
  <2>8. os_pending' \subseteq {s \in Signals : os_state'[s] = "HANDLER"}
    BY <1>1, <1>2, <2>1, <2>2 DEF DeliveryOK, TypeOK
  <2>9. \A s \in Fixed : os_state'[s] = "DEFAULT"
    BY <1>1, <1>2, <2>1, <2>2, InterprocessSignalsAssumption DEF DeliveryOK,
       TypeOK, Signals
  <2>. QED
    BY <1>2, <2>1, <2>7, <2>8, <2>9 DEF DeliveryOK, RootHandlerFindsHandler,
       NoRequest
<1>18. CASE pause_until_signal
  BY <1>18, <1>1, <1>2 DEF pause_until_signal, Requested, CfunReturns,
     hostthread_vars, control_vars, code_vars, table_vars, kernel_vars,
     history_vars, TypeOK, ControlOK, DeliveryOK, RootHandlerFindsHandler,
     NoRequest
<1>19. CASE resume_after_handling_signal
  BY <1>19, <1>1, <1>2 DEF resume_after_handling_signal, Leave,
     hostthread_vars, control_vars, code_vars, table_vars, kernel_vars,
     history_vars, TypeOK, ControlOK, DeliveryOK, RootHandlerFindsHandler,
     NoRequest
<1>20. CASE root_mythryl_handler_for_interprocess_signals
  <2>1. /\ level = "root_handler"
        /\ UNCHANGED <<arg, seen_count, done_count, mask, action, os_mask, os_state, os_pending>>
    BY <1>1, <1>20, WhoRuns DEF hostthread_vars, table_vars, kernel_vars,
       root_mythryl_handler_for_interprocess_signals
  <2>2. arg.signal \in Signals
    BY <1>1, <1>2 DEF TypeOK
  <2>3. level' = "handler"
    BY <1>2, <1>20, <2>1, <2>2 DEF
       root_mythryl_handler_for_interprocess_signals, DeliveryOK
  <2>. QED
    BY <1>1, <1>2, <2>1, <2>3 DEF DeliveryOK, RootHandlerFindsHandler
<1>21. CASE handler_returns
  BY <1>21, <1>1, <1>2, WhoRuns DEF handler_returns, Leave, Running,
     hostthread_vars, control_vars, code_vars, table_vars, kernel_vars,
     history_vars, TypeOK, ControlOK, DeliveryOK, RootHandlerFindsHandler,
     NoRequest
<1>22. CASE handler_raises
  BY <1>22, <1>1, <1>2, WhoRuns DEF handler_raises, Leave, Running,
     hostthread_vars, control_vars, code_vars, table_vars, kernel_vars,
     history_vars, TypeOK, ControlOK, DeliveryOK, RootHandlerFindsHandler,
     NoRequest
<1>23. ASSUME NEW t \in Threads, pause(t)
      PROVE  DeliveryOK'
  BY <1>23, <1>1, <1>2, WhoRuns DEF pause, Leave, Running, hostthread_vars,
     control_vars, code_vars, table_vars, kernel_vars, history_vars, TypeOK,
     ControlOK, DeliveryOK, RootHandlerFindsHandler, NoRequest
<1>24. ASSUME NEW t \in Threads, yield_to_next_thread(t)
      PROVE  DeliveryOK'
  BY <1>24, <1>1, <1>2, WhoRuns DEF yield_to_next_thread, Running,
     hostthread_vars, control_vars, code_vars, table_vars, kernel_vars,
     history_vars, TypeOK, ControlOK, DeliveryOK, RootHandlerFindsHandler,
     NoRequest
<1>25. ASSUME NEW t \in Threads, dispatch_next_thread(t)
      PROVE  DeliveryOK'
  BY <1>25, <1>1, <1>2, WhoRuns DEF dispatch_next_thread, Running,
     hostthread_vars, control_vars, code_vars, table_vars, kernel_vars,
     history_vars, TypeOK, ControlOK, DeliveryOK, RootHandlerFindsHandler,
     NoRequest
<1>26. ASSUME NEW l \in Levels, Operation(l) PROVE DeliveryOK'
  <2>1. l \in Threads /\ FrameOK(l) /\ level = "main"
    BY <1>1, <1>26, OperationAlone, OperationLevel,
       InterprocessSignalsAssumption
  <2>2. /\ at = "mythryl" /\ level' = "main" /\ ~limit_is_zeroed
        /\ UNCHANGED <<seen_count, done_count, os_mask, os_state, os_pending>>
    BY <1>1, <1>26, <2>1, OperationEffect, OperationLevel DEF OperationLeaves,
       hostthread_vars, code_vars, kernel_vars
  <2>3. ~handler_is_running
    BY <1>1, <2>1 DEF HandlersDoNotNest
  <2>4. all_seen = all_done
    BY <2>2, <2>3 DEF KernelInv, IInv, SignalsAreNoticed
  <2>5. seen_count = done_count
    BY <2>4, DoneIsSeen DEF KernelInv, IInv
  <2>6. \A s \in Signals \ (os_mask \cup Fixed) :
            mask'[s] = 0 /\ action'[s] = action[s]
    BY <1>2, <1>26, <2>1, OperationDelivery DEF KernelInv
  <2>. QED
    BY <1>2, <2>2, <2>5, <2>6 DEF DeliveryOK, RootHandlerFindsHandler
<1>27. CASE UNCHANGED vars
  BY <1>27, <1>1, <1>2 DEF vars, hostthread_vars, control_vars, code_vars,
     table_vars, kernel_vars, history_vars, TypeOK, ControlOK, DeliveryOK,
     RootHandlerFindsHandler, NoRequest
<1>. QED
  BY <1>3, <1>4, <1>5, <1>6, <1>7, <1>8, <1>9, <1>10, <1>11, <1>12, <1>13,
     <1>14, <1>15, <1>16, <1>17, <1>18, <1>19, <1>20, <1>21, <1>22, <1>23,
     <1>24,
     <1>25, <1>26, <1>27
     DEF Next, Enter, Eventloop

\* The initial table and kernel agree.
LEMMA InitKernelInv == Init => KernelInv
<1>. SUFFICES ASSUME Init PROVE TableOK /\ DeliveryOK
  BY InitIInv DEF KernelInv
<1>1. \A l \in Levels : frame[l] = NoFrame
  BY DEF Init
<1>2. /\ Masked = {} /\ mask_to_be = {}
      /\ \A s \in Signals : state_to_be(s) = action[s]
  BY DEF Init, Masked, is_masked, mask_to_be, state_to_be, NoRequest
<1>3. TableOK
  <2>1. PICK t \in Threads : TRUE
    BY InterprocessSignalsAssumption
  <2>2. FrameOK(t)
    BY <1>1, <1>2 DEF FrameOK, NoFrame, Levels
  <2>. QED
    BY <1>1, <2>2 DEF TableOK, NoFrame
<1>4. DeliveryOK
  BY InterprocessSignalsAssumption DEF Init, DeliveryOK,
     RootHandlerFindsHandler, NoRequest, Signals
<1>. QED
  BY <1>3, <1>4

\* As long as no operation on the signal table begins in a handler or while
\* another thread is in the middle of one, the table and the kernel agree
\* between operations, apart from what the kernel does not let be changed; and
\* the root handler never meets a signal that the table calls masked or
\* unhandled, whatever signals arrive between the steps of an operation and
\* whoever runs then: KernelAgreesWithTable.
THEOREM KernelAgrees == Spec => []KernelAgreesWithTable
<1>1. Init => KernelInv
  BY InitKernelInv
<1>2. KernelInv /\ [Next]_vars => KernelInv'
  BY StepIInv, TableStep, DeliveryStep DEF KernelInv
<1>3. KernelInv => KernelAgreesWithTable
  <2>. SUFFICES ASSUME KernelInv, ~disturbed
                PROVE  /\ RootHandlerFindsHandler
                       /\ ( /\ \A l \in Levels : frame[l].pc = "run"
                            /\ request.code \notin {"set_signal_mask",
                                                    "set_signal_state"} )
                          => /\ os_mask = Masked \ Unblockable
                             /\ \A s \in Signals \ Fixed :
                                    os_state[s] = action[s]
    BY DEF KernelAgreesWithTable, Masked
  <2>1. PICK t \in Threads : FrameOK(t)
    BY DEF KernelInv, TableOK
  <2>2. RootHandlerFindsHandler
    BY DEF KernelInv, DeliveryOK
  <2>3. ASSUME frame[t].pc = "run",
               request.code \notin {"set_signal_mask", "set_signal_state"}
        PROVE  /\ os_mask = Masked \ Unblockable
               /\ \A s \in Signals \ Fixed : os_state[s] = action[s]
    BY <2>1, <2>3 DEF FrameOK, mask_to_be, state_to_be
  <2>. QED
    BY <2>2, <2>3 DEF Levels
<1>. QED
  BY <1>1, <1>2, <1>3, PTL DEF Spec

=============================================================================
