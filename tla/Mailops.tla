------------------------------ MODULE Mailops -------------------------------
(***************************************************************************)
(* Mail between microthreads: do_one_mailop over a list of alternatives,   *)
(* with negative acknowledgements, and the base mailops it is given.       *)
(*                                                                         *)
(*   thread-kit/src/core-thread-kit/mailop.pkg                             *)
(*   thread-kit/src/core-thread-kit/mailslot.pkg                           *)
(*   thread-kit/src/core-thread-kit/maildrop.pkg                           *)
(*   thread-kit/src/core-thread-kit/oneshot-maildrop.pkg                   *)
(*   thread-kit/src/core-thread-kit/mailqueue.pkg                          *)
(*   thread-kit/src/core-thread-kit/microthread-preemptive-scheduler.pkg   *)
(*                                                      (set_condvar__iu)  *)
(*                                                                         *)
(* Every operation runs in an uninterruptible scope, so between two        *)
(* operations any thread that is not blocked may be the next to run (how   *)
(* threads are queued and preempted is the matter of Microthreads).  What  *)
(* happens inside one scope is kept in steps where their order matters:    *)
(* setting the condvar of a nack wakes the calls that wait for it, each of *)
(* which sends nacks of its own, and only then is the chosen mailslot      *)
(* used.  agenda is the stack of the steps that are left; the scope is     *)
(* open while it is not empty.                                             *)
(*                                                                         *)
(* A call has a list of alternatives, in the order in which they are       *)
(* tested, each with the nacks of the DYNAMIC_MAILOP_WITH_NACK groups it   *)
(* lies in, and all nacks of the call.  A plain or nonblocking call has    *)
(* one alternative and no nack.  A message is named by its sender.         *)
(***************************************************************************)
EXTENDS Integers, Sequences, FiniteSets, QueueOperators

CONSTANTS
    Threads, Slots, Maildrops, Oneshots, Mailqueues,
    Nacks,         \* the condvars that prepare makes for nacks
    Programs,      \* each a set of calls that threads make
    Null,
    Stale,         \* a queue entry whose do1mailoprun is complete
    MaxMail,       \* bound: messages in a mailqueue
    MaxPriority    \* bound: the priority counter of a maildrop

Boxes   == Maildrops \cup Oneshots
Objects == Slots \cup Boxes \cup Mailqueues \cup Nacks
Ops(on) == CASE on \in Slots      -> {"put", "take"}
             [] on \in Maildrops  -> {"take", "peek", "swap"}
             [] on \in Oneshots   -> {"peek"}
             [] on \in Mailqueues -> {"take"}
             [] on \in Nacks      -> {"wait"}

Alternatives ==
    [on : Objects, op : {"put", "take", "peek", "swap", "wait"},
     nacks : SUBSET Nacks]
Calls ==
    [call : {"plain", "nonblocking", "mailop"}, alts : Seq(Alternatives),
     nacks : Seq(Nacks)]

\* What stands in a queue for a call that waits.
Entries == [thread : Threads, alt : Alternatives]

ASSUME MailopsAssumption ==
    /\ IsFiniteSet(Objects)
    /\ Slots \cap (Boxes \cup Mailqueues \cup Nacks) = {}
    /\ Boxes \cap (Mailqueues \cup Nacks) = {}
    /\ Mailqueues \cap Nacks = {} /\ Maildrops \cap Oneshots = {}
    /\ Null \notin Threads \cup UNION Programs /\ Stale \notin Entries
    /\ \A m \in UNION Programs :
         /\ m \in Calls
         /\ \A a \in ElementsOf(m.alts) :
              a.op \in Ops(a.on) /\ a.nacks \subseteq ElementsOf(m.nacks)
         /\ m.call # "mailop" => Len(m.alts) = 1 /\ m.nacks = <<>>
         /\ \A i, j \in DOMAIN m.nacks : m.nacks[i] = m.nacks[j] => i = j

VARIABLES
    program,    \* the calls that the threads of this behaviour make
    status,     \* "ready", "prepared" (between prepare and the scope), "blocked"
    call,       \* the call that each thread has not returned from
    result,     \* what it returned, while the thread is ready
    waiting,    \* the queues of blocked calls: in_q, out_q, read_q, ...
    priority,   \* the counters that do_one_mailop compares
    value,      \* of each maildrop and oneshot
    mail,       \* the messages of each mailqueue, oldest first
    made,       \* the nack condvars that exist
    is_set,     \* those that are CONDVAR_IS_SET
    agenda,     \* what is left to do in this uninterruptible scope
    left_open,  \* the thread that came out of a call with the scope open
    raised      \* an exception that never happens has been raised

vars == <<program, status, call, result, waiting, priority, value, mail,
          made, is_set, agenda, left_open, raised>>

-----------------------------------------------------------------------------
(* Queues *)

Other(op) == IF op = "put" THEN "take" ELSE "put"

\* Where a blocked call waits for alternative a, and where its partners do:
\* a mailslot has an out_q of puts and an in_q of takes.
Port(a)    == IF a.on \in Slots THEN <<a.on, a.op>> ELSE <<a.on, "wait">>
Partners(a) == <<a.on, Other(a.op)>>
Ports == (Slots \X {"put", "take"})
         \cup ((Boxes \cup Mailqueues \cup Nacks) \X {"wait"})

IsLive(e) == e # Stale

\* Drop completed calls at the front of a queue.
clean(q) ==
    LET live == {i \in DOMAIN q : IsLive(q[i])}
    IN  IF live = {} THEN <<>>
        ELSE SubSeq(q, CHOOSE i \in live : \A j \in live : i <= j, Len(q))

clean_all(q) == Among(q, {e \in ElementsOf(q) : IsLive(e)})

\* The call of u is complete: do1mailoprun_status is shared by its entries in
\* all queues.  Those of maildrops, mailqueues and condvars are skipped by all
\* who come upon one, so they are dropped here; a mailslot's are not.
completed(w, u) ==
    [p \in Ports |->
        IF p[1] \in Slots
          THEN [i \in DOMAIN w[p] |->
                  IF IsLive(w[p][i]) /\ w[p][i].thread = u THEN Stale
                                                           ELSE w[p][i]]
          ELSE Among(w[p], {e \in ElementsOf(w[p]) : e.thread # u})]

-----------------------------------------------------------------------------
(* Nacks *)

\* The steps of send_nacks_as_appropriate when u's call has been answered by
\* alternative a: a nack is sent unless one of the alternatives that it covers
\* has its flag TRUE.
M_send_nacks(u, a) ==
    LET cs == call[u].nacks
    IN  [i \in DOMAIN cs |-> [do |-> "set", on |-> cs[i]]]

send_nacks(u, a) ==
    LET cs == Among(call[u].nacks, Nacks \ a.nacks)
    IN  [i \in DOMAIN cs |-> [do |-> "set", on |-> cs[i]]]

\* set_condvar__iu, up to the loop over waiting_threads (newest first).
set_condvar ==
    /\ agenda # <<>> /\ Head(agenda).do = "set"
    /\ LET c == Head(agenda).on
           l == Backward(waiting[<<c, "wait">>])
       IN  IF c \notin is_set
             THEN /\ is_set' = is_set \cup {c}
                  /\ waiting' = [waiting EXCEPT ![<<c, "wait">>] = <<>>]
                  /\ agenda' = [i \in DOMAIN l |->
                                  [do |-> "wake", entry |-> l[i]]]
                               \o Tail(agenda)
                  /\ UNCHANGED raised
             ELSE /\ raised' = TRUE /\ agenda' = <<>>   \* condvar already set
                  /\ UNCHANGED <<is_set, waiting>>
    /\ UNCHANGED <<program, status, call, result, priority, value, mail,
                   made, left_open>>

\* One turn of that loop: a call that is still blocked is finished.
wake_waiting_thread ==
    /\ agenda # <<>> /\ Head(agenda).do = "wake"
    /\ LET e == Head(agenda).entry
       IN  IF status[e.thread] = "blocked"
             THEN /\ status' = [status EXCEPT ![e.thread] = "ready"]
                  /\ call' = [call EXCEPT ![e.thread] = Null]
                  /\ waiting' = completed(waiting, e.thread)
                  /\ agenda' = send_nacks(e.thread, e.alt) \o Tail(agenda)
             ELSE agenda' = Tail(agenda) /\ UNCHANGED <<status, call, waiting>>
    /\ UNCHANGED <<program, result, priority, value, mail, made, is_set,
                   left_open, raised>>

-----------------------------------------------------------------------------
(* do_one_mailop *)

Init ==
    /\ program \in Programs
    /\ status = [t \in Threads |-> "ready"]
    /\ call = [t \in Threads |-> Null]
    /\ result = [t \in Threads |-> Null]
    /\ waiting = [p \in Ports |-> <<>>]
    /\ priority = [o \in Objects |-> IF o \in Boxes THEN 0 ELSE 1]
    /\ value = [d \in Boxes |-> Null]
    /\ mail = [q \in Mailqueues |-> <<>>]
    /\ made = {} /\ is_set = {}
    /\ agenda = <<>>
    /\ left_open = Null
    /\ raised = FALSE

\* No scope is open, or t itself has left it open.  A call that makes no nack
\* has nothing to prepare: its scope is entered at once.
may_run(t) ==
    /\ agenda = <<>> /\ ~raised /\ left_open \in {Null, t}
    /\ \A u \in Threads \ {t} : status[u] = "prepared" => call[u].nacks # <<>>

\* t evaluates its mailop expression, which makes the condvars of its nacks;
\* a nack can only be waited for once it exists.
prepare(t, m) ==
    /\ may_run(t) /\ status[t] = "ready"
    /\ ElementsOf(m.nacks) \cap made = {}
    /\ \A a \in ElementsOf(m.alts) :
         a.on \in Nacks => a.on \in made \cup ElementsOf(m.nacks)
    /\ made' = made \cup ElementsOf(m.nacks)
    /\ call' = [call EXCEPT ![t] = m]
    /\ status' = [status EXCEPT ![t] = "prepared"]
    /\ result' = [result EXCEPT ![t] = Null]
    /\ UNCHANGED <<program, waiting, priority, value, mail, is_set, agenda,
                   left_open, raised>>

is_mailop_ready_to_fire(a) ==
    CASE a.on \in Slots      -> clean(waiting[Partners(a)]) # <<>>
      [] a.on \in Boxes      -> value[a.on] # Null
      [] a.on \in Mailqueues -> mail[a.on] # <<>>
      [] a.on \in Nacks      -> a.on \in is_set

\* The indices of the alternatives of t that are found ready.
Ready(t) == {i \in DOMAIN call[t].alts :
               is_mailop_ready_to_fire(call[t].alts[i])}

\* Testing cleans the fronts of the mailslot queues that it looks at.
tested(t) ==
    LET seen == {Partners(a) : a \in {a \in ElementsOf(call[t].alts) :
                                        a.on \in Slots}}
    IN  [p \in Ports |-> IF p \in seen THEN clean(waiting[p]) ELSE waiting[p]]

\* bump_priority: the counter before the test of the i-th alternative, and
\* after all tests.  take_from_maildrop and its like have no counter.
bumps(t, o, i) ==
    IF call[t].call # "mailop" THEN 0
    ELSE Cardinality({j \in Ready(t) : j < i /\ call[t].alts[j].on = o})

priority_of(t, i) ==
    LET o == call[t].alts[i].on IN priority[o] + bumps(t, o, i)

bumped(t) ==
    [o \in Objects |-> priority[o] + bumps(t, o, Len(call[t].alts) + 1)]

highest(t) ==
    {i \in Ready(t) : \A j \in Ready(t) : priority_of(t, j) <= priority_of(t, i)}

\* A mailslot, condvar or mailqueue that t uses is back at 1, a oneshot only
\* when a mailop uses it, a maildrop never.
M_used(pri, t, o) == pri

used(pri, t, o) ==
    IF o \in Maildrops \/ (o \in Oneshots /\ call[t].call # "mailop")
      THEN pri ELSE [pri EXCEPT ![o] = 1]

\* The alternative a of t that has been picked is fired.  A mailslot is fired
\* after the nacks have been sent.  Maildrops, mailqueues and condvars are not
\* touched by the sending of nacks, so firing them is done here.
fire_slot_later(t, a) ==
    /\ agenda' = send_nacks(t, a)
                 \o <<[do |-> "fire", thread |-> t, alt |-> a]>>
    /\ priority' = bumped(t)
    /\ UNCHANGED <<result, value, mail>>

left_in_maildrop(u, op, v) == CASE op = "take" -> Null
                                [] op = "swap" -> u
                                [] op = "peek" -> v

fire_maildrop(t, a) ==
    /\ agenda' = send_nacks(t, a)
    /\ priority' = used(bumped(t), t, a.on)
    /\ result' = [result EXCEPT ![t] = value[a.on]]
    /\ value' = [value EXCEPT ![a.on] = left_in_maildrop(t, a.op, @)]
    /\ UNCHANGED mail

get_msg(t, a) ==
    /\ agenda' = send_nacks(t, a)
    /\ priority' = used(bumped(t), t, a.on)
    /\ result' = [result EXCEPT ![t] = Head(mail[a.on])]
    /\ mail' = [mail EXCEPT ![a.on] = Tail(@)]
    /\ UNCHANGED value

fire_condvar(t, a) ==
    /\ agenda' = send_nacks(t, a)
    /\ priority' = used(bumped(t), t, a.on)
    /\ UNCHANGED <<result, value, mail>>

fire_mailop(t, a) ==
    \/ a.on \in Slots      /\ fire_slot_later(t, a)
    \/ a.on \in Boxes      /\ fire_maildrop(t, a)
    \/ a.on \in Mailqueues /\ get_msg(t, a)
    \/ a.on \in Nacks      /\ fire_condvar(t, a)

\* Some alternatives are ready: one of the highest priority is fired.
do_one_mailop_fires(t) ==
    /\ may_run(t) /\ status[t] = "prepared"
    /\ \A d \in Maildrops : bumped(t)[d] <= MaxPriority
    /\ \E i \in highest(t) : fire_mailop(t, call[t].alts[i])
    /\ status' = [status EXCEPT ![t] = "ready"]
    /\ call' = [call EXCEPT ![t] = Null]
    /\ waiting' = tested(t)
    /\ left_open' = Null
    /\ UNCHANGED <<program, made, is_set, raised>>

\* set_up_mailopready_watch, from the last tested to the first: a mailop cleans
\* the mailslot's queue and joins it, the plain calls only join it.
M_enqueued(w, t) ==
    LET a == call[t].alts[1]
    IN  [w EXCEPT ![Port(a)] = Append(@, [thread |-> t, alt |-> a])]

enqueued(w, t) ==
    [p \in Ports |->
        LET here == {a \in ElementsOf(call[t].alts) : Port(a) = p}
            mine == Backward(Among(call[t].alts, here))
            old  == IF call[t].call = "mailop" THEN clean_all(w[p]) ELSE w[p]
        IN  IF mine = <<>> THEN w[p]
            ELSE old \o [i \in DOMAIN mine |->
                           [thread |-> t, alt |-> mine[i]]]]

do_one_mailop_blocks(t) ==
    /\ may_run(t) /\ status[t] = "prepared"
    /\ Ready(t) = {} /\ call[t].call # "nonblocking"
    /\ status' = [status EXCEPT ![t] = "blocked"]
    /\ waiting' = enqueued(tested(t), t)
    /\ left_open' = Null
    /\ UNCHANGED <<program, call, result, priority, value, mail, made,
                   is_set, agenda, raised>>

\* nonblocking_take_from_maildrop and nonblocking_take_from_oneshot return NULL
\* without ending the scope.
nonblocking_call_gives_up(t) ==
    /\ may_run(t) /\ status[t] = "prepared"
    /\ Ready(t) = {} /\ call[t].call = "nonblocking"
    /\ status' = [status EXCEPT ![t] = "ready"]
    /\ call' = [call EXCEPT ![t] = Null]
    /\ waiting' = tested(t)
    /\ LET a == call[t].alts[1]
       IN  left_open' = IF \/ a.on \in Maildrops /\ a.op = "take"
                           \/ a.on \in Oneshots
                          THEN t ELSE Null
    /\ UNCHANGED <<program, result, priority, value, mail, made, is_set,
                   agenda, raised>>

\* The mailslot is used: the first call in the partners' queue is completed and
\* sends its nacks.  end_do1mailoprun_and_return_thread raises an exception if
\* that call is complete already.
fire_mailslot ==
    /\ agenda # <<>> /\ Head(agenda).do = "fire"
    /\ LET t == Head(agenda).thread
           a == Head(agenda).alt
           e == Head(waiting[Partners(a)])
           w == [waiting EXCEPT ![Partners(a)] = Tail(@)]
       IN  IF IsLive(e)
             THEN /\ status' = [status EXCEPT ![e.thread] = "ready"]
                  /\ call' = [call EXCEPT ![e.thread] = Null]
                  /\ result' = IF a.op = "take"
                                 THEN [result EXCEPT ![t] = e.thread]
                                 ELSE [result EXCEPT ![e.thread] = t]
                  /\ waiting' = completed(w, e.thread)
                  /\ priority' = used(priority, t, a.on)
                  /\ agenda' = send_nacks(e.thread, e.alt)
                  /\ UNCHANGED raised
             ELSE /\ raised' = TRUE /\ agenda' = <<>>
                  /\ waiting' = w
                  /\ UNCHANGED <<status, call, result, priority>>
    /\ UNCHANGED <<program, value, mail, made, is_set, left_open>>

-----------------------------------------------------------------------------
(* Maildrops and mailqueues *)

\* A full maildrop raises an exception in the caller and is left alone.
put_in_maildrop(t, d) ==
    /\ may_run(t) /\ status[t] = "ready"
    /\ left_open' = Null
    /\ IF value[d] = Null
         THEN /\ value' = [value EXCEPT ![d] = t]
              /\ agenda' = <<[do |-> "relay", on |-> d]>>
              /\ priority' = IF waiting[<<d, "wait">>] = <<>> THEN priority
                               ELSE [priority EXCEPT ![d] = 1]
         ELSE UNCHANGED <<value, agenda, priority>>
    /\ UNCHANGED <<program, status, call, result, waiting, mail, made,
                   is_set, raised>>

\* The value goes to the calls that wait for it until one takes it away.
relay_goes_on(a) == a.op # "take"

relay_msg ==
    /\ agenda # <<>> /\ Head(agenda).do = "relay"
    /\ LET d == Head(agenda).on
           q == waiting[<<d, "wait">>]
           u == Head(q).thread
           a == Head(q).alt
       IN  IF q = <<>>
             THEN /\ agenda' = Tail(agenda)
                  /\ UNCHANGED <<status, call, result, waiting, value>>
             ELSE /\ status' = [status EXCEPT ![u] = "ready"]
                  /\ call' = [call EXCEPT ![u] = Null]
                  /\ result' = [result EXCEPT ![u] = value[d]]
                  /\ waiting' = completed(waiting, u)
                  /\ value' = [value EXCEPT ![d] =
                                 left_in_maildrop(u, a.op, @)]
                  /\ agenda' = send_nacks(u, a)
                               \o (IF relay_goes_on(a) THEN agenda
                                                       ELSE Tail(agenda))
    /\ UNCHANGED <<program, priority, mail, made, is_set, left_open, raised>>

\* A message for an empty queue goes to the first call that waits.
put_in_mailqueue(t, q) ==
    /\ may_run(t) /\ status[t] = "ready"
    /\ left_open' = Null
    /\ LET w == waiting[<<q, "wait">>]
           u == Head(w).thread
       IN  \/ /\ mail[q] = <<>> /\ w # <<>>
              /\ status' = [status EXCEPT ![u] = "ready"]
              /\ call' = [call EXCEPT ![u] = Null]
              /\ result' = [result EXCEPT ![u] = t]
              /\ waiting' = completed(waiting, u)
              /\ agenda' = send_nacks(u, Head(w).alt)
              /\ UNCHANGED <<mail, priority>>
           \/ /\ mail[q] # <<>> \/ w = <<>>
              /\ Len(mail[q]) < MaxMail
              /\ mail' = [mail EXCEPT ![q] = Append(@, t)]
              /\ priority' = IF mail[q] = <<>> THEN [priority EXCEPT ![q] = 1]
                                               ELSE priority
              /\ UNCHANGED <<status, call, result, waiting, agenda>>
    /\ UNCHANGED <<program, value, made, is_set, raised>>

-----------------------------------------------------------------------------

\* What the program uses.
Mentioned == UNION {{a.on : a \in ElementsOf(m.alts)} : m \in program}

scope_continues ==
    set_condvar \/ wake_waiting_thread \/ fire_mailslot \/ relay_msg

Next ==
    \/ scope_continues
    \/ \E t \in Threads :
         \/ \E m \in program : prepare(t, m)
         \/ do_one_mailop_fires(t)
         \/ do_one_mailop_blocks(t)
         \/ nonblocking_call_gives_up(t)
         \/ \E d \in Boxes \cap Mentioned : put_in_maildrop(t, d)
         \/ \E q \in Mailqueues \cap Mentioned : put_in_mailqueue(t, q)

Spec == Init /\ [][Next]_vars

-----------------------------------------------------------------------------
(* What the programs must be like for the properties to hold *)

\* A call that waits in a mailslot for the alternative a of another call waits
\* for no nack, if that call sends nacks when a is chosen.
PartnersAwaitNoNack(calls) ==
    \A m, n \in calls :
        \A a \in ElementsOf(m.alts), b \in ElementsOf(n.alts) :
            /\ a.on \in Slots /\ Port(b) = Partners(a)
            /\ ~(ElementsOf(m.nacks) \subseteq a.nacks)
            => \A x \in ElementsOf(n.alts) : x.on \notin Nacks

\* A mailop offers maildrops and nothing else or none, and it offers nothing
\* else twice.
MaildropsApart(calls) ==
    \A m \in calls : m.call = "mailop" =>
        \/ \A a \in ElementsOf(m.alts) : a.on \in Maildrops
        \/ /\ \A a \in ElementsOf(m.alts) : a.on \notin Maildrops
           /\ \A i, j \in DOMAIN m.alts : m.alts[i].on = m.alts[j].on => i = j

-----------------------------------------------------------------------------
(* Properties *)

\* Between two operations a blocked thread is listed wherever its call waits,
\* in a place where its partner will find it, and nothing that it waits for is
\* there: no partner waits on the other side of the mailslot, the maildrop and
\* the mailqueue are empty, the nack has not been sent.
NobodyWaitsInVain ==
    agenda = <<>> /\ ~raised =>
        \A t \in Threads : status[t] = "blocked" =>
            \A a \in ElementsOf(call[t].alts) :
                /\ [thread |-> t, alt |-> a] \in ElementsOf(waiting[Port(a)])
                /\ a.on \in Boxes => value[a.on] = Null
                /\ a.on \in Mailqueues => mail[a.on] = <<>>
                /\ a.on \notin is_set
                /\ a.on \in Slots =>
                     \A e \in ElementsOf(waiting[Partners(a)]) :
                         IsLive(e) => e.thread = t

\* The mailslot rendezvous that has been decided and is about to take place.
Firing == {f \in ElementsOf(agenda) : f.do = "fire"}

\* pick_highest_priority_mailop_breaking_ties_fairly: a mailop that is found
\* ready is passed over at most once for every other thing that can be waited
\* for.  Its counter says how often it has been since it was last fired.
NoReadyMailopIsPassedOver ==
    ~raised =>
        \A o \in Objects \ Maildrops :
            (\A f \in Firing : f.alt.on # o) =>
                priority[o] <= Cardinality(Objects \ Maildrops)

\* `Never happens': the partner that was found waiting when the alternatives
\* were tested is still waiting when its mailslot is fired, and no condvar is
\* set twice.
PartnerIsStillBlocked == ~raised

\* While a rendezvous is decided, the partner that will be used, and the nacks
\* that are still to be sent.
PartnerEntry(f) == Head(waiting[Partners(f.alt)])
Promised == {PartnerEntry(f).thread : f \in Firing}
NackItems == {i \in ElementsOf(agenda) : i.do = "set"}

\* The calls that have not been answered, those that wait, what the answered
\* ones returned, and the nacks sent: a decided rendezvous has taken place.
Pending ==
    [t \in Threads |-> IF status[t] # "ready" /\ t \notin Promised THEN call[t]
                                                                   ELSE Null]
Waiters == {t \in Threads : status[t] = "blocked"} \ Promised

Returned ==
    [t \in Threads |->
        IF \E f \in Firing : f.alt.op = "take" /\ f.thread = t
          THEN CHOOSE u \in Promised : TRUE
        ELSE IF t \in Promised
          THEN LET f == CHOOSE f \in Firing : TRUE
               IN  IF f.alt.op = "put" THEN f.thread ELSE Null
        ELSE result[t]]

Sent ==
    is_set \cup {i.on : i \in NackItems}
    \cup UNION {ElementsOf(call[PartnerEntry(f).thread].nacks)
                  \ PartnerEntry(f).alt.nacks : f \in Firing}

\* The calls behave as MailExchange says: one alternative of each call happens,
\* the two sides of a mailslot together, messages arrive once and in order, and
\* exactly the right nacks are sent.
Exchange == INSTANCE MailExchange WITH
    pending <- Pending, waiting <- Waiters, result <- Returned,
    box <- value, sent <- Sent, Menus <- UNION Programs

ExchangesMail == Exchange!Spec
=============================================================================
