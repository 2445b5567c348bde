---------------------------- MODULE MailopsProofs ----------------------------
(***************************************************************************)
(* Proofs about Mailops: who waits is listed and waits for what is not     *)
(* there; the counters are fair; the calls behave as MailExchange says.    *)
(***************************************************************************)
EXTENDS Mailops, InductionLemmas

-----------------------------------------------------------------------------
(* Elements *)

\* The elements are those at the positions.
LEMMA ElementsIs ==
    ASSUME NEW T, NEW q \in Seq(T)
    PROVE  /\ \A x : x \in ElementsOf(q) <=> \E i \in 1 .. Len(q) : q[i] = x
           /\ ElementsOf(q) \subseteq T
           /\ q = <<>> <=> ElementsOf(q) = {}
           /\ q # <<>> => Head(q) \in ElementsOf(q) /\ Head(q) = q[1]
BY DEF ElementsOf

LEMMA ElementsEmpty == ElementsOf(<<>>) = {}
BY DEF ElementsOf

\* Concatenation.
LEMMA ElementsConcat ==
    ASSUME NEW T, NEW p \in Seq(T), NEW q \in Seq(T)
    PROVE  p \o q \in Seq(T) /\ ElementsOf(p \o q) = ElementsOf(p) \cup ElementsOf(q)
<1>0. PICK r, m, n : r = p \o q /\ m = Len(p) /\ n = Len(q)
  OBVIOUS
<1>1. /\ m \in Nat /\ n \in Nat /\ r \in Seq(T) /\ Len(r) = m + n
      /\ \A i \in 1 .. m : r[i] = p[i]
      /\ \A i \in 1 .. n : r[m + i] = q[i]
  BY <1>0
<1>2. ASSUME NEW x \in ElementsOf(r) PROVE x \in ElementsOf(p) \cup ElementsOf(q)
  <2>1. PICK i \in 1 .. m + n : r[i] = x
    BY <1>1, <1>2, ElementsIs
  <2>2. CASE i \in 1 .. m
    BY <1>0, <1>1, <2>1, <2>2, ElementsIs
  <2>3. CASE i - m \in 1 .. n
    <3>1. x = q[i - m]
      <4>1. m + (i - m) = i
        BY <1>1, <2>1
      <4>. QED BY <1>1, <2>1, <2>3, <4>1
    <3>. QED BY <1>0, <2>3, <3>1, ElementsIs
  <2>. QED
    BY <1>1, <2>1, <2>2, <2>3
<1>3. ASSUME NEW x \in ElementsOf(p) PROVE x \in ElementsOf(r)
  <2>1. PICK i \in 1 .. m : p[i] = x
    BY <1>0, <1>3, ElementsIs
  <2>2. i \in 1 .. Len(r)
    BY <1>1
  <2>3. r[i] = x
    BY <1>1, <2>1
  <2>. QED BY <1>1, <2>2, <2>3, ElementsIs
<1>4. ASSUME NEW x \in ElementsOf(q) PROVE x \in ElementsOf(r)
  <2>1. PICK i \in 1 .. n : q[i] = x
    BY <1>0, <1>4, ElementsIs
  <2>2. m + i \in 1 .. Len(r) /\ r[m + i] = x
    BY <1>1, <2>1
  <2>. QED BY <1>1, <2>2, ElementsIs
<1>. QED
  BY <1>0, <1>1, <1>2, <1>3, <1>4

\* One element.
LEMMA ElementsOne ==
    ASSUME NEW T, NEW x \in T
    PROVE  <<x>> \in Seq(T) /\ ElementsOf(<<x>>) = {x}
BY DEF ElementsOf

\* An element at the end.
LEMMA ElementsAppend ==
    ASSUME NEW T, NEW q \in Seq(T), NEW x \in T
    PROVE  Append(q, x) \in Seq(T) /\ ElementsOf(Append(q, x)) = ElementsOf(q) \cup {x}
<1>0. PICK o : o = <<x>>
  OBVIOUS
<1>1. o \in Seq(T) /\ ElementsOf(o) = {x}
  BY <1>0, ElementsOne
<1>2. Append(q, x) = q \o o
  BY <1>0
<1>3. q \o o \in Seq(T) /\ ElementsOf(q \o o) = ElementsOf(q) \cup ElementsOf(o)
  BY <1>1, ElementsConcat
<1>. QED
  BY <1>1, <1>2, <1>3

\* The first element and the rest.
LEMMA ElementsTail ==
    ASSUME NEW T, NEW q \in Seq(T), q # <<>>
    PROVE  /\ Tail(q) \in Seq(T) /\ Len(Tail(q)) = Len(q) - 1
           /\ Head(q) \in T
           /\ ElementsOf(q) = {Head(q)} \cup ElementsOf(Tail(q))
<1>0. PICK h, o, r : h = Head(q) /\ o = <<h>> /\ r = Tail(q)
  OBVIOUS
<1>1. h \in T /\ r \in Seq(T) /\ Len(r) = Len(q) - 1 /\ q = o \o r
  BY <1>0
<1>2. o \in Seq(T) /\ ElementsOf(o) = {h}
  BY <1>0, <1>1, ElementsOne
<1>3. ElementsOf(o \o r) = ElementsOf(o) \cup ElementsOf(r)
  BY <1>1, <1>2, ElementsConcat
<1>. QED
  BY <1>0, <1>1, <1>2, <1>3

\* The other way round.
LEMMA ElementsBackward ==
    ASSUME NEW T, NEW q \in Seq(T)
    PROVE  Backward(q) \in Seq(T) /\ ElementsOf(Backward(q)) = ElementsOf(q)
<1>1. /\ Backward(q) \in Seq(T) /\ Len(Backward(q)) = Len(q) /\ Len(q) \in Nat
      /\ \A i \in 1 .. Len(q) : Backward(q)[i] = q[Len(q) + 1 - i]
  BY DEF Backward
<1>2. ASSUME NEW x \in ElementsOf(q) PROVE x \in ElementsOf(Backward(q))
  <2>1. PICK i \in 1 .. Len(q) : q[i] = x
    BY <1>2, ElementsIs
  <2>2. Len(q) + 1 - i \in 1 .. Len(q) /\ Backward(q)[Len(q) + 1 - i] = x
    BY <1>1, <2>1
  <2>. QED BY <1>1, <2>2, ElementsIs
<1>3. ASSUME NEW x \in ElementsOf(Backward(q)) PROVE x \in ElementsOf(q)
  <2>1. PICK i \in 1 .. Len(q) : Backward(q)[i] = x
    BY <1>1, <1>3, ElementsIs
  <2>2. Len(q) + 1 - i \in 1 .. Len(q) /\ q[Len(q) + 1 - i] = x
    BY <1>1, <2>1
  <2>. QED BY <2>2, ElementsIs
<1>. QED
  BY <1>1, <1>2, <1>3

\* What Among keeps.
LEMMA ElementsAmong ==
    ASSUME NEW T, NEW q \in Seq(T), NEW S
    PROVE  Among(q, S) \in Seq(T) /\ ElementsOf(Among(q, S)) = ElementsOf(q) \cap S
<1>0. PICK x : x = Among(q, S)
  OBVIOUS
<1>1. Members(x, q, S, T, Len(q))
  BY <1>0, AmongMembers
<1>2. /\ x \in Seq(T \cap S)
      /\ \A j \in 1 .. Len(q) : q[j] \in S => \E m \in 1 .. Len(x) : x[m] = q[j]
      /\ \A m \in 1 .. Len(x) : \E j \in 1 .. Len(q) : q[j] = x[m]
  BY <1>1 DEF Members
<1>3. x \in Seq(T) /\ \A m \in 1 .. Len(x) : x[m] \in S
  BY <1>2
<1>4. \A e : e \in ElementsOf(x) <=> \E m \in 1 .. Len(x) : x[m] = e
  BY <1>3, ElementsIs
<1>5. \A e : e \in ElementsOf(q) <=> \E j \in 1 .. Len(q) : q[j] = e
  BY ElementsIs
<1>6. ASSUME NEW e \in ElementsOf(x) PROVE e \in ElementsOf(q) \cap S
  BY <1>2, <1>3, <1>4, <1>5, <1>6
<1>7. ASSUME NEW e \in ElementsOf(q) \cap S PROVE e \in ElementsOf(x)
  BY <1>2, <1>4, <1>5, <1>7
<1>. QED
  BY <1>0, <1>3, <1>6, <1>7

\* An element occurs if it is counted.
LEMMA ElementsCount ==
    ASSUME NEW T, NEW q \in Seq(T), NEW x
    PROVE  Count(q, x) \in Nat /\ (x \in ElementsOf(q) <=> Count(q, x) # 0)
BY CountType, ElementsIs

\* A sequence without repetitions holds each element once.
LEMMA CountDistinct ==
    ASSUME NEW T, NEW q \in Seq(T), NEW x,
           \A i, j \in DOMAIN q : q[i] = q[j] => i = j
    PROVE  Count(q, x) \in {0, 1}
<1>1. CASE Positions(q, x) = {}
  BY <1>1, FS_EmptySet DEF Count
<1>2. ASSUME NEW i \in Positions(q, x) PROVE Count(q, x) = 1
  <2>1. Positions(q, x) = {i}
    BY <1>2 DEF Positions
  <2>. QED BY <2>1, FS_Singleton DEF Count
<1>. QED
  BY <1>1, <1>2

-----------------------------------------------------------------------------
(* Types *)

SetItem(c)     == [do |-> "set", on |-> c]
WakeItem(e)    == [do |-> "wake", entry |-> e]
RelayItem(d)   == [do |-> "relay", on |-> d]
FireItem(t, a) == [do |-> "fire", thread |-> t, alt |-> a]

SetItems   == {SetItem(c) : c \in Nacks}
WakeItems  == {WakeItem(e) : e \in Entries}
RelayItems == {RelayItem(d) : d \in Boxes}
FireItems  == {FireItem(t, a) : t \in Threads, a \in Alternatives}
Notices    == SetItems \cup WakeItems
Items      == Notices \cup RelayItems \cup FireItems

Queued == Entries \cup {Stale}

MailTypeOK ==
    /\ program \in Programs
    /\ status \in [Threads -> {"ready", "prepared", "blocked"}]
    /\ call \in [Threads -> (UNION Programs) \cup {Null}]
    /\ result \in [Threads -> Threads \cup {Null}]
    /\ waiting \in [Ports -> Seq(Queued)]
    /\ priority \in [Objects -> Nat]
    /\ value \in [Boxes -> Threads \cup {Null}]
    /\ mail \in [Mailqueues -> Seq(Threads)]
    /\ made \in SUBSET Nacks /\ is_set \in SUBSET Nacks
    /\ agenda \in Seq(Items)
    /\ left_open \in Threads \cup {Null} /\ raised \in BOOLEAN

-----------------------------------------------------------------------------
(* The invariant *)

AltsOf(t)  == ElementsOf(call[t].alts)
NacksOf(t) == ElementsOf(call[t].nacks)
Entry(t, a) == [thread |-> t, alt |-> a]
ToDo == ElementsOf(agenda)

\* A thread has a call exactly while it is not ready, and no result meanwhile.
CallsOK ==
    \A t \in Threads :
        /\ status[t] = "ready" <=> call[t] = Null
        /\ status[t] # "ready" => result[t] = Null
        /\ status[t] = "blocked" => call[t].call # "nonblocking"

\* Only mailslots keep entries of completed calls; all other entries belong to
\* blocked threads and stand where their alternative waits.
QueuesOK ==
    \A p \in Ports : \A e \in ElementsOf(waiting[p]) :
        /\ e = Stale => p[1] \in Slots
        /\ e # Stale => /\ status[e.thread] = "blocked"
                        /\ e.alt \in AltsOf(e.thread)
                        /\ Port(e.alt) = p

\* What a blocked thread waits for is listed, or has been taken out of the
\* queue of a condvar that was set and is going to be seen.
ListedOK ==
    \A t \in Threads : status[t] = "blocked" =>
        \A a \in AltsOf(t) :
            IF a.on \in is_set THEN WakeItem(Entry(t, a)) \in ToDo
            ELSE Entry(t, a) \in ElementsOf(waiting[Port(a)])

\* What a blocked thread waits for is not there, or is being handed out.
NothingThere ==
    \A t \in Threads : status[t] = "blocked" =>
        \A a \in AltsOf(t) :
            /\ a.on \in Boxes /\ value[a.on] # Null => RelayItem(a.on) \in ToDo
            /\ a.on \in Mailqueues => mail[a.on] = <<>>
            /\ a.on \in Slots =>
                 \A e \in ElementsOf(waiting[Partners(a)]) :
                     e # Stale => e.thread = t

\* Only nacks and wakings come before anything else on the agenda, and each
\* item finds what it needs.
Ordered(q) == \A i \in 1 .. Len(q) : q[i] \in Notices \/ i = Len(q)

AgendaOK ==
    /\ raised => agenda = <<>>
    /\ Ordered(agenda)
    /\ \A e \in Entries : WakeItem(e) \in ToDo =>
         /\ e.alt.on \in is_set
         /\ status[e.thread] = "blocked" => e.alt \in AltsOf(e.thread)
    /\ \A d \in Boxes : RelayItem(d) \in ToDo => value[d] # Null
    /\ \A t \in Threads, a \in Alternatives : FireItem(t, a) \in ToDo =>
         /\ status[t] = "ready"
         /\ a.on \in Slots /\ a.op \in {"put", "take"}
         /\ waiting[Partners(a)] # <<>>

\* A nack belongs to one call and is sent at most once, when the call is over.
NacksOK ==
    /\ is_set \subseteq made
    /\ \A c \in Nacks : /\ Count(agenda, SetItem(c)) \in {0, 1}
                        /\ SetItem(c) \in ToDo => c \in made \ is_set
    /\ \A t \in Threads : status[t] # "ready" =>
         \A c \in NacksOf(t) : /\ c \in made /\ c \notin is_set
                               /\ SetItem(c) \notin ToDo
    /\ \A t, u \in Threads : t # u /\ status[t] # "ready" /\ status[u] # "ready"
                               => NacksOf(t) \cap NacksOf(u) = {}

MailInv == /\ MailTypeOK /\ CallsOK /\ QueuesOK /\ ListedOK
           /\ NothingThere /\ AgendaOK /\ NacksOK

-----------------------------------------------------------------------------
(* The rendezvous that is decided *)

\* The partner of a decided rendezvous is first in its queue and blocked, and
\* none of the nacks that are still to be sent can wake it.
PromiseOK ==
    \A t \in Threads, a \in Alternatives : FireItem(t, a) \in ToDo =>
        LET e == Head(waiting[Partners(a)])
        IN  /\ e # Stale
            /\ Len(agenda) > 1 => \A x \in AltsOf(e.thread) : x.on \notin Nacks

-----------------------------------------------------------------------------
(* The counters *)

\* The counters of what is not a maildrop, as they will be when the rendezvous
\* that is decided has taken place.
Counters == Objects \ Maildrops
Passed(o) == IF \E f \in Firing : f.alt.on = o THEN 1 ELSE priority[o]

\* Not more than one counter is as high as their number, not more than two
\* higher than that less one, and so on.
CountersOK ==
    ~raised =>
        \A k \in 0 .. Cardinality(Counters) :
            Cardinality({o \in Counters : Passed(o) > k})
                <= Cardinality(Counters) - k

-----------------------------------------------------------------------------
(* Calls, ports and queues *)

\* A port tells the object and, for a mailslot, the operation.
LEMMA PortFacts ==
    ASSUME NEW a \in Alternatives, a.op \in Ops(a.on)
    PROVE  /\ a.on \in Objects /\ a.nacks \in SUBSET Nacks
           /\ Port(a) \in Ports /\ Port(a)[1] = a.on
           /\ a.on \notin Slots => Port(a) = <<a.on, "wait">>
           /\ a.on \in Slots =>
                /\ a.op \in {"put", "take"}
                /\ Port(a) = <<a.on, a.op>>
                /\ Partners(a) \in Ports /\ Partners(a) # Port(a)
                /\ Partners(a)[1] = a.on /\ Partners(a)[2] = Other(a.op)
<1>1. a.on \in Objects /\ a.nacks \in SUBSET Nacks
  BY DEF Alternatives
<1>2. CASE a.on \in Slots
  <2>1. a.on \notin Boxes \cup Mailqueues \cup Nacks
    BY <1>2, MailopsAssumption
  <2>2. a.op \in {"put", "take"}
    <3>1. a.on \notin Maildrops /\ a.on \notin Oneshots
      BY <2>1 DEF Boxes
    <3>2. Ops(a.on) = {"put", "take"}
      BY <1>2, <2>1, <3>1 DEF Ops
    <3>. QED BY <3>2
  <2>. QED
    BY <1>1, <1>2, <2>1, <2>2 DEF Port, Partners, Ports, Other
<1>3. CASE a.on \notin Slots
  <2>1. a.on \in Boxes \cup Mailqueues \cup Nacks
    BY <1>1, <1>3 DEF Objects
  <2>. QED
    BY <1>1, <1>3, <2>1 DEF Port, Ports
<1>. QED
  BY <1>2, <1>3

\* What the assumptions say of a call and its alternatives.
LEMMA CallFacts ==
    ASSUME NEW m \in UNION Programs
    PROVE  /\ m # Null /\ m \in Calls
           /\ m.call \in {"plain", "nonblocking", "mailop"}
           /\ m.alts \in Seq(Alternatives) /\ m.nacks \in Seq(Nacks)
           /\ ElementsOf(m.nacks) \subseteq Nacks
           /\ \A i, j \in DOMAIN m.nacks : m.nacks[i] = m.nacks[j] => i = j
           /\ m.call # "mailop" =>
                /\ Len(m.alts) = 1 /\ m.alts[1] \in ElementsOf(m.alts)
                /\ m.nacks = <<>>
           /\ \A a \in ElementsOf(m.alts) :
                /\ a \in Alternatives /\ a.op \in Ops(a.on)
                /\ a.nacks \subseteq ElementsOf(m.nacks)
<1>1. /\ m # Null /\ m \in Calls
      /\ \A a \in ElementsOf(m.alts) :
           a.op \in Ops(a.on) /\ a.nacks \subseteq ElementsOf(m.nacks)
      /\ m.call # "mailop" => Len(m.alts) = 1 /\ m.nacks = <<>>
      /\ \A i, j \in DOMAIN m.nacks : m.nacks[i] = m.nacks[j] => i = j
  BY MailopsAssumption
<1>2. /\ m.call \in {"plain", "nonblocking", "mailop"}
      /\ m.alts \in Seq(Alternatives) /\ m.nacks \in Seq(Nacks)
  BY <1>1 DEF Calls
<1>3. ElementsOf(m.alts) \subseteq Alternatives /\ ElementsOf(m.nacks) \subseteq Nacks
  BY <1>2, ElementsIs
<1>4. m.call # "mailop" => m.alts[1] \in ElementsOf(m.alts)
  <2>1. 1 \in 1 .. 1
    OBVIOUS
  <2>. QED BY <1>1, <1>2, <2>1, ElementsIs
<1>. QED
  BY <1>1, <1>2, <1>3, <1>4

\* The call of a thread that is not ready.
LEMMA CallOf ==
    ASSUME MailTypeOK, CallsOK, NEW t \in Threads, status[t] # "ready"
    PROVE  /\ call[t] \in UNION Programs
           /\ status[t] \in {"prepared", "blocked"}
           /\ \A a \in AltsOf(t) :
                /\ a \in Alternatives /\ a.op \in Ops(a.on)
                /\ a.nacks \subseteq NacksOf(t)
           /\ NacksOf(t) \subseteq Nacks
<1>1. call[t] \in UNION Programs /\ status[t] \in {"prepared", "blocked"}
  <2>1. /\ status[t] \in {"ready", "prepared", "blocked"}
        /\ call[t] \in (UNION Programs) \cup {Null}
    BY DEF MailTypeOK
  <2>2. call[t] # Null
    BY DEF CallsOK
  <2>. QED BY <2>1, <2>2
<1>. QED
  BY <1>1, CallFacts DEF AltsOf, NacksOf

\* clean drops only entries of completed calls, and all that come first.
LEMMA CleanFacts ==
    ASSUME NEW q \in Seq(Queued)
    PROVE  /\ clean(q) \in Seq(Queued)
           /\ ElementsOf(clean(q)) \subseteq ElementsOf(q)
           /\ \A e \in ElementsOf(q) : e # Stale => e \in ElementsOf(clean(q))
           /\ clean(q) # <<>> => Head(clean(q)) # Stale
           /\ q \in Seq(Entries) => clean(q) = q
<1>. DEFINE live == {i \in DOMAIN q : IsLive(q[i])}
<1>0. Len(q) \in Nat /\ DOMAIN q = 1 .. Len(q) /\ live \subseteq 1 .. Len(q)
  OBVIOUS
<1>1. CASE live = {}
  <2>1. clean(q) = <<>>
    BY <1>1 DEF clean
  <2>2. \A e \in ElementsOf(q) : e = Stale
    BY <1>0, <1>1, ElementsIs DEF IsLive
  <2>3. q \in Seq(Entries) => q = <<>>
    <3>1. q \in Seq(Entries) /\ q # <<>> => 1 \in 1 .. Len(q) /\ q[1] \in Entries
      BY <1>0
    <3>. QED BY <1>0, <1>1, <3>1, MailopsAssumption DEF IsLive
  <2>. QED
    BY <2>1, <2>2, <2>3, ElementsEmpty
<1>2. CASE live # {}
  <2>. DEFINE k == CHOOSE i \in live : \A j \in live : i <= j
  <2>1. live \in SUBSET Nat
    BY <1>0
  <2>2. \E i \in live : \A j \in live : i <= j
    <3>. HIDE DEF live
    <3>. QED BY <1>2, <2>1, LeastNatural
  <2>3. k \in live /\ \A j \in live : k <= j
    <3>. HIDE DEF live
    <3>. QED BY <2>2
  <2>4. clean(q) = SubSeq(q, k, Len(q))
    BY <1>2 DEF clean
  <2>. HIDE DEF k
  <2>5. k \in 1 .. Len(q)
    BY <1>0, <2>3
  <2>6. PICK r, n : r = SubSeq(q, k, Len(q)) /\ n = Len(q) - k + 1
    OBVIOUS
  <2>7. /\ n \in Nat /\ r \in Seq(Queued) /\ Len(r) = n /\ n >= 1
        /\ \A i \in 1 .. n : r[i] = q[k + i - 1]
    BY <1>0, <2>5, <2>6
  <2>8. ElementsOf(r) \subseteq ElementsOf(q)
    <3>. SUFFICES ASSUME NEW e \in ElementsOf(r) PROVE e \in ElementsOf(q)
      OBVIOUS
    <3>1. PICK i \in 1 .. n : r[i] = e
      BY <2>7, ElementsIs
    <3>2. k + i - 1 \in 1 .. Len(q)
      BY <1>0, <2>5, <2>6, <2>7
    <3>3. q[k + i - 1] = e
      BY <2>7, <3>1
    <3>. QED BY <3>2, <3>3, ElementsIs
  <2>9. ASSUME NEW e \in ElementsOf(q), e # Stale PROVE e \in ElementsOf(r)
    <3>1. PICK j \in 1 .. Len(q) : q[j] = e
      BY ElementsIs
    <3>2. k <= j
      BY <1>0, <2>3, <2>9, <3>1 DEF IsLive
    <3>3. j - k + 1 \in 1 .. n /\ k + (j - k + 1) - 1 = j
      BY <1>0, <2>5, <2>6, <3>1, <3>2
    <3>4. r[j - k + 1] = e
      BY <2>7, <3>1, <3>3
    <3>. QED BY <2>7, <3>3, <3>4, ElementsIs
  <2>10. r[1] = q[k] /\ Head(r) = r[1] /\ q[k] # Stale
    <3>1. 1 \in 1 .. n /\ k + 1 - 1 = k
      BY <2>5, <2>7
    <3>2. r[1] = q[k]
      BY <2>7, <3>1
    <3>3. Head(r) = r[1]
      BY <2>7
    <3>. QED BY <2>3, <3>2, <3>3 DEF IsLive
  <2>11. ASSUME q \in Seq(Entries) PROVE r = q
    <3>1. 1 \in 1 .. Len(q) /\ q[1] \in Entries
      BY <1>0, <2>5, <2>11
    <3>2. 1 \in live
      BY <1>0, <3>1, MailopsAssumption DEF IsLive
    <3>3. k = 1 /\ n = Len(q)
      BY <1>0, <2>3, <2>5, <2>6, <3>2
    <3>. QED BY <2>6, <3>3
  <2>. QED
    BY <2>4, <2>6, <2>7, <2>8, <2>9, <2>10, <2>11
<1>. QED
  BY <1>1, <1>2

\* clean_all drops them all.
LEMMA CleanAllFacts ==
    ASSUME NEW q \in Seq(Queued)
    PROVE  /\ clean_all(q) \in Seq(Queued)
           /\ ElementsOf(clean_all(q)) = {e \in ElementsOf(q) : e # Stale}
<1>1. ElementsOf(clean_all(q)) = ElementsOf(q) \cap {e \in ElementsOf(q) : IsLive(e)}
      /\ clean_all(q) \in Seq(Queued)
  BY ElementsAmong DEF clean_all
<1>. QED
  BY <1>1 DEF IsLive

\* What completing the call of u leaves in the queues.
LEMMA CompletedFacts ==
    ASSUME NEW w \in [Ports -> Seq(Queued)], NEW u \in Threads
    PROVE  /\ completed(w, u) \in [Ports -> Seq(Queued)]
           /\ \A p \in Ports : \A e :
                e # Stale => (e \in ElementsOf(completed(w, u)[p])
                                <=> e \in ElementsOf(w[p]) /\ e.thread # u)
           /\ \A p \in Ports : p[1] \notin Slots =>
                ElementsOf(completed(w, u)[p]) \subseteq ElementsOf(w[p])
           /\ \A p \in Ports : p[1] \in Slots =>
                /\ Len(completed(w, u)[p]) = Len(w[p])
                /\ w[p] # <<>> /\ Head(w[p]) # Stale /\ Head(w[p]).thread # u =>
                     Head(completed(w, u)[p]) = Head(w[p])
<1>. SUFFICES ASSUME NEW p \in Ports
     PROVE  /\ completed(w, u)[p] \in Seq(Queued)
            /\ \A e :
                e # Stale => (e \in ElementsOf(completed(w, u)[p])
                                <=> e \in ElementsOf(w[p]) /\ e.thread # u)
            /\ p[1] \notin Slots =>
                ElementsOf(completed(w, u)[p]) \subseteq ElementsOf(w[p])
            /\ p[1] \in Slots =>
                /\ Len(completed(w, u)[p]) = Len(w[p])
                /\ w[p] # <<>> /\ Head(w[p]) # Stale /\ Head(w[p]).thread # u =>
                     Head(completed(w, u)[p]) = Head(w[p])
  BY DEF completed
<1>0. PICK q : q = w[p] /\ q \in Seq(Queued)
  OBVIOUS
<1>1. CASE p[1] \notin Slots
  <2>1. completed(w, u)[p] = Among(q, {e \in ElementsOf(q) : e.thread # u})
    BY <1>0, <1>1 DEF completed
  <2>. QED
    BY <1>0, <1>1, <2>1, ElementsAmong
<1>2. CASE p[1] \in Slots
  <2>1. PICK r : r = [i \in DOMAIN q |-> IF IsLive(q[i]) /\ q[i].thread = u
                                           THEN Stale ELSE q[i]]
    OBVIOUS
  <2>2. completed(w, u)[p] = r
    BY <1>0, <1>2, <2>1 DEF completed
  <2>3. /\ r \in Seq(Queued) /\ Len(r) = Len(q) /\ Len(q) \in Nat
        /\ \A i \in 1 .. Len(q) : r[i] = IF q[i] # Stale /\ q[i].thread = u
                                           THEN Stale ELSE q[i]
    <3>1. /\ DOMAIN q = 1 .. Len(q) /\ Len(q) \in Nat
          /\ \A i \in 1 .. Len(q) : q[i] \in Queued
      BY <1>0
    <3>2. \A i \in 1 .. Len(q) : r[i] = IF q[i] # Stale /\ q[i].thread = u
                                          THEN Stale ELSE q[i]
      BY <2>1, <3>1 DEF IsLive
    <3>3. \A i \in 1 .. Len(q) : r[i] \in Queued
      BY <3>1, <3>2 DEF Queued
    <3>4. r \in [1 .. Len(q) -> Queued]
      BY <2>1, <3>1, <3>3
    <3>5. r \in Seq(Queued) /\ Len(r) = Len(q)
      BY <3>1, <3>4
    <3>. QED BY <3>1, <3>2, <3>5
  <2>4. ASSUME NEW e, e # Stale
        PROVE  e \in ElementsOf(r) <=> e \in ElementsOf(q) /\ e.thread # u
    <3>1. e \in ElementsOf(r) <=> \E i \in 1 .. Len(q) : r[i] = e
      BY <2>3, ElementsIs
    <3>2. e \in ElementsOf(q) <=> \E i \in 1 .. Len(q) : q[i] = e
      BY <1>0, ElementsIs
    <3>. QED BY <2>3, <2>4, <3>1, <3>2
  <2>5. ASSUME q # <<>>, Head(q) # Stale, Head(q).thread # u
        PROVE  Head(r) = Head(q)
    <3>1. 1 \in 1 .. Len(q) /\ Head(q) = q[1] /\ Head(r) = r[1]
      BY <1>0, <2>3, <2>5
    <3>. QED BY <2>3, <2>5, <3>1
  <2>. QED
    BY <1>0, <1>2, <2>2, <2>3, <2>4, <2>5
<1>. QED
  BY <1>1, <1>2

\* The notices of the nacks that the answer to a call does not cover.
LEMMA SendNacksFacts ==
    ASSUME MailTypeOK, CallsOK, NEW u \in Threads, status[u] # "ready", NEW a
    PROVE  /\ send_nacks(u, a) \in Seq(SetItems)
           /\ ElementsOf(send_nacks(u, a)) = {SetItem(c) : c \in NacksOf(u) \ a.nacks}
           /\ \A x : Count(send_nacks(u, a), x) \in {0, 1}
<1>1. /\ call[u] \in UNION Programs /\ NacksOf(u) \subseteq Nacks
  BY CallOf
<1>2. PICK q : q = call[u].nacks /\ q \in Seq(Nacks)
               /\ \A i, j \in DOMAIN q : q[i] = q[j] => i = j
  BY <1>1, CallFacts
<1>3. PICK cs : cs = Among(q, Nacks \ a.nacks)
  OBVIOUS
<1>4. /\ cs \in Seq(Nacks) /\ ElementsOf(cs) = NacksOf(u) \ a.nacks
  BY <1>1, <1>2, <1>3, ElementsAmong DEF NacksOf
<1>5. PICK s : s = [i \in DOMAIN cs |-> SetItem(cs[i])]
  OBVIOUS
<1>6. send_nacks(u, a) = s
  BY <1>2, <1>3, <1>5 DEF send_nacks, SetItem
<1>7. /\ s \in Seq(SetItems) /\ Len(s) = Len(cs) /\ Len(s) \in Nat
      /\ \A i \in 1 .. Len(s) : s[i] = SetItem(cs[i]) /\ cs[i] \in Nacks
  <2>1. /\ DOMAIN cs = 1 .. Len(cs) /\ Len(cs) \in Nat
        /\ \A i \in 1 .. Len(cs) : cs[i] \in Nacks
    BY <1>4
  <2>2. s \in [1 .. Len(cs) -> SetItems]
    BY <1>5, <2>1 DEF SetItems
  <2>. QED
    BY <1>5, <2>1, <2>2
<1>8. ElementsOf(s) = {SetItem(c) : c \in ElementsOf(cs)}
  <2>1. \A x : x \in ElementsOf(s) <=> \E i \in 1 .. Len(s) : s[i] = x
    BY <1>7, ElementsIs
  <2>2. \A x : x \in ElementsOf(cs) <=> \E i \in 1 .. Len(s) : cs[i] = x
    BY <1>4, <1>7, ElementsIs
  <2>. QED
    BY <1>7, <2>1, <2>2
<1>9. ASSUME NEW x PROVE Count(s, x) \in {0, 1}
  <2>1. ASSUME NEW c \in Nacks PROVE Count(cs, c) \in {0, 1}
    <3>1. CASE c \in a.nacks
      <4>1. Count(cs, c) = 0
        BY <1>4, <3>1, ElementsCount
      <4>. QED BY <4>1
    <3>2. CASE c \notin a.nacks
      <4>1. Count(cs, c) = Count(q, c)
        BY <1>2, <1>3, <3>2, CountAmong
      <4>. QED BY <1>2, <4>1, CountDistinct
    <3>. QED BY <3>1, <3>2
  <2>2. ASSUME NEW c \in Nacks, x = SetItem(c) PROVE Count(s, x) = Count(cs, c)
    <3>1. \A d \in Nacks : SetItem(d) = SetItem(c) => d = c
      BY DEF SetItem
    <3>2. Positions(s, x) = Positions(cs, c)
      BY <1>7, <2>2, <3>1 DEF Positions
    <3>. QED BY <3>2 DEF Count
  <2>3. CASE x \in SetItems
    <3>1. PICK c \in Nacks : x = SetItem(c)
      BY <2>3 DEF SetItems
    <3>. QED BY <2>1, <2>2, <3>1
  <2>4. CASE x \notin SetItems
    <3>1. x \notin ElementsOf(s)
      BY <1>7, <2>4, ElementsIs
    <3>. QED BY <1>7, <3>1, ElementsCount
  <2>. QED BY <2>3, <2>4
<1>. QED
  BY <1>4, <1>6, <1>7, <1>8, <1>9

-----------------------------------------------------------------------------
(* A call is answered *)

Answered(u) == /\ status' = [status EXCEPT ![u] = "ready"]
               /\ call' = [call EXCEPT ![u] = Null]

\* The entries of u, and no others, leave the queues.
Leaves(u) ==
    /\ waiting' \in [Ports -> Seq(Queued)]
    /\ \A p \in Ports : \A e :
         e # Stale => (e \in ElementsOf(waiting[p])'
                         <=> e \in ElementsOf(waiting[p]) /\ e.thread # u)
    /\ \A p \in Ports : Stale \in ElementsOf(waiting[p])' => p[1] \in Slots

\* Nothing new is there for those who wait, and whoever is going to be served
\* still is.
NothingNew(u) ==
    /\ \A e \in Entries : WakeItem(e) \in ToDo /\ e.thread # u => WakeItem(e) \in ToDo'
    /\ \A d \in Boxes : value'[d] # Null =>
         value[d] # Null /\ (RelayItem(d) \in ToDo => RelayItem(d) \in ToDo')
    /\ \A q \in Mailqueues : mail[q] = <<>> => mail'[q] = <<>>

\* The other threads and their calls stay as they are.
LEMMA OthersStay ==
    ASSUME MailTypeOK, CallsOK, NEW u \in Threads, Answered(u)
    PROVE  \A t \in Threads :
             /\ t # u => /\ status'[t] = status[t] /\ call'[t] = call[t]
                         /\ AltsOf(t)' = AltsOf(t) /\ NacksOf(t)' = NacksOf(t)
             /\ t = u => status'[t] = "ready" /\ call'[t] = Null
<1>1. status \in [Threads -> {"ready", "prepared", "blocked"}] /\ DOMAIN call = Threads
  BY DEF MailTypeOK
<1>2. ASSUME NEW t \in Threads, t # u
      PROVE  status'[t] = status[t] /\ call'[t] = call[t]
  BY <1>1, <1>2 DEF Answered
<1>3. status'[u] = "ready" /\ call'[u] = Null
  BY <1>1 DEF Answered
<1>. QED
  BY <1>2, <1>3 DEF AltsOf, NacksOf

LEMMA AnswerKeepsQueues ==
    ASSUME MailInv, NEW u \in Threads, Answered(u), Leaves(u)
    PROVE  QueuesOK'
<1>1. MailTypeOK /\ CallsOK /\ QueuesOK
  BY DEF MailInv
<1>2. SUFFICES ASSUME NEW p \in Ports, NEW e \in ElementsOf(waiting[p])'
      PROVE  /\ e = Stale => p[1] \in Slots
             /\ e # Stale => /\ status'[e.thread] = "blocked"
                             /\ e.alt \in AltsOf(e.thread)'
                             /\ Port(e.alt) = p
  BY DEF QueuesOK, AltsOf
<1>3. ASSUME e # Stale
      PROVE  /\ status'[e.thread] = "blocked" /\ e.alt \in AltsOf(e.thread)'
             /\ Port(e.alt) = p
  <2>1. e \in ElementsOf(waiting[p]) /\ e.thread # u
    BY <1>2, <1>3 DEF Leaves
  <2>2. /\ status[e.thread] = "blocked" /\ e.alt \in AltsOf(e.thread)
        /\ Port(e.alt) = p
    BY <1>1, <1>3, <2>1 DEF QueuesOK
  <2>3. e.thread \in Threads
    <3>1. waiting[p] \in Seq(Queued)
      BY <1>1 DEF MailTypeOK
    <3>2. e \in Queued
      BY <2>1, <3>1, ElementsIs
    <3>. QED BY <1>3, <3>2 DEF Queued, Entries
  <2>. QED
    BY <1>1, <2>1, <2>2, <2>3, OthersStay
<1>. QED
  BY <1>2, <1>3 DEF Leaves

LEMMA AnswerKeepsWaiting ==
    ASSUME MailInv, NEW u \in Threads, Answered(u), Leaves(u), NothingNew(u),
           is_set' = is_set
    PROVE  ListedOK' /\ NothingThere'
<1>1. MailTypeOK /\ CallsOK /\ ListedOK /\ NothingThere
  BY DEF MailInv
<1>2. ASSUME NEW t \in Threads, status'[t] = "blocked", NEW a \in AltsOf(t)'
      PROVE  /\ t # u /\ status[t] = "blocked" /\ a \in AltsOf(t)
             /\ a \in Alternatives /\ a.op \in Ops(a.on)
             /\ a.on \in Objects /\ Port(a) \in Ports
             /\ a.on \in Slots => Partners(a) \in Ports
             /\ Entry(t, a) \in Entries /\ Entry(t, a).thread = t
             /\ Entry(t, a) # Stale
  <2>1. t # u /\ status[t] = "blocked" /\ a \in AltsOf(t)
    BY <1>1, <1>2, OthersStay
  <2>2. a \in Alternatives /\ a.op \in Ops(a.on)
    BY <1>1, <2>1, CallOf
  <2>3. a.on \in Objects /\ Port(a) \in Ports /\ (a.on \in Slots => Partners(a) \in Ports)
    BY <2>2, PortFacts
  <2>4. Entry(t, a) \in Entries /\ Entry(t, a).thread = t
    BY <2>2 DEF Entry, Entries
  <2>. QED
    BY <2>1, <2>2, <2>3, <2>4, MailopsAssumption
<1>3. ASSUME NEW t \in Threads, status'[t] = "blocked", NEW a \in AltsOf(t)'
      PROVE  IF a.on \in is_set' THEN WakeItem(Entry(t, a)) \in ToDo'
             ELSE Entry(t, a) \in ElementsOf(waiting[Port(a)])'
  <2>0. PICK e : e = Entry(t, a)
    OBVIOUS
  <2>1. /\ t # u /\ status[t] = "blocked" /\ a \in AltsOf(t)
        /\ e \in Entries /\ e.thread = t /\ e # Stale /\ Port(a) \in Ports
    BY <1>2, <1>3, <2>0
  <2>2. IF a.on \in is_set THEN WakeItem(e) \in ToDo
        ELSE e \in ElementsOf(waiting[Port(a)])
    BY <1>1, <2>0, <2>1 DEF ListedOK
  <2>3. CASE a.on \in is_set
    <3>1. WakeItem(e) \in ToDo'
      BY <2>1, <2>2, <2>3 DEF NothingNew
    <3>. QED BY <2>0, <2>3, <3>1
  <2>4. CASE a.on \notin is_set
    <3>1. e \in ElementsOf(waiting[Port(a)])'
      BY <2>1, <2>2, <2>4 DEF Leaves
    <3>. QED BY <2>0, <2>4, <3>1
  <2>. QED
    BY <2>3, <2>4
<1>4. ASSUME NEW t \in Threads, status'[t] = "blocked", NEW a \in AltsOf(t)'
      PROVE  /\ a.on \in Boxes /\ value'[a.on] # Null => RelayItem(a.on) \in ToDo'
             /\ a.on \in Mailqueues => mail'[a.on] = <<>>
             /\ a.on \in Slots =>
                  \A e \in ElementsOf(waiting[Partners(a)])' :
                      e # Stale => e.thread = t
  <2>1. /\ t # u /\ status[t] = "blocked" /\ a \in AltsOf(t)
        /\ a.on \in Slots => Partners(a) \in Ports
    BY <1>2, <1>4
  <2>2. /\ a.on \in Boxes /\ value[a.on] # Null => RelayItem(a.on) \in ToDo
        /\ a.on \in Mailqueues => mail[a.on] = <<>>
        /\ a.on \in Slots =>
             \A e \in ElementsOf(waiting[Partners(a)]) :
                 e # Stale => e.thread = t
    BY <1>1, <2>1 DEF NothingThere
  <2>3. a.on \in Boxes /\ value'[a.on] # Null => RelayItem(a.on) \in ToDo'
    BY <2>2 DEF NothingNew
  <2>4. a.on \in Mailqueues => mail'[a.on] = <<>>
    BY <2>2 DEF NothingNew
  <2>5. ASSUME a.on \in Slots, NEW e \in ElementsOf(waiting[Partners(a)])', e # Stale
        PROVE  e.thread = t
    BY <2>1, <2>2, <2>5 DEF Leaves
  <2>. QED
    BY <2>3, <2>4, <2>5
<1>. QED
  BY <1>3, <1>4 DEF ListedOK, NothingThere, Entry, WakeItem, RelayItem

\* The nacks of the call that the answer does not cover are now to be sent.
LEMMA AnswerKeepsNacks ==
    ASSUME MailInv, NEW u \in Threads, status[u] # "ready", Answered(u), NEW a,
           is_set' = is_set, made' = made,
           NEW rest \in Seq(Items), agenda' = send_nacks(u, a) \o rest,
           \A c \in Nacks : Count(rest, SetItem(c)) <= Count(agenda, SetItem(c))
    PROVE  NacksOK' /\ agenda' \in Seq(Items)
           /\ ToDo' = {SetItem(c) : c \in NacksOf(u) \ a.nacks} \cup ElementsOf(rest)
<1>1. MailTypeOK /\ CallsOK /\ NacksOK
  BY DEF MailInv
<1>2. PICK s : /\ s = send_nacks(u, a) /\ s \in Seq(SetItems)
               /\ ElementsOf(s) = {SetItem(c) : c \in NacksOf(u) \ a.nacks}
               /\ \A x : Count(s, x) \in {0, 1}
  BY <1>1, SendNacksFacts
<1>3. s \in Seq(Items)
  <2>1. SetItems \subseteq Items
    BY DEF Items, Notices
  <2>. QED BY <1>2, <2>1
<1>4. agenda' = s \o rest
  BY <1>2
<1>5. /\ agenda' \in Seq(Items)
      /\ ToDo' = {SetItem(c) : c \in NacksOf(u) \ a.nacks} \cup ElementsOf(rest)
  <2>1. s \o rest \in Seq(Items) /\ ElementsOf(s \o rest) = ElementsOf(s) \cup ElementsOf(rest)
    BY <1>3, ElementsConcat
  <2>. QED BY <1>2, <1>4, <2>1 DEF ToDo
<1>6. \A c, d \in Nacks : SetItem(c) = SetItem(d) => c = d
  BY DEF SetItem
<1>7. NacksOf(u) \subseteq Nacks /\ agenda \in Seq(Items)
  BY <1>1, CallOf DEF MailTypeOK
<1>8. ASSUME NEW c \in Nacks
      PROVE  /\ Count(agenda, SetItem(c))' \in {0, 1}
             /\ SetItem(c) \in ToDo' <=> \/ c \in NacksOf(u) \ a.nacks
                                         \/ SetItem(c) \in ElementsOf(rest)
             /\ SetItem(c) \in ElementsOf(rest) => SetItem(c) \in ToDo
  <2>1. /\ Count(s \o rest, SetItem(c)) = Count(s, SetItem(c)) + Count(rest, SetItem(c))
    BY <1>3, CountConcat
  <2>2. SetItem(c) \in ToDo' <=> \/ c \in NacksOf(u) \ a.nacks
                                 \/ SetItem(c) \in ElementsOf(rest)
    BY <1>5, <1>6, <1>7
  <2>3. /\ Count(agenda, SetItem(c)) \in {0, 1}
        /\ SetItem(c) \in ToDo <=> Count(agenda, SetItem(c)) # 0
        /\ SetItem(c) \in ElementsOf(rest) <=> Count(rest, SetItem(c)) # 0
        /\ Count(rest, SetItem(c)) \in Nat
        /\ Count(rest, SetItem(c)) <= Count(agenda, SetItem(c))
    BY <1>1, <1>7, ElementsCount DEF NacksOK, ToDo
  <2>4. CASE c \in NacksOf(u)
    <3>1. SetItem(c) \notin ToDo
      BY <1>1, <2>4 DEF NacksOK
    <3>2. Count(rest, SetItem(c)) = 0
      BY <2>3, <3>1
    <3>3. Count(s, SetItem(c)) \in {0, 1}
      BY <1>2
    <3>. QED BY <1>4, <2>1, <2>2, <2>3, <3>2, <3>3
  <2>5. CASE c \notin NacksOf(u)
    <3>1. SetItem(c) \notin ElementsOf(s)
      BY <1>2, <1>6, <1>7, <2>5
    <3>2. Count(s, SetItem(c)) = 0
      BY <1>3, <3>1, ElementsCount
    <3>. QED BY <1>4, <2>1, <2>2, <2>3, <3>2
  <2>. QED
    BY <2>4, <2>5
<1>9. \A t \in Threads :
        /\ t # u => status'[t] = status[t] /\ NacksOf(t)' = NacksOf(t)
        /\ t = u => status'[t] = "ready"
  BY <1>1, OthersStay
<1>10. is_set' \subseteq made'
  BY <1>1 DEF NacksOK
<1>11. ASSUME NEW c \in Nacks, SetItem(c) \in ToDo' PROVE c \in made' \ is_set'
  <2>1. CASE c \in NacksOf(u)
    BY <1>1, <2>1 DEF NacksOK
  <2>2. CASE SetItem(c) \in ToDo
    BY <1>1, <2>2 DEF NacksOK
  <2>. QED
    BY <1>8, <1>11, <2>1, <2>2
<1>12. ASSUME NEW t \in Threads, status'[t] # "ready", NEW c \in NacksOf(t)'
       PROVE  c \in made' /\ c \notin is_set' /\ SetItem(c) \notin ToDo'
  <2>1. t # u /\ status[t] # "ready" /\ c \in NacksOf(t)
    BY <1>9, <1>12
  <2>2. c \in made /\ c \notin is_set /\ SetItem(c) \notin ToDo
    BY <1>1, <2>1 DEF NacksOK
  <2>3. c \notin NacksOf(u) /\ c \in Nacks
    <3>1. NacksOf(t) \cap NacksOf(u) = {}
      BY <1>1, <2>1 DEF NacksOK
    <3>. QED BY <1>1, <2>1, <3>1, CallOf
  <2>. QED
    BY <1>8, <2>2, <2>3
<1>13. ASSUME NEW t \in Threads, NEW v \in Threads, t # v,
              status'[t] # "ready", status'[v] # "ready"
       PROVE  NacksOf(t)' \cap NacksOf(v)' = {}
  <2>1. /\ t # u /\ status[t] # "ready" /\ NacksOf(t)' = NacksOf(t)
        /\ v # u /\ status[v] # "ready" /\ NacksOf(v)' = NacksOf(v)
    BY <1>9, <1>13
  <2>. QED BY <1>1, <1>13, <2>1 DEF NacksOK
<1>14. NacksOK'
  BY <1>8, <1>10, <1>11, <1>12, <1>13 DEF NacksOK, SetItem
<1>. QED
  BY <1>5, <1>14

-----------------------------------------------------------------------------
(* The agenda *)

\* The kinds of items differ.
LEMMA ItemKinds ==
    /\ \A c \in Nacks : /\ SetItem(c).do = "set" /\ SetItem(c).on = c
                        /\ SetItem(c) \in Notices
    /\ \A e \in Entries : /\ WakeItem(e).do = "wake" /\ WakeItem(e).entry = e
                          /\ WakeItem(e) \in Notices
    /\ \A d \in Boxes : /\ RelayItem(d).do = "relay" /\ RelayItem(d).on = d
                        /\ RelayItem(d) \in Items
    /\ \A t \in Threads, a \in Alternatives :
         /\ FireItem(t, a).do = "fire" /\ FireItem(t, a).thread = t
         /\ FireItem(t, a).alt = a /\ FireItem(t, a) \in Items
    /\ \A x \in Notices : x.do \in {"set", "wake"} /\ x \in Items
    /\ \A x \in Items :
         /\ x.do = "set" => \E c \in Nacks : x = SetItem(c)
         /\ x.do = "wake" => \E e \in Entries : x = WakeItem(e)
         /\ x.do = "relay" => \E d \in Boxes : x = RelayItem(d)
         /\ x.do = "fire" => \E t \in Threads, a \in Alternatives : x = FireItem(t, a)
<1>1. /\ \A c : SetItem(c).do = "set" /\ SetItem(c).on = c
      /\ \A e : WakeItem(e).do = "wake" /\ WakeItem(e).entry = e
      /\ \A d : RelayItem(d).do = "relay" /\ RelayItem(d).on = d
      /\ \A t, a : /\ FireItem(t, a).do = "fire" /\ FireItem(t, a).thread = t
                   /\ FireItem(t, a).alt = a
  BY DEF SetItem, WakeItem, RelayItem, FireItem
<1>. QED
  BY <1>1 DEF Items, Notices, SetItems, WakeItems, RelayItems, FireItems

\* Notices may be put before what is on the agenda.
LEMMA OrderKept ==
    ASSUME NEW p \in Seq(Notices), NEW q \in Seq(Items), Ordered(q)
    PROVE  /\ p \in Seq(Items) /\ p \o q \in Seq(Items) /\ Ordered(p \o q)
           /\ ElementsOf(p \o q) = ElementsOf(p) \cup ElementsOf(q)
<1>0. PICK r, m, n : r = p \o q /\ m = Len(p) /\ n = Len(q)
  OBVIOUS
<1>1. p \in Seq(Items)
  BY DEF Items
<1>2. /\ m \in Nat /\ n \in Nat /\ r \in Seq(Items) /\ Len(r) = m + n
      /\ \A i \in 1 .. m : r[i] = p[i] /\ p[i] \in Notices
      /\ \A i \in 1 .. n : r[m + i] = q[i]
  BY <1>0, <1>1
<1>3. ASSUME NEW i \in 1 .. m + n PROVE r[i] \in Notices \/ i = m + n
  <2>1. CASE i \in 1 .. m
    BY <1>2, <2>1
  <2>2. CASE i - m \in 1 .. n
    <3>1. r[m + (i - m)] = q[i - m] /\ m + (i - m) = i
      BY <1>2, <2>2
    <3>2. q[i - m] \in Notices \/ i - m = n
      BY <1>0, <2>2 DEF Ordered
    <3>. QED BY <1>2, <3>1, <3>2
  <2>. QED BY <1>2, <2>1, <2>2
<1>4. Ordered(r)
  BY <1>2, <1>3 DEF Ordered
<1>. QED
  BY <1>0, <1>1, <1>2, <1>4, ElementsConcat

\* A single item is in order.
LEMMA OrderOne ==
    ASSUME NEW x \in Items
    PROVE  /\ <<x>> \in Seq(Items) /\ Ordered(<<x>>) /\ ElementsOf(<<x>>) = {x}
           /\ <<>> \in Seq(Items) /\ Ordered(<<>>) /\ ElementsOf(<<>>) = {}
<1>1. Len(<<x>>) = 1 /\ Len(<<>>) = 0
  OBVIOUS
<1>. QED
  BY <1>1, ElementsOne, ElementsEmpty DEF Ordered

\* The first item and what remains after it.
LEMMA HeadFacts ==
    ASSUME MailInv, agenda # <<>>
    PROVE  /\ Head(agenda) \in Items /\ Head(agenda) \in ToDo
           /\ Tail(agenda) \in Seq(Items) /\ Ordered(Tail(agenda))
           /\ ToDo = {Head(agenda)} \cup ElementsOf(Tail(agenda))
           /\ Head(agenda) \notin Notices => Tail(agenda) = <<>>
           /\ \A x : Count(agenda, x) = Count(Tail(agenda), x)
                                        + (IF x = Head(agenda) THEN 1 ELSE 0)
           /\ \A x : Count(agenda, x) \in Nat /\ Count(Tail(agenda), x) \in Nat
<1>0. PICK q, n, h, r : q = agenda /\ n = Len(q) /\ h = Head(q) /\ r = Tail(q)
  OBVIOUS
<1>1. q \in Seq(Items) /\ Ordered(q) /\ q # <<>>
  BY <1>0 DEF MailInv, MailTypeOK, AgendaOK
<1>2. /\ n \in Nat /\ n >= 1 /\ h = q[1] /\ h \in Items
      /\ r \in Seq(Items) /\ Len(r) = n - 1
      /\ \A i \in 1 .. n - 1 : r[i] = q[i + 1]
  BY <1>0, <1>1
<1>3. Ordered(r)
  <2>1. ASSUME NEW i \in 1 .. n - 1 PROVE r[i] \in Notices \/ i = n - 1
    <3>1. i + 1 \in 1 .. n
      BY <1>2
    <3>2. q[i + 1] \in Notices \/ i + 1 = n
      BY <1>0, <1>1, <3>1 DEF Ordered
    <3>. QED BY <1>2, <3>2
  <2>. QED BY <1>2, <2>1 DEF Ordered
<1>4. h \notin Notices => r = <<>>
  <2>1. 1 \in 1 .. n
    BY <1>2
  <2>2. h \in Notices \/ 1 = n
    BY <1>0, <1>1, <1>2, <2>1 DEF Ordered
  <2>3. Len(r) = 0 => r = <<>>
    BY <1>2
  <2>. QED BY <1>2, <2>2, <2>3
<1>5. ToDo = {h} \cup ElementsOf(r)
  BY <1>0, <1>1, ElementsTail DEF ToDo
<1>6. ASSUME NEW x
      PROVE  /\ Count(q, x) = Count(r, x) + (IF x = h THEN 1 ELSE 0)
             /\ Count(q, x) \in Nat /\ Count(r, x) \in Nat
  <2>1. Count(q, x) = Count(Tail(q), x) + (IF x = Head(q) THEN 1 ELSE 0)
    BY <1>1, CountTail
  <2>2. Count(q, x) \in Nat
    BY <1>1, CountType
  <2>3. Count(r, x) \in Nat
    BY <1>2, CountType
  <2>. QED BY <1>0, <2>1, <2>2, <2>3
<1>. QED
  BY <1>0, <1>2, <1>3, <1>4, <1>5, <1>6

\* While an operation may begin there is nothing to do.
LEMMA NothingToDo ==
    ASSUME MailInv, agenda = <<>>
    PROVE  /\ ToDo = {} /\ \A x : Count(agenda, x) = 0
           /\ \A t \in Threads : status[t] = "blocked" =>
                \A a \in AltsOf(t) :
                  /\ a.on \notin is_set
                  /\ Entry(t, a) \in ElementsOf(waiting[Port(a)])
                  /\ a.on \in Boxes => value[a.on] = Null
<1>1. ToDo = {} /\ \A x : Count(agenda, x) = 0
  BY ElementsEmpty, CountEmpty DEF ToDo
<1>. QED
  BY <1>1 DEF MailInv, ListedOK, NothingThere

\* A thread whose call is answered has no call any more.
LEMMA AnswerKeepsCalls ==
    ASSUME MailInv, NEW u \in Threads, Answered(u),
           \A t \in Threads : result'[t] = result[t] \/ t = u \/ status[t] = "ready"
    PROVE  /\ CallsOK'
           /\ status' \in [Threads -> {"ready", "prepared", "blocked"}]
           /\ call' \in [Threads -> (UNION Programs) \cup {Null}]
<1>1. MailTypeOK /\ CallsOK
  BY DEF MailInv
<1>2. /\ status' \in [Threads -> {"ready", "prepared", "blocked"}]
      /\ call' \in [Threads -> (UNION Programs) \cup {Null}]
  BY <1>1 DEF Answered, MailTypeOK
<1>3. ASSUME NEW t \in Threads
      PROVE  /\ status'[t] = "ready" <=> call'[t] = Null
             /\ status'[t] # "ready" => result'[t] = Null
             /\ status'[t] = "blocked" => call'[t].call # "nonblocking"
  <2>1. CASE t = u
    <3>1. status'[t] = "ready" /\ call'[t] = Null
      BY <1>1, <2>1, OthersStay
    <3>. QED BY <3>1
  <2>2. CASE t # u
    <3>1. status'[t] = status[t] /\ call'[t] = call[t]
      BY <1>1, <2>2, OthersStay
    <3>2. /\ status[t] = "ready" <=> call[t] = Null
          /\ status[t] # "ready" => result[t] = Null
          /\ status[t] = "blocked" => call[t].call # "nonblocking"
      BY <1>1 DEF CallsOK
    <3>. QED BY <2>2, <3>1, <3>2
  <2>. QED BY <2>1, <2>2
<1>. QED
  BY <1>2, <1>3 DEF CallsOK

\* What is left of the agenda after an answer finds what it needs.
Remains(rest) ==
    /\ rest \in Seq(Items) /\ Ordered(rest)
    /\ \A c \in Nacks : Count(rest, SetItem(c)) <= Count(agenda, SetItem(c))
    /\ \A e \in Entries : WakeItem(e) \in ElementsOf(rest) => WakeItem(e) \in ToDo
    /\ \A d \in Boxes : RelayItem(d) \in ElementsOf(rest) => value'[d] # Null
    /\ \A t \in Threads, a \in Alternatives : FireItem(t, a) \in ElementsOf(rest) =>
         /\ status'[t] = "ready"
         /\ a.on \in Slots /\ a.op \in {"put", "take"}
         /\ waiting'[Partners(a)] # <<>>

LEMMA AnswerKeepsAgenda ==
    ASSUME MailInv, NEW u \in Threads, status[u] # "ready", Answered(u), NEW a,
           is_set' = is_set, raised' = FALSE,
           NEW rest, Remains(rest), agenda' = send_nacks(u, a) \o rest
    PROVE  AgendaOK'
<1>1. MailTypeOK /\ CallsOK /\ AgendaOK
  BY DEF MailInv
<1>2. PICK s : /\ s = send_nacks(u, a) /\ s \in Seq(SetItems)
               /\ ElementsOf(s) = {SetItem(c) : c \in NacksOf(u) \ a.nacks}
  BY <1>1, SendNacksFacts
<1>3. s \in Seq(Notices)
  <2>1. SetItems \subseteq Notices
    BY DEF Notices
  <2>. QED BY <1>2, <2>1
<1>4. Ordered(s \o rest) /\ ElementsOf(s \o rest) = ElementsOf(s) \cup ElementsOf(rest)
  BY <1>3, OrderKept DEF Remains
<1>5. agenda' = s \o rest /\ NacksOf(u) \subseteq Nacks
  BY <1>1, <1>2, CallOf
<1>6. \A x \in ToDo' : x.do # "set" => x \in ElementsOf(rest)
  <2>1. \A c \in Nacks : SetItem(c).do = "set"
    BY ItemKinds
  <2>. QED BY <1>2, <1>4, <1>5, <2>1 DEF ToDo
<1>7. ASSUME NEW e \in Entries, WakeItem(e) \in ToDo'
      PROVE  /\ e.alt.on \in is_set'
             /\ status'[e.thread] = "blocked" => e.alt \in AltsOf(e.thread)'
  <2>1. WakeItem(e) \in ToDo /\ e.thread \in Threads
    <3>1. WakeItem(e).do = "wake"
      BY ItemKinds
    <3>. QED BY <1>6, <1>7, <3>1 DEF Remains, Entries
  <2>2. /\ e.alt.on \in is_set
        /\ status[e.thread] = "blocked" => e.alt \in AltsOf(e.thread)
    BY <1>1, <2>1 DEF AgendaOK
  <2>. QED
    BY <1>1, <2>1, <2>2, OthersStay
<1>8. ASSUME NEW d \in Boxes, RelayItem(d) \in ToDo' PROVE value'[d] # Null
  <2>1. RelayItem(d).do = "relay"
    BY ItemKinds
  <2>. QED BY <1>6, <1>8, <2>1 DEF Remains
<1>9. ASSUME NEW t \in Threads, NEW b \in Alternatives, FireItem(t, b) \in ToDo'
      PROVE  /\ status'[t] = "ready"
             /\ b.on \in Slots /\ b.op \in {"put", "take"}
             /\ waiting'[Partners(b)] # <<>>
  <2>1. FireItem(t, b).do = "fire"
    BY ItemKinds
  <2>. QED BY <1>6, <1>9, <2>1 DEF Remains
<1>10. Ordered(agenda)'
  BY <1>4, <1>5 DEF Ordered
<1>. QED
  BY <1>7, <1>8, <1>9, <1>10 DEF AgendaOK, WakeItem, RelayItem, FireItem, Partners

\* An answer keeps the invariant.
LEMMA AnswerKeepsAll ==
    ASSUME MailInv, NEW u \in Threads, status[u] # "ready", Answered(u), NEW a,
           Leaves(u), NothingNew(u),
           program' = program, is_set' = is_set, made' = made, raised' = FALSE,
           NEW rest, Remains(rest), agenda' = send_nacks(u, a) \o rest,
           \A t \in Threads : result'[t] = result[t] \/ t = u \/ status[t] = "ready",
           result' \in [Threads -> Threads \cup {Null}],
           priority' \in [Objects -> Nat],
           value' \in [Boxes -> Threads \cup {Null}],
           mail' \in [Mailqueues -> Seq(Threads)],
           left_open' \in Threads \cup {Null}
    PROVE  MailInv'
<1>1. NacksOK' /\ agenda' \in Seq(Items)
  <2>1. rest \in Seq(Items) /\ \A c \in Nacks : Count(rest, SetItem(c)) <= Count(agenda, SetItem(c))
    BY DEF Remains
  <2>. QED BY <2>1, AnswerKeepsNacks
<1>2. /\ CallsOK'
      /\ status' \in [Threads -> {"ready", "prepared", "blocked"}]
      /\ call' \in [Threads -> (UNION Programs) \cup {Null}]
  BY AnswerKeepsCalls
<1>3. QueuesOK'
  BY AnswerKeepsQueues
<1>4. ListedOK' /\ NothingThere'
  BY AnswerKeepsWaiting
<1>5. AgendaOK'
  BY AnswerKeepsAgenda
<1>6. MailTypeOK'
  <2>1. waiting' \in [Ports -> Seq(Queued)]
    BY DEF Leaves
  <2>2. program' \in Programs /\ made' \in SUBSET Nacks /\ is_set' \in SUBSET Nacks
    BY DEF MailInv, MailTypeOK
  <2>. QED BY <1>1, <1>2, <2>1, <2>2 DEF MailTypeOK
<1>. QED
  BY <1>1, <1>2, <1>3, <1>4, <1>5, <1>6 DEF MailInv

\* Completing the call of u takes its entries out of the queues.
LEMMA CompletedLeaves ==
    ASSUME MailInv, NEW u \in Threads, NEW w \in [Ports -> Seq(Queued)],
           waiting' = completed(w, u),
           \A p \in Ports : \A e :
             e # Stale /\ e.thread # u =>
                 (e \in ElementsOf(w[p]) <=> e \in ElementsOf(waiting[p])),
           \A p \in Ports : Stale \in ElementsOf(w[p]) => p[1] \in Slots
    PROVE  Leaves(u)
<1>1. /\ completed(w, u) \in [Ports -> Seq(Queued)]
      /\ \A p \in Ports : \A e :
           e # Stale => (e \in ElementsOf(completed(w, u)[p])
                           <=> e \in ElementsOf(w[p]) /\ e.thread # u)
      /\ \A p \in Ports : p[1] \notin Slots =>
           ElementsOf(completed(w, u)[p]) \subseteq ElementsOf(w[p])
  BY CompletedFacts
<1>2. ASSUME NEW p \in Ports, NEW e, e # Stale
      PROVE  e \in ElementsOf(waiting[p])' <=> e \in ElementsOf(waiting[p]) /\ e.thread # u
  <2>1. e \in ElementsOf(waiting'[p]) <=> e \in ElementsOf(w[p]) /\ e.thread # u
    BY <1>1, <1>2
  <2>. QED BY <1>2, <2>1
<1>3. ASSUME NEW p \in Ports, Stale \in ElementsOf(waiting[p])' PROVE p[1] \in Slots
  <2>1. Stale \in ElementsOf(completed(w, u)[p])
    BY <1>3
  <2>. QED BY <1>1, <2>1
<1>. QED
  BY <1>1, <1>2, <1>3 DEF Leaves

\* Nothing stale stands in the queue of anything but a mailslot.
LEMMA LiveQueues ==
    ASSUME MailInv, NEW p \in Ports
    PROVE  /\ waiting[p] \in Seq(Queued)
           /\ Stale \in ElementsOf(waiting[p]) => p[1] \in Slots
           /\ \A e \in ElementsOf(waiting[p]) : e # Stale =>
                /\ e \in Entries /\ e.thread \in Threads /\ e.alt \in Alternatives
                /\ status[e.thread] = "blocked"
                /\ e.alt \in AltsOf(e.thread) /\ Port(e.alt) = p
                /\ e = Entry(e.thread, e.alt)
           /\ waiting[p] # <<>> => /\ Head(waiting[p]) \in ElementsOf(waiting[p])
                                   /\ p[1] \notin Slots => Head(waiting[p]) # Stale
<1>1. waiting[p] \in Seq(Queued)
  BY DEF MailInv, MailTypeOK
<1>2. ElementsOf(waiting[p]) \subseteq Queued
  BY <1>1, ElementsIs
<1>3. ASSUME NEW e \in ElementsOf(waiting[p]), e # Stale
      PROVE  /\ e \in Entries /\ e.thread \in Threads /\ e.alt \in Alternatives
             /\ e = Entry(e.thread, e.alt)
  BY <1>2, <1>3 DEF Queued, Entries, Entry
<1>4. /\ Stale \in ElementsOf(waiting[p]) => p[1] \in Slots
      /\ \A e \in ElementsOf(waiting[p]) : e # Stale =>
           /\ status[e.thread] = "blocked"
           /\ e.alt \in AltsOf(e.thread) /\ Port(e.alt) = p
  BY DEF MailInv, QueuesOK
<1>5. waiting[p] # <<>> => Head(waiting[p]) \in ElementsOf(waiting[p])
  BY <1>1, ElementsIs
<1>. QED
  BY <1>1, <1>3, <1>4, <1>5

-----------------------------------------------------------------------------
(* Steps inside a scope *)

\* A waiting call that is woken by a nack.
LEMMA WakeKeeps ==
    ASSUME MailInv, wake_waiting_thread PROVE MailInv'
<1>0. PICK e : e \in Entries /\ Head(agenda) = WakeItem(e)
  <2>1. Head(agenda) \in Items /\ Head(agenda).do = "wake"
    BY HeadFacts DEF wake_waiting_thread
  <2>. QED BY <2>1, ItemKinds
<1>1. /\ agenda # <<>> /\ Head(agenda).entry = e
      /\ e.thread \in Threads /\ WakeItem(e) \in ToDo /\ WakeItem(e).do = "wake"
  <2>1. agenda # <<>>
    BY DEF wake_waiting_thread
  <2>2. WakeItem(e) \in ToDo
    BY <1>0, <2>1, HeadFacts
  <2>3. WakeItem(e).entry = e /\ WakeItem(e).do = "wake"
    BY <1>0, ItemKinds
  <2>. QED BY <1>0, <2>1, <2>2, <2>3 DEF Entries
<1>2. PICK rest : rest = Tail(agenda)
  OBVIOUS
<1>3. /\ rest \in Seq(Items) /\ Ordered(rest) /\ ToDo = {WakeItem(e)} \cup ElementsOf(rest)
      /\ \A c \in Nacks : Count(rest, SetItem(c)) = Count(agenda, SetItem(c))
  <2>1. /\ rest \in Seq(Items) /\ Ordered(rest) /\ ToDo = {WakeItem(e)} \cup ElementsOf(rest)
        /\ \A x : Count(agenda, x) = Count(rest, x) + (IF x = WakeItem(e) THEN 1 ELSE 0)
        /\ \A x : Count(agenda, x) \in Nat /\ Count(rest, x) \in Nat
    BY <1>0, <1>1, <1>2, HeadFacts
  <2>2. \A c \in Nacks : SetItem(c) # WakeItem(e)
    BY <1>1, ItemKinds
  <2>. QED BY <2>1, <2>2
<1>4. /\ UNCHANGED <<program, result, priority, value, mail, made, is_set,
                     left_open, raised>>
      /\ raised = FALSE
  <2>1. raised => agenda = <<>>
    BY DEF MailInv, AgendaOK
  <2>2. raised \in BOOLEAN
    BY DEF MailInv, MailTypeOK
  <2>. QED BY <1>1, <2>1, <2>2 DEF wake_waiting_thread
<1>5. CASE status[e.thread] = "blocked"
  <2>1. /\ Answered(e.thread) /\ waiting' = completed(waiting, e.thread)
        /\ agenda' = send_nacks(e.thread, e.alt) \o rest
    BY <1>1, <1>2, <1>5 DEF wake_waiting_thread, Answered
  <2>2. Leaves(e.thread)
    <3>1. waiting \in [Ports -> Seq(Queued)]
      BY DEF MailInv, MailTypeOK
    <3>. QED BY <1>1, <2>1, <3>1, CompletedLeaves, LiveQueues
  <2>3. NacksOK' /\ ToDo' = {SetItem(c) : c \in NacksOf(e.thread) \ e.alt.nacks} \cup ElementsOf(rest)
    <3>1. \A c \in Nacks : Count(rest, SetItem(c)) <= Count(agenda, SetItem(c))
      <4>1. \A c \in Nacks : Count(agenda, SetItem(c)) \in Nat
        BY <1>1, HeadFacts
      <4>. QED BY <1>3, <4>1
    <3>. QED BY <1>1, <1>3, <1>4, <1>5, <2>1, <3>1, AnswerKeepsNacks
  <2>4. NothingNew(e.thread)
    <3>1. ASSUME NEW x \in Entries, WakeItem(x) \in ToDo, x.thread # e.thread
          PROVE  WakeItem(x) \in ToDo'
      <4>1. WakeItem(x) # WakeItem(e)
        <5>1. WakeItem(x).entry = x /\ WakeItem(e).entry = e
          BY <1>0, ItemKinds
        <5>. QED BY <3>1, <5>1
      <4>. QED BY <1>3, <2>3, <3>1, <4>1
    <3>2. ASSUME NEW d \in Boxes, RelayItem(d) \in ToDo PROVE RelayItem(d) \in ToDo'
      <4>1. RelayItem(d) # WakeItem(e)
        BY <1>1, ItemKinds
      <4>. QED BY <1>3, <2>3, <3>2, <4>1
    <3>. QED BY <1>4, <3>1, <3>2 DEF NothingNew
  <2>5. Remains(rest)
    <3>1. ElementsOf(rest) \subseteq ToDo
      BY <1>3
    <3>2. ASSUME NEW d \in Boxes, RelayItem(d) \in ElementsOf(rest) PROVE value'[d] # Null
      BY <1>4, <3>1, <3>2 DEF MailInv, AgendaOK
    <3>3. ASSUME NEW t \in Threads, NEW a \in Alternatives, FireItem(t, a) \in ElementsOf(rest)
          PROVE  /\ status'[t] = "ready"
                 /\ a.on \in Slots /\ a.op \in {"put", "take"}
                 /\ waiting'[Partners(a)] # <<>>
      <4>1. /\ status[t] = "ready" /\ a.on \in Slots /\ a.op \in {"put", "take"}
            /\ waiting[Partners(a)] # <<>>
        BY <3>1, <3>3 DEF MailInv, AgendaOK
      <4>2. status'[t] = "ready"
        BY <1>1, <1>5, <2>1, <4>1, OthersStay DEF MailInv
      <4>3. waiting'[Partners(a)] # <<>>
        <5>1. Partners(a) \in Ports /\ Partners(a)[1] \in Slots
          BY <4>1 DEF Partners, Ports, Other
        <5>2. waiting \in [Ports -> Seq(Queued)]
          BY DEF MailInv, MailTypeOK
        <5>3. /\ Len(waiting'[Partners(a)]) = Len(waiting[Partners(a)])
              /\ waiting'[Partners(a)] \in Seq(Queued)
          BY <1>1, <2>1, <5>1, <5>2, CompletedFacts
        <5>4. waiting[Partners(a)] \in Seq(Queued)
          BY <5>1, <5>2
        <5>. QED BY <4>1, <5>3, <5>4
      <4>. QED BY <4>1, <4>2, <4>3
    <3>4. \A c \in Nacks : Count(rest, SetItem(c)) <= Count(agenda, SetItem(c))
      <4>1. \A c \in Nacks : Count(agenda, SetItem(c)) \in Nat
        BY <1>1, HeadFacts
      <4>. QED BY <1>3, <4>1
    <3>. QED BY <1>3, <3>1, <3>2, <3>3, <3>4 DEF Remains
  <2>6. /\ result' \in [Threads -> Threads \cup {Null}] /\ priority' \in [Objects -> Nat]
        /\ value' \in [Boxes -> Threads \cup {Null}]
        /\ mail' \in [Mailqueues -> Seq(Threads)]
        /\ left_open' \in Threads \cup {Null}
        /\ \A t \in Threads : result'[t] = result[t]
    BY <1>4 DEF MailInv, MailTypeOK
  <2>. QED
    BY <1>1, <1>4, <1>5, <2>1, <2>2, <2>4, <2>5, <2>6, AnswerKeepsAll
<1>6. CASE status[e.thread] # "blocked"
  <2>1. agenda' = rest /\ UNCHANGED <<status, call, waiting>>
    BY <1>1, <1>2, <1>6 DEF wake_waiting_thread
  <2>2. ToDo' = ElementsOf(rest) /\ ToDo' \subseteq ToDo
    BY <1>3, <2>1 DEF ToDo
  <2>3. \A x \in ToDo : x # WakeItem(e) => x \in ToDo'
    BY <1>3, <2>2
  <2>4. MailTypeOK' /\ CallsOK' /\ QueuesOK'
    BY <1>3, <1>4, <2>1 DEF MailInv, MailTypeOK, CallsOK, QueuesOK, AltsOf
  <2>5. ListedOK'
    <3>1. SUFFICES ASSUME NEW t \in Threads, status[t] = "blocked", NEW a \in AltsOf(t)
          PROVE  IF a.on \in is_set THEN WakeItem(Entry(t, a)) \in ToDo'
                 ELSE Entry(t, a) \in ElementsOf(waiting[Port(a)])
      BY <1>4, <2>1 DEF ListedOK, AltsOf, WakeItem, Entry, Port
    <3>2. IF a.on \in is_set THEN WakeItem(Entry(t, a)) \in ToDo
          ELSE Entry(t, a) \in ElementsOf(waiting[Port(a)])
      BY <3>1 DEF MailInv, ListedOK
    <3>3. WakeItem(Entry(t, a)) # WakeItem(e)
      <4>1. WakeItem(Entry(t, a)).entry = Entry(t, a) /\ WakeItem(e).entry = e
        BY DEF WakeItem
      <4>2. Entry(t, a).thread = t
        BY DEF Entry
      <4>. QED BY <1>6, <3>1, <4>1, <4>2
    <3>. QED BY <2>3, <3>2, <3>3
  <2>6. NothingThere'
    <3>1. SUFFICES ASSUME NEW t \in Threads, status[t] = "blocked", NEW a \in AltsOf(t)
          PROVE  /\ a.on \in Boxes /\ value[a.on] # Null => RelayItem(a.on) \in ToDo'
                 /\ a.on \in Mailqueues => mail[a.on] = <<>>
                 /\ a.on \in Slots =>
                      \A x \in ElementsOf(waiting[Partners(a)]) :
                          x # Stale => x.thread = t
      BY <1>4, <2>1 DEF NothingThere, AltsOf, RelayItem, Partners
    <3>2. /\ a.on \in Boxes /\ value[a.on] # Null => RelayItem(a.on) \in ToDo
          /\ a.on \in Mailqueues => mail[a.on] = <<>>
          /\ a.on \in Slots =>
               \A x \in ElementsOf(waiting[Partners(a)]) :
                   x # Stale => x.thread = t
      BY <3>1 DEF MailInv, NothingThere
    <3>3. RelayItem(a.on) # WakeItem(e)
      BY <1>1 DEF RelayItem
    <3>. QED BY <2>3, <3>2, <3>3
  <2>7. AgendaOK'
    BY <1>3, <1>4, <2>1, <2>2
    DEF MailInv, AgendaOK, WakeItem, RelayItem, FireItem, Partners, AltsOf
  <2>8. NacksOK'
    <3>1. \A c \in Nacks : Count(agenda', SetItem(c)) = Count(agenda, SetItem(c))
      BY <1>3, <2>1
    <3>. QED BY <1>4, <2>1, <2>2, <3>1 DEF MailInv, NacksOK, SetItem, NacksOf
  <2>. QED
    BY <2>4, <2>5, <2>6, <2>7, <2>8 DEF MailInv
<1>. QED
  BY <1>5, <1>6

\* The wakings of the entries of a queue.
LEMMA WakeSequence ==
    ASSUME NEW q \in Seq(Entries),
           NEW s, s = [i \in DOMAIN q |-> [do |-> "wake", entry |-> q[i]]]
    PROVE  /\ s \in Seq(WakeItems)
           /\ ElementsOf(s) = {WakeItem(e) : e \in ElementsOf(q)}
<1>1. /\ DOMAIN q = 1 .. Len(q) /\ Len(q) \in Nat
      /\ \A i \in 1 .. Len(q) : q[i] \in Entries
  OBVIOUS
<1>2. s = [i \in 1 .. Len(q) |-> WakeItem(q[i])]
  BY <1>1 DEF WakeItem
<1>3. /\ s \in [1 .. Len(q) -> WakeItems]
      /\ \A i \in 1 .. Len(q) : s[i] = WakeItem(q[i])
  BY <1>1, <1>2 DEF WakeItems
<1>4. s \in Seq(WakeItems) /\ Len(s) = Len(q)
  BY <1>1, <1>3
<1>5. \A x : x \in ElementsOf(s) <=> \E i \in 1 .. Len(s) : s[i] = x
  BY <1>4, ElementsIs
<1>6. \A x : x \in ElementsOf(q) <=> \E i \in 1 .. Len(q) : q[i] = x
  BY ElementsIs
<1>. QED
  BY <1>3, <1>4, <1>5, <1>6

\* A condvar is set.
LEMMA SetKeeps ==
    ASSUME MailInv, set_condvar PROVE MailInv'
<1>0. PICK c : c \in Nacks /\ Head(agenda) = SetItem(c)
  <2>1. Head(agenda) \in Items /\ Head(agenda).do = "set"
    BY HeadFacts DEF set_condvar
  <2>. QED BY <2>1, ItemKinds
<1>1. /\ agenda # <<>> /\ SetItem(c) \in ToDo
      /\ SetItem(c).on = c /\ SetItem(c).do = "set"
  <2>1. agenda # <<>>
    BY DEF set_condvar
  <2>2. SetItem(c) \in ToDo
    BY <1>0, <2>1, HeadFacts
  <2>. QED BY <1>0, <2>1, <2>2, ItemKinds
<1>2. c \in made /\ c \notin is_set
  BY <1>0, <1>1 DEF MailInv, NacksOK
<1>3. PICK p, rest : p = <<c, "wait">> /\ rest = Tail(agenda)
  OBVIOUS
<1>4. /\ p \in Ports /\ p[1] = c /\ c \notin Slots
      /\ c \notin Boxes /\ c \notin Mailqueues
  BY <1>0, <1>3, MailopsAssumption DEF Ports
<1>5. waiting[p] \in Seq(Entries)
  <2>1. /\ waiting[p] \in Seq(Queued)
        /\ \A e \in ElementsOf(waiting[p]) : e \in Entries
    BY <1>4, LiveQueues
  <2>. QED BY <2>1 DEF ElementsOf
<1>6. PICK s : s = [i \in DOMAIN Backward(waiting[p]) |->
                      [do |-> "wake", entry |-> Backward(waiting[p])[i]]]
  OBVIOUS
<1>7. /\ s \in Seq(WakeItems)
      /\ ElementsOf(s) = {WakeItem(e) : e \in ElementsOf(waiting[p])}
  <2>1. /\ Backward(waiting[p]) \in Seq(Entries)
        /\ ElementsOf(Backward(waiting[p])) = ElementsOf(waiting[p])
    BY <1>5, ElementsBackward
  <2>2. /\ s \in Seq(WakeItems)
        /\ ElementsOf(s) = {WakeItem(e) : e \in ElementsOf(Backward(waiting[p]))}
    BY <1>6, <2>1, WakeSequence
  <2>. QED BY <2>1, <2>2
<1>8. /\ is_set' = is_set \cup {c}
      /\ waiting' = [waiting EXCEPT ![p] = <<>>]
      /\ agenda' = s \o rest /\ raised' = raised
      /\ UNCHANGED <<program, status, call, result, priority, value, mail,
                     made, left_open>>
  BY <1>0, <1>1, <1>2, <1>3, <1>6 DEF set_condvar
<1>9. /\ rest \in Seq(Items) /\ Ordered(rest)
      /\ ToDo = {SetItem(c)} \cup ElementsOf(rest)
      /\ \A x : Count(agenda, x) = Count(rest, x) + (IF x = SetItem(c) THEN 1 ELSE 0)
      /\ \A x : Count(agenda, x) \in Nat /\ Count(rest, x) \in Nat
  BY <1>0, <1>1, <1>3, HeadFacts
<1>10. s \in Seq(Notices)
  <2>1. WakeItems \subseteq Notices
    BY DEF Notices
  <2>. QED BY <1>7, <2>1
<1>11. /\ agenda' \in Seq(Items) /\ Ordered(agenda')
       /\ ToDo' = {WakeItem(e) : e \in ElementsOf(waiting[p])} \cup ElementsOf(rest)
  <2>1. s \o rest \in Seq(Items) /\ Ordered(s \o rest)
        /\ ElementsOf(s \o rest) = ElementsOf(s) \cup ElementsOf(rest)
    BY <1>9, <1>10, OrderKept
  <2>. QED BY <1>7, <1>8, <2>1 DEF ToDo
<1>12. \A x \in ToDo : x.do # "set" => x \in ToDo'
  BY <1>1, <1>9, <1>11
<1>13. \A x \in ToDo' : x.do # "wake" => x \in ElementsOf(rest)
  BY <1>11 DEF WakeItem
<1>14. /\ waiting \in [Ports -> Seq(Queued)]
       /\ waiting'[p] = <<>>
       /\ \A r \in Ports : r[1] # c => waiting'[r] = waiting[r]
  <2>1. waiting \in [Ports -> Seq(Queued)]
    BY DEF MailInv, MailTypeOK
  <2>. QED BY <1>4, <1>8, <2>1
<1>15. MailTypeOK'
  <2>1. waiting' \in [Ports -> Seq(Queued)]
    BY <1>4, <1>8, <1>14
  <2>. QED BY <1>0, <1>8, <1>11, <2>1 DEF MailInv, MailTypeOK
<1>16. CallsOK'
  BY <1>8 DEF MailInv, CallsOK
<1>17. QueuesOK'
  <2>1. SUFFICES ASSUME NEW r \in Ports, NEW e \in ElementsOf(waiting'[r])
        PROVE  e \in ElementsOf(waiting[r])
    BY <1>8 DEF MailInv, QueuesOK, AltsOf, Port
  <2>2. waiting'[r] = IF r = p THEN <<>> ELSE waiting[r]
    BY <1>4, <1>8, <1>14
  <2>. QED BY <2>1, <2>2, ElementsEmpty
<1>18. ASSUME NEW t \in Threads, status[t] = "blocked", NEW a \in AltsOf(t)
       PROVE  /\ a \in Alternatives /\ a.op \in Ops(a.on)
              /\ Port(a) \in Ports /\ Port(a)[1] = a.on
              /\ a.on = c => Port(a) = p
              /\ a.on \in Slots => Partners(a) \in Ports /\ Partners(a)[1] # c
  <2>1. a \in Alternatives /\ a.op \in Ops(a.on)
    BY <1>18, CallOf DEF MailInv
  <2>2. /\ Port(a) \in Ports /\ Port(a)[1] = a.on
        /\ a.on \notin Slots => Port(a) = <<a.on, "wait">>
        /\ a.on \in Slots => Partners(a) \in Ports /\ Partners(a)[1] = a.on
    BY <2>1, PortFacts
  <2>. QED BY <1>3, <1>4, <2>1, <2>2
<1>19. ListedOK'
  <2>1. SUFFICES ASSUME NEW t \in Threads, status[t] = "blocked", NEW a \in AltsOf(t)
        PROVE  IF a.on \in is_set' THEN WakeItem(Entry(t, a)) \in ToDo'
               ELSE Entry(t, a) \in ElementsOf(waiting'[Port(a)])
    BY <1>8 DEF ListedOK, AltsOf, WakeItem, Entry, Port
  <2>2. IF a.on \in is_set THEN WakeItem(Entry(t, a)) \in ToDo
        ELSE Entry(t, a) \in ElementsOf(waiting[Port(a)])
    BY <2>1 DEF MailInv, ListedOK
  <2>3. CASE a.on \in is_set
    <3>1. WakeItem(Entry(t, a)).do = "wake"
      BY DEF WakeItem
    <3>. QED BY <1>8, <1>12, <2>2, <2>3, <3>1
  <2>4. CASE a.on = c
    BY <1>2, <1>8, <1>11, <1>18, <2>1, <2>2, <2>4
  <2>5. CASE a.on \notin is_set /\ a.on # c
    BY <1>8, <1>14, <1>18, <2>1, <2>2, <2>5
  <2>. QED BY <2>3, <2>4, <2>5
<1>20. NothingThere'
  <2>1. SUFFICES ASSUME NEW t \in Threads, status[t] = "blocked", NEW a \in AltsOf(t)
        PROVE  /\ a.on \in Boxes /\ value[a.on] # Null => RelayItem(a.on) \in ToDo'
               /\ a.on \in Mailqueues => mail[a.on] = <<>>
               /\ a.on \in Slots =>
                    \A e \in ElementsOf(waiting'[Partners(a)]) :
                        e # Stale => e.thread = t
    BY <1>8 DEF NothingThere, AltsOf, RelayItem, Partners
  <2>2. /\ a.on \in Boxes /\ value[a.on] # Null => RelayItem(a.on) \in ToDo
        /\ a.on \in Mailqueues => mail[a.on] = <<>>
        /\ a.on \in Slots =>
             \A e \in ElementsOf(waiting[Partners(a)]) :
                 e # Stale => e.thread = t
    BY <2>1 DEF MailInv, NothingThere
  <2>3. RelayItem(a.on).do = "relay"
    BY DEF RelayItem
  <2>4. a.on \in Slots => waiting'[Partners(a)] = waiting[Partners(a)]
    BY <1>14, <1>18, <2>1
  <2>. QED BY <1>12, <2>2, <2>3, <2>4
<1>21. AgendaOK'
  <2>1. ASSUME NEW e \in Entries, WakeItem(e) \in ToDo'
        PROVE  /\ e.alt.on \in is_set'
               /\ status'[e.thread] = "blocked" => e.alt \in AltsOf(e.thread)'
    <3>1. CASE WakeItem(e) \in ElementsOf(rest)
      BY <1>8, <1>9, <3>1 DEF MailInv, AgendaOK, AltsOf
    <3>2. CASE WakeItem(e) \in {WakeItem(x) : x \in ElementsOf(waiting[p])}
      <4>1. e \in ElementsOf(waiting[p])
        <5>1. \A x : WakeItem(x).entry = x
          BY DEF WakeItem
        <5>. QED BY <3>2, <5>1
      <4>2. e # Stale
        BY MailopsAssumption
      <4>3. /\ status[e.thread] = "blocked" /\ e.alt \in AltsOf(e.thread)
            /\ Port(e.alt) = p /\ e.thread \in Threads
        BY <1>4, <4>1, <4>2, LiveQueues
      <4>4. e.alt.on = c
        BY <1>4, <1>18, <4>3
      <4>. QED BY <1>8, <4>3, <4>4 DEF AltsOf
    <3>. QED BY <1>11, <2>1, <3>1, <3>2
  <2>2. ASSUME NEW d \in Boxes, RelayItem(d) \in ToDo' PROVE value'[d] # Null
    <3>1. RelayItem(d).do = "relay"
      BY DEF RelayItem
    <3>. QED BY <1>8, <1>9, <1>13, <2>2, <3>1 DEF MailInv, AgendaOK
  <2>3. ASSUME NEW t \in Threads, NEW a \in Alternatives, FireItem(t, a) \in ToDo'
        PROVE  /\ status'[t] = "ready"
               /\ a.on \in Slots /\ a.op \in {"put", "take"}
               /\ waiting'[Partners(a)] # <<>>
    <3>1. FireItem(t, a).do = "fire"
      BY DEF FireItem
    <3>2. FireItem(t, a) \in ToDo
      BY <1>9, <1>13, <2>3, <3>1
    <3>3. /\ status[t] = "ready" /\ a.on \in Slots /\ a.op \in {"put", "take"}
          /\ waiting[Partners(a)] # <<>>
      BY <3>2 DEF MailInv, AgendaOK
    <3>4. Partners(a) \in Ports /\ Partners(a)[1] # c
      BY <1>4, <3>3 DEF Partners, Ports, Other
    <3>. QED BY <1>8, <1>14, <3>3, <3>4
  <2>4. raised' => agenda' = <<>>
    BY <1>1, <1>8 DEF MailInv, AgendaOK
  <2>. QED
    BY <1>11, <2>1, <2>2, <2>3, <2>4
    DEF AgendaOK, WakeItem, RelayItem, FireItem, Partners, Ordered
<1>22. NacksOK'
  <2>1. ASSUME NEW d \in Nacks
        PROVE  /\ Count(agenda', SetItem(d)) \in {0, 1}
               /\ SetItem(d) \in ToDo' => SetItem(d) \in ToDo /\ d # c
    <3>1. SetItem(d).do = "set"
      BY DEF SetItem
    <3>2. SetItem(d) \notin ElementsOf(s)
      BY <1>7, <3>1 DEF WakeItem
    <3>3. s \in Seq(Items)
      BY <1>10 DEF Items
    <3>4. Count(s, SetItem(d)) = 0
      BY <3>2, <3>3, ElementsCount
    <3>5. Count(agenda', SetItem(d)) = Count(s, SetItem(d)) + Count(rest, SetItem(d))
      BY <1>8, <1>9, <3>3, CountConcat
    <3>6. Count(agenda, SetItem(d)) \in {0, 1}
      BY DEF MailInv, NacksOK
    <3>7. /\ Count(agenda, SetItem(d))
               = Count(rest, SetItem(d)) + (IF SetItem(d) = SetItem(c) THEN 1 ELSE 0)
          /\ Count(rest, SetItem(d)) \in Nat
      BY <1>9
    <3>8. SetItem(d) \in ToDo' => SetItem(d) \in ElementsOf(rest)
      BY <1>13, <3>1
    <3>9. SetItem(d) \in ElementsOf(rest) => Count(rest, SetItem(d)) # 0
      BY <1>9, ElementsCount
    <3>10. SetItem(d) \in ElementsOf(rest) => d # c
      BY <3>6, <3>7, <3>9
    <3>. QED BY <1>9, <3>4, <3>5, <3>6, <3>7, <3>8, <3>10
  <2>2. is_set' \subseteq made'
    BY <1>2, <1>8 DEF MailInv, NacksOK
  <2>3. \A d \in Nacks : SetItem(d) \in ToDo' => d \in made' \ is_set'
    BY <1>8, <2>1 DEF MailInv, NacksOK
  <2>4. ASSUME NEW t \in Threads, status[t] # "ready", NEW d \in NacksOf(t)
        PROVE  d \in made /\ d \notin is_set' /\ SetItem(d) \notin ToDo'
    <3>1. d \in made /\ d \notin is_set /\ SetItem(d) \notin ToDo /\ d \in Nacks
      BY <2>4, CallOf DEF MailInv, NacksOK
    <3>2. d # c
      BY <1>1, <3>1
    <3>. QED BY <1>8, <2>1, <3>1, <3>2
  <2>. QED
    BY <1>8, <2>1, <2>2, <2>3, <2>4 DEF MailInv, NacksOK, SetItem, NacksOf
<1>. QED
  BY <1>15, <1>16, <1>17, <1>19, <1>20, <1>21, <1>22 DEF MailInv

\* A decided rendezvous takes place.
LEMMA FireKeeps ==
    ASSUME MailInv, fire_mailslot PROVE MailInv'
<1>0. PICK t \in Threads, a \in Alternatives : Head(agenda) = FireItem(t, a)
  <2>1. Head(agenda) \in Items /\ Head(agenda).do = "fire"
    BY HeadFacts DEF fire_mailslot
  <2>. QED BY <2>1, ItemKinds
<1>1. agenda # <<>> /\ FireItem(t, a) \in ToDo /\ ToDo = {FireItem(t, a)}
  <2>1. agenda # <<>>
    BY DEF fire_mailslot
  <2>2. FireItem(t, a).do = "fire"
    BY DEF FireItem
  <2>3. FireItem(t, a) \notin Notices
    BY <2>2, ItemKinds
  <2>4. Tail(agenda) = <<>> /\ ToDo = {FireItem(t, a)} \cup ElementsOf(Tail(agenda))
    BY <1>0, <2>1, <2>3, HeadFacts
  <2>. QED BY <2>1, <2>4, ElementsEmpty
<1>2. FireItem(t, a).thread = t /\ FireItem(t, a).alt = a /\ FireItem(t, a).do = "fire"
  BY DEF FireItem
<1>3. PICK p, e : p = Partners(a) /\ e = Head(waiting[p])
  OBVIOUS
<1>4. /\ status[t] = "ready" /\ a.on \in Slots /\ a.op \in {"put", "take"}
      /\ waiting[p] # <<>> /\ raised = FALSE
  <2>1. raised \in BOOLEAN
    BY DEF MailInv, MailTypeOK
  <2>. QED BY <1>1, <1>3, <2>1 DEF MailInv, AgendaOK
<1>5. p \in Ports /\ p[1] \in Slots
  BY <1>3, <1>4 DEF Partners, Ports, Other
<1>6. waiting \in [Ports -> Seq(Queued)] /\ waiting[p] \in Seq(Queued)
  BY <1>5 DEF MailInv, MailTypeOK
<1>7. PICK w : w = [waiting EXCEPT ![p] = Tail(@)]
  OBVIOUS
<1>8. /\ w \in [Ports -> Seq(Queued)]
      /\ \A r \in Ports : r # p => w[r] = waiting[r]
      /\ w[p] = Tail(waiting[p])
      /\ ElementsOf(waiting[p]) = {e} \cup ElementsOf(w[p])
  <2>1. Tail(waiting[p]) \in Seq(Queued)
        /\ ElementsOf(waiting[p]) = {e} \cup ElementsOf(Tail(waiting[p]))
    BY <1>3, <1>4, <1>6, ElementsTail
  <2>. QED BY <1>5, <1>6, <1>7, <2>1
<1>9. \A r \in Ports : ElementsOf(w[r]) \subseteq ElementsOf(waiting[r])
  BY <1>8
<1>10. UNCHANGED <<program, value, mail, made, is_set, left_open>>
  BY DEF fire_mailslot
<1>11. CASE e # Stale
  <2>1. /\ e \in Entries /\ e.thread \in Threads /\ status[e.thread] = "blocked"
    BY <1>3, <1>4, <1>5, <1>11, LiveQueues
  <2>2. PICK u : u = e.thread
    OBVIOUS
  <2>3. /\ Answered(u) /\ waiting' = completed(w, u)
        /\ result' = (IF a.op = "take" THEN [result EXCEPT ![t] = u]
                                       ELSE [result EXCEPT ![u] = t])
        /\ priority' = used(priority, t, a.on)
        /\ agenda' = send_nacks(u, e.alt) /\ raised' = raised
    BY <1>0, <1>1, <1>2, <1>3, <1>7, <1>11, <2>2 DEF fire_mailslot, Answered, IsLive
  <2>4. Leaves(u)
    <3>1. \A r \in Ports : \A x :
            x # Stale /\ x.thread # u =>
                (x \in ElementsOf(w[r]) <=> x \in ElementsOf(waiting[r]))
      BY <1>8, <2>2
    <3>2. \A r \in Ports : Stale \in ElementsOf(w[r]) => r[1] \in Slots
      BY <1>9, LiveQueues
    <3>. QED BY <1>8, <2>1, <2>2, <2>3, <3>1, <3>2, CompletedLeaves
  <2>5. agenda' = send_nacks(u, e.alt) \o <<>>
    <3>1. send_nacks(u, e.alt) \in Seq(SetItems)
      BY <2>1, <2>2, SendNacksFacts DEF MailInv
    <3>. QED BY <2>3, <3>1
  <2>6. NothingNew(u)
    BY <1>1, <1>2, <1>10 DEF NothingNew, WakeItem, RelayItem
  <2>7. Remains(<<>>)
    <3>1. \A c \in Nacks : Count(<<>>, SetItem(c)) = 0 /\ Count(agenda, SetItem(c)) \in Nat
      BY <1>1, CountEmpty, HeadFacts
    <3>2. <<>> \in Seq(Items) /\ Ordered(<<>>) /\ ElementsOf(<<>>) = {}
      BY <1>0, OrderOne, ItemKinds
    <3>3. \A c \in Nacks : Count(<<>>, SetItem(c)) <= Count(agenda, SetItem(c))
      BY <3>1
    <3>. QED BY <3>2, <3>3 DEF Remains
  <2>8. /\ \A v \in Threads : result'[v] = result[v] \/ v = u \/ status[v] = "ready"
        /\ result' \in [Threads -> Threads \cup {Null}]
        /\ priority' \in [Objects -> Nat]
    <3>1. result \in [Threads -> Threads \cup {Null}] /\ priority \in [Objects -> Nat]
      BY DEF MailInv, MailTypeOK
    <3>2. priority' \in [Objects -> Nat]
      BY <2>3, <3>1 DEF used
    <3>3. CASE a.op = "take"
      BY <1>4, <2>1, <2>2, <2>3, <3>1, <3>2, <3>3
    <3>4. CASE a.op # "take"
      BY <1>4, <2>1, <2>2, <2>3, <3>1, <3>2, <3>4
    <3>. QED BY <3>3, <3>4
  <2>9. /\ value' \in [Boxes -> Threads \cup {Null}]
        /\ mail' \in [Mailqueues -> Seq(Threads)]
        /\ left_open' \in Threads \cup {Null}
    BY <1>10 DEF MailInv, MailTypeOK
  <2>10. u \in Threads /\ status[u] # "ready" /\ raised' = FALSE
    BY <1>4, <2>1, <2>2, <2>3
  <2>. QED
    BY <1>10, <2>3, <2>4, <2>5, <2>6, <2>7, <2>8, <2>9, <2>10, AnswerKeepsAll
<1>12. CASE e = Stale
  <2>1. /\ raised' = TRUE /\ agenda' = <<>> /\ waiting' = w
        /\ UNCHANGED <<status, call, result, priority>>
    BY <1>0, <1>1, <1>2, <1>3, <1>7, <1>12 DEF fire_mailslot, IsLive
  <2>2. \A c : WakeItem(c) \notin ToDo /\ RelayItem(c) \notin ToDo
    BY <1>1, <1>2 DEF WakeItem, RelayItem
  <2>3. ToDo' = {} /\ \A x : Count(agenda', x) = 0
    BY <2>1, ElementsEmpty, CountEmpty DEF ToDo
  <2>4. MailTypeOK'
    <3>1. agenda' \in Seq(Items)
      BY <2>1
    <3>. QED BY <1>8, <1>10, <2>1, <3>1 DEF MailInv, MailTypeOK
  <2>5. CallsOK'
    BY <2>1 DEF MailInv, CallsOK
  <2>6. QueuesOK'
    BY <1>9, <2>1 DEF MailInv, QueuesOK, AltsOf, Port
  <2>7. ListedOK'
    <3>1. SUFFICES ASSUME NEW v \in Threads, status[v] = "blocked", NEW b \in AltsOf(v)
          PROVE  b.on \notin is_set /\ Entry(v, b) \in ElementsOf(w[Port(b)])
      BY <1>10, <2>1 DEF ListedOK, AltsOf, Entry, Port
    <3>2. b.on \notin is_set /\ Entry(v, b) \in ElementsOf(waiting[Port(b)])
      BY <2>2, <3>1 DEF MailInv, ListedOK
    <3>3. Port(b) \in Ports /\ Entry(v, b) \in Entries
      BY <3>1, CallOf, PortFacts DEF MailInv, Entry, Entries
    <3>4. Entry(v, b) # e
      BY <1>12, <3>3, MailopsAssumption
    <3>. QED BY <1>8, <3>2, <3>3, <3>4
  <2>8. NothingThere'
    <3>1. SUFFICES ASSUME NEW v \in Threads, status[v] = "blocked", NEW b \in AltsOf(v)
          PROVE  /\ b.on \in Boxes => value[b.on] = Null
                 /\ b.on \in Mailqueues => mail[b.on] = <<>>
                 /\ b.on \in Slots =>
                      \A x \in ElementsOf(w[Partners(b)]) :
                          x # Stale => x.thread = v
      BY <1>10, <2>1 DEF NothingThere, AltsOf, Partners
    <3>2. /\ b.on \in Boxes => value[b.on] = Null
          /\ b.on \in Mailqueues => mail[b.on] = <<>>
          /\ b.on \in Slots =>
               \A x \in ElementsOf(waiting[Partners(b)]) :
                   x # Stale => x.thread = v
      BY <2>2, <3>1 DEF MailInv, NothingThere
    <3>3. b.on \in Slots => Partners(b) \in Ports
      BY <3>1, CallOf, PortFacts DEF MailInv
    <3>. QED BY <1>9, <3>2, <3>3
  <2>9. AgendaOK'
    <3>1. Ordered(<<>>)
      BY OrderOne, <1>0, ItemKinds
    <3>2. Ordered(agenda')
      BY <2>1, <3>1
    <3>. QED BY <2>1, <2>3, <3>2
         DEF AgendaOK, WakeItem, RelayItem, FireItem, Ordered
  <2>10. NacksOK'
    <3>1. \A c : SetItem(c) \notin ToDo'
      BY <2>3
    <3>2. \A c \in Nacks : Count(agenda', SetItem(c)) \in {0, 1}
      BY <2>3
    <3>. QED BY <1>10, <2>1, <3>1, <3>2 DEF MailInv, NacksOK, SetItem, NacksOf
  <2>. QED
    BY <2>4, <2>5, <2>6, <2>7, <2>8, <2>9, <2>10 DEF MailInv
<1>. QED
  BY <1>11, <1>12

\* What is left in a maildrop, and who waits for it.
LEMMA BoxFacts ==
    ASSUME NEW a \in Alternatives, a.op \in Ops(a.on), a.on \in Boxes
    PROVE  /\ Port(a) = <<a.on, "wait">> /\ a.on \notin Slots
           /\ a.on \notin Nacks /\ a.on \notin Mailqueues
           /\ a.op \in {"take", "peek", "swap"}
<1>1. a.on \notin Slots /\ a.on \notin Nacks /\ a.on \notin Mailqueues
  BY MailopsAssumption
<1>2. a.op \in {"take", "peek", "swap"}
  BY <1>1 DEF Ops, Boxes
<1>. QED
  BY <1>1, <1>2 DEF Port

\* A value is handed on.
LEMMA RelayKeeps ==
    ASSUME MailInv, relay_msg PROVE MailInv'
<1>0. PICK d \in Boxes : Head(agenda) = RelayItem(d)
  <2>1. Head(agenda) \in Items /\ Head(agenda).do = "relay"
    BY HeadFacts DEF relay_msg
  <2>. QED BY <2>1, ItemKinds
<1>1. /\ agenda # <<>> /\ RelayItem(d) \in ToDo /\ Tail(agenda) = <<>>
      /\ ToDo = {RelayItem(d)}
  <2>1. agenda # <<>>
    BY DEF relay_msg
  <2>2. RelayItem(d).do = "relay"
    BY DEF RelayItem
  <2>3. RelayItem(d) \notin Notices
    BY <2>2, ItemKinds
  <2>4. Tail(agenda) = <<>> /\ ToDo = {RelayItem(d)} \cup ElementsOf(Tail(agenda))
    BY <1>0, <2>1, <2>3, HeadFacts
  <2>. QED BY <2>1, <2>4, ElementsEmpty
<1>2. /\ RelayItem(d).on = d
      /\ \A c : WakeItem(c) \notin ToDo
      /\ \A x : RelayItem(x) \in ToDo => x = d
  <2>1. RelayItem(d).do = "relay" /\ \A x : RelayItem(x).on = x
    BY DEF RelayItem
  <2>. QED BY <1>1, <2>1 DEF WakeItem
<1>3. PICK p : p = <<d, "wait">>
  OBVIOUS
<1>4. /\ p \in Ports /\ p[1] = d /\ d \notin Slots
      /\ d \notin Mailqueues /\ d \notin Nacks
  BY <1>3, MailopsAssumption DEF Ports
<1>5. /\ value[d] # Null /\ raised = FALSE
      /\ value \in [Boxes -> Threads \cup {Null}] /\ Null \notin Threads
      /\ waiting \in [Ports -> Seq(Queued)] /\ is_set \subseteq Nacks
      /\ result \in [Threads -> Threads \cup {Null}]
  <2>1. raised \in BOOLEAN
    BY DEF MailInv, MailTypeOK
  <2>2. value[d] # Null /\ raised = FALSE
    BY <1>1, <2>1 DEF MailInv, AgendaOK
  <2>. QED BY <2>2, MailopsAssumption DEF MailInv, MailTypeOK
<1>6. UNCHANGED <<program, priority, mail, made, is_set, left_open, raised>>
  BY DEF relay_msg
<1>7. CASE waiting[p] = <<>>
  <2>1. agenda' = <<>> /\ UNCHANGED <<status, call, result, waiting, value>>
    BY <1>0, <1>1, <1>2, <1>3, <1>7 DEF relay_msg
  <2>2. ToDo' = {} /\ \A x : Count(agenda', x) = 0
    BY <2>1, ElementsEmpty, CountEmpty DEF ToDo
  <2>3. MailTypeOK'
    <3>1. agenda' \in Seq(Items)
      BY <2>1
    <3>. QED BY <1>6, <2>1, <3>1 DEF MailInv, MailTypeOK
  <2>4. CallsOK' /\ QueuesOK'
    BY <2>1 DEF MailInv, CallsOK, QueuesOK, AltsOf, Port
  <2>5. ListedOK'
    <3>1. SUFFICES ASSUME NEW v \in Threads, status[v] = "blocked", NEW b \in AltsOf(v)
          PROVE  b.on \notin is_set /\ Entry(v, b) \in ElementsOf(waiting[Port(b)])
      BY <1>6, <2>1 DEF ListedOK, AltsOf, Entry, Port
    <3>. QED BY <1>2, <3>1 DEF MailInv, ListedOK
  <2>6. NothingThere'
    <3>1. SUFFICES ASSUME NEW v \in Threads, status[v] = "blocked", NEW b \in AltsOf(v)
          PROVE  /\ b.on \in Boxes => value[b.on] = Null
                 /\ b.on \in Mailqueues => mail[b.on] = <<>>
                 /\ b.on \in Slots =>
                      \A x \in ElementsOf(waiting[Partners(b)]) :
                          x # Stale => x.thread = v
      BY <1>6, <2>1 DEF NothingThere, AltsOf, Partners
    <3>2. /\ b.on \in Boxes /\ value[b.on] # Null => RelayItem(b.on) \in ToDo
          /\ b.on \in Mailqueues => mail[b.on] = <<>>
          /\ b.on \in Slots =>
               \A x \in ElementsOf(waiting[Partners(b)]) :
                   x # Stale => x.thread = v
      BY <3>1 DEF MailInv, NothingThere
    <3>3. b.on # d
      <4>1. ASSUME b.on = d PROVE FALSE
        <5>1. Port(b) = p
          BY <1>3, <1>4, <4>1 DEF Port
        <5>2. b.on \notin is_set
          BY <1>4, <1>5, <4>1
        <5>3. Entry(v, b) \in ElementsOf(waiting[Port(b)])
          BY <3>1, <5>2 DEF MailInv, ListedOK
        <5>. QED BY <1>7, <5>1, <5>3, ElementsEmpty
      <4>. QED BY <4>1
    <3>. QED BY <1>2, <3>2, <3>3
  <2>7. AgendaOK'
    <3>1. Ordered(<<>>)
      BY OrderOne, <1>0, ItemKinds
    <3>2. Ordered(agenda')
      BY <2>1, <3>1
    <3>. QED BY <2>1, <2>2, <3>2
         DEF AgendaOK, WakeItem, RelayItem, FireItem, Ordered
  <2>8. NacksOK'
    <3>1. \A c : SetItem(c) \notin ToDo'
      BY <2>2
    <3>2. \A c \in Nacks : Count(agenda', SetItem(c)) \in {0, 1}
      BY <2>2
    <3>. QED BY <1>6, <2>1, <3>1, <3>2 DEF MailInv, NacksOK, SetItem, NacksOf
  <2>. QED
    BY <2>3, <2>4, <2>5, <2>6, <2>7, <2>8 DEF MailInv
<1>8. CASE waiting[p] # <<>>
  <2>1. PICK e : e = Head(waiting[p])
    OBVIOUS
  <2>2. /\ e \in Entries /\ e.thread \in Threads /\ e.alt \in Alternatives
        /\ status[e.thread] = "blocked" /\ e.alt \in AltsOf(e.thread)
        /\ Port(e.alt) = p
    BY <1>4, <1>8, <2>1, LiveQueues
  <2>3. PICK u, a : u = e.thread /\ a = e.alt
    OBVIOUS
  <2>4. a.on = d /\ a.op \in {"take", "peek", "swap"}
    <3>1. a \in Alternatives /\ a.op \in Ops(a.on)
      BY <2>2, <2>3, CallOf DEF MailInv
    <3>2. a.on = d
      BY <1>4, <2>2, <2>3, <3>1, PortFacts
    <3>. QED BY <3>1, <3>2, BoxFacts
  <2>5. PICK rest : rest = IF relay_goes_on(a) THEN agenda ELSE Tail(agenda)
    OBVIOUS
  <2>6. /\ Answered(u) /\ waiting' = completed(waiting, u)
        /\ result' = [result EXCEPT ![u] = value[d]]
        /\ value' = [value EXCEPT ![d] = left_in_maildrop(u, a.op, @)]
        /\ agenda' = send_nacks(u, a) \o rest
    BY <1>0, <1>1, <1>2, <1>3, <1>8, <2>1, <2>3, <2>5 DEF relay_msg, Answered
  <2>7. /\ value' \in [Boxes -> Threads \cup {Null}]
        /\ \A x \in Boxes : x # d => value'[x] = value[x]
        /\ value'[d] = Null <=> a.op = "take"
    <3>1. left_in_maildrop(u, a.op, value[d]) \in Threads \cup {Null}
      BY <1>5, <2>2, <2>3, <2>4 DEF left_in_maildrop
    <3>2. left_in_maildrop(u, a.op, value[d]) = Null <=> a.op = "take"
      BY <1>5, <2>2, <2>3, <2>4 DEF left_in_maildrop
    <3>. QED BY <1>5, <2>6, <3>1, <3>2
  <2>8. Leaves(u)
    BY <1>5, <2>2, <2>3, <2>6, CompletedLeaves, LiveQueues
  <2>9. /\ rest \in Seq(Items) /\ Ordered(rest)
        /\ a.op = "take" => rest = <<>> /\ ElementsOf(rest) = {}
        /\ a.op # "take" => rest = agenda /\ ElementsOf(rest) = ToDo
    <3>1. <<>> \in Seq(Items) /\ Ordered(<<>>) /\ ElementsOf(<<>>) = {}
      BY <1>0, OrderOne, ItemKinds
    <3>2. agenda \in Seq(Items) /\ Ordered(agenda)
      BY DEF MailInv, MailTypeOK, AgendaOK
    <3>. QED BY <1>1, <2>5, <3>1, <3>2 DEF relay_goes_on, ToDo
  <2>10. \A c \in Nacks : Count(rest, SetItem(c)) <= Count(agenda, SetItem(c))
    <3>1. \A c : Count(agenda, c) \in Nat /\ Count(<<>>, c) = 0
      BY <1>1, HeadFacts, CountEmpty
    <3>. QED BY <2>9, <3>1
  <2>11. /\ NacksOK'
         /\ ToDo' = {SetItem(c) : c \in NacksOf(u) \ a.nacks} \cup ElementsOf(rest)
    BY <1>6, <2>2, <2>3, <2>6, <2>9, <2>10, AnswerKeepsNacks
  <2>12. NothingNew(u)
    <3>1. ASSUME NEW x \in Boxes, value'[x] # Null
          PROVE  value[x] # Null /\ (RelayItem(x) \in ToDo => RelayItem(x) \in ToDo')
      <4>1. CASE x = d
        BY <1>5, <2>7, <2>9, <2>11, <3>1, <4>1
      <4>2. CASE x # d
        BY <1>2, <2>7, <3>1, <4>2
      <4>. QED BY <4>1, <4>2
    <3>. QED BY <1>2, <1>6, <3>1 DEF NothingNew
  <2>13. Remains(rest)
    <3>1. ElementsOf(rest) \subseteq ToDo
      BY <2>9
    <3>2. ASSUME NEW x \in Boxes, RelayItem(x) \in ElementsOf(rest) PROVE value'[x] # Null
      BY <1>2, <2>7, <2>9, <3>1, <3>2
    <3>3. \A v, b : FireItem(v, b) \notin ElementsOf(rest)
      <4>1. \A v, b : FireItem(v, b) # RelayItem(d)
        <5>1. RelayItem(d).do = "relay" /\ \A v, b : FireItem(v, b).do = "fire"
          BY DEF RelayItem, FireItem
        <5>. QED BY <5>1
      <4>. QED BY <1>1, <3>1, <4>1
    <3>. QED BY <2>9, <2>10, <3>1, <3>2, <3>3 DEF Remains
  <2>14. /\ \A v \in Threads : result'[v] = result[v] \/ v = u
         /\ result' \in [Threads -> Threads \cup {Null}]
    BY <1>5, <2>2, <2>3, <2>6
  <2>15. /\ priority' \in [Objects -> Nat]
         /\ mail' \in [Mailqueues -> Seq(Threads)]
         /\ left_open' \in Threads \cup {Null}
    BY <1>6 DEF MailInv, MailTypeOK
  <2>16. u \in Threads /\ status[u] # "ready" /\ raised' = FALSE
    BY <1>5, <1>6, <2>2, <2>3
  <2>. QED
    BY <1>6, <2>6, <2>7, <2>8, <2>12, <2>13, <2>14, <2>15, <2>16, AnswerKeepsAll
<1>. QED
  BY <1>7, <1>8

-----------------------------------------------------------------------------
(* What a call finds *)

\* When an alternative is ready.
LEMMA ReadyIs ==
    ASSUME NEW a \in Alternatives, MailTypeOK
    PROVE  /\ a.on \in Slots =>
                (is_mailop_ready_to_fire(a) <=> clean(waiting[Partners(a)]) # <<>>)
           /\ a.on \in Boxes => (is_mailop_ready_to_fire(a) <=> value[a.on] # Null)
           /\ a.on \in Mailqueues => (is_mailop_ready_to_fire(a) <=> mail[a.on] # <<>>)
           /\ a.on \in Nacks => (is_mailop_ready_to_fire(a) <=> a.on \in is_set)
           /\ a.on \in Slots \cup Boxes \cup Mailqueues \cup Nacks
<1>1. a.on \in Slots \cup Boxes \cup Mailqueues \cup Nacks
  BY DEF Alternatives, Objects
<1>2. /\ Slots \cap Boxes = {} /\ Slots \cap Mailqueues = {} /\ Slots \cap Nacks = {}
      /\ Boxes \cap Mailqueues = {} /\ Boxes \cap Nacks = {} /\ Mailqueues \cap Nacks = {}
  BY MailopsAssumption
<1>3. CASE a.on \in Slots
  BY <1>2, <1>3 DEF is_mailop_ready_to_fire
<1>4. CASE a.on \in Boxes
  BY <1>2, <1>4 DEF is_mailop_ready_to_fire
<1>5. CASE a.on \in Mailqueues
  BY <1>2, <1>5 DEF is_mailop_ready_to_fire
<1>6. CASE a.on \in Nacks
  BY <1>2, <1>6 DEF is_mailop_ready_to_fire
<1>. QED
  BY <1>1, <1>2, <1>3, <1>4, <1>5, <1>6

\* The alternatives are those with an index.
LEMMA ReadyFacts ==
    ASSUME MailInv, NEW t \in Threads, status[t] = "prepared"
    PROVE  /\ call[t].alts \in Seq(Alternatives)
           /\ \A i \in Ready(t) : /\ i \in 1 .. Len(call[t].alts)
                                  /\ call[t].alts[i] \in AltsOf(t)
                                  /\ is_mailop_ready_to_fire(call[t].alts[i])
           /\ Ready(t) = {} => \A a \in AltsOf(t) : ~is_mailop_ready_to_fire(a)
           /\ highest(t) \subseteq Ready(t)
           /\ \A a \in AltsOf(t) : a \in Alternatives /\ a.op \in Ops(a.on)
<1>1. call[t] \in UNION Programs
      /\ \A a \in AltsOf(t) : a \in Alternatives /\ a.op \in Ops(a.on)
  BY CallOf DEF MailInv
<1>2. PICK q : q = call[t].alts /\ q \in Seq(Alternatives)
  BY <1>1, CallFacts
<1>3. DOMAIN q = 1 .. Len(q) /\ \A a : a \in AltsOf(t) <=> \E i \in 1 .. Len(q) : q[i] = a
  BY <1>2, ElementsIs DEF AltsOf
<1>. QED
  BY <1>1, <1>2, <1>3 DEF Ready, highest

\* Testing cleans queues and leaves all live entries where they are.
LEMMA TestedFacts ==
    ASSUME MailInv, NEW t \in Threads, status[t] = "prepared"
    PROVE  /\ tested(t) \in [Ports -> Seq(Queued)]
           /\ \A p \in Ports : \A e : e # Stale =>
                (e \in ElementsOf(tested(t)[p]) <=> e \in ElementsOf(waiting[p]))
           /\ \A p \in Ports :
                ElementsOf(tested(t)[p]) \subseteq ElementsOf(waiting[p])
           /\ \A p \in Ports : p[1] \notin Slots => tested(t)[p] = waiting[p]
           /\ \A a \in AltsOf(t) : a.on \in Slots =>
                tested(t)[Partners(a)] = clean(waiting[Partners(a)])
<1>1. \A a \in AltsOf(t) : a.on \in Slots =>
        Partners(a) \in Ports /\ Partners(a)[1] \in Slots
  BY ReadyFacts, PortFacts
<1>2. PICK seen : seen = {Partners(a) : a \in {a \in AltsOf(t) : a.on \in Slots}}
  OBVIOUS
<1>3. tested(t) = [p \in Ports |-> IF p \in seen THEN clean(waiting[p]) ELSE waiting[p]]
  BY <1>2 DEF tested, AltsOf
<1>4. ASSUME NEW p \in Ports
      PROVE  /\ tested(t)[p] \in Seq(Queued)
             /\ \A e : e # Stale =>
                  (e \in ElementsOf(tested(t)[p]) <=> e \in ElementsOf(waiting[p]))
             /\ ElementsOf(tested(t)[p]) \subseteq ElementsOf(waiting[p])
             /\ p[1] \notin Slots => tested(t)[p] = waiting[p]
             /\ p \in seen => tested(t)[p] = clean(waiting[p])
  <2>1. waiting[p] \in Seq(Queued)
    BY DEF MailInv, MailTypeOK
  <2>2. CASE p \in seen
    <3>1. tested(t)[p] = clean(waiting[p])
      BY <1>3, <2>2
    <3>2. p[1] \in Slots
      BY <1>1, <1>2, <2>2
    <3>. QED BY <2>1, <3>1, <3>2, CleanFacts
  <2>3. CASE p \notin seen
    <3>1. tested(t)[p] = waiting[p]
      BY <1>3, <2>3
    <3>. QED BY <2>1, <2>3, <3>1
  <2>. QED BY <2>2, <2>3
<1>5. tested(t) \in [Ports -> Seq(Queued)]
  BY <1>3, <1>4
<1>. QED
  BY <1>1, <1>2, <1>4, <1>5

\* A call that has not blocked is in no queue.
LEMMA TestedLeaves ==
    ASSUME MailInv, NEW t \in Threads, status[t] = "prepared", waiting' = tested(t)
    PROVE  Leaves(t)
<1>1. ASSUME NEW p \in Ports, NEW e, e # Stale
      PROVE  e \in ElementsOf(waiting[p])' <=> e \in ElementsOf(waiting[p]) /\ e.thread # t
  <2>1. e \in ElementsOf(waiting'[p]) <=> e \in ElementsOf(waiting[p])
    BY <1>1, TestedFacts
  <2>2. e \in ElementsOf(waiting[p]) => e.thread # t
    BY <1>1, LiveQueues
  <2>. QED BY <2>1, <2>2
<1>2. \A p \in Ports : Stale \in ElementsOf(waiting'[p]) => p[1] \in Slots
  BY TestedFacts, LiveQueues
<1>. QED
  BY <1>1, <1>2, TestedFacts DEF Leaves

\* The counters are natural numbers.
LEMMA BumpedType ==
    ASSUME MailInv, NEW t \in Threads, status[t] = "prepared"
    PROVE  /\ \A o, i : bumps(t, o, i) \in Nat
           /\ bumped(t) \in [Objects -> Nat]
           /\ \A o \in Objects : bumped(t)[o]
                = priority[o] + bumps(t, o, Len(call[t].alts) + 1)
           /\ \A o : used(bumped(t), t, o) \in [Objects -> Nat]
<1>1. IsFiniteSet(Ready(t))
  <2>1. PICK n \in Nat : n = Len(call[t].alts)
    BY ReadyFacts
  <2>2. IsFiniteSet(1 .. n)
    BY FS_Interval
  <2>. QED BY <2>1, <2>2, ReadyFacts, FS_Subset
<1>2. \A o, i : bumps(t, o, i) \in Nat
  <2>1. SUFFICES ASSUME NEW o, NEW i PROVE bumps(t, o, i) \in Nat
    OBVIOUS
  <2>2. PICK S : S = {j \in Ready(t) : j < i /\ call[t].alts[j].on = o}
    OBVIOUS
  <2>3. Cardinality(S) \in Nat
    <3>1. IsFiniteSet(S)
      BY <1>1, <2>2, FS_Subset
    <3>. QED BY <3>1, FS_CardinalityType
  <2>. QED BY <2>2, <2>3 DEF bumps
<1>3. priority \in [Objects -> Nat]
  BY DEF MailInv, MailTypeOK
<1>. DEFINE B(o) == bumps(t, o, Len(call[t].alts) + 1)
<1>4. bumped(t) = [o \in Objects |-> priority[o] + B(o)] /\ \A o : B(o) \in Nat
  BY <1>2 DEF bumped
<1>. HIDE DEF B
<1>5. /\ bumped(t) \in [Objects -> Nat]
      /\ \A o \in Objects : bumped(t)[o] = priority[o] + B(o)
  BY <1>3, <1>4
<1>6. \A o : used(bumped(t), t, o) \in [Objects -> Nat]
  BY <1>5 DEF used
<1>. QED
  BY <1>2, <1>5, <1>6 DEF B

-----------------------------------------------------------------------------
(* Steps that begin a scope *)

\* Nothing else goes on.
LEMMA MayRun ==
    ASSUME MailInv, NEW t \in Threads, may_run(t)
    PROVE  /\ agenda = <<>> /\ raised = FALSE /\ ToDo = {}
           /\ \A x : Count(agenda, x) = 0
           /\ Null \notin Threads
  <1>1. agenda = <<>> /\ ~raised
    BY DEF may_run
  <1>2. raised \in BOOLEAN
    BY DEF MailInv, MailTypeOK
  <1>. QED BY <1>1, <1>2, NothingToDo, MailopsAssumption

\* Nothing is left of an empty agenda.
LEMMA NothingRemains ==
    ASSUME MailInv, agenda = <<>> PROVE Remains(<<>>)
<1>1. Ordered(<<>>)
  BY DEF Ordered
<1>2. \A c : Count(<<>>, c) = 0
  BY CountEmpty
<1>. QED
  BY <1>1, <1>2, ElementsEmpty DEF Remains

\* An alternative that is ready is chosen.
LEMMA FiresKeeps ==
    ASSUME MailInv, NEW t \in Threads, do_one_mailop_fires(t) PROVE MailInv'
<1>1. PICK a : /\ a \in AltsOf(t) /\ is_mailop_ready_to_fire(a) /\ fire_mailop(t, a)
  BY ReadyFacts DEF do_one_mailop_fires
<1>2. /\ status[t] = "prepared" /\ Answered(t) /\ waiting' = tested(t)
      /\ left_open' = Null /\ UNCHANGED <<program, made, is_set, raised>>
      /\ may_run(t)
  BY DEF do_one_mailop_fires, Answered
<1>3. /\ agenda = <<>> /\ raised' = FALSE /\ ToDo = {} /\ Null \notin Threads
      /\ \A x : Count(agenda, x) = 0
  BY <1>2, MayRun
<1>4. a \in Alternatives /\ a.op \in Ops(a.on)
  BY <1>1, <1>2, ReadyFacts
<1>5. PICK n : n = send_nacks(t, a) /\ n \in Seq(SetItems)
  BY <1>2, SendNacksFacts DEF MailInv
<1>6. n \o <<>> = n
  BY <1>5
<1>7. /\ result \in [Threads -> Threads \cup {Null}]
      /\ value \in [Boxes -> Threads \cup {Null}]
      /\ mail \in [Mailqueues -> Seq(Threads)]
  BY DEF MailInv, MailTypeOK
<1>8. Leaves(t)
  BY <1>2, TestedLeaves
<1>9. /\ bumped(t) \in [Objects -> Nat]
      /\ used(bumped(t), t, a.on) \in [Objects -> Nat]
  BY <1>2, BumpedType
<1>10. ASSUME \A d \in Boxes : value'[d] # Null => value[d] # Null,
              \A q \in Mailqueues : mail[q] = <<>> => mail'[q] = <<>>
       PROVE  NothingNew(t)
  BY <1>3, <1>10 DEF NothingNew
<1>11. CASE a.on \in Slots
  <2>1. PICK f : f = FireItem(t, a)
    OBVIOUS
  <2>2. agenda' = n \o <<f>> /\ priority' = bumped(t) /\ UNCHANGED <<result, value, mail>>
    <3>1. fire_slot_later(t, a)
      BY <1>1, <1>11, MailopsAssumption DEF fire_mailop
    <3>. QED BY <1>5, <2>1, <3>1 DEF fire_slot_later, FireItem
  <2>3. f \in Items /\ f.do = "fire" /\ f.thread = t /\ f.alt = a
    <3>1. FireItem(t, a) \in Items
      BY <1>4 DEF Items, FireItems
    <3>2. /\ FireItem(t, a).do = "fire" /\ FireItem(t, a).thread = t
          /\ FireItem(t, a).alt = a
      BY DEF FireItem
    <3>. QED BY <2>1, <3>1, <3>2
  <2>4. <<f>> \in Seq(Items) /\ Ordered(<<f>>) /\ ElementsOf(<<f>>) = {f}
    BY <2>3, OrderOne
  <2>5. waiting'[Partners(a)] # <<>>
    BY <1>1, <1>2, <1>4, <1>11, ReadyIs, TestedFacts DEF MailInv
  <2>6. \A c \in Nacks : Count(<<f>>, SetItem(c)) <= Count(agenda, SetItem(c))
    <3>1. \A c \in Nacks : SetItem(c) # f
      BY <2>3, ItemKinds
    <3>2. \A c \in Nacks : Count(<<f>>, SetItem(c)) = 0
      BY <3>1, CountOne
    <3>. QED BY <1>3, <3>2
  <2>7. a.op \in {"put", "take"} /\ status'[t] = "ready"
    BY <1>2, <1>4, <1>11, PortFacts, OthersStay DEF MailInv
  <2>8. Remains(<<f>>)
    <3>1. \A e : WakeItem(e) # f /\ RelayItem(e) # f
      BY <2>3 DEF WakeItem, RelayItem
    <3>2. \A v, b : FireItem(v, b) = f => v = t /\ b = a
      BY <2>3 DEF FireItem
    <3>. QED BY <1>11, <2>4, <2>5, <2>6, <2>7, <3>1, <3>2 DEF Remains
  <2>9. NothingNew(t)
    BY <1>10, <2>2
  <2>10. /\ \A v \in Threads : result'[v] = result[v]
         /\ result' \in [Threads -> Threads \cup {Null}]
         /\ priority' \in [Objects -> Nat]
         /\ value' \in [Boxes -> Threads \cup {Null}]
         /\ mail' \in [Mailqueues -> Seq(Threads)]
    BY <1>7, <1>9, <2>2
  <2>. QED
    BY <1>2, <1>3, <1>5, <1>8, <2>2, <2>8, <2>9, <2>10, AnswerKeepsAll
<1>12. CASE a.on \notin Slots
  <2>1. agenda' = n /\ priority' = used(bumped(t), t, a.on)
    BY <1>1, <1>5, <1>12 DEF fire_mailop, fire_maildrop, get_msg, fire_condvar
  <2>2. /\ \A v \in Threads : result'[v] = result[v] \/ v = t
        /\ result' \in [Threads -> Threads \cup {Null}]
        /\ value' \in [Boxes -> Threads \cup {Null}]
        /\ mail' \in [Mailqueues -> Seq(Threads)]
        /\ \A d \in Boxes : value'[d] # Null => value[d] # Null
        /\ \A q \in Mailqueues : mail[q] = <<>> => mail'[q] = <<>>
    <3>1. CASE a.on \in Boxes /\ fire_maildrop(t, a)
      <4>1. /\ result' = [result EXCEPT ![t] = value[a.on]]
            /\ value' = [value EXCEPT ![a.on] = left_in_maildrop(t, a.op, @)]
            /\ mail' = mail
        BY <3>1 DEF fire_maildrop
      <4>2. a.op \in {"take", "peek", "swap"} /\ value[a.on] # Null
        BY <1>1, <1>4, <3>1, BoxFacts, ReadyIs DEF MailInv
      <4>3. left_in_maildrop(t, a.op, value[a.on]) \in Threads \cup {Null}
        BY <1>7, <3>1, <4>2 DEF left_in_maildrop
      <4>. QED BY <1>7, <3>1, <4>1, <4>2, <4>3
    <3>2. CASE a.on \in Mailqueues /\ get_msg(t, a)
      <4>1. PICK q : q = mail[a.on]
        OBVIOUS
      <4>2. q \in Seq(Threads) /\ q # <<>>
        BY <1>1, <1>4, <1>7, <3>2, <4>1, ReadyIs DEF MailInv
      <4>3. Head(q) \in Threads /\ Tail(q) \in Seq(Threads)
        BY <4>2
      <4>4. /\ result' = [result EXCEPT ![t] = Head(q)]
            /\ mail' = [mail EXCEPT ![a.on] = Tail(q)]
            /\ value' = value
        BY <3>2, <4>1 DEF get_msg
      <4>. QED BY <1>7, <3>2, <4>1, <4>2, <4>3, <4>4
    <3>3. CASE a.on \in Nacks /\ fire_condvar(t, a)
      BY <1>7, <3>3 DEF fire_condvar
    <3>. QED BY <1>1, <1>12, <3>1, <3>2, <3>3 DEF fire_mailop
  <2>3. NothingNew(t)
    BY <1>10, <2>2
  <2>4. Remains(<<>>)
    BY <1>3, NothingRemains
  <2>5. agenda' = send_nacks(t, a) \o <<>>
    BY <1>5, <1>6, <2>1
  <2>. QED
    BY <1>2, <1>3, <1>8, <1>9, <2>1, <2>2, <2>3, <2>4, <2>5, AnswerKeepsAll
<1>. QED
  BY <1>11, <1>12

\* A nonblocking call returns without a message.
LEMMA GivesUpKeeps ==
    ASSUME MailInv, NEW t \in Threads, nonblocking_call_gives_up(t) PROVE MailInv'
<1>1. /\ status[t] = "prepared" /\ Answered(t) /\ waiting' = tested(t)
      /\ UNCHANGED <<program, result, priority, value, mail, made, is_set,
                     agenda, raised>>
      /\ may_run(t) /\ call[t].call = "nonblocking"
      /\ left_open' \in {t, Null}
  BY DEF nonblocking_call_gives_up, Answered
<1>2. /\ agenda = <<>> /\ raised' = FALSE /\ ToDo = {}
  BY <1>1, MayRun
<1>3. call[t].nacks = <<>>
  BY <1>1, CallOf, CallFacts DEF MailInv
<1>4. PICK a : a = call[t].alts[1]
  OBVIOUS
<1>5. agenda' = send_nacks(t, a) \o <<>>
  <2>1. /\ send_nacks(t, a) \in Seq(SetItems)
        /\ ElementsOf(send_nacks(t, a)) = {SetItem(c) : c \in NacksOf(t) \ a.nacks}
    BY <1>1, SendNacksFacts DEF MailInv
  <2>2. ElementsOf(send_nacks(t, a)) = {}
    BY <1>3, <2>1, ElementsEmpty DEF NacksOf
  <2>3. send_nacks(t, a) = <<>>
    BY <2>1, <2>2, ElementsIs
  <2>. QED BY <1>1, <1>2, <2>3
<1>6. Leaves(t) /\ Remains(<<>>)
  BY <1>1, <1>2, TestedLeaves, NothingRemains
<1>7. NothingNew(t)
  BY <1>1, <1>2 DEF NothingNew
<1>8. /\ \A v \in Threads : result'[v] = result[v]
      /\ result' \in [Threads -> Threads \cup {Null}]
      /\ priority' \in [Objects -> Nat]
      /\ value' \in [Boxes -> Threads \cup {Null}]
      /\ mail' \in [Mailqueues -> Seq(Threads)]
      /\ left_open' \in Threads \cup {Null}
  BY <1>1 DEF MailInv, MailTypeOK
<1>. QED
  BY <1>1, <1>2, <1>5, <1>6, <1>7, <1>8, AnswerKeepsAll

\* The entries that a call puts into a queue.
LEMMA EntrySequence ==
    ASSUME NEW t \in Threads, NEW q \in Seq(Alternatives),
           NEW s, s = [i \in DOMAIN q |-> [thread |-> t, alt |-> q[i]]]
    PROVE  /\ s \in Seq(Queued)
           /\ ElementsOf(s) = {Entry(t, a) : a \in ElementsOf(q)}
<1>1. /\ DOMAIN q = 1 .. Len(q) /\ Len(q) \in Nat
      /\ \A i \in 1 .. Len(q) : q[i] \in Alternatives
  OBVIOUS
<1>2. s = [i \in 1 .. Len(q) |-> Entry(t, q[i])]
  BY <1>1 DEF Entry
<1>3. /\ s \in [1 .. Len(q) -> Queued]
      /\ \A i \in 1 .. Len(q) : s[i] = Entry(t, q[i])
  BY <1>1, <1>2 DEF Queued, Entries, Entry
<1>4. s \in Seq(Queued) /\ Len(s) = Len(q)
  BY <1>1, <1>3
<1>5. \A x : x \in ElementsOf(s) <=> \E i \in 1 .. Len(s) : s[i] = x
  BY <1>4, ElementsIs
<1>6. \A x : x \in ElementsOf(q) <=> \E i \in 1 .. Len(q) : q[i] = x
  BY ElementsIs
<1>. QED
  BY <1>3, <1>4, <1>5, <1>6

\* set_up_mailopready_watch lists the call for every alternative.
LEMMA EnqueuedFacts ==
    ASSUME MailInv, NEW t \in Threads, status[t] = "prepared",
           NEW w \in [Ports -> Seq(Queued)]
    PROVE  /\ enqueued(w, t) \in [Ports -> Seq(Queued)]
           /\ \A p \in Ports : \A e : e # Stale =>
                (e \in ElementsOf(enqueued(w, t)[p]) <=>
                   \/ e \in ElementsOf(w[p])
                   \/ \E a \in AltsOf(t) : Port(a) = p /\ e = Entry(t, a))
           /\ \A p \in Ports :
                Stale \in ElementsOf(enqueued(w, t)[p]) => Stale \in ElementsOf(w[p])
<1>. SUFFICES ASSUME NEW p \in Ports
     PROVE  /\ enqueued(w, t)[p] \in Seq(Queued)
            /\ \A e : e # Stale =>
                (e \in ElementsOf(enqueued(w, t)[p]) <=>
                   \/ e \in ElementsOf(w[p])
                   \/ \E a \in AltsOf(t) : Port(a) = p /\ e = Entry(t, a))
            /\ Stale \in ElementsOf(enqueued(w, t)[p]) => Stale \in ElementsOf(w[p])
  BY DEF enqueued
<1>1. PICK q : q = call[t].alts /\ q \in Seq(Alternatives) /\ AltsOf(t) = ElementsOf(q)
  BY ReadyFacts DEF AltsOf
<1>2. PICK here : here = {a \in ElementsOf(q) : Port(a) = p}
  OBVIOUS
<1>3. PICK mine : mine = Backward(Among(q, here))
  OBVIOUS
<1>4. mine \in Seq(Alternatives) /\ ElementsOf(mine) = here
  <2>1. /\ Among(q, here) \in Seq(Alternatives)
        /\ ElementsOf(Among(q, here)) = ElementsOf(q) \cap here
    BY <1>1, ElementsAmong
  <2>. QED BY <1>2, <1>3, <2>1, ElementsBackward
<1>5. PICK old : old = IF call[t].call = "mailop" THEN clean_all(w[p]) ELSE w[p]
  OBVIOUS
<1>6. /\ old \in Seq(Queued) /\ w[p] \in Seq(Queued)
      /\ ElementsOf(old) \subseteq ElementsOf(w[p])
      /\ \A e \in ElementsOf(w[p]) : e # Stale => e \in ElementsOf(old)
  BY <1>5, CleanAllFacts
<1>7. PICK s : s = [i \in DOMAIN mine |-> [thread |-> t, alt |-> mine[i]]]
  OBVIOUS
<1>8. s \in Seq(Queued) /\ ElementsOf(s) = {Entry(t, a) : a \in here}
  BY <1>4, <1>7, EntrySequence
<1>9. enqueued(w, t)[p] = IF mine = <<>> THEN w[p] ELSE old \o s
  BY <1>1, <1>2, <1>3, <1>5, <1>7 DEF enqueued
<1>10. old \o s \in Seq(Queued) /\ ElementsOf(old \o s) = ElementsOf(old) \cup ElementsOf(s)
  BY <1>6, <1>8, ElementsConcat
<1>11. mine = <<>> => here = {}
  BY <1>4, ElementsIs
<1>12. Stale \notin ElementsOf(s)
  <2>1. \A a \in here : Entry(t, a) \in Entries
    BY <1>1, <1>2, ElementsIs DEF Entry, Entries
  <2>. QED BY <1>8, <2>1, MailopsAssumption
<1>. QED
  BY <1>1, <1>2, <1>6, <1>8, <1>9, <1>10, <1>11, <1>12

\* The partners of the partners of a are those who wait where a does.
LEMMA Mirror ==
    ASSUME NEW a \in Alternatives, a.op \in Ops(a.on), a.on \in Slots,
           NEW b \in Alternatives, b.op \in Ops(b.on), Port(b) = Partners(a)
    PROVE  b.on = a.on /\ b.op = Other(a.op) /\ Partners(b) = Port(a)
<1>1. /\ a.op \in {"put", "take"} /\ Port(a) = <<a.on, a.op>>
      /\ Partners(a)[1] = a.on /\ Partners(a)[2] = Other(a.op)
  BY PortFacts
<1>2. Port(b)[1] = b.on
  BY PortFacts
<1>3. b.on = a.on
  BY <1>1, <1>2
<1>4. b.op \in {"put", "take"} /\ Port(b) = <<b.on, b.op>>
  BY <1>3, PortFacts
<1>5. b.op = Other(a.op)
  BY <1>1, <1>4
<1>. QED
  BY <1>1, <1>3, <1>4, <1>5 DEF Partners, Other

\* A call that finds nothing ready waits.
LEMMA BlocksKeeps ==
    ASSUME MailInv, NEW t \in Threads, do_one_mailop_blocks(t) PROVE MailInv'
<1>1. /\ status[t] = "prepared" /\ status' = [status EXCEPT ![t] = "blocked"]
      /\ waiting' = enqueued(tested(t), t)
      /\ left_open' = Null
      /\ UNCHANGED <<program, call, result, priority, value, mail, made,
                     is_set, agenda, raised>>
      /\ may_run(t) /\ call[t].call # "nonblocking"
      /\ \A a \in AltsOf(t) : ~is_mailop_ready_to_fire(a)
  BY ReadyFacts DEF do_one_mailop_blocks
<1>2. /\ agenda = <<>> /\ raised = FALSE /\ ToDo = {} /\ ToDo' = {}
  BY <1>1, MayRun DEF ToDo
<1>3. \A v \in Threads : /\ v # t => status'[v] = status[v]
                         /\ v = t => status'[v] = "blocked"
                         /\ AltsOf(v)' = AltsOf(v) /\ NacksOf(v)' = NacksOf(v)
  BY <1>1 DEF MailInv, MailTypeOK, AltsOf, NacksOf
<1>4. /\ waiting' \in [Ports -> Seq(Queued)]
      /\ \A p \in Ports : \A e : e # Stale =>
           (e \in ElementsOf(waiting'[p]) <=>
              \/ e \in ElementsOf(waiting[p])
              \/ \E a \in AltsOf(t) : Port(a) = p /\ e = Entry(t, a))
      /\ \A p \in Ports : Stale \in ElementsOf(waiting'[p]) => p[1] \in Slots
  <2>1. PICK w : w = tested(t)
    OBVIOUS
  <2>2. /\ w \in [Ports -> Seq(Queued)]
        /\ \A p \in Ports : \A e : e # Stale =>
             (e \in ElementsOf(w[p]) <=> e \in ElementsOf(waiting[p]))
        /\ \A p \in Ports : ElementsOf(w[p]) \subseteq ElementsOf(waiting[p])
    BY <1>1, <2>1, TestedFacts
  <2>3. /\ enqueued(w, t) \in [Ports -> Seq(Queued)]
        /\ \A p \in Ports : \A e : e # Stale =>
             (e \in ElementsOf(enqueued(w, t)[p]) <=>
                \/ e \in ElementsOf(w[p])
                \/ \E a \in AltsOf(t) : Port(a) = p /\ e = Entry(t, a))
        /\ \A p \in Ports :
             Stale \in ElementsOf(enqueued(w, t)[p]) => Stale \in ElementsOf(w[p])
    BY <1>1, <2>2, EnqueuedFacts
  <2>4. \A p \in Ports : Stale \in ElementsOf(waiting[p]) => p[1] \in Slots
    BY LiveQueues
  <2>. QED BY <1>1, <2>1, <2>2, <2>3, <2>4
<1>5. ASSUME NEW a \in AltsOf(t)
      PROVE  /\ a \in Alternatives /\ a.op \in Ops(a.on) /\ Port(a) \in Ports
             /\ Entry(t, a) \in Entries /\ Entry(t, a) # Stale
             /\ Entry(t, a).thread = t /\ Entry(t, a).alt = a
             /\ a.on \notin is_set
             /\ a.on \in Boxes => value[a.on] = Null
             /\ a.on \in Mailqueues => mail[a.on] = <<>>
             /\ a.on \in Slots =>
                  /\ Partners(a) \in Ports /\ Partners(a) # Port(a)
                  /\ \A e \in ElementsOf(waiting[Partners(a)]) : e = Stale
  <2>1. a \in Alternatives /\ a.op \in Ops(a.on)
    BY <1>1, ReadyFacts
  <2>2. /\ Port(a) \in Ports
        /\ a.on \in Slots => Partners(a) \in Ports /\ Partners(a) # Port(a)
    BY <2>1, PortFacts
  <2>3. /\ Entry(t, a) \in Entries /\ Entry(t, a).thread = t /\ Entry(t, a).alt = a
    BY <2>1 DEF Entry, Entries
  <2>4. ~is_mailop_ready_to_fire(a)
    BY <1>1
  <2>5. is_set \subseteq Nacks
    BY DEF MailInv, MailTypeOK
  <2>6. /\ a.on \notin is_set
        /\ a.on \in Boxes => value[a.on] = Null
        /\ a.on \in Mailqueues => mail[a.on] = <<>>
        /\ a.on \in Slots => clean(waiting[Partners(a)]) = <<>>
    BY <2>1, <2>4, <2>5, ReadyIs DEF MailInv
  <2>7. ASSUME a.on \in Slots, NEW e \in ElementsOf(waiting[Partners(a)]), e # Stale
        PROVE FALSE
    <3>1. waiting[Partners(a)] \in Seq(Queued)
      BY <2>2, <2>7 DEF MailInv, MailTypeOK
    <3>2. e \in ElementsOf(clean(waiting[Partners(a)]))
      BY <2>7, <3>1, CleanFacts
    <3>. QED BY <2>6, <2>7, <3>2, ElementsEmpty
  <2>. QED
    BY <2>1, <2>2, <2>3, <2>6, <2>7, MailopsAssumption
<1>6. MailTypeOK'
  <2>1. status' \in [Threads -> {"ready", "prepared", "blocked"}]
    BY <1>1 DEF MailInv, MailTypeOK
  <2>. QED BY <1>1, <1>4, <2>1 DEF MailInv, MailTypeOK
<1>7. CallsOK'
  <2>1. \A v \in Threads : status'[v] = "ready" <=> status[v] = "ready"
    BY <1>1, <1>3
  <2>2. \A v \in Threads : status'[v] = "blocked" => v = t \/ status[v] = "blocked"
    BY <1>3
  <2>. QED BY <1>1, <2>1, <2>2 DEF MailInv, CallsOK
<1>8. QueuesOK'
  <2>1. SUFFICES ASSUME NEW p \in Ports, NEW e \in ElementsOf(waiting'[p])
        PROVE  /\ e = Stale => p[1] \in Slots
               /\ e # Stale => /\ status'[e.thread] = "blocked"
                               /\ e.alt \in AltsOf(e.thread)
                               /\ Port(e.alt) = p
    BY <1>1 DEF QueuesOK, AltsOf, Port
  <2>2. CASE e # Stale /\ e \in ElementsOf(waiting[p])
    BY <1>3, <2>2, LiveQueues
  <2>3. CASE e # Stale /\ \E a \in AltsOf(t) : Port(a) = p /\ e = Entry(t, a)
    BY <1>3, <1>5, <2>3
  <2>. QED BY <1>4, <2>1, <2>2, <2>3
<1>9. ASSUME NEW v \in Threads, status'[v] = "blocked", v # t, NEW b \in AltsOf(v)
      PROVE  /\ b \in Alternatives /\ b.op \in Ops(b.on) /\ Port(b) \in Ports
             /\ Entry(v, b) # Stale /\ b.on \notin is_set
             /\ Entry(v, b).thread = v
             /\ Entry(v, b) \in ElementsOf(waiting[Port(b)])
             /\ b.on \in Boxes => value[b.on] = Null
             /\ b.on \in Mailqueues => mail[b.on] = <<>>
             /\ b.on \in Slots =>
                  /\ Partners(b) \in Ports
                  /\ \A e \in ElementsOf(waiting[Partners(b)]) :
                       e # Stale => e.thread = v
  <2>1. status[v] = "blocked"
    BY <1>3, <1>9
  <2>2. b \in Alternatives /\ b.op \in Ops(b.on)
    BY <1>9, <2>1, CallOf DEF MailInv
  <2>3. Port(b) \in Ports /\ (b.on \in Slots => Partners(b) \in Ports)
    BY <2>2, PortFacts
  <2>4. Entry(v, b) \in Entries /\ Entry(v, b).thread = v
    BY <2>2 DEF Entry, Entries
  <2>5. /\ b.on \notin is_set /\ Entry(v, b) \in ElementsOf(waiting[Port(b)])
        /\ b.on \in Boxes => value[b.on] = Null
    BY <1>2, <1>9, <2>1, NothingToDo
  <2>6. /\ b.on \in Mailqueues => mail[b.on] = <<>>
        /\ b.on \in Slots =>
             \A e \in ElementsOf(waiting[Partners(b)]) : e # Stale => e.thread = v
    BY <1>9, <2>1 DEF MailInv, NothingThere
  <2>. QED BY <2>2, <2>3, <2>4, <2>5, <2>6, MailopsAssumption
<1>10. ListedOK'
  <2>1. SUFFICES ASSUME NEW v \in Threads, status'[v] = "blocked", NEW b \in AltsOf(v)
        PROVE  b.on \notin is_set /\ Entry(v, b) \in ElementsOf(waiting'[Port(b)])
    BY <1>1, <1>2 DEF ListedOK, AltsOf, Entry, Port
  <2>2. CASE v = t
    BY <1>4, <1>5, <2>1, <2>2
  <2>3. CASE v # t
    BY <1>4, <1>9, <2>1, <2>3
  <2>. QED BY <2>2, <2>3
<1>11. NothingThere'
  <2>1. SUFFICES ASSUME NEW v \in Threads, status'[v] = "blocked", NEW b \in AltsOf(v)
        PROVE  /\ b.on \in Boxes => value[b.on] = Null
               /\ b.on \in Mailqueues => mail[b.on] = <<>>
               /\ b.on \in Slots =>
                    \A x \in ElementsOf(waiting'[Partners(b)]) :
                        x # Stale => x.thread = v
    BY <1>1 DEF NothingThere, AltsOf, Partners
  <2>2. CASE v = t
    <3>1. ASSUME b.on \in Slots, NEW x \in ElementsOf(waiting'[Partners(b)]), x # Stale
          PROVE  x.thread = t
      <4>1. b \in AltsOf(t) /\ Partners(b) \in Ports
        BY <1>5, <2>1, <2>2, <3>1
      <4>2. x \notin ElementsOf(waiting[Partners(b)])
        BY <1>5, <3>1, <4>1
      <4>3. PICK a \in AltsOf(t) : x = Entry(t, a)
        BY <1>4, <3>1, <4>1, <4>2
      <4>. QED BY <1>5, <4>3
    <3>. QED BY <1>5, <2>1, <2>2, <3>1
  <2>3. CASE v # t
    <3>1. ASSUME b.on \in Slots, NEW x \in ElementsOf(waiting'[Partners(b)]), x # Stale
          PROVE  x.thread = v
      <4>1. CASE x \in ElementsOf(waiting[Partners(b)])
        BY <1>9, <2>1, <2>3, <3>1, <4>1
      <4>2. ASSUME NEW a \in AltsOf(t), Port(a) = Partners(b) PROVE FALSE
        <5>1. a.on = b.on /\ Partners(a) = Port(b)
          BY <1>5, <1>9, <2>1, <2>3, <3>1, <4>2, Mirror
        <5>. QED BY <1>5, <1>9, <2>1, <2>3, <3>1, <5>1
      <4>. QED BY <1>4, <1>9, <2>1, <2>3, <3>1, <4>1, <4>2
    <3>. QED BY <1>9, <2>1, <2>3, <3>1
  <2>. QED BY <2>2, <2>3
<1>12. AgendaOK'
  BY <1>1, <1>2 DEF MailInv, AgendaOK, Ordered, WakeItem, RelayItem, FireItem
<1>13. NacksOK'
  <2>1. \A v \in Threads : status'[v] # "ready" => status[v] # "ready"
    BY <1>1, <1>3
  <2>2. \A c : SetItem(c) \notin ToDo'
    BY <1>2
  <2>. QED BY <1>1, <1>3, <2>1, <2>2 DEF MailInv, NacksOK, SetItem
<1>. QED
  BY <1>6, <1>7, <1>8, <1>10, <1>11, <1>12, <1>13 DEF MailInv

\* The condvars of the nacks of a call are made for it.
LEMMA PrepareKeeps ==
    ASSUME MailInv, NEW t \in Threads, NEW m \in program, prepare(t, m)
    PROVE  MailInv'
<1>1. /\ status[t] = "ready" /\ status' = [status EXCEPT ![t] = "prepared"]
      /\ ElementsOf(m.nacks) \cap made = {}
      /\ made' = made \cup ElementsOf(m.nacks)
      /\ call' = [call EXCEPT ![t] = m] /\ result' = [result EXCEPT ![t] = Null]
      /\ UNCHANGED <<program, waiting, priority, value, mail, is_set, agenda,
                     left_open, raised>>
      /\ may_run(t)
  BY DEF prepare
<1>2. /\ agenda = <<>> /\ raised = FALSE /\ ToDo = {} /\ ToDo' = {}
      /\ \A x : Count(agenda, x) = 0
  BY <1>1, MayRun DEF ToDo
<1>3. m \in UNION Programs /\ m # Null /\ ElementsOf(m.nacks) \subseteq Nacks
  <2>1. m \in UNION Programs
    BY DEF MailInv, MailTypeOK
  <2>. QED BY <2>1, CallFacts
<1>4. \A v \in Threads : /\ v # t => /\ status'[v] = status[v] /\ call'[v] = call[v]
                                     /\ result'[v] = result[v]
                                     /\ AltsOf(v)' = AltsOf(v) /\ NacksOf(v)' = NacksOf(v)
                         /\ v = t => /\ status'[v] = "prepared" /\ call'[v] = m
                                     /\ result'[v] = Null
                                     /\ NacksOf(v)' = ElementsOf(m.nacks)
  BY <1>1 DEF MailInv, MailTypeOK, AltsOf, NacksOf
<1>5. MailTypeOK'
  BY <1>1, <1>3 DEF MailInv, MailTypeOK
<1>6. CallsOK'
  <2>1. SUFFICES ASSUME NEW v \in Threads
        PROVE  /\ status'[v] = "ready" <=> call'[v] = Null
               /\ status'[v] # "ready" => result'[v] = Null
               /\ status'[v] = "blocked" => call'[v].call # "nonblocking"
    BY DEF CallsOK
  <2>2. CASE v = t
    BY <1>3, <1>4, <2>2
  <2>3. CASE v # t
    BY <1>4, <2>1, <2>3 DEF MailInv, CallsOK
  <2>. QED BY <2>2, <2>3
<1>7. \A v \in Threads : status'[v] = "blocked" => status[v] = "blocked" /\ v # t
  BY <1>1, <1>4
<1>8. QueuesOK'
  <2>1. SUFFICES ASSUME NEW p \in Ports, NEW e \in ElementsOf(waiting[p])
        PROVE  /\ e = Stale => p[1] \in Slots
               /\ e # Stale => /\ status'[e.thread] = "blocked"
                               /\ e.alt \in AltsOf(e.thread)'
                               /\ Port(e.alt) = p
    BY <1>1 DEF QueuesOK, AltsOf, Port
  <2>2. ASSUME e # Stale
        PROVE  /\ status'[e.thread] = "blocked"
               /\ e.alt \in AltsOf(e.thread)' /\ Port(e.alt) = p
    <3>1. /\ e.thread \in Threads /\ status[e.thread] = "blocked"
          /\ e.alt \in AltsOf(e.thread) /\ Port(e.alt) = p
      BY <2>1, <2>2, LiveQueues
    <3>2. e.thread # t
      BY <1>1, <3>1
    <3>. QED BY <1>4, <3>1, <3>2
  <2>. QED BY <2>1, <2>2, LiveQueues
<1>9. ListedOK'
  <2>1. SUFFICES ASSUME NEW v \in Threads, status'[v] = "blocked", NEW b \in AltsOf(v)'
        PROVE  b.on \notin is_set /\ Entry(v, b) \in ElementsOf(waiting[Port(b)])
    BY <1>1, <1>2 DEF ListedOK, AltsOf, Entry, Port
  <2>2. status[v] = "blocked" /\ b \in AltsOf(v)
    BY <1>4, <1>7, <2>1
  <2>. QED BY <1>2, <2>2, NothingToDo
<1>10. NothingThere'
  <2>1. SUFFICES ASSUME NEW v \in Threads, status'[v] = "blocked", NEW b \in AltsOf(v)'
        PROVE  /\ b.on \in Boxes /\ value[b.on] # Null => RelayItem(b.on) \in ToDo
               /\ b.on \in Mailqueues => mail[b.on] = <<>>
               /\ b.on \in Slots =>
                    \A x \in ElementsOf(waiting[Partners(b)]) :
                        x # Stale => x.thread = v
    BY <1>1 DEF NothingThere, AltsOf, Partners, ToDo, RelayItem
  <2>2. status[v] = "blocked" /\ b \in AltsOf(v)
    BY <1>4, <1>7, <2>1
  <2>. QED BY <2>2 DEF MailInv, NothingThere
<1>11. AgendaOK'
  BY <1>1, <1>2 DEF MailInv, AgendaOK, Ordered, WakeItem, RelayItem, FireItem
<1>12. NacksOK'
  <2>1. is_set' \subseteq made'
    BY <1>1 DEF MailInv, NacksOK
  <2>2. \A c \in Nacks : Count(agenda, SetItem(c))' \in {0, 1}
    BY <1>1, <1>2 DEF SetItem
  <2>3. \A c : SetItem(c) \notin ToDo'
    BY <1>2
  <2>4. ASSUME NEW v \in Threads, status'[v] # "ready", NEW c \in NacksOf(v)'
        PROVE  c \in made' /\ c \notin is_set'
    <3>1. CASE v = t
      BY <1>1, <1>4, <2>4, <3>1 DEF MailInv, NacksOK
    <3>2. CASE v # t
      BY <1>1, <1>4, <2>4, <3>2 DEF MailInv, NacksOK
    <3>. QED BY <3>1, <3>2
  <2>5. ASSUME NEW u \in Threads, NEW v \in Threads, u # v,
               status'[u] # "ready", status'[v] # "ready",
               NEW c \in NacksOf(u)', c \in NacksOf(v)'
        PROVE  FALSE
    <3>1. ASSUME NEW x \in Threads, x # t, status[x] # "ready" PROVE NacksOf(x) \subseteq made
      BY <3>1 DEF MailInv, NacksOK
    <3>2. CASE u = t
      BY <1>1, <1>4, <2>5, <3>1, <3>2
    <3>3. CASE v = t
      BY <1>1, <1>4, <2>5, <3>1, <3>3
    <3>4. CASE u # t /\ v # t
      BY <1>4, <2>5, <3>4 DEF MailInv, NacksOK
    <3>. QED BY <3>2, <3>3, <3>4
  <2>. QED BY <2>1, <2>2, <2>3, <2>4, <2>5 DEF NacksOK, SetItem
<1>. QED
  BY <1>5, <1>6, <1>8, <1>9, <1>10, <1>11, <1>12 DEF MailInv

\* A maildrop is filled.
LEMMA PutInDropKeeps ==
    ASSUME MailInv, NEW t \in Threads, NEW d \in Boxes, put_in_maildrop(t, d)
    PROVE  MailInv'
<1>1. /\ left_open' = Null
      /\ UNCHANGED <<program, status, call, result, waiting, mail, made,
                     is_set, raised>>
      /\ may_run(t)
  BY DEF put_in_maildrop
<1>2. /\ agenda = <<>> /\ raised = FALSE /\ ToDo = {}
      /\ \A x : Count(agenda, x) = 0
  BY <1>1, MayRun
<1>3. CallsOK' /\ QueuesOK'
  BY <1>1 DEF MailInv, CallsOK, QueuesOK, AltsOf, Port
<1>4. CASE value[d] # Null
  <2>1. UNCHANGED <<value, agenda, priority>>
    BY <1>4 DEF put_in_maildrop
  <2>2. MailTypeOK'
    BY <1>1, <2>1 DEF MailInv, MailTypeOK
  <2>3. ListedOK' /\ NothingThere'
    BY <1>1, <2>1 DEF MailInv, ListedOK, NothingThere, AltsOf, Entry, Port,
                      Partners, ToDo, WakeItem, RelayItem
  <2>4. AgendaOK' /\ NacksOK'
    BY <1>1, <1>2, <2>1 DEF MailInv, AgendaOK, NacksOK, Ordered, WakeItem, RelayItem,
                            FireItem, SetItem, NacksOf, ToDo
  <2>. QED BY <1>3, <2>2, <2>3, <2>4 DEF MailInv
<1>5. CASE value[d] = Null
  <2>1. PICK r : r = RelayItem(d)
    OBVIOUS
  <2>2. r \in Items /\ r.do = "relay" /\ r.on = d
    BY <2>1, ItemKinds
  <2>3. /\ value' = [value EXCEPT ![d] = t] /\ agenda' = <<r>>
        /\ priority' \in {priority, [priority EXCEPT ![d] = 1]}
    BY <1>5, <2>1 DEF put_in_maildrop, RelayItem
  <2>4. agenda' \in Seq(Items) /\ Ordered(agenda') /\ ToDo' = {r}
    BY <2>2, <2>3, OrderOne DEF ToDo
  <2>5. \A x : SetItem(x) # r /\ WakeItem(x) # r
    BY <2>2 DEF SetItem, WakeItem
  <2>6. \A x, y : FireItem(x, y) # r
    BY <2>2 DEF FireItem
  <2>7. \A x : RelayItem(x) = r => x = d
    BY <2>2 DEF RelayItem
  <2>8. /\ value' \in [Boxes -> Threads \cup {Null}]
        /\ value'[d] = t /\ t # Null
        /\ \A x \in Boxes : x # d => value'[x] = value[x]
    BY <2>3, MailopsAssumption DEF MailInv, MailTypeOK
  <2>9. MailTypeOK'
    <3>1. priority' \in [Objects -> Nat]
      BY <2>3 DEF MailInv, MailTypeOK
    <3>. QED BY <1>1, <2>4, <2>8, <3>1 DEF MailInv, MailTypeOK
  <2>10. ListedOK'
    <3>1. SUFFICES ASSUME NEW v \in Threads, status[v] = "blocked", NEW b \in AltsOf(v)
          PROVE  b.on \notin is_set /\ Entry(v, b) \in ElementsOf(waiting[Port(b)])
      BY <1>1 DEF ListedOK, AltsOf, Entry, Port
    <3>. QED BY <1>2, <3>1, NothingToDo
  <2>11. NothingThere'
    <3>1. SUFFICES ASSUME NEW v \in Threads, status[v] = "blocked", NEW b \in AltsOf(v)
          PROVE  /\ b.on \in Boxes /\ value'[b.on] # Null => RelayItem(b.on) \in ToDo'
                 /\ b.on \in Mailqueues => mail[b.on] = <<>>
                 /\ b.on \in Slots =>
                      \A x \in ElementsOf(waiting[Partners(b)]) :
                          x # Stale => x.thread = v
      BY <1>1 DEF NothingThere, AltsOf, Partners, RelayItem
    <3>2. /\ b.on \in Boxes => value[b.on] = Null
          /\ b.on \in Mailqueues => mail[b.on] = <<>>
          /\ b.on \in Slots =>
               \A x \in ElementsOf(waiting[Partners(b)]) :
                   x # Stale => x.thread = v
      BY <1>2, <3>1 DEF MailInv, NothingThere
    <3>. QED BY <2>1, <2>4, <2>8, <3>2
  <2>12. AgendaOK'
    BY <1>1, <1>2, <2>4, <2>5, <2>6, <2>7, <2>8
    DEF AgendaOK, Ordered, WakeItem, RelayItem, FireItem
  <2>13. NacksOK'
    <3>1. \A c \in Nacks : Count(agenda, SetItem(c))' \in {0, 1}
      <4>1. \A c \in Nacks : Count(<<r>>, SetItem(c)) = 0
        BY <2>5, CountOne
      <4>. QED BY <2>3, <4>1 DEF SetItem
    <3>2. \A c : SetItem(c) \notin ToDo'
      BY <2>4, <2>5
    <3>. QED BY <1>1, <3>1, <3>2 DEF MailInv, NacksOK, SetItem, NacksOf
  <2>. QED BY <1>3, <2>9, <2>10, <2>11, <2>12, <2>13 DEF MailInv
<1>. QED
  BY <1>4, <1>5

\* A message is sent to a mailqueue.
LEMMA PutInQueueKeeps ==
    ASSUME MailInv, NEW t \in Threads, NEW q \in Mailqueues, put_in_mailqueue(t, q)
    PROVE  MailInv'
<1>1. /\ left_open' = Null /\ UNCHANGED <<program, value, made, is_set, raised>>
      /\ may_run(t) /\ status[t] = "ready"
  BY DEF put_in_mailqueue
<1>2. /\ agenda = <<>> /\ raised = FALSE /\ ToDo = {} /\ Null \notin Threads
      /\ \A x : Count(agenda, x) = 0
  BY <1>1, MayRun
<1>3. PICK p, e : p = <<q, "wait">> /\ e = Head(waiting[p])
  OBVIOUS
<1>4. p \in Ports /\ p[1] = q /\ q \notin Slots /\ q \notin Nacks /\ q \in Objects
  BY <1>3, MailopsAssumption DEF Ports, Objects
<1>5. /\ result \in [Threads -> Threads \cup {Null}]
      /\ value \in [Boxes -> Threads \cup {Null}]
      /\ mail \in [Mailqueues -> Seq(Threads)]
      /\ priority \in [Objects -> Nat] /\ waiting \in [Ports -> Seq(Queued)]
  BY DEF MailInv, MailTypeOK
<1>6. CASE /\ waiting[p] # <<>>
           /\ status' = [status EXCEPT ![e.thread] = "ready"]
           /\ call' = [call EXCEPT ![e.thread] = Null]
           /\ result' = [result EXCEPT ![e.thread] = t]
           /\ waiting' = completed(waiting, e.thread)
           /\ agenda' = send_nacks(e.thread, e.alt)
           /\ UNCHANGED <<mail, priority>>
  <2>1. e.thread \in Threads /\ status[e.thread] = "blocked"
    BY <1>3, <1>4, <1>6, LiveQueues
  <2>2. Answered(e.thread)
    BY <1>6 DEF Answered
  <2>3. Leaves(e.thread)
    BY <1>5, <1>6, <2>1, CompletedLeaves, LiveQueues
  <2>4. NothingNew(e.thread)
    BY <1>1, <1>2, <1>6 DEF NothingNew
  <2>5. Remains(<<>>)
    BY <1>2, NothingRemains
  <2>6. agenda' = send_nacks(e.thread, e.alt) \o <<>>
    <3>1. send_nacks(e.thread, e.alt) \in Seq(SetItems)
      BY <2>1, SendNacksFacts DEF MailInv
    <3>. QED BY <1>6, <3>1
  <2>7. /\ \A v \in Threads : result'[v] = result[v] \/ v = e.thread
        /\ result' \in [Threads -> Threads \cup {Null}]
    BY <1>5, <1>6, <2>1
  <2>8. /\ priority' \in [Objects -> Nat] /\ value' \in [Boxes -> Threads \cup {Null}]
        /\ mail' \in [Mailqueues -> Seq(Threads)]
        /\ left_open' \in Threads \cup {Null}
        /\ raised' = FALSE /\ status[e.thread] # "ready"
        /\ UNCHANGED <<program, is_set, made>>
    BY <1>1, <1>2, <1>5, <1>6, <2>1
  <2>9. PICK u : u = e.thread
    OBVIOUS
  <2>. QED
    BY <2>1, <2>2, <2>3, <2>4, <2>5, <2>6, <2>7, <2>8, <2>9, AnswerKeepsAll
<1>7. CASE /\ mail[q] # <<>> \/ waiting[p] = <<>>
           /\ mail' = [mail EXCEPT ![q] = Append(@, t)]
           /\ priority' \in {priority, [priority EXCEPT ![q] = 1]}
           /\ UNCHANGED <<status, call, result, waiting, agenda>>
  <2>1. MailTypeOK'
    <3>1. mail' \in [Mailqueues -> Seq(Threads)]
      <4>1. Append(mail[q], t) \in Seq(Threads)
        BY <1>5
      <4>. QED BY <1>5, <1>7, <4>1
    <3>2. priority' \in [Objects -> Nat]
      BY <1>5, <1>7
    <3>. QED BY <1>1, <1>7, <3>1, <3>2 DEF MailInv, MailTypeOK
  <2>2. CallsOK' /\ QueuesOK'
    BY <1>7 DEF MailInv, CallsOK, QueuesOK, AltsOf, Port
  <2>3. ListedOK'
    <3>1. SUFFICES ASSUME NEW v \in Threads, status[v] = "blocked", NEW b \in AltsOf(v)
          PROVE  b.on \notin is_set /\ Entry(v, b) \in ElementsOf(waiting[Port(b)])
      BY <1>1, <1>7 DEF ListedOK, AltsOf, Entry, Port
    <3>. QED BY <1>2, <3>1, NothingToDo
  <2>4. NothingThere'
    <3>1. SUFFICES ASSUME NEW v \in Threads, status[v] = "blocked", NEW b \in AltsOf(v)
          PROVE  /\ b.on \in Boxes => value[b.on] = Null
                 /\ b.on \in Mailqueues => mail'[b.on] = <<>>
                 /\ b.on \in Slots =>
                      \A x \in ElementsOf(waiting[Partners(b)]) :
                          x # Stale => x.thread = v
      BY <1>1, <1>7 DEF NothingThere, AltsOf, Partners, RelayItem
    <3>2. /\ b.on \in Boxes => value[b.on] = Null
          /\ b.on \in Mailqueues => mail[b.on] = <<>>
          /\ b.on \in Slots =>
               \A x \in ElementsOf(waiting[Partners(b)]) :
                   x # Stale => x.thread = v
      BY <1>2, <3>1 DEF MailInv, NothingThere
    <3>3. b.on # q
      <4>1. ASSUME b.on = q PROVE FALSE
        <5>1. Port(b) = p
          BY <1>3, <1>4, <4>1 DEF Port
        <5>2. Entry(v, b) \in ElementsOf(waiting[p])
          BY <1>2, <3>1, <5>1, NothingToDo
        <5>3. mail[q] = <<>>
          BY <3>2, <4>1
        <5>. QED BY <1>7, <5>2, <5>3, ElementsEmpty
      <4>. QED BY <4>1
    <3>. QED BY <1>5, <1>7, <3>2, <3>3
  <2>5. AgendaOK'
    BY <1>1, <1>2, <1>7, ElementsEmpty
    DEF MailInv, AgendaOK, Ordered, WakeItem, RelayItem, FireItem, ToDo
  <2>6. NacksOK'
    BY <1>1, <1>7 DEF MailInv, NacksOK, SetItem, NacksOf, ToDo
  <2>. QED BY <2>1, <2>2, <2>3, <2>4, <2>5, <2>6 DEF MailInv
<1>. QED
  BY <1>3, <1>6, <1>7 DEF put_in_mailqueue

\* The invariant holds at first.
LEMMA MailInvInit ==
    ASSUME Init PROVE MailInv
<1>1. /\ ToDo = {} /\ \A x : Count(agenda, x) = 0 /\ agenda \in Seq(Items)
      /\ Ordered(agenda)
  BY ElementsEmpty, CountEmpty DEF Init, ToDo, Ordered
<1>2. \A p \in Ports : waiting[p] = <<>> /\ ElementsOf(waiting[p]) = {}
  BY ElementsEmpty DEF Init
<1>3. \A t \in Threads : status[t] = "ready" /\ call[t] = Null /\ result[t] = Null
  BY DEF Init
<1>4. MailTypeOK
  <2>1. waiting \in [Ports -> Seq(Queued)]
    BY DEF Init
  <2>2. mail \in [Mailqueues -> Seq(Threads)]
    BY DEF Init
  <2>3. priority \in [Objects -> Nat]
    BY DEF Init
  <2>. QED BY <1>1, <2>1, <2>2, <2>3 DEF Init, MailTypeOK
<1>5. CallsOK /\ QueuesOK /\ ListedOK /\ NothingThere
  BY <1>2, <1>3 DEF CallsOK, QueuesOK, ListedOK, NothingThere
<1>6. AgendaOK
  BY <1>1 DEF AgendaOK, Init
<1>7. NacksOK
  BY <1>1, <1>3 DEF NacksOK, Init
<1>. QED
  BY <1>4, <1>5, <1>6, <1>7 DEF MailInv

\* Every step keeps the invariant.
LEMMA MailInvNext ==
    ASSUME MailInv, [Next]_vars PROVE MailInv'
<1>1. CASE scope_continues
  BY <1>1, SetKeeps, WakeKeeps, FireKeeps, RelayKeeps DEF scope_continues
<1>2. ASSUME NEW t \in Threads, NEW m \in program, prepare(t, m) PROVE MailInv'
  BY <1>2, PrepareKeeps
<1>3. ASSUME NEW t \in Threads, do_one_mailop_fires(t) PROVE MailInv'
  BY <1>3, FiresKeeps
<1>4. ASSUME NEW t \in Threads, do_one_mailop_blocks(t) PROVE MailInv'
  BY <1>4, BlocksKeeps
<1>5. ASSUME NEW t \in Threads, nonblocking_call_gives_up(t) PROVE MailInv'
  BY <1>5, GivesUpKeeps
<1>6. ASSUME NEW t \in Threads, NEW d \in Boxes, put_in_maildrop(t, d) PROVE MailInv'
  BY <1>6, PutInDropKeeps
<1>7. ASSUME NEW t \in Threads, NEW q \in Mailqueues, put_in_mailqueue(t, q) PROVE MailInv'
  BY <1>7, PutInQueueKeeps
<1>8. CASE UNCHANGED vars
  <2>1. UNCHANGED vars
    BY <1>8
  <2>2. MailTypeOK' /\ CallsOK'
    BY <2>1 DEF vars, MailInv, MailTypeOK, CallsOK
  <2>3. QueuesOK'
    BY <2>1 DEF vars, MailInv, QueuesOK, AltsOf, Port
  <2>4. ListedOK' /\ NothingThere'
    BY <2>1 DEF vars, MailInv, ListedOK, NothingThere, AltsOf, ToDo, Entry, Port,
                Partners, WakeItem, RelayItem
  <2>5. AgendaOK'
    BY <2>1 DEF vars, MailInv, AgendaOK, AltsOf, ToDo, Partners, Ordered,
                WakeItem, RelayItem, FireItem
  <2>6. NacksOK'
    BY <2>1 DEF vars, MailInv, NacksOK, NacksOf, ToDo, SetItem
  <2>. QED
    BY <2>2, <2>3, <2>4, <2>5, <2>6 DEF MailInv
<1>. QED
  BY <1>1, <1>2, <1>3, <1>4, <1>5, <1>6, <1>7, <1>8 DEF Next

\* In every program: the queues, the calls, the nacks and the steps that are
\* left in a scope agree, at every step of every operation.
THEOREM MailInvariant == Spec => []MailInv
<1>1. Init => MailInv
  BY MailInvInit
<1>2. MailInv /\ [Next]_vars => MailInv'
  BY MailInvNext
<1>. QED
  BY <1>1, <1>2, PTL DEF Spec

\* No thread waits for what is already there, in a queue in which its partner
\* does not look, or for a nack that has been sent: do_one_mailop finds nothing
\* ready and lists the call in one scope, and each operation that makes
\* something ready serves those that it finds listed before its scope ends.
THEOREM NobodyWaits == Spec => []NobodyWaitsInVain
<1>1. ASSUME MailInv PROVE NobodyWaitsInVain
  <2>1. SUFFICES ASSUME agenda = <<>>, NEW t \in Threads, status[t] = "blocked",
                        NEW a \in AltsOf(t)
        PROVE  /\ Entry(t, a) \in ElementsOf(waiting[Port(a)])
               /\ a.on \in Boxes => value[a.on] = Null
               /\ a.on \in Mailqueues => mail[a.on] = <<>>
               /\ a.on \notin is_set
               /\ a.on \in Slots =>
                    \A e \in ElementsOf(waiting[Partners(a)]) :
                        e # Stale => e.thread = t
    BY DEF NobodyWaitsInVain, AltsOf, Entry, IsLive
  <2>. QED BY <1>1, <2>1, NothingToDo DEF MailInv, NothingThere
<1>. QED
  BY <1>1, MailInvariant, PTL

-----------------------------------------------------------------------------
(* The rendezvous that is decided *)

\* There is at most one, and it is the last step of its scope.
LEMMA FiringFacts ==
    ASSUME MailInv
    PROVE  /\ \A f \in Firing : /\ f \in ToDo
                                /\ f.thread \in Threads /\ f.alt \in Alternatives
                                /\ f = FireItem(f.thread, f.alt)
           /\ \A t, a : FireItem(t, a) \in ToDo => FireItem(t, a) \in Firing
           /\ \A f, g \in Firing : f = g
           /\ \A f \in Firing : agenda # <<>> /\ (Head(agenda) # f => Len(agenda) > 1)
<1>1. agenda \in Seq(Items) /\ Ordered(agenda) /\ ToDo = ElementsOf(agenda)
  BY DEF MailInv, MailTypeOK, AgendaOK, ToDo
<1>2. ASSUME NEW f \in Firing
      PROVE  /\ f \in ToDo /\ f.thread \in Threads /\ f.alt \in Alternatives
             /\ f = FireItem(f.thread, f.alt)
  <2>1. f \in ToDo /\ f \in Items /\ f.do = "fire"
    BY <1>1, ElementsIs DEF Firing
  <2>2. PICK t \in Threads, a \in Alternatives : f = FireItem(t, a)
    BY <2>1, ItemKinds
  <2>3. f.thread = t /\ f.alt = a
    BY <2>2 DEF FireItem
  <2>. QED BY <2>1, <2>2, <2>3
<1>3. \A t, a : FireItem(t, a) \in ToDo => FireItem(t, a) \in Firing
  BY <1>1 DEF Firing, FireItem
<1>4. ASSUME NEW f \in Firing PROVE f = agenda[Len(agenda)] /\ Len(agenda) \in Nat /\ Len(agenda) >= 1
  <2>1. f \in ElementsOf(agenda) /\ f.do = "fire"
    BY DEF Firing
  <2>2. PICK i \in 1 .. Len(agenda) : agenda[i] = f
    BY <1>1, <2>1, ElementsIs
  <2>3. f \notin Notices
    BY <2>1, ItemKinds
  <2>4. i = Len(agenda)
    BY <1>1, <2>2, <2>3 DEF Ordered
  <2>. QED BY <1>1, <2>2, <2>4
<1>5. ASSUME NEW f \in Firing PROVE agenda # <<>> /\ (Head(agenda) # f => Len(agenda) > 1)
  <2>1. f = agenda[Len(agenda)] /\ Len(agenda) \in Nat /\ Len(agenda) >= 1
    BY <1>4
  <2>2. agenda # <<>> /\ Head(agenda) = agenda[1]
    BY <1>1, <2>1
  <2>. QED BY <2>1, <2>2
<1>. QED
  BY <1>2, <1>3, <1>4, <1>5

\* What the answer to a call leaves on the agenda.
LEMMA AnswerAgenda ==
    ASSUME MailInv, NEW u \in Threads, status[u] # "ready", NEW a,
           NEW rest \in Seq(Items), agenda' = send_nacks(u, a) \o rest
    PROVE  /\ ToDo' = {SetItem(c) : c \in NacksOf(u) \ a.nacks} \cup ElementsOf(rest)
           /\ Firing' = {f \in ElementsOf(rest) : f.do = "fire"}
           /\ NackItems' = {SetItem(c) : c \in NacksOf(u) \ a.nacks}
                           \cup {f \in ElementsOf(rest) : f.do = "set"}
           /\ NacksOf(u) \subseteq a.nacks => Len(agenda') = Len(rest)
<1>1. PICK s : /\ s = send_nacks(u, a) /\ s \in Seq(SetItems)
               /\ ElementsOf(s) = {SetItem(c) : c \in NacksOf(u) \ a.nacks}
  BY SendNacksFacts DEF MailInv
<1>2. s \in Seq(Items)
  <2>1. SetItems \subseteq Items
    BY DEF Items, Notices
  <2>. QED BY <1>1, <2>1
<1>3. /\ agenda' = s \o rest
      /\ ElementsOf(s \o rest) = ElementsOf(s) \cup ElementsOf(rest)
  BY <1>1, <1>2, ElementsConcat
<1>4. \A c : SetItem(c).do = "set"
  BY DEF SetItem
<1>5. NacksOf(u) \subseteq a.nacks => Len(agenda') = Len(rest)
  <2>1. ASSUME NacksOf(u) \subseteq a.nacks PROVE Len(agenda') = Len(rest)
    <3>1. ElementsOf(s) = {}
      BY <1>1, <2>1
    <3>2. s = <<>>
      BY <1>2, <3>1, ElementsIs
    <3>. QED BY <1>3, <3>2
  <2>. QED BY <2>1
<1>. QED
  BY <1>1, <1>3, <1>4, <1>5 DEF ToDo, Firing, NackItems

\* The same when nothing else was on the agenda.
LEMMA AnswerOnly ==
    ASSUME MailInv, NEW u \in Threads, status[u] # "ready", NEW a,
           agenda' = send_nacks(u, a) \/ agenda' = send_nacks(u, a) \o <<>>
    PROVE  /\ ToDo' = {SetItem(c) : c \in NacksOf(u) \ a.nacks}
           /\ Firing' = {}
           /\ NackItems' = {SetItem(c) : c \in NacksOf(u) \ a.nacks}
           /\ NacksOf(u) \subseteq a.nacks => agenda' = <<>>
<1>1. /\ send_nacks(u, a) \in Seq(SetItems)
      /\ ElementsOf(send_nacks(u, a)) = {SetItem(c) : c \in NacksOf(u) \ a.nacks}
  BY SendNacksFacts DEF MailInv
<1>2. agenda' = send_nacks(u, a)
  BY <1>1
<1>3. \A c : SetItem(c).do = "set"
  BY DEF SetItem
<1>4. ElementsOf(agenda') = {SetItem(c) : c \in NacksOf(u) \ a.nacks}
  BY <1>1, <1>2
<1>5. NacksOf(u) \subseteq a.nacks => agenda' = <<>>
  <2>1. ASSUME NacksOf(u) \subseteq a.nacks PROVE agenda' = <<>>
    <3>1. ElementsOf(send_nacks(u, a)) = {}
      BY <1>1, <2>1
    <3>. QED BY <1>1, <1>2, <3>1, ElementsIs
  <2>. QED BY <2>1
<1>. QED
  BY <1>3, <1>4, <1>5 DEF ToDo, Firing, NackItems

\* While an operation may begin nothing is decided or to be sent.
LEMMA Quiet ==
    ASSUME agenda = <<>>
    PROVE  ToDo = {} /\ Firing = {} /\ NackItems = {}
BY ElementsEmpty DEF ToDo, Firing, NackItems

\* The partner that the rendezvous will use.
LEMMA PartnerFacts ==
    ASSUME MailInv, PromiseOK, NEW f \in Firing, NEW e, e = PartnerEntry(f)
    PROVE  /\ e \in Entries /\ e # Stale /\ e.thread \in Threads
           /\ status[e.thread] = "blocked" /\ status[f.thread] = "ready"
           /\ e.alt \in AltsOf(e.thread) /\ Port(e.alt) = Partners(f.alt)
           /\ f.alt.on \in Slots /\ f.alt.op \in {"put", "take"}
           /\ Partners(f.alt) \in Ports /\ Partners(f.alt)[1] \in Slots
           /\ waiting[Partners(f.alt)] # <<>>
           /\ e = Head(waiting[Partners(f.alt)])
           /\ Len(agenda) > 1 => \A x \in AltsOf(e.thread) : x.on \notin Nacks
<1>1. /\ f.thread \in Threads /\ f.alt \in Alternatives
      /\ FireItem(f.thread, f.alt) \in ToDo
  BY FiringFacts
<1>2. /\ status[f.thread] = "ready" /\ f.alt.on \in Slots /\ f.alt.op \in {"put", "take"}
      /\ waiting[Partners(f.alt)] # <<>>
  BY <1>1 DEF MailInv, AgendaOK
<1>3. Partners(f.alt) \in Ports /\ Partners(f.alt)[1] \in Slots
  BY <1>2 DEF Partners, Ports, Other
<1>4. e = Head(waiting[Partners(f.alt)])
  BY DEF PartnerEntry
<1>5. /\ e # Stale
      /\ Len(agenda) > 1 => \A x \in AltsOf(e.thread) : x.on \notin Nacks
  BY <1>1, <1>4 DEF PromiseOK
<1>. QED
  BY <1>2, <1>3, <1>4, <1>5, LiveQueues

\* A nack that is being sent does not wake that partner.
LEMMA WokenIsNotPromised ==
    ASSUME MailInv, PromiseOK, wake_waiting_thread,
           NEW e, e = Head(agenda).entry, status[e.thread] = "blocked",
           NEW f \in Firing
    PROVE  /\ PartnerEntry(f).thread # e.thread
           /\ e \in Entries /\ e.alt \in AltsOf(e.thread) /\ e.alt.on \in is_set
<1>1. Head(agenda) \in Items /\ Head(agenda) \in ToDo /\ Head(agenda).do = "wake"
  BY HeadFacts DEF wake_waiting_thread
<1>2. e \in Entries /\ Head(agenda) = WakeItem(e)
  BY <1>1, ItemKinds
<1>3. e.alt \in AltsOf(e.thread) /\ e.alt.on \in is_set
  BY <1>1, <1>2 DEF MailInv, AgendaOK
<1>4. e.alt.on \in Nacks
  BY <1>3 DEF MailInv, MailTypeOK
<1>5. f.do = "fire"
  BY DEF Firing
<1>6. Len(agenda) > 1
  BY <1>1, <1>5, FiringFacts
<1>7. \A x \in AltsOf(PartnerEntry(f).thread) : x.on \notin Nacks
  BY <1>6, PartnerFacts
<1>. QED
  BY <1>2, <1>3, <1>4, <1>7

\* A step that decides nothing, and leaves the partner where it is.
LEMMA PromiseStays ==
    ASSUME MailInv, PromiseOK, Firing' \subseteq Firing, MailInv',
           \A f \in Firing' : /\ waiting'[Partners(f.alt)] # <<>>
                              /\ Head(waiting'[Partners(f.alt)]) = PartnerEntry(f)
                              /\ call'[PartnerEntry(f).thread] = call[PartnerEntry(f).thread]
                              /\ Len(agenda) > 1 \/ Len(agenda') <= 1
    PROVE  PromiseOK'
<1>1. SUFFICES ASSUME NEW t \in Threads, NEW a \in Alternatives, FireItem(t, a) \in ToDo'
      PROVE  /\ Head(waiting'[Partners(a)]) # Stale
             /\ Len(agenda') > 1 =>
                  \A x \in ElementsOf(call'[Head(waiting'[Partners(a)]).thread].alts) :
                      x.on \notin Nacks
  BY DEF PromiseOK, FireItem, Partners, AltsOf
<1>2. PICK f : f = FireItem(t, a)
  OBVIOUS
<1>3. f \in Firing' /\ f.thread = t /\ f.alt = a
  <2>1. f.thread = t /\ f.alt = a /\ f.do = "fire"
    BY <1>2 DEF FireItem
  <2>. QED BY <1>1, <1>2, <2>1 DEF Firing, ToDo
<1>4. PICK e : e = PartnerEntry(f)
  OBVIOUS
<1>5. /\ e # Stale
      /\ Len(agenda) > 1 => \A x \in AltsOf(e.thread) : x.on \notin Nacks
  BY <1>3, <1>4, PartnerFacts
<1>6. /\ Head(waiting'[Partners(a)]) = e
      /\ ElementsOf(call'[e.thread].alts) = AltsOf(e.thread)
      /\ Len(agenda) > 1 \/ Len(agenda') <= 1
  BY <1>3, <1>4 DEF AltsOf
<1>7. Len(agenda') \in Nat /\ Len(agenda) \in Nat
  BY DEF MailInv, MailTypeOK
<1>. QED
  BY <1>3, <1>5, <1>6, <1>7

LEMMA PromiseGone ==
    ASSUME Firing' = {} PROVE PromiseOK'
<1>1. \A t, a : FireItem(t, a) \notin ToDo'
  BY DEF Firing, ToDo, FireItem
<1>. QED
  BY <1>1 DEF PromiseOK, FireItem

\* The steps inside a scope.
LEMMA SetStep ==
    ASSUME MailInv, set_condvar
    PROVE  /\ Firing' = Firing /\ (Len(agenda) > 1 \/ Firing = {})
           /\ \A p \in Ports : p[1] \in Slots => waiting'[p] = waiting[p]
           /\ \E c \in Nacks : /\ is_set' = is_set \cup {c}
                               /\ SetItem(c) \in NackItems
                               /\ NackItems \subseteq NackItems' \cup {SetItem(c)}
                               /\ NackItems' \subseteq NackItems
           /\ UNCHANGED <<program, status, call, result, priority, value, mail,
                          made, left_open, raised>>
<1>0. PICK c : c \in Nacks /\ Head(agenda) = SetItem(c)
  <2>1. Head(agenda) \in Items /\ Head(agenda).do = "set"
    BY HeadFacts DEF set_condvar
  <2>. QED BY <2>1, ItemKinds
<1>1. /\ agenda # <<>> /\ SetItem(c) \in ToDo
      /\ SetItem(c).on = c /\ SetItem(c).do = "set"
  <2>1. agenda # <<>>
    BY DEF set_condvar
  <2>2. SetItem(c) \in ToDo
    BY <1>0, <2>1, HeadFacts
  <2>. QED BY <1>0, <2>1, <2>2, ItemKinds
<1>2. c \in made /\ c \notin is_set
  BY <1>0, <1>1 DEF MailInv, NacksOK
<1>3. PICK p, rest : p = <<c, "wait">> /\ rest = Tail(agenda)
  OBVIOUS
<1>4. /\ p \in Ports /\ p[1] = c /\ c \notin Slots
  BY <1>0, <1>3, MailopsAssumption DEF Ports
<1>5. waiting[p] \in Seq(Entries)
  <2>1. /\ waiting[p] \in Seq(Queued)
        /\ \A e \in ElementsOf(waiting[p]) : e \in Entries
    BY <1>4, LiveQueues, MailopsAssumption
  <2>. QED BY <2>1 DEF ElementsOf
<1>6. PICK s : s = [i \in DOMAIN Backward(waiting[p]) |->
                      [do |-> "wake", entry |-> Backward(waiting[p])[i]]]
  OBVIOUS
<1>7. s \in Seq(WakeItems)
  <2>1. Backward(waiting[p]) \in Seq(Entries)
    BY <1>5, ElementsBackward
  <2>. QED BY <1>6, <2>1, WakeSequence
<1>8. /\ is_set' = is_set \cup {c}
      /\ waiting' = [waiting EXCEPT ![p] = <<>>]
      /\ agenda' = s \o rest
      /\ UNCHANGED <<program, status, call, result, priority, value, mail,
                     made, left_open, raised>>
  BY <1>0, <1>1, <1>2, <1>3, <1>6 DEF set_condvar
<1>9. rest \in Seq(Items) /\ ElementsOf(agenda) = {SetItem(c)} \cup ElementsOf(rest)
  BY <1>0, <1>1, <1>3, HeadFacts DEF ToDo
<1>10. s \in Seq(Items) /\ \A x \in ElementsOf(s) : x.do = "wake"
  <2>1. \A x \in WakeItems : x \in Items /\ x.do = "wake"
    BY DEF Items, Notices, WakeItems, WakeItem
  <2>2. s \in Seq(Items)
    BY <1>7, <2>1
  <2>3. ElementsOf(s) \subseteq WakeItems
    BY <1>7, ElementsIs
  <2>. QED BY <2>1, <2>2, <2>3
<1>11. ElementsOf(agenda)' = ElementsOf(s) \cup ElementsOf(rest)
  BY <1>8, <1>9, <1>10, ElementsConcat
<1>12. Firing' = Firing
  BY <1>1, <1>9, <1>10, <1>11 DEF Firing
<1>13. Firing # {} => Len(agenda) > 1
  <2>1. \A f \in Firing : f # Head(agenda)
    BY <1>0, <1>1 DEF Firing
  <2>. QED BY <2>1, FiringFacts
<1>14. /\ SetItem(c) \in NackItems /\ NackItems' \subseteq NackItems
       /\ NackItems \subseteq NackItems' \cup {SetItem(c)}
  BY <1>1, <1>9, <1>10, <1>11 DEF NackItems
<1>15. \A r \in Ports : r[1] \in Slots => waiting'[r] = waiting[r]
  BY <1>4, <1>8 DEF MailInv, MailTypeOK
<1>. QED
  BY <1>0, <1>8, <1>12, <1>13, <1>14, <1>15

LEMMA WakeStep ==
    ASSUME MailInv, wake_waiting_thread
    PROVE  \E e \in Entries :
             /\ e = Head(agenda).entry /\ e.thread \in Threads /\ e.alt.on \in is_set
             /\ Firing' = Firing /\ (Len(agenda) > 1 \/ Firing = {})
             /\ UNCHANGED <<program, result, priority, value, mail, made, is_set,
                           left_open, raised>>
             /\ \/ /\ status[e.thread] = "blocked" /\ e.alt \in AltsOf(e.thread)
                   /\ Answered(e.thread) /\ waiting' = completed(waiting, e.thread)
                   /\ NackItems' = {SetItem(c) : c \in NacksOf(e.thread) \ e.alt.nacks}
                                   \cup NackItems
                \/ /\ UNCHANGED <<status, call, waiting>>
                   /\ NackItems' = NackItems
<1>0. agenda # <<>> /\ Head(agenda).do = "wake"
      /\ UNCHANGED <<program, result, priority, value, mail, made, is_set,
                    left_open, raised>>
  BY DEF wake_waiting_thread
<1>1. PICK e, rest : e = Head(agenda).entry /\ rest = Tail(agenda)
  OBVIOUS
<1>2. /\ rest \in Seq(Items) /\ Head(agenda) \in ToDo
      /\ ElementsOf(agenda) = {Head(agenda)} \cup ElementsOf(rest)
      /\ e \in Entries /\ e.thread \in Threads /\ Head(agenda) = WakeItem(e)
  <2>1. Head(agenda) \in Items
    BY <1>0, HeadFacts
  <2>2. e \in Entries /\ Head(agenda) = WakeItem(e)
    BY <1>0, <1>1, <2>1, ItemKinds
  <2>. QED BY <1>0, <1>1, <2>2, HeadFacts DEF ToDo, Entries
<1>3. /\ e.alt.on \in is_set
      /\ status[e.thread] = "blocked" => e.alt \in AltsOf(e.thread)
  BY <1>2 DEF MailInv, AgendaOK
<1>4. /\ {f \in ElementsOf(rest) : f.do = "fire"} = Firing
      /\ {f \in ElementsOf(rest) : f.do = "set"} = NackItems
  BY <1>0, <1>2 DEF Firing, NackItems
<1>5. Len(agenda) > 1 \/ Firing = {}
  <2>1. \A f \in Firing : f # Head(agenda)
    BY <1>0 DEF Firing
  <2>. QED BY <2>1, FiringFacts
<1>6. CASE status[e.thread] = "blocked"
  <2>1. /\ Answered(e.thread) /\ waiting' = completed(waiting, e.thread)
        /\ agenda' = send_nacks(e.thread, e.alt) \o rest
    BY <1>1, <1>6 DEF wake_waiting_thread, Answered
  <2>2. /\ Firing' = Firing
        /\ NackItems' = {SetItem(c) : c \in NacksOf(e.thread) \ e.alt.nacks}
                        \cup NackItems
    BY <1>2, <1>4, <1>6, <2>1, AnswerAgenda
  <2>. QED BY <1>0, <1>1, <1>2, <1>3, <1>5, <1>6, <2>1, <2>2
<1>7. CASE status[e.thread] # "blocked"
  <2>1. agenda' = rest /\ UNCHANGED <<status, call, waiting>>
    BY <1>1, <1>7 DEF wake_waiting_thread
  <2>2. Firing' = Firing /\ NackItems' = NackItems
    BY <1>4, <2>1 DEF Firing, NackItems
  <2>. QED BY <1>0, <1>1, <1>2, <1>3, <1>5, <2>1, <2>2
<1>. QED
  BY <1>6, <1>7

LEMMA FireStep ==
    ASSUME MailInv, fire_mailslot
    PROVE  \E f \in Firing : \E e :
             /\ Firing = {f} /\ NackItems = {} /\ Firing' = {} /\ e = PartnerEntry(f)
             /\ f.alt.on \in Slots
             /\ UNCHANGED <<program, value, mail, made, is_set, left_open>>
             /\ \/ /\ e # Stale /\ e.thread \in Threads
                   /\ status[e.thread] = "blocked"
                   /\ Answered(e.thread) /\ raised' = raised
                   /\ result' = (IF f.alt.op = "take"
                                   THEN [result EXCEPT ![f.thread] = e.thread]
                                   ELSE [result EXCEPT ![e.thread] = f.thread])
                   /\ priority' = [priority EXCEPT ![f.alt.on] = 1]
                   /\ NackItems' = {SetItem(c) : c \in NacksOf(e.thread) \ e.alt.nacks}
                \/ e = Stale /\ raised'
<1>0. agenda # <<>> /\ Head(agenda).do = "fire"
      /\ UNCHANGED <<program, value, mail, made, is_set, left_open>>
  BY DEF fire_mailslot
<1>1. PICK f : f = Head(agenda)
  OBVIOUS
<1>2. f \in Items /\ f \notin Notices
  BY <1>0, <1>1, HeadFacts, ItemKinds
<1>3. ElementsOf(agenda) = {f}
  <2>1. Tail(agenda) = <<>> /\ ToDo = {f} \cup ElementsOf(Tail(agenda))
    BY <1>0, <1>1, <1>2, HeadFacts
  <2>. QED BY <2>1, ElementsEmpty DEF ToDo
<1>4. Firing = {f} /\ NackItems = {}
  BY <1>0, <1>1, <1>3 DEF Firing, NackItems
<1>5. /\ f.thread \in Threads /\ f.alt \in Alternatives
      /\ FireItem(f.thread, f.alt) \in ToDo
  BY <1>4, FiringFacts
<1>6. f.alt.on \in Slots /\ waiting[Partners(f.alt)] # <<>> /\ f.alt.op \in {"put", "take"}
  BY <1>5 DEF MailInv, AgendaOK
<1>7. PICK e, p : e = PartnerEntry(f) /\ p = Partners(f.alt)
  OBVIOUS
<1>8. p \in Ports /\ waiting[p] # <<>> /\ e = Head(waiting[p])
  BY <1>6, <1>7 DEF Partners, Ports, Other, PartnerEntry
<1>9. CASE e # Stale
  <2>1. e.thread \in Threads /\ status[e.thread] = "blocked"
    BY <1>8, <1>9, LiveQueues
  <2>2. /\ Answered(e.thread) /\ raised' = raised
        /\ result' = (IF f.alt.op = "take"
                        THEN [result EXCEPT ![f.thread] = e.thread]
                        ELSE [result EXCEPT ![e.thread] = f.thread])
        /\ priority' = used(priority, f.thread, f.alt.on)
        /\ agenda' = send_nacks(e.thread, e.alt)
    BY <1>1, <1>7, <1>8, <1>9 DEF fire_mailslot, Answered, IsLive
  <2>3. priority' = [priority EXCEPT ![f.alt.on] = 1]
    <3>1. f.alt.on \notin Maildrops /\ f.alt.on \notin Oneshots
      BY <1>6, MailopsAssumption DEF Boxes
    <3>. QED BY <2>2, <3>1 DEF used
  <2>4. /\ Firing' = {}
        /\ NackItems' = {SetItem(c) : c \in NacksOf(e.thread) \ e.alt.nacks}
    BY <2>1, <2>2, AnswerOnly
  <2>. QED BY <1>0, <1>4, <1>6, <1>7, <1>9, <2>1, <2>2, <2>3, <2>4
<1>10. CASE e = Stale
  <2>1. raised' /\ agenda' = <<>>
    BY <1>1, <1>7, <1>8, <1>10 DEF fire_mailslot, IsLive
  <2>2. Firing' = {}
    BY <2>1, ElementsEmpty DEF Firing
  <2>. QED BY <1>0, <1>4, <1>6, <1>7, <1>10, <2>1, <2>2
<1>. QED
  BY <1>9, <1>10

LEMMA RelayStep ==
    ASSUME MailInv, relay_msg
    PROVE  /\ Firing = {} /\ NackItems = {} /\ Firing' = {}
           /\ UNCHANGED <<program, priority, mail, made, is_set, left_open, raised>>
           /\ \/ /\ UNCHANGED <<status, call, result, waiting, value>>
                 /\ NackItems' = {}
              \/ \E u \in Threads : \E a \in AltsOf(u) :
                   /\ status[u] = "blocked" /\ Answered(u)
                   /\ a.on \in Boxes /\ value[a.on] # Null
                   /\ a.op \in {"take", "peek", "swap"}
                   /\ result' = [result EXCEPT ![u] = value[a.on]]
                   /\ value' = [value EXCEPT ![a.on] = left_in_maildrop(u, a.op, @)]
                   /\ NackItems' = {SetItem(c) : c \in NacksOf(u) \ a.nacks}
<1>0. agenda # <<>> /\ Head(agenda).do = "relay"
      /\ UNCHANGED <<program, priority, mail, made, is_set, left_open, raised>>
  BY DEF relay_msg
<1>1. PICK d \in Boxes : Head(agenda) = RelayItem(d)
  <2>1. Head(agenda) \in Items
    BY <1>0, HeadFacts
  <2>. QED BY <1>0, <2>1, ItemKinds
<1>2. /\ Head(agenda).on = d /\ Tail(agenda) = <<>>
      /\ ElementsOf(agenda) = {RelayItem(d)} /\ RelayItem(d) \in ToDo
      /\ RelayItem(d).do = "relay"
  <2>1. RelayItem(d).do = "relay" /\ RelayItem(d).on = d
    BY DEF RelayItem
  <2>2. RelayItem(d) \notin Notices
    BY <2>1, ItemKinds
  <2>3. Tail(agenda) = <<>> /\ ToDo = {RelayItem(d)} \cup ElementsOf(Tail(agenda))
    BY <1>0, <1>1, <2>2, HeadFacts
  <2>. QED BY <1>1, <2>1, <2>3, ElementsEmpty DEF ToDo
<1>3. Firing = {} /\ NackItems = {}
  BY <1>2 DEF Firing, NackItems
<1>4. value[d] # Null /\ agenda \in Seq(Items)
  BY <1>2 DEF MailInv, AgendaOK, MailTypeOK
<1>5. PICK p : p = <<d, "wait">>
  OBVIOUS
<1>6. p \in Ports /\ p[1] = d /\ d \notin Slots
  BY <1>5, MailopsAssumption DEF Ports
<1>7. CASE waiting[p] = <<>>
  <2>1. agenda' = <<>> /\ UNCHANGED <<status, call, result, waiting, value>>
    BY <1>1, <1>2, <1>5, <1>7 DEF relay_msg
  <2>2. Firing' = {} /\ NackItems' = {}
    BY <2>1, ElementsEmpty DEF Firing, NackItems
  <2>. QED BY <1>0, <1>3, <2>1, <2>2
<1>8. CASE waiting[p] # <<>>
  <2>1. PICK e, u, a : e = Head(waiting[p]) /\ u = e.thread /\ a = e.alt
    OBVIOUS
  <2>2. /\ u \in Threads /\ a \in Alternatives /\ status[u] = "blocked"
        /\ a \in AltsOf(u) /\ Port(a) = p
    BY <1>6, <1>8, <2>1, LiveQueues
  <2>3. a.on = d /\ a.op \in {"take", "peek", "swap"}
    <3>1. a.op \in Ops(a.on)
      BY <2>2, CallOf DEF MailInv
    <3>2. a.on = d
      BY <1>6, <2>2, <3>1, PortFacts, SMTT(30)
    <3>. QED BY <2>2, <3>1, <3>2, BoxFacts
  <2>4. /\ Answered(u)
        /\ result' = [result EXCEPT ![u] = value[d]]
        /\ value' = [value EXCEPT ![d] = left_in_maildrop(u, a.op, @)]
        /\ \/ agenda' = send_nacks(u, a) \o agenda
           \/ agenda' = send_nacks(u, a) \o <<>>
    BY <1>1, <1>2, <1>5, <1>8, <2>1 DEF relay_msg, Answered
  <2>5. Firing' = {} /\ NackItems' = {SetItem(c) : c \in NacksOf(u) \ a.nacks}
    <3>1. CASE agenda' = send_nacks(u, a) \o agenda
      <4>1. /\ Firing' = {f \in ElementsOf(agenda) : f.do = "fire"}
            /\ NackItems' = {SetItem(c) : c \in NacksOf(u) \ a.nacks}
                            \cup {f \in ElementsOf(agenda) : f.do = "set"}
        BY <1>4, <2>2, <3>1, AnswerAgenda
      <4>. QED BY <1>2, <4>1
    <3>2. CASE agenda' = send_nacks(u, a) \o <<>>
      BY <2>2, <3>2, AnswerOnly
    <3>. QED BY <2>4, <3>1, <3>2
  <2>. QED BY <1>0, <1>3, <1>4, <2>2, <2>3, <2>4, <2>5
<1>. QED
  BY <1>7, <1>8

\* The operations of the threads that begin when nothing is to be done.
LEMMA PutDropStep ==
    ASSUME NEW t \in Threads, NEW d \in Boxes, put_in_maildrop(t, d)
    PROVE  /\ agenda = <<>> /\ Firing' = {} /\ NackItems' = {}
           /\ UNCHANGED <<program, status, call, result, waiting, mail, made,
                         is_set, raised>>
           /\ status[t] = "ready"
           /\ \/ value[d] = Null /\ value' = [value EXCEPT ![d] = t]
              \/ value' = value
           /\ priority' \in {priority, [priority EXCEPT ![d] = 1]}
<1>1. /\ agenda = <<>> /\ status[t] = "ready"
      /\ UNCHANGED <<program, status, call, result, waiting, mail, made,
                     is_set, raised>>
      /\ \/ value[d] = Null /\ value' = [value EXCEPT ![d] = t]
         \/ value' = value
      /\ priority' \in {priority, [priority EXCEPT ![d] = 1]}
      /\ agenda' \in {<<>>, <<RelayItem(d)>>}
  BY DEF put_in_maildrop, may_run, RelayItem
<1>2. \A x \in ElementsOf(agenda') : x.do = "relay"
  <2>1. RelayItem(d) \in Items /\ RelayItem(d).do = "relay"
    BY ItemKinds
  <2>2. ElementsOf(<<RelayItem(d)>>) = {RelayItem(d)}
    BY <2>1, OrderOne
  <2>. QED BY <1>1, <2>1, <2>2, ElementsEmpty
<1>3. Firing' = {} /\ NackItems' = {}
  BY <1>2 DEF Firing, NackItems
<1>. QED
  BY <1>1, <1>3

LEMMA PutQueueStep ==
    ASSUME MailInv, NEW t \in Threads, NEW q \in Mailqueues, put_in_mailqueue(t, q)
    PROVE  /\ agenda = <<>> /\ Firing' = {} /\ status[t] = "ready"
           /\ UNCHANGED <<program, value, made, is_set, raised>>
           /\ \/ \E u \in Threads : \E a \in AltsOf(u) :
                   /\ status[u] = "blocked" /\ a.on = q /\ mail[q] = <<>>
                   /\ Answered(u) /\ result' = [result EXCEPT ![u] = t]
                   /\ NackItems' = {SetItem(c) : c \in NacksOf(u) \ a.nacks}
                   /\ UNCHANGED <<mail, priority>>
              \/ /\ mail' = [mail EXCEPT ![q] = Append(@, t)]
                 /\ priority' \in {priority, [priority EXCEPT ![q] = 1]}
                 /\ NackItems' = {}
                 /\ UNCHANGED <<status, call, result, waiting>>
<1>1. /\ agenda = <<>> /\ status[t] = "ready"
      /\ UNCHANGED <<program, value, made, is_set, raised>>
  BY DEF put_in_mailqueue, may_run
<1>2. PICK p, e : p = <<q, "wait">> /\ e = Head(waiting[p])
  OBVIOUS
<1>3. p \in Ports /\ p[1] = q /\ q \notin Slots
  BY <1>2, MailopsAssumption DEF Ports
<1>4. CASE /\ waiting[p] # <<>> /\ mail[q] = <<>>
           /\ status' = [status EXCEPT ![e.thread] = "ready"]
           /\ call' = [call EXCEPT ![e.thread] = Null]
           /\ result' = [result EXCEPT ![e.thread] = t]
           /\ agenda' = send_nacks(e.thread, e.alt)
           /\ UNCHANGED <<mail, priority>>
  <2>1. /\ e.thread \in Threads /\ status[e.thread] = "blocked"
        /\ e.alt \in Alternatives /\ e.alt \in AltsOf(e.thread) /\ Port(e.alt) = p
    BY <1>2, <1>3, <1>4, LiveQueues
  <2>2. e.alt.on = q
    <3>1. e.alt.op \in Ops(e.alt.on)
      BY <2>1, CallOf DEF MailInv
    <3>. QED BY <1>3, <2>1, <3>1, PortFacts
  <2>3. /\ Firing' = {}
        /\ NackItems' = {SetItem(c) : c \in NacksOf(e.thread) \ e.alt.nacks}
    BY <1>4, <2>1, AnswerOnly
  <2>4. Answered(e.thread)
    BY <1>4 DEF Answered
  <2>. QED BY <1>1, <1>4, <2>1, <2>2, <2>3, <2>4
<1>5. CASE /\ mail' = [mail EXCEPT ![q] = Append(@, t)]
           /\ priority' \in {priority, [priority EXCEPT ![q] = 1]}
           /\ UNCHANGED <<status, call, result, waiting, agenda>>
  <2>1. Firing' = {} /\ NackItems' = {}
    BY <1>1, <1>5, ElementsEmpty DEF Firing, NackItems
  <2>. QED BY <1>1, <1>5, <2>1
<1>. QED
  BY <1>2, <1>4, <1>5 DEF put_in_mailqueue

\* A call that is prepared, blocks or gives up.
LEMMA SilentStep ==
    ASSUME NEW t \in Threads,
           \/ \E m \in program : prepare(t, m)
           \/ do_one_mailop_blocks(t) \/ nonblocking_call_gives_up(t)
    PROVE  /\ agenda = <<>> /\ agenda' = <<>> /\ Firing' = {} /\ NackItems' = {}
           /\ UNCHANGED <<program, priority, value, mail, is_set, raised>>
<1>1. /\ agenda = <<>> /\ agenda' = <<>>
      /\ UNCHANGED <<program, priority, value, mail, is_set, raised>>
  BY DEF prepare, do_one_mailop_blocks, nonblocking_call_gives_up, may_run
<1>. QED
  BY <1>1, ElementsEmpty DEF Firing, NackItems

\* A call fires one of its alternatives.
LEMMA FiresStep ==
    ASSUME MailInv, NEW t \in Threads, do_one_mailop_fires(t)
    PROVE  \E i \in highest(t) : \E a :
             /\ a = call[t].alts[i] /\ a \in AltsOf(t)
             /\ a \in Alternatives /\ a.op \in Ops(a.on)
             /\ is_mailop_ready_to_fire(a) /\ fire_mailop(t, a)
             /\ status[t] = "prepared" /\ Answered(t) /\ waiting' = tested(t)
             /\ agenda = <<>> /\ raised' = raised /\ is_set' = is_set
             /\ NackItems' = {SetItem(c) : c \in NacksOf(t) \ a.nacks}
             /\ \/ /\ a.on \in Slots
                   /\ Firing' = {FireItem(t, a)} /\ priority' = bumped(t)
                   /\ UNCHANGED <<result, value, mail>>
                   /\ NacksOf(t) \subseteq a.nacks => Len(agenda') = 1
                \/ /\ a.on \notin Slots
                   /\ Firing' = {} /\ priority' = used(bumped(t), t, a.on)
<1>1. PICK i \in highest(t) : fire_mailop(t, call[t].alts[i])
  BY DEF do_one_mailop_fires
<1>2. PICK a : a = call[t].alts[i]
  OBVIOUS
<1>3. /\ status[t] = "prepared" /\ Answered(t) /\ waiting' = tested(t)
      /\ agenda = <<>> /\ raised' = raised /\ is_set' = is_set
  BY DEF do_one_mailop_fires, Answered, may_run
<1>4. /\ a \in AltsOf(t) /\ a \in Alternatives /\ a.op \in Ops(a.on)
      /\ is_mailop_ready_to_fire(a)
  BY <1>1, <1>2, <1>3, ReadyFacts
<1>5. CASE a.on \in Slots
  <2>1. PICK f, g : f = FireItem(t, a) /\ g = <<f>>
    OBVIOUS
  <2>2. /\ agenda' = send_nacks(t, a) \o g /\ priority' = bumped(t)
        /\ UNCHANGED <<result, value, mail>>
    <3>1. fire_slot_later(t, a)
      BY <1>1, <1>2, <1>5, MailopsAssumption DEF fire_mailop
    <3>. QED BY <2>1, <3>1 DEF fire_slot_later, FireItem
  <2>3. f \in Items /\ f.do = "fire"
    BY <1>4, <2>1 DEF FireItem, Items, FireItems
  <2>4. g \in Seq(Items) /\ Len(g) = 1 /\ ElementsOf(g) = {f}
    BY <2>1, <2>3, OrderOne
  <2>5. /\ Firing' = {f}
        /\ NackItems' = {SetItem(c) : c \in NacksOf(t) \ a.nacks}
        /\ NacksOf(t) \subseteq a.nacks => Len(agenda') = Len(g)
    BY <1>3, <2>2, <2>3, <2>4, AnswerAgenda
  <2>. QED BY <1>1, <1>2, <1>3, <1>4, <1>5, <2>1, <2>2, <2>4, <2>5
<1>6. CASE a.on \notin Slots
  <2>1. agenda' = send_nacks(t, a) /\ priority' = used(bumped(t), t, a.on)
    BY <1>1, <1>2, <1>6 DEF fire_mailop, fire_maildrop, get_msg, fire_condvar
  <2>2. /\ Firing' = {}
        /\ NackItems' = {SetItem(c) : c \in NacksOf(t) \ a.nacks}
    BY <1>3, <2>1, AnswerOnly
  <2>. QED BY <1>1, <1>2, <1>3, <1>4, <1>6, <2>1, <2>2
<1>. QED
  BY <1>5, <1>6

\* It stays first in its queue while others are woken.
LEMMA WokenKeepsPartner ==
    ASSUME MailInv, PromiseOK, wake_waiting_thread,
           NEW e \in Entries, e = Head(agenda).entry, e.thread \in Threads,
           status[e.thread] = "blocked",
           Answered(e.thread), waiting' = completed(waiting, e.thread),
           NEW f \in Firing
    PROVE  /\ waiting'[Partners(f.alt)] # <<>>
           /\ Head(waiting'[Partners(f.alt)]) = PartnerEntry(f)
           /\ PartnerEntry(f).thread # e.thread
           /\ call'[PartnerEntry(f).thread] = call[PartnerEntry(f).thread]
<1>1. PICK x, p, u : x = PartnerEntry(f) /\ p = Partners(f.alt) /\ u = e.thread
  OBVIOUS
<1>2. /\ x # Stale /\ x.thread \in Threads /\ p \in Ports /\ p[1] \in Slots
      /\ waiting[p] # <<>> /\ x = Head(waiting[p])
  BY <1>1, PartnerFacts
<1>3. x.thread # u /\ u \in Threads /\ waiting' = completed(waiting, u)
  BY <1>1, WokenIsNotPromised
<1>4. call'[x.thread] = call[x.thread]
  BY <1>1, <1>2, <1>3, OthersStay DEF MailInv
<1>5. waiting \in [Ports -> Seq(Queued)] /\ waiting[p] \in Seq(Queued)
  BY <1>2 DEF MailInv, MailTypeOK
<1>6. /\ completed(waiting, u) \in [Ports -> Seq(Queued)]
      /\ Len(completed(waiting, u)[p]) = Len(waiting[p])
      /\ waiting[p] # <<>> /\ Head(waiting[p]) # Stale /\ Head(waiting[p]).thread # u =>
           Head(completed(waiting, u)[p]) = Head(waiting[p])
  BY <1>2, <1>3, <1>5, CompletedFacts
<1>7. Len(waiting'[p]) = Len(waiting[p]) /\ Head(waiting'[p]) = x /\ waiting'[p] \in Seq(Queued)
  BY <1>2, <1>3, <1>6
<1>8. waiting'[p] # <<>>
  BY <1>2, <1>5, <1>7
<1>. QED
  BY <1>1, <1>3, <1>4, <1>7, <1>8

\* The partner that is found is one that waits on the other side.
LEMMA ChosenPartner ==
    ASSUME MailInv, NEW t \in Threads, status[t] = "prepared",
           NEW a \in AltsOf(t), a \in Alternatives, a.op \in Ops(a.on), a.on \in Slots,
           is_mailop_ready_to_fire(a), waiting' = tested(t),
           NEW e, e = Head(waiting'[Partners(a)])
    PROVE  /\ e # Stale /\ e.thread \in Threads /\ e.thread # t
           /\ e.alt \in AltsOf(e.thread) /\ e.alt \in Alternatives
           /\ Port(e.alt) = Partners(a) /\ status[e.thread] = "blocked"
           /\ e.alt.on = a.on /\ e.alt.op = Other(a.op)
<1>1. /\ Partners(a) \in Ports /\ waiting'[Partners(a)] = clean(waiting[Partners(a)])
      /\ waiting[Partners(a)] \in Seq(Queued)
      /\ clean(waiting[Partners(a)]) # <<>>
  BY ReadyIs, TestedFacts, PortFacts DEF MailInv, MailTypeOK
<1>2. e # Stale /\ e \in ElementsOf(waiting[Partners(a)])
  BY <1>1, CleanFacts, ElementsIs
<1>3. /\ e.thread \in Threads /\ e.alt \in AltsOf(e.thread) /\ e.alt \in Alternatives
      /\ Port(e.alt) = Partners(a) /\ status[e.thread] = "blocked"
  BY <1>1, <1>2, LiveQueues
<1>4. e.alt.op \in Ops(e.alt.on)
  BY <1>3, CallOf DEF MailInv
<1>5. e.alt.on = a.on /\ e.alt.op = Other(a.op)
  BY <1>3, <1>4, Mirror
<1>. QED
  BY <1>2, <1>3, <1>5

\* The partner stays.
LEMMA PromiseNext ==
    ASSUME PartnersAwaitNoNack(UNION Programs), MailInv, PromiseOK, ~raised, [Next]_vars
    PROVE  PromiseOK' /\ ~raised'
<1>0. MailInv'
  BY MailInvNext
<1>1. CASE set_condvar
  <2>1. CASE Firing' = {}
    BY <1>1, <2>1, SetStep, PromiseGone
  <2>2. CASE Firing' # {}
    <3>1. /\ Firing' = Firing /\ Len(agenda) > 1 /\ call' = call
          /\ \A p \in Ports : p[1] \in Slots => waiting'[p] = waiting[p]
      BY <1>1, <2>2, SetStep
    <3>2. ASSUME NEW f \in Firing
          PROVE  /\ waiting'[Partners(f.alt)] # <<>>
                 /\ Head(waiting'[Partners(f.alt)]) = PartnerEntry(f)
      BY <3>1, PartnerFacts DEF PartnerEntry
    <3>3. raised' = raised
      BY <1>1, SetStep
    <3>. QED BY <1>0, <3>1, <3>2, <3>3, PromiseStays
  <2>. QED BY <2>1, <2>2
<1>2. CASE wake_waiting_thread
  <2>1. PICK e \in Entries :
             /\ e = Head(agenda).entry /\ e.thread \in Threads
             /\ Firing' = Firing /\ (Len(agenda) > 1 \/ Firing = {})
             /\ raised' = raised
             /\ \/ /\ status[e.thread] = "blocked"
                   /\ Answered(e.thread) /\ waiting' = completed(waiting, e.thread)
                \/ UNCHANGED <<status, call, waiting>>
    BY <1>2, WakeStep
  <2>2. CASE /\ status[e.thread] = "blocked"
             /\ Answered(e.thread) /\ waiting' = completed(waiting, e.thread)
    <3>1. ASSUME NEW f \in Firing
          PROVE  /\ waiting'[Partners(f.alt)] # <<>>
                 /\ Head(waiting'[Partners(f.alt)]) = PartnerEntry(f)
                 /\ call'[PartnerEntry(f).thread] = call[PartnerEntry(f).thread]
      BY <1>2, <2>1, <2>2, <3>1, WokenKeepsPartner
    <3>. QED BY <1>0, <2>1, <3>1, PromiseStays
  <2>3. CASE UNCHANGED <<status, call, waiting>>
    <3>1. \A f \in Firing : /\ waiting'[Partners(f.alt)] # <<>>
                            /\ Head(waiting'[Partners(f.alt)]) = PartnerEntry(f)
      BY <2>3, PartnerFacts
    <3>. QED BY <1>0, <2>1, <2>3, <3>1, PromiseStays
  <2>. QED BY <2>1, <2>2, <2>3
<1>3. CASE fire_mailslot
  <2>1. PICK f \in Firing : \E e : /\ e = PartnerEntry(f) /\ Firing' = {}
                                   /\ raised' = raised \/ e = Stale
    BY <1>3, FireStep
  <2>. QED BY <2>1, PartnerFacts, PromiseGone
<1>4. CASE relay_msg
  BY <1>4, RelayStep, PromiseGone
<1>5. ASSUME NEW t \in Threads, do_one_mailop_fires(t) PROVE PromiseOK' /\ ~raised'
  <2>1. PICK a : /\ a \in AltsOf(t) /\ a \in Alternatives /\ a.op \in Ops(a.on)
                 /\ is_mailop_ready_to_fire(a)
                 /\ status[t] = "prepared" /\ Answered(t) /\ waiting' = tested(t)
                 /\ raised' = raised
                 /\ \/ /\ a.on \in Slots /\ Firing' = {FireItem(t, a)}
                       /\ NacksOf(t) \subseteq a.nacks => Len(agenda') = 1
                    \/ Firing' = {}
    BY <1>5, FiresStep
  <2>2. CASE Firing' = {}
    BY <2>1, <2>2, PromiseGone
  <2>3. CASE /\ a.on \in Slots /\ Firing' = {FireItem(t, a)}
             /\ NacksOf(t) \subseteq a.nacks => Len(agenda') = 1
    <3>1. PICK e : e = Head(waiting'[Partners(a)])
      OBVIOUS
    <3>2. /\ e.thread \in Threads /\ e.alt \in AltsOf(e.thread) /\ e # Stale
          /\ Port(e.alt) = Partners(a) /\ status[e.thread] = "blocked"
      BY <2>1, <2>3, <3>1, ChosenPartner
    <3>3. AltsOf(e.thread)' = AltsOf(e.thread)
      BY <2>1, <3>2, OthersStay DEF MailInv
    <3>4. ASSUME Len(agenda') > 1 PROVE \A x \in AltsOf(e.thread) : x.on \notin Nacks
      <4>1. Len(agenda') \in Nat /\ Len(agenda') > 1
        BY <1>0, <3>4 DEF MailInv, MailTypeOK
      <4>3. ~(NacksOf(t) \subseteq a.nacks)
        BY <2>3, <4>1
      <4>2. call[t] \in UNION Programs /\ call[e.thread] \in UNION Programs
        BY <2>1, <3>2, CallOf DEF MailInv
      <4>. QED BY <2>1, <2>3, <3>2, <4>2, <4>3 DEF PartnersAwaitNoNack, AltsOf, NacksOf
    <3>5. ASSUME NEW v, NEW b, FireItem(v, b) \in ToDo' PROVE v = t /\ b = a
      <4>1. FireItem(v, b).do = "fire" /\ FireItem(v, b).thread = v /\ FireItem(v, b).alt = b
        BY DEF FireItem
      <4>2. FireItem(v, b) = FireItem(t, a)
        BY <2>3, <3>5, <4>1, SMTT(30) DEF Firing, ToDo
      <4>. QED BY <4>1, <4>2 DEF FireItem
    <3>6. PromiseOK'
      BY <3>1, <3>2, <3>3, <3>4, <3>5, Zenon DEF PromiseOK, FireItem, Partners, AltsOf
    <3>. QED BY <2>1, <3>6
  <2>. QED BY <2>1, <2>2, <2>3
<1>6. ASSUME NEW t \in Threads,
             \/ \E m \in program : prepare(t, m)
             \/ do_one_mailop_blocks(t) \/ nonblocking_call_gives_up(t)
      PROVE  PromiseOK' /\ ~raised'
  BY <1>6, SilentStep, PromiseGone
<1>7. ASSUME NEW t \in Threads, NEW d \in Boxes, put_in_maildrop(t, d)
      PROVE  PromiseOK' /\ ~raised'
  BY <1>7, PutDropStep, PromiseGone
<1>8. ASSUME NEW t \in Threads, NEW q \in Mailqueues, put_in_mailqueue(t, q)
      PROVE  PromiseOK' /\ ~raised'
  BY <1>8, PutQueueStep, PromiseGone
<1>9. CASE UNCHANGED vars
  BY <1>9 DEF vars, PromiseOK, AltsOf, ToDo, Partners, FireItem
<1>. QED
  BY <1>1, <1>2, <1>3, <1>4, <1>5, <1>6, <1>7, <1>8, <1>9 DEF Next, scope_continues

\* In programs whose servers do not wait for nacks where a client may still
\* choose them, `never happens' is right: the partner that was found waiting is
\* still waiting when its mailslot is fired, and no condvar is set twice.
THEOREM PartnerStillBlocked ==
    ASSUME PartnersAwaitNoNack(UNION Programs)
    PROVE  Spec => []PartnerIsStillBlocked
<1>1. Init => MailInv /\ PromiseOK /\ ~raised
  <2>1. ASSUME Init PROVE PromiseOK /\ ~raised
    BY <2>1, ElementsEmpty DEF Init, PromiseOK, ToDo
  <2>. QED BY <2>1, MailInvInit
<1>2. /\ MailInv /\ PromiseOK /\ ~raised /\ [Next]_vars
      => (MailInv /\ PromiseOK /\ ~raised)'
  BY MailInvNext, PromiseNext
<1>3. MailInv /\ PromiseOK /\ ~raised => PartnerIsStillBlocked
  BY DEF PartnerIsStillBlocked
<1>. QED
  BY <1>1, <1>2, <1>3, PTL DEF Spec

-----------------------------------------------------------------------------
(* Fair counters *)

\* How many counters are higher than k.
Higher(k) == {o \in Counters : Passed(o) > k}

LEMMA HigherFacts ==
    ASSUME MailInv, NEW k
    PROVE  /\ IsFiniteSet(Counters) /\ Cardinality(Counters) \in Nat
           /\ Higher(k) \subseteq Counters
           /\ IsFiniteSet(Higher(k)) /\ Cardinality(Higher(k)) \in Nat
           /\ Cardinality(Higher(k)) <= Cardinality(Counters)
           /\ \A o \in Counters : Passed(o) \in Nat
<1>1. IsFiniteSet(Counters)
  BY MailopsAssumption, FS_Subset DEF Counters
<1>2. Higher(k) \subseteq Counters
  BY DEF Higher
<1>3. \A o \in Counters : Passed(o) \in Nat
  <2>1. priority \in [Objects -> Nat]
    BY DEF MailInv, MailTypeOK
  <2>. QED BY <2>1 DEF Passed, Counters
<1>. QED
  BY <1>1, <1>2, <1>3, FS_Subset, FS_CardinalityType

\* Counters that do not rise, or only to 1, break nothing.
LEMMA CountersStay ==
    ASSUME MailInv, MailInv', CountersOK, ~raised,
           \A o \in Counters : Passed(o)' <= Passed(o) \/ Passed(o)' <= 1
    PROVE  CountersOK'
<1>1. PICK N : N = Cardinality(Counters) /\ N \in Nat /\ IsFiniteSet(Counters)
  BY HigherFacts
<1>2. SUFFICES ASSUME NEW k \in 0 .. N PROVE Cardinality(Higher(k)') <= N - k
  BY <1>1 DEF CountersOK, Higher, Counters
<1>3. /\ \A o \in Counters : Passed(o) \in Nat /\ Passed(o)' \in Nat
      /\ IsFiniteSet(Higher(k)) /\ Cardinality(Higher(k)) \in Nat
      /\ Higher(k)' \subseteq Counters
  <2>1. \A o \in Counters : Passed(o)' \in Nat
    <3>1. priority' \in [Objects -> Nat]
      BY DEF MailInv, MailTypeOK
    <3>. QED BY <3>1 DEF Passed, Counters
  <2>. QED BY <2>1, HigherFacts DEF Higher, Counters
<1>4. Cardinality(Higher(k)) <= N - k
  BY <1>1 DEF CountersOK, Higher
<1>5. CASE k = 0
  <2>1. Cardinality(Higher(k)') <= N
    BY <1>1, <1>3, FS_Subset
  <2>. QED BY <1>1, <1>5, <2>1
<1>6. CASE k # 0
  <2>1. ASSUME NEW o \in Higher(k)' PROVE o \in Higher(k)
    <3>1. o \in Counters /\ Passed(o)' > k
      BY <1>3 DEF Higher, Counters
    <3>2. Passed(o) > k
      BY <1>1, <1>3, <1>6, <3>1
    <3>. QED BY <3>1, <3>2 DEF Higher
  <2>2. Higher(k)' \subseteq Higher(k)
    BY <2>1
  <2>3. Cardinality(Higher(k)') <= Cardinality(Higher(k)) /\ Cardinality(Higher(k)') \in Nat
    BY <1>3, <2>2, FS_Subset, FS_CardinalityType
  <2>. QED BY <1>1, <1>3, <1>4, <2>3
<1>. QED
  BY <1>5, <1>6

\* A mailop that has only maildrops, or a call that is none, raises no counter.
LEMMA NoBumps ==
    ASSUME MailInv, NEW t \in Threads, status[t] = "prepared",
           \/ call[t].call # "mailop" \/ \A a \in AltsOf(t) : a.on \in Maildrops
    PROVE  \A o \in Counters : \A i : bumps(t, o, i) = 0
<1>1. SUFFICES ASSUME NEW o \in Counters, NEW i, call[t].call = "mailop"
      PROVE  bumps(t, o, i) = 0
  BY DEF bumps
<1>2. {j \in Ready(t) : j < i /\ call[t].alts[j].on = o} = {}
  <2>1. \A j \in Ready(t) : call[t].alts[j].on \in Maildrops
    BY <1>1, ReadyFacts
  <2>. QED BY <2>1 DEF Counters
<1>. QED
  BY <1>1, <1>2, FS_EmptySet DEF bumps

\* A mailop that offers nothing twice raises the counter of each thing that it
\* finds ready by one, and compares them as they were.
LEMMA OneBump ==
    ASSUME MailInv, NEW t \in Threads, status[t] = "prepared", call[t].call = "mailop",
           \A i, j \in DOMAIN call[t].alts :
               call[t].alts[i].on = call[t].alts[j].on => i = j
    PROVE  /\ \A o \in Objects :
                bumped(t)[o] = priority[o]
                  + (IF \E j \in Ready(t) : call[t].alts[j].on = o THEN 1 ELSE 0)
           /\ \A j \in Ready(t) : priority_of(t, j) = priority[call[t].alts[j].on]
<1>1. PICK q : q = call[t].alts /\ q \in Seq(Alternatives)
  BY ReadyFacts
<1>2. /\ \A j \in Ready(t) : j \in 1 .. Len(q) /\ j \in DOMAIN q
      /\ Len(q) \in Nat
      /\ priority \in [Objects -> Nat]
  BY <1>1, ReadyFacts DEF MailInv, MailTypeOK
<1>3. ASSUME NEW o \in Objects
      PROVE  bumps(t, o, Len(q) + 1) = IF \E j \in Ready(t) : q[j].on = o THEN 1 ELSE 0
  <2>1. PICK S : S = {j \in Ready(t) : j < Len(q) + 1 /\ q[j].on = o}
    OBVIOUS
  <2>2. bumps(t, o, Len(q) + 1) = Cardinality(S)
    BY <1>1, <2>1 DEF bumps
  <2>3. CASE \E j \in Ready(t) : q[j].on = o
    <3>1. PICK j \in Ready(t) : q[j].on = o
      BY <2>3
    <3>2. S = {j}
      <4>1. j \in S
        BY <1>2, <2>1, <3>1
      <4>2. ASSUME NEW i \in S PROVE i = j
        BY <1>1, <1>2, <2>1, <3>1, <4>2
      <4>. QED BY <4>1, <4>2
    <3>. QED BY <2>2, <2>3, <3>2, FS_Singleton
  <2>4. CASE ~\E j \in Ready(t) : q[j].on = o
    <3>1. S = {}
      BY <2>1, <2>4
    <3>. QED BY <2>2, <2>4, <3>1, FS_EmptySet
  <2>. QED BY <2>3, <2>4
<1>4. ASSUME NEW j \in Ready(t)
      PROVE  priority_of(t, j) = priority[q[j].on]
  <2>1. {i \in Ready(t) : i < j /\ q[i].on = q[j].on} = {}
    <3>1. ASSUME NEW i \in Ready(t), i < j, q[i].on = q[j].on PROVE FALSE
      <4>1. i = j
        BY <1>1, <1>2, <3>1
      <4>. QED BY <1>2, <3>1, <4>1
    <3>. QED BY <3>1
  <2>2. bumps(t, q[j].on, j) = 0
    BY <1>1, <2>1, FS_EmptySet DEF bumps
  <2>3. q[j] \in Alternatives
    BY <1>1, <1>2
  <2>4. q[j].on \in Objects
    BY <2>3 DEF Alternatives
  <2>. QED BY <1>1, <1>2, <2>2, <2>4 DEF priority_of
<1>. QED
  BY <1>1, <1>3, <1>4, BumpedType

\* A mailop resets the counter of what it picks, which was among the highest,
\* and raises those of the others that it finds ready.
LEMMA CountersFires ==
    ASSUME MaildropsApart(UNION Programs), MailInv, MailInv', CountersOK, ~raised,
           NEW t \in Threads, do_one_mailop_fires(t)
    PROVE  CountersOK'
<1>0. PICK i \in highest(t) : \E a :
             /\ a = call[t].alts[i] /\ a \in AltsOf(t) /\ a \in Alternatives
             /\ status[t] = "prepared" /\ agenda = <<>>
             /\ \/ /\ a.on \in Slots
                   /\ Firing' = {FireItem(t, a)} /\ priority' = bumped(t)
                \/ /\ a.on \notin Slots
                   /\ Firing' = {} /\ priority' = used(bumped(t), t, a.on)
  BY FiresStep
<1>1. PICK a :
             /\ a = call[t].alts[i] /\ a \in AltsOf(t) /\ a \in Alternatives
             /\ status[t] = "prepared" /\ agenda = <<>>
             /\ \/ /\ a.on \in Slots
                   /\ Firing' = {FireItem(t, a)} /\ priority' = bumped(t)
                \/ /\ a.on \notin Slots
                   /\ Firing' = {} /\ priority' = used(bumped(t), t, a.on)
  BY <1>0
<1>2. PICK m : m = a.on /\ m \in Objects
  BY <1>1 DEF Alternatives
<1>3. priority \in [Objects -> Nat] /\ bumped(t) \in [Objects -> Nat]
  BY <1>1, BumpedType DEF MailInv, MailTypeOK
<1>4. \A o \in Counters : Passed(o) = priority[o] /\ o \in Objects
  <2>1. Firing = {}
    BY <1>1, Quiet
  <2>. QED BY <2>1 DEF Passed, Counters
<1>5. \A o \in Counters : o # m => Passed(o)' = bumped(t)[o]
  <2>1. CASE a.on \in Slots
    <3>1. FireItem(t, a).alt = a
      BY DEF FireItem
    <3>. QED BY <1>1, <1>2, <2>1, <3>1 DEF Passed, Counters
  <2>2. CASE a.on \notin Slots
    BY <1>1, <1>2, <1>3, <2>2 DEF Passed, Counters, used
  <2>. QED BY <2>1, <2>2
<1>6. m \in Counters => \/ Passed(m)' = 1
                        \/ call[t].call # "mailop" /\ Passed(m)' = bumped(t)[m]
  <2>1. CASE a.on \in Slots
    <3>1. FireItem(t, a).alt = a
      BY DEF FireItem
    <3>. QED BY <1>1, <1>2, <2>1, <3>1 DEF Passed
  <2>2. CASE a.on \notin Slots
    BY <1>1, <1>2, <1>3, <2>2 DEF Passed, Counters, used
  <2>. QED BY <2>1, <2>2
<1>7. CASE \/ call[t].call # "mailop" \/ \A b \in AltsOf(t) : b.on \in Maildrops
  <2>1. \A o \in Counters : bumped(t)[o] = priority[o]
    <3>1. \A o \in Counters : bumps(t, o, Len(call[t].alts) + 1) = 0
      BY <1>1, <1>7, NoBumps
    <3>. QED BY <1>1, <1>3, <1>4, <3>1, BumpedType
  <2>2. \A o \in Counters : Passed(o)' <= Passed(o) \/ Passed(o)' <= 1
    BY <1>3, <1>4, <1>5, <1>6, <2>1
  <2>. QED BY <2>2, CountersStay
<1>8. CASE call[t].call = "mailop" /\ ~\A b \in AltsOf(t) : b.on \in Maildrops
  <2>1. /\ \A b \in AltsOf(t) : b.on \notin Maildrops
        /\ \A j, k \in DOMAIN call[t].alts :
             call[t].alts[j].on = call[t].alts[k].on => j = k
    <3>1. call[t] \in UNION Programs
      BY <1>1, CallOf DEF MailInv
    <3>. QED BY <1>8, <3>1 DEF MaildropsApart, AltsOf
  <2>2. PICK R : R = {call[t].alts[j].on : j \in Ready(t)}
    OBVIOUS
  <2>3. /\ \A o \in Objects : bumped(t)[o] = priority[o] + (IF o \in R THEN 1 ELSE 0)
        /\ \A j \in Ready(t) : priority_of(t, j) = priority[call[t].alts[j].on]
    BY <1>1, <1>8, <2>1, <2>2, OneBump
  <2>4. m \in Counters /\ m \in R /\ Passed(m)' = 1
    BY <1>0, <1>1, <1>2, <1>6, <1>8, <2>1, <2>2, ReadyFacts DEF Counters
  <2>5. R \subseteq Objects
    <3>1. \A j \in Ready(t) : call[t].alts[j] \in Alternatives
      BY <1>1, ReadyFacts
    <3>. QED BY <2>2, <3>1 DEF Alternatives
  <2>6. \A o \in R : priority[o] <= priority[m]
    <3>1. \A j \in Ready(t) : priority_of(t, j) <= priority_of(t, i)
      BY <1>0 DEF highest
    <3>2. i \in Ready(t)
      BY <1>0, <1>1, ReadyFacts
    <3>. QED BY <1>1, <1>2, <2>2, <2>3, <3>1, <3>2
  <2>7. PICK N : N = Cardinality(Counters) /\ N \in Nat /\ IsFiniteSet(Counters)
    BY HigherFacts
  <2>8. SUFFICES ASSUME NEW k \in 0 .. N PROVE Cardinality(Higher(k)') <= N - k
    BY <2>7 DEF CountersOK, Higher, Counters
  <2>9. /\ Higher(k) = {o \in Counters : priority[o] > k}
        /\ Higher(k - 1) = {o \in Counters : priority[o] > k - 1}
        /\ Higher(k)' \subseteq Counters
        /\ \A o \in Higher(k)' : Passed(o)' > k
    BY <1>4 DEF Higher, Counters
  <2>10. CASE k = 0
    <3>1. Cardinality(Higher(k)') <= N
      BY <2>7, <2>9, FS_Subset
    <3>. QED BY <2>7, <2>10, <3>1
  <2>11. CASE k # 0
    <3>1. ASSUME NEW o \in Higher(k)'
          PROVE  o \in Counters /\ o # m
                 /\ priority[o] + (IF o \in R THEN 1 ELSE 0) > k
      BY <1>4, <1>5, <2>3, <2>4, <2>7, <2>9, <2>11
    <3>2. CASE \A o \in Higher(k)' : priority[o] > k
      <4>1. Higher(k)' \subseteq Higher(k)
        BY <2>9, <3>2
      <4>2. IsFiniteSet(Higher(k)) /\ Cardinality(Higher(k)) \in Nat
        BY HigherFacts
      <4>3. /\ Cardinality(Higher(k)') <= Cardinality(Higher(k))
            /\ Cardinality(Higher(k)') \in Nat
        BY <4>1, <4>2, FS_Subset, FS_CardinalityType
      <4>4. Cardinality(Higher(k)) <= N - k
        BY <2>7 DEF CountersOK, Higher
      <4>. QED BY <2>7, <4>2, <4>3, <4>4
    <3>3. CASE \E o \in Higher(k)' : ~(priority[o] > k)
      <4>1. PICK o \in Higher(k)' : ~(priority[o] > k)
        BY <3>3
      <4>2. o \in R /\ priority[o] = k
        BY <1>3, <1>4, <2>5, <2>7, <3>1, <4>1
      <4>3. priority[m] >= k /\ priority[m] \in Nat
        BY <1>2, <1>3, <2>6, <4>2
      <4>4. m \in Higher(k - 1)
        BY <2>4, <2>7, <2>9, <4>3
      <4>5. Higher(k)' \subseteq Higher(k - 1) \ {m}
        <5>1. ASSUME NEW x \in Higher(k)' PROVE x \in Higher(k - 1) /\ x # m
          <6>1. x \in Counters /\ x # m /\ priority[x] + (IF x \in R THEN 1 ELSE 0) > k
            BY <3>1
          <6>2. priority[x] \in Nat
            BY <1>3, <1>4, <6>1
          <6>. QED BY <2>7, <2>9, <6>1, <6>2
        <5>. QED BY <5>1
      <4>6. IsFiniteSet(Higher(k - 1)) /\ Cardinality(Higher(k - 1)) \in Nat
        BY HigherFacts
      <4>7. /\ IsFiniteSet(Higher(k - 1) \ {m})
            /\ Cardinality(Higher(k - 1) \ {m}) = Cardinality(Higher(k - 1)) - 1
        BY <4>4, <4>6, FS_RemoveElement
      <4>8. /\ Cardinality(Higher(k)') <= Cardinality(Higher(k - 1) \ {m})
            /\ Cardinality(Higher(k)') \in Nat
        BY <4>5, <4>7, FS_Subset, FS_CardinalityType
      <4>9. Cardinality(Higher(k - 1)) <= N - (k - 1)
        <5>1. k - 1 \in 0 .. N
          BY <2>7, <2>11
        <5>. QED BY <2>7, <5>1 DEF CountersOK, Higher
      <4>. QED BY <2>7, <4>6, <4>7, <4>8, <4>9
    <3>. QED BY <3>2, <3>3
  <2>. QED BY <2>10, <2>11
<1>. QED
  BY <1>7, <1>8

LEMMA CountersNext ==
    ASSUME MaildropsApart(UNION Programs), MailInv, CountersOK, [Next]_vars
    PROVE  CountersOK'
<1>0. MailInv'
  BY MailInvNext
<1>1. SUFFICES ASSUME ~raised' PROVE CountersOK'
  BY DEF CountersOK
<1>2. priority \in [Objects -> Nat]
  BY DEF MailInv, MailTypeOK
<1>3. ASSUME ~raised, Firing' = Firing, priority' = priority PROVE CountersOK'
  <2>1. \A o \in Counters : Passed(o)' = Passed(o) /\ Passed(o) \in Nat
    BY <1>3, HigherFacts DEF Passed, Counters
  <2>. QED BY <1>0, <1>3, <2>1, CountersStay
<1>4. ASSUME ~raised, Firing = {}, Firing' = {}, NEW d \in Objects,
             priority' \in {priority, [priority EXCEPT ![d] = 1]}
      PROVE  CountersOK'
  <2>1. \A o \in Counters : /\ Passed(o) = priority[o] /\ Passed(o)' = priority'[o]
                            /\ priority'[o] <= priority[o] \/ priority'[o] <= 1
    BY <1>2, <1>4 DEF Passed, Counters
  <2>. QED BY <1>0, <1>4, <2>1, CountersStay
<1>5. CASE set_condvar
  BY <1>1, <1>3, <1>5, SetStep
<1>6. CASE wake_waiting_thread
  <2>1. Firing' = Firing /\ priority' = priority /\ raised' = raised
    BY <1>6, WakeStep
  <2>. QED BY <1>1, <1>3, <2>1
<1>7. CASE fire_mailslot
  <2>1. PICK f \in Firing : \E e :
             /\ Firing = {f} /\ Firing' = {}
             /\ \/ raised' = raised /\ priority' = [priority EXCEPT ![f.alt.on] = 1]
                \/ raised'
    BY <1>7, FireStep
  <2>2. ~raised /\ priority' = [priority EXCEPT ![f.alt.on] = 1]
    BY <1>1, <2>1
  <2>3. \A o \in Counters : Passed(o)' = Passed(o) /\ Passed(o) \in Nat
    BY <1>2, <2>1, <2>2 DEF Passed, Counters
  <2>. QED BY <1>0, <2>2, <2>3, CountersStay
<1>8. CASE relay_msg
  BY <1>1, <1>3, <1>8, RelayStep
<1>9. ASSUME NEW t \in Threads, do_one_mailop_fires(t) PROVE CountersOK'
  <2>1. ~raised
    BY <1>9 DEF do_one_mailop_fires, may_run
  <2>. QED BY <1>0, <1>9, <2>1, CountersFires
<1>10. ASSUME NEW t \in Threads,
              \/ \E m \in program : prepare(t, m)
              \/ do_one_mailop_blocks(t) \/ nonblocking_call_gives_up(t)
       PROVE  CountersOK'
  <2>1. Firing' = {} /\ Firing = {} /\ priority' = priority /\ raised' = raised
    BY <1>10, SilentStep, Quiet
  <2>. QED BY <1>1, <1>3, <2>1
<1>11. ASSUME NEW t \in Threads, NEW d \in Boxes, put_in_maildrop(t, d) PROVE CountersOK'
  <2>1. /\ Firing' = {} /\ Firing = {} /\ raised' = raised /\ d \in Objects
        /\ priority' \in {priority, [priority EXCEPT ![d] = 1]}
    BY <1>11, PutDropStep, Quiet DEF Objects
  <2>. QED BY <1>1, <1>4, <2>1
<1>12. ASSUME NEW t \in Threads, NEW q \in Mailqueues, put_in_mailqueue(t, q)
       PROVE  CountersOK'
  <2>1. /\ Firing' = {} /\ Firing = {} /\ raised' = raised /\ q \in Objects
        /\ priority' \in {priority, [priority EXCEPT ![q] = 1]}
    BY <1>12, PutQueueStep, Quiet DEF Objects
  <2>. QED BY <1>1, <1>4, <2>1
<1>13. CASE UNCHANGED vars
  BY <1>1, <1>3, <1>13 DEF vars, Firing
<1>. QED
  BY <1>5, <1>6, <1>7, <1>8, <1>9, <1>10, <1>11, <1>12, <1>13 DEF Next, scope_continues

\* At first each counter is at most 1.
LEMMA CountersInit ==
    ASSUME Init PROVE CountersOK
<1>1. MailInv
  BY MailInvInit
<1>2. PICK N : N = Cardinality(Counters) /\ N \in Nat /\ IsFiniteSet(Counters)
  BY <1>1, HigherFacts
<1>3. \A o \in Counters : Passed(o) \in {0, 1}
  <2>1. Firing = {}
    BY Quiet DEF Init
  <2>. QED BY <2>1 DEF Passed, Counters, Init
<1>4. SUFFICES ASSUME NEW k \in 0 .. N PROVE Cardinality(Higher(k)) <= N - k
  BY <1>2 DEF CountersOK, Higher
<1>5. CASE k = 0
  BY <1>1, <1>2, <1>5, HigherFacts
<1>6. CASE k # 0
  <2>1. Higher(k) = {}
    BY <1>2, <1>3, <1>6 DEF Higher
  <2>. QED BY <1>2, <2>1, FS_EmptySet
<1>. QED
  BY <1>5, <1>6

\* pick_highest_priority_mailop_breaking_ties_fairly: however many things can
\* be waited for, one that is found ready is passed over at most once for each
\* of the others before it is picked.
THEOREM CountersFair ==
    ASSUME MaildropsApart(UNION Programs)
    PROVE  Spec => []NoReadyMailopIsPassedOver
<1>1. Init => MailInv /\ CountersOK
  BY MailInvInit, CountersInit
<1>2. MailInv /\ CountersOK /\ [Next]_vars => (MailInv /\ CountersOK)'
  BY MailInvNext, CountersNext
<1>3. ASSUME MailInv, CountersOK PROVE NoReadyMailopIsPassedOver
  <2>1. PICK N : N = Cardinality(Counters) /\ N \in Nat
    BY <1>3, HigherFacts
  <2>2. SUFFICES ASSUME ~raised, NEW o \in Counters, \A f \in Firing : f.alt.on # o
        PROVE  priority[o] <= N
    BY <2>1 DEF NoReadyMailopIsPassedOver, Counters
  <2>3. Cardinality(Higher(N)) <= N - N
    BY <1>3, <2>1, <2>2 DEF CountersOK, Higher
  <2>4. Higher(N) = {}
    BY <1>3, <2>1, <2>3, HigherFacts, FS_EmptySet
  <2>5. Passed(o) = priority[o] /\ Passed(o) \in Nat
    BY <1>3, <2>2, HigherFacts DEF Passed
  <2>. QED BY <2>1, <2>4, <2>5 DEF Higher
<1>. QED
  BY <1>1, <1>2, <1>3, PTL DEF Spec

-----------------------------------------------------------------------------
(* The exchange that the calls implement *)

SentNow == is_set \cup {i.on : i \in NackItems}

\* While nothing is decided the exchange is what the variables say.
QuietMapped ==
    Firing = {} =>
        /\ Promised = {}
        /\ Pending = call
        /\ Waiters = {t \in Threads : status[t] = "blocked"}
        /\ Returned = result
        /\ Sent = SentNow

\* A rendezvous that is decided has taken place.
DecidedMapped ==
    \A f \in Firing : \A e : e = PartnerEntry(f) =>
        /\ Promised = {e.thread}
        /\ Pending = [call EXCEPT ![e.thread] = Null]
        /\ Waiters = {t \in Threads : status[t] = "blocked"} \ {e.thread}
        /\ Returned = IF f.alt.op = "take"
                        THEN [result EXCEPT ![f.thread] = e.thread]
                        ELSE [result EXCEPT ![e.thread] = f.thread]
        /\ Sent = SentNow \cup (NacksOf(e.thread) \ e.alt.nacks)

LEMMA QuietMap == MailInv => QuietMapped
<1>. SUFFICES ASSUME MailInv, Firing = {}
     PROVE  /\ Promised = {}
            /\ Pending = call
            /\ Waiters = {t \in Threads : status[t] = "blocked"}
            /\ Returned = result
            /\ Sent = SentNow
  BY DEF QuietMapped
<1>1. Promised = {}
  BY DEF Promised
<1>2. /\ call \in [Threads -> (UNION Programs) \cup {Null}]
      /\ result \in [Threads -> Threads \cup {Null}]
      /\ \A t \in Threads : status[t] = "ready" <=> call[t] = Null
  BY DEF MailInv, MailTypeOK, CallsOK
<1>3. Pending = call
  BY <1>1, <1>2 DEF Pending
<1>4. Returned = result
  BY <1>1, <1>2 DEF Returned
<1>5. Waiters = {t \in Threads : status[t] = "blocked"}
  BY <1>1 DEF Waiters
<1>6. Sent = SentNow
  BY DEF Sent, SentNow
<1>. QED
  BY <1>1, <1>3, <1>4, <1>5, <1>6

LEMMA DecidedMap == MailInv /\ PromiseOK => DecidedMapped
<1>. SUFFICES ASSUME MailInv, PromiseOK, NEW f \in Firing, NEW e, e = PartnerEntry(f)
     PROVE  /\ Promised = {e.thread}
            /\ Pending = [call EXCEPT ![e.thread] = Null]
            /\ Waiters = {t \in Threads : status[t] = "blocked"} \ {e.thread}
            /\ Returned = IF f.alt.op = "take"
                            THEN [result EXCEPT ![f.thread] = e.thread]
                            ELSE [result EXCEPT ![e.thread] = f.thread]
            /\ Sent = SentNow \cup (NacksOf(e.thread) \ e.alt.nacks)
  BY DEF DecidedMapped
<1>0. Firing = {f}
  BY FiringFacts
<1>1. Promised = {e.thread}
  BY <1>0 DEF Promised
<1>2. /\ call \in [Threads -> (UNION Programs) \cup {Null}]
      /\ result \in [Threads -> Threads \cup {Null}]
      /\ \A t \in Threads : /\ status[t] = "ready" <=> call[t] = Null
                            /\ status[t] # "ready" => result[t] = Null
  BY DEF MailInv, MailTypeOK, CallsOK
<1>3. /\ e.thread \in Threads /\ status[e.thread] = "blocked"
      /\ status[f.thread] = "ready" /\ f.alt.op \in {"put", "take"}
  BY PartnerFacts
<1>4. Pending = [call EXCEPT ![e.thread] = Null]
  BY <1>1, <1>2 DEF Pending
<1>5. Returned = IF f.alt.op = "take" THEN [result EXCEPT ![f.thread] = e.thread]
                                      ELSE [result EXCEPT ![e.thread] = f.thread]
  <2>1. (CHOOSE u \in Promised : TRUE) = e.thread
    BY <1>1
  <2>2. (CHOOSE g \in Firing : TRUE) = f
    BY <1>0
  <2>3. Returned = [t \in Threads |->
                      IF f.alt.op = "take" /\ f.thread = t THEN e.thread
                      ELSE IF t = e.thread
                        THEN (IF f.alt.op = "put" THEN f.thread ELSE Null)
                      ELSE result[t]]
    BY <1>0, <1>1, <2>1, <2>2 DEF Returned
  <2>4. f.thread # e.thread /\ result[e.thread] = Null
    BY <1>2, <1>3
  <2>. QED BY <1>2, <1>3, <2>3, <2>4
<1>6. Waiters = {t \in Threads : status[t] = "blocked"} \ {e.thread}
  BY <1>1 DEF Waiters
<1>7. Sent = SentNow \cup (NacksOf(e.thread) \ e.alt.nacks)
  BY <1>0 DEF Sent, SentNow, NacksOf
<1>. QED
  BY <1>1, <1>4, <1>5, <1>6, <1>7


LEMMA MapNext ==
    ASSUME MailInv', PromiseOK'
    PROVE  QuietMapped' /\ DecidedMapped'
BY QuietMap, DecidedMap, PTL

\* The answer to a call, as the exchange sees it.
LEMMA AnswerMaps ==
    ASSUME NEW u \in Threads, Pending[u] = call[u], call[u] # Null,
           NEW a \in AltsOf(u), NEW msg,
           Pending' = [Pending EXCEPT ![u] = Null], Waiters' = Waiters \ {u},
           Returned' = [Returned EXCEPT ![u] = msg],
           Sent' = Sent \cup (NacksOf(u) \ a.nacks)
    PROVE  a \in Exchange!Alts(u) /\ Exchange!Answer(u, a, msg)
<1>1. Exchange!Alts(u) = AltsOf(u)
  BY DEF Exchange!Alts, Exchange!ElementsOf, AltsOf, ElementsOf
<1>2. Exchange!Unchosen(u, a) = NacksOf(u) \ a.nacks
  BY DEF Exchange!Unchosen, Exchange!ElementsOf, NacksOf, ElementsOf
<1>. QED
  BY <1>1, <1>2 DEF Exchange!Answer

LEMMA SentAnswer ==
    ASSUME NEW S, is_set' = is_set, NackItems' = {SetItem(c) : c \in S} \cup NackItems
    PROVE  SentNow' = SentNow \cup S
<1>1. \A c : SetItem(c).on = c
  BY DEF SetItem
<1>2. {i.on : i \in NackItems'} = {i.on : i \in NackItems} \cup S
  BY <1>1
<1>. QED
  BY <1>2 DEF SentNow

LEMMA QuietAnswer ==
    ASSUME MailInv, MailInv', Firing = {}, Firing' = {},
           NEW u \in Threads, status[u] # "ready", NEW a \in AltsOf(u), NEW msg,
           Answered(u), is_set' = is_set, result' = [result EXCEPT ![u] = msg],
           NackItems' = {SetItem(c) : c \in NacksOf(u) \ a.nacks} \cup NackItems
    PROVE  a \in Exchange!Alts(u) /\ Exchange!Answer(u, a, msg)
<1>1. /\ Pending = call /\ Returned = result /\ Sent = SentNow
      /\ Waiters = {t \in Threads : status[t] = "blocked"}
  BY QuietMap DEF QuietMapped
<1>2. PromiseOK'
  BY PromiseGone
<1>3. /\ Pending' = call' /\ Returned' = result' /\ Sent' = SentNow'
      /\ Waiters' = {t \in Threads : status'[t] = "blocked"}
  BY <1>2, MapNext DEF QuietMapped
<1>4. call[u] # Null
  BY DEF MailInv, CallsOK
<1>5. Waiters' = Waiters \ {u}
  BY <1>1, <1>3, OthersStay DEF MailInv
<1>6. Pending' = [Pending EXCEPT ![u] = Null]
  BY <1>1, <1>3 DEF Answered
<1>7. Sent' = Sent \cup (NacksOf(u) \ a.nacks)
  BY <1>1, <1>3, SentAnswer
<1>. QED
  BY <1>1, <1>3, <1>4, <1>5, <1>6, <1>7, AnswerMaps

\* What can happen is found ready.
LEMMA CanHappenIsReady ==
    ASSUME MailInv, agenda = <<>>, NEW t \in Threads, status[t] = "prepared",
           NEW a \in AltsOf(t), Exchange!CanHappen(t, a)
    PROVE  is_mailop_ready_to_fire(a)
<1>1. /\ Pending = call /\ Sent = is_set
      /\ Waiters = {u \in Threads : status[u] = "blocked"}
  <2>1. Firing = {} /\ SentNow = is_set
    BY Quiet DEF SentNow
  <2>. QED BY <2>1, QuietMap DEF QuietMapped
<1>2. a \in Alternatives /\ a.op \in Ops(a.on)
  BY ReadyFacts
<1>3. ASSUME NEW u \in Waiters \ {t}, NEW b \in Exchange!Alts(u), Exchange!Matches(a, b)
      PROVE  a.on \in Slots /\ clean(waiting[Partners(a)]) # <<>>
  <2>1. u \in Threads /\ status[u] = "blocked" /\ Pending[u] = call[u]
    BY <1>1
  <2>2. b \in AltsOf(u)
    BY <2>1 DEF Exchange!Alts, Exchange!ElementsOf, AltsOf, ElementsOf
  <2>3. b \in Alternatives /\ b.op \in Ops(b.on)
    BY <2>1, <2>2, CallOf DEF MailInv
  <2>4. a.on \in Slots /\ b.on = a.on /\ {a.op, b.op} = {"put", "take"}
    BY <1>3 DEF Exchange!Matches
  <2>5. Port(b) = Partners(a) /\ Partners(a) \in Ports
    <3>1. b.op = Other(a.op)
      BY <2>4 DEF Other
    <3>. QED BY <1>2, <2>4, <3>1, PortFacts DEF Port, Partners
  <2>6. Entry(u, b) \in ElementsOf(waiting[Partners(a)])
    BY <2>1, <2>2, <2>5, NothingToDo
  <2>7. Entry(u, b) # Stale
    BY <2>1, <2>3, MailopsAssumption DEF Entry, Entries
  <2>8. waiting[Partners(a)] \in Seq(Queued)
    BY <2>5 DEF MailInv, MailTypeOK
  <2>9. Entry(u, b) \in ElementsOf(clean(waiting[Partners(a)]))
    BY <2>6, <2>7, <2>8, CleanFacts
  <2>. QED BY <2>4, <2>9, ElementsEmpty
<1>4. CASE \E u \in Waiters \ {t} : \E b \in Exchange!Alts(u) : Exchange!Matches(a, b)
  BY <1>2, <1>3, <1>4, ReadyIs DEF MailInv
<1>5. CASE \/ a.on \in Boxes /\ value[a.on] # Null
           \/ a.on \in Mailqueues /\ mail[a.on] # <<>>
           \/ a.on \in Sent
  BY <1>1, <1>2, <1>5, ReadyIs DEF MailInv, MailTypeOK
<1>. QED
  BY <1>4, <1>5 DEF Exchange!CanHappen

\* When nothing is found ready, nothing can happen.
LEMMA NothingCanHappen ==
    ASSUME MailInv, agenda = <<>>, NEW t \in Threads, status[t] = "prepared",
           Ready(t) = {}
    PROVE  /\ \A a \in Exchange!Alts(t) : ~Exchange!CanHappen(t, a)
           /\ Pending = call /\ Returned = result /\ Sent = SentNow
           /\ Waiters = {u \in Threads : status[u] = "blocked"}
           /\ call[t] # Null
<1>1. /\ Pending = call /\ Returned = result /\ Sent = SentNow
      /\ Waiters = {u \in Threads : status[u] = "blocked"}
  BY Quiet, QuietMap DEF QuietMapped
<1>2. Exchange!Alts(t) \subseteq AltsOf(t)
  BY <1>1 DEF Exchange!Alts, Exchange!ElementsOf, AltsOf, ElementsOf
<1>3. \A a \in AltsOf(t) : ~is_mailop_ready_to_fire(a)
  BY ReadyFacts
<1>4. call[t] # Null
  BY DEF MailInv, CallsOK
<1>. QED
  BY <1>1, <1>2, <1>3, <1>4, CanHappenIsReady

\* A step that the exchange does not see.
ExchangeStutters ==
    /\ Pending' = Pending /\ Waiters' = Waiters /\ Returned' = Returned
    /\ value' = value /\ mail' = mail /\ Sent' = Sent

LEMMA PrepareMaps ==
    ASSUME MailInv, MailInv', NEW t \in Threads, NEW m \in program, prepare(t, m)
    PROVE  Exchange!Offer(t, m)
<1>1. /\ agenda = <<>> /\ Firing' = {} /\ NackItems' = {} /\ is_set' = is_set
      /\ value' = value /\ mail' = mail
  BY SilentStep
<1>2. /\ status[t] = "ready" /\ status' = [status EXCEPT ![t] = "prepared"]
      /\ call' = [call EXCEPT ![t] = m] /\ result' = [result EXCEPT ![t] = Null]
  BY DEF prepare
<1>3. /\ Pending = call /\ Returned = result /\ Sent = SentNow
      /\ Waiters = {u \in Threads : status[u] = "blocked"}
  BY <1>1, Quiet, QuietMap DEF QuietMapped
<1>4. /\ Pending' = call' /\ Returned' = result' /\ Sent' = SentNow'
      /\ Waiters' = {u \in Threads : status'[u] = "blocked"}
  BY <1>1, PromiseGone, MapNext DEF QuietMapped
<1>5. SentNow' = SentNow
  BY <1>1, Quiet DEF SentNow
<1>6. call[t] = Null
  BY <1>2 DEF MailInv, CallsOK
<1>7. Waiters' = Waiters
  BY <1>2, <1>3, <1>4 DEF MailInv, MailTypeOK
<1>. QED
  BY <1>1, <1>2, <1>3, <1>4, <1>5, <1>6, <1>7 DEF Exchange!Offer

LEMMA BlocksMaps ==
    ASSUME MailInv, MailInv', NEW t \in Threads, do_one_mailop_blocks(t)
    PROVE  Exchange!Wait(t)
<1>1. /\ agenda = <<>> /\ Firing' = {} /\ NackItems' = {} /\ is_set' = is_set
      /\ value' = value /\ mail' = mail
  BY SilentStep
<1>2. /\ status[t] = "prepared" /\ status' = [status EXCEPT ![t] = "blocked"]
      /\ call' = call /\ result' = result
      /\ Ready(t) = {} /\ call[t].call # "nonblocking"
  BY DEF do_one_mailop_blocks
<1>3. /\ \A a \in Exchange!Alts(t) : ~Exchange!CanHappen(t, a)
      /\ Pending = call /\ Returned = result /\ Sent = SentNow
      /\ Waiters = {u \in Threads : status[u] = "blocked"}
      /\ call[t] # Null
  BY <1>1, <1>2, NothingCanHappen
<1>4. /\ Pending' = call' /\ Returned' = result' /\ Sent' = SentNow'
      /\ Waiters' = {u \in Threads : status'[u] = "blocked"}
  BY <1>1, PromiseGone, MapNext DEF QuietMapped
<1>5. SentNow' = SentNow
  BY <1>1, Quiet DEF SentNow
<1>6. Waiters' = Waiters \cup {t} /\ t \notin Waiters
  BY <1>2, <1>3, <1>4 DEF MailInv, MailTypeOK
<1>. QED
  BY <1>1, <1>2, <1>3, <1>4, <1>5, <1>6 DEF Exchange!Wait

LEMMA GivesUpMaps ==
    ASSUME MailInv, MailInv', NEW t \in Threads, nonblocking_call_gives_up(t)
    PROVE  Exchange!GiveUp(t)
<1>1. /\ agenda = <<>> /\ Firing' = {} /\ NackItems' = {} /\ is_set' = is_set
      /\ value' = value /\ mail' = mail
  BY SilentStep
<1>2. /\ status[t] = "prepared" /\ status' = [status EXCEPT ![t] = "ready"]
      /\ call' = [call EXCEPT ![t] = Null] /\ result' = result
      /\ Ready(t) = {} /\ call[t].call = "nonblocking"
  BY DEF nonblocking_call_gives_up
<1>3. /\ \A a \in Exchange!Alts(t) : ~Exchange!CanHappen(t, a)
      /\ Pending = call /\ Returned = result /\ Sent = SentNow
      /\ Waiters = {u \in Threads : status[u] = "blocked"}
      /\ call[t] # Null
  BY <1>1, <1>2, NothingCanHappen
<1>4. /\ Pending' = call' /\ Returned' = result' /\ Sent' = SentNow'
      /\ Waiters' = {u \in Threads : status'[u] = "blocked"}
  BY <1>1, PromiseGone, MapNext DEF QuietMapped
<1>5. SentNow' = SentNow
  BY <1>1, Quiet DEF SentNow
<1>6. Waiters' = Waiters
  BY <1>2, <1>3, <1>4 DEF MailInv, MailTypeOK
<1>. QED
  BY <1>1, <1>2, <1>3, <1>4, <1>5, <1>6 DEF Exchange!GiveUp

LEMMA PutDropMaps ==
    ASSUME MailInv, MailInv', NEW t \in Threads, NEW d \in Boxes, put_in_maildrop(t, d)
    PROVE  Exchange!PutInBox(t, d) \/ ExchangeStutters
<1>1. /\ agenda = <<>> /\ Firing' = {} /\ NackItems' = {} /\ is_set' = is_set
      /\ status[t] = "ready"
      /\ UNCHANGED <<status, call, result, mail>>
      /\ \/ value[d] = Null /\ value' = [value EXCEPT ![d] = t]
         \/ value' = value
  BY PutDropStep
<1>2. /\ Pending = call /\ Returned = result /\ Sent = SentNow
      /\ Waiters = {u \in Threads : status[u] = "blocked"}
  BY <1>1, Quiet, QuietMap DEF QuietMapped
<1>3. /\ Pending' = call' /\ Returned' = result' /\ Sent' = SentNow'
      /\ Waiters' = {u \in Threads : status'[u] = "blocked"}
  BY <1>1, PromiseGone, MapNext DEF QuietMapped
<1>4. SentNow' = SentNow
  BY <1>1, Quiet DEF SentNow
<1>5. call[t] = Null
  BY <1>1 DEF MailInv, CallsOK
<1>. QED
  BY <1>1, <1>2, <1>3, <1>4, <1>5 DEF Exchange!PutInBox, ExchangeStutters

LEMMA PutQueueMaps ==
    ASSUME MailInv, MailInv', NEW t \in Threads, NEW q \in Mailqueues,
           put_in_mailqueue(t, q)
    PROVE  \/ Exchange!PutInMail(t, q)
           \/ \E u \in Threads : Exchange!PassMail(t, u, q)
<1>1. /\ agenda = <<>> /\ Firing' = {} /\ status[t] = "ready"
      /\ value' = value /\ is_set' = is_set
      /\ \/ \E u \in Threads : \E a \in AltsOf(u) :
              /\ status[u] = "blocked" /\ a.on = q /\ mail[q] = <<>>
              /\ Answered(u) /\ result' = [result EXCEPT ![u] = t]
              /\ NackItems' = {SetItem(c) : c \in NacksOf(u) \ a.nacks}
              /\ mail' = mail
         \/ /\ mail' = [mail EXCEPT ![q] = Append(@, t)]
            /\ NackItems' = {}
            /\ UNCHANGED <<status, call, result>>
  BY PutQueueStep
<1>2. /\ Pending = call /\ Returned = result /\ Sent = SentNow
      /\ Waiters = {u \in Threads : status[u] = "blocked"}
      /\ Firing = {} /\ NackItems = {}
  BY <1>1, Quiet, QuietMap DEF QuietMapped
<1>3. call[t] = Null
  BY <1>1 DEF MailInv, CallsOK
<1>4. ASSUME NEW u \in Threads, NEW a \in AltsOf(u),
             status[u] = "blocked", a.on = q, mail[q] = <<>>,
             Answered(u), result' = [result EXCEPT ![u] = t],
             NackItems' = {SetItem(c) : c \in NacksOf(u) \ a.nacks}, mail' = mail
      PROVE  Exchange!PassMail(t, u, q)
  <2>1. a \in Exchange!Alts(u) /\ Exchange!Answer(u, a, t)
    BY <1>1, <1>2, <1>4, QuietAnswer
  <2>2. u \in Waiters
    BY <1>2, <1>4
  <2>. QED BY <1>1, <1>2, <1>3, <1>4, <2>1, <2>2 DEF Exchange!PassMail
<1>5. CASE /\ mail' = [mail EXCEPT ![q] = Append(@, t)]
           /\ NackItems' = {}
           /\ UNCHANGED <<status, call, result>>
  <2>1. /\ Pending' = call' /\ Returned' = result' /\ Sent' = SentNow'
        /\ Waiters' = {u \in Threads : status'[u] = "blocked"}
    BY <1>1, PromiseGone, MapNext DEF QuietMapped
  <2>2. SentNow' = SentNow
    BY <1>1, <1>2, <1>5 DEF SentNow
  <2>. QED BY <1>1, <1>2, <1>3, <1>5, <2>1, <2>2 DEF Exchange!PutInMail
<1>. QED
  BY <1>1, <1>4, <1>5

\* The value of a maildrop answers a call.
LEMMA BoxAnswers ==
    ASSUME MailInv, MailInv', Firing = {}, Firing' = {},
           NEW u \in Threads, status[u] # "ready", NEW a \in AltsOf(u),
           Answered(u), is_set' = is_set,
           NackItems' = {SetItem(c) : c \in NacksOf(u) \ a.nacks} \cup NackItems,
           a.on \in Boxes, value[a.on] # Null,
           result' = [result EXCEPT ![u] = value[a.on]],
           value' = [value EXCEPT ![a.on] = left_in_maildrop(u, a.op, @)], mail' = mail
    PROVE  Exchange!UseBox(u)
<1>1. a \in Exchange!Alts(u) /\ Exchange!Answer(u, a, value[a.on])
  BY QuietAnswer
<1>2. value' = [value EXCEPT ![a.on] = CASE a.op = "take" -> Null
                                         [] a.op = "swap" -> u
                                         [] a.op = "peek" -> @]
  BY DEF left_in_maildrop
<1>. QED
  BY <1>1, <1>2 DEF Exchange!UseBox

LEMMA RelayMaps ==
    ASSUME MailInv, MailInv', relay_msg
    PROVE  (\E u \in Threads : Exchange!UseBox(u)) \/ ExchangeStutters
<1>1. /\ Firing = {} /\ NackItems = {} /\ Firing' = {}
      /\ mail' = mail /\ is_set' = is_set
      /\ \/ /\ UNCHANGED <<status, call, result, value>>
            /\ NackItems' = {}
         \/ \E u \in Threads : \E a \in AltsOf(u) :
              /\ status[u] = "blocked" /\ Answered(u)
              /\ a.on \in Boxes /\ value[a.on] # Null
              /\ result' = [result EXCEPT ![u] = value[a.on]]
              /\ value' = [value EXCEPT ![a.on] = left_in_maildrop(u, a.op, @)]
              /\ NackItems' = {SetItem(c) : c \in NacksOf(u) \ a.nacks}
  BY RelayStep
<1>2. CASE UNCHANGED <<status, call, result, value>> /\ NackItems' = {}
  <2>1. /\ Pending = call /\ Returned = result /\ Sent = SentNow
        /\ Waiters = {u \in Threads : status[u] = "blocked"}
    BY <1>1, QuietMap DEF QuietMapped
  <2>2. /\ Pending' = call' /\ Returned' = result' /\ Sent' = SentNow'
        /\ Waiters' = {u \in Threads : status'[u] = "blocked"}
    BY <1>1, PromiseGone, MapNext DEF QuietMapped
  <2>3. SentNow' = SentNow
    BY <1>1, <1>2 DEF SentNow
  <2>. QED BY <1>1, <1>2, <2>1, <2>2, <2>3 DEF ExchangeStutters
<1>3. ASSUME NEW u \in Threads, NEW a \in AltsOf(u),
             status[u] = "blocked", Answered(u), a.on \in Boxes, value[a.on] # Null,
             result' = [result EXCEPT ![u] = value[a.on]],
             value' = [value EXCEPT ![a.on] = left_in_maildrop(u, a.op, @)],
             NackItems' = {SetItem(c) : c \in NacksOf(u) \ a.nacks}
      PROVE  Exchange!UseBox(u)
  BY <1>1, <1>3, BoxAnswers
<1>. QED
  BY <1>1, <1>2, <1>3

\* The exchange has seen a rendezvous when it was decided.
LEMMA FireMaps ==
    ASSUME MailInv, MailInv', PromiseOK, fire_mailslot PROVE ExchangeStutters
<1>1. PICK f \in Firing : \E e :
        /\ Firing = {f} /\ NackItems = {} /\ Firing' = {} /\ e = PartnerEntry(f)
        /\ UNCHANGED <<value, mail, is_set>>
        /\ \/ /\ e.thread \in Threads /\ Answered(e.thread)
              /\ result' = (IF f.alt.op = "take"
                              THEN [result EXCEPT ![f.thread] = e.thread]
                              ELSE [result EXCEPT ![e.thread] = f.thread])
              /\ NackItems' = {SetItem(c) : c \in NacksOf(e.thread) \ e.alt.nacks}
           \/ e = Stale
  BY FireStep
<1>2. PICK e : e = PartnerEntry(f)
  OBVIOUS
<1>3. e # Stale
  BY <1>2, PartnerFacts
<1>4. /\ Firing' = {} /\ e.thread \in Threads /\ Answered(e.thread)
      /\ result' = (IF f.alt.op = "take" THEN [result EXCEPT ![f.thread] = e.thread]
                                         ELSE [result EXCEPT ![e.thread] = f.thread])
      /\ NackItems' = {SetItem(c) : c \in NacksOf(e.thread) \ e.alt.nacks}
      /\ NackItems = {} /\ value' = value /\ mail' = mail /\ is_set' = is_set
  BY <1>1, <1>2, <1>3
<1>5. /\ Pending = [call EXCEPT ![e.thread] = Null]
      /\ Waiters = {t \in Threads : status[t] = "blocked"} \ {e.thread}
      /\ Returned = IF f.alt.op = "take" THEN [result EXCEPT ![f.thread] = e.thread]
                                         ELSE [result EXCEPT ![e.thread] = f.thread]
      /\ Sent = SentNow \cup (NacksOf(e.thread) \ e.alt.nacks)
  BY <1>2, DecidedMap DEF DecidedMapped
<1>6. /\ Pending' = call' /\ Returned' = result' /\ Sent' = SentNow'
      /\ Waiters' = {t \in Threads : status'[t] = "blocked"}
  BY <1>4, PromiseGone, MapNext DEF QuietMapped
<1>7. Pending' = Pending /\ Returned' = Returned
  BY <1>4, <1>5, <1>6 DEF Answered
<1>8. Waiters' = Waiters
  BY <1>4, <1>5, <1>6, OthersStay DEF MailInv
<1>9. Sent' = Sent
  BY <1>4, <1>5, <1>6, SentAnswer
<1>. QED
  BY <1>4, <1>7, <1>8, <1>9 DEF ExchangeStutters

\* A nack counts as sent when it is put on the agenda.
LEMMA SetMaps ==
    ASSUME MailInv, MailInv', PromiseOK, PromiseOK', set_condvar
    PROVE  ExchangeStutters
<1>1. /\ Firing' = Firing
      /\ \A p \in Ports : p[1] \in Slots => waiting'[p] = waiting[p]
      /\ UNCHANGED <<status, call, result, value, mail>>
      /\ \E c \in Nacks : /\ is_set' = is_set \cup {c} /\ SetItem(c) \in NackItems
                          /\ NackItems \subseteq NackItems' \cup {SetItem(c)}
                          /\ NackItems' \subseteq NackItems
  BY SetStep
<1>2. SentNow' = SentNow
  <2>1. PICK c \in Nacks : /\ is_set' = is_set \cup {c} /\ SetItem(c) \in NackItems
                           /\ NackItems \subseteq NackItems' \cup {SetItem(c)}
                           /\ NackItems' \subseteq NackItems
    BY <1>1
  <2>2. SetItem(c).on = c
    BY DEF SetItem
  <2>. QED BY <2>1, <2>2 DEF SentNow
<1>3. CASE Firing = {}
  BY <1>1, <1>2, <1>3, QuietMap, MapNext DEF QuietMapped, ExchangeStutters
<1>4. CASE Firing # {}
  <2>1. PICK f \in Firing : TRUE
    BY <1>4
  <2>. PICK e : e = PartnerEntry(f)
    OBVIOUS
  <2>2. e = PartnerEntry(f)' /\ f \in Firing'
    BY <1>1, <2>1, PartnerFacts DEF PartnerEntry
  <2>3. /\ Pending = [call EXCEPT ![e.thread] = Null]
        /\ Waiters = {t \in Threads : status[t] = "blocked"} \ {e.thread}
        /\ Returned = IF f.alt.op = "take"
                        THEN [result EXCEPT ![f.thread] = e.thread]
                        ELSE [result EXCEPT ![e.thread] = f.thread]
        /\ Sent = SentNow \cup (NacksOf(e.thread) \ e.alt.nacks)
    BY <2>1, DecidedMap DEF DecidedMapped
  <2>4. /\ Pending' = [call' EXCEPT ![e.thread] = Null]
        /\ Waiters' = {t \in Threads : status'[t] = "blocked"} \ {e.thread}
        /\ Returned' = IF f.alt.op = "take"
                         THEN [result' EXCEPT ![f.thread] = e.thread]
                         ELSE [result' EXCEPT ![e.thread] = f.thread]
        /\ Sent' = SentNow' \cup (NacksOf(e.thread)' \ e.alt.nacks)
    BY <2>2, MapNext DEF DecidedMapped
  <2>5. NacksOf(e.thread)' = NacksOf(e.thread)
    BY <1>1 DEF NacksOf
  <2>. QED BY <1>1, <1>2, <2>3, <2>4, <2>5 DEF ExchangeStutters
<1>. QED
  BY <1>3, <1>4

\* A call that waits for a nack sees it when it is woken.
LEMMA WakeMaps ==
    ASSUME MailInv, MailInv', PromiseOK, PromiseOK', wake_waiting_thread
    PROVE  (\E u \in Threads : Exchange!SeeNack(u)) \/ ExchangeStutters
<1>1. PICK e \in Entries :
        /\ e = Head(agenda).entry /\ e.thread \in Threads /\ e.alt.on \in is_set
        /\ Firing' = Firing
        /\ UNCHANGED <<result, value, mail, is_set>>
        /\ \/ /\ status[e.thread] = "blocked" /\ e.alt \in AltsOf(e.thread)
              /\ Answered(e.thread) /\ waiting' = completed(waiting, e.thread)
              /\ NackItems' = {SetItem(c) : c \in NacksOf(e.thread) \ e.alt.nacks}
                              \cup NackItems
           \/ /\ UNCHANGED <<status, call, waiting>>
              /\ NackItems' = NackItems
  BY WakeStep
<1>2. PICK u, a : u = e.thread /\ a = e.alt
  OBVIOUS
<1>3. CASE UNCHANGED <<status, call, waiting>> /\ NackItems' = NackItems
  BY <1>1, <1>3
     DEF ExchangeStutters, Pending, Waiters, Returned, Sent, Promised, PartnerEntry
<1>4. CASE /\ status[u] = "blocked" /\ a \in AltsOf(u)
           /\ Answered(u) /\ waiting' = completed(waiting, u)
           /\ NackItems' = {SetItem(c) : c \in NacksOf(u) \ a.nacks} \cup NackItems
  <2>1. /\ u \in Threads /\ call[u] # Null /\ result[u] = Null
        /\ result \in [Threads -> Threads \cup {Null}]
    BY <1>1, <1>2, <1>4 DEF MailInv, MailTypeOK, CallsOK
  <2>2. SentNow' = SentNow \cup (NacksOf(u) \ a.nacks) /\ a.on \in SentNow
    <3>1. is_set' = is_set /\ a.on \in is_set
      BY <1>1, <1>2
    <3>. QED BY <1>4, <3>1, SentAnswer DEF SentNow
  <2>3. SentNow \subseteq Sent
    BY DEF SentNow, Sent
  <2>4. CASE Firing = {}
    <3>1. result' = [result EXCEPT ![u] = Null]
      BY <1>1, <2>1
    <3>2. a \in Exchange!Alts(u) /\ Exchange!Answer(u, a, Null)
      BY <1>1, <1>4, <2>1, <2>4, <3>1, QuietAnswer
    <3>. QED BY <1>1, <2>1, <2>2, <2>3, <3>2 DEF Exchange!SeeNack
  <2>5. CASE Firing # {}
    <3>1. PICK f \in Firing : TRUE
      BY <2>5
    <3>. PICK x : x = PartnerEntry(f)
      OBVIOUS
    <3>2. /\ Head(waiting'[Partners(f.alt)]) = x /\ x.thread # u
          /\ call'[x.thread] = call[x.thread]
      BY <1>1, <1>2, <1>4, <3>1, WokenKeepsPartner
    <3>3. x = PartnerEntry(f)' /\ f \in Firing'
      BY <1>1, <3>1, <3>2 DEF PartnerEntry
    <3>4. /\ Pending = [call EXCEPT ![x.thread] = Null]
          /\ Waiters = {t \in Threads : status[t] = "blocked"} \ {x.thread}
          /\ Returned = IF f.alt.op = "take"
                          THEN [result EXCEPT ![f.thread] = x.thread]
                          ELSE [result EXCEPT ![x.thread] = f.thread]
          /\ Sent = SentNow \cup (NacksOf(x.thread) \ x.alt.nacks)
      BY <3>1, DecidedMap DEF DecidedMapped
    <3>5. /\ Pending' = [call' EXCEPT ![x.thread] = Null]
          /\ Waiters' = {t \in Threads : status'[t] = "blocked"} \ {x.thread}
          /\ Returned' = IF f.alt.op = "take"
                           THEN [result' EXCEPT ![f.thread] = x.thread]
                           ELSE [result' EXCEPT ![x.thread] = f.thread]
          /\ Sent' = SentNow' \cup (NacksOf(x.thread)' \ x.alt.nacks)
      BY <3>3, MapNext DEF DecidedMapped
    <3>6. f.thread # u /\ f.thread \in Threads /\ x.thread \in Threads
      BY <1>4, <3>1, FiringFacts, PartnerFacts
    <3>7. call \in [Threads -> (UNION Programs) \cup {Null}]
      BY DEF MailInv, MailTypeOK
    <3>8. Pending[u] = call[u] /\ Pending' = [Pending EXCEPT ![u] = Null]
      BY <1>4, <2>1, <3>2, <3>4, <3>5, <3>7 DEF Answered
    <3>9. Returned' = [Returned EXCEPT ![u] = Null]
      <4>1. Returned' = Returned
        BY <1>1, <3>4, <3>5
      <4>2. Returned[u] = Null /\ Returned = [t \in Threads |-> Returned[t]]
        BY <2>1, <3>2, <3>4, <3>6
      <4>. QED BY <4>1, <4>2
    <3>10. Waiters' = Waiters \ {u}
      BY <1>4, <2>1, <3>4, <3>5, OthersStay DEF MailInv
    <3>11. Sent' = Sent \cup (NacksOf(u) \ a.nacks)
      BY <2>2, <3>2, <3>4, <3>5 DEF NacksOf
    <3>12. a \in Exchange!Alts(u) /\ Exchange!Answer(u, a, Null)
      BY <1>4, <2>1, <3>8, <3>9, <3>10, <3>11, AnswerMaps
    <3>. QED BY <1>1, <2>1, <2>2, <2>3, <3>12 DEF Exchange!SeeNack
  <2>. QED BY <2>4, <2>5
<1>. QED
  BY <1>1, <1>2, <1>3, <1>4

\* A call fires: a mailslot is used together with the partner that is found.
LEMMA FiresMaps ==
    ASSUME MailInv, MailInv', PromiseOK', NEW t \in Threads, do_one_mailop_fires(t)
    PROVE  \/ \E u \in Threads : Exchange!Meet(t, u)
           \/ Exchange!UseBox(t) \/ Exchange!TakeMail(t) \/ Exchange!SeeNack(t)
<1>1. PICK a :
        /\ a \in AltsOf(t) /\ a \in Alternatives /\ a.op \in Ops(a.on)
        /\ is_mailop_ready_to_fire(a) /\ fire_mailop(t, a)
        /\ status[t] = "prepared" /\ Answered(t) /\ waiting' = tested(t)
        /\ agenda = <<>> /\ is_set' = is_set
        /\ NackItems' = {SetItem(c) : c \in NacksOf(t) \ a.nacks}
        /\ \/ /\ a.on \in Slots
              /\ Firing' = {FireItem(t, a)}
              /\ UNCHANGED <<result, value, mail>>
           \/ a.on \notin Slots /\ Firing' = {}
  BY FiresStep
<1>2. Firing = {} /\ NackItems = {}
  BY <1>1, Quiet
<1>3. /\ Pending = call /\ Returned = result /\ Sent = SentNow
      /\ Waiters = {u \in Threads : status[u] = "blocked"}
  BY <1>2, QuietMap DEF QuietMapped
<1>4. /\ call[t] # Null /\ result[t] = Null
      /\ result \in [Threads -> Threads \cup {Null}]
      /\ call \in [Threads -> (UNION Programs) \cup {Null}]
  BY <1>1 DEF MailInv, MailTypeOK, CallsOK
<1>5. CASE a.on \in Slots
  <2>1. PICK f, e : f = FireItem(t, a) /\ e = Head(waiting'[Partners(a)])
    OBVIOUS
  <2>2. f \in Firing' /\ f.thread = t /\ f.alt = a /\ e = PartnerEntry(f)'
    <3>1. f.thread = t /\ f.alt = a
      BY <2>1 DEF FireItem
    <3>2. f \in Firing'
      BY <1>1, <1>5, <2>1
    <3>. QED BY <2>1, <3>1, <3>2 DEF PartnerEntry
  <2>3. PICK u, b : u = e.thread /\ b = e.alt
    OBVIOUS
  <2>4. /\ u \in Threads /\ u # t /\ b \in AltsOf(u) /\ status[u] = "blocked"
        /\ b.on = a.on /\ b.op = Other(a.op)
    BY <1>1, <1>5, <2>1, <2>3, ChosenPartner
  <2>5. /\ Pending' = [call' EXCEPT ![u] = Null]
        /\ Waiters' = {v \in Threads : status'[v] = "blocked"} \ {u}
        /\ Returned' = IF a.op = "take" THEN [result' EXCEPT ![t] = u]
                                        ELSE [result' EXCEPT ![u] = t]
        /\ Sent' = SentNow' \cup (NacksOf(u)' \ b.nacks)
    BY <2>2, <2>3, MapNext DEF DecidedMapped
  <2>6. NacksOf(u)' = NacksOf(u)
    BY <1>1, <2>4, OthersStay DEF MailInv
  <2>7. Exchange!Alts(t) = AltsOf(t) /\ Exchange!Alts(u) = AltsOf(u)
    <3>1. call[u] # Null
      BY <2>4 DEF MailInv, CallsOK
    <3>. QED BY <1>3, <1>4, <3>1
                DEF Exchange!Alts, Exchange!ElementsOf, AltsOf, ElementsOf
  <2>8. Exchange!Matches(a, b)
    <3>1. a.op \in {"put", "take"}
      BY <1>1, <1>5, PortFacts
    <3>. QED BY <1>5, <2>4, <3>1 DEF Exchange!Matches, Other
  <2>9. t \notin Waiters /\ u \in Waiters
    BY <1>1, <1>3, <2>4
  <2>10. Pending' = [Pending EXCEPT ![t] = Null, ![u] = Null]
    BY <1>1, <1>3, <2>5 DEF Answered
  <2>11. Waiters' = Waiters \ {u}
    BY <1>1, <1>3, <2>5, OthersStay DEF MailInv
  <2>12. Returned' = IF a.op = "take" THEN [Returned EXCEPT ![t] = u]
                                      ELSE [Returned EXCEPT ![u] = t]
    <3>1. result' = result
      BY <1>1, <1>5
    <3>. QED BY <1>3, <2>5, <3>1
  <2>13. Sent' = Sent \cup (NacksOf(t) \ a.nacks) \cup (NacksOf(u) \ b.nacks)
    <3>1. SentNow' = SentNow \cup (NacksOf(t) \ a.nacks)
      BY <1>1, <1>2, SentAnswer
    <3>. QED BY <1>3, <2>5, <2>6, <3>1
  <2>14. /\ Exchange!Unchosen(t, a) = NacksOf(t) \ a.nacks
         /\ Exchange!Unchosen(u, b) = NacksOf(u) \ b.nacks
    BY <1>3 DEF Exchange!Unchosen, Exchange!ElementsOf, NacksOf, ElementsOf
  <2>15. Exchange!Meet(t, u)
    <3>1. value' = value /\ mail' = mail
      BY <1>1, <1>5
    <3>. QED BY <1>1, <2>4, <2>7, <2>8, <2>9, <2>10, <2>11, <2>12, <2>13, <2>14, <3>1
                DEF Exchange!Meet
  <2>. QED BY <2>4, <2>15
<1>6. CASE a.on \in Boxes
  <2>1. fire_maildrop(t, a) /\ a.on \notin Slots /\ value[a.on] # Null
    BY <1>1, <1>6, BoxFacts, ReadyIs DEF fire_mailop, MailInv
  <2>. QED BY <1>1, <1>2, <1>6, <2>1, BoxAnswers DEF fire_maildrop
<1>7. CASE a.on \in Mailqueues
  <2>1. get_msg(t, a) /\ a.on \notin Slots /\ mail[a.on] # <<>>
    BY <1>1, <1>7, MailopsAssumption, ReadyIs DEF fire_mailop, MailInv
  <2>2. a \in Exchange!Alts(t) /\ Exchange!Answer(t, a, Head(mail[a.on]))
    BY <1>1, <1>2, <2>1, QuietAnswer DEF get_msg
  <2>. QED BY <1>7, <2>1, <2>2 DEF get_msg, Exchange!TakeMail
<1>8. CASE a.on \in Nacks
  <2>1. fire_condvar(t, a) /\ a.on \notin Slots /\ a.on \in is_set
    BY <1>1, <1>8, MailopsAssumption, ReadyIs DEF fire_mailop, MailInv
  <2>2. result' = [result EXCEPT ![t] = Null] /\ value' = value /\ mail' = mail
    BY <1>4, <2>1 DEF fire_condvar
  <2>3. a \in Exchange!Alts(t) /\ Exchange!Answer(t, a, Null)
    BY <1>1, <1>2, <2>1, <2>2, QuietAnswer
  <2>. QED BY <1>3, <2>1, <2>2, <2>3 DEF Exchange!SeeNack, SentNow
<1>. QED
  BY <1>1, <1>5, <1>6, <1>7, <1>8, ReadyIs DEF MailInv

-----------------------------------------------------------------------------

LEMMA ExchangeInit ==
    ASSUME Init PROVE Exchange!Init
<1>1. MailInv
  BY MailInvInit
<1>2. agenda = <<>> /\ is_set = {}
  BY DEF Init
<1>3. /\ Pending = call /\ Returned = result /\ Sent = {}
      /\ Waiters = {t \in Threads : status[t] = "blocked"}
  BY <1>1, <1>2, Quiet, QuietMap DEF QuietMapped, SentNow
<1>. QED
  BY <1>3 DEF Init, Exchange!Init

LEMMA ExchangeNext ==
    ASSUME PartnersAwaitNoNack(UNION Programs), MailInv, PromiseOK, ~raised, [Next]_vars
    PROVE  [Exchange!Next]_(Exchange!vars)
<1>0. MailInv' /\ PromiseOK'
  BY MailInvNext, PromiseNext
<1>1. CASE ExchangeStutters
  BY <1>1 DEF ExchangeStutters, Exchange!vars
<1>2. CASE set_condvar
  BY <1>0, <1>1, <1>2, SetMaps
<1>3. CASE wake_waiting_thread
  BY <1>0, <1>1, <1>3, WakeMaps DEF Exchange!Next
<1>4. CASE fire_mailslot
  BY <1>0, <1>1, <1>4, FireMaps
<1>5. CASE relay_msg
  BY <1>0, <1>1, <1>5, RelayMaps DEF Exchange!Next
<1>6. ASSUME NEW t \in Threads, NEW m \in program, prepare(t, m)
      PROVE  Exchange!Next
  <2>1. m \in UNION Programs
    BY DEF MailInv, MailTypeOK
  <2>. QED BY <1>0, <1>6, <2>1, PrepareMaps DEF Exchange!Next
<1>7. ASSUME NEW t \in Threads, do_one_mailop_fires(t) PROVE Exchange!Next
  BY <1>0, <1>7, FiresMaps DEF Exchange!Next
<1>8. ASSUME NEW t \in Threads, do_one_mailop_blocks(t) PROVE Exchange!Next
  BY <1>0, <1>8, BlocksMaps DEF Exchange!Next
<1>9. ASSUME NEW t \in Threads, nonblocking_call_gives_up(t) PROVE Exchange!Next
  BY <1>0, <1>9, GivesUpMaps DEF Exchange!Next
<1>10. ASSUME NEW t \in Threads, NEW d \in Boxes, put_in_maildrop(t, d)
       PROVE  [Exchange!Next]_(Exchange!vars)
  BY <1>0, <1>1, <1>10, PutDropMaps DEF Exchange!Next
<1>11. ASSUME NEW t \in Threads, NEW q \in Mailqueues, put_in_mailqueue(t, q)
       PROVE  Exchange!Next
  BY <1>0, <1>11, PutQueueMaps DEF Exchange!Next
<1>12. CASE UNCHANGED vars
  <2>1. ExchangeStutters
    BY <1>12 DEF vars, ExchangeStutters, Pending, Waiters, Returned, Sent,
                 Promised, PartnerEntry, Firing, NackItems
  <2>. QED BY <1>1, <2>1
<1>. QED
  BY <1>2, <1>3, <1>4, <1>5, <1>6, <1>7, <1>8, <1>9, <1>10, <1>11, <1>12
     DEF Next, scope_continues

\* The calls do what the exchange promises, in programs whose servers do not
\* wait for nacks where a client may still choose them: exactly one alternative
\* of a call happens, both sides of a mailslot together, no message is lost,
\* doubled or overtaken, and the nacks sent are those of what was not chosen.
THEOREM Refinement ==
    ASSUME PartnersAwaitNoNack(UNION Programs)
    PROVE  Spec => ExchangesMail
<1>1. Init => Exchange!Init /\ MailInv /\ PromiseOK /\ ~raised
  <2>1. ASSUME Init PROVE PromiseOK /\ ~raised
    BY <2>1, ElementsEmpty DEF Init, PromiseOK, ToDo
  <2>. QED BY <2>1, MailInvInit, ExchangeInit
<1>2. /\ MailInv /\ PromiseOK /\ ~raised /\ [Next]_vars
      => (MailInv /\ PromiseOK /\ ~raised)'
  BY MailInvNext, PromiseNext
<1>3. /\ MailInv /\ PromiseOK /\ ~raised /\ [Next]_vars
      => [Exchange!Next]_(Exchange!vars)
  BY ExchangeNext
<1>. QED
  BY <1>1, <1>2, <1>3, PTL DEF Spec, ExchangesMail, Exchange!Spec
=============================================================================
