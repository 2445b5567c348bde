----------------------- MODULE TaskHostthreadsProofs -----------------------
(***************************************************************************)
(* Proofs about TaskHostthreads for every set of tasks and every number of *)
(* servers.                                                                *)
(***************************************************************************)
EXTENDS TaskHostthreads, FiniteSetTheorems, FunctionTheorems, SequenceTheorems, TLAPS

\* The numbers of live and of awake servers are numbers.
LEMMA ServerSetsAreFinite ==
    /\ IsFiniteSet(Live) /\ Cardinality(Live) \in Nat
    /\ IsFiniteSet(Awake) /\ Cardinality(Awake) \in Nat
<1>1. IsFiniteSet(Live) /\ IsFiniteSet(Awake)
  BY TaskHostthreadsAssumption, FS_Subset DEF Live, Awake
<1>. QED  BY <1>1, FS_CardinalityType

\* A server that moves to label l changes the set of live servers, and their
\* number, by that server at most.
LEMMA LiveAfterGoto ==
    ASSUME TypeOK, NEW s \in Servers, NEW l \in PCs, Goto(s, l)
    PROVE  LET live(x) == x \in {"broadcast", "loop", "wait", "busy"}
           IN  /\ live(l) /\ ~live(pc[s]) =>
                    Cardinality(Live') = Cardinality(Live) + 1
               /\ ~live(l) /\ live(pc[s]) =>
                    /\ Cardinality(Live') = Cardinality(Live) - 1
                    /\ Cardinality(Live) # 0
               /\ (live(l) <=> live(pc[s])) => Live' = Live
<1>. DEFINE live(x) == x \in {"broadcast", "loop", "wait", "busy"}
<1>0. pc' = [pc EXCEPT ![s] = l]
  BY DEF Goto
<1>1. ASSUME live(l), ~live(pc[s])
      PROVE  Cardinality(Live') = Cardinality(Live) + 1
  <2>1. Live' = Live \cup {s} /\ s \notin Live
    BY <1>0, <1>1 DEF Live, TypeOK
  <2>. QED  BY <2>1, ServerSetsAreFinite, FS_AddElement
<1>2. ASSUME ~live(l), live(pc[s])
      PROVE  /\ Cardinality(Live') = Cardinality(Live) - 1
             /\ Cardinality(Live) # 0
  <2>1. Live' = Live \ {s} /\ s \in Live
    BY <1>0, <1>2 DEF Live, TypeOK
  <2>2. Cardinality(Live) # 0
    BY <2>1, ServerSetsAreFinite, FS_EmptySet
  <2>. QED  BY <2>1, <2>2, ServerSetsAreFinite, FS_RemoveElement
<1>3. ASSUME live(l) <=> live(pc[s]) PROVE Live' = Live
  BY <1>0, <1>3 DEF Live, TypeOK
<1>. QED  BY <1>1, <1>2, <1>3

\* The same for the servers that are awake.
LEMMA AwakeAfterGoto ==
    ASSUME TypeOK, NEW s \in Servers, NEW l \in PCs, Goto(s, l)
    PROVE  LET awake(x) == x \in {"broadcast", "loop", "busy"}
           IN  /\ awake(l) /\ ~awake(pc[s]) =>
                    Cardinality(Awake') = Cardinality(Awake) + 1
               /\ ~awake(l) /\ awake(pc[s]) =>
                    /\ Cardinality(Awake') = Cardinality(Awake) - 1
                    /\ Cardinality(Awake) # 0
               /\ (awake(l) <=> awake(pc[s])) => Awake' = Awake
<1>. DEFINE awake(x) == x \in {"broadcast", "loop", "busy"}
<1>0. pc' = [pc EXCEPT ![s] = l]
  BY DEF Goto
<1>1. ASSUME awake(l), ~awake(pc[s])
      PROVE  Cardinality(Awake') = Cardinality(Awake) + 1
  <2>1. Awake' = Awake \cup {s} /\ s \notin Awake
    BY <1>0, <1>1 DEF Awake, TypeOK
  <2>. QED  BY <2>1, ServerSetsAreFinite, FS_AddElement
<1>2. ASSUME ~awake(l), awake(pc[s])
      PROVE  /\ Cardinality(Awake') = Cardinality(Awake) - 1
             /\ Cardinality(Awake) # 0
  <2>1. Awake' = Awake \ {s} /\ s \in Awake
    BY <1>0, <1>2 DEF Awake, TypeOK
  <2>2. Cardinality(Awake) # 0
    BY <2>1, ServerSetsAreFinite, FS_EmptySet
  <2>. QED  BY <2>1, <2>2, ServerSetsAreFinite, FS_RemoveElement
<1>3. ASSUME awake(l) <=> awake(pc[s]) PROVE Awake' = Awake
  BY <1>0, <1>3 DEF Awake, TypeOK
<1>. QED  BY <1>1, <1>2, <1>3

\* Turning a queue round gives a queue of the same requests.
LEMMA BackwardType ==
    ASSUME NEW q \in Seq(Requests)
    PROVE  /\ Backward(q) \in Seq(Requests)
           /\ Len(Backward(q)) = Len(q)
           /\ Backward(q) = <<>> <=> q = <<>>
           /\ \A i \in 1 .. Len(q) : Backward(q)[i] = q[Len(q) + 1 - i]
<1>1. \A i \in 1 .. Len(q) : Len(q) + 1 - i \in 1 .. Len(q)
  OBVIOUS
<1>2. Backward(q) \in [1 .. Len(q) -> Requests]
  BY <1>1 DEF Backward
<1>3. Backward(q) \in Seq(Requests) /\ Len(Backward(q)) = Len(q)
  BY <1>2
<1>. QED  BY <1>3 DEF Backward

\* A request put at the front of a queue comes last once it is turned round.
LEMMA BackwardPrepend ==
    ASSUME NEW q \in Seq(Requests), NEW r \in Requests
    PROVE  Backward(<<r>> \o q) = Append(Backward(q), r)
<1>1. <<r>> \o q \in Seq(Requests) /\ Len(<<r>> \o q) = Len(q) + 1
  OBVIOUS
<1>2. \A i \in 1 .. Len(q) + 1 :
         (<<r>> \o q)[i] = IF i = 1 THEN r ELSE q[i - 1]
  OBVIOUS
<1>3. /\ Append(Backward(q), r) \in Seq(Requests)
      /\ Len(Append(Backward(q), r)) = Len(q) + 1
      /\ \A i \in 1 .. Len(q) + 1 :
            Append(Backward(q), r)[i] =
                IF i = Len(q) + 1 THEN r ELSE Backward(q)[i]
  BY BackwardType
<1>4. \A i \in 1 .. Len(q) + 1 :
         Backward(<<r>> \o q)[i] = Append(Backward(q), r)[i]
  <2>. SUFFICES ASSUME NEW i \in 1 .. Len(q) + 1
                PROVE  Backward(<<r>> \o q)[i] = Append(Backward(q), r)[i]
    OBVIOUS
  <2>1. Backward(<<r>> \o q)[i] = (<<r>> \o q)[Len(q) + 2 - i]
    <3>1. ASSUME NEW p \in Seq(Requests), Len(p) = Len(q) + 1
          PROVE  Backward(p)[i] = p[Len(q) + 2 - i]
      BY <3>1, BackwardType
    <3>. QED  BY <1>1, <3>1
  <2>2. CASE i = Len(q) + 1
    BY <1>2, <1>3, <2>1, <2>2
  <2>3. CASE i # Len(q) + 1
    <3>1. i \in 1 .. Len(q) /\ Len(q) + 1 - i \in 1 .. Len(q)
      BY <2>3
    <3>2. (<<r>> \o q)[Len(q) + 2 - i] = q[Len(q) + 1 - i]
      BY <1>2, <3>1
    <3>. QED  BY <1>3, <2>1, <2>3, <3>1, <3>2, BackwardType
  <2>. QED  BY <2>2, <2>3
<1>. QED
  BY <1>1, <1>3, <1>4, BackwardType, SeqEqual

\* The queues keep their types when a request is queued or taken, and their
\* concatenation behaves as one first-in-first-out queue.
LEMMA PrependStep ==
    ASSUME TypeOK, NEW r \in Requests, prepend(r),
           UNCHANGED internal_request_queue
    PROVE  /\ external_request_queue' \in Seq(Requests)
           /\ internal_request_queue' \in Seq(Requests)
           /\ pending' = Append(pending, r)
<1>. DEFINE in == internal_request_queue
            ex == external_request_queue
<1>1. in \in Seq(Requests) /\ ex \in Seq(Requests)
  BY DEF TypeOK
<1>2. external_request_queue' = <<r>> \o ex /\ internal_request_queue' = in
  BY DEF prepend
<1>3. pending' = in \o Append(Backward(ex), r)
  BY <1>1, <1>2, BackwardPrepend DEF pending
<1>4. in \o Append(Backward(ex), r) = Append(in \o Backward(ex), r)
  <2>1. ASSUME NEW b \in Seq(Requests)
        PROVE  in \o Append(b, r) = Append(in \o b, r)
    BY <1>1, <2>1
  <2>. QED  BY <1>1, <2>1, BackwardType
<1>5. <<r>> \o ex \in Seq(Requests)
  BY <1>1
<1>6. pending = in \o Backward(ex)
  BY DEF pending
<1>. HIDE DEF in, ex
<1>. QED  BY <1>1, <1>2, <1>3, <1>4, <1>5, <1>6

LEMMA DequeueStep ==
    ASSUME TypeOK, ~request_queues_are_empty, dequeue
    PROVE  /\ external_request_queue' \in Seq(Requests)
           /\ internal_request_queue' \in Seq(Requests)
           /\ pending # <<>>
           /\ Head(pending) \in Requests
           /\ pending' = Tail(pending)
<1>. DEFINE in == internal_request_queue
            ex == external_request_queue
            b  == Backward(ex)
<1>1. in \in Seq(Requests) /\ ex \in Seq(Requests)
  BY DEF TypeOK
<1>2. b \in Seq(Requests) /\ (b = <<>> <=> ex = <<>>)
  BY <1>1, BackwardType
<1>3. Backward(<<>>) = <<>>
  <2>1. <<>> \in Seq(Requests)
    OBVIOUS
  <2>. QED  BY <2>1, BackwardType
<1>. HIDE DEF b
<1>4. CASE in # <<>>
  <2>1. internal_request_queue' = Tail(in) /\ external_request_queue' = ex
    BY <1>4 DEF dequeue
  <2>2. /\ in \o b # <<>> /\ Head(in \o b) \in Requests
        /\ Tail(in \o b) = Tail(in) \o b
    BY <1>1, <1>2, <1>4
  <2>3. pending' = Tail(in) \o b
    BY <2>1 DEF pending, b
  <2>4. Tail(in) \in Seq(Requests)
    BY <1>1, <1>4
  <2>5. pending = in \o b
    BY DEF pending, b
  <2>. QED  BY <1>1, <2>1, <2>2, <2>3, <2>4, <2>5
<1>5. CASE in = <<>>
  <2>1. internal_request_queue' = Tail(b) /\ external_request_queue' = <<>>
    BY <1>5 DEF dequeue, b
  <2>2. b # <<>>
    BY <1>2, <1>5 DEF request_queues_are_empty
  <2>3. /\ in \o b = b /\ Tail(b) \in Seq(Requests) /\ Head(b) \in Requests
        /\ Tail(b) \o <<>> = Tail(b)
    BY <1>2, <1>5, <2>2
  <2>4. pending' = Tail(b)
    BY <1>3, <2>1, <2>3 DEF pending
  <2>5. pending = in \o b
    BY DEF pending, b
  <2>. QED  BY <2>1, <2>2, <2>3, <2>4, <2>5
<1>. QED  BY <1>4, <1>5

-----------------------------------------------------------------------------
\* The initial states satisfy the inductive invariant.
LEMMA InitIInv == Init => IInv
<1>. SUFFICES ASSUME Init PROVE IInv
  OBVIOUS
<1>1. Live = {} /\ Awake = {}
  BY DEF Init, Live, Awake
<1>2. Cardinality(Servers) \in Nat
  BY TaskHostthreadsAssumption, FS_CardinalityType
<1>3. TypeOK
  BY <1>2, TaskHostthreadsAssumption DEF Init, TypeOK, PCs, Counts, Managers
<1>. QED  BY <1>1, <1>3, FS_EmptySet DEF Init, IInv, CountsAreRight

\* Clients and the waking of sleepers leave the counts alone.
LEMMA ClientStep ==
    ASSUME IInv,
           \/ \E t \in Tasks : do(t) \/ do_broadcasts(t)
           \/ spurious_wakeup
    PROVE  IInv'
<1>. USE DEF IInv, TypeOK, Managers
<1>1. Live' = Live /\ Awake' = Awake
  BY DEF do, do_broadcasts, spurious_wakeup, Live, Awake
<1>2. ASSUME NEW t \in Tasks, do(t) PROVE IInv'
  <2>1. /\ external_request_queue' \in Seq(Requests)
        /\ internal_request_queue' \in Seq(Requests)
    BY <1>2, PrependStep DEF do, Requests
  <2>. QED  BY <1>1, <1>2, <2>1 DEF do, CountsAreRight, lost
<1>3. ASSUME NEW t \in Tasks, do_broadcasts(t) PROVE IInv'
  BY <1>1, <1>3 DEF do_broadcasts, broadcast, CountsAreRight, lost
<1>4. CASE spurious_wakeup
  BY <1>1, <1>4 DEF spurious_wakeup, CountsAreRight, lost
<1>. QED  BY <1>2, <1>3, <1>4

\* A server counts itself in and out together with what it does.
LEMMA ServerStepIInv ==
    ASSUME IInv, NEW s \in Servers, ServerStep(s)
    PROVE  IInv'
<1>. USE DEF IInv
<1>1. CASE server_code(s)
  <2>1. Goto(s, "broadcast") /\ pc[s] = "spawned" /\ "broadcast" \in PCs
    BY <1>1 DEF server_code, PCs
  <2>2. /\ Cardinality(Live') = Cardinality(Live) + 1
        /\ Cardinality(Awake') = Cardinality(Awake) + 1
    BY <2>1, LiveAfterGoto, AwakeAfterGoto
  <2>3. TypeOK'
    BY <1>1 DEF server_code, Goto, TypeOK, lost, PCs
  <2>4. CountsAreRight'
    <3>1. /\ running_servers_count' = running_servers_count + 1
          /\ running_thunks_count' = running_thunks_count + 1
          /\ lost_servers' = lost_servers /\ lost_thunks' = lost_thunks
      BY <1>1 DEF server_code, lost
    <3>2. /\ Cardinality(Live) \in Nat /\ Cardinality(Awake) \in Nat
          /\ lost_servers \in Nat /\ lost_thunks \in Nat
          /\ running_servers_count = Cardinality(Live) + lost_servers
          /\ running_thunks_count = Cardinality(Awake) + lost_thunks
      BY ServerSetsAreFinite DEF CountsAreRight, TypeOK
    <3>. QED  BY <2>2, <3>1, <3>2 DEF CountsAreRight
  <2>. QED  BY <1>1, <2>1, <2>3, <2>4 DEF server_code, Goto, TypeOK, lost
<1>2. CASE server_code_broadcasts(s)
  <2>1. Goto(s, "loop") /\ pc[s] = "broadcast" /\ "loop" \in PCs
    BY <1>2 DEF server_code_broadcasts, PCs
  <2>2. Live' = Live /\ Awake' = Awake
    BY <2>1, LiveAfterGoto, AwakeAfterGoto
  <2>3. TypeOK'
    BY <1>2 DEF server_code_broadcasts, broadcast, Goto, TypeOK, lost, PCs, Managers
  <2>. QED  BY <1>2, <2>1, <2>2, <2>3
              DEF server_code_broadcasts, broadcast, Goto, CountsAreRight, TypeOK, lost
<1>3. CASE get_next_request(s)
  <2>1. CASE request_queues_are_empty
    <3>1. /\ Goto(s, "wait") /\ "wait" \in PCs
          /\ pc[s] \in {"loop", "wait"}
          /\ waiters' = waiters \cup {s}
          /\ running_thunks_count' = thunks_asleep(s)
          /\ UNCHANGED <<external_request_queue, internal_request_queue, doing>>
      BY <1>3, <2>1 DEF get_next_request, PCs
    <3>2. /\ Live' = Live
          /\ pc[s] = "wait" => Awake' = Awake
          /\ pc[s] = "loop" => /\ Cardinality(Awake') = Cardinality(Awake) - 1
                               /\ Cardinality(Awake) # 0
      BY <3>1, LiveAfterGoto, AwakeAfterGoto
    <3>3. /\ running_thunks_count' = Cardinality(Awake') + lost_thunks
          /\ running_thunks_count' \in Nat
      <4>1. /\ Cardinality(Awake) \in Nat /\ lost_thunks \in Nat
            /\ running_thunks_count = Cardinality(Awake) + lost_thunks
        BY ServerSetsAreFinite DEF CountsAreRight, TypeOK
      <4>2. CASE pc[s] = "loop"
        BY <3>1, <3>2, <4>1, <4>2 DEF thunks_asleep
      <4>3. CASE pc[s] = "wait"
        BY <3>1, <3>2, <4>1, <4>3 DEF thunks_asleep
      <4>. QED  BY <3>1, <4>2, <4>3
    <3>4. TypeOK'
      BY <1>3, <3>1, <3>3 DEF get_next_request, Goto, TypeOK, lost
    <3>. QED  BY <1>3, <3>1, <3>2, <3>3, <3>4
                DEF get_next_request, Goto, CountsAreRight, TypeOK, lost
  <2>2. CASE ~request_queues_are_empty
    <3>1. /\ Goto(s, "busy") /\ "busy" \in PCs
          /\ pc[s] \in {"loop", "wait"}
          /\ running_thunks_count' = thunks_asleep(s) + 1
          /\ doing' = [doing EXCEPT ![s] = Head(pending)]
          /\ dequeue /\ UNCHANGED waiters
          /\ pc[s] = "wait" => s \notin waiters
      BY <1>3, <2>2 DEF get_next_request, PCs
    <3>2. /\ Live' = Live
          /\ pc[s] = "loop" => Awake' = Awake
          /\ pc[s] = "wait" => Cardinality(Awake') = Cardinality(Awake) + 1
      BY <3>1, LiveAfterGoto, AwakeAfterGoto
    <3>3. /\ running_thunks_count' = Cardinality(Awake') + lost_thunks
          /\ running_thunks_count' \in Nat
      <4>1. /\ Cardinality(Awake) \in Nat /\ lost_thunks \in Nat
            /\ running_thunks_count = Cardinality(Awake) + lost_thunks
        BY ServerSetsAreFinite DEF CountsAreRight, TypeOK
      <4>2. CASE pc[s] = "loop"
        BY <3>1, <3>2, <4>1, <4>2 DEF thunks_asleep
      <4>3. CASE pc[s] = "wait"
        BY <3>1, <3>2, <4>1, <4>3 DEF thunks_asleep
      <4>. QED  BY <3>1, <4>2, <4>3
    <3>4. /\ external_request_queue' \in Seq(Requests)
          /\ internal_request_queue' \in Seq(Requests)
          /\ Head(pending) \in Requests
      BY <2>2, <3>1, DequeueStep
    <3>5. TypeOK'
      BY <1>3, <3>1, <3>3, <3>4 DEF get_next_request, Goto, TypeOK, lost
    <3>6. Head(pending) # None
      BY <3>4, TaskHostthreadsAssumption DEF Requests
    <3>. QED  BY <1>3, <3>1, <3>2, <3>3, <3>5, <3>6
                DEF get_next_request, Goto, CountsAreRight, TypeOK, lost
  <2>. QED  BY <2>1, <2>2
<1>4. CASE do_task(s)
  <2>1. Goto(s, "loop") /\ pc[s] = "busy" /\ "loop" \in PCs
    BY <1>4 DEF do_task, PCs
  <2>2. Live' = Live /\ Awake' = Awake
    BY <2>1, LiveAfterGoto, AwakeAfterGoto
  <2>3. TypeOK'
    BY <1>4 DEF do_task, Goto, TypeOK, lost, PCs
  <2>. QED  BY <1>4, <2>1, <2>2, <2>3 DEF do_task, Goto, CountsAreRight, TypeOK, lost
<1>5. CASE do_stop(s)
  <2>1. Goto(s, "none") /\ pc[s] = "busy" /\ "none" \in PCs
    BY <1>5 DEF do_stop, PCs
  <2>2. /\ Cardinality(Live') = Cardinality(Live) - 1
        /\ Cardinality(Live) # 0
        /\ Cardinality(Awake') = Cardinality(Awake) - 1
        /\ Cardinality(Awake) # 0
    BY <2>1, LiveAfterGoto, AwakeAfterGoto
  <2>3. /\ running_servers_count' \in Nat /\ running_thunks_count' \in Nat
        /\ running_servers_count' = Cardinality(Live') + lost_servers
        /\ running_thunks_count' = Cardinality(Awake') + lost_thunks
    <3>1. /\ running_servers_count' = running_servers_count - 1
          /\ running_thunks_count' = running_thunks_count - 1
      BY <1>5 DEF do_stop, thunks_after_stop
    <3>2. /\ Cardinality(Live) \in Nat \ {0} /\ Cardinality(Awake) \in Nat \ {0}
          /\ lost_servers \in Nat /\ lost_thunks \in Nat
          /\ running_servers_count = Cardinality(Live) + lost_servers
          /\ running_thunks_count = Cardinality(Awake) + lost_thunks
      BY <2>2, ServerSetsAreFinite DEF CountsAreRight, TypeOK
    <3>. QED  BY <2>2, <3>1, <3>2
  <2>4. manager' \in Managers /\ waiters' = {}
    BY <1>5 DEF do_stop, broadcast, TypeOK, Managers
  <2>5. TypeOK'
    BY <1>5, <2>1, <2>3, <2>4 DEF do_stop, Goto, TypeOK, lost
  <2>6. manager'.pc = manager.pc /\ manager'.left = manager.left
    BY <1>5 DEF do_stop, broadcast, TypeOK, Managers
  <2>. QED  BY <1>5, <2>1, <2>3, <2>4, <2>5, <2>6
              DEF do_stop, Goto, CountsAreRight, TypeOK, lost
<1>. QED  BY <1>1, <1>2, <1>3, <1>4, <1>5 DEF ServerStep

\* What the manager is left with after one order.
LEMMA OneOrdered ==
    ASSUME IInv, NEW loop \in {"start", "stop"},
           manager.pc \in {"start", "stop", "stop_broadcast"}
    PROVE  /\ one_ordered(loop) \in Managers
           /\ one_ordered(loop).pc = loop => one_ordered(loop).left > 0
           /\ one_ordered(loop).pc \in {loop, "wait"}
<1>1. manager \in Managers /\ manager.left \in Nat /\ manager.left > 0
  BY DEF IInv, TypeOK, Managers
<1>2. ASSUME NEW k \in Nat, NEW l \in {"start", "stop", "wait"},
             one_ordered(loop) = [manager EXCEPT !.left = k, !.pc = l]
      PROVE  /\ one_ordered(loop) \in Managers
             /\ one_ordered(loop).pc = l /\ one_ordered(loop).left = k
  BY <1>1, <1>2 DEF Managers
<1>3. CASE manager.left = 1
  <2>1. one_ordered(loop) = [manager EXCEPT !.left = 0, !.pc = "wait"]
    BY <1>3 DEF one_ordered
  <2>2. loop # "wait"
    OBVIOUS
  <2>. QED  BY <1>2, <2>1, <2>2
<1>4. CASE manager.left # 1
  <2>1. one_ordered(loop) = [manager EXCEPT !.left = manager.left - 1, !.pc = loop]
    BY <1>4 DEF one_ordered
  <2>2. manager.left - 1 \in Nat /\ manager.left - 1 > 0
    BY <1>1, <1>4
  <2>. QED  BY <1>2, <2>1, <2>2
<1>. QED  BY <1>3, <1>4

\* Ordering births and deaths, and waiting for them, preserves the invariant.
LEMMA ManagerStepIInv ==
    ASSUME IInv,
           \/ \E n \in Counts : change_number_of_server_hostthreads_to(n)
           \/ ManagerStep
    PROVE  IInv'
<1>. USE DEF IInv
<1>0. Cardinality(Servers) \in Nat
  BY TaskHostthreadsAssumption, FS_CardinalityType
<1>1. ASSUME NEW n \in Counts, change_number_of_server_hostthreads_to(n)
      PROVE  IInv'
  <2>1. Live' = Live /\ Awake' = Awake
    BY <1>1 DEF change_number_of_server_hostthreads_to, Live, Awake
  <2>2. running_servers_count' = running_servers_count
    BY <1>1 DEF change_number_of_server_hostthreads_to,
                count_of_live_hostthreads
  <2>3. n \in Nat
    BY <1>0 DEF Counts
  <2>4. /\ manager' \in Managers
        /\ manager'.pc # manager.pc => manager'.left > 0
    <3>1. pid' = actual_pid /\ manager \in Managers
      BY <1>1 DEF change_number_of_server_hostthreads_to, TypeOK
    <3>2. PICK k \in Nat : k = running_servers_count
      BY DEF TypeOK
    <3>3. count_of_live_hostthreads(pid') = k
      BY <3>1, <3>2 DEF count_of_live_hostthreads
    <3>4. \/ UNCHANGED manager
          \/ /\ k < n
             /\ manager' = [pc |-> "start", desired |-> n, left |-> n - k,
                            asleep |-> FALSE]
          \/ /\ k > n
             /\ manager' = [pc |-> "stop", desired |-> n, left |-> k - n,
                            asleep |-> FALSE]
      BY <1>1, <3>3 DEF change_number_of_server_hostthreads_to
    <3>5. CASE UNCHANGED manager
      BY <3>1, <3>5
    <3>6. CASE k < n /\ manager' = [pc |-> "start", desired |-> n,
                                    left |-> n - k, asleep |-> FALSE]
      BY <2>3, <3>6 DEF Managers
    <3>7. CASE k > n /\ manager' = [pc |-> "stop", desired |-> n,
                                    left |-> k - n, asleep |-> FALSE]
      BY <2>3, <3>7 DEF Managers
    <3>. QED  BY <3>4, <3>5, <3>6, <3>7
  <2>5. TypeOK'
    BY <1>1, <2>2, <2>4 DEF change_number_of_server_hostthreads_to, TypeOK, lost
  <2>. QED  BY <1>1, <2>1, <2>2, <2>4, <2>5
              DEF change_number_of_server_hostthreads_to, CountsAreRight, lost
<1>2. ASSUME NEW s \in Servers, start_one_server_hostthread(s) PROVE IInv'
  <2>1. Goto(s, "spawned") /\ pc[s] = "none" /\ "spawned" \in PCs
    BY <1>2 DEF start_one_server_hostthread, PCs
  <2>2. Live' = Live /\ Awake' = Awake
    BY <2>1, LiveAfterGoto, AwakeAfterGoto
  <2>3. /\ manager' \in Managers
        /\ manager'.pc = "start" => manager'.left > 0
        /\ manager'.pc \in {"start", "wait"}
    BY <1>2, OneOrdered DEF start_one_server_hostthread
  <2>4. TypeOK'
    BY <1>2, <2>1, <2>3 DEF start_one_server_hostthread, Goto, TypeOK, lost
  <2>. QED  BY <1>2, <2>1, <2>2, <2>3, <2>4
              DEF start_one_server_hostthread, Goto, CountsAreRight, TypeOK, lost
<1>3. CASE stop_one_server_hostthread
  <2>1. Live' = Live /\ Awake' = Awake
    BY <1>3 DEF stop_one_server_hostthread, Live, Awake
  <2>2. /\ external_request_queue' \in Seq(Requests)
        /\ internal_request_queue' \in Seq(Requests)
    BY <1>3, PrependStep DEF stop_one_server_hostthread, Requests
  <2>. QED  BY <1>3, <2>1, <2>2
              DEF stop_one_server_hostthread, CountsAreRight, TypeOK, lost,
                  Managers
<1>4. CASE stop_one_broadcasts
  <2>1. Live' = Live /\ Awake' = Awake
    BY <1>4 DEF stop_one_broadcasts, Live, Awake
  <2>2. PICK m \in Managers : /\ m = one_ordered("stop")
                              /\ m.pc = "stop" => m.left > 0
                              /\ m.pc \in {"stop", "wait"}
    BY <1>4, OneOrdered DEF stop_one_broadcasts
  <2>3. /\ waiters' = {}
        /\ manager' = [m EXCEPT !.asleep = FALSE]
    BY <1>4, <2>2 DEF stop_one_broadcasts, broadcast
  <2>4. /\ manager' \in Managers
        /\ manager'.pc = m.pc /\ manager'.left = m.left
    BY <2>3 DEF Managers
  <2>. QED  BY <1>4, <2>1, <2>2, <2>3, <2>4
              DEF stop_one_broadcasts, CountsAreRight, TypeOK, lost
<1>5. CASE await_desired_count
  <2>1. Live' = Live /\ Awake' = Awake
    BY <1>5 DEF await_desired_count, Live, Awake
  <2>. QED  BY <1>5, <2>1 DEF await_desired_count, CountsAreRight, TypeOK, lost,
                              Managers
<1>. QED  BY <1>1, <1>2, <1>3, <1>4, <1>5 DEF ManagerStep

\* The first call of get_count_of_live_hostthreads in a new process finds no
\* server of this process, and drops those of the last one.
LEMMA GetCountStep ==
    ASSUME IInv, get_count_of_live_hostthreads
    PROVE  IInv'
<1>1. /\ pid # actual_pid /\ pid' = actual_pid /\ actual_pid' = actual_pid
      /\ running_servers_count' = 0 /\ lost_servers' = 0
      /\ UNCHANGED <<external_request_queue, internal_request_queue,
                     running_thunks_count, waiters, pc, doing, client, manager,
                     lost_thunks>>
  BY DEF get_count_of_live_hostthreads, count_of_live_hostthreads
<1>2. Live' = {} /\ Awake' = Awake
  BY <1>1 DEF IInv, Live, Awake
<1>3. TypeOK'
  BY <1>1 DEF IInv, TypeOK
<1>. QED
  BY <1>1, <1>2, <1>3, FS_EmptySet DEF IInv, CountsAreRight

\* An image keeps the counts of the servers it leaves behind.
LEMMA ResumeStep ==
    ASSUME IInv, resume_from_disk
    PROVE  IInv'
<1>1. Live' = {} /\ Awake' = {}
  BY DEF resume_from_disk, Live, Awake
<1>2. Cardinality(Live') = 0 /\ Cardinality(Awake') = 0
  BY <1>1, FS_EmptySet
<1>3. /\ lost_servers' = lost_servers + Cardinality(Live) /\ lost_servers' \in Nat
      /\ lost_thunks' = lost_thunks + Cardinality(Awake) /\ lost_thunks' \in Nat
  BY ServerSetsAreFinite DEF resume_from_disk, IInv, TypeOK
<1>4. TypeOK'
  BY <1>3, TaskHostthreadsAssumption DEF resume_from_disk, IInv, TypeOK, PCs
<1>5. CountsAreRight'
  BY <1>2, <1>3, ServerSetsAreFinite
     DEF resume_from_disk, IInv, CountsAreRight, TypeOK
<1>. QED
  BY <1>4, <1>5 DEF resume_from_disk, IInv, TypeOK

\* Every step preserves the inductive invariant.
LEMMA NextIInv == IInv /\ [Next]_vars => IInv'
<1>1. IInv /\ Next => IInv'
  BY ClientStep, ServerStepIInv, ManagerStepIInv, GetCountStep, ResumeStep
     DEF Next, fork_to_disk, spawn_to_disk
<1>2. IInv /\ UNCHANGED vars => IInv'
  BY DEF vars, lost, IInv, TypeOK, CountsAreRight, Live, Awake
<1>. QED  BY <1>1, <1>2

\* The inductive invariant holds in every reachable state.
LEMMA Invariance == Spec => []IInv
BY InitIInv, NextIInv, PTL DEF Spec

-----------------------------------------------------------------------------
\* Every reachable state is well typed: in particular the two counts, which
\* the servers decrement without testing them, never go below zero.
THEOREM TypeCorrect == Spec => []TypeOK
<1>1. IInv => TypeOK
  BY DEF IInv
<1>. QED  BY <1>1, Invariance, PTL

\* Both counts, as the shutdown test and change_number_of_... use them, are
\* off by what heap images left behind and by nothing else, for any number of
\* servers and any interleaving of births, sleeps, stops and saved images.
THEOREM CountsRight == Spec => []CountsAreRight
<1>1. IInv => CountsAreRight
  BY DEF IInv
<1>. QED  BY <1>1, Invariance, PTL

\* is_doing_useful_work misses no queued or running request.
THEOREM UsefulWorkSeen == Spec => []UsefulWorkIsSeen
<1>1. IInv => UsefulWorkIsSeen
  <2>. SUFFICES ASSUME IInv, ~is_doing_useful_work
                PROVE  pending = <<>> /\ \A s \in Servers : doing[s] = None
    BY DEF UsefulWorkIsSeen
  <2>1. internal_request_queue = <<>> /\ external_request_queue = <<>>
    BY DEF is_doing_useful_work
  <2>2. Backward(<<>>) = <<>>
    <3>1. <<>> \in Seq(Requests)
      OBVIOUS
    <3>. QED  BY <3>1, BackwardType
  <2>3. pending = <<>>
    BY <2>1, <2>2 DEF pending
  <2>4. Cardinality(Awake) = 0
    BY ServerSetsAreFinite
       DEF is_doing_useful_work, IInv, CountsAreRight, TypeOK
  <2>5. Awake = {}
    BY <2>4, ServerSetsAreFinite, FS_EmptySet
  <2>. QED  BY <2>3, <2>5 DEF IInv, Awake
<1>. QED  BY <1>1, Invariance, PTL

\* The pool refines the first-in-first-out queue with one taker per request,
\* through every refill of the internal queue from the external one.
THEOREM Refinement == Spec => ServesInOrder
<1>1. Init => RQ!Init
  <2>1. <<>> \in Seq(Requests)
    OBVIOUS
  <2>2. Backward(<<>>) = <<>>
    BY <2>1, BackwardType
  <2>. QED  BY <2>2 DEF Init, RQ!Init, pending
<1>2. IInv /\ [Next]_vars => [RQ!Next]_<<pending, doing>>
  <2>. SUFFICES ASSUME IInv, [Next]_vars
                PROVE  RQ!Next \/ UNCHANGED <<pending, doing>>
    OBVIOUS
  <2>. USE DEF IInv
  <2>1. ASSUME UNCHANGED <<external_request_queue, internal_request_queue>>
        PROVE  UNCHANGED pending
    BY <2>1 DEF pending, Backward
  <2>2. ASSUME NEW t \in Tasks, do(t) PROVE RQ!Next
    <3>1. t \in Requests /\ pending' = Append(pending, t) /\ UNCHANGED doing
      BY <2>2, PrependStep DEF do, Requests
    <3>. QED  BY <3>1 DEF RQ!Next, RQ!Submit
  <2>3. CASE stop_one_server_hostthread
    <3>1. /\ DO_STOP \in Requests /\ UNCHANGED doing
          /\ pending' = Append(pending, DO_STOP)
      BY <2>3, PrependStep DEF stop_one_server_hostthread, Requests
    <3>. QED  BY <3>1 DEF RQ!Next, RQ!Submit
  <2>4. ASSUME NEW s \in Servers, get_next_request(s)
        PROVE  RQ!Next \/ UNCHANGED <<pending, doing>>
    <3>1. CASE request_queues_are_empty
      BY <2>1, <2>4, <3>1 DEF get_next_request
    <3>2. CASE ~request_queues_are_empty
      <4>1. /\ pending # <<>> /\ pending' = Tail(pending)
            /\ doing' = [doing EXCEPT ![s] = Head(pending)]
        BY <2>4, <3>2, DequeueStep DEF get_next_request
      <4>2. doing[s] = None
        BY <2>4 DEF get_next_request
      <4>. QED  BY <4>1, <4>2 DEF RQ!Next, RQ!Take
    <3>. QED  BY <3>1, <3>2
  <2>5. ASSUME NEW s \in Servers, do_task(s) \/ do_stop(s) PROVE RQ!Next
    <3>1. /\ doing[s] # None
          /\ doing' = [doing EXCEPT ![s] = None]
          /\ UNCHANGED <<external_request_queue, internal_request_queue>>
      BY <2>5 DEF do_task, do_stop
    <3>. QED  BY <2>1, <3>1 DEF RQ!Next, RQ!Complete
  <2>6. CASE resume_from_disk
    <3>1. /\ doing' = [s \in Servers |-> None]
          /\ UNCHANGED <<external_request_queue, internal_request_queue>>
      BY <2>6 DEF resume_from_disk
    <3>. QED  BY <2>1, <3>1 DEF RQ!Next, RQ!Restart
  <2>7. ASSUME NEW s \in Servers,
               server_code(s) \/ server_code_broadcasts(s)
        PROVE  UNCHANGED <<pending, doing>>
    BY <2>1, <2>7 DEF server_code, server_code_broadcasts
  <2>8. ASSUME NEW n \in Counts, change_number_of_server_hostthreads_to(n)
        PROVE  UNCHANGED <<pending, doing>>
    BY <2>1, <2>8 DEF change_number_of_server_hostthreads_to
  <2>9. CASE \/ \E s \in Servers : start_one_server_hostthread(s)
             \/ stop_one_broadcasts \/ await_desired_count
             \/ spurious_wakeup \/ get_count_of_live_hostthreads
             \/ \E t \in Tasks : do_broadcasts(t)
    BY <2>1, <2>9 DEF get_count_of_live_hostthreads, start_one_server_hostthread,
                      stop_one_broadcasts, await_desired_count, spurious_wakeup, do_broadcasts
  <2>10. CASE UNCHANGED vars
    BY <2>1, <2>10 DEF vars
  <2>. QED  BY <2>2, <2>3, <2>4, <2>5, <2>6, <2>7, <2>8, <2>9, <2>10
              DEF Next, ServerStep, ManagerStep, fork_to_disk, spawn_to_disk
<1>. QED  BY <1>1, <1>2, Invariance, PTL DEF Spec, ServesInOrder, RQ!Spec

-----------------------------------------------------------------------------
(* Orders *)

Spawned == {s \in Servers : pc[s] = "spawned"}
Stopping == {s \in Servers : doing[s] = DO_STOP}
StopsIn(q) == {i \in 1 .. Len(q) : q[i] = DO_STOP}

\* The strengthening of OrdersLeadToDesired: a manager that starts servers has
\* no stop request under way, and one that stops servers no server at birth.
\* r is running_servers_count, a and b are the numbers of births and deaths
\* under way.
Balance(m, r, a, b) ==
    \/ m.pc = "idle" /\ a = 0 /\ b = 0
    \/ m.pc \in {"start", "wait"} /\ b = 0 /\ r + a + m.left = m.desired
    \/ m.pc \in {"stop", "wait"} /\ a = 0 /\ r - b - m.left = m.desired
    \/ m.pc = "stop_broadcast" /\ a = 0 /\ r - b - (m.left - 1) = m.desired

OrdersOK == Balance(manager, running_servers_count, Cardinality(Spawned), Stops)

\* The requests nobody has taken form a sequence.
LEMMA PendingType == TypeOK => pending \in Seq(Requests)
<1>. SUFFICES ASSUME TypeOK PROVE pending \in Seq(Requests)
  OBVIOUS
<1>1. /\ internal_request_queue \in Seq(Requests)
      /\ Backward(external_request_queue) \in Seq(Requests)
  BY BackwardType DEF TypeOK
<1>. QED
  BY <1>1 DEF pending

\* A request at the end of a queue adds to its stop requests or not.
LEMMA StopsAfterAppend ==
    ASSUME NEW q \in Seq(Requests), NEW r \in Requests
    PROVE  /\ IsFiniteSet(StopsIn(q)) /\ Cardinality(StopsIn(q)) \in Nat
           /\ Cardinality(StopsIn(Append(q, r)))
                = Cardinality(StopsIn(q)) + IF r = DO_STOP THEN 1 ELSE 0
<1>1. IsFiniteSet(StopsIn(q))
  <2>1. IsFiniteSet(1 .. Len(q))
    BY FS_Interval
  <2>. QED
    BY <2>1, FS_Subset DEF StopsIn
<1>2. Cardinality(StopsIn(q)) \in Nat
  BY <1>1, FS_CardinalityType
<1>3. /\ Len(Append(q, r)) = Len(q) + 1 /\ Len(q) \in Nat
      /\ \A i \in 1 .. Len(q) + 1 : Append(q, r)[i] = IF i = Len(q) + 1 THEN r ELSE q[i]
  OBVIOUS
<1>4. r # DO_STOP => StopsIn(Append(q, r)) = StopsIn(q)
  BY <1>3 DEF StopsIn
<1>5. r = DO_STOP => /\ StopsIn(Append(q, r)) = StopsIn(q) \cup {Len(q) + 1}
                     /\ Len(q) + 1 \notin StopsIn(q)
  BY <1>3 DEF StopsIn
<1>6. CASE r = DO_STOP
  BY <1>1, <1>2, <1>5, <1>6, FS_AddElement
<1>7. CASE r # DO_STOP
  BY <1>1, <1>2, <1>4, <1>7
<1>. QED
  BY <1>6, <1>7

\* A request that leaves a queue takes a stop request with it or not.
LEMMA StopsAfterTail ==
    ASSUME NEW q \in Seq(Requests), q # <<>>
    PROVE  Cardinality(StopsIn(q))
             = Cardinality(StopsIn(Tail(q))) + IF Head(q) = DO_STOP THEN 1 ELSE 0
<1>. DEFINE S == StopsIn(Tail(q))
            T == StopsIn(q) \ {1}
            f == [i \in S |-> i + 1]
<1>1. /\ Len(q) \in Nat \ {0} /\ Len(Tail(q)) = Len(q) - 1 /\ Head(q) = q[1]
      /\ \A i \in 1 .. Len(q) - 1 : Tail(q)[i] = q[i + 1]
      /\ Tail(q) \in Seq(Requests)
  OBVIOUS
<1>2. IsFiniteSet(S) /\ IsFiniteSet(StopsIn(q)) /\ DO_STOP \in Requests
  BY <1>1, StopsAfterAppend DEF Requests
<1>3. Cardinality(S) \in Nat /\ Cardinality(StopsIn(q)) \in Nat
  BY <1>2, FS_CardinalityType
<1>4. \A i \in S : i \in Nat /\ i + 1 \in T
  BY <1>1 DEF StopsIn
<1>5. \A j \in T : j - 1 \in S /\ j \in Nat
  BY <1>1 DEF StopsIn
<1>6. ExistsBijection(S, T)
  <2>1. f \in [S -> T] /\ (\A i, j \in S : f[i] = f[j] => i = j)
    BY <1>4
  <2>2. \A j \in T : \E i \in S : f[i] = j
    BY <1>5
  <2>3. f \in Bijection(S, T)
    BY <2>1, <2>2, Fun_IsBij
  <2>. QED
    BY <2>3, Fun_ExistsBij
<1>7. Cardinality(T) = Cardinality(S)
  BY <1>2, <1>6, FS_Bijection
<1>8. 1 \in StopsIn(q) <=> Head(q) = DO_STOP
  BY <1>1 DEF StopsIn
<1>9. Cardinality(T) = IF 1 \in StopsIn(q) THEN Cardinality(StopsIn(q)) - 1
                                           ELSE Cardinality(StopsIn(q))
  BY <1>2, FS_RemoveElement
<1>. HIDE DEF S, T
<1>. QED
  BY <1>3, <1>7, <1>8, <1>9 DEF S

NumbersOK ==
    /\ IsFiniteSet(Spawned) /\ Cardinality(Spawned) \in Nat
    /\ IsFiniteSet(Stopping) /\ Cardinality(Stopping) \in Nat
    /\ Cardinality(StopsIn(pending)) \in Nat
    /\ Stops = Cardinality(StopsIn(pending)) + Cardinality(Stopping)
    /\ Stops \in Nat

\* The numbers of births and deaths under way are numbers.
LEMMA OrdersAreNumbers == TypeOK => NumbersOK
<1>. SUFFICES ASSUME TypeOK PROVE NumbersOK
  OBVIOUS
<1>1. IsFiniteSet(Spawned) /\ IsFiniteSet(Stopping)
  BY TaskHostthreadsAssumption, FS_Subset DEF Spawned, Stopping
<1>2. Cardinality(Spawned) \in Nat /\ Cardinality(Stopping) \in Nat
  BY <1>1, FS_CardinalityType
<1>3. pending \in Seq(Requests) /\ DO_STOP \in Requests
  BY PendingType DEF Requests
<1>4. Cardinality(StopsIn(pending)) \in Nat
  BY <1>3, StopsAfterAppend
<1>5. DOMAIN pending = 1 .. Len(pending)
  BY <1>3
<1>6. Stops = Cardinality(StopsIn(pending)) + Cardinality(Stopping)
  BY <1>5 DEF Stops, StopsIn, Stopping
<1>. QED
  BY <1>1, <1>2, <1>4, <1>6 DEF NumbersOK

\* What one server's move does to the births under way.
LEMMA SpawnedAfterGoto ==
    ASSUME TypeOK, NEW s \in Servers, NEW l \in PCs, Goto(s, l)
    PROVE  /\ l = "spawned" /\ pc[s] # "spawned" =>
                Cardinality(Spawned') = Cardinality(Spawned) + 1
           /\ l # "spawned" /\ pc[s] = "spawned" =>
                /\ Cardinality(Spawned') = Cardinality(Spawned) - 1
                /\ Cardinality(Spawned) # 0
           /\ (l = "spawned" <=> pc[s] = "spawned") => Spawned' = Spawned
<1>0. pc' = [pc EXCEPT ![s] = l] /\ pc \in [Servers -> PCs]
  BY DEF Goto, TypeOK
<1>1. ASSUME l = "spawned", pc[s] # "spawned"
      PROVE  Cardinality(Spawned') = Cardinality(Spawned) + 1
  <2>1. Spawned' = Spawned \cup {s} /\ s \notin Spawned
    BY <1>0, <1>1 DEF Spawned
  <2>. QED
    BY <2>1, OrdersAreNumbers, FS_AddElement DEF NumbersOK
<1>2. ASSUME l # "spawned", pc[s] = "spawned"
      PROVE  /\ Cardinality(Spawned') = Cardinality(Spawned) - 1
             /\ Cardinality(Spawned) # 0
  <2>1. Spawned' = Spawned \ {s} /\ s \in Spawned
    BY <1>0, <1>2 DEF Spawned
  <2>2. Cardinality(Spawned) # 0
    BY <2>1, OrdersAreNumbers, FS_EmptySet DEF NumbersOK
  <2>. QED
    BY <2>1, <2>2, OrdersAreNumbers, FS_RemoveElement DEF NumbersOK
<1>3. ASSUME l = "spawned" <=> pc[s] = "spawned" PROVE Spawned' = Spawned
  BY <1>0, <1>3 DEF Spawned
<1>. QED
  BY <1>1, <1>2, <1>3

\* What one server's taking or finishing a request does to the deaths.
LEMMA StoppingAfterStep ==
    ASSUME TypeOK, NEW s \in Servers, NEW d, doing' = [doing EXCEPT ![s] = d]
    PROVE  /\ d = DO_STOP /\ doing[s] # DO_STOP =>
                Cardinality(Stopping') = Cardinality(Stopping) + 1
           /\ d # DO_STOP /\ doing[s] = DO_STOP =>
                /\ Cardinality(Stopping') = Cardinality(Stopping) - 1
                /\ Cardinality(Stopping) # 0
           /\ (d = DO_STOP <=> doing[s] = DO_STOP) => Stopping' = Stopping
<1>0. DOMAIN doing = Servers
  BY DEF TypeOK
<1>1. ASSUME d = DO_STOP, doing[s] # DO_STOP
      PROVE  Cardinality(Stopping') = Cardinality(Stopping) + 1
  <2>1. Stopping' = Stopping \cup {s} /\ s \notin Stopping
    BY <1>0, <1>1 DEF Stopping, TypeOK
  <2>. QED
    BY <2>1, OrdersAreNumbers, FS_AddElement DEF NumbersOK
<1>2. ASSUME d # DO_STOP, doing[s] = DO_STOP
      PROVE  /\ Cardinality(Stopping') = Cardinality(Stopping) - 1
             /\ Cardinality(Stopping) # 0
  <2>1. Stopping' = Stopping \ {s} /\ s \in Stopping
    BY <1>0, <1>2 DEF Stopping, TypeOK
  <2>2. Cardinality(Stopping) # 0
    BY <2>1, OrdersAreNumbers, FS_EmptySet DEF NumbersOK
  <2>. QED
    BY <2>1, <2>2, OrdersAreNumbers, FS_RemoveElement DEF NumbersOK
<1>3. ASSUME d = DO_STOP <=> doing[s] = DO_STOP PROVE Stopping' = Stopping
  BY <1>0, <1>3 DEF Stopping, TypeOK
<1>. QED
  BY <1>1, <1>2, <1>3

\* A broadcast does not touch the orders.
LEMMA BroadcastKeepsOrders ==
    ASSUME NEW m \in Managers, broadcast(m)
    PROVE  /\ manager'.pc = m.pc /\ manager'.left = m.left
           /\ manager'.desired = m.desired
  BY DEF broadcast, Managers

\* What is left of the orders after one of them.
LEMMA OrdersLeft ==
    ASSUME IInv, NEW loop \in {"start", "stop"}
    PROVE  /\ one_ordered(loop).left = manager.left - 1
           /\ one_ordered(loop).pc = IF manager.left = 1 THEN "wait" ELSE loop
           /\ one_ordered(loop).desired = manager.desired
  BY DEF IInv, TypeOK, Managers, one_ordered

\* When neither queues nor servers change, nor do the births and deaths.
LEMMA NothingOrdered ==
    ASSUME UNCHANGED <<external_request_queue, internal_request_queue, doing>>
    PROVE  Stops' = Stops
  BY DEF Stops, pending, Backward

\* Every step keeps the balance of births and deaths.
LEMMA OrdersStep ==
    ASSUME IInv, IInv', OrdersOK, [Next]_vars
    PROVE  OrdersOK'
<1>. DEFINE a == Cardinality(Spawned)
            r == running_servers_count
<1>1. TypeOK /\ TypeOK' /\ manager \in Managers /\ manager' \in Managers
  BY DEF IInv, TypeOK
<1>0. NumbersOK /\ NumbersOK'
  BY <1>1, OrdersAreNumbers, PTL
<1>2. /\ a \in Nat /\ a' \in Nat /\ Stops \in Nat /\ Stops' \in Nat
      /\ r \in Nat /\ r' \in Nat
      /\ manager.left \in Nat /\ manager.desired \in Nat
      /\ manager'.left \in Nat /\ manager'.desired \in Nat
  <2>1. a \in Nat /\ Stops \in Nat
    BY <1>0 DEF NumbersOK
  <2>2. a' \in Nat /\ Stops' \in Nat
    BY <1>0 DEF NumbersOK
  <2>3. Cardinality(Servers) \in Nat
    BY TaskHostthreadsAssumption, FS_CardinalityType
  <2>. QED
    BY <1>1, <2>1, <2>2, <2>3 DEF Managers, Counts, TypeOK
<1>3. Balance(manager, r, a, Stops)
  BY DEF OrdersOK
<1>4. ASSUME Balance(manager', r', a', Stops') PROVE OrdersOK'
  BY <1>4 DEF OrdersOK, Balance
<1>. HIDE DEF a, r
<1>5. ASSUME manager'.pc = manager.pc, manager'.left = manager.left,
             manager'.desired = manager.desired, r' = r, a' = a, Stops' = Stops
      PROVE  OrdersOK'
  BY <1>3, <1>4, <1>5 DEF Balance
<1>6. ASSUME UNCHANGED pc PROVE a' = a
  BY <1>6 DEF a, Spawned
<1>7. ASSUME UNCHANGED doing PROVE Cardinality(Stopping') = Cardinality(Stopping)
  BY <1>7 DEF Stopping
<1>8. /\ Stops = Cardinality(StopsIn(pending)) + Cardinality(Stopping)
      /\ Cardinality(StopsIn(pending)) \in Nat /\ Cardinality(Stopping) \in Nat
      /\ pending \in Seq(Requests)
  BY <1>0, <1>1, PendingType DEF NumbersOK
<1>9. /\ Stops' = Cardinality(StopsIn(pending)') + Cardinality(Stopping')
      /\ Cardinality(StopsIn(pending)') \in Nat /\ Cardinality(Stopping') \in Nat
  BY <1>0 DEF NumbersOK
<1>10. StopsIn(pending)' = StopsIn(pending')
  BY DEF StopsIn
<1>11. ASSUME NEW t \in Tasks, do(t) PROVE OrdersOK'
  <2>1. pending' = Append(pending, t) /\ t \in Requests /\ t # DO_STOP
    BY <1>1, <1>11, PrependStep, TaskHostthreadsAssumption DEF do, Requests
  <2>2. Stops' = Stops
    BY <1>7, <1>8, <1>9, <1>10, <1>11, <2>1, StopsAfterAppend DEF do
  <2>. QED
    BY <1>5, <1>6, <1>11, <2>2 DEF do, r
<1>12. ASSUME NEW t \in Tasks, do_broadcasts(t) PROVE OrdersOK'
  BY <1>1, <1>5, <1>6, <1>12, NothingOrdered, BroadcastKeepsOrders
     DEF do_broadcasts, r
<1>13. ASSUME NEW s \in Servers, server_code(s) PROVE OrdersOK'
  <2>1. Goto(s, "broadcast") /\ pc[s] = "spawned" /\ "broadcast" \in PCs
    BY <1>13 DEF server_code, PCs
  <2>2. a' = a - 1 /\ a # 0
    BY <1>1, <2>1, SpawnedAfterGoto DEF a
  <2>3. r' = r + 1 /\ manager' = manager /\ Stops' = Stops
    BY <1>13, NothingOrdered DEF server_code, r
  <2>. QED
    BY <1>2, <1>3, <1>4, <2>2, <2>3 DEF Balance
<1>14. ASSUME NEW s \in Servers, server_code_broadcasts(s) PROVE OrdersOK'
  <2>1. Goto(s, "loop") /\ pc[s] = "broadcast" /\ "loop" \in PCs
    BY <1>14 DEF server_code_broadcasts, PCs
  <2>2. a' = a
    BY <1>1, <2>1, SpawnedAfterGoto DEF a
  <2>. QED
    BY <1>1, <1>5, <1>14, <2>2, NothingOrdered, BroadcastKeepsOrders
       DEF server_code_broadcasts, r
<1>15. ASSUME NEW s \in Servers, get_next_request(s) PROVE OrdersOK'
  <2>1. /\ \E l \in {"wait", "busy"} : Goto(s, l)
        /\ pc[s] \in {"loop", "wait"} /\ {"wait", "busy"} \subseteq PCs
        /\ r' = r /\ manager' = manager
    BY <1>15 DEF get_next_request, PCs, r
  <2>2. a' = a
    BY <1>1, <2>1, SpawnedAfterGoto DEF a
  <2>3. CASE request_queues_are_empty
    <3>1. Stops' = Stops
      BY <1>15, <2>3, NothingOrdered DEF get_next_request
    <3>. QED
      BY <1>5, <2>1, <2>2, <3>1
  <2>4. CASE ~request_queues_are_empty
    <3>1. /\ pending # <<>> /\ pending' = Tail(pending)
          /\ doing' = [doing EXCEPT ![s] = Head(pending)]
      BY <1>1, <1>15, <2>4, DequeueStep DEF get_next_request
    <3>2. doing[s] # DO_STOP
      BY <2>1, TaskHostthreadsAssumption DEF IInv
    <3>3. Cardinality(Stopping')
            = Cardinality(Stopping) + IF Head(pending) = DO_STOP THEN 1 ELSE 0
      <4>1. CASE Head(pending) = DO_STOP
        BY <1>1, <3>1, <3>2, <4>1, StoppingAfterStep
      <4>2. CASE Head(pending) # DO_STOP
        <5>1. Stopping' = Stopping
          BY <1>1, <3>1, <3>2, <4>2, StoppingAfterStep
        <5>. QED
          BY <1>8, <4>2, <5>1
      <4>. QED
        BY <4>1, <4>2
    <3>4. Cardinality(StopsIn(pending))
            = Cardinality(StopsIn(pending')) + IF Head(pending) = DO_STOP THEN 1 ELSE 0
      BY <1>8, <3>1, StopsAfterTail
    <3>5. Stops' = Stops
      BY <1>8, <1>9, <1>10, <3>3, <3>4
    <3>. QED
      BY <1>5, <2>1, <2>2, <3>5
  <2>. QED
    BY <2>3, <2>4
<1>16. ASSUME NEW s \in Servers, do_task(s) PROVE OrdersOK'
  <2>1. /\ Goto(s, "loop") /\ pc[s] = "busy" /\ "loop" \in PCs /\ doing[s] # DO_STOP
        /\ r' = r /\ manager' = manager /\ doing' = [doing EXCEPT ![s] = None]
        /\ UNCHANGED <<external_request_queue, internal_request_queue>>
        /\ None # DO_STOP
    BY <1>16, TaskHostthreadsAssumption DEF do_task, PCs, r
  <2>2. a' = a
    BY <1>1, <2>1, SpawnedAfterGoto DEF a
  <2>3. Stopping' = Stopping /\ pending' = pending
    BY <1>1, <2>1, StoppingAfterStep DEF pending, Backward
  <2>4. Stops' = Stops
    BY <1>8, <1>9, <1>10, <2>3
  <2>. QED
    BY <1>5, <2>1, <2>2, <2>4
<1>17. ASSUME NEW s \in Servers, do_stop(s) PROVE OrdersOK'
  <2>1. /\ Goto(s, "none") /\ pc[s] = "busy" /\ "none" \in PCs /\ doing[s] = DO_STOP
        /\ r' = r - 1 /\ broadcast(manager) /\ doing' = [doing EXCEPT ![s] = None]
        /\ UNCHANGED <<external_request_queue, internal_request_queue>>
        /\ None # DO_STOP
    BY <1>17, TaskHostthreadsAssumption DEF do_stop, PCs, r
  <2>2. a' = a
    BY <1>1, <2>1, SpawnedAfterGoto DEF a
  <2>3. /\ Cardinality(Stopping') = Cardinality(Stopping) - 1
        /\ Cardinality(Stopping) # 0 /\ pending' = pending
    BY <1>1, <2>1, StoppingAfterStep DEF pending, Backward
  <2>4. Stops' = Stops - 1 /\ Stops # 0
    BY <1>8, <1>9, <1>10, <2>3
  <2>5. /\ manager'.pc = manager.pc /\ manager'.left = manager.left
        /\ manager'.desired = manager.desired
    BY <1>1, <2>1, BroadcastKeepsOrders
  <2>. QED
    BY <1>2, <1>3, <1>4, <2>1, <2>2, <2>4, <2>5 DEF Balance
<1>18. ASSUME NEW n \in Counts, change_number_of_server_hostthreads_to(n)
       PROVE  OrdersOK'
  <2>1. /\ manager.pc = "idle" /\ count_of_live_hostthreads(pid') = r /\ r' = r
        /\ a' = a /\ Stops' = Stops
    BY <1>6, <1>18, NothingOrdered
       DEF change_number_of_server_hostthreads_to, count_of_live_hostthreads, r
  <2>2. a = 0 /\ Stops = 0
    BY <1>3, <2>1 DEF Balance
  <2>3. \/ manager' = manager
        \/ /\ manager' = [pc |-> "start", desired |-> n, left |-> n - r, asleep |-> FALSE]
        \/ /\ manager' = [pc |-> "stop", desired |-> n, left |-> r - n, asleep |-> FALSE]
    BY <1>18, <2>1 DEF change_number_of_server_hostthreads_to
  <2>4. n \in Int
    BY DEF Counts
  <2>. QED
    BY <1>2, <1>3, <1>4, <2>1, <2>2, <2>3, <2>4 DEF Balance
<1>19. ASSUME NEW s \in Servers, start_one_server_hostthread(s) PROVE OrdersOK'
  <2>1. /\ manager.pc = "start" /\ Goto(s, "spawned") /\ pc[s] = "none"
        /\ "spawned" \in PCs /\ manager' = one_ordered("start") /\ r' = r
        /\ Stops' = Stops
    BY <1>19, NothingOrdered DEF start_one_server_hostthread, PCs, r
  <2>2. a' = a + 1
    BY <1>1, <2>1, SpawnedAfterGoto DEF a
  <2>3. /\ manager'.left = manager.left - 1
        /\ manager'.pc \in {"start", "wait"}
        /\ manager'.desired = manager.desired
    BY <2>1, OrdersLeft
  <2>. QED
    BY <1>2, <1>3, <1>4, <2>1, <2>2, <2>3 DEF Balance
<1>20. CASE stop_one_server_hostthread
  <2>1. /\ manager.pc = "stop" /\ r' = r /\ a' = a /\ UNCHANGED doing
        /\ manager'.pc = "stop_broadcast" /\ manager'.left = manager.left
        /\ manager'.desired = manager.desired
    BY <1>1, <1>6, <1>20 DEF stop_one_server_hostthread, r, Managers
  <2>2. pending' = Append(pending, DO_STOP) /\ DO_STOP \in Requests
    BY <1>1, <1>20, PrependStep DEF stop_one_server_hostthread, Requests
  <2>3. Stops' = Stops + 1
    BY <1>7, <1>8, <1>9, <1>10, <2>1, <2>2, StopsAfterAppend
  <2>. QED
    BY <1>2, <1>3, <1>4, <2>1, <2>3 DEF Balance
<1>21. CASE stop_one_broadcasts
  <2>1. /\ manager.pc = "stop_broadcast" /\ r' = r /\ a' = a /\ Stops' = Stops
        /\ broadcast(one_ordered("stop"))
    BY <1>6, <1>21, NothingOrdered DEF stop_one_broadcasts, r
  <2>2. one_ordered("stop") \in Managers
    BY <2>1, OneOrdered
  <2>3. /\ manager'.left = manager.left - 1
        /\ manager'.pc \in {"stop", "wait"}
        /\ manager'.desired = manager.desired
    BY <2>1, <2>2, OrdersLeft, BroadcastKeepsOrders
  <2>. QED
    BY <1>2, <1>3, <1>4, <2>1, <2>3 DEF Balance
<1>22. CASE await_desired_count
  <2>1. /\ manager.pc = "wait" /\ r' = r /\ a' = a /\ Stops' = Stops
        /\ manager'.left = manager.left /\ manager'.desired = manager.desired
        /\ manager'.pc = IF r # manager.desired THEN "wait" ELSE "idle"
    BY <1>1, <1>6, <1>22, NothingOrdered DEF await_desired_count, r, Managers
  <2>. QED
    BY <1>2, <1>3, <1>4, <2>1 DEF Balance
<1>23. CASE spurious_wakeup
  <2>1. /\ r' = r /\ a' = a /\ Stops' = Stops
        /\ manager'.pc = manager.pc /\ manager'.left = manager.left
        /\ manager'.desired = manager.desired
    BY <1>1, <1>6, <1>23, NothingOrdered DEF spurious_wakeup, r, Managers
  <2>. QED
    BY <1>5, <2>1
<1>24. CASE resume_from_disk
  <2>1. /\ manager.pc = "idle" /\ manager' = manager
        /\ UNCHANGED <<external_request_queue, internal_request_queue>>
    BY <1>24 DEF resume_from_disk
  <2>2. a = 0 /\ Stops = 0
    BY <1>3, <2>1 DEF Balance
  <2>3. Spawned' = {} /\ Stopping' = {} /\ pending' = pending
    BY <1>24, <2>1, TaskHostthreadsAssumption
       DEF resume_from_disk, Spawned, Stopping, pending, Backward
  <2>4. a' = 0 /\ Stops' = 0
    BY <1>8, <1>9, <1>10, <2>2, <2>3, FS_EmptySet DEF a
  <2>. QED
    BY <1>4, <2>1, <2>4 DEF Balance
<1>25. CASE get_count_of_live_hostthreads
  <2>1. /\ manager.pc = "idle" /\ manager' = manager /\ a' = a /\ Stops' = Stops
    BY <1>6, <1>25, NothingOrdered DEF get_count_of_live_hostthreads, IInv
  <2>. QED
    BY <1>3, <1>4, <2>1 DEF Balance
<1>26. CASE UNCHANGED vars
  BY <1>5, <1>6, <1>26, NothingOrdered DEF vars, r
<1>. QED
  BY <1>11, <1>12, <1>13, <1>14, <1>15, <1>16, <1>17, <1>18, <1>19, <1>20,
     <1>21, <1>22, <1>23, <1>24, <1>25, <1>26
  DEF Next, ServerStep, ManagerStep, fork_to_disk, spawn_to_disk

\* The manager's wait in change_number_of_server_hostthreads_to is for a count
\* that the orders it gave lead to exactly, for any number of servers and any
\* interleaving, and no stop request is left over for a later call.
THEOREM OrdersBalance == Spec => []OrdersLeadToDesired
<1>1. Init => OrdersOK
  <2>. SUFFICES ASSUME Init PROVE OrdersOK
    OBVIOUS
  <2>1. Spawned = {}
    BY DEF Init, Spawned
  <2>2. Stopping = {}
    BY TaskHostthreadsAssumption DEF Init, Stopping
  <2>3. pending = <<>>
    <3>1. <<>> \in Seq(Requests)
      OBVIOUS
    <3>2. Backward(<<>>) = <<>>
      BY <3>1, BackwardType
    <3>. QED
      BY <3>2 DEF Init, pending
  <2>4. StopsIn(pending) = {}
    BY <2>3 DEF StopsIn
  <2>5. TypeOK
    BY InitIInv DEF IInv
  <2>6. Stops = 0 /\ Cardinality(Spawned) = 0
    BY <2>1, <2>2, <2>4, <2>5, OrdersAreNumbers, FS_EmptySet DEF NumbersOK
  <2>. QED
    BY <2>6 DEF Init, OrdersOK, Balance
<1>2. IInv /\ IInv' /\ OrdersOK /\ [Next]_vars => OrdersOK'
  BY OrdersStep
<1>3. OrdersOK => OrdersLeadToDesired
  BY DEF OrdersOK, Balance, OrdersLeadToDesired, Spawned
<1>. QED
  BY <1>1, <1>2, <1>3, Invariance, PTL DEF Spec
=============================================================================
