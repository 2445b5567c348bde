------------------------- MODULE MicrothreadsProofs -------------------------
(***************************************************************************)
(* Proofs about Microthreads for every finite set of threads, every set of *)
(* tasks and every bound.                                                  *)
(***************************************************************************)
EXTENDS Microthreads, InductionLemmas, FiniteSetTheorems, TLAPS

\* Three queues in a row, the first of which holds one element.
Regrouped(x, u, v, w) == (<<x>> \o (u \o v)) \o w = <<x>> \o ((u \o v) \o w)

LEMMA Grouping ==
    ASSUME NEW T, NEW x \in T, NEW u \in Seq(T), NEW v \in Seq(T), NEW w \in Seq(T)
    PROVE  Regrouped(x, u, v, w)
<1>1. PICK c : c = <<x>>
  OBVIOUS
<1>2. PICK d : d = u \o v
  OBVIOUS
<1>3. c \in Seq(T) /\ d \in Seq(T)
  BY <1>1, <1>2
<1>4. (c \o d) \o w = c \o (d \o w)
  BY <1>3, SMTT(30)
<1>. QED BY <1>1, <1>2, <1>4, Zenon DEF Regrouped

\* The ALIVE threads of a task can be counted.
LEMMA AliveInIsFinite ==
    ASSUME NEW k
    PROVE  IsFiniteSet(AliveIn(k)) /\ Cardinality(AliveIn(k)) \in Nat
<1>1. IsFiniteSet(AliveIn(k))
  BY MicrothreadsAssumption, FS_Subset DEF AliveIn
<1>. QED  BY <1>1, FS_CardinalityType

\* Completing the do1mailopruns of c empties c's list, keeps the other lists
\* well formed, and the empty ones empty.
LEMMA CompletedLists ==
    ASSUME NEW w \in [Condvars -> Seq(Runs)], NEW c \in Condvars
    PROVE  /\ completed(w, c) \in [Condvars -> Seq(Runs)]
           /\ completed(w, c)[c] = <<>>
           /\ \A d \in Condvars : w[d] = <<>> => completed(w, c)[d] = <<>>
<1>. DEFINE list(d) == [i \in DOMAIN w[d] |->
                          [w[d][i] EXCEPT !.blocked = @ /\ ~IsIn(w[d][i], w[c])]]
<1>1. ASSUME NEW d \in Condvars
      PROVE  /\ list(d) \in Seq(Runs)
             /\ w[d] = <<>> => list(d) = <<>>
  <2>1. w[d] \in Seq(Runs) /\ DOMAIN w[d] = 1 .. Len(w[d]) /\ Len(w[d]) \in Nat
    OBVIOUS
  <2>2. ASSUME NEW i \in 1 .. Len(w[d]) PROVE list(d)[i] \in Runs
    <3>1. w[d][i] \in Runs
      BY <2>1
    <3>. DEFINE b == w[d][i].blocked /\ ~IsIn(w[d][i], w[c])
    <3>2. b \in BOOLEAN
      OBVIOUS
    <3>3. [w[d][i] EXCEPT !.blocked = b] \in Runs
      <4>. HIDE DEF b
      <4>. QED  BY <3>1, <3>2 DEF Runs
    <3>. QED  BY <2>1, <3>3
  <2>3. list(d) \in [1 .. Len(w[d]) -> Runs]
    BY <2>1, <2>2
  <2>4. list(d) \in Seq(Runs) /\ Len(list(d)) = Len(w[d])
    <3>. HIDE DEF list
    <3>. QED  BY <2>1, <2>3, SMTT(30)
  <2>5. ASSUME w[d] = <<>> PROVE list(d) = <<>>
    <3>1. Len(list(d)) = 0
      BY <2>4, <2>5
    <3>. HIDE DEF list
    <3>. QED  BY <2>4, <3>1
  <2>. QED  BY <2>4, <2>5
<1>2. completed(w, c) = [d \in Condvars |-> IF d = c THEN <<>> ELSE list(d)]
  BY DEF completed
<1>. HIDE DEF list
<1>. QED  BY <1>1, <1>2

\* A step that leaves threads, tasks and condvars alone keeps their invariant.
LEMMA LifecycleUnchanged ==
    ASSUME Lifecycle, UNCHANGED <<life, conds>>
    PROVE  Lifecycle'
BY DEF Lifecycle, LifeTypeOK, AliveThreadsAreCounted, AliveIn,
       DeathIsAnnounced, DefaultTaskLives, ThreadsHaveTasks, life, conds

\* An ALIVE thread that ends leaves its task, and no other, one thread short.
LEMMA EndThreadCounts ==
    ASSUME LifeTypeOK, AliveThreadsAreCounted,
           NEW t \in Threads, state[t] = "ALIVE", NEW final \in Final,
           state' = [state EXCEPT ![t] = final], task' = task,
           alive_threads_count' =
               [alive_threads_count EXCEPT ![task[t]] = @ - 1]
    PROVE  /\ alive_threads_count' \in [Tasks -> Nat]
           /\ AliveThreadsAreCounted'
<1>. DEFINE own(k) == IF k = DefaultTask THEN default_alive_threads_count ELSE 0
<1>0. /\ task[t] \in Tasks /\ final # "ALIVE"
      /\ \A k \in Tasks : own(k) \in Nat
      /\ \A k \in Tasks :
            alive_threads_count[k] = own(k) + Cardinality(AliveIn(k))
  BY DEF LifeTypeOK, Final, AliveThreadsAreCounted, default_alive_threads_count
<1>1. ASSUME NEW k \in Tasks, k = task[t]
      PROVE  /\ Cardinality(AliveIn(k)') = Cardinality(AliveIn(k)) - 1
             /\ Cardinality(AliveIn(k)) - 1 \in Nat
  <2>1. AliveIn(k)' = AliveIn(k) \ {t} /\ t \in AliveIn(k)
    BY <1>0, <1>1 DEF AliveIn, LifeTypeOK
  <2>2. IsFiniteSet(AliveIn(k)) /\ Cardinality(AliveIn(k)) \in Nat
    BY AliveInIsFinite
  <2>3. Cardinality(AliveIn(k)) # 0
    BY <2>1, <2>2, FS_EmptySet
  <2>4. Cardinality(AliveIn(k) \ {t}) = Cardinality(AliveIn(k)) - 1
    BY <2>1, <2>2, FS_RemoveElement
  <2>. QED  BY <2>1, <2>2, <2>3, <2>4
<1>2. ASSUME NEW k \in Tasks, k # task[t]
      PROVE  AliveIn(k)' = AliveIn(k)
  BY <1>0, <1>2 DEF AliveIn, LifeTypeOK
<1>3. ASSUME NEW k \in Tasks
      PROVE  /\ alive_threads_count'[k] = own(k) + Cardinality(AliveIn(k)')
             /\ alive_threads_count'[k] \in Nat
  <2>1. CASE k = task[t]
    <3>1. alive_threads_count'[k] = alive_threads_count[k] - 1
      BY <2>1 DEF LifeTypeOK
    <3>2. /\ own(k) \in Nat
          /\ alive_threads_count[k] = own(k) + Cardinality(AliveIn(k))
      BY <1>0
    <3>3. /\ Cardinality(AliveIn(k)') = Cardinality(AliveIn(k)) - 1
          /\ Cardinality(AliveIn(k)) - 1 \in Nat
          /\ Cardinality(AliveIn(k)) \in Nat
      BY <1>1, <2>1, AliveInIsFinite
    <3>. HIDE DEF own
    <3>. QED  BY <3>1, <3>2, <3>3
  <2>2. CASE k # task[t]
    <3>1. alive_threads_count'[k] = alive_threads_count[k]
      BY <2>2 DEF LifeTypeOK
    <3>. HIDE DEF own
    <3>. QED  BY <1>0, <1>2, <2>2, <3>1, AliveInIsFinite
  <2>. QED  BY <2>1, <2>2
<1>. QED
  BY <1>3 DEF AliveThreadsAreCounted, LifeTypeOK

\* Announcing the end of a thread, or of a thread and its task, sets those
\* condvars and leaves nobody waiting for a condvar that is set.
LEMMA AnnounceSets ==
    ASSUME LifeTypeOK, \A c \in is_set : waiting[c] = <<>>,
           NEW t \in Threads, NEW k \in Tasks, NEW k_too \in BOOLEAN,
           announce(t, k, k_too)
    PROVE  /\ is_set' = is_set \cup {t} \cup (IF k_too THEN {k} ELSE {})
           /\ is_set' \in SUBSET Condvars
           /\ waiting' \in [Condvars -> Seq(Runs)]
           /\ \A c \in is_set' : waiting'[c] = <<>>
<1>. DEFINE w == completed(waiting, t)
<1>1. t \in Condvars /\ k \in Condvars
  BY DEF Condvars
<1>2. /\ w \in [Condvars -> Seq(Runs)] /\ w[t] = <<>>
      /\ \A d \in Condvars : waiting[d] = <<>> => w[d] = <<>>
  BY <1>1, CompletedLists DEF LifeTypeOK
<1>. HIDE DEF w
<1>3. /\ completed(w, k) \in [Condvars -> Seq(Runs)]
      /\ completed(w, k)[k] = <<>>
      /\ \A d \in Condvars : w[d] = <<>> => completed(w, k)[d] = <<>>
  BY <1>1, <1>2, CompletedLists
<1>4. /\ is_set' = is_set \cup {t} \cup (IF k_too THEN {k} ELSE {})
      /\ waiting' = IF k_too THEN completed(w, k) ELSE w
  <2>1. CASE k_too
    BY <2>1 DEF announce, w
  <2>2. CASE ~k_too
    BY <2>2 DEF announce, w
  <2>. QED  BY <2>1, <2>2
<1>5. is_set' \in SUBSET Condvars
  BY <1>1, <1>4 DEF LifeTypeOK
<1>6. waiting' \in [Condvars -> Seq(Runs)]
  BY <1>2, <1>3, <1>4
<1>7. ASSUME NEW c \in is_set' PROVE waiting'[c] = <<>>
  <2>1. c \in Condvars /\ (c \in is_set => waiting[c] = <<>>)
    BY <1>5
  <2>2. CASE k_too
    BY <1>2, <1>3, <1>4, <1>7, <2>1, <2>2
  <2>3. CASE ~k_too
    BY <1>2, <1>4, <1>7, <2>1, <2>3
  <2>. QED  BY <2>2, <2>3
<1>. QED  BY <1>4, <1>5, <1>6, <1>7

\* Whatever ends an ALIVE thread, and its task with it, keeps the invariant of
\* threads and tasks; only the default task must not be ended.
LEMMA EndThreadStep ==
    ASSUME Lifecycle, NEW t \in Threads, state[t] = "ALIVE",
           NEW final \in Final, NEW ends_task \in BOOLEAN,
           ends_task => task[t] # DefaultTask,
           end_thread(t, final, ends_task)
    PROVE  Lifecycle'
<1>. DEFINE k == task[t]
            k_too == ends_task /\ k \notin is_set
<1>1. /\ LifeTypeOK /\ AliveThreadsAreCounted /\ DeathIsAnnounced
      /\ DefaultTaskLives /\ ThreadsHaveTasks
  BY DEF Lifecycle
<1>2. /\ k \in Tasks /\ k \notin Threads /\ t \notin Tasks
      /\ DefaultTask \in Tasks
  BY <1>1, MicrothreadsAssumption DEF LifeTypeOK
<1>3. /\ state' = [state EXCEPT ![t] = final]
      /\ alive_threads_count' =
            [alive_threads_count EXCEPT ![task[t]] = @ - 1]
      /\ task_state' = IF ends_task THEN [task_state EXCEPT ![k] = final]
                                    ELSE task_state
      /\ announce(t, k, k_too)
      /\ task' = task
  BY DEF end_thread
<1>4. /\ alive_threads_count' \in [Tasks -> Nat]
      /\ AliveThreadsAreCounted'
  BY <1>1, <1>3, EndThreadCounts
<1>5. /\ is_set' = is_set \cup {t} \cup (IF k_too THEN {k} ELSE {})
      /\ is_set' \in SUBSET Condvars
      /\ waiting' \in [Condvars -> Seq(Runs)]
      /\ \A c \in is_set' : waiting'[c] = <<>>
  <2>1. k_too \in BOOLEAN /\ \A c \in is_set : waiting[c] = <<>>
    BY <1>1 DEF DeathIsAnnounced
  <2>. HIDE DEF k, k_too
  <2>. QED  BY <1>1, <1>2, <1>3, <2>1, AnnounceSets
<1>6. /\ state' \in [Threads -> States] /\ task' \in [Threads -> Tasks]
      /\ task_state' \in [Tasks -> States]
  <2>1. final \in States
    BY DEF States
  <2>. QED  BY <1>1, <1>2, <1>3, <2>1 DEF LifeTypeOK
<1>7. LifeTypeOK'
  BY <1>4, <1>5, <1>6 DEF LifeTypeOK
<1>8. DeathIsAnnounced'
  <2>1. ASSUME NEW u \in Threads
        PROVE  u \in is_set' <=> state'[u] \in Final
    <3>1. u \in is_set <=> state[u] \in Final
      BY <1>1 DEF DeathIsAnnounced
    <3>2. u # k
      BY <1>2
    <3>3. u \in is_set' <=> u \in is_set \/ u = t
      BY <1>5, <3>2
    <3>4. state'[u] = IF u = t THEN final ELSE state[u]
      BY <1>1, <1>3 DEF LifeTypeOK
    <3>. QED  BY <3>1, <3>3, <3>4
  <2>2. ASSUME NEW j \in Tasks
        PROVE  j \in is_set' <=> task_state'[j] \in Final
    <3>1. j \in is_set <=> task_state[j] \in Final
      BY <1>1 DEF DeathIsAnnounced
    <3>2. j # t
      BY <1>2
    <3>3. j \in is_set' <=> j \in is_set \/ (ends_task /\ j = k)
      BY <1>5, <3>2
    <3>4. task_state'[j] = IF ends_task /\ j = k THEN final ELSE task_state[j]
      BY <1>1, <1>3 DEF LifeTypeOK
    <3>. QED  BY <3>1, <3>3, <3>4
  <2>. QED  BY <1>5, <2>1, <2>2 DEF DeathIsAnnounced
<1>9. DefaultTaskLives'
  BY <1>1, <1>2, <1>3 DEF DefaultTaskLives, LifeTypeOK
<1>10. ThreadsHaveTasks'
  <2>. SUFFICES ASSUME NEW u \in Threads, state'[u] # "UNBORN"
                PROVE  task_state'[task[u]] # "UNBORN"
    BY <1>3 DEF ThreadsHaveTasks
  <2>1. state[u] # "UNBORN" /\ task[u] \in Tasks /\ final # "UNBORN"
    BY <1>1, <1>3 DEF LifeTypeOK, Final
  <2>. QED  BY <1>1, <1>3, <2>1 DEF ThreadsHaveTasks, LifeTypeOK
<1>. QED  BY <1>4, <1>7, <1>8, <1>9, <1>10 DEF Lifecycle

\* make_thread adds one ALIVE thread to one existing task.
LEMMA MakeThreadStep ==
    ASSUME Lifecycle, NEW t \in Threads, NEW k \in Tasks, make_thread(t, k)
    PROVE  Lifecycle'
<1>1. /\ LifeTypeOK /\ AliveThreadsAreCounted /\ DeathIsAnnounced
      /\ DefaultTaskLives /\ ThreadsHaveTasks
  BY DEF Lifecycle
<1>2. /\ state[t] = "UNBORN" /\ task_state[k] # "UNBORN"
      /\ state' = [state EXCEPT ![t] = "ALIVE"]
      /\ task' = [task EXCEPT ![t] = k]
      /\ alive_threads_count' = [alive_threads_count EXCEPT ![k] = @ + 1]
      /\ UNCHANGED <<task_state, is_set, waiting>>
  BY DEF make_thread, conds
<1>3. LifeTypeOK'
  <2>1. /\ state' \in [Threads -> States] /\ task' \in [Threads -> Tasks]
        /\ alive_threads_count' \in [Tasks -> Nat]
    BY <1>1, <1>2 DEF LifeTypeOK, States
  <2>. QED  BY <1>1, <1>2, <2>1 DEF LifeTypeOK
<1>4. AliveThreadsAreCounted'
  <2>. DEFINE own(j) ==
                IF j = DefaultTask THEN default_alive_threads_count ELSE 0
  <2>1. ASSUME NEW j \in Tasks
        PROVE  alive_threads_count'[j] = own(j) + Cardinality(AliveIn(j)')
    <3>1. /\ own(j) \in Nat
          /\ alive_threads_count[j] = own(j) + Cardinality(AliveIn(j))
      BY <1>1 DEF AliveThreadsAreCounted, default_alive_threads_count
    <3>2. IsFiniteSet(AliveIn(j)) /\ Cardinality(AliveIn(j)) \in Nat
      BY AliveInIsFinite
    <3>3. CASE j = k
      <4>1. AliveIn(j)' = AliveIn(j) \cup {t} /\ t \notin AliveIn(j)
        BY <1>1, <1>2, <3>3 DEF AliveIn, LifeTypeOK
      <4>2. Cardinality(AliveIn(j) \cup {t}) = Cardinality(AliveIn(j)) + 1
        BY <3>2, <4>1, FS_AddElement
      <4>3. alive_threads_count'[j] = alive_threads_count[j] + 1
        BY <1>1, <1>2, <3>3 DEF LifeTypeOK
      <4>. HIDE DEF own
      <4>. QED  BY <3>1, <3>2, <4>1, <4>2, <4>3
    <3>4. CASE j # k
      <4>1. AliveIn(j)' = AliveIn(j)
        BY <1>1, <1>2, <3>4 DEF AliveIn, LifeTypeOK
      <4>2. alive_threads_count'[j] = alive_threads_count[j]
        BY <1>1, <1>2, <3>4 DEF LifeTypeOK
      <4>. HIDE DEF own
      <4>. QED  BY <3>1, <4>1, <4>2
    <3>. QED  BY <3>3, <3>4
  <2>. QED  BY <2>1 DEF AliveThreadsAreCounted
<1>5. DeathIsAnnounced'
  <2>1. ASSUME NEW u \in Threads
        PROVE  state'[u] \in Final <=> state[u] \in Final
    BY <1>1, <1>2 DEF LifeTypeOK, Final
  <2>. QED  BY <1>1, <1>2, <2>1 DEF DeathIsAnnounced
<1>6. DefaultTaskLives'
  BY <1>1, <1>2 DEF DefaultTaskLives
<1>7. ThreadsHaveTasks'
  BY <1>1, <1>2 DEF ThreadsHaveTasks, LifeTypeOK
<1>. QED  BY <1>3, <1>4, <1>5, <1>6, <1>7 DEF Lifecycle

\* A list without repetition has as many members as its length.
LEMMA TeamSize ==
    ASSUME NEW n \in Nat, NEW team \in [1 .. n -> Threads],
           \A i, j \in 1 .. n : team[i] = team[j] => i = j
    PROVE  Cardinality({t \in Threads : \E i \in 1 .. n : team[i] = t}) = n
<1>. DEFINE members == {t \in Threads : \E i \in 1 .. n : team[i] = t}
<1>1. team \in Bijection(1 .. n, members)
  <2>1. team \in [1 .. n -> members]
    OBVIOUS
  <2>2. \A t \in members : \E i \in 1 .. n : team[i] = t
    OBVIOUS
  <2>. HIDE DEF members
  <2>. QED
    BY <2>1, <2>2 DEF Bijection, Injection, IsInjective, Surjection
<1>2. ExistsBijection(1 .. n, members)
  BY <1>1 DEF ExistsBijection
<1>3. IsFiniteSet(1 .. n) /\ Cardinality(1 .. n) = n
  BY FS_Interval
<1>. HIDE DEF members
<1>4. Cardinality(members) = Cardinality(1 .. n)
  BY <1>2, <1>3, FS_Bijection
<1>. QED  BY <1>3, <1>4 DEF members

\* make_task makes a task whose count is the number of its threads, although
\* it overwrites the count: no thread was in the task before.
LEMMA MakeTaskStep ==
    ASSUME Lifecycle, NEW k \in Tasks, NEW team \in Teams, make_task(k, team)
    PROVE  Lifecycle'
<1>1. /\ LifeTypeOK /\ AliveThreadsAreCounted /\ DeathIsAnnounced
      /\ DefaultTaskLives /\ ThreadsHaveTasks
  BY DEF Lifecycle
<1>2. /\ task_state[k] = "UNBORN"
      /\ \A i \in DOMAIN team : state[team[i]] = "UNBORN"
      /\ \A i, j \in DOMAIN team : team[i] = team[j] => i = j
      /\ task_state' = [task_state EXCEPT ![k] = "ALIVE"]
      /\ state' = [t \in Threads |->
                      IF IsIn(t, team) THEN "ALIVE" ELSE state[t]]
      /\ task' = [t \in Threads |-> IF IsIn(t, team) THEN k ELSE task[t]]
      /\ alive_threads_count' = [alive_threads_count EXCEPT ![k] = Len(team)]
      /\ UNCHANGED <<is_set, waiting>>
  BY DEF make_task, conds
<1>3. PICK n \in 0 .. MaxTeam : team \in [1 .. n -> Threads]
  BY DEF Teams
<1>4. /\ n \in Nat /\ team \in Seq(Threads) /\ Len(team) = n
      /\ DOMAIN team = 1 .. n
  BY <1>3, MicrothreadsAssumption
<1>5. \A t \in Threads : IsIn(t, team) => state[t] = "UNBORN"
  BY <1>2 DEF IsIn
<1>6. LifeTypeOK'
  <2>1. /\ state' \in [Threads -> States] /\ task' \in [Threads -> Tasks]
        /\ task_state' \in [Tasks -> States]
    BY <1>1, <1>2 DEF LifeTypeOK, States
  <2>2. alive_threads_count' \in [Tasks -> Nat]
    BY <1>1, <1>2, <1>4 DEF LifeTypeOK
  <2>. QED  BY <1>1, <1>2, <2>1, <2>2 DEF LifeTypeOK
<1>7. k # DefaultTask
  BY <1>1, <1>2 DEF DefaultTaskLives
<1>8. AliveThreadsAreCounted'
  <2>1. ASSUME NEW j \in Tasks, j # k
        PROVE  /\ alive_threads_count'[j] = alive_threads_count[j]
               /\ AliveIn(j)' = AliveIn(j)
    <3>1. alive_threads_count'[j] = alive_threads_count[j]
      BY <1>1, <1>2, <2>1 DEF LifeTypeOK
    <3>2. AliveIn(j)' = AliveIn(j)
      BY <1>1, <1>2, <1>5, <2>1 DEF AliveIn, LifeTypeOK
    <3>. QED  BY <3>1, <3>2
  <2>2. alive_threads_count'[k] = n
    BY <1>1, <1>2, <1>4 DEF LifeTypeOK
  <2>3. AliveIn(k)' = {t \in Threads : \E i \in 1 .. n : team[i] = t}
    <3>1. \A t \in Threads : ~(state[t] = "ALIVE" /\ task[t] = k)
      BY <1>1, <1>2 DEF ThreadsHaveTasks
    <3>2. \A t \in Threads : IsIn(t, team) <=> \E i \in 1 .. n : team[i] = t
      BY <1>4 DEF IsIn
    <3>3. \A t \in Threads :
            state'[t] = "ALIVE" /\ task'[t] = k <=> IsIn(t, team)
      BY <1>2, <3>1
    <3>. QED  BY <3>2, <3>3 DEF AliveIn
  <2>4. Cardinality(AliveIn(k)') = n
    <3>1. \A i, j \in 1 .. n : team[i] = team[j] => i = j
      BY <1>2, <1>4
    <3>2. Cardinality({t \in Threads : \E i \in 1 .. n : team[i] = t}) = n
      BY <1>3, <1>4, <3>1, TeamSize
    <3>. QED  BY <2>3, <3>2
  <2>5. ASSUME NEW j \in Tasks
        PROVE  alive_threads_count'[j] =
                 (IF j = DefaultTask THEN default_alive_threads_count ELSE 0)
                 + Cardinality(AliveIn(j)')
    <3>1. CASE j = k
      BY <1>4, <1>7, <2>2, <2>4, <3>1
    <3>2. CASE j # k
      BY <1>1, <2>1, <3>2 DEF AliveThreadsAreCounted
    <3>. QED  BY <3>1, <3>2
  <2>. QED  BY <2>5 DEF AliveThreadsAreCounted
<1>9. DeathIsAnnounced'
  <2>1. ASSUME NEW u \in Threads
        PROVE  state'[u] \in Final <=> state[u] \in Final
    BY <1>2, <1>5 DEF Final
  <2>2. ASSUME NEW j \in Tasks
        PROVE  task_state'[j] \in Final <=> task_state[j] \in Final
    BY <1>1, <1>2 DEF LifeTypeOK, Final
  <2>. QED  BY <1>1, <1>2, <2>1, <2>2 DEF DeathIsAnnounced
<1>10. DefaultTaskLives'
  BY <1>1, <1>2, <1>7, MicrothreadsAssumption DEF DefaultTaskLives, LifeTypeOK
<1>11. ThreadsHaveTasks'
  BY <1>1, <1>2 DEF ThreadsHaveTasks, LifeTypeOK
<1>. QED  BY <1>6, <1>8, <1>9, <1>10, <1>11 DEF Lifecycle

\* kill_task ends a task that is not the default task, and no thread.
LEMMA KillTaskStep ==
    ASSUME Lifecycle, NEW k \in Tasks, NEW final \in Final, kill_task(k, final)
    PROVE  Lifecycle'
<1>1. /\ LifeTypeOK /\ AliveThreadsAreCounted /\ DeathIsAnnounced
      /\ DefaultTaskLives /\ ThreadsHaveTasks
  BY DEF Lifecycle
<1>2. /\ k # DefaultTask /\ task_state[k] = "ALIVE"
      /\ task_state' = [task_state EXCEPT ![k] = final]
      /\ is_set' = is_set \cup {k}
      /\ waiting' = completed(waiting, k)
      /\ UNCHANGED <<state, task, alive_threads_count>>
  BY DEF kill_task, set_condvar__iu
<1>3. k \in Condvars /\ k \notin Threads
  BY MicrothreadsAssumption DEF Condvars
<1>4. /\ waiting' \in [Condvars -> Seq(Runs)] /\ waiting'[k] = <<>>
      /\ \A d \in Condvars : waiting[d] = <<>> => waiting'[d] = <<>>
  BY <1>1, <1>2, <1>3, CompletedLists DEF LifeTypeOK
<1>5. LifeTypeOK'
  <2>1. task_state' \in [Tasks -> States]
    BY <1>1, <1>2 DEF LifeTypeOK, States
  <2>2. is_set' \in SUBSET Condvars
    BY <1>1, <1>2, <1>3 DEF LifeTypeOK
  <2>. QED  BY <1>1, <1>2, <1>4, <2>1, <2>2 DEF LifeTypeOK
<1>6. AliveThreadsAreCounted'
  BY <1>1, <1>2 DEF AliveThreadsAreCounted, AliveIn
<1>7. DeathIsAnnounced'
  <2>1. \A u \in Threads : u \in is_set' <=> state'[u] \in Final
    BY <1>1, <1>2, <1>3 DEF DeathIsAnnounced
  <2>2. \A j \in Tasks : j \in is_set' <=> task_state'[j] \in Final
    BY <1>1, <1>2 DEF DeathIsAnnounced, LifeTypeOK
  <2>3. \A c \in is_set' : waiting'[c] = <<>>
    BY <1>1, <1>2, <1>4, <1>5 DEF DeathIsAnnounced, LifeTypeOK
  <2>. QED  BY <2>1, <2>2, <2>3 DEF DeathIsAnnounced
<1>8. DefaultTaskLives'
  BY <1>1, <1>2, MicrothreadsAssumption DEF DefaultTaskLives, LifeTypeOK
<1>9. ThreadsHaveTasks'
  <2>1. final # "UNBORN"
    BY DEF Final
  <2>. QED  BY <1>1, <1>2, <2>1 DEF ThreadsHaveTasks, LifeTypeOK
<1>. QED  BY <1>5, <1>6, <1>7, <1>8, <1>9 DEF Lifecycle

\* A thread waits only for condvars that are not set.
LEMMA WaitStep ==
    ASSUME Lifecycle, NEW S \in SUBSET Condvars, wait_on_condvars(S)
    PROVE  Lifecycle'
<1>. DEFINE run == [thread |-> self, blocked |-> TRUE]
<1>1. LifeTypeOK /\ DeathIsAnnounced
  BY DEF Lifecycle
<1>2. /\ self \in Threads /\ S \cap is_set = {}
      /\ waiting' = [c \in Condvars |->
                       IF c \in S THEN Append(waiting[c], run)
                                  ELSE waiting[c]]
      /\ UNCHANGED <<state, task, task_state, alive_threads_count, is_set>>
  BY DEF wait_on_condvars, ThreadCalls, life
<1>3. run \in Runs
  BY <1>2 DEF Runs
<1>. HIDE DEF run
<1>4. waiting' \in [Condvars -> Seq(Runs)]
  BY <1>1, <1>2, <1>3 DEF LifeTypeOK
<1>5. LifeTypeOK'
  BY <1>1, <1>2, <1>4 DEF LifeTypeOK
<1>6. \A c \in is_set' : waiting'[c] = <<>>
  BY <1>1, <1>2 DEF LifeTypeOK, DeathIsAnnounced
<1>7. DeathIsAnnounced'
  BY <1>1, <1>2, <1>6 DEF DeathIsAnnounced
<1>. QED
  BY <1>2, <1>5, <1>7 DEF Lifecycle, AliveThreadsAreCounted, AliveIn,
                          DefaultTaskLives, ThreadsHaveTasks

\* A thread that exits cannot end the default task: its count never goes to
\* zero.
LEMMA DoneSparesDefaultTask ==
    ASSUME Lifecycle, NEW t \in Threads, NEW final, done_ends_task(t, final)
    PROVE  task[t] # DefaultTask
<1>1. CASE final = "FAILURE" /\ task[t] # DefaultTask
  BY <1>1
<1>2. CASE alive_threads_count[task[t]] - 1 = 0
  <2>. SUFFICES ASSUME task[t] = DefaultTask PROVE FALSE
    OBVIOUS
  <2>1. Cardinality(AliveIn(DefaultTask)) \in Nat
    BY AliveInIsFinite
  <2>2. alive_threads_count[DefaultTask] =
            1000000000 + Cardinality(AliveIn(DefaultTask))
    BY MicrothreadsAssumption
    DEF Lifecycle, AliveThreadsAreCounted, default_alive_threads_count
  <2>. QED  BY <1>2, <2>1, <2>2
<1>. QED  BY <1>1, <1>2 DEF done_ends_task

\* Every way in and out of a scope keeps the mutex in step with the scheduler.
LEMMA ControlSteps ==
    ASSUME Control
    PROVE  /\ Return => Control'
           /\ \A e : switch_to(e) => Control'
           /\ \A t : install_new_thread(t) => Control'
           /\ \A l \in PCs \ {"run", "shutdown"} :
                 pc \notin {"run", "shutdown"} /\ Leave(l) => Control'
           /\ \A l \in PCs \ {"run", "shutdown"} :
                 uninterruptible_scope_mutex' = 1 /\ pc' = l => Control'
           /\ UNCHANGED <<uninterruptible_scope_mutex, pc>> => Control'
BY DEF Control, SchedulerIsUninterruptible, PCs, Return, switch_to,
       install_new_thread, Leave

\* Every call of a microthread inside its scope preserves the invariant.
LEMMA ScopeBodyStep ==
    ASSUME IInv, scope_body
    PROVE  IInv'
<1>. USE DEF IInv
<1>0. \A final \in {"SUCCESS", "FAILURE", "UNCAUGHT_EXCEPTION"} : final \in Final
  BY DEF Final
<1>a. Awaited \subseteq Condvars
  BY MicrothreadsAssumption DEF Condvars
<1>1. ASSUME NEW t \in Threads, NEW k \in Tasks, make_thread(t, k)
      PROVE  IInv'
  <2>1. Control'
    BY <1>1, ControlSteps DEF make_thread
  <2>. QED  BY <1>1, <2>1, MakeThreadStep
<1>2. ASSUME NEW k \in Tasks, NEW team \in Teams, make_task(k, team)
      PROVE  IInv'
  <2>1. Control'
    BY <1>2, ControlSteps DEF make_task
  <2>. QED  BY <1>2, <2>1, MakeTaskStep
<1>3. ASSUME NEW k \in Tasks, NEW final \in {"SUCCESS", "FAILURE"},
             kill_task(k, final)
      PROVE  IInv'
  <2>1. Control'
    BY <1>3, ControlSteps DEF kill_task
  <2>. QED  BY <1>0, <1>3, <2>1, KillTaskStep
<1>4. ASSUME NEW t \in Threads, NEW final \in {"SUCCESS", "FAILURE"},
             kill_thread(t, final)
      PROVE  IInv'
  <2>1. Control'
    BY <1>4, ControlSteps DEF kill_thread
  <2>2. state[t] = "ALIVE" /\ end_thread(t, final, TaskCanEnd(t))
    BY <1>4 DEF kill_thread, may_be_killed
  <2>3. TaskCanEnd(t) \in BOOLEAN /\ (TaskCanEnd(t) => task[t] # DefaultTask)
    BY DEF TaskCanEnd
  <2>. QED  BY <1>0, <2>1, <2>2, <2>3, EndThreadStep
<1>5. CASE kill_the_dead
  <2>1. UNCHANGED <<life, conds>>
    BY <1>5 DEF kill_the_dead
  <2>2. Control'
    BY <1>5, ControlSteps DEF kill_the_dead
  <2>. QED  BY <2>1, <2>2, LifecycleUnchanged
<1>6. ASSUME NEW final \in {"SUCCESS", "FAILURE"},
             mark_thread_as_done_and_dispatch_next_thread(final)
      PROVE  IInv'
  <2>1. self \in Threads /\ pc = "scope"
    BY <1>6 DEF mark_thread_as_done_and_dispatch_next_thread, ThreadCalls
  <2>2. Control'
    BY <1>6, <2>1, ControlSteps
    DEF mark_thread_as_done_and_dispatch_next_thread, PCs
  <2>3. CASE /\ state[self] = "ALIVE"
             /\ end_thread(self, final, done_ends_task(self, final))
    <3>1. /\ done_ends_task(self, final) \in BOOLEAN
          /\ done_ends_task(self, final) => task[self] # DefaultTask
      <4>1. done_ends_task(self, final) \in BOOLEAN
        BY DEF done_ends_task
      <4>. QED  BY <2>1, <4>1, DoneSparesDefaultTask
    <3>. QED  BY <1>0, <2>1, <2>2, <2>3, <3>1, EndThreadStep
  <2>4. CASE UNCHANGED <<life, conds>>
    BY <2>2, <2>4, LifecycleUnchanged
  <2>. QED
    BY <1>6, <2>3, <2>4 DEF mark_thread_as_done_and_dispatch_next_thread
<1>7. CASE do_handler
  <2>1. self \in Threads
    BY <1>7 DEF do_handler, ThreadCalls
  <2>2. Control'
    BY <1>7, ControlSteps DEF do_handler
  <2>3. CASE /\ state[self] = "ALIVE"
             /\ end_thread(self, "UNCAUGHT_EXCEPTION", TaskCanEnd(self))
    <3>1. /\ TaskCanEnd(self) \in BOOLEAN
          /\ TaskCanEnd(self) => task[self] # DefaultTask
      BY DEF TaskCanEnd
    <3>. QED  BY <1>0, <2>1, <2>2, <2>3, <3>1, EndThreadStep
  <2>4. CASE UNCHANGED <<life, conds>>
    BY <2>2, <2>4, LifecycleUnchanged
  <2>. QED  BY <1>7, <2>3, <2>4 DEF do_handler
<1>8. CASE yield
  <2>1. UNCHANGED <<life, conds>>
    BY <1>8 DEF yield
  <2>2. Control'
    BY <1>8, ControlSteps DEF yield, ThreadCalls, PCs
  <2>. QED  BY <2>1, <2>2, LifecycleUnchanged
<1>9. ASSUME NEW c \in Condvars, NEW d \in Condvars, wait_on_condvars({c, d})
      PROVE  IInv'
  <2>1. Control'
    BY <1>9, ControlSteps DEF wait_on_condvars, ThreadCalls, PCs
  <2>. QED  BY <1>9, <2>1, WaitStep
<1>10. CASE fire_mailop
  <2>1. UNCHANGED <<life, conds>>
    BY <1>10 DEF fire_mailop
  <2>2. Control'
    BY <1>10, ControlSteps DEF fire_mailop
  <2>. QED  BY <2>1, <2>2, LifecycleUnchanged
<1>11. CASE block_for_mail
  <2>1. UNCHANGED <<life, conds>>
    BY <1>11 DEF block_for_mail
  <2>2. Control'
    BY <1>11, ControlSteps DEF block_for_mail, ThreadCalls, PCs
  <2>. QED  BY <2>1, <2>2, LifecycleUnchanged
<1>12. ASSUME NEW t \in Threads, switch_to_thread__xu(t) PROVE IInv'
  <2>1. UNCHANGED <<life, conds>>
    BY <1>12 DEF switch_to_thread__xu
  <2>2. Control'
    BY <1>12, ControlSteps DEF switch_to_thread__xu, PCs
  <2>. QED  BY <2>1, <2>2, LifecycleUnchanged
<1>13. ASSUME NEW t \in Threads, hand_over(t) PROVE IInv'
  <2>1. UNCHANGED <<life, conds>>
    BY <1>13 DEF hand_over
  <2>2. Control'
    BY <1>13, ControlSteps DEF hand_over
  <2>. QED  BY <2>1, <2>2, LifecycleUnchanged
<1>. HIDE DEF IInv
<1>. QED
  BY <1>a, <1>1, <1>2, <1>3, <1>4, <1>5, <1>6, <1>7, <1>8, <1>9, <1>10,
     <1>11, <1>12, <1>13
  DEF scope_body

\* A thread taken from a queue that is buried was ALIVE in a task that is dead.
LEMMA BuryStep ==
    ASSUME Lifecycle, NEW e, MustBeBuried(e), bury(e)
    PROVE  Lifecycle'
<1>1. e \in Threads /\ state[e] = "ALIVE" /\ task_state[task[e]] # "ALIVE"
  BY DEF MustBeBuried
<1>2. task_state[task[e]] \in Final
  BY <1>1 DEF Lifecycle, LifeTypeOK, ThreadsHaveTasks, States
<1>. QED  BY <1>1, <1>2, EndThreadStep DEF bury

\* Every step of the scheduler preserves the invariant.
LEMMA SchedulerStep ==
    ASSUME IInv, scheduler
    PROVE  IInv'
<1>. USE DEF IInv
<1>1. CASE wake_sleeping_threads
  <2>1. UNCHANGED <<life, conds>>
    BY <1>1 DEF wake_sleeping_threads
  <2>2. Control'
    BY <1>1, ControlSteps DEF wake_sleeping_threads, PCs
  <2>. QED  BY <2>1, <2>2, LifecycleUnchanged
<1>2. CASE dispatch_next_thread__usend__noreturn
  <2>1. UNCHANGED <<life, conds>>
    BY <1>2 DEF dispatch_next_thread__usend__noreturn
  <2>2. Control'
    BY <1>2, ControlSteps DEF dispatch_next_thread__usend__noreturn, PCs
  <2>. QED  BY <2>1, <2>2, LifecycleUnchanged
<1>3. CASE dequeue_refill
  <2>1. UNCHANGED <<life, conds>>
    BY <1>3 DEF dequeue_refill
  <2>2. Control'
    BY <1>3, ControlSteps DEF dequeue_refill
  <2>. QED  BY <2>1, <2>2, LifecycleUnchanged
<1>4. CASE dequeue_settles_for_cpu_bound
  <2>1. UNCHANGED <<life, conds>>
    BY <1>4 DEF dequeue_settles_for_cpu_bound
  <2>2. Control'
    BY <1>4, ControlSteps DEF dequeue_settles_for_cpu_bound, PCs
  <2>. QED  BY <2>1, <2>2, LifecycleUnchanged
<1>5. CASE dequeue_finds_nothing
  <2>1. UNCHANGED <<life, conds>>
    BY <1>5 DEF dequeue_finds_nothing
  <2>2. Control'
    BY <1>5, ControlSteps DEF dequeue_finds_nothing
  <2>. QED  BY <2>1, <2>2, LifecycleUnchanged
<1>6. CASE no_runnable_threads_left__fate
  <2>1. UNCHANGED <<life, conds>>
    BY <1>6 DEF no_runnable_threads_left__fate
  <2>2. Control'
    BY <1>6, ControlSteps DEF no_runnable_threads_left__fate, PCs
  <2>. QED  BY <2>1, <2>2, LifecycleUnchanged
<1>7. CASE look_for_work
  <2>1. UNCHANGED <<life, conds>>
    BY <1>7 DEF look_for_work
  <2>2. Control'
    BY <1>7, ControlSteps DEF look_for_work, PCs
  <2>. QED  BY <2>1, <2>2, LifecycleUnchanged
<1>8. CASE block_until_inter_hostthread_request_queue_is_nonempty
  <2>1. UNCHANGED <<life, conds>>
    BY <1>8 DEF block_until_inter_hostthread_request_queue_is_nonempty
  <2>2. Control'
    BY <1>8, ControlSteps DEF block_until_inter_hostthread_request_queue_is_nonempty,
        PCs
  <2>. QED  BY <2>1, <2>2, LifecycleUnchanged
<1>9. CASE look_at_request_queue
  <2>1. UNCHANGED <<life, conds>>
    BY <1>9 DEF look_at_request_queue
  <2>2. Control'
    <3>1. CASE second_check
      BY <1>9, <3>1, ControlSteps DEF look_at_request_queue, PCs
    <3>2. CASE ~second_check
      BY <1>9, <3>2 DEF look_at_request_queue, Control, PCs,
                        SchedulerIsUninterruptible
    <3>. QED  BY <3>1, <3>2
  <2>. QED  BY <2>1, <2>2, LifecycleUnchanged
<1>10. CASE dequeue_foreground
  <2>1. Control'
    BY <1>10, ControlSteps DEF dequeue_foreground, PCs
  <2>2. CASE MustBeBuried(Head(front)) /\ bury(Head(front))
    BY <2>1, <2>2, BuryStep
  <2>3. CASE UNCHANGED <<life, conds>>
    BY <2>1, <2>3, LifecycleUnchanged
  <2>. QED  BY <1>10, <2>2, <2>3 DEF dequeue_foreground
<1>11. CASE dequeue_cpu_bound_thread
  <2>1. Control'
    BY <1>11, ControlSteps DEF dequeue_cpu_bound_thread, PCs
  <2>2. CASE MustBeBuried(Head(background)) /\ bury(Head(background))
    BY <2>1, <2>2, BuryStep
  <2>3. CASE UNCHANGED <<life, conds>>
    BY <2>1, <2>3, LifecycleUnchanged
  <2>. QED  BY <1>11, <2>2, <2>3 DEF dequeue_cpu_bound_thread
<1>. HIDE DEF IInv
<1>. QED
  BY <1>1, <1>2, <1>3, <1>4, <1>5, <1>6, <1>7, <1>8, <1>9, <1>10, <1>11
  DEF scheduler

\* The first thread, in the default task, is all there is at first.
LEMMA IInvInit ==
    ASSUME Init
    PROVE  IInv
<1>. USE MicrothreadsAssumption DEF Init
<1>1. LifeTypeOK
  <2>1. /\ state \in [Threads -> States] /\ task \in [Threads -> Tasks]
        /\ task_state \in [Tasks -> States]
    BY DEF States
  <2>2. alive_threads_count \in [Tasks -> Nat]
    BY DEF default_alive_threads_count
  <2>3. waiting \in [Condvars -> Seq(Runs)] /\ is_set \in SUBSET Condvars
    OBVIOUS
  <2>. QED  BY <2>1, <2>2, <2>3 DEF LifeTypeOK
<1>2. AliveThreadsAreCounted
  <2>1. AliveIn(DefaultTask) = {DefaultThread}
    BY DEF AliveIn
  <2>2. ASSUME NEW k \in Tasks, k # DefaultTask PROVE AliveIn(k) = {}
    BY <2>2 DEF AliveIn
  <2>3. Cardinality({DefaultThread}) = 1 /\ Cardinality({}) = 0
    BY FS_Singleton, FS_EmptySet
  <2>. QED
    BY <2>1, <2>2, <2>3 DEF AliveThreadsAreCounted, default_alive_threads_count
<1>3. DeathIsAnnounced
  BY DEF DeathIsAnnounced, Final
<1>4. DefaultTaskLives /\ ThreadsHaveTasks
  BY DEF DefaultTaskLives, ThreadsHaveTasks
<1>5. Control
  BY DEF Control, SchedulerIsUninterruptible, PCs
<1>. QED  BY <1>1, <1>2, <1>3, <1>4, <1>5 DEF IInv, Lifecycle

\* Every step, whoever takes it, preserves the inductive invariant.
LEMMA IInvStep ==
    ASSUME IInv, [Next]_vars
    PROVE  IInv'
<1>. USE DEF IInv
<1>1. CASE enter_scope
  <2>1. UNCHANGED <<life, conds>>
    BY <1>1 DEF enter_scope
  <2>2. Control'
    BY <1>1, ControlSteps DEF enter_scope, PCs
  <2>. QED  BY <2>1, <2>2, LifecycleUnchanged
<1>2. CASE scope_body
  BY <1>2, ScopeBodyStep
<1>3. CASE submit
  <2>1. UNCHANGED <<life, conds, uninterruptible_scope_mutex, pc>>
    BY <1>3 DEF submit
  <2>. QED  BY <2>1, LifecycleUnchanged, ControlSteps
<1>4. CASE dispatch_next_thread__noreturn
  <2>1. UNCHANGED <<life, conds>>
    BY <1>4 DEF dispatch_next_thread__noreturn
  <2>2. Control'
    BY <1>4, ControlSteps DEF dispatch_next_thread__noreturn, PCs
  <2>. QED  BY <2>1, <2>2, LifecycleUnchanged
<1>5. CASE alarm_preempts
  <2>1. UNCHANGED <<life, conds>>
    BY <1>5 DEF alarm_preempts
  <2>2. Control'
    BY <1>5, ControlSteps
    DEF alarm_preempts, preempt__eu, preempt_scope, PCs
  <2>. QED  BY <2>1, <2>2, LifecycleUnchanged
<1>6. CASE alarm_defers
  <2>1. UNCHANGED <<life, conds, uninterruptible_scope_mutex, pc>>
    BY <1>6 DEF alarm_defers
  <2>. QED  BY <2>1, LifecycleUnchanged, ControlSteps
<1>7. CASE scheduler
  BY <1>7, SchedulerStep
<1>8. CASE do
  <2>1. UNCHANGED <<life, conds, uninterruptible_scope_mutex, pc>>
    BY <1>8 DEF do
  <2>. QED  BY <2>1, LifecycleUnchanged, ControlSteps
<1>9. CASE task_ends
  <2>1. UNCHANGED <<life, conds, uninterruptible_scope_mutex, pc>>
    BY <1>9 DEF task_ends
  <2>. QED  BY <2>1, LifecycleUnchanged, ControlSteps
<1>10. CASE UNCHANGED vars
  <2>1. UNCHANGED <<life, conds, uninterruptible_scope_mutex, pc>>
    BY <1>10 DEF vars
  <2>. QED  BY <2>1, LifecycleUnchanged, ControlSteps
<1>. HIDE DEF IInv
<1>. QED
  BY <1>1, <1>2, <1>3, <1>4, <1>5, <1>6, <1>7, <1>8, <1>9, <1>10
  DEF Next, alarm_handler

\* The invariant of threads, tasks, condvars and the scope mutex holds for any
\* number of threads and tasks, whatever kills, exits and alarms interleave.
THEOREM LifecycleInvariant == Spec => []IInv
<1>1. Init => IInv
  BY IInvInit
<1>2. IInv /\ [Next]_vars => IInv'
  BY IInvStep
<1>. QED  BY <1>1, <1>2, PTL DEF Spec

\* alive_threads_count is the number of ALIVE threads of the task, although
\* four operations in two packages decrement it and make_task overwrites it.
THEOREM AliveCounted == Spec => []AliveThreadsAreCounted
<1>1. IInv => AliveThreadsAreCounted
  BY DEF IInv, Lifecycle
<1>. QED  BY <1>1, LifecycleInvariant, PTL

\* A condvar is set when its thread or task is dead and not before, and nobody
\* is left waiting for it.
THEOREM DeathAnnounced == Spec => []DeathIsAnnounced
<1>1. IInv => DeathIsAnnounced
  BY DEF IInv, Lifecycle
<1>. QED  BY <1>1, LifecycleInvariant, PTL

\* Nothing that kills tasks reaches the default task.
THEOREM DefaultTaskImmortal == Spec => []DefaultTaskLives
<1>1. IInv => DefaultTaskLives
  BY DEF IInv, Lifecycle
<1>. QED  BY <1>1, LifecycleInvariant, PTL

\* The uninterruptible scope is held from the call that gives up the processor
\* to the switch to the next thread, and never while a thread runs.
THEOREM SchedulerUninterruptible == Spec => []SchedulerIsUninterruptible
<1>1. IInv => SchedulerIsUninterruptible
  BY DEF IInv, Control
<1>. QED  BY <1>1, LifecycleInvariant, PTL

\* A dead thread keeps the state it died in.
THEOREM DiesOnce == Spec => ThreadDiesOnce
<1>. DEFINE A == \A t \in Threads : state[t] \in Final => state'[t] = state[t]
<1>0. ASSUME IInv, NEW t \in Threads, state[t] = "ALIVE",
             NEW final, NEW ends_task, end_thread(t, final, ends_task)
      PROVE  A
  BY <1>0 DEF end_thread, IInv, Lifecycle, LifeTypeOK, Final
<1>1. ASSUME IInv, scope_body PROVE A
  <2>1. ASSUME NEW t \in Threads, NEW k \in Tasks, make_thread(t, k) PROVE A
    BY <1>1, <2>1 DEF make_thread, IInv, Lifecycle, LifeTypeOK, Final
  <2>2. ASSUME NEW k \in Tasks, NEW team \in Teams, make_task(k, team) PROVE A
    BY <1>1, <2>2 DEF make_task, IsIn, Final
  <2>3. ASSUME NEW t \in Threads, NEW final, kill_thread(t, final) PROVE A
    BY <1>0, <1>1, <2>3 DEF kill_thread, may_be_killed
  <2>4. ASSUME NEW final, mark_thread_as_done_and_dispatch_next_thread(final)
        PROVE  A
    BY <1>0, <1>1, <2>4
    DEF mark_thread_as_done_and_dispatch_next_thread, ThreadCalls, life
  <2>5. CASE do_handler
    BY <1>0, <1>1, <2>5 DEF do_handler, ThreadCalls, life
  <2>6. CASE UNCHANGED state
    BY <2>6
  <2>. HIDE DEF A
  <2>. QED
    BY <1>1, <2>1, <2>2, <2>3, <2>4, <2>5, <2>6
    DEF scope_body, kill_task, kill_the_dead, yield, wait_on_condvars,
        fire_mailop, block_for_mail, hand_over, switch_to_thread__xu, life
<1>2. ASSUME IInv, scheduler PROVE A
  <2>1. ASSUME NEW e, MustBeBuried(e), bury(e) PROVE A
    BY <1>0, <1>2, <2>1 DEF MustBeBuried, bury
  <2>2. CASE UNCHANGED state
    BY <2>2
  <2>. HIDE DEF A
  <2>. QED
    BY <1>2, <2>1, <2>2
    DEF scheduler, wake_sleeping_threads, dispatch_next_thread__usend__noreturn,
        dequeue_refill, dequeue_foreground, dequeue_settles_for_cpu_bound,
        dequeue_cpu_bound_thread, dequeue_finds_nothing,
        no_runnable_threads_left__fate, look_for_work,
        block_until_inter_hostthread_request_queue_is_nonempty,
        look_at_request_queue, life
<1>3. ASSUME IInv, [Next]_vars PROVE A
  <2>1. CASE UNCHANGED state
    BY <2>1
  <2>. HIDE DEF A
  <2>. QED
    BY <1>1, <1>2, <1>3, <2>1
    DEF Next, enter_scope, submit, dispatch_next_thread__noreturn,
        alarm_handler, alarm_preempts, alarm_defers, do, task_ends, life, vars
<1>4. IInv /\ [Next]_vars => [A]_vars
  BY <1>3
<1>. QED  BY <1>4, LifecycleInvariant, PTL DEF Spec, ThreadDiesOnce
-----------------------------------------------------------------------------
(* The invariant of the queues *)

\* The types of what LifeTypeOK and Control leave out; and every reply that a
\* task of the pools may still post finds its number.
QueuesTypeOK ==
    /\ mail_wait \in SUBSET Threads
    /\ current_thread \in Fates
    /\ front \in Seq(Fates) /\ back \in Seq(Fates)
    /\ background \in Seq(Fates)
    /\ didmail \in SUBSET (Threads \cup {Idle, Soon})
    /\ need_to_switch \in BOOLEAN
    /\ request_queue \in Seq(Thunks)
    /\ posted \in Nat /\ started \in 0 .. MaxRequests
    /\ working \in Nat /\ replied \in Nat
    /\ posted + working <= MaxRequests

\* The do1mailoprun of a blocked thread.
Run(t) == [thread |-> t, blocked |-> TRUE]

One(b) == IF b THEN 1 ELSE 0

Listed(t) == Count(front, t) + Count(back, t) + Count(background, t)

\* t is blocked on a condvar of the lists w; and on none twice.
BlockedIn(w, t) == \E c \in Condvars : Count(w[c], Run(t)) # 0
OnceIn(w) == \A c \in Condvars, t \in Threads : Count(w[c], Run(t)) <= 1

Sum(t) ==
    Listed(t) + One(IsRunning(t)) + One(t \in mail_wait)
    + One(BlockedIn(waiting, t))

\* Places, queue by queue; and a thread that is not made yet is nowhere.
PlacesOK ==
    \A t \in Threads :
        /\ Sum(t) <= 1
        /\ state[t] = "ALIVE" => Sum(t) = 1
        /\ state[t] = "UNBORN" => Sum(t) = 0

\* A blocked thread is listed once at each condvar that it waits for.
OnceOK == OnceIn(waiting)

\* The thunks of q that come after the first s.
Later(s) == {e \in Thunks : e > s}
After(q, s) == Among(q, Later(s))

Interval(s, n) == [i \in 1 .. n - s |-> s + i]

\* Thunks that have not begun are in the foreground queue or in request_queue,
\* in their order; one that was preempted has begun.
RequestsOK ==
    /\ started <= posted
    /\ current_thread \notin Later(started)
    /\ After(background, started) = <<>>
    /\ (After(front, started) \o After(back, started))
         \o After(Backward(request_queue), started)
       = Interval(started, posted)

\* Between the two checks, and after them, nothing that could post a request
\* is left.
EndOK ==
    /\ pc \in {"checked", "shutdown"} =>
          /\ working = 0 /\ replied = 0
          /\ front = <<>> /\ back = <<>> /\ background = <<>>
    /\ pc = "shutdown" => request_queue = <<>>

QInv == QueuesTypeOK /\ PlacesOK /\ OnceOK /\ RequestsOK /\ EndOK

-----------------------------------------------------------------------------
(* Queue by queue *)

\* Threads, thunks and the idle fate are different things.
LEMMA FatesDiffer ==
    /\ Threads \subseteq Fates /\ Thunks \subseteq Fates /\ Idle \in Fates
    /\ \A s : \A t \in Threads : t \notin Thunks /\ t \notin Later(s)
    /\ \A s : Idle \notin Threads /\ Idle \notin Thunks /\ Idle \notin Later(s)
    /\ \A e \in Fates : Record(e) \in Threads \cup {Idle, Soon}
<1>. USE MicrothreadsAssumption
<1>1. Thunks \subseteq Nat
  BY DEF Thunks
<1>2. Threads \cap Thunks = {} /\ Idle \notin Threads /\ Idle \notin Thunks
  BY <1>1
<1>3. \A s : Later(s) \subseteq Thunks
  BY DEF Later
<1>4. Threads \subseteq Fates /\ Thunks \subseteq Fates /\ Idle \in Fates
  BY DEF Fates
<1>5. \A e \in Fates : Record(e) \in Threads \cup {Idle, Soon}
  BY DEF Fates, Record
<1>. QED
  BY <1>2, <1>3, <1>4, <1>5

\* A sequence read backwards.
LEMMA BackwardSeq ==
    ASSUME NEW T, NEW q \in Seq(T)
    PROVE  /\ Backward(q) \in Seq(T) /\ Len(Backward(q)) = Len(q)
           /\ \A i \in 1 .. Len(q) :
                 /\ Len(q) + 1 - i \in 1 .. Len(q)
                 /\ Backward(q)[i] = q[Len(q) + 1 - i]
<1>0. PICK n : n = Len(q) /\ n \in Nat
  OBVIOUS
<1>1. \A i \in 1 .. n : n + 1 - i \in 1 .. n /\ q[n + 1 - i] \in T
  BY <1>0
<1>2. Backward(q) = [i \in 1 .. n |-> q[n + 1 - i]]
  BY <1>0 DEF Backward
<1>3. Backward(q) \in [1 .. n -> T]
  BY <1>1, <1>2
<1>4. \A i \in 1 .. n : Backward(q)[i] = q[n + 1 - i]
  BY <1>2
<1>5. Backward(q) \in Seq(T) /\ Len(Backward(q)) = n
  BY <1>0, <1>3
<1>. QED
  BY <1>0, <1>1, <1>4, <1>5

\* The empty sequence; and a new first element comes last.
LEMMA BackwardCons ==
    ASSUME NEW T, NEW q \in Seq(T), NEW e \in T
    PROVE  /\ Backward(<<>>) = <<>>
           /\ Backward(<<e>> \o q) = Backward(q) \o <<e>>
           /\ <<e>> \o q \in Seq(T)
<1>0. PICK n, r, b : n = Len(q) /\ r = <<e>> \o q /\ b = Backward(q)
  OBVIOUS
<1>10. n \in Nat
  BY <1>0
<1>1. /\ r \in Seq(T) /\ Len(r) = n + 1 /\ r[1] = e
      /\ \A i \in 1 .. n : r[i + 1] = q[i]
  BY <1>0, <1>10
<1>2. /\ b \in Seq(T) /\ Len(b) = n
      /\ \A i \in 1 .. n : n + 1 - i \in 1 .. n /\ b[i] = q[n + 1 - i]
  BY <1>0, <1>10, BackwardSeq
<1>3. /\ Backward(r) \in Seq(T) /\ Len(Backward(r)) = n + 1
      /\ \A i \in 1 .. n + 1 : Backward(r)[i] = r[(n + 1) + 1 - i]
  <2>1. r \in Seq(T) /\ Len(r) = n + 1
    BY <1>1
  <2>. QED BY <2>1, BackwardSeq
<1>4. PICK c : c = Backward(r)
  OBVIOUS
<1>5. PICK d : d = b \o <<e>>
  OBVIOUS
<1>6. /\ d \in Seq(T) /\ Len(d) = n + 1 /\ d[n + 1] = e
      /\ \A i \in 1 .. n : d[i] = b[i]
  <2>1. b \in Seq(T) /\ Len(b) = n
    BY <1>2
  <2>. QED BY <1>5, <1>10, <2>1
<1>7. ASSUME NEW i \in 1 .. n + 1 PROVE c[i] = d[i]
  <2>1. CASE i = n + 1
    <3>1. (n + 1) + 1 - i = 1
      BY <1>10, <2>1
    <3>. QED BY <1>1, <1>3, <1>4, <1>6, <2>1, <3>1
  <2>2. CASE i \in 1 .. n
    <3>1. (n + 1) + 1 - i = (n + 1 - i) + 1
      BY <1>10, <2>2
    <3>2. c[i] = r[(n + 1 - i) + 1]
      BY <1>3, <1>4, <3>1
    <3>3. r[(n + 1 - i) + 1] = q[n + 1 - i]
      BY <1>1, <1>2, <2>2
    <3>. QED BY <1>2, <1>6, <2>2, <3>2, <3>3
  <2>. QED BY <1>10, <2>1, <2>2
<1>8. c = d
  <2>1. c \in Seq(T) /\ d \in Seq(T) /\ Len(c) = n + 1 /\ Len(d) = n + 1
    BY <1>3, <1>4, <1>6
  <2>. QED BY <1>7, <2>1
<1>9. Backward(<<>>) = <<>>
  BY DEF Backward
<1>. QED
  BY <1>0, <1>1, <1>4, <1>5, <1>8, <1>9

\* A fate at the end of a queue.
LEMMA AppendFate ==
    ASSUME NEW q \in Seq(Fates), NEW e \in Fates
    PROVE  /\ Append(q, e) \in Seq(Fates)
           /\ \A x : Count(Append(q, e), x) = Count(q, x) + One(x = e)
           /\ \A s : e \notin Later(s) => After(Append(q, e), s) = After(q, s)
<1>1. Append(q, e) = q \o <<e>> /\ <<e>> \in Seq(Fates) /\ Append(q, e) \in Seq(Fates)
  OBVIOUS
<1>2. ASSUME NEW x PROVE Count(Append(q, e), x) = Count(q, x) + One(x = e)
  BY CountAppend DEF One
<1>3. ASSUME NEW s, e \notin Later(s) PROVE After(Append(q, e), s) = After(q, s)
  <2>1. Among(q \o <<e>>, Later(s)) = Among(q, Later(s)) \o Among(<<e>>, Later(s))
    <3>1. PICK x : x = <<e>>
      OBVIOUS
    <3>2. x \in Seq(Fates)
      BY <3>1
    <3>3. Among(q \o x, Later(s)) = Among(q, Later(s)) \o Among(x, Later(s))
      BY <3>2, AmongConcat
    <3>. QED BY <3>1, <3>3
  <2>2. Among(<<e>>, Later(s)) = <<>>
    BY <1>3, AmongOne
  <2>3. PICK a : a = Among(q, Later(s))
    OBVIOUS
  <2>4. a \in Seq(Fates \cap Later(s))
    BY <2>3, AmongMembers DEF Members
  <2>5. a \o <<>> = a
    BY <2>4
  <2>. QED BY <1>1, <2>1, <2>2, <2>3, <2>5 DEF After
<1>. QED
  BY <1>1, <1>2, <1>3

\* What After leaves of a queue is a sequence of thunks.
LEMMA AfterSeq ==
    ASSUME NEW q \in Seq(Fates), NEW s
    PROVE  /\ After(q, s) \in Seq(Thunks)
           /\ After(q, s) \in Seq(Later(s))
<1>1. Among(q, Later(s)) \in Seq(Fates \cap Later(s))
  BY AmongMembers DEF Members
<1>2. Fates \cap Later(s) \subseteq Thunks /\ Fates \cap Later(s) \subseteq Later(s)
  BY DEF Later
<1>3. PICK a : a = Among(q, Later(s))
  OBVIOUS
<1>4. a \in Seq(Thunks) /\ a \in Seq(Later(s))
  BY <1>1, <1>2, <1>3
<1>. QED
  BY <1>3, <1>4 DEF After

\* Threads at the end of a queue.
LEMMA ConcatThreads ==
    ASSUME NEW q \in Seq(Fates), NEW p \in Seq(Threads)
    PROVE  /\ q \o p \in Seq(Fates)
           /\ \A x : Count(q \o p, x) = Count(q, x) + Count(p, x)
           /\ \A s : After(q \o p, s) = After(q, s)
<1>1. p \in Seq(Fates)
  BY FatesDiffer
<1>2. q \o p \in Seq(Fates)
  BY <1>1
<1>3. ASSUME NEW x PROVE Count(q \o p, x) = Count(q, x) + Count(p, x)
  BY <1>1, CountConcat
<1>4. ASSUME NEW s PROVE After(q \o p, s) = After(q, s)
  <2>1. Among(q \o p, Later(s)) = Among(q, Later(s)) \o Among(p, Later(s))
    BY <1>1, AmongConcat
  <2>2. Among(p, Later(s)) = <<>>
    <3>1. \A i \in 1 .. Len(p) : p[i] \notin Later(s)
      BY FatesDiffer
    <3>. QED BY <3>1, AmongNone
  <2>3. PICK a : a = After(q, s)
    OBVIOUS
  <2>4. a \in Seq(Thunks)
    BY <2>3, AfterSeq
  <2>5. a \o <<>> = a
    BY <2>4
  <2>. QED BY <2>1, <2>2, <2>3, <2>5 DEF After
<1>. QED
  BY <1>2, <1>3, <1>4

\* Requests at the end of a queue.
LEMMA ConcatRequests ==
    ASSUME NEW q \in Seq(Fates), NEW r \in Seq(Thunks)
    PROVE  /\ q \o Backward(r) \in Seq(Fates)
           /\ \A t \in Threads : Count(q \o Backward(r), t) = Count(q, t)
           /\ \A s : After(q \o Backward(r), s)
                        = After(q, s) \o After(Backward(r), s)
<1>0. PICK b : b = Backward(r)
  OBVIOUS
<1>1. b \in Seq(Thunks)
  BY <1>0, BackwardSeq
<1>2. b \in Seq(Fates)
  BY <1>1, FatesDiffer
<1>3. q \o b \in Seq(Fates)
  BY <1>2
<1>4. ASSUME NEW t \in Threads PROVE Count(q \o b, t) = Count(q, t)
  <2>1. Count(q \o b, t) = Count(q, t) + Count(b, t)
    BY <1>2, CountConcat
  <2>2. ASSUME NEW i \in 1 .. Len(b) PROVE b[i] # t
    <3>1. b[i] \in Thunks
      BY <1>1
    <3>2. t \notin Thunks
      BY FatesDiffer, Zenon
    <3>. QED BY <3>1, <3>2
  <2>3. Count(b, t) = 0 /\ Count(q, t) \in Nat
    BY <1>2, <2>2, CountType
  <2>. QED BY <2>1, <2>3
<1>5. ASSUME NEW s PROVE After(q \o b, s) = After(q, s) \o After(b, s)
  BY <1>2, AmongConcat DEF After
<1>. QED
  BY <1>0, <1>3, <1>4, <1>5

\* A fate leaves a queue.
LEMMA TailFate ==
    ASSUME NEW q \in Seq(Fates), q # <<>>
    PROVE  /\ Tail(q) \in Seq(Fates) /\ Head(q) \in Fates
           /\ \A x : Count(q, x) = Count(Tail(q), x) + One(x = Head(q))
           /\ \A s : Head(q) \notin Later(s) => After(q, s) = After(Tail(q), s)
           /\ \A s : Head(q) \in Later(s) =>
                        After(q, s) = <<Head(q)>> \o After(Tail(q), s)
<1>0. PICK h, r : h = Head(q) /\ r = Tail(q)
  OBVIOUS
<1>1. q = <<h>> \o r /\ <<h>> \in Seq(Fates) /\ r \in Seq(Fates) /\ h \in Fates
  BY <1>0
<1>2. ASSUME NEW x PROVE Count(q, x) = Count(r, x) + One(x = h)
  BY <1>0, CountTail DEF One
<1>3. ASSUME NEW s
      PROVE  /\ h \notin Later(s) => After(q, s) = After(r, s)
             /\ h \in Later(s) => After(q, s) = <<h>> \o After(r, s)
  <2>1. Among(<<h>> \o r, Later(s)) = Among(<<h>>, Later(s)) \o Among(r, Later(s))
    <3>1. PICK x : x = <<h>>
      OBVIOUS
    <3>2. x \in Seq(Fates) /\ r \in Seq(Fates)
      BY <1>1, <3>1
    <3>3. Among(x \o r, Later(s)) = Among(x, Later(s)) \o Among(r, Later(s))
      BY <3>2, AmongConcat
    <3>. QED BY <3>1, <3>3
  <2>2. Among(<<h>>, Later(s)) = IF h \in Later(s) THEN <<h>> ELSE <<>>
    BY AmongOne
  <2>3. PICK a : a = After(r, s)
    OBVIOUS
  <2>4. a \in Seq(Thunks)
    BY <1>1, <2>3, AfterSeq
  <2>5. <<>> \o a = a
    BY <2>4
  <2>. QED BY <1>1, <2>1, <2>2, <2>3, <2>5 DEF After
<1>. QED
  BY <1>0, <1>1, <1>2, <1>3

-----------------------------------------------------------------------------
(* Condvars *)

\* An element occurs in a sequence if it can be counted there.
LEMMA IsInCount ==
    ASSUME NEW T, NEW q \in Seq(T), NEW x
    PROVE  /\ Count(q, x) \in Nat
           /\ IsIn(x, q) <=> Count(q, x) # 0
<1>1. DOMAIN q = 1 .. Len(q)
  OBVIOUS
<1>2. Count(q, x) \in Nat /\ (Count(q, x) = 0 <=> \A i \in 1 .. Len(q) : q[i] # x)
  BY CountType
<1>. QED
  BY <1>1, <1>2 DEF IsIn

\* The do1mailopruns of a blocked thread, among all.
LEMMA RunIs ==
    ASSUME NEW r \in Runs, NEW t \in Threads
    PROVE  /\ Run(t) \in Runs /\ Run(t).blocked /\ Run(t).thread = t
           /\ r.thread \in Threads /\ r.blocked \in BOOLEAN
           /\ r = Run(t) <=> r.thread = t /\ r.blocked
BY DEF Runs, Run

\* set_condvar__iu queues each thread as often as it is blocked on c.
LEMMA WokenThreads ==
    ASSUME NEW w \in [Condvars -> Seq(Runs)], NEW c \in Condvars
    PROVE  /\ woken(w, c) \in Seq(Threads)
           /\ \A t \in Threads : Count(woken(w, c), t) = Count(w[c], Run(t))
<1>. DEFINE R == {r \in Runs : r.blocked}
<1>0. PICK q : q = w[c]
  OBVIOUS
<1>1. q \in Seq(Runs)
  BY <1>0
<1>2. PICK b : b = Among(q, R)
  OBVIOUS
<1>3. b \in Seq(Runs \cap R)
  <2>. HIDE DEF R
  <2>. QED BY <1>1, <1>2, AmongMembers DEF Members
<1>4. PICK n : n = Len(b)
  OBVIOUS
<1>5. n \in Nat /\ \A i \in 1 .. n : b[i] \in Runs /\ b[i].blocked
  BY <1>3, <1>4
<1>6. PICK v : v = [i \in 1 .. n |-> b[i].thread]
  OBVIOUS
<1>7. woken(w, c) = v
  BY <1>0, <1>2, <1>4, <1>6 DEF woken
<1>8. \A i \in 1 .. n : v[i] = b[i].thread /\ v[i] \in Threads
  BY <1>5, <1>6 DEF Runs
<1>9. v \in Seq(Threads) /\ Len(v) = n
  <2>1. v \in [1 .. n -> Threads]
    BY <1>6, <1>8
  <2>. QED BY <1>5, <2>1
<1>10. ASSUME NEW t \in Threads PROVE Count(v, t) = Count(q, Run(t))
  <2>1. ASSUME NEW i \in 1 .. n PROVE v[i] = t <=> b[i] = Run(t)
    <3>1. b[i] \in Runs /\ b[i].blocked /\ v[i] = b[i].thread
      BY <1>5, <1>8
    <3>. QED BY <3>1, RunIs
  <2>2. Positions(v, t) = Positions(b, Run(t))
    BY <1>4, <1>9, <2>1 DEF Positions
  <2>3. Run(t) \in R
    BY DEF Run, Runs
  <2>4. Count(b, Run(t)) = Count(q, Run(t))
    <3>. HIDE DEF R
    <3>. QED BY <1>1, <1>2, <2>3, CountAmong
  <2>. QED BY <2>2, <2>4 DEF Count
<1>. QED
  BY <1>0, <1>7, <1>9, <1>10

\* Completed runs are no longer those of blocked threads.
LEMMA CompletedRuns ==
    ASSUME NEW w \in [Condvars -> Seq(Runs)], NEW c \in Condvars,
           NEW d \in Condvars, NEW t \in Threads
    PROVE  Count(completed(w, c)[d], Run(t)) =
             IF d = c \/ Count(w[c], Run(t)) # 0 THEN 0
             ELSE Count(w[d], Run(t))
<1>0. PICK p, q : p = w[c] /\ q = w[d]
  OBVIOUS
<1>1. p \in Seq(Runs) /\ q \in Seq(Runs)
  BY <1>0
<1>2. CASE d = c
  <2>1. completed(w, c)[d] = <<>>
    BY <1>2 DEF completed
  <2>. QED BY <1>2, <2>1, CountEmpty
<1>3. CASE d # c
  <2>. DEFINE l == [i \in DOMAIN q |->
                      [q[i] EXCEPT !.blocked = @ /\ ~IsIn(q[i], p)]]
  <2>0. PICK n : n = Len(q)
    OBVIOUS
  <2>1. n \in Nat /\ DOMAIN q = 1 .. n /\ \A i \in 1 .. n : q[i] \in Runs
    BY <1>1, <2>0
  <2>2. completed(w, c)[d] = l
    BY <1>0, <1>3 DEF completed
  <2>3. ASSUME NEW i \in 1 .. n
        PROVE  /\ l[i] \in Runs
               /\ l[i] = Run(t) <=> q[i] = Run(t) /\ ~IsIn(Run(t), p)
    <3>0. PICK r, b : r = q[i] /\ b = (r.blocked /\ ~IsIn(r, p))
      OBVIOUS
    <3>1. r \in Runs
      BY <2>1, <3>0
    <3>2. r.blocked \in BOOLEAN /\ b \in BOOLEAN
      BY <3>0, <3>1, RunIs
    <3>3. PICK x : x = [r EXCEPT !.blocked = b]
      OBVIOUS
    <3>4. l[i] = x
      BY <2>1, <3>0, <3>3
    <3>5. x \in Runs /\ x.thread = r.thread /\ x.blocked = b
      BY <3>1, <3>2, <3>3 DEF Runs
    <3>6. x = Run(t) <=> x.thread = t /\ x.blocked
      BY <3>5, RunIs
    <3>7. r = Run(t) <=> r.thread = t /\ r.blocked
      BY <3>1, RunIs
    <3>8. x = Run(t) <=> r = Run(t) /\ ~IsIn(r, p)
      BY <3>0, <3>5, <3>6, <3>7
    <3>. HIDE DEF l
    <3>. QED BY <3>0, <3>4, <3>5, <3>8
  <2>4. l \in Seq(Runs) /\ Len(l) = n
    <3>1. l = [i \in 1 .. n |-> l[i]]
      BY <2>1
    <3>. HIDE DEF l
    <3>2. l \in [1 .. n -> Runs]
      BY <2>3, <3>1
    <3>. QED BY <2>1, <3>2
  <2>. HIDE DEF l
  <2>5. IsIn(Run(t), p) <=> Count(p, Run(t)) # 0
    BY <1>1, IsInCount
  <2>6. CASE IsIn(Run(t), p)
    <3>1. \A i \in 1 .. Len(l) : l[i] # Run(t)
      BY <2>3, <2>4, <2>6
    <3>2. Count(l, Run(t)) = 0
      BY <2>4, <3>1, CountType
    <3>. QED BY <1>0, <2>2, <2>5, <2>6, <3>2
  <2>7. CASE ~IsIn(Run(t), p)
    <3>1. Positions(l, Run(t)) = Positions(q, Run(t))
      BY <2>0, <2>3, <2>4, <2>7 DEF Positions
    <3>2. Count(l, Run(t)) = Count(q, Run(t))
      BY <3>1 DEF Count
    <3>. QED BY <1>0, <1>3, <2>2, <2>5, <2>7, <3>2
  <2>. QED BY <2>6, <2>7
<1>. QED
  BY <1>2, <1>3

\* A thread that set_condvar__iu queues was blocked, is queued once, and is not
\* blocked any more: on no condvar; the others stay blocked.
LEMMA WokenOnce ==
    ASSUME NEW w \in [Condvars -> Seq(Runs)], NEW c \in Condvars, OnceIn(w)
    PROVE  /\ OnceIn(completed(w, c))
           /\ \A t \in Threads :
                 Count(woken(w, c), t) + One(BlockedIn(completed(w, c), t))
                    = One(BlockedIn(w, t))
<1>0. PICK v : v = completed(w, c)
  OBVIOUS
<1>1. \A d \in Condvars, t \in Threads :
         Count(v[d], Run(t)) = IF d = c \/ Count(w[c], Run(t)) # 0 THEN 0
                               ELSE Count(w[d], Run(t))
  BY <1>0, CompletedRuns
<1>2. \A d \in Condvars, t \in Threads :
         Count(w[d], Run(t)) \in Nat /\ Count(w[d], Run(t)) <= 1
  <2>. SUFFICES ASSUME NEW d \in Condvars, NEW t \in Threads
                PROVE  /\ Count(w[d], Run(t)) \in Nat
                       /\ Count(w[d], Run(t)) <= 1
    OBVIOUS
  <2>1. w[d] \in Seq(Runs)
    OBVIOUS
  <2>. QED BY <2>1, IsInCount DEF OnceIn
<1>3. OnceIn(v)
  BY <1>1, <1>2 DEF OnceIn
<1>4. ASSUME NEW t \in Threads
      PROVE  Count(woken(w, c), t) + One(BlockedIn(v, t)) = One(BlockedIn(w, t))
  <2>1. Count(woken(w, c), t) = Count(w[c], Run(t))
    BY WokenThreads
  <2>2. CASE Count(w[c], Run(t)) # 0
    <3>1. Count(w[c], Run(t)) = 1
      BY <1>2, <2>2
    <3>2. BlockedIn(w, t) /\ ~BlockedIn(v, t)
      BY <1>1, <2>2 DEF BlockedIn
    <3>. QED BY <2>1, <3>1, <3>2 DEF One
  <2>3. CASE Count(w[c], Run(t)) = 0
    <3>1. BlockedIn(w, t) <=> BlockedIn(v, t)
      BY <1>1, <2>3 DEF BlockedIn
    <3>. QED BY <2>1, <2>3, <3>1 DEF One
  <2>. QED BY <2>2, <2>3
<1>. QED
  BY <1>0, <1>3, <1>4

-----------------------------------------------------------------------------
(* What the operations do to the queues *)

\* The parts of Sum are numbers.
LEMMA SumParts ==
    ASSUME QueuesTypeOK, NEW t
    PROVE  /\ Count(front, t) \in Nat /\ Count(back, t) \in Nat
           /\ Count(background, t) \in Nat
<1>1. front \in Seq(Fates) /\ back \in Seq(Fates) /\ background \in Seq(Fates)
  BY DEF QueuesTypeOK
<1>2. \A q \in Seq(Fates) : Count(q, t) \in Nat
  BY CountType
<1>. QED
  BY <1>1, <1>2

\* back_with_requests.
LEMMA BackWithRequests ==
    ASSUME QueuesTypeOK
    PROVE  /\ back_with_requests \in Seq(Fates)
           /\ \A t \in Threads : Count(back_with_requests, t) = Count(back, t)
           /\ \A s : After(back_with_requests, s)
                        = After(back, s) \o After(Backward(request_queue), s)
BY ConcatRequests DEF QueuesTypeOK, back_with_requests, new_requests

\* Two fates at the end of a queue.
LEMMA AppendTwo ==
    ASSUME NEW q \in Seq(Fates), NEW x \in Fates, NEW y \in Fates
    PROVE  /\ q \o <<x, y>> \in Seq(Fates)
           /\ \A t : Count(q \o <<x, y>>, t)
                        = (Count(q, t) + One(t = x)) + One(t = y)
           /\ \A s : x \notin Later(s) /\ y \notin Later(s)
                        => After(q \o <<x, y>>, s) = After(q, s)
<1>1. q \o <<x, y>> = Append(Append(q, x), y)
  OBVIOUS
<1>2. PICK p : p = Append(q, x)
  OBVIOUS
<1>3. /\ p \in Seq(Fates) /\ \A t : Count(p, t) = Count(q, t) + One(t = x)
      /\ \A s : x \notin Later(s) => After(p, s) = After(q, s)
  BY <1>2, AppendFate
<1>4. /\ Append(p, y) \in Seq(Fates)
      /\ \A t : Count(Append(p, y), t) = Count(p, t) + One(t = y)
      /\ \A s : y \notin Later(s) => After(Append(p, y), s) = After(p, s)
  BY <1>3, AppendFate
<1>5. PICK z : z = q \o <<x, y>> /\ z = Append(p, y)
  BY <1>1, <1>2
<1>6. ASSUME NEW t PROVE Count(z, t) = (Count(q, t) + One(t = x)) + One(t = y)
  <2>1. Count(z, t) = Count(p, t) + One(t = y)
    BY <1>4, <1>5, Zenon
  <2>2. Count(p, t) = Count(q, t) + One(t = x)
    BY <1>3, Zenon
  <2>. QED BY <2>1, <2>2
<1>7. \A s : x \notin Later(s) /\ y \notin Later(s) => After(z, s) = After(q, s)
  BY <1>3, <1>4, <1>5
<1>8. z \in Seq(Fates)
  BY <1>4, <1>5
<1>. QED
  BY <1>5, <1>6, <1>7, <1>8

\* Nobody is lost or queued twice when every ALIVE thread stays where it is, or
\* moves from one place to another, and only the dead disappear.
LEMMA PlacesKept ==
    ASSUME PlacesOK,
           \A t \in Threads : Sum(t) \in Nat /\ Sum(t)' \in Nat,
           \A t \in Threads :
              /\ Sum(t)' <= Sum(t)
              /\ state'[t] = "ALIVE" => state[t] = "ALIVE" /\ Sum(t)' = Sum(t)
              /\ state'[t] = "UNBORN" => state[t] = "UNBORN"
    PROVE  PlacesOK'
<1>1. SUFFICES ASSUME NEW t \in Threads
               PROVE  /\ Sum(t)' <= 1
                      /\ state'[t] = "ALIVE" => Sum(t)' = 1
                      /\ state'[t] = "UNBORN" => Sum(t)' = 0
  BY DEF PlacesOK
<1>2. PICK a, b : a = Sum(t) /\ b = Sum(t)'
  OBVIOUS
<1>3. /\ a \in Nat /\ b \in Nat /\ b <= a /\ a <= 1
      /\ state'[t] = "ALIVE" => state[t] = "ALIVE" /\ b = a
      /\ state'[t] = "UNBORN" => state[t] = "UNBORN"
      /\ state[t] = "ALIVE" => a = 1
      /\ state[t] = "UNBORN" => a = 0
  BY <1>2 DEF PlacesOK
<1>. QED
  BY <1>2, <1>3

\* What a step must show for the requests when it begins none and none is
\* posted: they stay where they are, or all of request_queue is appended.
LEMMA RequestsKept ==
    ASSUME QueuesTypeOK, RequestsOK,
           UNCHANGED <<front, started, posted>>,
           current_thread' \notin Later(started),
           After(background', started) = <<>>,
           \/ /\ request_queue' = request_queue
              /\ After(back', started) = After(back, started)
           \/ /\ request_queue' = <<>>
              /\ After(back', started) =
                    After(back, started) \o After(Backward(request_queue), started)
    PROVE  RequestsOK'
<1>1. PICK a, b, r : /\ a = After(front, started) /\ b = After(back, started)
                     /\ r = After(Backward(request_queue), started)
  OBVIOUS
<1>2. a \in Seq(Thunks) /\ b \in Seq(Thunks) /\ r \in Seq(Thunks)
  <2>1. front \in Seq(Fates) /\ back \in Seq(Fates)
    BY DEF QueuesTypeOK
  <2>2. Backward(request_queue) \in Seq(Thunks)
    BY BackwardSeq DEF QueuesTypeOK
  <2>3. Backward(request_queue) \in Seq(Fates)
    BY <2>2, FatesDiffer
  <2>. QED BY <1>1, <2>1, <2>3, AfterSeq
<1>3. (a \o b) \o r = Interval(started, posted)
  BY <1>1 DEF RequestsOK
<1>4. (After(front', started') \o After(back', started'))
         \o After(Backward(request_queue'), started')
       = Interval(started', posted')
  <2>1. CASE /\ request_queue' = request_queue
             /\ After(back', started) = After(back, started)
    BY <1>1, <1>3, <2>1
  <2>2. CASE /\ request_queue' = <<>>
             /\ After(back', started) =
                    After(back, started) \o After(Backward(request_queue), started)
    <3>1. After(Backward(<<>>), started) = <<>>
      <4>1. Backward(<<>>) = <<>>
        BY DEF Backward
      <4>2. <<>> \in Seq(Fates) /\ \A i \in 1 .. Len(<<>>) : <<>>[i] \notin Later(started)
        OBVIOUS
      <4>. QED BY <4>1, <4>2, AmongNone DEF After
    <3>2. (a \o (b \o r)) \o <<>> = (a \o b) \o r
      BY <1>2
    <3>. QED BY <1>1, <1>3, <2>2, <3>1, <3>2
  <2>. QED BY <2>1, <2>2
<1>. QED
  BY <1>4 DEF RequestsOK

\* The step queues the threads p, and they are no longer blocked.
Wakes(p) ==
    /\ p \in Seq(Threads)
    /\ back' = back \o p
    /\ waiting' \in [Condvars -> Seq(Runs)]
    /\ OnceIn(waiting')
    /\ \A t \in Threads : Count(p, t) + One(BlockedIn(waiting', t))
                             = One(BlockedIn(waiting, t))

\* set_condvar__iu does.
LEMMA SetWakes ==
    ASSUME LifeTypeOK, OnceOK, QueuesTypeOK, NEW c \in Condvars, set_condvar__iu(c)
    PROVE  \E p : Wakes(p)
<1>1. /\ waiting \in [Condvars -> Seq(Runs)] /\ OnceIn(waiting)
      /\ waiting' = completed(waiting, c)
      /\ back' = back \o woken(waiting, c)
  BY DEF LifeTypeOK, OnceOK, set_condvar__iu
<1>2. woken(waiting, c) \in Seq(Threads)
  BY <1>1, WokenThreads
<1>3. waiting' \in [Condvars -> Seq(Runs)]
  BY <1>1, CompletedLists
<1>4. /\ OnceIn(completed(waiting, c))
      /\ \A t \in Threads :
            Count(woken(waiting, c), t) + One(BlockedIn(completed(waiting, c), t))
               = One(BlockedIn(waiting, t))
  BY <1>1, WokenOnce
<1>5. Wakes(woken(waiting, c))
  BY <1>1, <1>2, <1>3, <1>4 DEF Wakes
<1>. QED
  BY <1>5

\* The end of a thread does, and of its task with it.
LEMMA AnnounceWakes ==
    ASSUME LifeTypeOK, OnceOK, QueuesTypeOK, NEW t \in Threads, NEW k \in Tasks,
           NEW k_too \in BOOLEAN, announce(t, k, k_too)
    PROVE  \E p : Wakes(p)
<1>0. t \in Condvars /\ k \in Condvars
  BY DEF Condvars
<1>1. waiting \in [Condvars -> Seq(Runs)] /\ OnceIn(waiting) /\ back \in Seq(Fates)
  BY DEF LifeTypeOK, OnceOK, QueuesTypeOK
<1>2. PICK w, a : w = completed(waiting, t) /\ a = woken(waiting, t)
  OBVIOUS
<1>3. /\ w \in [Condvars -> Seq(Runs)] /\ a \in Seq(Threads) /\ OnceIn(w)
      /\ \A u \in Threads :
            Count(a, u) + One(BlockedIn(w, u)) = One(BlockedIn(waiting, u))
  <2>1. w \in [Condvars -> Seq(Runs)]
    BY <1>0, <1>1, <1>2, CompletedLists
  <2>2. a \in Seq(Threads)
    BY <1>0, <1>1, <1>2, WokenThreads
  <2>3. /\ OnceIn(w)
        /\ \A u \in Threads :
            Count(a, u) + One(BlockedIn(w, u)) = One(BlockedIn(waiting, u))
    BY <1>0, <1>1, <1>2, WokenOnce
  <2>. QED BY <2>1, <2>2, <2>3
<1>4. CASE ~k_too
  <2>1. waiting' = w /\ back' = back \o a
    BY <1>2, <1>4 DEF announce
  <2>2. Wakes(a)
    BY <1>3, <2>1 DEF Wakes
  <2>. QED BY <2>2
<1>5. CASE k_too
  <2>1. PICK v, b : v = completed(w, k) /\ b = woken(w, k)
    OBVIOUS
  <2>2. v \in [Condvars -> Seq(Runs)]
    BY <1>0, <1>3, <2>1, CompletedLists
  <2>3. b \in Seq(Threads)
    BY <1>0, <1>3, <2>1, WokenThreads
  <2>4. /\ OnceIn(v)
        /\ \A u \in Threads :
            Count(b, u) + One(BlockedIn(v, u)) = One(BlockedIn(w, u))
    BY <1>0, <1>3, <2>1, WokenOnce
  <2>5. waiting' = v /\ back' = back \o a \o b
    BY <1>2, <1>5, <2>1 DEF announce
  <2>6. back' = back \o (a \o b) /\ a \o b \in Seq(Threads)
    BY <1>1, <1>3, <2>3, <2>5
  <2>7. ASSUME NEW u \in Threads
        PROVE  Count(a \o b, u) + One(BlockedIn(v, u)) = One(BlockedIn(waiting, u))
    <3>1. Count(a \o b, u) = Count(a, u) + Count(b, u)
      BY <1>3, <2>3, CountConcat
    <3>2. Count(a, u) \in Nat /\ Count(b, u) \in Nat
      BY <1>3, <2>3, CountType
    <3>3. One(BlockedIn(v, u)) \in Nat
      BY DEF One
    <3>4. /\ Count(a, u) + One(BlockedIn(w, u)) = One(BlockedIn(waiting, u))
          /\ Count(b, u) + One(BlockedIn(v, u)) = One(BlockedIn(w, u))
      BY <1>3, <2>4
    <3>. QED BY <3>1, <3>2, <3>3, <3>4
  <2>8. Wakes(a \o b)
    BY <2>2, <2>4, <2>5, <2>6, <2>7 DEF Wakes
  <2>. QED BY <2>8
<1>. QED
  BY <1>4, <1>5

\* What happens to back, and to the sums, when threads are woken.
LEMMA WakesFacts ==
    ASSUME QueuesTypeOK, NEW p, Wakes(p)
    PROVE  /\ back' \in Seq(Fates)
           /\ \A t \in Threads :
                 /\ Count(back', t) + One(BlockedIn(waiting', t))
                       = Count(back, t) + One(BlockedIn(waiting, t))
                 /\ Count(back', t) \in Nat
           /\ \A s : After(back', s) = After(back, s)
           /\ OnceOK'
<1>1. back \in Seq(Fates) /\ p \in Seq(Threads) /\ back' = back \o p
  BY DEF QueuesTypeOK, Wakes
<1>2. /\ back \o p \in Seq(Fates)
      /\ \A x : Count(back \o p, x) = Count(back, x) + Count(p, x)
      /\ \A s : After(back \o p, s) = After(back, s)
  BY <1>1, ConcatThreads
<1>3. ASSUME NEW t \in Threads
      PROVE  /\ Count(back', t) + One(BlockedIn(waiting', t))
                  = Count(back, t) + One(BlockedIn(waiting, t))
             /\ Count(back', t) \in Nat
  <2>1. Count(back, t) \in Nat /\ Count(p, t) \in Nat
    BY <1>1, CountType
  <2>2. One(BlockedIn(waiting', t)) \in Nat
    BY DEF One
  <2>3. Count(p, t) + One(BlockedIn(waiting', t)) = One(BlockedIn(waiting, t))
    BY DEF Wakes
  <2>4. Count(back', t) = Count(back, t) + Count(p, t)
    BY <1>1, <1>2
  <2>. QED BY <2>1, <2>2, <2>3, <2>4
<1>. QED
  BY <1>1, <1>2, <1>3 DEF OnceOK, Wakes

\* The queues' invariant, but for the end of the process.
Queues == QueuesTypeOK /\ PlacesOK /\ OnceOK /\ RequestsOK

\* The places of t that waking threads does not touch.
Others(t) ==
    ((Count(front, t) + Count(background, t)) + One(IsRunning(t)))
    + One(t \in mail_wait)

\* Threads that are woken leave their condvars for the run queue.  Nobody gets
\* a second place elsewhere, and only the dead lose theirs.
LEMMA WakesPlaces ==
    ASSUME Queues, NEW p, Wakes(p), QueuesTypeOK',
           \A t \in Threads :
              /\ Others(t)' <= Others(t)
              /\ state'[t] = "ALIVE" =>
                    state[t] = "ALIVE" /\ Others(t)' = Others(t)
              /\ state'[t] = "UNBORN" => state[t] = "UNBORN"
    PROVE  PlacesOK' /\ OnceOK'
<1>1. QueuesTypeOK /\ PlacesOK
  BY DEF Queues
<1>2. OnceOK'
  BY <1>1, WakesFacts
<1>3. ASSUME NEW t \in Threads
      PROVE  /\ Sum(t) \in Nat /\ Sum(t)' \in Nat
             /\ Sum(t)' <= Sum(t)
             /\ state'[t] = "ALIVE" => state[t] = "ALIVE" /\ Sum(t)' = Sum(t)
             /\ state'[t] = "UNBORN" => state[t] = "UNBORN"
  <2>1. /\ Count(front, t) \in Nat /\ Count(back, t) \in Nat
        /\ Count(background, t) \in Nat
    BY <1>1, SumParts
  <2>2. /\ Count(front', t) \in Nat /\ Count(back', t) \in Nat
        /\ Count(background', t) \in Nat
    <3>1. /\ front' \in Seq(Fates) /\ back' \in Seq(Fates)
          /\ background' \in Seq(Fates)
      BY DEF QueuesTypeOK
    <3>2. \A q \in Seq(Fates) : Count(q, t) \in Nat
      BY CountType
    <3>. QED BY <3>1, <3>2
  <2>3. Count(back', t) + One(BlockedIn(waiting', t))
           = Count(back, t) + One(BlockedIn(waiting, t))
    BY <1>1, WakesFacts
  <2>4. PICK a, b, c, r, m, w :
          /\ a = Count(front, t) /\ b = Count(back, t)
          /\ c = Count(background, t) /\ r = One(IsRunning(t))
          /\ m = One(t \in mail_wait) /\ w = One(BlockedIn(waiting, t))
    OBVIOUS
  <2>5. PICK x, y, z, s, n, v :
          /\ x = Count(front', t) /\ y = Count(back', t)
          /\ z = Count(background', t) /\ s = One(IsRunning(t)')
          /\ n = One(t \in mail_wait') /\ v = One(BlockedIn(waiting', t))
    OBVIOUS
  <2>6. /\ a \in Nat /\ b \in Nat /\ c \in Nat /\ r \in Nat /\ m \in Nat
        /\ w \in Nat /\ x \in Nat /\ y \in Nat /\ z \in Nat /\ s \in Nat
        /\ n \in Nat /\ v \in Nat
    BY <2>1, <2>2, <2>4, <2>5 DEF One
  <2>7. /\ Sum(t) = a + b + c + r + m + w
        /\ Others(t) = ((a + c) + r) + m
    BY <2>4 DEF Sum, Listed, Others
  <2>8. /\ Sum(t)' = x + y + z + s + n + v
        /\ Others(t)' = ((x + z) + s) + n
    BY <2>5 DEF Sum, Listed, Others
  <2>9. /\ Others(t)' <= Others(t)
        /\ state'[t] = "ALIVE" =>
              state[t] = "ALIVE" /\ Others(t)' = Others(t)
        /\ state'[t] = "UNBORN" => state[t] = "UNBORN"
    OBVIOUS
  <2>10. y + v = b + w
    BY <2>3, <2>4, <2>5
  <2>11. /\ ((x + z) + s) + n <= ((a + c) + r) + m
         /\ state'[t] = "ALIVE" =>
              state[t] = "ALIVE" /\ ((x + z) + s) + n = ((a + c) + r) + m
    BY <2>7, <2>8, <2>9
  <2>12. /\ a + b + c + r + m + w \in Nat /\ x + y + z + s + n + v \in Nat
         /\ x + y + z + s + n + v <= a + b + c + r + m + w
         /\ state'[t] = "ALIVE" => x + y + z + s + n + v = a + b + c + r + m + w
    BY <2>6, <2>10, <2>11
  <2>. QED BY <2>7, <2>8, <2>9, <2>11, <2>12
<1>4. PlacesOK'
  BY <1>1, <1>3, PlacesKept
<1>. QED
  BY <1>2, <1>4

\* A step that leaves back and the condvars alone wakes nobody.
LEMMA WakesNobody ==
    ASSUME LifeTypeOK, Queues, UNCHANGED <<back, waiting>>
    PROVE  Wakes(<<>>)
<1>1. waiting \in [Condvars -> Seq(Runs)] /\ back \in Seq(Fates) /\ OnceIn(waiting)
  BY DEF LifeTypeOK, Queues, QueuesTypeOK, OnceOK
<1>2. back \o <<>> = back /\ <<>> \in Seq(Threads)
  BY <1>1
<1>3. ASSUME NEW t \in Threads
      PROVE  Count(<<>>, t) + One(BlockedIn(waiting, t)) = One(BlockedIn(waiting, t))
  <2>1. Count(<<>>, t) = 0 /\ One(BlockedIn(waiting, t)) \in Nat
    BY CountEmpty DEF One
  <2>. QED BY <2>1
<1>. QED
  BY <1>1, <1>2, <1>3 DEF Wakes

\* A step that wakes threads, and leaves the other queues alone.
LEMMA WakesQueues ==
    ASSUME LifeTypeOK, Queues, NEW p, Wakes(p),
           UNCHANGED <<mail_wait, front, background, request_queue, posted, started>>,
           current_thread' \in Fates, current_thread' \notin Later(started),
           didmail' \in SUBSET (Threads \cup {Idle, Soon}),
           need_to_switch' \in BOOLEAN,
           working' \in Nat, replied' \in Nat, posted + working' <= MaxRequests,
           \A t \in Threads :
              /\ IsRunning(t)' => IsRunning(t)
              /\ state'[t] = "ALIVE" =>
                    state[t] = "ALIVE" /\ (IsRunning(t) => IsRunning(t)')
              /\ state'[t] = "UNBORN" => state[t] = "UNBORN"
    PROVE  Queues'
<1>1. QueuesTypeOK /\ RequestsOK
  BY DEF Queues
<1>2. back' \in Seq(Fates) /\ \A s : After(back', s) = After(back, s)
  BY <1>1, WakesFacts
<1>3. QueuesTypeOK'
  BY <1>1, <1>2 DEF QueuesTypeOK
<1>4. RequestsOK'
  <2>1. After(background', started) = <<>>
    BY <1>1 DEF RequestsOK
  <2>. QED BY <1>1, <1>2, <2>1, RequestsKept
<1>5. ASSUME NEW t \in Threads
      PROVE  /\ Others(t)' <= Others(t)
             /\ state'[t] = "ALIVE" =>
                   state[t] = "ALIVE" /\ Others(t)' = Others(t)
             /\ state'[t] = "UNBORN" => state[t] = "UNBORN"
  <2>1. Count(front, t) \in Nat /\ Count(background, t) \in Nat
    BY <1>1, SumParts
  <2>2. PICK a, r, s, m : /\ a = Count(front, t) + Count(background, t)
                          /\ r = One(IsRunning(t)) /\ s = One(IsRunning(t)')
                          /\ m = One(t \in mail_wait)
    OBVIOUS
  <2>3. Others(t) = (a + r) + m /\ Others(t)' = (a + s) + m
    BY <2>2 DEF Others
  <2>4. a \in Nat /\ r \in Nat /\ s \in Nat /\ m \in Nat
    BY <2>1, <2>2 DEF One
  <2>5. /\ s <= r /\ (state'[t] = "ALIVE" => state[t] = "ALIVE" /\ s = r)
        /\ state'[t] = "UNBORN" => state[t] = "UNBORN"
    BY <2>2 DEF One
  <2>. QED BY <2>3, <2>4, <2>5
<1>6. PlacesOK' /\ OnceOK'
  BY <1>3, <1>5, WakesPlaces
<1>. QED
  BY <1>3, <1>4, <1>6 DEF Queues

\* The same when nobody is woken and the threads that run are the same.
LEMMA QueuesUnchanged ==
    ASSUME LifeTypeOK, Queues,
           UNCHANGED <<state, waiting, mail_wait, front, back, background,
                       request_queue, posted, started>>,
           current_thread' \in Fates, current_thread' \notin Later(started),
           didmail' \in SUBSET (Threads \cup {Idle, Soon}),
           need_to_switch' \in BOOLEAN,
           working' \in Nat, replied' \in Nat, posted + working' <= MaxRequests,
           \A t \in Threads : IsRunning(t)' <=> IsRunning(t)
    PROVE  Queues'
<1>1. Wakes(<<>>)
  BY WakesNobody
<1>. QED
  BY <1>1, WakesQueues

-----------------------------------------------------------------------------
(* Every step keeps the queues' invariant *)

\* The types that a step needs which leaves the queues alone.
LEMMA QueuesTypes ==
    ASSUME Queues
    PROVE  /\ current_thread \in Fates /\ current_thread \notin Later(started)
           /\ didmail \in SUBSET (Threads \cup {Idle, Soon})
           /\ need_to_switch \in BOOLEAN
           /\ working \in Nat /\ replied \in Nat /\ posted \in Nat
           /\ posted + working <= MaxRequests
           /\ mail_wait \in SUBSET Threads
           /\ QueuesTypeOK
BY DEF Queues, QueuesTypeOK, RequestsOK

\* The steps of the running thread that only touch the mutex.
LEMMA CallsKeepQueues ==
    ASSUME IInv, Queues
    PROVE  /\ enter_scope => Queues'
           /\ kill_the_dead => Queues'
           /\ fire_mailop => Queues'
           /\ submit => Queues'
           /\ dispatch_next_thread__noreturn => Queues'
           /\ alarm_defers => Queues'
           /\ task_ends => Queues'
           /\ UNCHANGED vars => Queues'
<1>0. LifeTypeOK
  BY DEF IInv, Lifecycle
<1>. USE QueuesTypes
<1>1. ASSUME enter_scope PROVE Queues'
  BY <1>0, <1>1, QueuesUnchanged
  DEF enter_scope, life, conds, fg, reqs, pools, IsRunning
<1>2. ASSUME kill_the_dead PROVE Queues'
  BY <1>0, <1>2, QueuesUnchanged
  DEF kill_the_dead, ThreadCalls, Return, life, conds, fg, reqs, pools, IsRunning
<1>3. ASSUME fire_mailop PROVE Queues'
  BY <1>0, <1>3, QueuesUnchanged
  DEF fire_mailop, ThreadCalls, Return, life, conds, fg, reqs, pools, IsRunning
<1>4. ASSUME submit PROVE Queues'
  <2>1. working' \in Nat /\ posted + working' <= MaxRequests
    BY <1>4, MicrothreadsAssumption DEF submit
  <2>. QED
    BY <1>0, <1>4, <2>1, QueuesUnchanged
    DEF submit, life, conds, fg, reqs, pools, IsRunning
<1>5. ASSUME dispatch_next_thread__noreturn PROVE Queues'
  <2>1. \A t \in Threads : ~IsRunning(t) /\ ~IsRunning(t)'
    BY <1>5, FatesDiffer DEF dispatch_next_thread__noreturn, IsRunning, self
  <2>. QED
    BY <1>0, <1>5, <2>1, QueuesUnchanged
    DEF dispatch_next_thread__noreturn, life, conds, fg, reqs, pools
<1>6. ASSUME alarm_defers PROVE Queues'
  BY <1>0, <1>6, QueuesUnchanged
  DEF alarm_defers, life, conds, fg, reqs, pools, IsRunning
<1>7. ASSUME task_ends PROVE Queues'
  <2>1. /\ working' \in Nat /\ replied' \in Nat
        /\ posted + working' <= MaxRequests
    BY <1>7, MicrothreadsAssumption DEF task_ends
  <2>. QED
    BY <1>0, <1>7, <2>1, QueuesUnchanged
    DEF task_ends, life, conds, fg, reqs, pools, IsRunning
<1>8. ASSUME UNCHANGED vars PROVE Queues'
  BY <1>0, <1>8, QueuesUnchanged
  DEF vars, life, conds, fg, reqs, pools, IsRunning
<1>. QED
  BY <1>1, <1>2, <1>3, <1>4, <1>5, <1>6, <1>7, <1>8

\* The steps of the scheduler that only move from one question to the next.
LEMMA ScansKeepQueues ==
    ASSUME IInv, Queues
    PROVE  /\ dequeue_settles_for_cpu_bound => Queues'
           /\ dequeue_finds_nothing => Queues'
           /\ no_runnable_threads_left__fate => Queues'
           /\ block_until_inter_hostthread_request_queue_is_nonempty => Queues'
           /\ look_at_request_queue => Queues'
<1>0. LifeTypeOK
  BY DEF IInv, Lifecycle
<1>. USE QueuesTypes
<1>1. ASSUME dequeue_settles_for_cpu_bound PROVE Queues'
  BY <1>0, <1>1, QueuesUnchanged
  DEF dequeue_settles_for_cpu_bound, Leave, life, conds, fg, reqs, pools, IsRunning
<1>2. ASSUME dequeue_finds_nothing PROVE Queues'
  <2>1. /\ Idle \in Fates /\ Idle \notin Later(started) /\ Idle \notin Thunks
        /\ \A t \in Threads : t # Idle
    BY FatesDiffer
  <2>2. /\ current_thread' = Idle /\ UNCHANGED started
        /\ UNCHANGED <<life, conds, mail_wait, fg, background, didmail,
                       need_to_switch, reqs, pools>>
        /\ pc = "dequeue_cpu"
    BY <1>2, <2>1 DEF dequeue_finds_nothing, switch_to
  <2>3. \A t \in Threads : ~IsRunning(t) /\ ~IsRunning(t)'
    BY <2>1, <2>2 DEF IsRunning
  <2>. QED
    BY <1>0, <2>1, <2>2, <2>3, QueuesUnchanged
    DEF life, conds, fg, reqs, pools
<1>3. ASSUME no_runnable_threads_left__fate PROVE Queues'
  <2>1. \A t \in Threads : ~IsRunning(t) /\ ~IsRunning(t)'
    BY <1>3, FatesDiffer DEF no_runnable_threads_left__fate, IsRunning, self
  <2>. QED
    BY <1>0, <1>3, <2>1, QueuesUnchanged
    DEF no_runnable_threads_left__fate, life, conds, fg, reqs, pools
<1>4. ASSUME block_until_inter_hostthread_request_queue_is_nonempty PROVE Queues'
  BY <1>0, <1>4, QueuesUnchanged
  DEF block_until_inter_hostthread_request_queue_is_nonempty, Leave, life,
      conds, fg, reqs, pools, IsRunning
<1>5. ASSUME look_at_request_queue PROVE Queues'
  <2>1. /\ pc = "checked" /\ pc' \in {"dispatch", "shutdown"}
        /\ UNCHANGED current_thread
        /\ UNCHANGED <<life, conds, mail_wait, fg, background, didmail,
                       need_to_switch, reqs, started, pools>>
    BY <1>5 DEF look_at_request_queue, Leave
  <2>2. \A t \in Threads : ~IsRunning(t) /\ ~IsRunning(t)'
    BY <2>1 DEF IsRunning
  <2>. QED
    BY <1>0, <2>1, <2>2, QueuesUnchanged DEF life, conds, fg, reqs, pools
<1>. QED
  BY <1>1, <1>2, <1>3, <1>4, <1>5

\* What kills tasks and threads moves those who waited for them to the run
\* queue, and the thread that exits is gone.
LEMMA DeathsKeepQueues ==
    ASSUME IInv, Queues
    PROVE  /\ \A k \in Tasks : \A final : kill_task(k, final) => Queues'
           /\ \A t \in Threads, final \in Final : kill_thread(t, final) => Queues'
           /\ \A final \in Final :
                 mark_thread_as_done_and_dispatch_next_thread(final) => Queues'
           /\ do_handler => Queues'
<1>0. LifeTypeOK /\ OnceOK /\ QueuesTypeOK /\ state \in [Threads -> States]
  BY DEF IInv, Lifecycle, Queues, LifeTypeOK
<1>1. ASSUME NEW t \in Threads, NEW final \in Final, NEW ends_task \in BOOLEAN,
             state[t] = "ALIVE", end_thread(t, final, ends_task)
      PROVE  /\ \E p : Wakes(p)
             /\ state'[t] \notin {"ALIVE", "UNBORN"}
             /\ \A u \in Threads : u # t => state'[u] = state[u]
  <2>1. task[t] \in Tasks /\ (ends_task /\ task[t] \notin is_set) \in BOOLEAN
    BY <1>0 DEF LifeTypeOK
  <2>2. announce(t, task[t], ends_task /\ task[t] \notin is_set)
    BY <1>1 DEF end_thread
  <2>3. \E p : Wakes(p)
    BY <1>0, <2>1, <2>2, AnnounceWakes
  <2>4. state' = [state EXCEPT ![t] = final]
    BY <1>1 DEF end_thread
  <2>. QED BY <1>0, <2>3, <2>4 DEF Final
<1>2. ASSUME NEW k \in Tasks, NEW final, kill_task(k, final) PROVE Queues'
  <2>1. /\ set_condvar__iu(k) /\ k \in Condvars /\ UNCHANGED state
        /\ UNCHANGED <<mail_wait, front, background, request_queue, posted,
             started, current_thread, didmail, need_to_switch, working, replied>>
        /\ pc = "scope" /\ pc' = "run"
    BY <1>2 DEF kill_task, ThreadCalls, Return, Condvars, reqs, pools
  <2>2. PICK p : Wakes(p)
    BY <1>0, <2>1, SetWakes
  <2>. QED
    BY <1>0, <2>1, <2>2, QueuesTypes, WakesQueues DEF IsRunning
<1>3. ASSUME NEW t \in Threads, NEW final \in Final, kill_thread(t, final)
      PROVE  Queues'
  <2>1. /\ state[t] = "ALIVE" /\ end_thread(t, final, TaskCanEnd(t))
        /\ TaskCanEnd(t) \in BOOLEAN
        /\ UNCHANGED <<mail_wait, front, background, request_queue, posted,
             started, current_thread, didmail, need_to_switch, working, replied>>
        /\ pc = "scope" /\ pc' = "run"
    BY <1>3 DEF kill_thread, may_be_killed, TaskCanEnd, ThreadCalls, Return,
                reqs, pools
  <2>2. PICK p : Wakes(p)
    BY <1>1, <2>1
  <2>3. /\ state'[t] \notin {"ALIVE", "UNBORN"}
        /\ \A u \in Threads : u # t => state'[u] = state[u]
    BY <1>1, <2>1
  <2>. QED
    BY <1>0, <2>1, <2>2, <2>3, QueuesTypes, WakesQueues DEF IsRunning
<1>4. ASSUME NEW final \in Final,
             mark_thread_as_done_and_dispatch_next_thread(final)
      PROVE  Queues'
  <2>1. /\ UNCHANGED <<mail_wait, front, background, request_queue, posted,
             started, current_thread, didmail, need_to_switch, working, replied>>
        /\ pc = "scope" /\ pc' \in {"run", "dispatch"} /\ self \in Threads
    BY <1>4 DEF mark_thread_as_done_and_dispatch_next_thread, ThreadCalls,
                Return, Leave, reqs, pools
  <2>2. CASE /\ state[self] = "ALIVE"
             /\ end_thread(self, final, done_ends_task(self, final))
    <3>1. done_ends_task(self, final) \in BOOLEAN
      BY DEF done_ends_task
    <3>2. PICK p : Wakes(p)
      BY <1>1, <2>1, <2>2, <3>1
    <3>3. /\ state'[self] \notin {"ALIVE", "UNBORN"}
          /\ \A u \in Threads : u # self => state'[u] = state[u]
      BY <1>1, <2>1, <2>2, <3>1
    <3>. QED
      BY <1>0, <2>1, <3>2, <3>3, QueuesTypes, WakesQueues DEF IsRunning, self
  <2>3. CASE state[self] # "ALIVE" /\ UNCHANGED <<life, conds, back>>
    <3>1. Wakes(<<>>) /\ UNCHANGED state
      BY <1>0, <2>3, WakesNobody DEF life, conds
    <3>. QED
      BY <1>0, <2>1, <2>3, <3>1, QueuesTypes, WakesQueues DEF IsRunning, self
  <2>. QED
    BY <1>4, <2>2, <2>3 DEF mark_thread_as_done_and_dispatch_next_thread
<1>5. ASSUME do_handler PROVE Queues'
  <2>1. /\ UNCHANGED <<mail_wait, front, background, request_queue, posted,
             started, current_thread, didmail, need_to_switch, working, replied>>
        /\ pc = "scope" /\ pc' = "run" /\ self \in Threads
    BY <1>5 DEF do_handler, ThreadCalls, Return, reqs, pools
  <2>2. CASE /\ state[self] = "ALIVE"
             /\ end_thread(self, "UNCAUGHT_EXCEPTION", TaskCanEnd(self))
    <3>1. TaskCanEnd(self) \in BOOLEAN /\ "UNCAUGHT_EXCEPTION" \in Final
      BY DEF TaskCanEnd, Final
    <3>2. PICK p : Wakes(p)
      BY <1>1, <2>1, <2>2, <3>1
    <3>3. /\ state'[self] \notin {"ALIVE", "UNBORN"}
          /\ \A u \in Threads : u # self => state'[u] = state[u]
      BY <1>1, <2>1, <2>2, <3>1
    <3>. QED
      BY <1>0, <2>1, <3>2, <3>3, QueuesTypes, WakesQueues DEF IsRunning
  <2>3. CASE state[self] # "ALIVE" /\ UNCHANGED <<life, conds, back>>
    <3>1. UNCHANGED <<state, waiting, back>>
      BY <2>3 DEF life, conds
    <3>. QED
      BY <1>0, <2>1, <3>1, QueuesTypes, QueuesUnchanged DEF IsRunning
  <2>. QED
    BY <1>5, <2>2, <2>3 DEF do_handler
<1>. QED
  BY <1>2, <1>3, <1>4, <1>5

\* A thread that moves is counted in one place more and in one less; a new
\* thread gets its first.
LEMMA PlacesMoved ==
    ASSUME Queues, QueuesTypeOK',
           \A t \in Threads :
              \/ /\ Sum(t)' = Sum(t)
                 /\ state'[t] = "ALIVE" => state[t] = "ALIVE"
                 /\ state'[t] = "UNBORN" => state[t] = "UNBORN"
              \/ /\ Sum(t)' = Sum(t) + 1
                 /\ state[t] = "UNBORN" /\ state'[t] = "ALIVE"
    PROVE  PlacesOK'
<1>1. ASSUME NEW t \in Threads PROVE Sum(t) \in Nat
  <2>1. /\ Count(front, t) \in Nat /\ Count(back, t) \in Nat
        /\ Count(background, t) \in Nat
    BY SumParts DEF Queues
  <2>. QED BY <2>1 DEF Sum, Listed, One
<1>2. ASSUME NEW t \in Threads
      PROVE  /\ Sum(t)' <= 1
             /\ state'[t] = "ALIVE" => Sum(t)' = 1
             /\ state'[t] = "UNBORN" => Sum(t)' = 0
  <2>1. PICK a, b : a = Sum(t) /\ b = Sum(t)'
    OBVIOUS
  <2>2. /\ a \in Nat /\ a <= 1
        /\ state[t] = "ALIVE" => a = 1
        /\ state[t] = "UNBORN" => a = 0
    BY <1>1, <2>1 DEF Queues, PlacesOK
  <2>3. \/ /\ b = a
           /\ state'[t] = "ALIVE" => state[t] = "ALIVE"
           /\ state'[t] = "UNBORN" => state[t] = "UNBORN"
        \/ b = a + 1 /\ state[t] = "UNBORN" /\ state'[t] = "ALIVE"
    BY <2>1
  <2>. QED BY <2>1, <2>2, <2>3
<1>. QED
  BY <1>2 DEF PlacesOK

\* install_new_thread queues the running thread behind all requests.
LEMMA InstallFacts ==
    ASSUME Queues, NEW t \in Threads, install_new_thread(t)
    PROVE  /\ back' \in Seq(Fates)
           /\ \A u \in Threads :
                 Count(back', u) = Count(back, u) + One(u = current_thread)
           /\ After(back', started) =
                 After(back, started) \o After(Backward(request_queue), started)
           /\ current_thread' = t /\ current_thread' \in Fates
           /\ current_thread' \notin Later(started)
           /\ didmail' \in SUBSET (Threads \cup {Idle, Soon})
           /\ request_queue' = <<>> /\ request_queue' \in Seq(Thunks)
           /\ pc' = "run"
           /\ UNCHANGED <<front, need_to_switch, posted>>
<1>1. /\ back_with_requests \in Seq(Fates)
      /\ \A u \in Threads : Count(back_with_requests, u) = Count(back, u)
      /\ After(back_with_requests, started) =
            After(back, started) \o After(Backward(request_queue), started)
  BY BackWithRequests DEF Queues
<1>2. current_thread \in Fates /\ current_thread \notin Later(started)
  BY QueuesTypes
<1>3. /\ Append(back_with_requests, current_thread) \in Seq(Fates)
      /\ \A x : Count(Append(back_with_requests, current_thread), x) =
                   Count(back_with_requests, x) + One(x = current_thread)
      /\ After(Append(back_with_requests, current_thread), started) =
            After(back_with_requests, started)
  BY <1>1, <1>2, AppendFate
<1>4. back' = Append(back_with_requests, current_thread)
  BY DEF install_new_thread, self
<1>5. t \in Fates /\ t \notin Later(started)
  BY FatesDiffer
<1>6. didmail' \in SUBSET (Threads \cup {Idle, Soon})
  <2>1. Record(current_thread) \in Threads \cup {Idle, Soon}
    BY <1>2, FatesDiffer
  <2>. QED BY <2>1, QueuesTypes DEF install_new_thread, self
<1>7. <<>> \in Seq(Thunks)
  OBVIOUS
<1>. QED
  BY <1>1, <1>3, <1>4, <1>5, <1>6, <1>7 DEF install_new_thread, TakesRequests

\* The running thread goes to the back of the queue and another one is
\* installed, which is new or waited for mail.
LEMMA InstallsKeepQueues ==
    ASSUME IInv, Queues, NEW t \in Threads, install_new_thread(t), pc = "scope",
           UNCHANGED <<waiting, background, started, working, replied>>,
           \/ /\ state[t] = "UNBORN" /\ state' = [state EXCEPT ![t] = "ALIVE"]
              /\ UNCHANGED mail_wait
           \/ t \in mail_wait /\ mail_wait' = mail_wait \ {t} /\ UNCHANGED state
    PROVE  Queues'
<1>1. /\ back' \in Seq(Fates)
      /\ \A u \in Threads :
            Count(back', u) = Count(back, u) + One(u = current_thread)
      /\ After(back', started) =
            After(back, started) \o After(Backward(request_queue), started)
      /\ current_thread' = t /\ current_thread' \in Fates
      /\ current_thread' \notin Later(started)
      /\ didmail' \in SUBSET (Threads \cup {Idle, Soon})
      /\ request_queue' = <<>> /\ request_queue' \in Seq(Thunks)
      /\ pc' = "run"
      /\ UNCHANGED <<front, need_to_switch, posted>>
  BY InstallFacts
<1>2. QueuesTypeOK /\ PlacesOK /\ OnceOK /\ RequestsOK
  BY DEF Queues
<1>3. QueuesTypeOK'
  BY <1>1, <1>2 DEF QueuesTypeOK
<1>4. RequestsOK'
  <2>1. After(background', started) = <<>>
    BY <1>2 DEF RequestsOK
  <2>. QED BY <1>1, <1>2, <2>1, RequestsKept
<1>5. ASSUME NEW u \in Threads
      PROVE  \/ /\ Sum(u)' = Sum(u)
                /\ state'[u] = "ALIVE" => state[u] = "ALIVE"
                /\ state'[u] = "UNBORN" => state[u] = "UNBORN"
             \/ /\ Sum(u)' = Sum(u) + 1
                /\ state[u] = "UNBORN" /\ state'[u] = "ALIVE"
  <2>1. /\ Count(front, u) \in Nat /\ Count(back, u) \in Nat
        /\ Count(background, u) \in Nat
    BY <1>2, SumParts
  <2>2. PICK f, w : /\ f = Count(front, u) + Count(background, u)
                    /\ w = One(BlockedIn(waiting, u))
    OBVIOUS
  <2>3. f \in Nat /\ w \in Nat
    BY <2>1, <2>2 DEF One
  <2>4. PICK b : b = Count(back, u)
    OBVIOUS
  <2>5. b \in Nat
    BY <2>1, <2>4
  <2>6. Sum(u) = ((f + b) + One(u = current_thread)) + One(u \in mail_wait) + w
    BY <2>1, <2>2, <2>3, <2>4 DEF Sum, Listed, IsRunning, One
  <2>7. Sum(u)' = ((f + b + One(u = current_thread)) + One(u = t))
                    + One(u \in mail_wait') + w
    BY <1>1, <2>1, <2>2, <2>3, <2>4 DEF Sum, Listed, IsRunning, One
  <2>8. CASE /\ state[t] = "UNBORN" /\ state' = [state EXCEPT ![t] = "ALIVE"]
             /\ UNCHANGED mail_wait
    <3>1. state \in [Threads -> States]
      BY DEF IInv, Lifecycle, LifeTypeOK
    <3>2. CASE u = t
      <4>1. state[u] = "UNBORN" /\ state'[u] = "ALIVE"
        BY <2>8, <3>1, <3>2
      <4>. QED BY <2>3, <2>5, <2>6, <2>7, <2>8, <3>2, <4>1 DEF One
    <3>3. CASE u # t
      <4>1. state'[u] = state[u]
        BY <2>8, <3>1, <3>3
      <4>. QED BY <2>3, <2>5, <2>6, <2>7, <2>8, <3>3, <4>1 DEF One
    <3>. QED BY <3>2, <3>3
  <2>9. CASE t \in mail_wait /\ mail_wait' = mail_wait \ {t} /\ UNCHANGED state
    <3>1. Sum(u)' = Sum(u)
      BY <2>3, <2>5, <2>6, <2>7, <2>9 DEF One
    <3>. QED BY <2>9, <3>1
  <2>. QED BY <2>8, <2>9
<1>6. PlacesOK'
  BY <1>3, <1>5, PlacesMoved
<1>. QED
  BY <1>2, <1>3, <1>4, <1>6 DEF Queues, OnceOK

\* make_thread, hand_over, and switch_to_thread__xu when no switch is due.
LEMMA SwitchesKeepQueues ==
    ASSUME IInv, Queues, NEW t \in Threads
    PROVE  /\ \A k : make_thread(t, k) => Queues'
           /\ hand_over(t) => Queues'
           /\ switch_to_thread__xu(t) /\ ~need_to_switch => Queues'
<1>1. ASSUME NEW k, make_thread(t, k) PROVE Queues'
  <2>1. /\ install_new_thread(t) /\ pc = "scope"
        /\ UNCHANGED <<waiting, background, started, working, replied>>
        /\ state[t] = "UNBORN" /\ state' = [state EXCEPT ![t] = "ALIVE"]
        /\ UNCHANGED mail_wait
    BY <1>1 DEF make_thread, ThreadCalls, conds, pools
  <2>. QED BY <2>1, InstallsKeepQueues
<1>2. ASSUME hand_over(t) PROVE Queues'
  <2>1. /\ install_new_thread(t) /\ pc = "scope"
        /\ UNCHANGED <<waiting, background, started, working, replied>>
        /\ t \in mail_wait /\ mail_wait' = mail_wait \ {t} /\ UNCHANGED state
    BY <1>2 DEF hand_over, life, conds, pools
  <2>. QED BY <2>1, InstallsKeepQueues
<1>3. ASSUME switch_to_thread__xu(t), ~need_to_switch PROVE Queues'
  <2>1. /\ install_new_thread(t) /\ pc = "scope"
        /\ UNCHANGED <<waiting, background, started, working, replied>>
        /\ t \in mail_wait /\ mail_wait' = mail_wait \ {t} /\ UNCHANGED state
    BY <1>3 DEF switch_to_thread__xu, life, conds, pools
  <2>. QED BY <2>1, InstallsKeepQueues
<1>. QED
  BY <1>1, <1>2, <1>3

\* What Sum is made of, for the steps that change one or two of its parts.
LEMMA SumIs ==
    ASSUME QueuesTypeOK, NEW t
    PROVE  \E f, b, g : /\ f \in Nat /\ b \in Nat /\ g \in Nat
                        /\ f = Count(front, t) /\ b = Count(back, t)
                        /\ g = Count(background, t)
                        /\ Sum(t) = (f + b + g) + One(IsRunning(t))
                                      + One(t \in mail_wait)
                                      + One(BlockedIn(waiting, t))
BY SumParts DEF Sum, Listed

\* yield: the running thread goes to the back of the queue.
LEMMA YieldKeepsQueues ==
    ASSUME IInv, Queues, yield
    PROVE  Queues'
<1>1. /\ pc = "scope" /\ pc' = "dispatch" /\ current_thread \in Threads
      /\ back' = Append(back, current_thread)
      /\ didmail' = didmail \cup {current_thread}
      /\ UNCHANGED <<state, waiting, mail_wait, front, background, current_thread,
            need_to_switch, request_queue, posted, started, working, replied>>
  BY DEF yield, ThreadCalls, Leave, self, life, conds, reqs, pools
<1>2. QueuesTypeOK /\ PlacesOK /\ OnceOK /\ RequestsOK
  BY DEF Queues
<1>3. /\ Append(back, current_thread) \in Seq(Fates)
      /\ \A x : Count(Append(back, current_thread), x) =
                   Count(back, x) + One(x = current_thread)
      /\ After(Append(back, current_thread), started) = After(back, started)
  <2>1. back \in Seq(Fates) /\ current_thread \in Fates
        /\ current_thread \notin Later(started)
    BY <1>2 DEF QueuesTypeOK, RequestsOK
  <2>. QED BY <2>1, AppendFate
<1>4. QueuesTypeOK'
  BY <1>1, <1>2, <1>3 DEF QueuesTypeOK
<1>5. RequestsOK'
  BY <1>1, <1>2, <1>3, RequestsKept DEF RequestsOK
<1>6. ASSUME NEW u \in Threads PROVE Sum(u)' = Sum(u)
  <2>1. PICK f, b, g : /\ f \in Nat /\ b \in Nat /\ g \in Nat
                       /\ f = Count(front, u) /\ b = Count(back, u)
                       /\ g = Count(background, u)
                       /\ Sum(u) = (f + b + g) + One(IsRunning(u))
                                     + One(u \in mail_wait)
                                     + One(BlockedIn(waiting, u))
    BY <1>2, SumIs
  <2>2. Sum(u)' = (f + (b + One(u = current_thread)) + g) + One(FALSE)
                    + One(u \in mail_wait) + One(BlockedIn(waiting, u))
    BY <1>1, <1>3, <2>1 DEF Sum, Listed, IsRunning
  <2>3. IsRunning(u) <=> u = current_thread
    BY <1>1 DEF IsRunning
  <2>. QED BY <2>1, <2>2, <2>3 DEF One
<1>7. PlacesOK'
  BY <1>1, <1>4, <1>6, PlacesMoved
<1>. QED
  BY <1>1, <1>2, <1>4, <1>5, <1>7 DEF Queues, OnceOK

\* A thread blocks for mail, a timeout or I/O.
LEMMA BlockKeepsQueues ==
    ASSUME IInv, Queues, block_for_mail
    PROVE  Queues'
<1>1. /\ pc = "scope" /\ pc' = "dispatch" /\ current_thread \in Threads
      /\ mail_wait' = mail_wait \cup {current_thread}
      /\ UNCHANGED <<state, waiting, front, back, background, current_thread,
            didmail, need_to_switch, request_queue, posted, started, working,
            replied>>
  BY DEF block_for_mail, ThreadCalls, Leave, self, life, conds, fg, reqs, pools
<1>2. QueuesTypeOK /\ PlacesOK /\ OnceOK /\ RequestsOK
  BY DEF Queues
<1>4. QueuesTypeOK'
  BY <1>1, <1>2 DEF QueuesTypeOK
<1>5. RequestsOK'
  BY <1>1, <1>2, RequestsKept DEF RequestsOK
<1>6. ASSUME NEW u \in Threads PROVE Sum(u)' = Sum(u)
  <2>1. PICK f, b, g : /\ f \in Nat /\ b \in Nat /\ g \in Nat
                       /\ f = Count(front, u) /\ b = Count(back, u)
                       /\ g = Count(background, u)
                       /\ Sum(u) = (f + b + g) + One(IsRunning(u))
                                     + One(u \in mail_wait)
                                     + One(BlockedIn(waiting, u))
    BY <1>2, SumIs
  <2>2. Sum(u)' = (f + b + g) + One(FALSE)
                    + One(u \in mail_wait \/ u = current_thread)
                    + One(BlockedIn(waiting, u))
    BY <1>1, <2>1 DEF Sum, Listed, IsRunning, One
  <2>3. (IsRunning(u) <=> u = current_thread) /\ Sum(u) <= 1
    BY <1>1, <1>2 DEF IsRunning, PlacesOK
  <2>. QED BY <2>1, <2>2, <2>3 DEF One
<1>7. PlacesOK'
  BY <1>1, <1>4, <1>6, PlacesMoved
<1>. QED
  BY <1>1, <1>2, <1>4, <1>5, <1>7 DEF Queues, OnceOK

\* A thread blocks on condvars: it was blocked on none.
LEMMA WaitKeepsQueues ==
    ASSUME IInv, Queues, NEW S \in SUBSET Condvars, S # {}, wait_on_condvars(S)
    PROVE  Queues'
<1>1. /\ pc = "scope" /\ pc' = "dispatch" /\ current_thread \in Threads
      /\ waiting' = [c \in Condvars |->
                       IF c \in S THEN Append(waiting[c], Run(current_thread))
                                  ELSE waiting[c]]
      /\ UNCHANGED <<state, mail_wait, front, back, background, current_thread,
            didmail, need_to_switch, request_queue, posted, started, working,
            replied>>
  BY DEF wait_on_condvars, ThreadCalls, Leave, Run, self, life, fg, reqs, pools
<1>2. QueuesTypeOK /\ PlacesOK /\ OnceOK /\ RequestsOK
  BY DEF Queues
<1>3. waiting \in [Condvars -> Seq(Runs)]
  BY DEF IInv, Lifecycle, LifeTypeOK
<1>4. QueuesTypeOK'
  BY <1>1, <1>2 DEF QueuesTypeOK
<1>5. RequestsOK'
  BY <1>1, <1>2, RequestsKept DEF RequestsOK
<1>6. ~BlockedIn(waiting, current_thread)
  <2>1. PICK f, b, g : /\ f \in Nat /\ b \in Nat /\ g \in Nat
                       /\ Sum(current_thread) =
                            (f + b + g) + One(IsRunning(current_thread))
                              + One(current_thread \in mail_wait)
                              + One(BlockedIn(waiting, current_thread))
    BY <1>2, SumIs
  <2>2. IsRunning(current_thread) /\ Sum(current_thread) <= 1
    BY <1>1, <1>2 DEF IsRunning, PlacesOK
  <2>. QED BY <2>1, <2>2 DEF One
<1>7. ASSUME NEW u \in Threads, NEW c \in Condvars
      PROVE  /\ Count(waiting[c], Run(u)) \in Nat
             /\ Count(waiting'[c], Run(u)) = Count(waiting[c], Run(u))
                   + One(c \in S /\ u = current_thread)
  <2>1. PICK q, r : q = waiting[c] /\ r = Run(current_thread)
    OBVIOUS
  <2>2. q \in Seq(Runs) /\ r \in Runs /\ (Run(u) = r <=> u = current_thread)
    BY <1>1, <1>3, <2>1 DEF Run, Runs
  <2>3. Count(q, Run(u)) \in Nat
    BY <2>2, CountType
  <2>4. Count(Append(q, r), Run(u)) = Count(q, Run(u)) + One(Run(u) = r)
    BY <2>2, CountAppend DEF One
  <2>5. waiting'[c] = IF c \in S THEN Append(q, r) ELSE q
    BY <1>1, <2>1
  <2>. QED BY <2>1, <2>2, <2>3, <2>4, <2>5 DEF One
<1>8. OnceOK'
  <2>1. ASSUME NEW u \in Threads, NEW c \in Condvars
        PROVE  Count(waiting'[c], Run(u)) <= 1
    <3>1. u = current_thread => Count(waiting[c], Run(u)) = 0
      BY <1>6 DEF BlockedIn
    <3>2. Count(waiting[c], Run(u)) <= 1
      BY <1>2 DEF OnceOK, OnceIn
    <3>. QED BY <1>7, <3>1, <3>2 DEF One
  <2>. QED BY <2>1 DEF OnceOK, OnceIn
<1>9. ASSUME NEW u \in Threads
      PROVE  BlockedIn(waiting', u) <=> BlockedIn(waiting, u) \/ u = current_thread
  <2>1. CASE u = current_thread
    <3>1. PICK c \in Condvars : c \in S
      OBVIOUS
    <3>2. Count(waiting'[c], Run(u)) # 0
      BY <1>7, <2>1, <3>1 DEF One
    <3>. QED BY <2>1, <3>2 DEF BlockedIn
  <2>2. CASE u # current_thread
    <3>1. \A c \in Condvars : Count(waiting'[c], Run(u)) = Count(waiting[c], Run(u))
      BY <1>7, <2>2 DEF One
    <3>. QED BY <2>2, <3>1 DEF BlockedIn
  <2>. QED BY <2>1, <2>2
<1>10. ASSUME NEW u \in Threads PROVE Sum(u)' = Sum(u)
  <2>1. PICK f, b, g : /\ f \in Nat /\ b \in Nat /\ g \in Nat
                       /\ f = Count(front, u) /\ b = Count(back, u)
                       /\ g = Count(background, u)
                       /\ Sum(u) = (f + b + g) + One(IsRunning(u))
                                     + One(u \in mail_wait)
                                     + One(BlockedIn(waiting, u))
    BY <1>2, SumIs
  <2>2. Sum(u)' = (f + b + g) + One(FALSE) + One(u \in mail_wait)
                    + One(BlockedIn(waiting', u))
    BY <1>1, <2>1 DEF Sum, Listed, IsRunning, One
  <2>3. IsRunning(u) <=> u = current_thread
    BY <1>1 DEF IsRunning
  <2>4. u = current_thread => ~BlockedIn(waiting, u)
    BY <1>6
  <2>. QED BY <1>9, <2>1, <2>2, <2>3, <2>4 DEF One
<1>11. PlacesOK'
  BY <1>1, <1>4, <1>10, PlacesMoved
<1>. QED
  BY <1>4, <1>5, <1>8, <1>11 DEF Queues

\* switch_to_thread__xu when a switch is due: both threads go to the back of
\* the queue, behind all requests.
LEMMA SwitchDueKeepsQueues ==
    ASSUME IInv, Queues, NEW t \in Threads, switch_to_thread__xu(t), need_to_switch
    PROVE  Queues'
<1>1. /\ pc = "scope" /\ pc' = "scheduler" /\ t \in mail_wait
      /\ mail_wait' = mail_wait \ {t}
      /\ need_to_switch' = FALSE /\ request_queue' = <<>>
      /\ back' = back_with_requests \o <<t, current_thread>>
      /\ UNCHANGED <<state, waiting, front, background, current_thread,
            didmail, posted, started, working, replied>>
  BY DEF switch_to_thread__xu, install_new_thread, TakesRequests, Leave, self,
         life, conds, pools
<1>2. QueuesTypeOK /\ PlacesOK /\ OnceOK /\ RequestsOK
  BY DEF Queues
<1>3. /\ back' \in Seq(Fates)
      /\ \A u \in Threads :
            Count(back', u) = (Count(back, u) + One(u = t)) + One(u = current_thread)
      /\ After(back', started) =
            After(back, started) \o After(Backward(request_queue), started)
  <2>1. /\ back_with_requests \in Seq(Fates)
        /\ \A u \in Threads : Count(back_with_requests, u) = Count(back, u)
        /\ After(back_with_requests, started) =
              After(back, started) \o After(Backward(request_queue), started)
    BY <1>2, BackWithRequests
  <2>2. t \in Fates /\ t \notin Later(started)
    BY FatesDiffer
  <2>3. current_thread \in Fates /\ current_thread \notin Later(started)
    BY <1>2 DEF QueuesTypeOK, RequestsOK
  <2>4. PICK q : q = back_with_requests
    OBVIOUS
  <2>5. /\ q \o <<t, current_thread>> \in Seq(Fates)
        /\ \A u : Count(q \o <<t, current_thread>>, u)
                     = (Count(q, u) + One(u = t)) + One(u = current_thread)
        /\ After(q \o <<t, current_thread>>, started) = After(q, started)
    BY <2>1, <2>2, <2>3, <2>4, AppendTwo
  <2>. QED BY <1>1, <2>1, <2>4, <2>5
<1>4. QueuesTypeOK'
  <2>1. <<>> \in Seq(Thunks)
    OBVIOUS
  <2>. QED BY <1>1, <1>2, <1>3, <2>1 DEF QueuesTypeOK
<1>5. RequestsOK'
  BY <1>1, <1>2, <1>3, RequestsKept DEF RequestsOK
<1>6. ASSUME NEW u \in Threads PROVE Sum(u)' = Sum(u)
  <2>1. PICK f, b, g : /\ f \in Nat /\ b \in Nat /\ g \in Nat
                       /\ f = Count(front, u) /\ b = Count(back, u)
                       /\ g = Count(background, u)
                       /\ Sum(u) = (f + b + g) + One(IsRunning(u))
                                     + One(u \in mail_wait)
                                     + One(BlockedIn(waiting, u))
    BY <1>2, SumIs
  <2>2. Sum(u)' = (f + ((b + One(u = t)) + One(u = current_thread)) + g)
                    + One(FALSE) + One(u \in mail_wait /\ u # t)
                    + One(BlockedIn(waiting, u))
    BY <1>1, <1>3, <2>1 DEF Sum, Listed, IsRunning, One
  <2>3. IsRunning(u) <=> u = current_thread
    BY <1>1 DEF IsRunning
  <2>4. PICK x, y, z, w : /\ x = One(u = current_thread) /\ y = One(u = t)
                          /\ z = One(u \in mail_wait /\ u # t)
                          /\ w = One(BlockedIn(waiting, u))
    OBVIOUS
  <2>5. x \in Nat /\ y \in Nat /\ z \in Nat /\ w \in Nat
    BY <2>4 DEF One
  <2>6. One(IsRunning(u)) = x /\ One(u \in mail_wait) = z + y /\ One(FALSE) = 0
    BY <1>1, <2>3, <2>4 DEF One
  <2>7. Sum(u) = (f + b + g) + x + (z + y) + w
    BY <2>1, <2>4, <2>6
  <2>8. Sum(u)' = (f + ((b + y) + x) + g) + 0 + z + w
    BY <2>2, <2>4, <2>6
  <2>. QED BY <2>1, <2>5, <2>7, <2>8
<1>7. PlacesOK'
  BY <1>1, <1>4, <1>6, PlacesMoved
<1>. QED
  BY <1>1, <1>2, <1>4, <1>5, <1>7 DEF Queues, OnceOK

\* make_task queues its threads once each.
LEMMA MakeTaskKeepsQueues ==
    ASSUME IInv, Queues, NEW k \in Tasks, NEW team \in Teams, make_task(k, team)
    PROVE  Queues'
<1>1. PICK n \in 0 .. MaxTeam : team \in [1 .. n -> Threads]
  BY DEF Teams
<1>2. /\ n \in Nat /\ team \in Seq(Threads) /\ Len(team) = n
      /\ DOMAIN team = 1 .. n
  BY <1>1, MicrothreadsAssumption
<1>3. /\ pc = "scope" /\ pc' = "run"
      /\ \A i \in 1 .. n : state[team[i]] = "UNBORN"
      /\ \A i, j \in 1 .. n : team[i] = team[j] => i = j
      /\ state' = [t \in Threads |-> IF IsIn(t, team) THEN "ALIVE" ELSE state[t]]
      /\ didmail' = didmail \cup {t \in Threads : IsIn(t, team)}
      /\ back' = back \o team
      /\ UNCHANGED <<waiting, mail_wait, front, background, current_thread,
            need_to_switch, request_queue, posted, started, working, replied>>
  BY <1>2 DEF make_task, ThreadCalls, Return, conds, reqs, pools
<1>4. QueuesTypeOK /\ PlacesOK /\ OnceOK /\ RequestsOK
  BY DEF Queues
<1>5. ASSUME NEW u \in Threads
      PROVE  /\ Count(team, u) = One(IsIn(u, team))
             /\ IsIn(u, team) => state[u] = "UNBORN"
  <2>1. CASE IsIn(u, team)
    <3>1. PICK i \in 1 .. n : team[i] = u
      BY <1>2, <2>1 DEF IsIn
    <3>2. Positions(team, u) = {i}
      BY <1>2, <1>3, <3>1 DEF Positions
    <3>. QED BY <1>3, <2>1, <3>1, <3>2, FS_Singleton DEF Count, One
  <2>2. CASE ~IsIn(u, team)
    <3>1. Positions(team, u) = {}
      BY <1>2, <2>2 DEF Positions, IsIn
    <3>. QED BY <2>2, <3>1, FS_EmptySet DEF Count, One
  <2>. QED BY <2>1, <2>2
<1>6. /\ back' \in Seq(Fates)
      /\ \A u : Count(back', u) = Count(back, u) + Count(team, u)
      /\ After(back', started) = After(back, started)
  <2>1. back \in Seq(Fates)
    BY <1>4 DEF QueuesTypeOK
  <2>. QED BY <1>2, <1>3, <2>1, ConcatThreads
<1>7. QueuesTypeOK'
  BY <1>3, <1>4, <1>6 DEF QueuesTypeOK
<1>8. RequestsOK'
  BY <1>3, <1>4, <1>6, RequestsKept DEF RequestsOK
<1>9. ASSUME NEW u \in Threads
      PROVE  \/ /\ Sum(u)' = Sum(u)
                /\ state'[u] = "ALIVE" => state[u] = "ALIVE"
                /\ state'[u] = "UNBORN" => state[u] = "UNBORN"
             \/ /\ Sum(u)' = Sum(u) + 1
                /\ state[u] = "UNBORN" /\ state'[u] = "ALIVE"
  <2>1. PICK f, b, g : /\ f \in Nat /\ b \in Nat /\ g \in Nat
                       /\ f = Count(front, u) /\ b = Count(back, u)
                       /\ g = Count(background, u)
                       /\ Sum(u) = (f + b + g) + One(IsRunning(u))
                                     + One(u \in mail_wait)
                                     + One(BlockedIn(waiting, u))
    BY <1>4, SumIs
  <2>2. IsRunning(u)' <=> IsRunning(u)
    BY <1>3 DEF IsRunning
  <2>3. Sum(u)' = (f + (b + One(IsIn(u, team))) + g) + One(IsRunning(u))
                    + One(u \in mail_wait) + One(BlockedIn(waiting, u))
    BY <1>3, <1>5, <1>6, <2>1, <2>2 DEF Sum, Listed, One
  <2>4. CASE IsIn(u, team)
    BY <1>3, <1>5, <2>1, <2>3, <2>4 DEF One
  <2>5. CASE ~IsIn(u, team)
    BY <1>3, <2>1, <2>3, <2>5 DEF One
  <2>. QED BY <2>4, <2>5
<1>10. PlacesOK'
  BY <1>7, <1>9, PlacesMoved
<1>. QED
  BY <1>3, <1>4, <1>7, <1>8, <1>10 DEF Queues, OnceOK

\* The driver queues a thread that waited.
LEMMA DriverKeepsQueues ==
    ASSUME IInv, Queues, driver,
           pc \in {"scheduler", "no_runnable"}, pc' \notin {"run", "scope"},
           UNCHANGED <<state, waiting, front, background, current_thread,
              need_to_switch, request_queue, posted, started, working, replied>>
    PROVE  Queues'
<1>0. LifeTypeOK /\ QueuesTypeOK /\ PlacesOK /\ OnceOK /\ RequestsOK
  BY DEF Queues, IInv, Lifecycle
<1>1. CASE UNCHANGED <<mail_wait, didmail, back>>
  <2>1. \A t \in Threads : IsRunning(t)' <=> IsRunning(t)
    BY DEF IsRunning
  <2>. QED BY <1>0, <1>1, <2>1, QueuesTypes, QueuesUnchanged
<1>2. CASE \E t \in mail_wait : /\ mail_wait' = mail_wait \ {t}
                                /\ didmail' = didmail \cup {t}
                                /\ back' = Append(back, t)
  <2>1. PICK t \in Threads : /\ t \in mail_wait
                             /\ mail_wait' = mail_wait \ {t}
                             /\ didmail' = didmail \cup {t}
                             /\ back' = Append(back, t)
    BY <1>0, <1>2 DEF QueuesTypeOK
  <2>2. /\ Append(back, t) \in Seq(Fates)
        /\ \A x : Count(Append(back, t), x) = Count(back, x) + One(x = t)
        /\ After(Append(back, t), started) = After(back, started)
    <3>1. back \in Seq(Fates) /\ t \in Fates /\ t \notin Later(started)
      BY <1>0, FatesDiffer DEF QueuesTypeOK
    <3>. QED BY <3>1, AppendFate
  <2>3. QueuesTypeOK'
    BY <1>0, <2>1, <2>2 DEF QueuesTypeOK
  <2>4. RequestsOK'
    BY <1>0, <2>1, <2>2, RequestsKept DEF RequestsOK
  <2>5. ASSUME NEW u \in Threads PROVE Sum(u)' = Sum(u)
    <3>1. PICK f, b, g : /\ f \in Nat /\ b \in Nat /\ g \in Nat
                         /\ f = Count(front, u) /\ b = Count(back, u)
                         /\ g = Count(background, u)
                         /\ Sum(u) = (f + b + g) + One(IsRunning(u))
                                       + One(u \in mail_wait)
                                       + One(BlockedIn(waiting, u))
      BY <1>0, SumIs
    <3>2. Sum(u)' = (f + (b + One(u = t)) + g) + One(FALSE)
                      + One(u \in mail_wait /\ u # t)
                      + One(BlockedIn(waiting, u))
      BY <2>1, <2>2, <3>1 DEF Sum, Listed, IsRunning, One
    <3>3. ~IsRunning(u)
      BY DEF IsRunning
    <3>4. PICK y, z, w : /\ y = One(u = t) /\ z = One(u \in mail_wait /\ u # t)
                         /\ w = One(BlockedIn(waiting, u))
      OBVIOUS
    <3>5. y \in Nat /\ z \in Nat /\ w \in Nat
      BY <3>4 DEF One
    <3>6. /\ One(IsRunning(u)) = 0 /\ One(u \in mail_wait) = z + y
          /\ One(FALSE) = 0
      BY <2>1, <3>3, <3>4 DEF One
    <3>7. Sum(u) = (f + b + g) + 0 + (z + y) + w
      BY <3>1, <3>4, <3>6
    <3>8. Sum(u)' = (f + (b + y) + g) + 0 + z + w
      BY <3>2, <3>4, <3>6
    <3>. QED BY <3>1, <3>5, <3>7, <3>8
  <2>6. PlacesOK'
    BY <2>3, <2>5, PlacesMoved
  <2>. QED
    BY <1>0, <2>3, <2>4, <2>6 DEF Queues, OnceOK
<1>. QED
  BY <1>1, <1>2 DEF driver

\* wake_sleeping_threads and look_for_work run the driver.
LEMMA DriverStepsKeepQueues ==
    ASSUME IInv, Queues
    PROVE  /\ wake_sleeping_threads => Queues'
           /\ look_for_work => Queues'
<1>1. ASSUME wake_sleeping_threads PROVE Queues'
  <2>1. /\ driver /\ pc = "scheduler" /\ pc' = "dispatch"
        /\ UNCHANGED <<state, waiting, front, background, current_thread,
              need_to_switch, request_queue, posted, started, working, replied>>
    BY <1>1 DEF wake_sleeping_threads, Leave, life, conds, reqs, pools
  <2>. QED BY <2>1, DriverKeepsQueues
<1>2. ASSUME look_for_work PROVE Queues'
  <2>1. /\ driver /\ pc = "no_runnable"
        /\ pc' \in {"dispatch", "blocked", "checked"}
        /\ UNCHANGED <<state, waiting, front, background, current_thread,
              need_to_switch, request_queue, posted, started, working, replied>>
    BY <1>2 DEF look_for_work, Leave, life, conds, reqs, pools
  <2>. QED BY <2>1, DriverKeepsQueues
<1>. QED
  BY <1>1, <1>2

\* The requests go to the back of the foreground queue.
LEMMA DispatchKeepsQueues ==
    ASSUME IInv, Queues, dispatch_next_thread__usend__noreturn
    PROVE  Queues'
<1>0. QueuesTypeOK /\ PlacesOK /\ OnceOK /\ RequestsOK
  BY DEF Queues
<1>1. /\ pc = "dispatch" /\ pc' \in {"scheduler", "dequeue"}
      /\ request_queue' = <<>> /\ back' = back_with_requests
      /\ need_to_switch' = FALSE
      /\ UNCHANGED <<state, waiting, mail_wait, front, background,
            current_thread, didmail, posted, started, working, replied>>
  BY DEF dispatch_next_thread__usend__noreturn, TakesRequests, Leave, life,
         conds, pools
<1>2. /\ back' \in Seq(Fates)
      /\ \A t \in Threads : Count(back', t) = Count(back, t)
      /\ After(back', started) =
            After(back, started) \o After(Backward(request_queue), started)
  BY <1>0, <1>1, BackWithRequests
<1>3. QueuesTypeOK'
  <2>1. <<>> \in Seq(Thunks)
    OBVIOUS
  <2>. QED BY <1>0, <1>1, <1>2, <2>1 DEF QueuesTypeOK
<1>4. RequestsOK'
  BY <1>0, <1>1, <1>2, RequestsKept DEF RequestsOK
<1>5. ASSUME NEW u \in Threads PROVE Sum(u)' = Sum(u)
  <2>1. IsRunning(u)' <=> IsRunning(u)
    BY <1>1 DEF IsRunning
  <2>. QED BY <1>1, <1>2, <2>1 DEF Sum, Listed, One
<1>6. PlacesOK'
  BY <1>1, <1>3, <1>5, PlacesMoved
<1>. QED
  BY <1>0, <1>1, <1>3, <1>4, <1>6 DEF Queues, OnceOK

\* A preempted thread stays in the foreground, and a thread of the background
\* queue goes before it, if it did mail; else it goes to the background queue.
LEMMA PreemptFacts ==
    ASSUME Queues, TakesRequests, preempt__eu
    PROVE  /\ back' \in Seq(Fates) /\ background' \in Seq(Fates)
           /\ \A t \in Threads :
                 Count(back', t) + Count(background', t) =
                    (Count(back, t) + Count(background, t))
                      + One(t = current_thread)
           /\ After(back', started) =
                 After(back, started) \o After(Backward(request_queue), started)
           /\ After(background', started) = <<>>
           /\ didmail' \in SUBSET (Threads \cup {Idle, Soon})
           /\ request_queue' = <<>> /\ UNCHANGED posted
<1>0. QueuesTypeOK /\ RequestsOK
  BY DEF Queues
<1>. DEFINE q == back_with_requests
            e == current_thread
<1>1. /\ back \in Seq(Fates) /\ background \in Seq(Fates)
      /\ e \in Fates /\ e \notin Later(started)
      /\ After(background, started) = <<>>
  BY <1>0 DEF QueuesTypeOK, RequestsOK
<1>2. /\ q \in Seq(Fates)
      /\ \A t \in Threads : Count(q, t) = Count(back, t)
      /\ After(q, started) =
            After(back, started) \o After(Backward(request_queue), started)
  BY <1>0, BackWithRequests
<1>3. ASSUME NEW t PROVE Count(back, t) \in Nat /\ Count(background, t) \in Nat
  BY <1>0, SumParts
<1>4. didmail' \in SUBSET (Threads \cup {Idle, Soon})
  BY <1>0 DEF preempt__eu, QueuesTypeOK
<1>5. \/ background = <<>> /\ back' = Append(q, e) /\ UNCHANGED background
      \/ /\ background # <<>> /\ back' = q \o <<Head(background), e>>
         /\ background' = Tail(background)
      \/ back' = q /\ background' = Append(background, e)
  BY DEF preempt__eu, self
<1>. HIDE DEF q, e
<1>6. ASSUME background = <<>>, back' = Append(q, e), UNCHANGED background
      PROVE  /\ back' \in Seq(Fates) /\ background' \in Seq(Fates)
             /\ \A t \in Threads : Count(back', t) + Count(background', t) =
                    (Count(back, t) + Count(background, t)) + One(t = e)
             /\ After(back', started) = After(q, started)
             /\ After(background', started) = <<>>
  <2>1. /\ Append(q, e) \in Seq(Fates)
        /\ \A t : Count(Append(q, e), t) = Count(q, t) + One(t = e)
        /\ After(Append(q, e), started) = After(q, started)
    BY <1>1, <1>2, AppendFate
  <2>2. ASSUME NEW t \in Threads
        PROVE  Count(back', t) + Count(background', t) =
                    (Count(back, t) + Count(background, t)) + One(t = e)
    <3>1. Count(back', t) = Count(back, t) + One(t = e)
      BY <1>2, <1>6, <2>1
    <3>2. One(t = e) \in Nat
      BY DEF One
    <3>. QED BY <1>3, <1>6, <3>1, <3>2
  <2>. QED BY <1>1, <1>6, <2>1, <2>2
<1>7. ASSUME background # <<>>, back' = q \o <<Head(background), e>>,
             background' = Tail(background)
      PROVE  /\ back' \in Seq(Fates) /\ background' \in Seq(Fates)
             /\ \A t \in Threads : Count(back', t) + Count(background', t) =
                    (Count(back, t) + Count(background, t)) + One(t = e)
             /\ After(back', started) = After(q, started)
             /\ After(background', started) = <<>>
  <2>0. PICK h, r : h = Head(background) /\ r = Tail(background)
    OBVIOUS
  <2>1. /\ r \in Seq(Fates) /\ h \in Fates
        /\ \A t : Count(background, t) = Count(r, t) + One(t = h)
        /\ h \notin Later(started) =>
              After(background, started) = After(r, started)
        /\ h \in Later(started) =>
              After(background, started) = <<h>> \o After(r, started)
    BY <1>1, <1>7, <2>0, TailFate
  <2>2. h \notin Later(started)
    <3>1. PICK a : a = After(r, started)
      OBVIOUS
    <3>2. a \in Seq(Thunks)
      BY <2>1, <3>1, AfterSeq
    <3>3. <<h>> \o a # <<>>
      BY <3>2
    <3>. QED BY <1>1, <2>1, <3>1, <3>3
  <2>3. /\ q \o <<h, e>> \in Seq(Fates)
        /\ \A t : Count(q \o <<h, e>>, t) = (Count(q, t) + One(t = h)) + One(t = e)
        /\ After(q \o <<h, e>>, started) = After(q, started)
    BY <1>1, <1>2, <2>1, <2>2, AppendTwo
  <2>4. ASSUME NEW t \in Threads
        PROVE  Count(back', t) + Count(background', t) =
                    (Count(back, t) + Count(background, t)) + One(t = e)
    <3>1. Count(back', t) = (Count(back, t) + One(t = h)) + One(t = e)
      BY <1>2, <1>7, <2>0, <2>3
    <3>2. Count(background, t) = Count(background', t) + One(t = h)
      BY <1>7, <2>0, <2>1
    <3>3. Count(background', t) \in Nat
      BY <1>7, <2>0, <2>1, CountType
    <3>4. One(t = e) \in Nat /\ One(t = h) \in Nat
      BY DEF One
    <3>. QED BY <1>3, <3>1, <3>2, <3>3, <3>4
  <2>. QED BY <1>1, <1>7, <2>0, <2>1, <2>2, <2>3, <2>4
<1>8. ASSUME back' = q, background' = Append(background, e)
      PROVE  /\ back' \in Seq(Fates) /\ background' \in Seq(Fates)
             /\ \A t \in Threads : Count(back', t) + Count(background', t) =
                    (Count(back, t) + Count(background, t)) + One(t = e)
             /\ After(back', started) = After(q, started)
             /\ After(background', started) = <<>>
  <2>1. /\ Append(background, e) \in Seq(Fates)
        /\ \A t : Count(Append(background, e), t) =
                     Count(background, t) + One(t = e)
        /\ After(Append(background, e), started) = After(background, started)
    BY <1>1, AppendFate
  <2>2. ASSUME NEW t \in Threads
        PROVE  Count(back', t) + Count(background', t) =
                    (Count(back, t) + Count(background, t)) + One(t = e)
    <3>1. /\ Count(background', t) = Count(background, t) + One(t = e)
          /\ Count(back', t) = Count(back, t)
      BY <1>2, <1>8, <2>1
    <3>2. One(t = e) \in Nat
      BY DEF One
    <3>. QED BY <1>3, <3>1, <3>2
  <2>. QED BY <1>1, <1>2, <1>8, <2>1, <2>2
<1>9. /\ back' \in Seq(Fates) /\ background' \in Seq(Fates)
      /\ \A t \in Threads : Count(back', t) + Count(background', t) =
            (Count(back, t) + Count(background, t)) + One(t = e)
      /\ After(back', started) = After(q, started)
      /\ After(background', started) = <<>>
  BY <1>5, <1>6, <1>7, <1>8
<1>. QED
  BY <1>2, <1>4, <1>9 DEF TakesRequests, e

\* An alarm outside every scope preempts the running thread.
LEMMA PreemptKeepsQueues ==
    ASSUME IInv, Queues, alarm_preempts
    PROVE  Queues'
<1>0. QueuesTypeOK /\ PlacesOK /\ OnceOK /\ RequestsOK
  BY DEF Queues
<1>1. /\ pc = "run" /\ pc' = "scheduler"
      /\ TakesRequests /\ preempt__eu
      /\ UNCHANGED <<state, waiting, mail_wait, front, current_thread,
            need_to_switch, started, working, replied>>
  BY DEF alarm_preempts, IInv, Control, SchedulerIsUninterruptible, life,
         conds, pools
<1>2. /\ back' \in Seq(Fates) /\ background' \in Seq(Fates)
      /\ \A t \in Threads : Count(back', t) + Count(background', t) =
            (Count(back, t) + Count(background, t)) + One(t = current_thread)
      /\ After(back', started) =
            After(back, started) \o After(Backward(request_queue), started)
      /\ After(background', started) = <<>>
      /\ didmail' \in SUBSET (Threads \cup {Idle, Soon})
      /\ request_queue' = <<>> /\ UNCHANGED posted
  BY <1>1, PreemptFacts
<1>3. QueuesTypeOK'
  <2>1. <<>> \in Seq(Thunks)
    OBVIOUS
  <2>. QED BY <1>0, <1>1, <1>2, <2>1 DEF QueuesTypeOK
<1>4. RequestsOK'
  BY <1>0, <1>1, <1>2, RequestsKept DEF RequestsOK
<1>5. ASSUME NEW u \in Threads PROVE Sum(u)' = Sum(u)
  <2>1. PICK f, b, g : /\ f \in Nat /\ b \in Nat /\ g \in Nat
                       /\ f = Count(front, u) /\ b = Count(back, u)
                       /\ g = Count(background, u)
                       /\ Sum(u) = (f + b + g) + One(IsRunning(u))
                                     + One(u \in mail_wait)
                                     + One(BlockedIn(waiting, u))
    BY <1>0, SumIs
  <2>2. PICK c, d : c = Count(back', u) /\ d = Count(background', u)
    OBVIOUS
  <2>3. PICK x, m, w : /\ x = One(u = current_thread)
                       /\ m = One(u \in mail_wait)
                       /\ w = One(BlockedIn(waiting, u))
    OBVIOUS
  <2>4. Sum(u) = (f + b + g) + x + m + w
    BY <1>1, <2>1, <2>3 DEF IsRunning
  <2>5. Sum(u)' = (f + c + d) + 0 + m + w
    BY <1>1, <2>1, <2>2, <2>3 DEF Sum, Listed, IsRunning, One
  <2>6. c + d = (b + g) + x
    BY <1>2, <2>1, <2>2, <2>3
  <2>7. x \in Nat /\ m \in Nat /\ w \in Nat
    BY <2>3 DEF One
  <2>8. c \in Nat /\ d \in Nat
    BY <1>2, <2>2, CountType
  <2>. QED BY <2>1, <2>4, <2>5, <2>6, <2>7, <2>8
<1>6. PlacesOK'
  BY <1>1, <1>3, <1>5, PlacesMoved
<1>. QED
  BY <1>0, <1>1, <1>3, <1>4, <1>6 DEF Queues, OnceOK

\* What begins is the first of the requests that have not begun.
LEMMA FirstOfInterval ==
    ASSUME NEW s \in Nat, NEW n \in Nat, s <= n, NEW h, NEW x \in Seq(Thunks),
           NEW y, y = <<h>> \o x, y = Interval(s, n)
    PROVE  /\ h = s + 1 /\ s + 1 <= n
           /\ x = Interval(s + 1, n)
<1>1. /\ Len(x) \in Nat /\ Len(y) = Len(x) + 1 /\ y[1] = h
      /\ \A i \in 1 .. Len(x) : y[i + 1] = x[i]
  OBVIOUS
<1>2. y = [i \in 1 .. n - s |-> s + i]
  BY DEF Interval
<1>3. n - s \in Nat
  OBVIOUS
<1>4. Len(y) = n - s
  BY <1>2, <1>3
<1>5. \A i \in 1 .. n - s : y[i] = s + i
  BY <1>2
<1>6. Len(x) = n - (s + 1) /\ s + 1 <= n /\ 1 \in 1 .. n - s
  BY <1>1, <1>3, <1>4
<1>60. h = s + 1
  BY <1>1, <1>5, <1>6
<1>7. ASSUME NEW i \in 1 .. Len(x) PROVE x[i] = (s + 1) + i
  <2>1. i + 1 \in 1 .. n - s
    BY <1>1, <1>4
  <2>2. y[i + 1] = s + (i + 1)
    BY <1>5, <2>1
  <2>. QED BY <1>1, <2>2
<1>8. x = [i \in 1 .. Len(x) |-> x[i]]
  OBVIOUS
<1>9. x = [i \in 1 .. Len(x) |-> (s + 1) + i]
  BY <1>7, <1>8
<1>. QED
  BY <1>6, <1>60, <1>7, <1>9 DEF Interval

\* Once it has begun the same thunks of the queues remain, if it is in none.
LEMMA AfterNext ==
    ASSUME NEW q \in Seq(Fates), NEW s \in Nat,
           \A i \in 1 .. Len(After(q, s)) : After(q, s)[i] # s + 1
    PROVE  After(q, s + 1) = After(q, s)
<1>0. PICK x : x = After(q, s)
  OBVIOUS
<1>1. Members(x, q, Later(s), Fates, Len(q))
  BY <1>0, AmongMembers DEF After
<1>2. ASSUME NEW i \in 1 .. Len(q)
      PROVE  q[i] \in Later(s) <=> q[i] \in Later(s + 1)
  <2>1. CASE q[i] \in Later(s)
    <3>1. PICK m \in 1 .. Len(x) : x[m] = q[i]
      BY <1>1, <2>1 DEF Members
    <3>2. q[i] # s + 1
      BY <1>0, <3>1
    <3>3. q[i] \in Thunks /\ q[i] \in Int /\ q[i] > s
      BY <2>1, MicrothreadsAssumption DEF Later, Thunks
    <3>. QED BY <2>1, <3>2, <3>3 DEF Later
  <2>2. CASE q[i] \in Later(s + 1)
    <3>1. q[i] \in Thunks /\ q[i] \in Int /\ q[i] > s + 1
      BY <2>2, MicrothreadsAssumption DEF Later, Thunks
    <3>. QED BY <3>1 DEF Later
  <2>. QED BY <2>1, <2>2
<1>3. Among(q, Later(s)) = Among(q, Later(s + 1))
  BY <1>2, AmongSame
<1>. QED
  BY <1>3 DEF After

\* A request that begins is taken out of the sequence of those that have not;
\* a thunk that was preempted leaves it as it is.
LEMMA RequestsBegin ==
    ASSUME Queues, NEW h \in Fates,
           started' = IF h \in Thunks /\ h > started THEN h ELSE started,
           current_thread' = h,
           UNCHANGED <<posted, request_queue>>,
           front' \in Seq(Fates), back' \in Seq(Fates), background' \in Seq(Fates),
           After(background', started) = <<>>,
           h \in Later(started) =>
              After(front, started) \o After(back, started) =
                 <<h>> \o (After(front', started) \o After(back', started)),
           h \notin Later(started) =>
              After(front, started) \o After(back, started) =
                 After(front', started) \o After(back', started)
    PROVE  RequestsOK' /\ started' \in 0 .. MaxRequests
<1>1. QueuesTypeOK /\ RequestsOK
  BY DEF Queues
<1>2. PICK s, n, a, b, r : /\ s = started /\ n = posted
                           /\ a = After(front', s) /\ b = After(back', s)
                           /\ r = After(Backward(request_queue), s)
  OBVIOUS
<1>3. s \in Nat /\ n \in Nat /\ s <= n /\ s \in 0 .. MaxRequests
  BY <1>1, <1>2, MicrothreadsAssumption DEF QueuesTypeOK, RequestsOK
<1>4. Backward(request_queue) \in Seq(Fates)
  <2>1. Backward(request_queue) \in Seq(Thunks)
    BY <1>1, BackwardSeq DEF QueuesTypeOK
  <2>. QED BY <2>1, FatesDiffer
<1>5. a \in Seq(Thunks) /\ b \in Seq(Thunks) /\ r \in Seq(Thunks)
  BY <1>2, <1>4, AfterSeq
<1>6. CASE h \notin Later(started)
  <2>1. started' = started
    BY <1>6 DEF Later
  <2>2. (a \o b) \o r = Interval(s, n)
    BY <1>1, <1>2, <1>6 DEF RequestsOK
  <2>. QED BY <1>1, <1>2, <1>3, <1>6, <2>1, <2>2 DEF RequestsOK
<1>7. CASE h \in Later(started)
  <2>1. h \in Thunks /\ started' = h
    BY <1>7 DEF Later
  <2>2. (<<h>> \o (a \o b)) \o r = Interval(s, n)
    BY <1>1, <1>2, <1>7 DEF RequestsOK
  <2>3. PICK x : x = (a \o b) \o r
    OBVIOUS
  <2>4. PICK y : y = <<h>> \o x
    OBVIOUS
  <2>40. x \in Seq(Thunks)
    BY <1>5, <2>3
  <2>41. y = Interval(s, n)
    <3>1. Regrouped(h, a, b, r)
      BY <1>5, <2>1, Grouping, Zenon
    <3>. QED BY <2>2, <2>3, <2>4, <3>1, Zenon DEF Regrouped
  <2>5. /\ h = s + 1 /\ s + 1 <= n /\ x = Interval(s + 1, n)
        /\ \A i \in 1 .. Len(x) : x[i] # s + 1
    <3>1. h = s + 1 /\ s + 1 <= n
      BY <1>3, <2>4, <2>40, <2>41, FirstOfInterval
    <3>2. x = Interval(s + 1, n)
      BY <1>3, <2>4, <2>40, <2>41, FirstOfInterval
    <3>3. ASSUME NEW i \in 1 .. Len(x) PROVE x[i] # s + 1
      <4>1. x = [j \in 1 .. n - (s + 1) |-> (s + 1) + j]
        BY <3>2 DEF Interval
      <4>2. i \in 1 .. n - (s + 1)
        <5>1. n - (s + 1) \in Nat
          BY <1>3, <3>1
        <5>2. Len(x) = n - (s + 1)
          BY <4>1, <5>1
        <5>. QED BY <5>2
      <4>3. x[i] = (s + 1) + i
        BY <4>1, <4>2
      <4>. QED BY <1>3, <4>3
    <3>. QED BY <3>1, <3>2, <3>3
  <2>6. /\ \A i \in 1 .. Len(a) : a[i] # s + 1
        /\ \A i \in 1 .. Len(b) : b[i] # s + 1
        /\ \A i \in 1 .. Len(r) : r[i] # s + 1
    <3>1. /\ Len(a) \in Nat /\ Len(b) \in Nat /\ Len(r) \in Nat
          /\ Len(x) = (Len(a) + Len(b)) + Len(r)
      BY <1>5, <2>3
    <3>2. /\ \A i \in 1 .. Len(a) : x[i] = a[i]
          /\ \A i \in 1 .. Len(b) : x[Len(a) + i] = b[i]
          /\ \A i \in 1 .. Len(r) : x[(Len(a) + Len(b)) + i] = r[i]
      BY <1>5, <2>3
    <3>3. ASSUME NEW i \in 1 .. Len(a) PROVE a[i] # s + 1
      <4>1. i \in 1 .. Len(x)
        BY <3>1
      <4>. QED BY <2>5, <3>2, <4>1
    <3>4. ASSUME NEW i \in 1 .. Len(b) PROVE b[i] # s + 1
      <4>1. Len(a) + i \in 1 .. Len(x)
        BY <3>1
      <4>. QED BY <2>5, <3>2, <4>1
    <3>5. ASSUME NEW i \in 1 .. Len(r) PROVE r[i] # s + 1
      <4>1. (Len(a) + Len(b)) + i \in 1 .. Len(x)
        BY <3>1
      <4>. QED BY <2>5, <3>2, <4>1
    <3>. QED BY <3>3, <3>4, <3>5
  <2>7. /\ After(front', s + 1) = a /\ After(back', s + 1) = b
        /\ After(Backward(request_queue), s + 1) = r
    BY <1>2, <1>3, <1>4, <2>6, AfterNext
  <2>8. After(background', s + 1) = <<>>
    <3>1. PICK g : g = After(background', s)
      OBVIOUS
    <3>2. \A i \in 1 .. Len(g) : g[i] # s + 1
      BY <1>2, <3>1
    <3>3. After(background', s + 1) = g
      BY <1>3, <3>1, <3>2, AfterNext
    <3>. QED BY <1>2, <3>1, <3>3
  <2>9. h \notin Later(h)
    BY <1>3, <2>5 DEF Later
  <2>10. started' = s + 1 /\ s + 1 \in 0 .. MaxRequests
    <3>1. n <= MaxRequests /\ MaxRequests \in Nat
      BY <1>1, <1>2, MicrothreadsAssumption DEF QueuesTypeOK
    <3>2. started' = s + 1
      BY <2>1, <2>5
    <3>3. s + 1 <= n
      BY <2>5
    <3>4. s + 1 \in 0 .. MaxRequests
      BY <1>3, <3>1, <3>3
    <3>. QED BY <3>2, <3>4
  <2>11. posted' = n /\ request_queue' = request_queue /\ current_thread' = s + 1
    BY <1>2, <2>5
  <2>12. (a \o b) \o r = Interval(s + 1, n)
    BY <2>3, <2>5
  <2>. QED
    BY <1>2, <2>5, <2>7, <2>8, <2>9, <2>10, <2>11, <2>12 DEF RequestsOK
<1>. QED
  BY <1>6, <1>7

\* A thread or thunk is dequeued and runs.
LEMMA SwitchToKeepsQueues ==
    ASSUME IInv, Queues, NEW h \in Fates, switch_to(h),
           pc \in {"dequeue", "dequeue_cpu"},
           UNCHANGED <<state, waiting, mail_wait, didmail, need_to_switch,
              request_queue, posted, working, replied>>,
           front' \in Seq(Fates), back' \in Seq(Fates), background' \in Seq(Fates),
           \A t \in Threads : Listed(t) = Listed(t)' + One(t = h),
           After(background', started) = <<>>,
           h \in Later(started) =>
              After(front, started) \o After(back, started) =
                 <<h>> \o (After(front', started) \o After(back', started)),
           h \notin Later(started) =>
              After(front, started) \o After(back, started) =
                 After(front', started) \o After(back', started)
    PROVE  Queues'
<1>0. QueuesTypeOK /\ PlacesOK /\ OnceOK /\ RequestsOK
  BY DEF Queues
<1>1. /\ started' = IF h \in Thunks /\ h > started THEN h ELSE started
      /\ current_thread' = h /\ pc' = "run"
  BY DEF switch_to
<1>2. RequestsOK' /\ started' \in 0 .. MaxRequests
  BY <1>1, RequestsBegin
<1>3. QueuesTypeOK'
  BY <1>0, <1>1, <1>2 DEF QueuesTypeOK
<1>4. ASSUME NEW t \in Threads PROVE Sum(t)' = Sum(t)
  <2>1. PICK l, x, m, w : /\ l = Listed(t)' /\ x = One(t = h)
                          /\ m = One(t \in mail_wait)
                          /\ w = One(BlockedIn(waiting, t))
    OBVIOUS
  <2>2. l \in Nat
    <3>1. /\ Count(front', t) \in Nat /\ Count(back', t) \in Nat
          /\ Count(background', t) \in Nat
      <4>1. \A q \in Seq(Fates) : Count(q, t) \in Nat
        BY CountType
      <4>. QED BY <4>1
    <3>. QED BY <2>1, <3>1 DEF Listed
  <2>3. x \in Nat /\ m \in Nat /\ w \in Nat
    BY <2>1 DEF One
  <2>4. One(IsRunning(t)) = 0 /\ One(IsRunning(t)') = x
    BY <1>1, <2>1 DEF IsRunning, One
  <2>5. Listed(t) = l + x
    BY <2>1
  <2>6. Sum(t) = ((l + x) + 0) + m + w
    BY <2>1, <2>4, <2>5 DEF Sum
  <2>7. Sum(t)' = (l + x) + m + w
    BY <2>1, <2>4 DEF Sum
  <2>. QED BY <2>2, <2>3, <2>6, <2>7
<1>5. PlacesOK'
  BY <1>3, <1>4, PlacesMoved
<1>. QED
  BY <1>0, <1>2, <1>3, <1>5 DEF Queues, OnceOK

\* A thread is dequeued and never runs: it is dead, or it is buried, and then
\* those who wait for it are woken.
LEMMA BurialKeepsQueues ==
    ASSUME IInv, Queues, NEW h \in Threads, NEW p, Wakes(p),
           pc \in {"dequeue", "dequeue_cpu"}, pc' = pc,
           UNCHANGED <<mail_wait, current_thread, didmail, need_to_switch,
              request_queue, posted, started, working, replied>>,
           front' \in Seq(Fates), background' \in Seq(Fates),
           \A t \in Threads : Count(front, t) + Count(background, t) =
              (Count(front', t) + Count(background', t)) + One(t = h),
           After(front', started) = After(front, started),
           After(background', started) = <<>>,
           state'[h] # "ALIVE", state'[h] = "UNBORN" => state[h] = "UNBORN",
           \A t \in Threads : t # h => state'[t] = state[t]
    PROVE  Queues'
<1>0. QueuesTypeOK /\ PlacesOK /\ OnceOK /\ RequestsOK
  BY DEF Queues
<1>1. back' \in Seq(Fates) /\ After(back', started) = After(back, started)
  BY <1>0, WakesFacts
<1>2. QueuesTypeOK'
  BY <1>0, <1>1 DEF QueuesTypeOK
<1>3. RequestsOK'
  BY <1>0, <1>1 DEF RequestsOK
<1>4. ASSUME NEW t \in Threads
      PROVE  /\ Others(t)' <= Others(t)
             /\ state'[t] = "ALIVE" =>
                   state[t] = "ALIVE" /\ Others(t)' = Others(t)
             /\ state'[t] = "UNBORN" => state[t] = "UNBORN"
  <2>1. PICK a, x, m, r : /\ a = Count(front', t) + Count(background', t)
                          /\ x = One(t = h) /\ m = One(t \in mail_wait)
                          /\ r = One(IsRunning(t))
    OBVIOUS
  <2>2. a \in Nat
    <3>1. Count(front', t) \in Nat /\ Count(background', t) \in Nat
      <4>1. \A q \in Seq(Fates) : Count(q, t) \in Nat
        BY CountType
      <4>. QED BY <4>1
    <3>. QED BY <2>1, <3>1
  <2>3. x \in Nat /\ m \in Nat /\ r \in Nat
    BY <2>1 DEF One
  <2>4. One(IsRunning(t)') = r
    BY <2>1 DEF IsRunning, One
  <2>5. Others(t) = ((a + x) + r) + m
    BY <2>1 DEF Others
  <2>6. Others(t)' = (a + r) + m
    BY <2>1, <2>4 DEF Others
  <2>7. Others(t)' <= Others(t) /\ (x = 0 => Others(t)' = Others(t))
    BY <2>2, <2>3, <2>5, <2>6
  <2>8. /\ state'[t] = "ALIVE" => state[t] = "ALIVE" /\ x = 0
        /\ state'[t] = "UNBORN" => state[t] = "UNBORN"
    BY <2>1 DEF One
  <2>. QED BY <2>7, <2>8
<1>5. PlacesOK' /\ OnceOK'
  BY <1>2, <1>4, WakesPlaces
<1>. QED
  BY <1>2, <1>3, <1>5 DEF Queues

\* The head of a queue, which runs, is buried or is dropped.
LEMMA HeadIsServed ==
    ASSUME IInv, Queues, NEW h \in Fates, pc \in {"dequeue", "dequeue_cpu"},
           \/ Runnable(h) /\ switch_to(h) /\ UNCHANGED <<life, conds, back>>
           \/ /\ MustBeBuried(h) /\ bury(h)
              /\ pc' = pc /\ UNCHANGED <<started, current_thread>>
           \/ /\ ~Runnable(h) /\ ~MustBeBuried(h)
              /\ pc' = pc /\ UNCHANGED <<started, current_thread, life, conds, back>>
    PROVE  \/ switch_to(h) /\ UNCHANGED <<state, waiting, back>>
           \/ /\ h \in Threads /\ \E p : Wakes(p)
              /\ pc' = pc /\ UNCHANGED <<started, current_thread>>
              /\ state'[h] # "ALIVE" /\ (state'[h] = "UNBORN" => state[h] = "UNBORN")
              /\ \A t \in Threads : t # h => state'[t] = state[t]
<1>0. LifeTypeOK /\ Lifecycle /\ OnceOK /\ QueuesTypeOK
  BY DEF IInv, Lifecycle, Queues
<1>1. CASE Runnable(h) /\ switch_to(h) /\ UNCHANGED <<life, conds, back>>
  BY <1>1 DEF life, conds
<1>2. CASE /\ MustBeBuried(h) /\ bury(h)
           /\ pc' = pc /\ UNCHANGED <<started, current_thread>>
  <2>1. h \in Threads /\ state[h] = "ALIVE" /\ task_state[task[h]] # "ALIVE"
    BY <1>2 DEF MustBeBuried
  <2>2. task_state[task[h]] \in Final /\ task[h] \in Tasks
    BY <1>0, <2>1 DEF Lifecycle, LifeTypeOK, ThreadsHaveTasks, States
  <2>3. /\ state' = [state EXCEPT ![h] = task_state[task[h]]]
        /\ announce(h, task[h], FALSE /\ task[h] \notin is_set)
    BY <1>2 DEF bury, end_thread
  <2>4. \E p : Wakes(p)
    <3>1. (FALSE /\ task[h] \notin is_set) \in BOOLEAN
      OBVIOUS
    <3>. QED BY <1>0, <2>1, <2>2, <2>3, <3>1, AnnounceWakes
  <2>5. state'[h] = task_state[task[h]] /\ \A t \in Threads : t # h => state'[t] = state[t]
    BY <1>0, <2>1, <2>3 DEF LifeTypeOK
  <2>6. state'[h] # "ALIVE" /\ state'[h] # "UNBORN"
    BY <2>2, <2>5 DEF Final
  <2>. QED BY <1>2, <2>1, <2>4, <2>5, <2>6
<1>3. CASE /\ ~Runnable(h) /\ ~MustBeBuried(h)
           /\ pc' = pc /\ UNCHANGED <<started, current_thread, life, conds, back>>
  <2>1. h \in Threads /\ state[h] # "ALIVE"
    BY <1>3 DEF Runnable, MustBeBuried
  <2>2. UNCHANGED <<state, waiting, back>>
    BY <1>3 DEF life, conds
  <2>3. Wakes(<<>>)
    BY <1>0, <2>2, WakesNobody
  <2>. QED BY <1>3, <2>1, <2>2, <2>3
<1>. QED
  BY <1>1, <1>2, <1>3

\* The three ways to dequeue.
LEMMA DequeuesKeepQueues ==
    ASSUME IInv, Queues
    PROVE  /\ dequeue_refill => Queues'
           /\ dequeue_foreground => Queues'
           /\ dequeue_cpu_bound_thread => Queues'
<1>0. QueuesTypeOK /\ PlacesOK /\ OnceOK /\ RequestsOK
  BY DEF Queues
<1>1. /\ front \in Seq(Fates) /\ back \in Seq(Fates) /\ background \in Seq(Fates)
      /\ After(background, started) = <<>>
  BY <1>0 DEF QueuesTypeOK, RequestsOK
<1>2. ASSUME NEW t
      PROVE  /\ Count(front, t) \in Nat /\ Count(back, t) \in Nat
             /\ Count(background, t) \in Nat
  BY <1>0, SumParts
<1>3. PICK s : s = started
  OBVIOUS
<1>4. After(front, s) \in Seq(Thunks) /\ After(back, s) \in Seq(Thunks)
  BY <1>1, AfterSeq
<1>5. ASSUME dequeue_refill PROVE Queues'
  <2>1. /\ pc = "dequeue" /\ front = <<>> /\ back # <<>>
        /\ switch_to(Head(back)) /\ front' = Tail(back) /\ back' = <<>>
        /\ UNCHANGED <<state, waiting, mail_wait, background, didmail,
              need_to_switch, request_queue, posted, working, replied>>
    BY <1>5 DEF dequeue_refill, life, conds, reqs, pools
  <2>2. PICK h : h = Head(back)
    OBVIOUS
  <2>3. /\ front' \in Seq(Fates) /\ h \in Fates
        /\ \A x : Count(back, x) = Count(front', x) + One(x = h)
        /\ h \notin Later(s) => After(back, s) = After(front', s)
        /\ h \in Later(s) => After(back, s) = <<h>> \o After(front', s)
    BY <1>1, <2>1, <2>2, TailFate
  <2>4. back' \in Seq(Fates)
    BY <2>1
  <2>5. /\ After(front, s) = <<>> /\ After(back', s) = <<>>
        /\ \A x : Count(front, x) = 0 /\ Count(back', x) = 0
    <3>1. Among(<<>>, Later(s)) = <<>>
      <4>1. PICK q : q = <<>>
        OBVIOUS
      <4>2. q \in Seq(Fates) /\ \A i \in 1 .. Len(q) : q[i] \notin Later(s)
        BY <4>1
      <4>3. Among(q, Later(s)) = <<>>
        BY <4>2, AmongNone
      <4>. QED BY <4>1, <4>3
    <3>. QED BY <2>1, <3>1, CountEmpty DEF After
  <2>6. ASSUME NEW t \in Threads PROVE Listed(t) = Listed(t)' + One(t = h)
    <3>1. PICK a, g, x : /\ a = Count(front', t) /\ g = Count(background, t)
                         /\ x = One(t = h)
      OBVIOUS
    <3>2. a \in Nat /\ g \in Nat /\ x \in Nat
      <4>1. \A q \in Seq(Fates) : Count(q, t) \in Nat
        BY CountType
      <4>. QED BY <1>1, <2>3, <3>1, <4>1 DEF One
    <3>3. Listed(t) = 0 + (a + x) + g
      BY <2>3, <2>5, <3>1 DEF Listed
    <3>4. Listed(t)' = a + 0 + g
      BY <2>1, <2>5, <3>1 DEF Listed
    <3>. QED BY <3>1, <3>2, <3>3, <3>4
  <2>7. PICK a : a = After(front', s)
    OBVIOUS
  <2>8. a \in Seq(Thunks)
    BY <2>3, <2>7, AfterSeq
  <2>9. h \in Later(s) => After(front, s) \o After(back, s) =
                             <<h>> \o (After(front', s) \o After(back', s))
    <3>1. <<>> \o (<<h>> \o a) = <<h>> \o (a \o <<>>)
      BY <2>8
    <3>. QED BY <2>3, <2>5, <2>7, <3>1
  <2>10. h \notin Later(s) => After(front, s) \o After(back, s) =
                                 After(front', s) \o After(back', s)
    <3>1. <<>> \o a = a \o <<>>
      BY <2>8
    <3>. QED BY <2>3, <2>5, <2>7, <3>1
  <2>11. background' \in Seq(Fates) /\ After(background', started) = <<>>
    BY <1>1, <2>1
  <2>. QED
    BY <1>3, <2>1, <2>2, <2>3, <2>4, <2>6, <2>9, <2>10, <2>11, SwitchToKeepsQueues
<1>6. ASSUME dequeue_foreground PROVE Queues'
  <2>0. PICK h : h = Head(front)
    OBVIOUS
  <2>1. /\ pc = "dequeue" /\ front # <<>> /\ front' = Tail(front)
        /\ UNCHANGED <<mail_wait, background, didmail, need_to_switch,
              request_queue, posted, working, replied>>
    BY <1>6 DEF dequeue_foreground, reqs, pools
  <2>2. \/ Runnable(h) /\ switch_to(h) /\ UNCHANGED <<life, conds, back>>
        \/ /\ MustBeBuried(h) /\ bury(h)
           /\ pc' = pc /\ UNCHANGED <<started, current_thread>>
        \/ /\ ~Runnable(h) /\ ~MustBeBuried(h)
           /\ pc' = pc /\ UNCHANGED <<started, current_thread, life, conds, back>>
    BY <1>6, <2>0 DEF dequeue_foreground, Leave
  <2>3. /\ front' \in Seq(Fates) /\ h \in Fates
        /\ \A x : Count(front, x) = Count(front', x) + One(x = h)
        /\ h \notin Later(s) => After(front, s) = After(front', s)
        /\ h \in Later(s) => After(front, s) = <<h>> \o After(front', s)
    BY <1>1, <2>0, <2>1, TailFate
  <2>4. background' \in Seq(Fates) /\ After(background', started) = <<>>
    BY <1>1, <2>1
  <2>5. ASSUME NEW t
        PROVE  /\ Count(front', t) \in Nat /\ One(t = h) \in Nat
    <3>1. \A q \in Seq(Fates) : Count(q, t) \in Nat
      BY CountType
    <3>. QED BY <2>3, <3>1 DEF One
  <2>6. CASE switch_to(h) /\ UNCHANGED <<state, waiting, back>>
    <3>1. ASSUME NEW t \in Threads PROVE Listed(t) = Listed(t)' + One(t = h)
      <4>1. PICK a, b, g, x : /\ a = Count(front', t) /\ b = Count(back, t)
                              /\ g = Count(background, t) /\ x = One(t = h)
        OBVIOUS
      <4>2. a \in Nat /\ b \in Nat /\ g \in Nat /\ x \in Nat
        BY <1>2, <2>5, <4>1
      <4>3. Listed(t) = (a + x) + b + g /\ Listed(t)' = a + b + g
        BY <2>1, <2>3, <2>6, <4>1 DEF Listed
      <4>. QED BY <4>1, <4>2, <4>3
    <3>2. PICK a, b : a = After(front', s) /\ b = After(back, s)
      OBVIOUS
    <3>3. a \in Seq(Thunks) /\ b \in Seq(Thunks)
      BY <1>4, <2>3, <3>2, AfterSeq
    <3>4. h \in Later(s) => After(front, s) \o After(back, s) =
                               <<h>> \o (After(front', s) \o After(back', s))
      <4>1. (<<h>> \o a) \o b = <<h>> \o (a \o b)
        BY <3>3
      <4>. QED BY <2>3, <2>6, <3>2, <4>1
    <3>5. h \notin Later(s) => After(front, s) \o After(back, s) =
                                  After(front', s) \o After(back', s)
      BY <2>3, <2>6
    <3>6. back' \in Seq(Fates)
      BY <1>1, <2>6
    <3>. QED
      BY <1>3, <2>1, <2>3, <2>4, <2>6, <3>1, <3>4, <3>5, <3>6, SwitchToKeepsQueues
  <2>7. CASE /\ h \in Threads /\ \E p : Wakes(p)
             /\ pc' = pc /\ UNCHANGED <<started, current_thread>>
             /\ state'[h] # "ALIVE" /\ (state'[h] = "UNBORN" => state[h] = "UNBORN")
             /\ \A t \in Threads : t # h => state'[t] = state[t]
    <3>1. PICK p : Wakes(p)
      BY <2>7
    <3>2. ASSUME NEW t \in Threads
          PROVE  Count(front, t) + Count(background, t) =
                    (Count(front', t) + Count(background', t)) + One(t = h)
      <4>1. PICK a, g, x : /\ a = Count(front', t) /\ g = Count(background, t)
                           /\ x = One(t = h)
        OBVIOUS
      <4>2. a \in Nat /\ g \in Nat /\ x \in Nat
        BY <1>2, <2>5, <4>1
      <4>3. Count(front, t) = a + x /\ Count(background', t) = g
        BY <2>1, <2>3, <4>1
      <4>. QED BY <4>1, <4>2, <4>3
    <3>3. h \in Threads /\ h \notin Later(s)
      BY <2>7, FatesDiffer
    <3>4. After(front', started) = After(front, started)
      BY <1>3, <2>3, <3>3
    <3>. QED
      BY <2>1, <2>3, <2>4, <2>7, <3>1, <3>2, <3>3, <3>4, BurialKeepsQueues
  <2>8. \/ switch_to(h) /\ UNCHANGED <<state, waiting, back>>
        \/ /\ h \in Threads /\ \E p : Wakes(p)
           /\ pc' = pc /\ UNCHANGED <<started, current_thread>>
           /\ state'[h] # "ALIVE" /\ (state'[h] = "UNBORN" => state[h] = "UNBORN")
           /\ \A t \in Threads : t # h => state'[t] = state[t]
    BY <2>1, <2>2, <2>3, HeadIsServed
  <2>. QED BY <2>6, <2>7, <2>8
<1>7. ASSUME dequeue_cpu_bound_thread PROVE Queues'
  <2>0. PICK h : h = Head(background)
    OBVIOUS
  <2>1. /\ pc = "dequeue_cpu" /\ background # <<>> /\ background' = Tail(background)
        /\ UNCHANGED <<mail_wait, front, didmail, need_to_switch,
              request_queue, posted, working, replied>>
    BY <1>7 DEF dequeue_cpu_bound_thread, reqs, pools
  <2>2. \/ Runnable(h) /\ switch_to(h) /\ UNCHANGED <<life, conds, back>>
        \/ /\ MustBeBuried(h) /\ bury(h)
           /\ pc' = pc /\ UNCHANGED <<started, current_thread>>
        \/ /\ ~Runnable(h) /\ ~MustBeBuried(h)
           /\ pc' = pc /\ UNCHANGED <<started, current_thread, life, conds, back>>
    BY <1>7, <2>0 DEF dequeue_cpu_bound_thread, Leave
  <2>3. /\ background' \in Seq(Fates) /\ h \in Fates
        /\ \A x : Count(background, x) = Count(background', x) + One(x = h)
        /\ h \notin Later(s) => After(background, s) = After(background', s)
        /\ h \in Later(s) => After(background, s) = <<h>> \o After(background', s)
    BY <1>1, <2>0, <2>1, TailFate
  <2>4. h \notin Later(s) /\ After(background', s) = <<>>
    <3>1. PICK a : a = After(background', s)
      OBVIOUS
    <3>2. a \in Seq(Thunks)
      BY <2>3, <3>1, AfterSeq
    <3>3. <<h>> \o a # <<>>
      BY <3>2
    <3>4. h \notin Later(s)
      BY <1>1, <1>3, <2>3, <3>1, <3>3
    <3>. QED BY <1>1, <1>3, <2>3, <3>4
  <2>5. ASSUME NEW t
        PROVE  /\ Count(background', t) \in Nat /\ One(t = h) \in Nat
    <3>1. \A q \in Seq(Fates) : Count(q, t) \in Nat
      BY CountType
    <3>. QED BY <2>3, <3>1 DEF One
  <2>6. CASE switch_to(h) /\ UNCHANGED <<state, waiting, back>>
    <3>1. ASSUME NEW t \in Threads PROVE Listed(t) = Listed(t)' + One(t = h)
      <4>1. PICK a, b, g, x : /\ a = Count(front, t) /\ b = Count(back, t)
                              /\ g = Count(background', t) /\ x = One(t = h)
        OBVIOUS
      <4>2. a \in Nat /\ b \in Nat /\ g \in Nat /\ x \in Nat
        BY <1>2, <2>5, <4>1
      <4>3. Listed(t) = a + b + (g + x) /\ Listed(t)' = a + b + g
        BY <2>1, <2>3, <2>6, <4>1 DEF Listed
      <4>. QED BY <4>1, <4>2, <4>3
    <3>2. front' \in Seq(Fates) /\ back' \in Seq(Fates)
      BY <1>1, <2>1, <2>6
    <3>. QED
      BY <1>3, <2>1, <2>3, <2>4, <2>6, <3>1, <3>2, SwitchToKeepsQueues
  <2>7. CASE /\ h \in Threads /\ \E p : Wakes(p)
             /\ pc' = pc /\ UNCHANGED <<started, current_thread>>
             /\ state'[h] # "ALIVE" /\ (state'[h] = "UNBORN" => state[h] = "UNBORN")
             /\ \A t \in Threads : t # h => state'[t] = state[t]
    <3>1. PICK p : Wakes(p)
      BY <2>7
    <3>2. ASSUME NEW t \in Threads
          PROVE  Count(front, t) + Count(background, t) =
                    (Count(front', t) + Count(background', t)) + One(t = h)
      <4>1. PICK a, g, x : /\ a = Count(front, t) /\ g = Count(background', t)
                           /\ x = One(t = h)
        OBVIOUS
      <4>2. a \in Nat /\ g \in Nat /\ x \in Nat
        BY <1>2, <2>5, <4>1
      <4>3. Count(background, t) = g + x /\ Count(front', t) = a
        BY <2>1, <2>3, <4>1
      <4>. QED BY <4>1, <4>2, <4>3
    <3>3. After(front', started) = After(front, started) /\ front' \in Seq(Fates)
      BY <1>1, <2>1
    <3>. QED
      BY <1>3, <2>1, <2>3, <2>4, <2>7, <3>1, <3>2, <3>3, BurialKeepsQueues
  <2>8. \/ switch_to(h) /\ UNCHANGED <<state, waiting, back>>
        \/ /\ h \in Threads /\ \E p : Wakes(p)
           /\ pc' = pc /\ UNCHANGED <<started, current_thread>>
           /\ state'[h] # "ALIVE" /\ (state'[h] = "UNBORN" => state[h] = "UNBORN")
           /\ \A t \in Threads : t # h => state'[t] = state[t]
    BY <2>1, <2>2, <2>3, HeadIsServed
  <2>. QED BY <2>6, <2>7, <2>8
<1>. QED
  BY <1>5, <1>6, <1>7

\* A request is posted: it comes after those that are.
LEMMA DoKeepsQueues ==
    ASSUME IInv, Queues, do
    PROVE  Queues'
<1>0. QueuesTypeOK /\ PlacesOK /\ OnceOK /\ RequestsOK
  BY DEF Queues
<1>1. /\ working > 0 /\ posted' = posted + 1 /\ working' = working - 1
      /\ replied' = replied + 1
      /\ request_queue' = <<posted + 1>> \o request_queue
      /\ UNCHANGED <<state, waiting, mail_wait, current_thread, front, back,
            background, didmail, need_to_switch, pc, started>>
  BY DEF do, life, conds, fg
<1>2. PICK s, n, e : s = started /\ n = posted /\ e = n + 1
  OBVIOUS
<1>3. s \in Nat /\ n \in Nat /\ s <= n /\ e \in Thunks
  <2>1. /\ started \in 0 .. MaxRequests /\ posted \in Nat /\ working \in Nat
        /\ started <= posted /\ posted + working <= MaxRequests
    BY <1>0 DEF QueuesTypeOK, RequestsOK
  <2>. QED BY <1>1, <1>2, <2>1, MicrothreadsAssumption DEF Thunks
<1>4. PICK q, r : q = request_queue /\ r = <<e>> \o q
  OBVIOUS
<1>5. /\ q \in Seq(Thunks) /\ r \in Seq(Thunks) /\ request_queue' = r
      /\ Backward(r) = Backward(q) \o <<e>>
  <2>1. q \in Seq(Thunks)
    BY <1>0, <1>4 DEF QueuesTypeOK
  <2>2. r \in Seq(Thunks) /\ Backward(r) = Backward(q) \o <<e>>
    BY <1>3, <1>4, <2>1, BackwardCons
  <2>. QED BY <1>1, <1>2, <1>4, <2>1, <2>2
<1>6. QueuesTypeOK'
  <2>1. posted' \in Nat /\ working' \in Nat /\ replied' \in Nat
        /\ posted' + working' <= MaxRequests
    BY <1>0, <1>1, MicrothreadsAssumption DEF QueuesTypeOK
  <2>2. request_queue' \in Seq(Thunks)
    BY <1>5
  <2>. QED BY <1>0, <1>1, <2>1, <2>2 DEF QueuesTypeOK
<1>7. After(Backward(r), s) = After(Backward(q), s) \o <<e>>
  <2>1. Backward(q) \in Seq(Thunks) /\ <<e>> \in Seq(Thunks)
    BY <1>3, <1>5, BackwardSeq
  <2>2. Among(Backward(q) \o <<e>>, Later(s)) =
           Among(Backward(q), Later(s)) \o Among(<<e>>, Later(s))
    <3>1. PICK x, y : x = Backward(q) /\ y = <<e>>
      OBVIOUS
    <3>2. x \in Seq(Thunks) /\ y \in Seq(Thunks)
      BY <2>1, <3>1
    <3>3. Among(x \o y, Later(s)) = Among(x, Later(s)) \o Among(y, Later(s))
      BY <3>2, AmongConcat
    <3>. QED BY <3>1, <3>3
  <2>3. e \in Later(s)
    BY <1>2, <1>3 DEF Later
  <2>4. Among(<<e>>, Later(s)) = <<e>>
    BY <2>3, AmongOne
  <2>. QED BY <1>5, <2>2, <2>4 DEF After
<1>8. PICK a, b, c : /\ a = After(front, s) /\ b = After(back, s)
                     /\ c = After(Backward(q), s)
  OBVIOUS
<1>9. a \in Seq(Thunks) /\ b \in Seq(Thunks) /\ c \in Seq(Thunks)
  <2>1. front \in Seq(Fates) /\ back \in Seq(Fates)
    BY <1>0 DEF QueuesTypeOK
  <2>2. Backward(q) \in Seq(Fates)
    <3>1. Backward(q) \in Seq(Thunks)
      BY <1>5, BackwardSeq
    <3>. QED BY <3>1, FatesDiffer
  <2>. QED BY <1>8, <2>1, <2>2, AfterSeq
<1>10. (a \o b) \o c = Interval(s, n)
  BY <1>0, <1>2, <1>4, <1>8 DEF RequestsOK
<1>11. (a \o b) \o (c \o <<e>>) = Interval(s, n + 1)
  <2>1. (a \o b) \o (c \o <<e>>) = ((a \o b) \o c) \o <<e>>
    BY <1>3, <1>9
  <2>2. Interval(s, n) \o <<e>> = Interval(s, n + 1)
    <3>1. PICK x, y : x = Interval(s, n) /\ y = Interval(s, n + 1)
      OBVIOUS
    <3>2. x = [i \in 1 .. n - s |-> s + i] /\ n - s \in Nat
      BY <1>3, <3>1 DEF Interval
    <3>3. y = [i \in 1 .. (n + 1) - s |-> s + i] /\ (n + 1) - s = (n - s) + 1
      BY <1>3, <3>1 DEF Interval
    <3>4. x \in Seq(Nat) /\ Len(x) = n - s /\ \A i \in 1 .. n - s : x[i] = s + i
      BY <1>3, <3>2
    <3>5. PICK z : z = x \o <<e>>
      OBVIOUS
    <3>6. /\ Len(z) = (n - s) + 1 /\ z \in Seq(Nat)
          /\ \A i \in 1 .. n - s : z[i] = x[i]
          /\ z[(n - s) + 1] = e
      BY <1>2, <1>3, <3>2, <3>4, <3>5
    <3>7. ASSUME NEW i \in 1 .. (n - s) + 1 PROVE z[i] = s + i
      <4>1. CASE i \in 1 .. n - s
        BY <3>4, <3>6, <4>1
      <4>2. CASE i = (n - s) + 1
        BY <1>2, <1>3, <3>6, <4>2
      <4>. QED BY <3>2, <4>1, <4>2
    <3>8. z = [i \in 1 .. (n - s) + 1 |-> z[i]]
      BY <3>6
    <3>9. z = [i \in 1 .. (n - s) + 1 |-> s + i]
      BY <3>7, <3>8
    <3>. QED BY <3>1, <3>3, <3>5, <3>9
  <2>. QED BY <1>10, <2>1, <2>2
<1>12. RequestsOK'
  <2>1. s <= n + 1
    BY <1>3
  <2>2. posted' = n + 1 /\ started' = s
    BY <1>1, <1>2
  <2>3. After(Backward(request_queue'), s) = c \o <<e>>
    BY <1>5, <1>7, <1>8
  <2>. QED BY <1>0, <1>1, <1>2, <1>8, <1>11, <2>1, <2>2, <2>3 DEF RequestsOK
<1>13. ASSUME NEW t \in Threads PROVE Sum(t)' = Sum(t)
  <2>1. IsRunning(t)' <=> IsRunning(t)
    BY <1>1 DEF IsRunning
  <2>. QED BY <1>1, <2>1 DEF Sum, Listed, One
<1>14. PlacesOK'
  BY <1>1, <1>6, <1>13, PlacesMoved
<1>. QED
  BY <1>0, <1>1, <1>6, <1>12, <1>14 DEF Queues, OnceOK

\* Where the calls of a microthread lead.
LEMMA ScopeIsLeft ==
    ASSUME scope_body
    PROVE  pc' \in {"run", "dispatch", "scheduler"}
<1>1. \A t : install_new_thread(t) => pc' = "run"
  BY DEF install_new_thread
<1>2. Return => pc' = "run"
  BY DEF Return
<1>3. \A l : Leave(l) => pc' = l
  BY DEF Leave
<1>4. \A t, k : make_thread(t, k) => pc' = "run"
  BY <1>1 DEF make_thread
<1>5. \A k, team : make_task(k, team) => pc' = "run"
  BY <1>2 DEF make_task
<1>6. \A k, final : kill_task(k, final) => pc' = "run"
  BY <1>2 DEF kill_task
<1>7. \A t, final : kill_thread(t, final) => pc' = "run"
  BY <1>2 DEF kill_thread
<1>8. kill_the_dead => pc' = "run"
  BY <1>2 DEF kill_the_dead
<1>9. \A final : mark_thread_as_done_and_dispatch_next_thread(final)
                   => pc' \in {"run", "dispatch"}
  BY <1>2, <1>3 DEF mark_thread_as_done_and_dispatch_next_thread
<1>10. do_handler => pc' = "run"
  BY <1>2 DEF do_handler
<1>11. yield => pc' = "dispatch"
  BY <1>3 DEF yield
<1>12. \A S : wait_on_condvars(S) => pc' = "dispatch"
  BY <1>3 DEF wait_on_condvars
<1>13. fire_mailop => pc' = "run"
  BY <1>2 DEF fire_mailop
<1>14. block_for_mail => pc' = "dispatch"
  BY <1>3 DEF block_for_mail
<1>15. \A t : hand_over(t) => pc' = "run"
  BY <1>1 DEF hand_over
<1>16. \A t : switch_to_thread__xu(t) => pc' \in {"run", "scheduler"}
  BY <1>1, <1>3 DEF switch_to_thread__xu
<1>. QED
  BY <1>4, <1>5, <1>6, <1>7, <1>8, <1>9, <1>10, <1>11, <1>12, <1>13, <1>14,
     <1>15, <1>16, Zenon DEF scope_body

\* Once the queues were empty when the pools were idle, nothing more arrives.
LEMMA EndStep ==
    ASSUME IInv, QInv, [Next]_vars
    PROVE  EndOK'
<1>0. EndOK /\ QueuesTypeOK /\ SchedulerIsUninterruptible
  BY DEF QInv, IInv, Control
<1>. SUFFICES ASSUME pc' \in {"checked", "shutdown"}
              PROVE  EndOK'
  BY DEF EndOK
<1>1. CASE UNCHANGED <<pc, working, replied, front, back, background, request_queue>>
  BY <1>0, <1>1 DEF EndOK
<1>2. CASE enter_scope
  BY <1>2 DEF enter_scope
<1>3. CASE scope_body
  BY <1>3, ScopeIsLeft
<1>4. CASE submit
  BY <1>4 DEF submit
<1>5. CASE dispatch_next_thread__noreturn
  BY <1>5 DEF dispatch_next_thread__noreturn
<1>6. CASE alarm_handler
  <2>1. CASE alarm_preempts
    BY <2>1 DEF alarm_preempts
  <2>2. CASE alarm_defers
    BY <1>1, <2>2 DEF alarm_defers, fg, reqs, pools
  <2>. QED BY <1>6, <2>1, <2>2 DEF alarm_handler
<1>7. CASE scheduler
  <2>1. CASE look_for_work
    <3>1. /\ front = <<>> /\ back' = <<>> /\ background = <<>>
          /\ ~first_check /\ pc' = "checked"
          /\ UNCHANGED <<front, background, working, replied>>
      BY <2>1 DEF look_for_work, Leave, pools
    <3>2. working = 0 /\ replied = 0
      BY <1>0, <3>1 DEF first_check, is_doing_useful_work, QueuesTypeOK
    <3>. QED BY <3>1, <3>2 DEF EndOK
  <2>2. CASE look_at_request_queue
    <3>1. /\ pc = "checked" /\ ~second_check
          /\ UNCHANGED <<front, back, background, working, replied, request_queue>>
      BY <2>2 DEF look_at_request_queue, Leave, fg, reqs, pools
    <3>. QED BY <1>0, <3>1 DEF EndOK, second_check, request_queue_is_empty
  <2>3. ASSUME NEW e, switch_to(e) PROVE FALSE
    BY <2>3 DEF switch_to
  <2>4. ASSUME NEW l, Leave(l), l \notin {"checked", "shutdown"} PROVE FALSE
    BY <2>4 DEF Leave
  <2>5. CASE wake_sleeping_threads
    BY <2>4, <2>5 DEF wake_sleeping_threads
  <2>6. CASE dispatch_next_thread__usend__noreturn
    BY <2>4, <2>6 DEF dispatch_next_thread__usend__noreturn
  <2>7. CASE dequeue_refill
    BY <2>3, <2>7 DEF dequeue_refill
  <2>8. CASE dequeue_foreground
    BY <2>3, <2>4, <2>8 DEF dequeue_foreground
  <2>9. CASE dequeue_settles_for_cpu_bound
    BY <2>4, <2>9 DEF dequeue_settles_for_cpu_bound
  <2>10. CASE dequeue_cpu_bound_thread
    BY <2>3, <2>4, <2>10 DEF dequeue_cpu_bound_thread
  <2>11. CASE dequeue_finds_nothing
    BY <2>3, <2>11 DEF dequeue_finds_nothing
  <2>12. CASE no_runnable_threads_left__fate
    BY <2>12 DEF no_runnable_threads_left__fate
  <2>13. CASE block_until_inter_hostthread_request_queue_is_nonempty
    BY <2>4, <2>13 DEF block_until_inter_hostthread_request_queue_is_nonempty
  <2>. QED
    BY <1>7, <2>1, <2>2, <2>5, <2>6, <2>7, <2>8, <2>9, <2>10, <2>11, <2>12, <2>13
    DEF scheduler
<1>8. CASE do
  <2>1. working > 0 /\ pc' = pc
    BY <1>8 DEF do
  <2>. QED BY <1>0, <2>1 DEF EndOK
<1>9. CASE task_ends
  <2>1. pc' = pc /\ (working > 0 \/ replied > 0)
    BY <1>9 DEF task_ends
  <2>. QED BY <1>0, <2>1 DEF EndOK
<1>10. CASE UNCHANGED vars
  BY <1>1, <1>10 DEF vars, fg, reqs, pools
<1>. QED
  BY <1>2, <1>3, <1>4, <1>5, <1>6, <1>7, <1>8, <1>9, <1>10 DEF Next

\* The calls of a microthread.
LEMMA ScopeBodyKeepsQueues ==
    ASSUME IInv, Queues, scope_body
    PROVE  Queues'
<1>1. ASSUME NEW t \in Threads, NEW k, make_thread(t, k) PROVE Queues'
  BY <1>1, SwitchesKeepQueues
<1>2. ASSUME NEW k \in Tasks, NEW team \in Teams, make_task(k, team) PROVE Queues'
  BY <1>2, MakeTaskKeepsQueues
<1>3. ASSUME NEW k \in Tasks, NEW final, kill_task(k, final) PROVE Queues'
  BY <1>3, DeathsKeepQueues
<1>4. ASSUME NEW t \in Threads, NEW final \in {"SUCCESS", "FAILURE"},
             kill_thread(t, final)
      PROVE  Queues'
  <2>1. final \in Final
    BY DEF Final
  <2>. QED BY <1>4, <2>1, DeathsKeepQueues
<1>5. CASE kill_the_dead
  BY <1>5, CallsKeepQueues
<1>6. ASSUME NEW final \in {"SUCCESS", "FAILURE"},
             mark_thread_as_done_and_dispatch_next_thread(final)
      PROVE  Queues'
  <2>1. final \in Final
    BY DEF Final
  <2>. QED BY <1>6, <2>1, DeathsKeepQueues
<1>7. CASE do_handler
  BY <1>7, DeathsKeepQueues
<1>8. CASE yield
  BY <1>8, YieldKeepsQueues
<1>9. ASSUME NEW c \in Awaited, NEW d \in Awaited, wait_on_condvars({c, d})
      PROVE  Queues'
  <2>1. PICK S : S = {c, d}
    OBVIOUS
  <2>2. S \in SUBSET Condvars /\ S # {} /\ wait_on_condvars(S)
    BY <1>9, <2>1, MicrothreadsAssumption DEF Condvars
  <2>. QED BY <2>2, WaitKeepsQueues
<1>10. CASE fire_mailop
  BY <1>10, CallsKeepQueues
<1>11. CASE block_for_mail
  BY <1>11, BlockKeepsQueues
<1>12. ASSUME NEW t \in Threads, hand_over(t) PROVE Queues'
  BY <1>12, SwitchesKeepQueues
<1>13. ASSUME NEW t \in Threads, switch_to_thread__xu(t) PROVE Queues'
  BY <1>13, SwitchesKeepQueues, SwitchDueKeepsQueues
<1>. QED
  BY <1>1, <1>2, <1>3, <1>4, <1>5, <1>6, <1>7, <1>8, <1>9, <1>10, <1>11, <1>12,
     <1>13 DEF scope_body

\* Every step keeps the invariant of the queues.
LEMMA QInvStep ==
    ASSUME IInv, QInv, [Next]_vars
    PROVE  QInv'
<1>0. Queues
  BY DEF QInv, Queues
<1>1. Queues'
  <2>1. CASE enter_scope \/ submit \/ dispatch_next_thread__noreturn \/ task_ends
    BY <1>0, <2>1, CallsKeepQueues
  <2>2. CASE scope_body
    BY <1>0, <2>2, ScopeBodyKeepsQueues
  <2>3. CASE alarm_handler
    BY <1>0, <2>3, PreemptKeepsQueues, CallsKeepQueues DEF alarm_handler
  <2>4. CASE scheduler
    BY <1>0, <2>4, DriverStepsKeepQueues, DispatchKeepsQueues, DequeuesKeepQueues,
       ScansKeepQueues DEF scheduler
  <2>5. CASE do
    BY <1>0, <2>5, DoKeepsQueues
  <2>6. CASE UNCHANGED vars
    BY <1>0, <2>6, CallsKeepQueues
  <2>. QED BY <2>1, <2>2, <2>3, <2>4, <2>5, <2>6 DEF Next
<1>2. EndOK'
  BY EndStep
<1>. QED
  BY <1>1, <1>2 DEF QInv, Queues

\* The first thread runs, and there is nothing else.
LEMMA QInvInit ==
    ASSUME Init
    PROVE  QInv
<1>0. /\ state = [t \in Threads |->
                   IF t = DefaultThread THEN "ALIVE" ELSE "UNBORN"]
      /\ waiting = [c \in Condvars |-> <<>>] /\ mail_wait = {}
      /\ current_thread = DefaultThread
      /\ front = <<>> /\ back = <<>> /\ background = <<>>
      /\ didmail \in SUBSET {DefaultThread} /\ need_to_switch = FALSE
      /\ pc = "run" /\ request_queue = <<>> /\ posted = 0 /\ started = 0
      /\ working = 0 /\ replied = 0
  BY DEF Init
<1>1. DefaultThread \in Threads /\ MaxRequests \in Nat
  BY MicrothreadsAssumption
<1>2. QueuesTypeOK
  <2>1. <<>> \in Seq(Fates) /\ <<>> \in Seq(Thunks)
    OBVIOUS
  <2>2. DefaultThread \in Fates
    BY <1>1, FatesDiffer
  <2>3. 0 \in 0 .. MaxRequests /\ 0 \in Nat /\ 0 + 0 <= MaxRequests
    BY <1>1
  <2>4. didmail \in SUBSET (Threads \cup {Idle, Soon}) /\ mail_wait \in SUBSET Threads
    BY <1>0, <1>1
  <2>5. need_to_switch \in BOOLEAN
    BY <1>0
  <2>. QED BY <1>0, <2>1, <2>2, <2>3, <2>4, <2>5 DEF QueuesTypeOK
<1>3. ASSUME NEW t PROVE Listed(t) = 0 /\ ~BlockedIn(waiting, t)
  BY <1>0, CountEmpty DEF Listed, BlockedIn
<1>4. PlacesOK
  <2>1. ASSUME NEW t \in Threads
        PROVE  Sum(t) = IF t = DefaultThread THEN 1 ELSE 0
    <3>1. Sum(t) = 0 + One(t = DefaultThread) + 0 + 0
      BY <1>0, <1>3 DEF Sum, IsRunning, One
    <3>. QED BY <3>1 DEF One
  <2>2. \A t \in Threads : state[t] = IF t = DefaultThread THEN "ALIVE" ELSE "UNBORN"
    BY <1>0
  <2>. QED BY <2>1, <2>2 DEF PlacesOK
<1>5. OnceOK
  BY <1>0, CountEmpty DEF OnceOK, OnceIn
<1>6. RequestsOK
  <2>1. PICK q : q = <<>>
    OBVIOUS
  <2>2. Backward(request_queue) = <<>>
    BY <1>0 DEF Backward
  <2>3. q \in Seq(Fates) /\ \A i \in 1 .. Len(q) : q[i] \notin Later(0)
    BY <2>1
  <2>4. After(q, 0) = <<>>
    BY <2>3, AmongNone DEF After
  <2>5. Interval(0, 0) = <<>>
    BY DEF Interval
  <2>6. current_thread \notin Later(0)
    BY <1>0, <1>1, FatesDiffer
  <2>7. (q \o q) \o q = q
    BY <2>1
  <2>8. /\ After(background, started) = q /\ After(front, started) = q
        /\ After(back, started) = q /\ After(Backward(request_queue), started) = q
    BY <1>0, <2>1, <2>2, <2>4
  <2>9. Interval(started, posted) = q
    BY <1>0, <2>1, <2>5
  <2>10. (After(front, started) \o After(back, started))
            \o After(Backward(request_queue), started) = Interval(started, posted)
    BY <2>7, <2>8, <2>9
  <2>11. started <= posted /\ After(background, started) = <<>>
    BY <1>0, <2>1, <2>8
  <2>. QED BY <1>0, <2>6, <2>10, <2>11 DEF RequestsOK
<1>7. EndOK
  BY <1>0 DEF EndOK
<1>. QED
  BY <1>2, <1>4, <1>5, <1>6, <1>7 DEF QInv

-----------------------------------------------------------------------------
(* What the invariant of the queues says *)

\* The places of a thread are those that the invariant counts queue by queue.
LEMMA PlacesIsSum ==
    ASSUME LifeTypeOK, QueuesTypeOK, NEW t \in Threads
    PROVE  Places(t) = Sum(t)
<1>1. front \in Seq(Fates) /\ back \in Seq(Fates) /\ background \in Seq(Fates)
  BY DEF QueuesTypeOK
<1>2. Count(InRunQueues, t) = Listed(t)
  <2>1. PICK p : p = front \o back
    OBVIOUS
  <2>2. p \in Seq(Fates)
    BY <1>1, <2>1
  <2>3. Count(p, t) = Count(front, t) + Count(back, t)
    BY <1>1, <2>1, CountConcat
  <2>4. Count(p \o background, t) = Count(p, t) + Count(background, t)
    BY <1>1, <2>2, CountConcat
  <2>5. InRunQueues = p \o background
    BY <2>1 DEF InRunQueues
  <2>. QED BY <2>3, <2>4, <2>5 DEF Listed
<1>3. Cardinality({i \in DOMAIN InRunQueues : InRunQueues[i] = t})
         = Count(InRunQueues, t)
  <2>1. DOMAIN InRunQueues = 1 .. Len(InRunQueues)
    BY <1>1 DEF InRunQueues
  <2>. QED BY <2>1 DEF Count, Positions
<1>4. (\E c \in Condvars : IsBlockedOn(t, c)) <=> BlockedIn(waiting, t)
  <2>1. ASSUME NEW c \in Condvars
        PROVE  IsBlockedOn(t, c) <=> Count(waiting[c], Run(t)) # 0
    <3>1. waiting[c] \in Seq(Runs)
      BY DEF LifeTypeOK
    <3>2. IsIn(Run(t), waiting[c]) <=> Count(waiting[c], Run(t)) # 0
      BY <3>1, IsInCount
    <3>. QED BY <3>2 DEF IsBlockedOn, Run
  <2>. QED BY <2>1 DEF BlockedIn
<1>. QED
  BY <1>2, <1>3, <1>4 DEF Places, Sum, One

\* The requests that have not begun, queue by queue.
LEMMA NotBegunIs ==
    ASSUME QueuesTypeOK
    PROVE  NotBegun = ((After(front, started) \o After(back, started))
                          \o After(background, started))
                      \o After(Backward(request_queue), started)
<1>1. front \in Seq(Fates) /\ back \in Seq(Fates) /\ background \in Seq(Fates)
  BY DEF QueuesTypeOK
<1>2. PICK r : r = Backward(request_queue)
  OBVIOUS
<1>3. r \in Seq(Fates)
  <2>1. r \in Seq(Thunks)
    BY <1>2, BackwardSeq DEF QueuesTypeOK
  <2>. QED BY <2>1, FatesDiffer
<1>4. PICK p, q : p = front \o back /\ q = p \o background
  OBVIOUS
<1>5. p \in Seq(Fates) /\ q \in Seq(Fates)
  BY <1>1, <1>4
<1>6. PICK S : S = Later(started)
  OBVIOUS
<1>7. Among(p, S) = Among(front, S) \o Among(back, S)
  BY <1>1, <1>4, AmongConcat
<1>8. Among(q, S) = Among(p, S) \o Among(background, S)
  <2>1. PICK g : g = background
    OBVIOUS
  <2>2. g \in Seq(Fates) /\ q = p \o g
    BY <1>1, <1>4, <2>1
  <2>3. Among(p \o g, S) = Among(p, S) \o Among(g, S)
    BY <1>5, <2>2, AmongConcat
  <2>. QED BY <2>1, <2>2, <2>3
<1>9. Among(q \o r, S) = Among(q, S) \o Among(r, S)
  BY <1>3, <1>5, AmongConcat
<1>10. NotBegun = Among(q \o r, S)
  BY <1>2, <1>4, <1>6 DEF NotBegun, InRunQueues, Later
<1>. QED
  BY <1>2, <1>6, <1>7, <1>8, <1>9, <1>10 DEF After

\* The invariant of the queues holds for any number of threads, tasks, requests
\* and condvars, in every order of calls, alarms and replies.
THEOREM QueuesInvariant == Spec => []QInv
<1>1. Init => IInv /\ QInv
  BY IInvInit, QInvInit
<1>2. IInv /\ QInv /\ [Next]_vars => (IInv /\ QInv)'
  BY IInvStep, QInvStep
<1>. QED  BY <1>1, <1>2, PTL DEF Spec

\* Every variable has its type, posted and started included, which count the
\* requests up to the bound.
THEOREM TypeCorrect == Spec => []TypeOK
<1>1. ASSUME IInv, QInv PROVE TypeOK
  <2>1. /\ LifeTypeOK /\ QueuesTypeOK
        /\ uninterruptible_scope_mutex \in {0, 1} /\ pc \in PCs
    BY <1>1 DEF IInv, QInv, Lifecycle, Control
  <2>2. posted \in 0 .. MaxRequests
    <3>1. posted \in Nat /\ working \in Nat /\ posted + working <= MaxRequests
      BY <2>1 DEF QueuesTypeOK
    <3>. QED BY <3>1, MicrothreadsAssumption
  <2>. QED BY <2>1, <2>2 DEF TypeOK, QueuesTypeOK
<1>. QED  BY <1>1, LifecycleInvariant, QueuesInvariant, PTL

\* A thread is never in two queues, or in one while it runs or waits, and an
\* ALIVE thread is never lost: preempt__eu, yield, the condvars, the hand-overs
\* and the three dequeue loops each move it from one place to one other.
THEOREM ThreadsInOnePlace == Spec => []EveryThreadInOnePlace
<1>1. ASSUME IInv, QInv PROVE EveryThreadInOnePlace
  <2>1. LifeTypeOK /\ QueuesTypeOK /\ PlacesOK
    BY <1>1 DEF IInv, Lifecycle, QInv
  <2>2. \A t \in Threads : Places(t) = Sum(t)
    BY <2>1, PlacesIsSum
  <2>. QED BY <2>1, <2>2 DEF PlacesOK, EveryThreadInOnePlace
<1>. QED  BY <1>1, LifecycleInvariant, QueuesInvariant, PTL

\* The thunks of other hostthreads begin in the order in which they were posted
\* and none is dropped: request_queue is read backwards exactly once, the two
\* halves of the foreground queue keep the order, and a preempted thunk that
\* moves to the background has begun.
THEOREM RequestsInOrder == Spec => []RequestsBeginInOrder
<1>1. ASSUME QInv PROVE RequestsBeginInOrder
  <2>1. QueuesTypeOK /\ RequestsOK
    BY <1>1 DEF QInv
  <2>2. PICK a, b, r : /\ a = After(front, started) /\ b = After(back, started)
                       /\ r = After(Backward(request_queue), started)
    OBVIOUS
  <2>3. a \in Seq(Thunks) /\ b \in Seq(Thunks)
    BY <2>1, <2>2, AfterSeq DEF QueuesTypeOK
  <2>4. NotBegun = ((a \o b) \o <<>>) \o r
    BY <2>1, <2>2, NotBegunIs DEF RequestsOK
  <2>5. (a \o b) \o <<>> = a \o b
    BY <2>3
  <2>6. NotBegun = Interval(started, posted)
    BY <2>1, <2>2, <2>4, <2>5 DEF RequestsOK
  <2>. QED BY <2>6 DEF RequestsBeginInOrder, Interval
<1>. QED  BY <1>1, QueuesInvariant, PTL

\* The process ends for lack of work only when nothing can run and nothing can
\* arrive: the pools are looked at before the request queue, not after it.
THEOREM EndsOnlyIdle == Spec => []NoEarlyShutdown
<1>1. ASSUME QInv PROVE NoEarlyShutdown
  BY <1>1 DEF QInv, EndOK, NoEarlyShutdown, InRunQueues
<1>. QED  BY <1>1, QueuesInvariant, PTL
=============================================================================
