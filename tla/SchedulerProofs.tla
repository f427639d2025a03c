-------------------------- MODULE SchedulerProofs --------------------------
(***************************************************************************)
(* Proofs about Scheduler.tla, for any set of threads.                     *)
(*                                                                         *)
(* Two layers of invariants.  Core says where the boot is, which thread is *)
(* RUNNING and who has a stack; it needs nothing of who creates threads.   *)
(* Round(q) says of the queue, as the sequence q, where walks and the      *)
(* round robin stand in it; it needs that creations do not overlap.        *)
(***************************************************************************)
EXTENDS Scheduler, Sequences, FiniteSetTheorems, TLAPS

-----------------------------------------------------------------------------
(* The first layer *)

\* The boot: first running_thread is set, then thread_queue_head, and before
\* that there is no other thread and no call of schedule.
BootOrder ==
  /\ running_thread = NULL <=> op[Main].at = "boot"
  /\ thread_queue_head = NULL <=> op[Main].at \in {"boot", "head"}
  /\ thread_queue_head = NULL =>
       /\ sched = NULL /\ running_thread \in {NULL, Main}
       /\ \A t \in Kthreads : state[t] = "unborn"
  /\ running_thread = NULL => state[Main] = "unborn"
  /\ \A t \in Kthreads : op[t].at \in {"run", "walk", "link"}

\* The running thread is the only one in state RUNNING; inside schedule it
\* is the old one, which may have exited.
WhoRuns ==
  /\ \A t \in Threads : state[t] = "RUNNING" => t = running_thread
  /\ sched = NULL /\ running_thread # NULL => state[running_thread] = "RUNNING"
  /\ sched # NULL => /\ sched.old = running_thread
                     /\ state[sched.old] \in {"RUNNING", "DEAD"}

Stacks == \A t \in Threads : state[t] = "READY" => rsp[t] # NULL

\* What a creation has in hand: a new thread, and a member of the queue.
Creations ==
  \A c \in Threads :
    op[c].at \in {"walk", "link"} =>
      /\ c \in Creators
      /\ op[c].thread \in Kthreads /\ state[op[c].thread] # "unborn"
      /\ op[c].curr \in Threads

Core == TypeOK /\ BootOrder /\ WhoRuns /\ Stacks /\ Creations

LEMMA InitCore == Init => Core
<1> SUFFICES ASSUME Init PROVE Core
  OBVIOUS
<1> USE SchedulerConstants
<1>1. TypeOK
  BY DEF Init, TypeOK, Idle, Threads
<1>2. BootOrder
  BY DEF Init, BootOrder, Idle, Threads
<1>3. WhoRuns /\ Stacks
  BY DEF Init, WhoRuns, Stacks, Threads
<1>4. Creations
  BY DEF Init, Creations, Idle, Threads
<1> QED
  BY <1>1, <1>2, <1>3, <1>4 DEF Core

LEMMA StepCore == ASSUME Core, [Next]_vars PROVE Core'
<1> USE SchedulerConstants DEF Core
<1>1. CASE SetRunning
  BY <1>1 DEF SetRunning, Executing, TypeOK, BootOrder, WhoRuns, Stacks, Creations, Threads
<1>2. CASE SetHead
  BY <1>2 DEF SetHead, Executing, TypeOK, BootOrder, WhoRuns, Stacks, Creations, Threads
<1>3. CASE EnableInterrupts
  BY <1>3 DEF EnableInterrupts, Executing, Idle, TypeOK, BootOrder, WhoRuns, Stacks,
              Creations, Threads
<1>4. ASSUME NEW t \in Threads, PrintAndUnlock(t) PROVE Core'
  BY <1>4 DEF PrintAndUnlock, Executing, TypeOK, BootOrder, WhoRuns, Stacks, Creations
<1>5. ASSUME NEW t \in Threads, NEW n \in Kthreads, CreateNew(t, n) PROVE Core'
  <2> n \in Threads /\ n # t /\ n # Main
    BY <1>5 DEF CreateNew, Executing, WhoRuns, BootOrder, Threads
  <2>1. TypeOK'
    BY <1>5 DEF CreateNew, TypeOK, Threads
  <2>2. BootOrder'
    BY <1>5 DEF CreateNew, Executing, TypeOK, BootOrder, Threads
  <2>3. WhoRuns'
    BY <1>5 DEF CreateNew, Executing, TypeOK, WhoRuns, BootOrder
  <2>5. Stacks'
    BY <1>5 DEF CreateNew, TypeOK, Stacks
  <2>4. Creations'
    BY <1>5 DEF CreateNew, Executing, TypeOK, BootOrder, Creations, Threads
  <2> QED
    BY <2>1, <2>2, <2>3, <2>4, <2>5
<1>6. ASSUME NEW t \in Threads, CreateWalk(t) PROVE Core'
  BY <1>6 DEF CreateWalk, Executing, TypeOK, BootOrder, WhoRuns, Stacks, Creations, Threads
<1>7. ASSUME NEW t \in Threads, CreateLink(t) PROVE Core'
  <2>1. TypeOK'
    BY <1>7 DEF CreateLink, Linked, Executing, Idle, TypeOK, Creations, Threads
  <2>2. BootOrder'
    BY <1>7 DEF CreateLink, Executing, Idle, TypeOK, BootOrder, Threads
  <2>3. WhoRuns' /\ Stacks' /\ Creations'
    BY <1>7 DEF CreateLink, Idle, TypeOK, WhoRuns, Stacks, Creations
  <2> QED
    BY <2>1, <2>2, <2>3
<1>8. ASSUME NEW t \in Threads, kthread_exit(t) PROVE Core'
  <2>1. TypeOK'
    BY <1>8 DEF kthread_exit, TypeOK
  <2>2. BootOrder'
    BY <1>8 DEF kthread_exit, Executing, TypeOK, BootOrder, Threads
  <2>3. WhoRuns' /\ Stacks' /\ Creations'
    BY <1>8 DEF kthread_exit, Executing, TypeOK, WhoRuns, Stacks, Creations
  <2> QED
    BY <2>1, <2>2, <2>3
<1>9. CASE Tick
  <2>1. running_thread \in Threads
    BY <1>9 DEF Tick, TypeOK, BootOrder, Threads
  <2>2. TypeOK'
    BY <1>9, <2>1 DEF Tick, TypeOK, Threads
  <2>3. BootOrder' /\ WhoRuns' /\ Stacks' /\ Creations'
    BY <1>9, <2>1 DEF Tick, TypeOK, BootOrder, WhoRuns, Stacks, Creations
  <2> QED
    BY <2>2, <2>3
<1>10. CASE ScheduleSearch
  <2>1. sched' \in [old : Threads, new : Threads \cup {NULL}] /\ sched'.old = sched.old
    BY <1>10 DEF ScheduleSearch, FromHead, PastDead, TypeOK, Threads
  <2>2. TypeOK' /\ BootOrder'
    BY <1>10, <2>1 DEF ScheduleSearch, TypeOK, BootOrder
  <2>3. WhoRuns' /\ Stacks' /\ Creations'
    BY <1>10, <2>1 DEF ScheduleSearch, WhoRuns, Stacks, Creations
  <2> QED
    BY <2>2, <2>3
<1>11. CASE ScheduleSame
  BY <1>11 DEF ScheduleSame, Runnable, TypeOK, BootOrder, WhoRuns, Stacks, Creations, Threads
<1>12. CASE ScheduleSwitch
  <2>1. sched.old \in Threads /\ sched.new \in Threads /\ sched.old = running_thread
    BY <1>12 DEF ScheduleSwitch, TypeOK, WhoRuns
  <2>2. TypeOK'
    BY <1>12, <2>1 DEF ScheduleSwitch, Swapped, TypeOK, Threads
  <2>3. BootOrder'
    BY <1>12, <2>1 DEF ScheduleSwitch, TypeOK, BootOrder
  <2>4. WhoRuns'
    BY <1>12, <2>1 DEF ScheduleSwitch, Swapped, Runnable, TypeOK, WhoRuns
  <2>6. Stacks'
    BY <1>12, <2>1 DEF ScheduleSwitch, Swapped, Runnable, TypeOK, Stacks, WhoRuns
  <2>5. Creations'
    BY <1>12, <2>1 DEF ScheduleSwitch, Swapped, TypeOK, Creations, Threads
  <2> QED
    BY <2>2, <2>3, <2>4, <2>5, <2>6
<1>13. CASE UNCHANGED vars
  BY <1>13 DEF vars, TypeOK, BootOrder, WhoRuns, Stacks, Creations
<1> QED
  BY <1>1, <1>2, <1>3, <1>4, <1>5, <1>6, <1>7, <1>8, <1>9, <1>10, <1>11, <1>12, <1>13
     DEF Next

(***************************************************************************)
(* Whatever the boot, the threads and the timer do, and whoever creates    *)
(* threads, schedule never dereferences NULL, one thread is RUNNING and    *)
(* each READY one has a stack.                                             *)
(***************************************************************************)
THEOREM SchedulerInvariance == Spec => []SchedulerInv
<1>1. Core /\ [Next]_vars => Core'
  BY StepCore
<1>2. Core => SchedulerInv
  <2> SUFFICES ASSUME Core PROVE SchedulerInv
    OBVIOUS
  <2>1. RunningBeforeQueue
    BY DEF Core, BootOrder, RunningBeforeQueue
  <2>2. OneRunning
    BY DEF Core, TypeOK, WhoRuns, OneRunning, Threads
  <2>3. ReadyHasStack
    BY DEF Core, Stacks, ReadyHasStack, Queue
  <2> QED
    BY <2>1, <2>2, <2>3 DEF SchedulerInv, Core
<1> QED
  BY InitCore, <1>1, <1>2, PTL DEF Spec

(***************************************************************************)
(* No interleaving of exits, switches and creations brings a dead thread   *)
(* back, to life or to the CPU.                                            *)
(***************************************************************************)
THEOREM SchedulerDeadStaysDead == Spec => DeadStaysDead
<1> DEFINE Stay == \A t \in Threads :
                     state[t] = "DEAD" =>
                       state'[t] = "DEAD" /\ (running_thread' = t => running_thread = t)
<1>1. Core /\ [Next]_vars => Core'
  BY StepCore
<1>2. Core /\ [Next]_vars => [Stay]_vars
  <2> SUFFICES ASSUME Core, Next, NEW u \in Threads, state[u] = "DEAD"
               PROVE  state'[u] = "DEAD" /\ (running_thread' = u => running_thread = u)
    OBVIOUS
  <2> USE SchedulerConstants DEF Core, TypeOK
  <2>1. CASE SetRunning
    BY <2>1 DEF SetRunning, Executing, BootOrder, Threads
  <2>2. CASE ScheduleSwitch
    BY <2>2 DEF ScheduleSwitch, Swapped, Runnable
  <2>3. CASE \E t \in Threads : kthread_exit(t)
    BY <2>3 DEF kthread_exit
  <2>4. CASE \E t \in Threads, n \in Kthreads : CreateNew(t, n)
    BY <2>4 DEF CreateNew, Threads
  <2>5. CASE UNCHANGED <<state, running_thread>>
    BY <2>5
  <2> QED
    BY <2>1, <2>2, <2>3, <2>4, <2>5
       DEF Next, SetHead, EnableInterrupts, PrintAndUnlock, CreateWalk, CreateLink, Tick,
           ScheduleSearch, ScheduleSame
<1> QED
  BY InitCore, <1>1, <1>2, PTL DEF Spec, DeadStaysDead

-----------------------------------------------------------------------------
(* The second layer *)

\* Creations do not overlap.  Nothing in thread.c sees to that: of two walks
\* to the same tail, the second link would lose the first thread.
OneCreator == \A c, d \in Creators : c = d

On(q) == {q[i] : i \in 1..Len(q)}

\* q is the queue: the fields next lead from one of its members to the next.
IsQueue(q) ==
  /\ q \in Seq(Threads)
  /\ \A i, j \in 1..Len(q) : q[i] = q[j] => i = j
  /\ thread_queue_head = NULL => Len(q) = 0
  /\ thread_queue_head # NULL => Len(q) > 0 /\ q[1] = thread_queue_head
  /\ \A i \in 1..Len(q) :
       /\ next[q[i]] = IF i < Len(q) THEN q[i + 1] ELSE NULL
       /\ state[q[i]] # "unborn"
  /\ \A t \in Threads : t \notin On(q) => next[t] = NULL

\* A walk to the tail is on the queue, the thread to be linked is not yet.
WalksOn(q) ==
  \A c \in Threads :
    op[c].at \in {"walk", "link"} =>
      /\ op[c].curr \in On(q) /\ op[c].thread \notin On(q)
      /\ op[c].at = "link" => op[c].curr = q[Len(q)]

Known(q) ==
  \A t \in Threads :
    state[t] # "unborn" /\ thread_queue_head # NULL =>
      t \in On(q) \/ \E c \in Threads : op[c].at \in {"walk", "link"} /\ op[c].thread = t

\* Going round the queue from position i to j, k is passed on the way.
Between(i, j, k) == IF i < j THEN i < k /\ k < j ELSE k > i \/ k < j

\* What schedule has passed over cannot run.
Searched(q) ==
  /\ thread_queue_head # NULL => running_thread \in On(q)
  /\ sched # NULL =>
       /\ sched.new \in On(q) \cup {NULL}
       /\ \A i \in 1..Len(q), j \in 1..(Len(q) + 1), k \in 1..Len(q) :
            /\ q[i] = sched.old
            /\ IF sched.new = NULL THEN j = Len(q) + 1 ELSE j <= Len(q) /\ q[j] = sched.new
            /\ Between(i, j, k)
            => ~Runnable(q[k])

\* The threads that ran since p became ready lie on the way from p to the
\* running one, r.
Passed(p, r, k) == IF p < r THEN p < k /\ k <= r ELSE k > p \/ k <= r

Waiting(q) ==
  /\ thread_queue_head = NULL => \A t \in Threads : overtook[t] = {}
  /\ \A t \in Threads : state[t] = "RUNNING" => overtook[t] = {}
  /\ \A p \in 1..Len(q) : overtook[q[p]] \subseteq On(q)
  /\ \A p, r, k \in 1..Len(q) :
       /\ state[q[p]] = "READY"
       /\ q[r] = running_thread
       /\ q[k] \in overtook[q[p]]
       => Passed(p, r, k)

Round(q) == IsQueue(q) /\ WalksOn(q) /\ Known(q) /\ Searched(q) /\ Waiting(q)

QueueInv == Core /\ \E q \in Seq(Threads) : Round(q)

LEMMA EmptyQueue == <<>> \in Seq(Threads) /\ Len(<<>>) = 0
<1>1. <<>> \in Seq(Threads)
  OBVIOUS
<1>2. Len(<<>>) = 0
  BY Zenon, <1>1
<1> QED
  BY <1>1, <1>2

LEMMA InitRound == Init => \E q \in Seq(Threads) : Round(q)
<1> SUFFICES ASSUME Init PROVE Round(<<>>)
  BY EmptyQueue
<1> USE SchedulerConstants
<1>1. /\ \A t \in Threads : op[t].at \notin {"walk", "link"}
      /\ \A t \in Threads : overtook[t] = {} /\ next[t] = NULL
      /\ thread_queue_head = NULL /\ sched = NULL
  BY DEF Init, Idle, Threads
<1> QED
  BY <1>1, EmptyQueue DEF Round, IsQueue, WalksOn, Known, Searched, Waiting, On

\* The steps of the boot.
LEMMA BootRound ==
  ASSUME Core, NEW q \in Seq(Threads), Round(q), SetRunning \/ SetHead \/ EnableInterrupts
  PROVE  \E r \in Seq(Threads) : Round(r)'
<1> USE SchedulerConstants DEF Round, Core
<1>1. Main \in Threads
  BY DEF Threads
<1>2. CASE SetRunning
  <2>1. thread_queue_head = NULL /\ Len(q) = 0 /\ sched = NULL
    BY <1>2 DEF SetRunning, Executing, BootOrder, IsQueue
  <2>2. IsQueue(q)'
    BY <1>2, <2>1 DEF SetRunning, IsQueue, On
  <2>3. WalksOn(q)' /\ Known(q)' /\ Searched(q)'
    BY <1>2, <2>1, <1>1 DEF SetRunning, WalksOn, Known, Searched, On, TypeOK
  <2>4. Waiting(q)'
    BY <1>2, <2>1, <1>1 DEF SetRunning, Waiting, On
  <2> QED
    BY <2>2, <2>3, <2>4
<1>3. CASE SetHead
  <2> DEFINE r == <<Main>>
  <2>1. thread_queue_head = NULL /\ Len(q) = 0 /\ sched = NULL /\ running_thread = Main
    BY <1>3 DEF SetHead, Executing, BootOrder, IsQueue
  <2>2. r \in Seq(Threads) /\ Len(r) = 1 /\ r[1] = Main /\ On(r) = {Main}
    BY <1>1 DEF On
  <2>3. On(q) = {}
    BY <2>1 DEF On
  <2>4. next[Main] = NULL /\ state[Main] # "unborn"
    BY <2>1, <2>3, <1>1 DEF IsQueue, WhoRuns
  <2>5. \A t \in Kthreads : state[t] = "unborn"
    BY <2>1 DEF BootOrder
  <2>6. \A t \in Threads : op[t].at \notin {"walk", "link"}
    BY <2>3 DEF WalksOn
  <2> HIDE DEF r
  <2>7. IsQueue(r)'
    BY <1>3, <1>1, <2>2, <2>3, <2>4 DEF SetHead, IsQueue
  <2>8. WalksOn(r)'
    BY <1>3, <1>1, <2>6 DEF SetHead, WalksOn, TypeOK
  <2>9. Known(r)'
    BY <1>3, <2>2, <2>5 DEF SetHead, Known, Threads
  <2>10. Searched(r)'
    BY <1>3, <2>1, <2>2 DEF SetHead, Searched
  <2>11. Waiting(r)'
    BY <1>3, <1>1, <2>1, <2>2 DEF SetHead, Waiting
  <2> QED
    BY <2>2, <2>7, <2>8, <2>9, <2>10, <2>11
<1>4. CASE EnableInterrupts
  <2>1. op[Main].at = "sti"
    BY <1>4 DEF EnableInterrupts, Executing
  <2>2. WalksOn(q)' /\ Known(q)'
    BY <1>4, <2>1, <1>1 DEF EnableInterrupts, Idle, WalksOn, Known, TypeOK
  <2>3. IsQueue(q)'
    BY <1>4 DEF EnableInterrupts, IsQueue
  <2>4. Searched(q)' /\ Waiting(q)'
    BY <1>4 DEF EnableInterrupts, Searched, Waiting, Runnable
  <2> QED
    BY <2>2, <2>3, <2>4
<1> QED
  BY <1>2, <1>3, <1>4

\* The steps of kthread_create.
LEMMA CreateRound ==
  ASSUME OneCreator, Core, NEW q \in Seq(Threads), Round(q), NEW t \in Threads,
         CreateWalk(t) \/ CreateLink(t) \/ \E n \in Kthreads : CreateNew(t, n)
  PROVE  \E r \in Seq(Threads) : Round(r)'
<1> USE SchedulerConstants DEF Round, Core
<1>1. ASSUME NEW c \in Threads, op[c].at \in {"walk", "link"}, t \in Creators PROVE c = t
  BY <1>1 DEF OneCreator, Creations
<1>2. ASSUME NEW n \in Kthreads, CreateNew(t, n) PROVE Round(q)'
  <2> USE <1>2 DEF CreateNew
  <2>1. n \in Threads /\ n # t /\ t \in Creators /\ op[t].at = "run" /\ sched = NULL
    BY DEF Executing, WhoRuns, BootOrder, Threads
  <2>2. n \notin On(q)
    BY DEF IsQueue, On
  <2>3. thread_queue_head # NULL
    BY DEF Executing, BootOrder, Threads
  <2>4. IsQueue(q)'
    <3>1. \A i \in 1..Len(q) : q[i] \in Threads /\ q[i] # n
      BY <2>2 DEF On
    <3>2. \A i \in 1..Len(q) : state'[q[i]] = state[q[i]]
      BY <3>1 DEF TypeOK
    <3> QED
      BY <3>2 DEF IsQueue, On
  <2>5. op' = [op EXCEPT ![t] = [at |-> "walk", thread |-> n, curr |-> thread_queue_head]]
    OBVIOUS
  <2>6. thread_queue_head \in On(q)
    BY <2>3 DEF IsQueue, On
  <2>7. \A c \in Threads : c # t => op[c].at \notin {"walk", "link"}
    BY <1>1, <2>1
  <2>8. WalksOn(q)'
    BY <2>2, <2>5, <2>6, <2>7 DEF WalksOn, On, TypeOK
  <2>9. Known(q)'
    <3>1. op'[t].at = "walk" /\ op'[t].thread = n
      BY <2>5 DEF TypeOK
    <3>2. ASSUME NEW u \in Threads, state'[u] # "unborn", u # n PROVE u \in On(q)
      <4>1. state[u] # "unborn"
        BY <3>2 DEF TypeOK
      <4> QED
        BY <4>1, <2>1, <2>3, <2>7 DEF Known
    <3> QED
      BY <3>1, <3>2 DEF Known, On
  <2>10. Searched(q)'
    BY <2>1 DEF Searched, On
  <2>11. Waiting(q)'
    BY <2>2, <2>3 DEF Waiting, On, TypeOK
  <2> QED
    BY <2>4, <2>8, <2>9, <2>10, <2>11
<1>3. CASE CreateWalk(t)
  <2> USE <1>3 DEF CreateWalk
  <2>1. /\ t \in Creators /\ op[t].at = "walk" /\ sched = NULL
        /\ op[t].curr \in On(q) /\ op[t].thread \notin On(q)
    BY DEF Executing, Creations, WalksOn
  <2>2. PICK i \in 1..Len(q) : q[i] = op[t].curr
    BY <2>1 DEF On
  <2>3. next[op[t].curr] = IF i < Len(q) THEN q[i + 1] ELSE NULL
    BY <2>2 DEF IsQueue
  <2>4. op'[t].at \in {"walk", "link"} /\ op'[t].thread = op[t].thread
    BY <2>1 DEF TypeOK
  <2>5. op'[t].curr \in On(q) /\ (op'[t].at = "link" => op'[t].curr = q[Len(q)])
    <3>1. CASE i < Len(q)
      <4>1. q[i + 1] \in On(q) /\ q[i + 1] # NULL
        BY <3>1 DEF On
      <4> QED
        BY <2>1, <2>3, <3>1, <4>1 DEF TypeOK
    <3>2. CASE i = Len(q)
      BY <2>1, <2>2, <2>3, <3>2 DEF TypeOK
    <3> QED
      BY <3>1, <3>2
  <2>6. WalksOn(q)'
    BY <2>1, <2>4, <2>5 DEF WalksOn, On, TypeOK
  <2>7. Known(q)'
    BY <2>1, <2>4 DEF Known, On, TypeOK
  <2>8. IsQueue(q)' /\ Searched(q)' /\ Waiting(q)'
    BY DEF IsQueue, Searched, Waiting, On, Runnable
  <2> QED
    BY <2>6, <2>7, <2>8
<1>4. CASE CreateLink(t)
  <2> USE <1>4 DEF CreateLink, Linked
  <2> PICK n : n = op[t].thread
    OBVIOUS
  <2> PICK r : r = Append(q, n)
    OBVIOUS
  <2>1. /\ t \in Creators /\ op[t].at = "link" /\ sched = NULL
        /\ op[t].curr = q[Len(q)] /\ op[t].curr \in On(q) /\ n \notin On(q)
        /\ n \in Threads /\ state[n] # "unborn" /\ next[n] = NULL
    BY DEF Executing, Creations, WalksOn, IsQueue, Threads
  <2>2. /\ r \in Seq(Threads) /\ Len(r) = Len(q) + 1 /\ Len(q) \in Nat \ {0}
        /\ \A i \in 1..Len(q) : r[i] = q[i]
        /\ r[Len(q) + 1] = n
    BY <2>1 DEF On
  <2>3. On(r) = On(q) \cup {n}
    BY <2>2 DEF On
  <2>4. thread_queue_head # NULL
    BY <2>2 DEF IsQueue
  <2>5. next' = [next EXCEPT ![q[Len(q)]] = n]
    BY <2>1
  <2>6. \A c \in Threads : c # t => op[c].at \notin {"walk", "link"}
    BY <1>1, <2>1
  <2>7. op' = [op EXCEPT ![t] = Idle]
    OBVIOUS
  <2>13. overtook' = [overtook EXCEPT ![n] = {}]
    OBVIOUS
  <2>14. UNCHANGED <<running_thread, thread_queue_head, state, rsp, intr, sched>>
    OBVIOUS
  <2> HIDE <1>4 DEF CreateLink, Linked
  <2>8. IsQueue(r)'
    <3>1. \A i, j \in 1..Len(r) : r[i] = r[j] => i = j
      BY <2>1, <2>2 DEF IsQueue, On
    <3>2. r[1] = thread_queue_head
      BY <2>2, <2>4 DEF IsQueue
    <3>3. ASSUME NEW i \in 1..Len(r)
          PROVE  next'[r[i]] = IF i < Len(r) THEN r[i + 1] ELSE NULL
      <4>1. CASE i < Len(q)
        BY <2>2, <2>5, <4>1 DEF IsQueue, TypeOK
      <4>2. CASE i = Len(q)
        BY <2>2, <2>5, <4>2 DEF TypeOK
      <4>3. CASE i = Len(q) + 1
        <5>1. next'[n] = NULL
          BY <2>1, <2>5 DEF TypeOK
        <5> QED
          BY <2>2, <4>3, <5>1
      <4> QED
        BY <2>2, <4>1, <4>2, <4>3
    <3>4. \A i \in 1..Len(r) : state[r[i]] # "unborn"
      BY <2>1, <2>2 DEF IsQueue
    <3>5. \A u \in Threads : u \notin On(r) => next'[u] = NULL
      BY <2>1, <2>3, <2>5 DEF IsQueue, TypeOK
    <3> QED
      BY <2>2, <2>4, <2>14, <3>1, <3>2, <3>3, <3>4, <3>5 DEF IsQueue, On
  <2>9. WalksOn(r)'
    BY <2>6, <2>7 DEF WalksOn, Idle, TypeOK
  <2>10. Known(r)'
    BY <2>3, <2>6, <2>14 DEF Known, On
  <2>11. Searched(r)'
    BY <2>1, <2>3, <2>14 DEF Searched, On
  <2>12. Waiting(r)'
    <3>1. \A u \in Threads : overtook'[u] = IF u = n THEN {} ELSE overtook[u]
      BY <2>13 DEF TypeOK
    <3>2. \A p \in 1..Len(r) : overtook'[r[p]] \subseteq On(q)
      BY <2>2, <3>1 DEF Waiting
    <3>3. ASSUME NEW p \in 1..Len(r), NEW k \in 1..Len(r), NEW i \in 1..Len(r),
                 state[r[p]] = "READY", r[i] = running_thread, r[k] \in overtook'[r[p]]
          PROVE  Passed(p, i, k)
      <4>1. r[p] # n /\ p \in 1..Len(q) /\ q[p] \in Threads
        BY <3>1, <3>3, <2>2
      <4>2. k \in 1..Len(q)
        BY <3>2, <3>3, <2>1, <2>2
      <4>3. i \in 1..Len(q)
        BY <3>3, <2>1, <2>2, <2>4 DEF Searched
      <4> QED
        BY <3>1, <3>3, <4>1, <4>2, <4>3, <2>2 DEF Waiting
    <3> QED
      BY <2>3, <2>4, <2>14, <3>1, <3>2, <3>3 DEF Waiting, On
  <2> QED
    BY <2>2, <2>8, <2>9, <2>10, <2>11, <2>12
<1> QED
  BY <1>2, <1>3, <1>4

\* The steps of a thread and of schedule.
LEMMA ThreadRound ==
  ASSUME Core, NEW q \in Seq(Threads), Round(q),
         \/ \E t \in Threads : PrintAndUnlock(t) \/ kthread_exit(t)
         \/ Tick \/ ScheduleSame
  PROVE  Round(q)'
<1> USE SchedulerConstants DEF Round, Core
<1>1. CASE \E t \in Threads : PrintAndUnlock(t)
  BY <1>1 DEF PrintAndUnlock, IsQueue, WalksOn, Known, Searched, Waiting, Runnable
<1>2. CASE ScheduleSame
  BY <1>2 DEF ScheduleSame, IsQueue, WalksOn, Known, Searched, Waiting
\* schedule starts at the successor of the thread that was running.
<1>3. ASSUME NEW t \in On(q), running_thread = t, thread_queue_head # NULL,
             sched' = [old |-> t, new |-> next[t]],
             UNCHANGED <<next, thread_queue_head, running_thread>>
      PROVE  Searched(q)'
  <2>1. PICK i \in 1..Len(q) : q[i] = t
    BY DEF On
  <2>2. next[t] = IF i < Len(q) THEN q[i + 1] ELSE NULL
    BY <2>1 DEF IsQueue
  <2>3. next[t] \in On(q) \cup {NULL}
    BY <2>2 DEF On
  <2>4. ASSUME NEW a \in 1..Len(q), NEW j \in 1..(Len(q) + 1), NEW k \in 1..Len(q), q[a] = t,
               IF next[t] = NULL THEN j = Len(q) + 1 ELSE j <= Len(q) /\ q[j] = next[t]
        PROVE  ~Between(a, j, k)
    <3>1. a = i
      BY <2>1, <2>4 DEF IsQueue
    <3>2. CASE i < Len(q)
      <4>1. q[i + 1] # NULL /\ i + 1 \in 1..Len(q)
        BY <3>2
      <4>2. j = i + 1
        BY <2>2, <2>4, <3>2, <4>1 DEF IsQueue
      <4> QED
        BY <3>1, <4>2 DEF Between
    <3>3. CASE i = Len(q)
      BY <2>2, <2>4, <3>1, <3>3 DEF Between
    <3> QED
      BY <3>2, <3>3
  <2>5. sched'.old = t /\ sched'.new = next[t]
    BY <1>3
  <2> QED
    BY <1>3, <2>3, <2>4, <2>5 DEF Searched, On
<1>4. CASE Tick
  <2>1. running_thread \in On(q) /\ thread_queue_head # NULL
    BY <1>4 DEF Tick, Searched
  <2>2. Searched(q)'
    BY <1>3, <1>4, <2>1 DEF Tick
  <2> QED
    BY <1>4, <2>2 DEF Tick, IsQueue, WalksOn, Known, Waiting
<1>5. ASSUME NEW t \in Threads, kthread_exit(t) PROVE Round(q)'
  <2> USE <1>5 DEF kthread_exit
  <2>1. t = running_thread /\ t \in On(q) /\ thread_queue_head # NULL
    BY DEF Executing, BootOrder, Searched, Threads
  <2>2. \A u \in Threads : state'[u] = IF u = t THEN "DEAD" ELSE state[u]
    BY DEF TypeOK
  <2>3. state[t] = "RUNNING"
    BY <2>1 DEF Executing, WhoRuns
  <2>4. Searched(q)'
    BY <1>3, <2>1
  <2>5. IsQueue(q)'
    BY <2>2 DEF IsQueue
  <2>6. WalksOn(q)' /\ Known(q)'
    BY <2>2, <2>3 DEF WalksOn, Known
  <2>7. Waiting(q)'
    BY <2>2, <2>3 DEF Waiting
  <2> QED
    BY <2>4, <2>5, <2>6, <2>7
<1> QED
  BY <1>1, <1>2, <1>4, <1>5

LEMMA SearchRound ==
  ASSUME Core, NEW q \in Seq(Threads), Round(q), ScheduleSearch
  PROVE  Round(q)'
<1> USE SchedulerConstants DEF Round, Core
<1>1. sched \in [old : Threads, new : Threads \cup {NULL}] /\ thread_queue_head # NULL
  BY DEF ScheduleSearch, TypeOK, BootOrder
<1>2. UNCHANGED <<running_thread, thread_queue_head, next, state, rsp, intr, op, overtook>>
  BY DEF ScheduleSearch
<1>3. IsQueue(q)' /\ WalksOn(q)' /\ Known(q)' /\ Waiting(q)'
  BY <1>2 DEF IsQueue, WalksOn, Known, Waiting
<1>4. CASE sched.new = NULL
  <2>1. sched' = [sched EXCEPT !.new = thread_queue_head]
    BY <1>4 DEF ScheduleSearch, FromHead
  <2>2. sched'.old = sched.old /\ sched'.new = q[1] /\ 1 \in 1..Len(q) /\ q[1] \in Threads
    BY <1>1, <2>1 DEF IsQueue
  <2>3. ASSUME NEW i \in 1..Len(q), NEW j \in 1..Len(q), NEW k \in 1..Len(q),
               q[i] = sched.old, q[j] = q[1], Between(i, j, k)
        PROVE  ~Runnable(q[k])
    <3>1. j = 1
      BY <2>2, <2>3 DEF IsQueue
    <3>2. Between(i, Len(q) + 1, k)
      BY <2>3, <3>1 DEF Between
    <3> QED
      BY <1>1, <1>4, <2>3, <3>2 DEF Searched
  <2>4. Searched(q)'
    BY <1>1, <1>2, <2>2, <2>3 DEF Searched, On, Runnable
  <2> QED
    BY <1>3, <2>4
<1>5. CASE sched.new # NULL
  <2>1. ~Runnable(sched.new) /\ sched' = [sched EXCEPT !.new = next[sched.new]]
    BY <1>5 DEF ScheduleSearch, PastDead
  <2>2. sched.new \in On(q)
    BY <1>1, <1>5 DEF Searched
  <2>3. PICK a \in 1..Len(q) : q[a] = sched.new
    BY <2>2 DEF On
  <2>4. sched'.old = sched.old /\ sched'.new = IF a < Len(q) THEN q[a + 1] ELSE NULL
    BY <1>1, <2>1, <2>3 DEF IsQueue
  <2>5. sched'.new \in On(q) \cup {NULL}
    BY <2>4 DEF On
  <2>6. ASSUME NEW i \in 1..Len(q), NEW j \in 1..(Len(q) + 1), NEW k \in 1..Len(q),
               q[i] = sched.old, Between(i, j, k),
               IF sched'.new = NULL THEN j = Len(q) + 1 ELSE j <= Len(q) /\ q[j] = sched'.new
        PROVE  ~Runnable(q[k])
    <3>1. j = a + 1
      <4>1. CASE a < Len(q)
        <5>1. q[a + 1] # NULL /\ a + 1 \in 1..Len(q)
          BY <4>1
        <5> QED
          BY <2>4, <2>6, <4>1, <5>1 DEF IsQueue
      <4>2. CASE a = Len(q)
        BY <2>4, <2>6, <4>2
      <4> QED
        BY <4>1, <4>2
    <3>2. k = a \/ Between(i, a, k)
      BY <2>6, <3>1 DEF Between
    <3>3. Between(i, a, k) => ~Runnable(q[k])
      BY <1>1, <1>5, <2>3, <2>6 DEF Searched
    <3> QED
      BY <2>1, <2>3, <3>2, <3>3
  <2>7. Searched(q)'
    BY <1>1, <1>2, <2>4, <2>5, <2>6 DEF Searched, On, Runnable
  <2> QED
    BY <1>3, <2>7
<1> QED
  BY <1>4, <1>5

LEMMA SwitchRound ==
  ASSUME Core, NEW q \in Seq(Threads), Round(q), ScheduleSwitch
  PROVE  Round(q)'
<1> USE SchedulerConstants DEF Round, Core
<1> PICK o, n : o = sched.old /\ n = sched.new
  OBVIOUS
<1>1. /\ sched # NULL /\ thread_queue_head # NULL
      /\ o \in Threads /\ n \in Threads /\ n # o /\ o = running_thread
      /\ state[o] \in {"RUNNING", "DEAD"} /\ state[n] = "READY"
  BY DEF ScheduleSwitch, TypeOK, BootOrder, WhoRuns, Runnable
<1>2. /\ state' = [state EXCEPT ![o] = IF @ = "RUNNING" THEN "READY" ELSE @, ![n] = "RUNNING"]
      /\ running_thread' = n /\ sched' = NULL
      /\ UNCHANGED <<thread_queue_head, next, op>>
  BY DEF ScheduleSwitch, Swapped
<1>3. \A t \in Threads : overtook'[t] = IF t # n /\ Runnable(t) THEN overtook[t] \cup {n} ELSE {}
  BY DEF ScheduleSwitch
<1>4. \A t \in Threads : state'[t] = IF t = n THEN "RUNNING" ELSE
                                     IF t = o /\ state[t] = "RUNNING" THEN "READY" ELSE state[t]
  BY <1>1, <1>2 DEF TypeOK
<1>5. n \in On(q) /\ o \in On(q)
  BY <1>1 DEF Searched
<1>6. PICK i, j \in 1..Len(q) : q[i] = o /\ q[j] = n /\ i # j
  BY <1>1, <1>5 DEF On
<1>12. \A t \in Threads : state'[t] = "unborn" <=> state[t] = "unborn"
  BY <1>1, <1>4
<1>13. \A p \in 1..Len(q) : q[p] \in Threads
  OBVIOUS
<1>7. IsQueue(q)'
  BY <1>2, <1>12, <1>13 DEF IsQueue, On
<1>8. WalksOn(q)' /\ Known(q)'
  BY <1>2, <1>12 DEF WalksOn, Known
<1>9. Searched(q)'
  BY <1>2, <1>5 DEF Searched, On
<1>10. ASSUME NEW p \in 1..Len(q), NEW k \in 1..Len(q), state'[q[p]] = "READY",
              q[k] \in overtook'[q[p]]
       PROVE  Passed(p, j, k)
  <2>1. p # j /\ q[p] # n /\ q[p] \in Threads
    BY <1>4, <1>6, <1>10
  <2>2. Runnable(q[p]) /\ q[k] \in overtook[q[p]] \cup {n}
    BY <1>3, <1>10, <2>1
  <2>3. CASE q[k] = n
    <3>1. k = j
      BY <1>6, <2>3 DEF IsQueue
    <3> QED
      BY <2>1, <3>1 DEF Passed
  <2>4. CASE q[k] \in overtook[q[p]]
    <3>1. state[q[p]] = "READY"
      BY <2>1, <2>2, <2>4 DEF Waiting, Runnable
    <3>2. p # i
      BY <1>1, <1>6, <3>1
    <3>3. Passed(p, i, k)
      BY <1>1, <1>6, <2>4, <3>1 DEF Waiting
    <3>4. ~Between(i, j, p)
      BY <1>1, <1>6, <2>2 DEF Searched
    <3> QED
      BY <1>6, <2>1, <3>2, <3>3, <3>4 DEF Passed, Between
  <2> QED
    BY <2>2, <2>3, <2>4
<1>11. Waiting(q)'
  <2>1. \A t \in Threads : state'[t] = "RUNNING" => overtook'[t] = {}
    BY <1>1, <1>3, <1>4 DEF WhoRuns
  <2>2. \A p \in 1..Len(q) : overtook'[q[p]] \subseteq On(q)
    <3> SUFFICES ASSUME NEW p \in 1..Len(q) PROVE overtook'[q[p]] \subseteq overtook[q[p]] \cup {n}
      BY <1>5 DEF Waiting
    <3> QED
      BY <1>3, <1>13
  <2>3. \A r \in 1..Len(q) : q[r] = n => r = j
    BY <1>6 DEF IsQueue
  <2>4. \A p, r, k \in 1..Len(q) :
          state'[q[p]] = "READY" /\ q[r] = n /\ q[k] \in overtook'[q[p]] => Passed(p, r, k)
    BY <1>10, <2>3
  <2> QED
    BY <1>1, <1>2, <2>1, <2>2, <2>4 DEF Waiting, On
<1> QED
  BY <1>7, <1>8, <1>9, <1>11

LEMMA StepRound == ASSUME OneCreator, QueueInv, [Next]_vars PROVE QueueInv'
<1>1. Core'
  BY StepCore DEF QueueInv
<1>2. PICK q \in Seq(Threads) : Round(q)
  BY DEF QueueInv
<1>3. CASE UNCHANGED vars
  <2>1. Round(q)'
    BY <1>2, <1>3 DEF vars, Round, IsQueue, WalksOn, Known, Searched, Waiting, Runnable
  <2> QED
    BY <1>1, <2>1 DEF QueueInv
<1>4. CASE Next
  <2>1. CASE SetRunning \/ SetHead \/ EnableInterrupts
    BY <1>1, <1>2, <2>1, BootRound DEF QueueInv
  <2>2. ASSUME NEW t \in Threads,
               CreateWalk(t) \/ CreateLink(t) \/ \E n \in Kthreads : CreateNew(t, n)
        PROVE  QueueInv'
    BY <1>1, <1>2, <2>2, CreateRound DEF QueueInv
  <2>3. CASE \/ \E t \in Threads : PrintAndUnlock(t) \/ kthread_exit(t)
             \/ Tick \/ ScheduleSame
    BY <1>1, <1>2, <2>3, ThreadRound DEF QueueInv
  <2>4. CASE ScheduleSearch
    BY <1>1, <1>2, <2>4, SearchRound DEF QueueInv
  <2>5. CASE ScheduleSwitch
    BY <1>1, <1>2, <2>5, SwitchRound DEF QueueInv
  <2> QED
    BY <1>4, <2>1, <2>2, <2>3, <2>4, <2>5 DEF Next
<1> QED
  BY <1>3, <1>4

\* A set of natural numbers has a least member.
LEMMA Least == \A T \in SUBSET Nat : T # {} => \E x \in T : \A y \in T : x <= y
<1> SUFFICES ASSUME NEW T \in SUBSET Nat, T # {}
             PROVE  \E x \in T : \A y \in T : x <= y
  OBVIOUS
<1> PICK m \in T : TRUE
  OBVIOUS
<1> DEFINE S == 0..m
           F == {0..n : n \in T \cap S}
           R == StrictSubsetOrdering(S)
<1>1. IsFiniteSet(S)
  BY FS_Interval
<1>2. IsWellFoundedOn(R, SUBSET S)
  BY <1>1, FS_FiniteSubsetsOfFinite, FS_StrictSubsetOrderingWellFounded
<1>3. F \subseteq SUBSET S /\ F # {}
  OBVIOUS
<1>4. PICK A \in F : \A B \in F : ~(<<B, A>> \in R)
  <2> HIDE DEF F, R, S
  <2> QED
    BY <1>2, <1>3, WFMin
<1>5. PICK x \in T \cap S : A = 0..x
  OBVIOUS
<1>6. \A y \in T \cap S : x <= y
  <2> SUFFICES ASSUME NEW y \in T \cap S, y < x PROVE FALSE
    OBVIOUS
  <2>1. 0..y \in F
    OBVIOUS
  <2>2. 0..y \subseteq 0..x /\ 0..y # 0..x
    OBVIOUS
  <2> QED
    BY <1>3, <1>4, <1>5, <2>1, <2>2 DEF StrictSubsetOrdering
<1> QED
  BY <1>5, <1>6

\* The walk from thread_queue_head meets the members of q and no others.
LEMMA QueueIsOn == ASSUME Core, NEW q \in Seq(Threads), IsQueue(q) PROVE Queue = On(q)
<1> USE SchedulerConstants
<1>1. On(q) \subseteq Threads
  BY DEF On
<1>2. WalkStaysIn(On(q))
  <2>1. \A i \in 1..Len(q) : next[q[i]] \in On(q) \cup {NULL}
    BY DEF IsQueue, On
  <2>2. thread_queue_head \in On(q) \cup {NULL}
    BY DEF IsQueue, On
  <2> QED
    BY <2>1, <2>2 DEF WalkStaysIn, On
<1>3. ASSUME NEW S \in SUBSET Threads, WalkStaysIn(S) PROVE On(q) \subseteq S
  <2> DEFINE T == {i \in 1..Len(q) : q[i] \notin S}
  <2> SUFFICES ASSUME T # {} PROVE FALSE
    BY DEF On
  <2>5. T \in SUBSET Nat
    OBVIOUS
  <2>1. PICK i \in T : \A j \in T : i <= j
    <3> HIDE DEF T
    <3> QED
      BY <2>5, Least
  <2>2. q[i] \notin S /\ q[i] \in Threads
    OBVIOUS
  <2>3. CASE i = 1
    <3>1. thread_queue_head = q[1]
      BY <2>3 DEF IsQueue
    <3> QED
      BY <1>3, <2>2, <2>3, <3>1 DEF WalkStaysIn
  <2>4. CASE i # 1
    <3>1. i - 1 \in 1..Len(q) /\ i - 1 \notin T
      BY <2>1, <2>4
    <3>2. q[i - 1] \in S
      BY <3>1
    <3>3. next[q[i - 1]] = q[i]
      BY <3>1 DEF IsQueue
    <3> QED
      BY <1>3, <2>2, <3>2, <3>3 DEF WalkStaysIn
  <2> QED
    BY <2>3, <2>4
<1> QED
  BY <1>1, <1>2, <1>3 DEF Queue

LEMMA InitQueueInv == Init => QueueInv
  BY InitCore, InitRound DEF QueueInv

(***************************************************************************)
(* If creations do not overlap, no thread that kthread_create has returned *)
(* is ever off the queue, however ticks, switches and exits fall into the  *)
(* walk to its tail.                                                       *)
(***************************************************************************)
THEOREM SchedulerNoThreadLost == ASSUME OneCreator PROVE Spec => []NoThreadLost
<1>1. Init => QueueInv
  BY InitQueueInv
<1>2. QueueInv /\ [Next]_vars => QueueInv'
  BY StepRound
<1>3. QueueInv => NoThreadLost
  BY QueueIsOn DEF QueueInv, Round, Known, NoThreadLost
<1> QED
  BY <1>1, <1>2, <1>3, PTL DEF Spec

(***************************************************************************)
(* If creations do not overlap, schedule is fair among the threads: a      *)
(* ready one is overtaken at most once by each of the others.              *)
(***************************************************************************)
THEOREM SchedulerRoundRobin == ASSUME OneCreator PROVE Spec => RoundRobin
<1> DEFINE Fair == \A t \in Queue :
                     /\ state[t] = "READY"
                     /\ running_thread' # running_thread
                     /\ running_thread' # t
                     => running_thread' \notin overtook[t]
<1>1. Init => QueueInv
  BY InitQueueInv
<1>2. QueueInv /\ [Next]_vars => QueueInv'
  BY StepRound
<1>3. QueueInv /\ [Next]_vars => [Fair]_vars
  <2> SUFFICES ASSUME QueueInv, Next, NEW t \in Queue, state[t] = "READY",
                      running_thread' # running_thread, running_thread' # t
               PROVE  running_thread' \notin overtook[t]
    OBVIOUS
  <2> USE SchedulerConstants
  <2>1. Core
    BY DEF QueueInv
  <2>2. PICK q \in Seq(Threads) : Round(q)
    BY DEF QueueInv
  <2>3. t \in On(q) /\ t \in Threads
    BY <2>1, <2>2, QueueIsOn DEF Round, Queue
  <2>4. CASE SetRunning
    BY <2>1, <2>2, <2>3, <2>4
       DEF Core, BootOrder, SetRunning, Executing, Round, IsQueue, On
  <2>5. CASE ScheduleSwitch
    <3> PICK o, n : o = sched.old /\ n = sched.new
      OBVIOUS
    <3>1. /\ sched # NULL /\ thread_queue_head # NULL /\ running_thread' = n
          /\ o = running_thread /\ n # o /\ n # NULL /\ Runnable(n) /\ Runnable(t) /\ t # n
      BY <2>1, <2>5 DEF ScheduleSwitch, Core, BootOrder, WhoRuns, Runnable
    <3>2. n \in On(q) /\ o \in On(q)
      BY <2>2, <3>1 DEF Round, Searched
    <3>3. PICK i, j, p \in 1..Len(q) : q[i] = o /\ q[j] = n /\ q[p] = t
      BY <2>3, <3>2 DEF On
    <3>4. ~Between(i, j, p)
      BY <2>2, <3>1, <3>3 DEF Round, Searched
    <3>5. i # j /\ j # p
      BY <3>1, <3>3
    <3>6. i # p
      BY <2>1, <3>1, <3>3 DEF Core, WhoRuns
    <3>7. ~Passed(p, i, j)
      BY <3>4, <3>5, <3>6 DEF Passed, Between
    <3> QED
      BY <2>2, <3>1, <3>3, <3>7 DEF Round, Waiting
  <2> QED
    BY <2>4, <2>5
       DEF Next, SetHead, EnableInterrupts, PrintAndUnlock, CreateWalk, CreateLink, CreateNew,
           kthread_exit, Tick, ScheduleSearch, ScheduleSame
<1> QED
  BY <1>1, <1>2, <1>3, PTL DEF Spec, RoundRobin
=============================================================================
