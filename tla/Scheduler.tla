----------------------------- MODULE Scheduler -----------------------------
(***************************************************************************)
(* Kernel threads: src/arch/x86_64/thread.c, context_switch in switch.asm, *)
(* and the timer interrupt of irq.c and isr.asm that calls schedule.       *)
(*                                                                         *)
(* One CPU.  Only the running thread takes steps, and with the interrupt   *)
(* flag IF set the timer may take the CPU away between any two of them.    *)
(* kthread_create is not protected against that: its walk to the tail of   *)
(* the queue and its final link are separate steps.  schedule runs with    *)
(* interrupts off and walks the queue one step at a time.                  *)
(*                                                                         *)
(* context_switch saves no flags.  A thread that was preempted returns     *)
(* through irq0's iretq, which restores IF; a thread that has never run is *)
(* entered by ret with the IF of whoever switched to it, that is, 0.       *)
(*                                                                         *)
(* Thread ids are left out: nothing reads them.  kmalloc is atomic here    *)
(* (Heap.tla looks inside) and never returns NULL for the sizes passed.    *)
(***************************************************************************)
EXTENDS Integers

CONSTANTS Main,        \* main_kernel_thread
          Kthreads,    \* threads that kthread_create may still make
          Creators,    \* the threads that call kthread_create
          NULL

Threads == {Main} \cup Kthreads

ASSUME SchedulerConstants ==
  /\ Main \notin Kthreads /\ NULL \notin Threads
  /\ NULL \notin {"entry", "irq"} \cup [old : Threads, new : Threads \cup {NULL}]
  /\ Creators \subseteq Threads

VARIABLES running_thread, thread_queue_head,
          next, state,   \* fields of thread_t
          rsp,           \* what the saved stack resumes: "entry", "irq", NULL
          intr,          \* IF, the CPU's interrupt flag
          op,            \* thread -> its progress in init or kthread_create
          sched,         \* schedule's locals, NULL when it is not running
          overtook       \* t -> threads that ran since t became ready

vars == <<running_thread, thread_queue_head, next, state, rsp, intr, op, sched,
          overtook>>

Idle == [at |-> "run", thread |-> NULL, curr |-> NULL]

\* t executes its own code: it has the CPU and is not inside schedule.
Executing(t, where) ==
  sched = NULL /\ op[t].at = where
  /\ (running_thread = t \/ (running_thread = NULL /\ t = Main))

-----------------------------------------------------------------------------
(* Boot: init_scheduler, then the sti of _start.  Interrupts may be on     *)
(* before that: every printf of the boot so far has enabled them.          *)

Init ==
  /\ running_thread = NULL /\ thread_queue_head = NULL
  /\ next = [t \in Threads |-> NULL]
  /\ state = [t \in Threads |-> "unborn"]
  /\ rsp = [t \in Threads |-> NULL]
  /\ intr \in BOOLEAN
  /\ op = [t \in Threads |-> IF t = Main THEN [Idle EXCEPT !.at = "boot"] ELSE Idle]
  /\ sched = NULL
  /\ overtook = [t \in Threads |-> {}]

SetHeadFirst ==
  /\ Executing(Main, "boot")
  /\ state' = [state EXCEPT ![Main] = "RUNNING"]
  /\ thread_queue_head' = Main
  /\ op' = [op EXCEPT ![Main].at = "head"]
  /\ UNCHANGED <<running_thread, next, rsp, intr, sched, overtook>>

SetRunning ==
  /\ Executing(Main, "boot")
  /\ state' = [state EXCEPT ![Main] = "RUNNING"]
  /\ running_thread' = Main
  /\ op' = [op EXCEPT ![Main].at = "head"]
  /\ UNCHANGED <<thread_queue_head, next, rsp, intr, sched, overtook>>

SetHead ==
  /\ Executing(Main, "head")
  /\ thread_queue_head' = Main
  /\ op' = [op EXCEPT ![Main].at = "sti"]
  /\ UNCHANGED <<running_thread, next, state, rsp, intr, sched, overtook>>

EnableInterrupts ==
  /\ Executing(Main, "sti")
  /\ intr' = TRUE
  /\ op' = [op EXCEPT ![Main] = Idle]
  /\ UNCHANGED <<running_thread, thread_queue_head, next, state, rsp, sched, overtook>>

-----------------------------------------------------------------------------
(* What a thread does *)

\* printf: spin_unlock enables interrupts whatever they were before.  All
\* else that a thread computes changes nothing here.
PrintAndUnlock(t) ==
  /\ Executing(t, "run")
  /\ intr' = TRUE
  /\ UNCHANGED <<running_thread, thread_queue_head, next, state, rsp, op, sched,
                 overtook>>

\* kthread_create up to the walk: the thread and its stack are complete.
CreateNew(t, n) ==
  /\ Executing(t, "run") /\ t \in Creators
  /\ state[n] = "unborn"
  /\ state' = [state EXCEPT ![n] = "READY"]
  /\ rsp' = [rsp EXCEPT ![n] = "entry"]
  /\ op' = [op EXCEPT ![t] = [at |-> "walk", thread |-> n,
                              curr |-> thread_queue_head]]
  /\ UNCHANGED <<running_thread, thread_queue_head, next, intr, sched, overtook>>

CreateWalk(t) ==
  /\ Executing(t, "walk")
  /\ op' = [op EXCEPT ![t] = IF next[op[t].curr] # NULL
                             THEN [@ EXCEPT !.curr = next[op[t].curr]]
                             ELSE [@ EXCEPT !.at = "link"]]
  /\ UNCHANGED <<running_thread, thread_queue_head, next, state, rsp, intr, sched,
                 overtook>>

LinkAtHead(t) == [next EXCEPT ![thread_queue_head] = op[t].thread]

Linked(t) == [next EXCEPT ![op[t].curr] = op[t].thread]

CreateLink(t) ==
  /\ Executing(t, "link")
  /\ next' = Linked(t)
  /\ op' = [op EXCEPT ![t] = Idle]
  /\ overtook' = [overtook EXCEPT ![op[t].thread] = {}]
  /\ UNCHANGED <<running_thread, thread_queue_head, state, rsp, intr, sched>>

\* The thread's function returns into kthread_exit: cli, DEAD, schedule.
kthread_exit(t) ==
  /\ Executing(t, "run") /\ t # Main
  /\ intr' = FALSE
  /\ state' = [state EXCEPT ![t] = "DEAD"]
  /\ sched' = [old |-> t, new |-> next[t]]
  /\ UNCHANGED <<running_thread, thread_queue_head, next, rsp, op, overtook>>

-----------------------------------------------------------------------------
(* The timer interrupt and schedule *)

\* irq0 clears IF, acknowledges the interrupt and calls schedule.  Before
\* thread_queue_head is set schedule returns at once.
Tick ==
  /\ intr /\ sched = NULL /\ thread_queue_head # NULL
  /\ intr' = FALSE
  /\ sched' = [old |-> running_thread, new |-> next[running_thread]]
  /\ UNCHANGED <<running_thread, thread_queue_head, next, state, rsp, op, overtook>>

RunnableIfAnything(t) == TRUE

Runnable(t) == state[t] \in {"READY", "RUNNING"}

StartOver == running_thread
FromHead == thread_queue_head

RestartAtHead(t) == thread_queue_head
PastDead(t) == next[t]

\* One round of the search loop that does not end it.
ScheduleSearch ==
  /\ sched # NULL
  /\ \/ /\ sched.new = NULL
        /\ sched' = [sched EXCEPT !.new = FromHead]
     \/ /\ sched.new # NULL /\ ~Runnable(sched.new)
        /\ sched' = [sched EXCEPT !.new = PastDead(sched.new)]
  /\ UNCHANGED <<running_thread, thread_queue_head, next, state, rsp, intr, op,
                 overtook>>

\* Back to the interrupted thread: iretq restores its IF, which was set.
ScheduleSame ==
  /\ sched # NULL /\ sched.new # NULL /\ Runnable(sched.new)
  /\ sched.new = sched.old
  /\ sched' = NULL
  /\ intr' = TRUE
  /\ UNCHANGED <<running_thread, thread_queue_head, next, state, rsp, op, overtook>>

Swapped(o, n) ==
  [state EXCEPT ![o] = IF @ = "RUNNING" THEN "READY" ELSE @, ![n] = "RUNNING"]

ScheduleSwitch ==
  /\ sched # NULL /\ sched.new # NULL /\ Runnable(sched.new)
  /\ sched.new # sched.old
  /\ state' = Swapped(sched.old, sched.new)
  /\ running_thread' = sched.new
  /\ rsp' = [rsp EXCEPT ![sched.old] = "irq"]
  /\ intr' = (rsp[sched.new] = "irq")
  /\ sched' = NULL
  /\ overtook' = [t \in Threads |->
                    IF t # sched.new /\ Runnable(t)
                    THEN overtook[t] \cup {sched.new} ELSE {}]
  /\ UNCHANGED <<thread_queue_head, next, op>>

schedule == ScheduleSearch \/ ScheduleSame \/ ScheduleSwitch

Next ==
  \/ SetRunning \/ SetHead \/ EnableInterrupts
  \/ \E t \in Threads :
       \/ PrintAndUnlock(t) \/ CreateWalk(t) \/ CreateLink(t) \/ kthread_exit(t)
       \/ \E n \in Kthreads : CreateNew(t, n)
  \/ Tick
  \/ ScheduleSearch \/ ScheduleSame \/ ScheduleSwitch

Spec == Init /\ [][Next]_vars

(***************************************************************************)
(* schedule runs to its end, and a timer interrupt that arrives while      *)
(* interrupts are off is kept by the interrupt controller and delivered    *)
(* when they are on again.  What a thread does is up to the thread.        *)
(***************************************************************************)
FairSpec == Spec /\ WF_vars(schedule) /\ SF_vars(Tick)

-----------------------------------------------------------------------------
(* Properties *)

\* The fields of thread_t and schedule's locals are threads or NULL, and the
\* queue of thread.c never starts with another thread than the main one.
TypeOK ==
  /\ running_thread \in {NULL, Main} \cup Kthreads
  /\ thread_queue_head \in {NULL, Main}
  /\ next \in [Threads -> Threads \cup {NULL}]
  /\ state \in [Threads -> {"unborn", "READY", "RUNNING", "DEAD"}]
  /\ rsp \in [Threads -> {"entry", "irq", NULL}]
  /\ intr \in BOOLEAN
  /\ op \in [Threads -> [at : {"boot", "head", "sti", "run", "walk", "link"},
                         thread : Threads \cup {NULL},
                         curr : Threads \cup {NULL}]]
  /\ sched = NULL \/ sched \in [old : Threads, new : Threads \cup {NULL}]
  /\ overtook \in [Threads -> SUBSET Threads]

\* The threads that a walk from thread_queue_head meets: the smallest set
\* that holds the head and leads nowhere but to itself and to NULL.
WalkStaysIn(S) ==
  /\ thread_queue_head \in S \cup {NULL}
  /\ \A t \in S : next[t] \in S \cup {NULL}
Queue == {t \in Threads : \A S \in SUBSET Threads : WalkStaysIn(S) => t \in S}

(***************************************************************************)
(* schedule, called by a timer tick at any moment of the boot, never finds *)
(* a queue without a running thread, whose next field it would read        *)
(* through a NULL pointer.                                                 *)
(***************************************************************************)
RunningBeforeQueue == thread_queue_head # NULL => running_thread # NULL

(***************************************************************************)
(* Outside schedule exactly the thread that has the CPU is marked RUNNING. *)
(***************************************************************************)
OneRunning ==
  sched = NULL /\ running_thread # NULL
    => {t \in Threads : state[t] = "RUNNING"} = {running_thread}

(***************************************************************************)
(* Every thread on the queue that schedule may choose has a stack to       *)
(* switch to, at every moment of its creation.                             *)
(***************************************************************************)
ReadyHasStack == \A t \in Queue : state[t] = "READY" => rsp[t] # NULL

(***************************************************************************)
(* A thread that kthread_create has returned, alive or dead, is on the     *)
(* queue: ticks, switches and exits in the middle of a creation lose none. *)
(***************************************************************************)
NoThreadLost ==
  \A t \in Threads :
    state[t] # "unborn" /\ thread_queue_head # NULL
      => t \in Queue \/ \E c \in Threads : op[c].thread = t

\* A dead thread stays dead and never gets the CPU back.
DeadStaysDead ==
  [][\A t \in Threads :
       state[t] = "DEAD" =>
         state'[t] = "DEAD" /\ (running_thread' = t => running_thread = t)]_vars

(***************************************************************************)
(* Round robin: from the moment a thread on the queue is ready, no other   *)
(* thread is given the CPU twice before it.                                *)
(***************************************************************************)
RoundRobin ==
  [][\A t \in Queue :
       /\ state[t] = "READY"
       /\ running_thread' # running_thread
       /\ running_thread' # t
       => running_thread' \notin overtook[t]]_vars

(***************************************************************************)
(* A ready thread on the queue gets the CPU, provided the threads in front *)
(* of it do not keep interrupts off for ever.                              *)
(***************************************************************************)
ServedIfInterruptible ==
  ([]<>intr) => \A t \in Threads :
                (t \in Queue /\ state[t] = "READY") ~> running_thread = t

(***************************************************************************)
(* The queue of thread.c as a whole: schedule never dereferences NULL,     *)
(* exactly one thread is marked RUNNING, and whatever is READY can be      *)
(* switched to, wherever the timer has struck.                             *)
(***************************************************************************)
SchedulerInv == TypeOK /\ RunningBeforeQueue /\ OneRunning /\ ReadyHasStack
=============================================================================
