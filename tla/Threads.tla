------------------------------- MODULE Threads -------------------------------
(***************************************************************************)
(* The kernel's threads: the scheduler of threads/thread.c, the            *)
(* semaphores, locks and condition variables of threads/synch.c, and the   *)
(* timer interrupt and timer_sleep() of devices/timer.c.                   *)
(*                                                                         *)
(* There is one processor.  An action is a stretch of code that no         *)
(* interrupt can split: what a function does between intr_disable() and    *)
(* intr_set_level(), a whole context switch, or one access to data that    *)
(* the interrupt handler or another thread can also touch.  Between two    *)
(* actions of a thread the timer may fire and preempt it, so every         *)
(* interleaving the hardware allows at those points is a behaviour.        *)
(*                                                                         *)
(* A thread is its page: Threads is the set of pages that can hold a       *)
(* struct thread, and a page is FREE until thread_create() takes it.       *)
(***************************************************************************)
EXTENDS Integers, SequencesExt

CONSTANTS
  Threads,      \* pages that can hold a struct thread
  Main,         \* initial_thread
  Idle,         \* idle_thread
  Semas,        \* semaphores that the clients of synch.c own
  Locks,        \* locks; a lock also names its semaphore
  Conds,        \* condition variables
  CondLock,     \* the lock each condition variable is used with
  Priorities,   \* values of struct thread's priority
  TIME_SLICE,   \* ticks a thread may run before it is preempted
  Sleeps,       \* arguments of timer_sleep()
  MaxTicks,     \* bound: the tick count stops growing here
  MaxValue,     \* bound: clients do not up a semaphore beyond this
  NULL

ASSUME ThreadsAssumption ==
  /\ Main \in Threads /\ Idle \in Threads /\ Main # Idle
  /\ NULL \notin Threads \cup Semas \cup Locks \cup Conds
  /\ Threads \cap Semas = {} /\ Threads \cap Locks = {} /\ Semas \cap Locks = {}
  /\ CondLock \in [Conds -> Locks]

ASSUME NumbersAssumption ==
  /\ Priorities \subseteq Int /\ Priorities # {}
  /\ TIME_SLICE \in Nat \ {0}
  /\ Sleeps \subseteq Int
  /\ MaxTicks \in Nat
  /\ MaxValue \in Nat \ {0}

(***************************************************************************)
(* cond_wait() puts a semaphore on the waiting thread's stack; a thread    *)
(* waits in one cond_wait() at a time, so the thread names that semaphore. *)
(***************************************************************************)
SemaIds == Semas \cup Locks \cup Threads

INT64_MAX == MaxTicks + 1

VARIABLES
  current,            \* running_thread()
  status, priority,   \* struct thread members
  wakeup_time,
  ready_list,         \* run queue
  sleep_list,         \* threads in timer_sleep()
  wakeup_call_time,   \* earliest tick at which thread_wakeup() is called
  ticks,              \* timer ticks since boot
  thread_ticks,       \* timer ticks since the last context switch
  value, waiters,     \* struct semaphore members
  holder,             \* struct lock's holder
  cond_waiters,       \* struct condition's waiters
  pc,                 \* where a thread is inside a function of the kernel
  intr,               \* progress of the timer interrupt handler
  yield_on_return     \* intr_yield_on_return() was called

threadVars == <<current, status, priority, ready_list, thread_ticks>>
sleepVars  == <<wakeup_time, sleep_list, wakeup_call_time>>
semaVars   == <<value, waiters>>
intrVars   == <<ticks, intr, yield_on_return>>
vars == <<threadVars, sleepVars, semaVars, holder, cond_waiters, pc, intrVars>>

Statuses == {"FREE", "READY", "RUNNING", "BLOCKED", "DYING"}

(***************************************************************************)
(* pc[t].at says which function of the kernel t is in: "run" is outside    *)
(* all of them.  pc[t].on is the semaphore, lock or condition it works on  *)
(* and pc[t].lk the lock that the cond_wait() it is in has to reacquire.   *)
(***************************************************************************)
At(place, obj, lock) == [at |-> place, on |-> obj, lk |-> lock]
Run == At("run", NULL, NULL)

Places == {"run", "hlt", "down", "own", "up", "cond_up", "cond_down",
           "reacquire", "broadcast", "compare", "store", "sleep"}

SchedTypeOK ==
  /\ current \in Threads
  /\ status \in [Threads -> Statuses]
  /\ priority \in [Threads -> Priorities]
  /\ ready_list \in Seq(Threads)
  /\ thread_ticks \in 0 .. TIME_SLICE

SleepTypeOK ==
  /\ wakeup_time \in [Threads -> Int]
  /\ sleep_list \in Seq(Threads)
  /\ wakeup_call_time \in Int

SemaTypeOK ==
  /\ value \in [SemaIds -> Nat]
  /\ waiters \in [SemaIds -> Seq(Threads)]

PcTypeOK ==
  pc \in [Threads -> [at : Places,
                      on : SemaIds \cup Conds \cup {NULL},
                      lk : Locks \cup {NULL}]]

LockTypeOK ==
  /\ holder \in [Locks -> Threads \cup {NULL}]
  /\ cond_waiters \in [Conds -> Seq(Threads)]

IntrTypeOK ==
  /\ ticks \in 0 .. MaxTicks
  /\ intr \in {"none", "wakeup", "return"}
  /\ yield_on_return \in BOOLEAN

(***************************************************************************)
(* A thread t at place r knows the object it works on; only a thread in    *)
(* cond_wait() has a lock to reacquire.                                    *)
(***************************************************************************)
PlaceOK(t, r) ==
  /\ r.at \in {"own", "up"} => r.on \in Locks
  /\ r.at = "cond_up" => r.on \in Conds /\ r.lk = CondLock[r.on]
  /\ r.at \in {"cond_down", "reacquire"} => r.lk \in Locks
  /\ r.at = "broadcast" => r.on \in Conds
  /\ r.at = "down" => /\ r.on \in SemaIds
                      /\ r.on \in Threads => r.on = t /\ r.lk \in Locks
                      /\ r.on \in Locks => r.lk \in {r.on, NULL}
                      /\ r.on \in Semas => r.lk = NULL
  /\ r.at \notin {"cond_up", "cond_down", "reacquire", "down"} => r.lk = NULL

PlacesOK == \A t \in Threads : PlaceOK(t, pc[t])

(***************************************************************************)
(* The variables hold what their C types and their uses allow, and every   *)
(* thread is at a place that some call of the functions below leads to.    *)
(***************************************************************************)
TypeOK ==
  /\ SchedTypeOK /\ SleepTypeOK /\ SemaTypeOK
  /\ PcTypeOK /\ PlacesOK
  /\ LockTypeOK /\ IntrTypeOK

(***************************************************************************)
(* The state in which thread_start() returns: main runs and the idle       *)
(* thread has blocked itself once.                                         *)
(***************************************************************************)
Init ==
  /\ current = Main
  /\ status = [t \in Threads |-> CASE t = Main -> "RUNNING"
                                   [] t = Idle -> "BLOCKED"
                                   [] OTHER    -> "FREE"]
  /\ priority \in [Threads -> Priorities]
  /\ \A t, u \in Threads : priority[t] = priority[u]
  /\ wakeup_time = [t \in Threads |-> 0]
  /\ ready_list = <<>>
  /\ sleep_list = <<>>
  /\ wakeup_call_time = INT64_MAX
  /\ ticks = 0
  /\ thread_ticks = 0
  /\ value = [s \in SemaIds |-> IF s \in Locks THEN 1 ELSE 0]
  /\ waiters = [s \in SemaIds |-> <<>>]
  /\ holder = [l \in Locks |-> NULL]
  /\ cond_waiters = [c \in Conds |-> <<>>]
  /\ pc = [t \in Threads |-> IF t = Idle THEN At("hlt", NULL, NULL) ELSE Run]
  /\ intr = "none"
  /\ yield_on_return = FALSE

-----------------------------------------------------------------------------
(***************************************************************************)
(* Scheduler.                                                              *)
(***************************************************************************)

(***************************************************************************)
(* list_insert_ordered(): before the first element that is greater, hence  *)
(* behind the elements with an equal key.                                  *)
(***************************************************************************)
InsertPosition(list, t, key) ==
  LET greater == {i \in 1 .. Len(list) : key[t] < key[list[i]]}
  IN  IF greater = {} THEN Len(list) + 1
      ELSE CHOOSE i \in greater : \A j \in greater : i <= j

InsertOrdered(list, t, key) == InsertAt(list, InsertPosition(list, t, key), t)

(* compare_priority(): a higher priority comes first. *)
Urgency == [t \in Threads |-> 0 - priority[t]]

(* Mutant of InsertReady: list_push_back() instead of list_insert_ordered(). *)
InsertReadyLast(t) == Append(ready_list, t)

InsertReady(t) == InsertOrdered(ready_list, t, Urgency)

(***************************************************************************)
(* schedule(), next_thread_to_run() and schedule_tail(): st and rl are the *)
(* statuses and the run queue after the caller has moved the running       *)
(* thread out of RUNNING.                                                  *)
(***************************************************************************)
Schedule(st, rl) ==
  LET next == IF rl = <<>> THEN Idle ELSE Head(rl)
  IN  /\ current' = next
      /\ ready_list' = IF rl = <<>> THEN <<>> ELSE Tail(rl)
      /\ status' = [st EXCEPT ![next] = "RUNNING"]
      /\ thread_ticks' = 0
      /\ UNCHANGED priority

(* thread_block(), called with interrupts off. *)
Block == Schedule([status EXCEPT ![current] = "BLOCKED"], ready_list)

(* thread_unblock(); it does not preempt the running thread. *)
Unblock(t) ==
  /\ ready_list' = InsertReady(t)
  /\ status' = [status EXCEPT ![t] = "READY"]
  /\ UNCHANGED <<current, priority, thread_ticks>>

(* Mutants of Yield: the idle thread is queued too; the yielder goes first. *)
YieldIdleToo == Schedule([status EXCEPT ![current] = "READY"], InsertReady(current))

YieldFirst ==
  Schedule([status EXCEPT ![current] = "READY"],
           IF current = Idle THEN ready_list ELSE <<current>> \o ready_list)

(* thread_yield(): the idle thread is never put on the run queue. *)
Yield ==
  Schedule([status EXCEPT ![current] = "READY"],
           IF current = Idle THEN ready_list ELSE InsertReady(current))

(***************************************************************************)
(* Interrupts are off in a thread that has come back from thread_block()   *)
(* inside sema_down(): it tests the semaphore again before anything else   *)
(* can happen.  Every other thread is resumed with interrupts on.          *)
(***************************************************************************)
IntrOn == intr = "none" /\ pc[current].at # "down"

(* The running thread is at the given place in the kernel. *)
Running(place) == intr = "none" /\ pc[current].at = place

(* The running thread can call any function of this module. *)
Calls == Running("run") /\ current # Idle

Goto(record) == pc' = [pc EXCEPT ![current] = record]

(* The lock is in the running thread's hands, as ASSERTs of synch.c need. *)
lock_held_by_current_thread(l) == holder[l] = current

ThreadYield ==
  /\ Calls
  /\ Yield
  /\ UNCHANGED <<sleepVars, semaVars, holder, cond_waiters, pc, intrVars>>

(***************************************************************************)
(* thread_create() in a page palloc_get_page() returned.  The new thread   *)
(* is invisible until thread_unblock() makes it ready, and does not        *)
(* preempt its creator.  allocate_tid()'s lock is one of Locks; the        *)
(* identity of the page stands for the tid.                                *)
(***************************************************************************)
ThreadCreate(t, prio) ==
  /\ Calls
  /\ status[t] = "FREE"
  /\ priority' = [priority EXCEPT ![t] = prio]
  /\ wakeup_time' = [wakeup_time EXCEPT ![t] = 0]
  /\ ready_list' = InsertOrdered(ready_list, t, [Urgency EXCEPT ![t] = 0 - prio])
  /\ status' = [status EXCEPT ![t] = "READY"]
  /\ pc' = [pc EXCEPT ![t] = Run]
  /\ UNCHANGED <<current, thread_ticks, sleep_list, wakeup_call_time,
                 semaVars, holder, cond_waiters, intrVars>>

ThreadSetPriority(prio) ==
  /\ Calls
  /\ priority' = [priority EXCEPT ![current] = prio]
  /\ UNCHANGED <<current, status, ready_list, thread_ticks,
                 sleepVars, semaVars, holder, cond_waiters, pc, intrVars>>

(***************************************************************************)
(* The end of thread_exit(): the thread that runs next frees the page in   *)
(* schedule_tail(), except initial_thread's.  What process_exit() does     *)
(* before are semaphore operations of this module and the subject of       *)
(* module Processes.  A client must not exit with a lock.                  *)
(***************************************************************************)
ThreadDie ==
  /\ Calls
  /\ \A l \in Locks : ~lock_held_by_current_thread(l)
  /\ Schedule([status EXCEPT ![current] = IF current = Main THEN "DYING" ELSE "FREE"],
              ready_list)
  /\ UNCHANGED <<sleepVars, semaVars, holder, cond_waiters, pc, intrVars>>

(* An interrupt ends the idle thread's hlt; idle() then blocks again. *)
EndHlt == pc' = [pc EXCEPT ![Idle] = IF current = Idle THEN Run ELSE @]

IdleBlock ==
  /\ Running("run")
  /\ current = Idle
  /\ Block
  /\ Goto(At("hlt", NULL, NULL))
  /\ UNCHANGED <<sleepVars, semaVars, holder, cond_waiters, intrVars>>

-----------------------------------------------------------------------------
(***************************************************************************)
(* Semaphores.                                                             *)
(***************************************************************************)

(* Where sema_down(s) returns to. *)
AfterDown(s, lock) ==
  CASE s \in Locks   -> At("own", s, NULL)
    [] s \in Threads -> At("reacquire", NULL, lock)
    [] OTHER         -> Run

(***************************************************************************)
(* One turn of sema_down()'s loop: the running thread waits while the      *)
(* value is 0, and takes a unit when it is not.                            *)
(***************************************************************************)
Down(s, lock) ==
  \/ /\ value[s] = 0
     /\ waiters' = [waiters EXCEPT ![s] = Append(@, current)]
     /\ Goto(At("down", s, lock))
     /\ Block
     /\ UNCHANGED value
  \/ /\ value[s] > 0
     /\ value' = [value EXCEPT ![s] = @ - 1]
     /\ Goto(AfterDown(s, lock))
     /\ UNCHANGED <<waiters, threadVars>>

(* Mutant of Up: a waiter is woken only if the value was 0. *)
UpFromZero(s) ==
  /\ value' = [value EXCEPT ![s] = @ + 1]
  /\ \/ /\ waiters[s] = <<>> \/ value[s] > 0
        /\ UNCHANGED <<waiters, threadVars>>
     \/ /\ waiters[s] # <<>> /\ value[s] = 0
        /\ waiters' = [waiters EXCEPT ![s] = Tail(@)]
        /\ Unblock(Head(waiters[s]))

(* sema_up(): wakes the thread that has waited longest, if there is one. *)
Up(s) ==
  /\ value' = [value EXCEPT ![s] = @ + 1]
  /\ \/ /\ waiters[s] = <<>>
        /\ UNCHANGED <<waiters, threadVars>>
     \/ /\ waiters[s] # <<>>
        /\ waiters' = [waiters EXCEPT ![s] = Tail(@)]
        /\ Unblock(Head(waiters[s]))

SemaDown(s) ==
  /\ Calls
  /\ Down(s, NULL)
  /\ UNCHANGED <<sleepVars, holder, cond_waiters, intrVars>>

(* Mutant of ResumeDown: the value is not retested (if instead of while). *)
ResumeDownNoRetest ==
  /\ Running("down")
  /\ value' = [value EXCEPT ![pc[current].on] = @ - 1]
  /\ Goto(AfterDown(pc[current].on, pc[current].lk))
  /\ UNCHANGED <<threadVars, waiters, sleepVars, holder, cond_waiters, intrVars>>

(* A thread that was woken in sema_down() runs again: the while is retested. *)
ResumeDown ==
  /\ Running("down")
  /\ Down(pc[current].on, pc[current].lk)
  /\ UNCHANGED <<sleepVars, holder, cond_waiters, intrVars>>

SemaTryDown(s) ==
  /\ Calls
  /\ value[s] > 0
  /\ value' = [value EXCEPT ![s] = @ - 1]
  /\ UNCHANGED <<threadVars, sleepVars, waiters, holder, cond_waiters, pc, intrVars>>

SemaUp(s) ==
  /\ Calls
  /\ value[s] < MaxValue
  /\ Up(s)
  /\ UNCHANGED <<sleepVars, holder, cond_waiters, pc, intrVars>>

(* sema_up() in a device's interrupt handler, which returns without yielding. *)
DeviceInterrupt(s) ==
  /\ IntrOn
  /\ value[s] < MaxValue
  /\ Up(s)
  /\ EndHlt
  /\ UNCHANGED <<sleepVars, holder, cond_waiters, intrVars>>

-----------------------------------------------------------------------------
(***************************************************************************)
(* Locks.  The semaphore operation and the assignment to holder are        *)
(* separate steps: the thread can be preempted between them.               *)
(***************************************************************************)
LockAcquire(l) ==
  /\ Calls
  /\ ~lock_held_by_current_thread(l)
  /\ Down(l, NULL)
  /\ UNCHANGED <<sleepVars, holder, cond_waiters, intrVars>>

SetHolder ==
  /\ Running("own")
  /\ holder' = [holder EXCEPT ![pc[current].on] = current]
  /\ Goto(Run)
  /\ UNCHANGED <<threadVars, sleepVars, semaVars, cond_waiters, intrVars>>

(* Mutant of LockTryAcquire: sema_try_down()'s result is ignored. *)
LockTryAcquireAlways(l) ==
  /\ Calls
  /\ ~lock_held_by_current_thread(l)
  /\ value' = [value EXCEPT ![l] = @ - 1]
  /\ Goto(At("own", l, NULL))
  /\ UNCHANGED <<threadVars, sleepVars, waiters, holder, cond_waiters, intrVars>>

LockTryAcquire(l) ==
  /\ Calls
  /\ ~lock_held_by_current_thread(l)
  /\ value[l] > 0
  /\ value' = [value EXCEPT ![l] = @ - 1]
  /\ Goto(At("own", l, NULL))
  /\ UNCHANGED <<threadVars, sleepVars, waiters, holder, cond_waiters, intrVars>>

LockRelease(l) ==
  /\ Calls
  /\ lock_held_by_current_thread(l)
  /\ holder' = [holder EXCEPT ![l] = NULL]
  /\ Goto(At("up", l, NULL))
  /\ UNCHANGED <<threadVars, sleepVars, semaVars, cond_waiters, intrVars>>

LockUp ==
  /\ Running("up")
  /\ Up(pc[current].on)
  /\ Goto(Run)
  /\ UNCHANGED <<sleepVars, holder, cond_waiters, intrVars>>

-----------------------------------------------------------------------------
(***************************************************************************)
(* Condition variables.                                                    *)
(***************************************************************************)

(* cond_wait(): a fresh semaphore on the list, then lock_release() ... *)
CondWait(c) ==
  /\ Calls
  /\ lock_held_by_current_thread(CondLock[c])
  /\ value' = [value EXCEPT ![current] = 0]
  /\ waiters' = [waiters EXCEPT ![current] = <<>>]
  /\ cond_waiters' = [cond_waiters EXCEPT ![c] = Append(@, current)]
  /\ holder' = [holder EXCEPT ![CondLock[c]] = NULL]
  /\ Goto(At("cond_up", c, CondLock[c]))
  /\ UNCHANGED <<threadVars, sleepVars, intrVars>>

CondUp ==
  /\ Running("cond_up")
  /\ Up(pc[current].lk)
  /\ Goto(At("cond_down", NULL, pc[current].lk))
  /\ UNCHANGED <<sleepVars, holder, cond_waiters, intrVars>>

(* ... then sema_down() on the fresh semaphore, then lock_acquire(). *)
CondDown ==
  /\ Running("cond_down")
  /\ Down(current, pc[current].lk)
  /\ UNCHANGED <<sleepVars, holder, cond_waiters, intrVars>>

(* Mutant of CondReacquire: cond_wait() returns without lock_acquire(). *)
CondReturnUnlocked ==
  /\ Running("reacquire")
  /\ Goto(Run)
  /\ UNCHANGED <<threadVars, semaVars, sleepVars, holder, cond_waiters, intrVars>>

CondReacquire ==
  /\ Running("reacquire")
  /\ Down(pc[current].lk, pc[current].lk)
  /\ UNCHANGED <<sleepVars, holder, cond_waiters, intrVars>>

(* Mutant of SignalOne: list_front() instead of list_pop_front(). *)
SignalFront(c) ==
  /\ cond_waiters[c] # <<>>
  /\ Up(Head(cond_waiters[c]))
  /\ UNCHANGED cond_waiters

(***************************************************************************)
(* One waiter off the list and its semaphore upped.  The lock keeps other  *)
(* threads off the list, and only the waiter downs the semaphore, so       *)
(* nothing can tell the two steps apart.                                   *)
(***************************************************************************)
SignalOne(c) ==
  /\ cond_waiters[c] # <<>>
  /\ cond_waiters' = [cond_waiters EXCEPT ![c] = Tail(@)]
  /\ Up(Head(cond_waiters[c]))

CondSignal(c) ==
  /\ Calls
  /\ lock_held_by_current_thread(CondLock[c])
  /\ SignalOne(c)
  /\ UNCHANGED <<sleepVars, holder, pc, intrVars>>

CondBroadcast(c) ==
  /\ Calls
  /\ lock_held_by_current_thread(CondLock[c])
  /\ cond_waiters[c] # <<>>
  /\ Goto(At("broadcast", c, NULL))
  /\ UNCHANGED <<threadVars, sleepVars, semaVars, holder, cond_waiters, intrVars>>

(* One turn of cond_broadcast()'s loop. *)
BroadcastNext ==
  /\ Running("broadcast")
  /\ \/ /\ SignalOne(pc[current].on)
        /\ UNCHANGED pc
     \/ /\ cond_waiters[pc[current].on] = <<>>
        /\ Goto(Run)
        /\ UNCHANGED <<threadVars, semaVars, cond_waiters>>
  /\ UNCHANGED <<sleepVars, holder, intrVars>>

-----------------------------------------------------------------------------
(***************************************************************************)
(* timer_sleep() and the timer interrupt.  timer_sleep() reads the clock,  *)
(* then tests and sets wakeup_call_time with interrupts on.                *)
(***************************************************************************)
TimerSleep(n) ==
  /\ Calls
  /\ ticks + n <= MaxTicks
  /\ wakeup_time' = [wakeup_time EXCEPT ![current] = ticks + n]
  /\ Goto(At("compare", NULL, NULL))
  /\ UNCHANGED <<threadVars, sleep_list, wakeup_call_time, semaVars, holder,
                 cond_waiters, intrVars>>

(* Mutant of CompareCallTime: the comparison is the wrong way round. *)
CompareInverted ==
  /\ Running("compare")
  /\ Goto(At(IF wakeup_time[current] > wakeup_call_time THEN "store" ELSE "sleep",
             NULL, NULL))
  /\ UNCHANGED <<threadVars, sleepVars, semaVars, holder, cond_waiters, intrVars>>

CompareCallTime ==
  /\ Running("compare")
  /\ Goto(At(IF wakeup_time[current] < wakeup_call_time THEN "store" ELSE "sleep",
             NULL, NULL))
  /\ UNCHANGED <<threadVars, sleepVars, semaVars, holder, cond_waiters, intrVars>>

StoreCallTime ==
  /\ Running("store")
  /\ wakeup_call_time' = wakeup_time[current]
  /\ Goto(At("sleep", NULL, NULL))
  /\ UNCHANGED <<threadVars, wakeup_time, sleep_list, semaVars, holder,
                 cond_waiters, intrVars>>

ThreadSleep ==
  /\ Running("sleep")
  /\ sleep_list' = InsertOrdered(sleep_list, current, wakeup_time)
  /\ Block
  /\ Goto(Run)
  /\ UNCHANGED <<wakeup_time, wakeup_call_time, semaVars, holder, cond_waiters,
                 intrVars>>

ThreadTick ==
  /\ thread_ticks' = thread_ticks + 1
  /\ yield_on_return' = (thread_ticks + 1 >= TIME_SLICE)

(* intr_handler() calls timer_interrupt(): the tick is counted ... *)
TimerInterrupt ==
  /\ IntrOn
  /\ ticks' = IF ticks < MaxTicks THEN ticks + 1 ELSE ticks
  /\ ThreadTick
  /\ intr' = IF wakeup_call_time <= ticks' THEN "wakeup" ELSE "return"
  /\ EndHlt
  /\ UNCHANGED <<current, status, priority, ready_list, sleepVars, semaVars,
                 holder, cond_waiters>>

(* ... thread_wakeup() takes the expired threads off the list ... *)
WakeupOne ==
  /\ intr = "wakeup"
  /\ sleep_list # <<>>
  /\ wakeup_time[Head(sleep_list)] <= ticks
  /\ sleep_list' = Tail(sleep_list)
  /\ Unblock(Head(sleep_list))
  /\ UNCHANGED <<wakeup_time, wakeup_call_time, semaVars, holder, cond_waiters,
                 pc, intrVars>>

(* Mutant of WakeupDone: the call time is reset for the sleepers that remain. *)
WakeupReset ==
  /\ intr = "wakeup"
  /\ sleep_list # <<>> => wakeup_time[Head(sleep_list)] > ticks
  /\ wakeup_call_time' = INT64_MAX
  /\ intr' = "return"
  /\ UNCHANGED <<threadVars, wakeup_time, sleep_list, semaVars, holder,
                 cond_waiters, pc, ticks, yield_on_return>>

(* ... and lowers, but never raises, wakeup_call_time. *)
WakeupDone ==
  /\ intr = "wakeup"
  /\ \/ /\ sleep_list = <<>>
        /\ wakeup_call_time' = IF INT64_MAX < wakeup_call_time
                               THEN INT64_MAX ELSE wakeup_call_time
     \/ /\ sleep_list # <<>>
        /\ wakeup_time[Head(sleep_list)] > ticks
        /\ LET first == wakeup_time[Head(sleep_list)]
           IN  wakeup_call_time' = IF first < wakeup_call_time
                                   THEN first ELSE wakeup_call_time
  /\ intr' = "return"
  /\ UNCHANGED <<threadVars, wakeup_time, sleep_list, semaVars, holder,
                 cond_waiters, pc, ticks, yield_on_return>>

(* intr_handler() yields if the handler asked for it. *)
IntrReturn ==
  /\ intr = "return"
  /\ \/ yield_on_return /\ Yield
     \/ ~yield_on_return /\ UNCHANGED threadVars
  /\ intr' = "none"
  /\ yield_on_return' = FALSE
  /\ UNCHANGED <<sleepVars, semaVars, holder, cond_waiters, pc, ticks>>

-----------------------------------------------------------------------------
SchedulerStep ==
  \/ ThreadYield
  \/ ThreadDie
  \/ IdleBlock
  \/ \E prio \in Priorities : ThreadSetPriority(prio)
  \/ \E t \in Threads, prio \in Priorities : ThreadCreate(t, prio)

SemaStep ==
  \/ ResumeDown
  \/ \E s \in Semas : SemaDown(s) \/ SemaTryDown(s) \/ SemaUp(s) \/ DeviceInterrupt(s)

LockStep ==
  \/ SetHolder
  \/ LockUp
  \/ \E l \in Locks : LockAcquire(l) \/ LockTryAcquire(l) \/ LockRelease(l)

CondStep ==
  \/ CondUp
  \/ CondDown
  \/ CondReacquire
  \/ BroadcastNext
  \/ \E c \in Conds : CondWait(c) \/ CondSignal(c) \/ CondBroadcast(c)

SleepStep ==
  \/ CompareCallTime
  \/ StoreCallTime
  \/ ThreadSleep
  \/ \E n \in Sleeps : TimerSleep(n)

TimerStep ==
  \/ TimerInterrupt
  \/ WakeupOne
  \/ WakeupDone
  \/ IntrReturn

Next == SchedulerStep \/ SemaStep \/ LockStep \/ CondStep \/ SleepStep \/ TimerStep

Spec == Init /\ [][Next]_vars

-----------------------------------------------------------------------------
(***************************************************************************)
(* Properties of the run queue, the sleep list and the wait lists.         *)
(***************************************************************************)

(***************************************************************************)
(* struct thread has one list_elem for the run queue, the sleep list and   *)
(* every semaphore's list (threads/thread.h: "It can be used these two     *)
(* ways only because they are mutually exclusive").  A thread is on the    *)
(* run queue exactly while it is READY, and is blocked exactly on the list *)
(* of the semaphore it is downing or on the sleep list, never twice: no    *)
(* list is corrupted, thread_unblock()'s ASSERT holds for every thread it  *)
(* is given, and no thread is blocked where nobody can find it.            *)
(***************************************************************************)
ReadyInv ==
  /\ IsInjective(ready_list)
  /\ \A t \in Threads :
        t \in Range(ready_list) <=> status[t] = "READY" /\ t # Idle

WaitersInv ==
  /\ \A s \in SemaIds : IsInjective(waiters[s])
  /\ \A s \in SemaIds, t \in Threads :
        t \in Range(waiters[s]) <=>
          status[t] = "BLOCKED" /\ pc[t].at = "down" /\ pc[t].on = s

SleepInv ==
  /\ IsInjective(sleep_list)
  /\ \A t \in Threads :
        t \in Range(sleep_list) <=>
          status[t] = "BLOCKED" /\ pc[t].at = "run" /\ t # Idle

RunningInv ==
  /\ \A t \in Threads : status[t] = "RUNNING" <=> t = current
  /\ pc[Idle].at \in {"run", "hlt"}
  /\ status[Idle] # "FREE"
  /\ \A t \in Threads \ {Idle} : pc[t].at # "hlt"
  /\ \A t \in Threads : status[t] \in {"FREE", "DYING"} => pc[t].at = "run"

QueueInv == ReadyInv /\ WaitersInv /\ SleepInv /\ RunningInv

(***************************************************************************)
(* The run queue is in descending order of priority although priorities    *)
(* change and threads enter it from four places; next_thread_to_run() only *)
(* looks at its head.                                                      *)
(***************************************************************************)
ReadySorted ==
  \A i, j \in DOMAIN ready_list :
     i < j => priority[ready_list[i]] >= priority[ready_list[j]]

(***************************************************************************)
(* A thread that a semaphore keeps waiting is never left behind while      *)
(* units are free: every free unit is spoken for by a thread that          *)
(* sema_up() has woken and that has not yet retested the semaphore.        *)
(***************************************************************************)
Woken(s) == {t \in Threads : /\ pc[t].at = "down"
                             /\ pc[t].on = s
                             /\ status[t] # "BLOCKED"}

NoLostWakeup ==
  \A s \in SemaIds : waiters[s] = <<>> \/ value[s] <= Cardinality(Woken(s))

(***************************************************************************)
(* The timer interrupt preempts a thread that has run for TIME_SLICE       *)
(* ticks, so no thread is ever seen running with a used up slice.          *)
(***************************************************************************)
SliceInv ==
  /\ intr = "none" => thread_ticks < TIME_SLICE /\ ~yield_on_return
  /\ intr # "none" => /\ yield_on_return <=> thread_ticks >= TIME_SLICE
                      /\ pc[current].at # "down"

(***************************************************************************)
(* Two threads that sleep at the same time race in                         *)
(* update_wakeup_call_time(), which can leave the call time too late.  It  *)
(* is never later than every thread that sleeps, or that is about to: some *)
(* tick still calls thread_wakeup(), which stops at the first thread that  *)
(* has not expired, so the list must be in ascending order of wakeup_time. *)
(***************************************************************************)
SleepersCovered ==
  /\ \A i, j \in DOMAIN sleep_list :
       i < j => wakeup_time[sleep_list[i]] <= wakeup_time[sleep_list[j]]
  /\ sleep_list # <<>> =>
       \/ wakeup_call_time <= ticks
       \/ \E t \in Threads : /\ wakeup_call_time <= wakeup_time[t]
                             /\ \/ t \in Range(sleep_list)
                                \/ pc[t].at = "sleep"

-----------------------------------------------------------------------------
(***************************************************************************)
(* Properties of locks and condition variables.                            *)
(***************************************************************************)

(* A thread at place r is between the semaphore operation and holder's. *)
Hand(r, l) ==
  \/ r.at \in {"own", "up"} /\ r.on = l
  \/ r.at = "cond_up" /\ r.lk = l

InHand(l) == {t \in Threads : Hand(pc[t], l)}

Owns(t, l) == holder[l] = t \/ t \in InHand(l)

(***************************************************************************)
(* "A lock can be held by at most a single thread at any given time", also *)
(* while holder does not yet, or no longer, say so; the lock's semaphore   *)
(* is 0 while the lock is owned and 1 otherwise; and the holder has not    *)
(* exited.                                                                 *)
(***************************************************************************)
LockOK(l) ==
  /\ \A t, u \in Threads : Owns(t, l) /\ Owns(u, l) => t = u
  /\ holder[l] # NULL => InHand(l) = {}
  /\ value[l] = IF \E t \in Threads : Owns(t, l) THEN 0 ELSE 1
  /\ holder[l] # NULL => status[holder[l]] \notin {"FREE", "DYING"}

LockInv == \A l \in Locks : LockOK(l)

(***************************************************************************)
(* A thread in cond_wait() is on the condition's list until it is          *)
(* signaled, and its semaphore says which: the stack frame that holds the  *)
(* semaphore is live as long as the list refers to it, and no signal is    *)
(* lost, wherever the waiter is preempted.                                 *)
(***************************************************************************)
CondInv ==
  /\ \A c \in Conds : IsInjective(cond_waiters[c])
  /\ \A c, d \in Conds, t \in Threads :
        t \in Range(cond_waiters[c]) =>
          /\ t \in Range(cond_waiters[d]) => c = d
          /\ \/ pc[t].at \in {"cond_up", "cond_down"}
             \/ pc[t].at = "down" /\ pc[t].on = t
          /\ pc[t].lk = CondLock[c]
          /\ pc[t].at = "cond_up" => pc[t].on = c
          /\ value[t] = 0
  /\ \A t \in Threads :
        (pc[t].at = "cond_down" \/ (pc[t].at = "down" /\ pc[t].on = t)) =>
          \/ \E c \in Conds : t \in Range(cond_waiters[c])
          \/ value[t] = 1 /\ status[t] \in {"READY", "RUNNING"}

(***************************************************************************)
(* The refinement mapping to MonitorSpec.  A lock is owned from the        *)
(* semaphore's decrement to its increment; a waiter has waited since it    *)
(* gave up the lock, and is signaled since it left the list.               *)
(***************************************************************************)
owner == [l \in Locks |->
            IF \E t \in Threads : Owns(t, l) THEN CHOOSE t \in Threads : Owns(t, l)
                                             ELSE NULL]

waiting == [c \in Conds |->
              {t \in Threads : t \in Range(cond_waiters[c]) /\ pc[t].at # "cond_up"}]

signaled == [l \in Locks |->
               {t \in Threads : /\ pc[t].lk = l
                                /\ pc[t].at # "cond_up"
                                /\ \A c \in Conds : t \notin Range(cond_waiters[c])}]

Monitor == INSTANCE MonitorSpec
             WITH owner <- owner, waiting <- waiting, signaled <- signaled

(***************************************************************************)
(* lock_acquire(), lock_release(), cond_wait(), cond_signal() and          *)
(* cond_broadcast(), preempted anywhere and built from semaphores and      *)
(* lists, are a monitor: cond_wait() "Atomically releases LOCK and waits". *)
(***************************************************************************)
ImplementsMonitor == Monitor!MonitorSpec

-----------------------------------------------------------------------------
(***************************************************************************)
(* Fairness.  The 8259A keeps a timer interrupt pending while interrupts   *)
(* are off and delivers it as soon as they are on: strong fairness.  The   *)
(* handler itself, and a thread that resumes inside sema_down(), run with  *)
(* interrupts off and go on.  Nothing is assumed of what threads call.     *)
(***************************************************************************)
Fairness ==
  /\ SF_vars(TimerInterrupt)
  /\ WF_vars(WakeupOne \/ WakeupDone \/ IntrReturn)
  /\ WF_vars(ResumeDown)

FairSpec == Spec /\ Fairness

(***************************************************************************)
(* With one priority, scheduling is round-robin: a ready thread eventually *)
(* runs, whatever the others do.                                           *)
(***************************************************************************)
ReadyRuns ==
  \A t \in Threads \ {Idle} : status[t] = "READY" ~> status[t] = "RUNNING"

(* A thread in timer_sleep() is eventually woken. *)
SleepersWake ==
  \A t \in Threads : t \in Range(sleep_list) ~> t \notin Range(sleep_list)
=============================================================================
