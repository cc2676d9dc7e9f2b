---------------------------- MODULE ThreadsProofs ----------------------------
(***************************************************************************)
(* Theorems about module Threads, for any number of threads, semaphores,   *)
(* locks and condition variables, any priorities and any time slice.       *)
(***************************************************************************)
EXTENDS Threads, ListLemmas, FiniteSetTheorems

-----------------------------------------------------------------------------
(* list_insert_ordered() puts the element somewhere in the list. *)
LEMMA InsertOrderedRange ==
  ASSUME NEW list \in Seq(Threads), NEW t \in Threads, NEW key
  PROVE  /\ InsertOrdered(list, t, key) \in Seq(Threads)
         /\ Range(InsertOrdered(list, t, key)) = Range(list) \cup {t}
         /\ IsInjective(list) /\ t \notin Range(list) =>
              IsInjective(InsertOrdered(list, t, key))
PROOF
<1> DEFINE greater == {i \in 1 .. Len(list) : key[t] < key[list[i]]}
<1>1. Len(list) \in Nat
  BY LenProperties
<1>2. InsertPosition(list, t, key) \in 1 .. (Len(list) + 1)
  <2>1. CASE greater = {}
    BY <1>1, <2>1 DEF InsertPosition
  <2>2. CASE greater # {}
    <3>1. greater \subseteq 1 .. Len(list)
      OBVIOUS
    <3>2. \E i \in greater : \A j \in greater : i <= j
      <4>1. greater \subseteq Nat
        BY <1>1
      <4> HIDE DEF greater
      <4> QED
        BY <2>2, <4>1, LeastNat
    <3> DEFINE first == CHOOSE i \in greater : \A j \in greater : i <= j
    <3>3. first \in greater
      <4> HIDE DEF greater
      <4> QED
        BY <3>2
    <3>4. InsertPosition(list, t, key) = first
      BY <2>2 DEF InsertPosition
    <3> HIDE DEF first
    <3> QED
      BY <1>1, <3>1, <3>3, <3>4
  <2> QED
    BY <2>1, <2>2
<1> QED
  BY <1>2, InsertAtRange DEF InsertOrdered

-----------------------------------------------------------------------------
(* Type correctness.  First what the helpers do to the scheduler's types. *)
LEMMA ScheduleTypeOK ==
  ASSUME SchedTypeOK, NEW st \in [Threads -> Statuses], NEW rl \in Seq(Threads),
         Schedule(st, rl)
  PROVE  SchedTypeOK' /\ thread_ticks' = 0
PROOF
<1> DEFINE next == IF rl = <<>> THEN Idle ELSE Head(rl)
<1>1. next \in Threads
  BY ThreadsAssumption, HeadTailProperties
<1>2. ready_list' \in Seq(Threads)
  BY HeadTailProperties, EmptySeq DEF Schedule
<1>3. status' \in [Threads -> Statuses]
  BY <1>1 DEF Schedule, Statuses
<1> QED
  BY <1>1, <1>2, <1>3, NumbersAssumption DEF Schedule, SchedTypeOK

LEMMA BlockTypeOK ==
  ASSUME SchedTypeOK, Block
  PROVE  SchedTypeOK' /\ thread_ticks' = 0
PROOF
<1>1. [status EXCEPT ![current] = "BLOCKED"] \in [Threads -> Statuses]
  BY DEF SchedTypeOK, Statuses
<1> QED
  BY <1>1, ScheduleTypeOK DEF Block, SchedTypeOK

LEMMA YieldTypeOK ==
  ASSUME SchedTypeOK, Yield
  PROVE  SchedTypeOK' /\ thread_ticks' = 0
PROOF
<1>1. [status EXCEPT ![current] = "READY"] \in [Threads -> Statuses]
  BY DEF SchedTypeOK, Statuses
<1>2. (IF current = Idle THEN ready_list ELSE InsertReady(current)) \in Seq(Threads)
  BY InsertOrderedRange DEF SchedTypeOK, InsertReady
<1> QED
  BY <1>1, <1>2, ScheduleTypeOK DEF Yield, SchedTypeOK

LEMMA UnblockTypeOK ==
  ASSUME SchedTypeOK, NEW t \in Threads, Unblock(t)
  PROVE  SchedTypeOK' /\ thread_ticks' = thread_ticks
PROOF
<1>1. ready_list' \in Seq(Threads)
  BY InsertOrderedRange DEF SchedTypeOK, Unblock, InsertReady
<1>2. status' \in [Threads -> Statuses]
  BY DEF SchedTypeOK, Unblock, Statuses
<1> QED
  BY <1>1, <1>2 DEF SchedTypeOK, Unblock

LEMMA UpTypeOK ==
  ASSUME SchedTypeOK, SemaTypeOK, NEW s \in SemaIds, Up(s)
  PROVE  SchedTypeOK' /\ SemaTypeOK' /\ thread_ticks' = thread_ticks /\ current' = current
PROOF
<1>1. value' \in [SemaIds -> Nat]
  BY DEF Up, SemaTypeOK
<1>2. CASE waiters[s] = <<>>
  BY <1>1, <1>2 DEF Up, SemaTypeOK, SchedTypeOK, threadVars
<1>3. CASE waiters[s] # <<>>
  <2>1. Head(waiters[s]) \in Threads /\ Tail(waiters[s]) \in Seq(Threads)
    BY <1>3, HeadTailProperties DEF SemaTypeOK
  <2>2. Unblock(Head(waiters[s])) /\ waiters' = [waiters EXCEPT ![s] = Tail(@)]
    BY <1>3 DEF Up
  <2>3. waiters' \in [SemaIds -> Seq(Threads)]
    BY <2>1, <2>2 DEF SemaTypeOK
  <2>4. SchedTypeOK' /\ thread_ticks' = thread_ticks
    BY <2>1, <2>2, UnblockTypeOK
  <2> QED
    BY <1>1, <2>2, <2>3, <2>4 DEF SemaTypeOK, Unblock
<1> QED
  BY <1>2, <1>3

LEMMA GotoTypeOK ==
  ASSUME PcTypeOK, PlacesOK, current \in Threads,
         NEW place \in Places, NEW obj \in SemaIds \cup Conds \cup {NULL},
         NEW lock \in Locks \cup {NULL},
         PlaceOK(current, At(place, obj, lock)), Goto(At(place, obj, lock))
  PROVE  /\ PcTypeOK' /\ PlacesOK'
         /\ pc'[current] = At(place, obj, lock)
         /\ \A t \in Threads \ {current} : pc'[t] = pc[t]
PROOF
<1>1. /\ PcTypeOK'
      /\ pc'[current] = At(place, obj, lock)
      /\ \A t \in Threads \ {current} : pc'[t] = pc[t]
  BY DEF PcTypeOK, Goto, At
<1>2. ASSUME NEW t \in Threads PROVE PlaceOK(t, pc'[t])
  BY <1>1 DEF PlacesOK
<1> QED
  BY <1>1, <1>2 DEF PlacesOK, PlaceOK

LEMMA GotoRun ==
  ASSUME PcTypeOK, PlacesOK, current \in Threads, Goto(Run)
  PROVE  /\ PcTypeOK' /\ PlacesOK'
         /\ pc'[current] = At("run", NULL, NULL)
         /\ \A t \in Threads \ {current} : pc'[t] = pc[t]
PROOF
<1>1. PlaceOK(current, At("run", NULL, NULL))
  BY DEF PlaceOK, At
<1> QED
  BY <1>1, GotoTypeOK DEF Run, Places

(* One turn of sema_down()'s loop. *)
LEMMA DownTypeOK ==
  ASSUME SchedTypeOK, SemaTypeOK, PcTypeOK, PlacesOK,
         NEW s \in SemaIds, NEW lock \in Locks \cup {NULL},
         PlaceOK(current, At("down", s, lock)), Down(s, lock)
  PROVE  /\ SchedTypeOK' /\ SemaTypeOK' /\ PcTypeOK' /\ PlacesOK'
         /\ thread_ticks' \in {0, thread_ticks}
PROOF
<1> current \in Threads
  BY DEF SchedTypeOK
<1>1. CASE value[s] = 0
  <2>1. /\ waiters' = [waiters EXCEPT ![s] = Append(@, current)]
        /\ Goto(At("down", s, lock)) /\ Block /\ UNCHANGED value
    BY <1>1 DEF Down
  <2>2. SemaTypeOK'
    BY <2>1, AppendProperties DEF SemaTypeOK
  <2>3. SchedTypeOK' /\ thread_ticks' = 0
    BY <2>1, BlockTypeOK
  <2>4. PcTypeOK' /\ PlacesOK'
    BY <2>1, GotoTypeOK DEF Places
  <2> QED
    BY <2>2, <2>3, <2>4
<1>2. CASE value[s] # 0
  <2>1. /\ value' = [value EXCEPT ![s] = @ - 1]
        /\ Goto(AfterDown(s, lock))
        /\ UNCHANGED <<waiters, threadVars>>
    BY <1>2 DEF Down
  <2>2. SemaTypeOK'
    BY <1>2, <2>1 DEF SemaTypeOK
  <2>3. SchedTypeOK' /\ thread_ticks' = thread_ticks
    BY <2>1 DEF SchedTypeOK, threadVars
  <2>4. PcTypeOK' /\ PlacesOK'
    <3>1. CASE s \in Locks
      <4>1. AfterDown(s, lock) = At("own", s, NULL)
        BY <3>1, ThreadsAssumption DEF AfterDown
      <4>2. PlaceOK(current, At("own", s, NULL))
        BY <3>1 DEF PlaceOK, At
      <4> QED
        BY <2>1, <4>1, <4>2, GotoTypeOK DEF Places
    <3>2. CASE s \in Threads
      <4>1. AfterDown(s, lock) = At("reacquire", NULL, lock)
        BY <3>2, ThreadsAssumption DEF AfterDown
      <4>2. lock \in Locks
        BY <3>2 DEF PlaceOK, At
      <4>3. PlaceOK(current, At("reacquire", NULL, lock))
        BY <4>2 DEF PlaceOK, At
      <4> QED
        BY <2>1, <4>1, <4>3, GotoTypeOK DEF Places
    <3>3. CASE s \in Semas
      <4>1. AfterDown(s, lock) = Run
        BY <3>3, ThreadsAssumption DEF AfterDown
      <4> QED
        BY <2>1, <4>1, GotoRun
    <3> QED
      BY <3>1, <3>2, <3>3 DEF SemaIds
  <2> QED
    BY <2>2, <2>3, <2>4
<1> QED
  BY <1>1, <1>2

(***************************************************************************)
(* Type correctness needs SliceInv, which bounds thread_ticks, and rests   *)
(* on it alone: TypeInv is inductive.                                      *)
(***************************************************************************)
TypeInv == TypeOK /\ SliceInv

LEMMA TypeInit == Init => TypeInv
PROOF
<1> SUFFICES ASSUME Init PROVE TypeInv
  OBVIOUS
<1> USE ThreadsAssumption, NumbersAssumption
<1>1. SchedTypeOK
  BY EmptySeq DEF Init, SchedTypeOK, Statuses
<1>2. SleepTypeOK
  BY EmptySeq DEF Init, SleepTypeOK, INT64_MAX
<1>3. SemaTypeOK
  BY EmptySeq DEF Init, SemaTypeOK
<1>4. PcTypeOK
  BY DEF Init, PcTypeOK, Run, At, Places
<1>5. PlacesOK
  BY DEF Init, PlacesOK, PlaceOK, Run, At
<1>6. LockTypeOK
  BY EmptySeq DEF Init, LockTypeOK
<1>7. IntrTypeOK
  <2>1. ticks \in 0 .. MaxTicks
    BY DEF Init
  <2> QED
    BY <2>1, Zenon DEF Init, IntrTypeOK
<1>8. SliceInv
  BY DEF Init, SliceInv
<1> QED
  BY <1>1, <1>2, <1>3, <1>4, <1>5, <1>6, <1>7, <1>8 DEF TypeInv, TypeOK

(* A step of the running thread leaves the interrupt handler idle. *)
LEMMA SliceStep ==
  ASSUME SliceInv, UNCHANGED intrVars, thread_ticks' \in {0, thread_ticks}, intr = "none"
  PROVE  SliceInv'
  BY NumbersAssumption DEF SliceInv, intrVars

LEMMA SchedulerTypeOK == TypeInv /\ SchedulerStep => TypeInv'
PROOF
<1> SUFFICES ASSUME TypeInv, SchedulerStep PROVE TypeInv'
  OBVIOUS
<1> USE ThreadsAssumption, NumbersAssumption
<1>0. /\ SchedTypeOK /\ SleepTypeOK /\ SemaTypeOK /\ PcTypeOK /\ PlacesOK /\ LockTypeOK
      /\ IntrTypeOK /\ SliceInv /\ current \in Threads
  BY DEF TypeInv, TypeOK, SchedTypeOK
<1>1. CASE ThreadYield
  <2>1. SchedTypeOK' /\ thread_ticks' = 0
    BY <1>0, <1>1, YieldTypeOK DEF ThreadYield
  <2>2. SliceInv'
    BY <1>0, <1>1, <2>1, SliceStep DEF ThreadYield, Calls, Running
  <2>3. UNCHANGED <<sleepVars, semaVars, holder, cond_waiters, pc, intrVars>>
    BY <1>1 DEF ThreadYield
  <2> QED
    BY <1>0, <2>1, <2>2, <2>3 DEF TypeInv, TypeOK, SleepTypeOK, SemaTypeOK, PcTypeOK,
       PlacesOK, PlaceOK, LockTypeOK, IntrTypeOK, sleepVars, semaVars, intrVars
<1>2. CASE ThreadDie
  <2>1. SchedTypeOK' /\ thread_ticks' = 0
    <3>1. [status EXCEPT ![current] = IF current = Main THEN "DYING" ELSE "FREE"]
            \in [Threads -> Statuses]
      BY <1>0 DEF SchedTypeOK, Statuses
    <3>2. ready_list \in Seq(Threads)
      BY <1>0 DEF SchedTypeOK
    <3> QED
      BY <1>0, <1>2, <3>1, <3>2, ScheduleTypeOK DEF ThreadDie
  <2>2. SliceInv'
    BY <1>0, <1>2, <2>1, SliceStep DEF ThreadDie, Calls, Running
  <2>3. UNCHANGED <<sleepVars, semaVars, holder, cond_waiters, pc, intrVars>>
    BY <1>2 DEF ThreadDie
  <2> QED
    BY <1>0, <2>1, <2>2, <2>3 DEF TypeInv, TypeOK, SleepTypeOK, SemaTypeOK, PcTypeOK,
       PlacesOK, PlaceOK, LockTypeOK, IntrTypeOK, sleepVars, semaVars, intrVars
<1>3. CASE IdleBlock
  <2>1. SchedTypeOK' /\ thread_ticks' = 0
    BY <1>0, <1>3, BlockTypeOK DEF IdleBlock
  <2>2. SliceInv'
    BY <1>0, <1>3, <2>1, SliceStep DEF IdleBlock, Running
  <2>3. PcTypeOK' /\ PlacesOK'
    <3>1. PlaceOK(current, At("hlt", NULL, NULL))
      BY DEF PlaceOK, At
    <3> QED
      BY <1>0, <1>3, <3>1, GotoTypeOK DEF IdleBlock, Places
  <2>4. UNCHANGED <<sleepVars, semaVars, holder, cond_waiters, intrVars>>
    BY <1>3 DEF IdleBlock
  <2> QED
    BY <1>0, <2>1, <2>2, <2>3, <2>4 DEF TypeInv, TypeOK, SleepTypeOK, SemaTypeOK,
       LockTypeOK, IntrTypeOK, sleepVars, semaVars, intrVars
<1>4. ASSUME NEW prio \in Priorities, ThreadSetPriority(prio) PROVE TypeInv'
  <2>1. SchedTypeOK' /\ thread_ticks' = thread_ticks
    BY <1>0, <1>4 DEF ThreadSetPriority, SchedTypeOK
  <2>2. SliceInv'
    BY <1>0, <1>4, <2>1, SliceStep DEF ThreadSetPriority, Calls, Running
  <2>3. UNCHANGED <<sleepVars, semaVars, holder, cond_waiters, pc, intrVars>>
    BY <1>4 DEF ThreadSetPriority
  <2> QED
    BY <1>0, <2>1, <2>2, <2>3 DEF TypeInv, TypeOK, SleepTypeOK, SemaTypeOK, PcTypeOK,
       PlacesOK, PlaceOK, LockTypeOK, IntrTypeOK, sleepVars, semaVars, intrVars
<1>5. ASSUME NEW t \in Threads, NEW prio \in Priorities, ThreadCreate(t, prio)
      PROVE  TypeInv'
  <2>1. SchedTypeOK' /\ thread_ticks' = thread_ticks
    <3>1. ready_list' \in Seq(Threads)
      BY <1>0, <1>5, InsertOrderedRange DEF ThreadCreate, SchedTypeOK
    <3> QED
      BY <1>0, <1>5, <3>1 DEF ThreadCreate, SchedTypeOK, Statuses
  <2>2. SliceInv'
    BY <1>0, <1>5, <2>1, SliceStep DEF ThreadCreate, Calls, Running
  <2>3. PcTypeOK' /\ PlacesOK'
    <3>1. pc' = [pc EXCEPT ![t] = Run]
      BY <1>5 DEF ThreadCreate
    <3>2. PlaceOK(t, Run)
      BY DEF PlaceOK, Run, At
    <3>3. PcTypeOK'
      BY <1>0, <3>1 DEF PcTypeOK, Run, At, Places
    <3>4. ASSUME NEW u \in Threads PROVE PlaceOK(u, pc'[u])
      BY <1>0, <3>1, <3>2 DEF PlacesOK, PcTypeOK
    <3> QED
      BY <3>3, <3>4 DEF PlacesOK, PlaceOK
  <2>4. SleepTypeOK'
    BY <1>0, <1>5 DEF ThreadCreate, SleepTypeOK
  <2>5. UNCHANGED <<semaVars, holder, cond_waiters, intrVars>>
    BY <1>5 DEF ThreadCreate
  <2> QED
    BY <1>0, <2>1, <2>2, <2>3, <2>4, <2>5 DEF TypeInv, TypeOK, SemaTypeOK,
       LockTypeOK, IntrTypeOK, semaVars, intrVars
<1> QED
  BY <1>1, <1>2, <1>3, <1>4, <1>5 DEF SchedulerStep

LEMMA EndHltTypeOK ==
  ASSUME PcTypeOK, PlacesOK, EndHlt
  PROVE  /\ PcTypeOK' /\ PlacesOK'
         /\ \A t \in Threads : pc'[t] = pc[t] \/ (t = Idle /\ t = current /\ pc'[t] = Run)
PROOF
<1> USE ThreadsAssumption
<1>1. /\ PcTypeOK'
      /\ \A t \in Threads : pc'[t] = pc[t] \/ (t = Idle /\ t = current /\ pc'[t] = Run)
  BY DEF PcTypeOK, EndHlt, Run, At, Places
<1>2. \A t \in Threads : PlaceOK(t, Run)
  BY DEF PlaceOK, Run, At
<1>3. ASSUME NEW t \in Threads PROVE PlaceOK(t, pc'[t])
  BY <1>1, <1>2 DEF PlacesOK
<1> QED
  BY <1>1, <1>3 DEF PlacesOK, PlaceOK

LEMMA SemaTypeStep == TypeInv /\ SemaStep => TypeInv'
PROOF
<1> SUFFICES ASSUME TypeInv, SemaStep PROVE TypeInv'
  OBVIOUS
<1> USE ThreadsAssumption, NumbersAssumption
<1>0. /\ SchedTypeOK /\ SleepTypeOK /\ SemaTypeOK /\ PcTypeOK /\ PlacesOK /\ LockTypeOK
      /\ IntrTypeOK /\ SliceInv /\ current \in Threads
  BY DEF TypeInv, TypeOK, SchedTypeOK
<1>1. CASE ResumeDown
  <2>1. /\ pc[current].on \in SemaIds /\ pc[current].lk \in Locks \cup {NULL}
        /\ PlaceOK(current, At("down", pc[current].on, pc[current].lk))
    BY <1>0, <1>1 DEF ResumeDown, Running, PlacesOK, PlaceOK, PcTypeOK, At
  <2>2. /\ SchedTypeOK' /\ SemaTypeOK' /\ PcTypeOK' /\ PlacesOK'
        /\ thread_ticks' \in {0, thread_ticks}
    BY <1>0, <1>1, <2>1, DownTypeOK DEF ResumeDown
  <2>3. SliceInv'
    BY <1>0, <1>1, <2>2, SliceStep DEF ResumeDown, Running
  <2> QED
    BY <1>0, <1>1, <2>2, <2>3 DEF ResumeDown, TypeInv, TypeOK, SleepTypeOK,
       LockTypeOK, IntrTypeOK, sleepVars, intrVars
<1>2. ASSUME NEW s \in Semas, SemaDown(s) PROVE TypeInv'
  <2>1. s \in SemaIds /\ PlaceOK(current, At("down", s, NULL))
    BY DEF SemaIds, PlaceOK, At
  <2>2. /\ SchedTypeOK' /\ SemaTypeOK' /\ PcTypeOK' /\ PlacesOK'
        /\ thread_ticks' \in {0, thread_ticks}
    BY <1>0, <1>2, <2>1, DownTypeOK DEF SemaDown
  <2>3. SliceInv'
    BY <1>0, <1>2, <2>2, SliceStep DEF SemaDown, Calls, Running
  <2> QED
    BY <1>0, <1>2, <2>2, <2>3 DEF SemaDown, TypeInv, TypeOK, SleepTypeOK,
       LockTypeOK, IntrTypeOK, sleepVars, intrVars
<1>3. ASSUME NEW s \in Semas, SemaTryDown(s) PROVE TypeInv'
  <2>1. SemaTypeOK'
    BY <1>0, <1>3 DEF SemaTryDown, SemaTypeOK, SemaIds
  <2>2. SchedTypeOK' /\ thread_ticks' = thread_ticks
    BY <1>0, <1>3 DEF SemaTryDown, SchedTypeOK, threadVars
  <2>3. SliceInv'
    BY <1>0, <1>3, <2>2, SliceStep DEF SemaTryDown, Calls, Running
  <2>4. UNCHANGED <<sleepVars, holder, cond_waiters, pc, intrVars>>
    BY <1>3 DEF SemaTryDown
  <2> QED
    BY <1>0, <2>1, <2>2, <2>3, <2>4 DEF TypeInv, TypeOK, SleepTypeOK, PcTypeOK,
       PlacesOK, PlaceOK, LockTypeOK, IntrTypeOK, sleepVars, intrVars
<1>4. ASSUME NEW s \in Semas, SemaUp(s) PROVE TypeInv'
  <2>1. SchedTypeOK' /\ SemaTypeOK' /\ thread_ticks' = thread_ticks
    BY <1>0, <1>4, UpTypeOK DEF SemaUp, SemaIds
  <2>2. SliceInv'
    BY <1>0, <1>4, <2>1, SliceStep DEF SemaUp, Calls, Running
  <2>3. UNCHANGED <<sleepVars, holder, cond_waiters, pc, intrVars>>
    BY <1>4 DEF SemaUp
  <2> QED
    BY <1>0, <2>1, <2>2, <2>3 DEF TypeInv, TypeOK, SleepTypeOK, PcTypeOK,
       PlacesOK, PlaceOK, LockTypeOK, IntrTypeOK, sleepVars, intrVars
<1>5. ASSUME NEW s \in Semas, DeviceInterrupt(s) PROVE TypeInv'
  <2>1. SchedTypeOK' /\ SemaTypeOK' /\ thread_ticks' = thread_ticks
    BY <1>0, <1>5, UpTypeOK DEF DeviceInterrupt, SemaIds
  <2>2. SliceInv'
    BY <1>0, <1>5, <2>1, SliceStep DEF DeviceInterrupt, IntrOn
  <2>3. PcTypeOK' /\ PlacesOK'
    BY <1>0, <1>5, EndHltTypeOK DEF DeviceInterrupt
  <2>4. UNCHANGED <<sleepVars, holder, cond_waiters, intrVars>>
    BY <1>5 DEF DeviceInterrupt
  <2> QED
    BY <1>0, <2>1, <2>2, <2>3, <2>4 DEF TypeInv, TypeOK, SleepTypeOK,
       LockTypeOK, IntrTypeOK, sleepVars, intrVars
<1> QED
  BY <1>1, <1>2, <1>3, <1>4, <1>5 DEF SemaStep

LEMMA LockTypeStep == TypeInv /\ LockStep => TypeInv'
PROOF
<1> SUFFICES ASSUME TypeInv, LockStep PROVE TypeInv'
  OBVIOUS
<1> USE ThreadsAssumption, NumbersAssumption
<1>0. /\ SchedTypeOK /\ SleepTypeOK /\ SemaTypeOK /\ PcTypeOK /\ PlacesOK /\ LockTypeOK
      /\ IntrTypeOK /\ SliceInv /\ current \in Threads
  BY DEF TypeInv, TypeOK, SchedTypeOK
<1>1. CASE SetHolder
  <2>1. PcTypeOK' /\ PlacesOK'
    BY <1>0, <1>1, GotoRun DEF SetHolder
  <2>2. LockTypeOK'
    BY <1>0, <1>1 DEF SetHolder, LockTypeOK
  <2>3. UNCHANGED <<threadVars, sleepVars, semaVars, intrVars>>
    BY <1>1 DEF SetHolder
  <2>4. SliceInv'
    BY <1>0, <1>1, <2>3, SliceStep DEF SetHolder, Running, threadVars
  <2> QED
    BY <1>0, <2>1, <2>2, <2>3, <2>4 DEF TypeInv, TypeOK, SchedTypeOK, SleepTypeOK,
       SemaTypeOK, IntrTypeOK, threadVars, sleepVars, semaVars, intrVars
<1>2. CASE LockUp
  <2>1. pc[current].on \in SemaIds
    BY <1>0, <1>2 DEF LockUp, Running, PlacesOK, PlaceOK, SemaIds
  <2>2. SchedTypeOK' /\ SemaTypeOK' /\ thread_ticks' = thread_ticks
    BY <1>0, <1>2, <2>1, UpTypeOK DEF LockUp
  <2>3. PcTypeOK' /\ PlacesOK'
    BY <1>0, <1>2, GotoRun DEF LockUp
  <2>4. SliceInv'
    BY <1>0, <1>2, <2>2, SliceStep DEF LockUp, Running
  <2> QED
    BY <1>0, <1>2, <2>2, <2>3, <2>4 DEF LockUp, TypeInv, TypeOK, SleepTypeOK,
       LockTypeOK, IntrTypeOK, sleepVars, intrVars
<1>3. ASSUME NEW l \in Locks, LockAcquire(l) PROVE TypeInv'
  <2>1. l \in SemaIds /\ PlaceOK(current, At("down", l, NULL))
    BY DEF SemaIds, PlaceOK, At
  <2>2. /\ SchedTypeOK' /\ SemaTypeOK' /\ PcTypeOK' /\ PlacesOK'
        /\ thread_ticks' \in {0, thread_ticks}
    BY <1>0, <1>3, <2>1, DownTypeOK DEF LockAcquire
  <2>3. SliceInv'
    BY <1>0, <1>3, <2>2, SliceStep DEF LockAcquire, Calls, Running
  <2> QED
    BY <1>0, <1>3, <2>2, <2>3 DEF LockAcquire, TypeInv, TypeOK, SleepTypeOK,
       LockTypeOK, IntrTypeOK, sleepVars, intrVars
<1>4. ASSUME NEW l \in Locks, LockTryAcquire(l) PROVE TypeInv'
  <2>1. PcTypeOK' /\ PlacesOK'
    <3>1. PlaceOK(current, At("own", l, NULL))
      BY DEF PlaceOK, At
    <3> QED
      BY <1>0, <1>4, <3>1, GotoTypeOK DEF LockTryAcquire, Places, SemaIds
  <2>2. SemaTypeOK'
    BY <1>0, <1>4 DEF LockTryAcquire, SemaTypeOK, SemaIds
  <2>3. UNCHANGED <<threadVars, sleepVars, holder, cond_waiters, intrVars>>
    BY <1>4 DEF LockTryAcquire
  <2>4. SliceInv'
    BY <1>0, <1>4, <2>3, SliceStep DEF LockTryAcquire, Calls, Running, threadVars
  <2> QED
    BY <1>0, <2>1, <2>2, <2>3, <2>4 DEF TypeInv, TypeOK, SchedTypeOK, SleepTypeOK,
       LockTypeOK, IntrTypeOK, threadVars, sleepVars, intrVars
<1>5. ASSUME NEW l \in Locks, LockRelease(l) PROVE TypeInv'
  <2>1. PcTypeOK' /\ PlacesOK'
    <3>1. PlaceOK(current, At("up", l, NULL))
      BY DEF PlaceOK, At
    <3> QED
      BY <1>0, <1>5, <3>1, GotoTypeOK DEF LockRelease, Places, SemaIds
  <2>2. LockTypeOK'
    BY <1>0, <1>5 DEF LockRelease, LockTypeOK
  <2>3. UNCHANGED <<threadVars, sleepVars, semaVars, intrVars>>
    BY <1>5 DEF LockRelease
  <2>4. SliceInv'
    BY <1>0, <1>5, <2>3, SliceStep DEF LockRelease, Calls, Running, threadVars
  <2> QED
    BY <1>0, <2>1, <2>2, <2>3, <2>4 DEF TypeInv, TypeOK, SchedTypeOK, SleepTypeOK,
       SemaTypeOK, IntrTypeOK, threadVars, sleepVars, semaVars, intrVars
<1> QED
  BY <1>1, <1>2, <1>3, <1>4, <1>5 DEF LockStep

LEMMA SignalTypeOK ==
  ASSUME SchedTypeOK, SemaTypeOK, LockTypeOK, NEW c \in Conds, SignalOne(c)
  PROVE  /\ SchedTypeOK' /\ SemaTypeOK' /\ cond_waiters' \in [Conds -> Seq(Threads)]
         /\ thread_ticks' = thread_ticks /\ current' = current
PROOF
<1>1. Head(cond_waiters[c]) \in Threads /\ Tail(cond_waiters[c]) \in Seq(Threads)
  BY HeadTailProperties DEF SignalOne, LockTypeOK
<1>2. cond_waiters' \in [Conds -> Seq(Threads)]
  BY <1>1 DEF SignalOne, LockTypeOK
<1> QED
  BY <1>1, <1>2, UpTypeOK DEF SignalOne, SemaIds

LEMMA CondTypeStep == TypeInv /\ CondStep => TypeInv'
PROOF
<1> SUFFICES ASSUME TypeInv, CondStep PROVE TypeInv'
  OBVIOUS
<1> USE ThreadsAssumption, NumbersAssumption
<1>0. /\ SchedTypeOK /\ SleepTypeOK /\ SemaTypeOK /\ PcTypeOK /\ PlacesOK /\ LockTypeOK
      /\ IntrTypeOK /\ SliceInv /\ current \in Threads
  BY DEF TypeInv, TypeOK, SchedTypeOK
<1>1. CASE CondUp
  <2>1. pc[current].lk \in Locks /\ pc[current].lk \in SemaIds
    BY <1>0, <1>1 DEF CondUp, Running, PlacesOK, PlaceOK, SemaIds
  <2>2. SchedTypeOK' /\ SemaTypeOK' /\ thread_ticks' = thread_ticks
    BY <1>0, <1>1, <2>1, UpTypeOK DEF CondUp
  <2>3. PcTypeOK' /\ PlacesOK'
    <3>1. PlaceOK(current, At("cond_down", NULL, pc[current].lk))
      BY <2>1 DEF PlaceOK, At
    <3> QED
      BY <1>0, <1>1, <2>1, <3>1, GotoTypeOK DEF CondUp, Places
  <2>4. SliceInv'
    BY <1>0, <1>1, <2>2, SliceStep DEF CondUp, Running
  <2> QED
    BY <1>0, <1>1, <2>2, <2>3, <2>4 DEF CondUp, TypeInv, TypeOK, SleepTypeOK,
       LockTypeOK, IntrTypeOK, sleepVars, intrVars
<1>2. CASE CondDown
  <2>1. pc[current].lk \in Locks /\ current \in SemaIds
    BY <1>0, <1>2 DEF CondDown, Running, PlacesOK, PlaceOK, SemaIds
  <2>2. PlaceOK(current, At("down", current, pc[current].lk))
    BY <1>0, <2>1 DEF PlaceOK, At
  <2>3. /\ SchedTypeOK' /\ SemaTypeOK' /\ PcTypeOK' /\ PlacesOK'
        /\ thread_ticks' \in {0, thread_ticks}
    BY <1>0, <1>2, <2>1, <2>2, DownTypeOK DEF CondDown
  <2>4. SliceInv'
    BY <1>0, <1>2, <2>3, SliceStep DEF CondDown, Running
  <2> QED
    BY <1>0, <1>2, <2>3, <2>4 DEF CondDown, TypeInv, TypeOK, SleepTypeOK,
       LockTypeOK, IntrTypeOK, sleepVars, intrVars
<1>3. CASE CondReacquire
  <2>1. pc[current].lk \in Locks /\ pc[current].lk \in SemaIds
    BY <1>0, <1>3 DEF CondReacquire, Running, PlacesOK, PlaceOK, SemaIds
  <2>2. PlaceOK(current, At("down", pc[current].lk, pc[current].lk))
    BY <1>0, <2>1 DEF PlaceOK, At
  <2>3. /\ SchedTypeOK' /\ SemaTypeOK' /\ PcTypeOK' /\ PlacesOK'
        /\ thread_ticks' \in {0, thread_ticks}
    BY <1>0, <1>3, <2>1, <2>2, DownTypeOK DEF CondReacquire
  <2>4. SliceInv'
    BY <1>0, <1>3, <2>3, SliceStep DEF CondReacquire, Running
  <2> QED
    BY <1>0, <1>3, <2>3, <2>4 DEF CondReacquire, TypeInv, TypeOK, SleepTypeOK,
       LockTypeOK, IntrTypeOK, sleepVars, intrVars
<1>4. CASE BroadcastNext
  <2>1. pc[current].on \in Conds
    BY <1>0, <1>4 DEF BroadcastNext, Running, PlacesOK, PlaceOK
  <2>2. UNCHANGED <<sleepVars, holder, intrVars>> /\ intr = "none"
    BY <1>4 DEF BroadcastNext, Running
  <2>3. CASE SignalOne(pc[current].on) /\ UNCHANGED pc
    <3>1. /\ SchedTypeOK' /\ SemaTypeOK' /\ cond_waiters' \in [Conds -> Seq(Threads)]
          /\ thread_ticks' = thread_ticks
      BY <1>0, <2>1, <2>3, SignalTypeOK
    <3>2. SliceInv'
      BY <1>0, <2>2, <3>1, SliceStep
    <3> QED
      BY <1>0, <2>2, <2>3, <3>1, <3>2 DEF TypeInv, TypeOK, SleepTypeOK, PcTypeOK,
         PlacesOK, PlaceOK, LockTypeOK, IntrTypeOK, sleepVars, intrVars
  <2>4. CASE Goto(Run) /\ UNCHANGED <<threadVars, semaVars, cond_waiters>>
    <3>1. PcTypeOK' /\ PlacesOK'
      BY <1>0, <2>4, GotoRun
    <3>2. SliceInv'
      BY <1>0, <2>2, <2>4, SliceStep DEF threadVars
    <3> QED
      BY <1>0, <2>2, <2>4, <3>1, <3>2 DEF TypeInv, TypeOK, SchedTypeOK, SleepTypeOK,
         SemaTypeOK, LockTypeOK, IntrTypeOK, threadVars, sleepVars, semaVars, intrVars
  <2> QED
    BY <1>4, <2>3, <2>4 DEF BroadcastNext
<1>5. ASSUME NEW c \in Conds, CondWait(c) PROVE TypeInv'
  <2>1. CondLock[c] \in Locks
    OBVIOUS
  <2>2. PcTypeOK' /\ PlacesOK'
    <3>1. PlaceOK(current, At("cond_up", c, CondLock[c]))
      BY <2>1 DEF PlaceOK, At
    <3> QED
      BY <1>0, <1>5, <2>1, <3>1, GotoTypeOK DEF CondWait, Places
  <2>3. SemaTypeOK'
    BY <1>0, <1>5, EmptySeq DEF CondWait, SemaTypeOK
  <2>4. LockTypeOK'
    BY <1>0, <1>5, AppendProperties DEF CondWait, LockTypeOK
  <2>5. UNCHANGED <<threadVars, sleepVars, intrVars>>
    BY <1>5 DEF CondWait
  <2>6. SliceInv'
    BY <1>0, <1>5, <2>5, SliceStep DEF CondWait, Calls, Running, threadVars
  <2> QED
    BY <1>0, <2>2, <2>3, <2>4, <2>5, <2>6 DEF TypeInv, TypeOK, SchedTypeOK,
       SleepTypeOK, IntrTypeOK, threadVars, sleepVars, intrVars
<1>6. ASSUME NEW c \in Conds, CondSignal(c) PROVE TypeInv'
  <2>1. /\ SchedTypeOK' /\ SemaTypeOK' /\ cond_waiters' \in [Conds -> Seq(Threads)]
        /\ thread_ticks' = thread_ticks
    BY <1>0, <1>6, SignalTypeOK DEF CondSignal
  <2>2. UNCHANGED <<sleepVars, holder, pc, intrVars>>
    BY <1>6 DEF CondSignal
  <2>3. SliceInv'
    BY <1>0, <1>6, <2>1, <2>2, SliceStep DEF CondSignal, Calls, Running
  <2> QED
    BY <1>0, <2>1, <2>2, <2>3 DEF TypeInv, TypeOK, SleepTypeOK, PcTypeOK,
       PlacesOK, PlaceOK, LockTypeOK, IntrTypeOK, sleepVars, intrVars
<1>7. ASSUME NEW c \in Conds, CondBroadcast(c) PROVE TypeInv'
  <2>1. PcTypeOK' /\ PlacesOK'
    <3>1. PlaceOK(current, At("broadcast", c, NULL))
      BY DEF PlaceOK, At
    <3> QED
      BY <1>0, <1>7, <3>1, GotoTypeOK DEF CondBroadcast, Places
  <2>2. UNCHANGED <<threadVars, sleepVars, semaVars, holder, cond_waiters, intrVars>>
    BY <1>7 DEF CondBroadcast
  <2>3. SliceInv'
    BY <1>0, <1>7, <2>2, SliceStep DEF CondBroadcast, Calls, Running, threadVars
  <2> QED
    BY <1>0, <2>1, <2>2, <2>3 DEF TypeInv, TypeOK, SchedTypeOK, SleepTypeOK,
       SemaTypeOK, LockTypeOK, IntrTypeOK, threadVars, sleepVars, semaVars, intrVars
<1> QED
  BY <1>1, <1>2, <1>3, <1>4, <1>5, <1>6, <1>7 DEF CondStep

LEMMA SleepTypeStep == TypeInv /\ SleepStep => TypeInv'
PROOF
<1> SUFFICES ASSUME TypeInv, SleepStep PROVE TypeInv'
  OBVIOUS
<1> USE ThreadsAssumption, NumbersAssumption
<1>0. /\ SchedTypeOK /\ SleepTypeOK /\ SemaTypeOK /\ PcTypeOK /\ PlacesOK /\ LockTypeOK
      /\ IntrTypeOK /\ SliceInv /\ current \in Threads
  BY DEF TypeInv, TypeOK, SchedTypeOK
<1>1. \A place \in {"compare", "store", "sleep"} :
        place \in Places /\ PlaceOK(current, At(place, NULL, NULL))
  BY DEF PlaceOK, At, Places
<1>2. CASE CompareCallTime
  <2>1. PcTypeOK' /\ PlacesOK'
    BY <1>0, <1>1, <1>2, GotoTypeOK DEF CompareCallTime
  <2>2. UNCHANGED <<threadVars, sleepVars, semaVars, holder, cond_waiters, intrVars>>
    BY <1>2 DEF CompareCallTime
  <2>3. SliceInv'
    BY <1>0, <1>2, <2>2, SliceStep DEF CompareCallTime, Running, threadVars
  <2> QED
    BY <1>0, <2>1, <2>2, <2>3 DEF TypeInv, TypeOK, SchedTypeOK, SleepTypeOK,
       SemaTypeOK, LockTypeOK, IntrTypeOK, threadVars, sleepVars, semaVars, intrVars
<1>3. CASE StoreCallTime
  <2>1. PcTypeOK' /\ PlacesOK'
    BY <1>0, <1>1, <1>3, GotoTypeOK DEF StoreCallTime
  <2>2. SleepTypeOK'
    BY <1>0, <1>3 DEF StoreCallTime, SleepTypeOK
  <2>3. UNCHANGED <<threadVars, semaVars, holder, cond_waiters, intrVars>>
    BY <1>3 DEF StoreCallTime
  <2>4. SliceInv'
    BY <1>0, <1>3, <2>3, SliceStep DEF StoreCallTime, Running, threadVars
  <2> QED
    BY <1>0, <2>1, <2>2, <2>3, <2>4 DEF TypeInv, TypeOK, SchedTypeOK,
       SemaTypeOK, LockTypeOK, IntrTypeOK, threadVars, semaVars, intrVars
<1>4. CASE ThreadSleep
  <2>1. PcTypeOK' /\ PlacesOK'
    BY <1>0, <1>4, GotoRun DEF ThreadSleep
  <2>2. SleepTypeOK'
    BY <1>0, <1>4, InsertOrderedRange DEF ThreadSleep, SleepTypeOK
  <2>3. SchedTypeOK' /\ thread_ticks' = 0
    BY <1>0, <1>4, BlockTypeOK DEF ThreadSleep
  <2>4. SliceInv'
    BY <1>0, <1>4, <2>3, SliceStep DEF ThreadSleep, Running
  <2> QED
    BY <1>0, <1>4, <2>1, <2>2, <2>3, <2>4 DEF ThreadSleep, TypeInv, TypeOK,
       SemaTypeOK, LockTypeOK, IntrTypeOK, semaVars, intrVars
<1>5. ASSUME NEW n \in Sleeps, TimerSleep(n) PROVE TypeInv'
  <2>1. PcTypeOK' /\ PlacesOK'
    BY <1>0, <1>1, <1>5, GotoTypeOK DEF TimerSleep
  <2>2. SleepTypeOK'
    BY <1>0, <1>5 DEF TimerSleep, SleepTypeOK, IntrTypeOK
  <2>3. UNCHANGED <<threadVars, semaVars, holder, cond_waiters, intrVars>>
    BY <1>5 DEF TimerSleep
  <2>4. SliceInv'
    BY <1>0, <1>5, <2>3, SliceStep DEF TimerSleep, Calls, Running, threadVars
  <2> QED
    BY <1>0, <2>1, <2>2, <2>3, <2>4 DEF TypeInv, TypeOK, SchedTypeOK,
       SemaTypeOK, LockTypeOK, IntrTypeOK, threadVars, semaVars, intrVars
<1> QED
  BY <1>2, <1>3, <1>4, <1>5 DEF SleepStep

LEMMA TimerTypeStep == TypeInv /\ TimerStep => TypeInv'
PROOF
<1> SUFFICES ASSUME TypeInv, TimerStep PROVE TypeInv'
  OBVIOUS
<1> USE ThreadsAssumption, NumbersAssumption
<1>0. /\ SchedTypeOK /\ SleepTypeOK /\ SemaTypeOK /\ PcTypeOK /\ PlacesOK /\ LockTypeOK
      /\ IntrTypeOK /\ SliceInv /\ current \in Threads
  BY DEF TypeInv, TypeOK, SchedTypeOK
<1>1. CASE TimerInterrupt
  <2>1. thread_ticks < TIME_SLICE /\ intr = "none" /\ pc[current].at # "down"
    BY <1>0, <1>1 DEF TimerInterrupt, ThreadTick, IntrOn, SliceInv
  <2>2. SchedTypeOK'
    BY <1>0, <1>1, <2>1 DEF TimerInterrupt, ThreadTick, SchedTypeOK
  <2>3. PcTypeOK' /\ PlacesOK'
    BY <1>0, <1>1, EndHltTypeOK DEF TimerInterrupt, ThreadTick
  <2>4. IntrTypeOK'
    <3>1. ticks' \in 0 .. MaxTicks
      BY <1>0, <1>1 DEF TimerInterrupt, ThreadTick, IntrTypeOK
    <3>2. intr' \in {"none", "wakeup", "return"}
      BY <1>1 DEF TimerInterrupt, ThreadTick
    <3>3. yield_on_return' \in BOOLEAN
      BY <1>1 DEF TimerInterrupt, ThreadTick
    <3> QED
      BY <3>1, <3>2, <3>3 DEF IntrTypeOK
  <2>5. SliceInv'
    <3>1. pc'[current'].at # "down"
      <4>1. current' = current /\ (pc'[current] = pc[current] \/ pc'[current] = Run)
        BY <1>0, <1>1, EndHltTypeOK DEF TimerInterrupt, ThreadTick
      <4> QED
        BY <2>1, <4>1 DEF Run, At
    <3>2. intr' # "none"
      BY <1>1 DEF TimerInterrupt, ThreadTick
    <3>3. yield_on_return' <=> thread_ticks' >= TIME_SLICE
      BY <1>1 DEF TimerInterrupt, ThreadTick
    <3> QED
      BY <3>1, <3>2, <3>3 DEF SliceInv
  <2> QED
    BY <1>0, <1>1, <2>2, <2>3, <2>4, <2>5 DEF TimerInterrupt, ThreadTick, TypeInv, TypeOK,
       SleepTypeOK, SemaTypeOK, LockTypeOK, sleepVars, semaVars
<1>2. CASE WakeupOne
  <2>1. Head(sleep_list) \in Threads /\ Tail(sleep_list) \in Seq(Threads)
    BY <1>0, <1>2, HeadTailProperties DEF WakeupOne, SleepTypeOK
  <2>2. SchedTypeOK' /\ thread_ticks' = thread_ticks
    BY <1>0, <1>2, <2>1, UnblockTypeOK DEF WakeupOne
  <2>3. SleepTypeOK'
    BY <1>0, <1>2, <2>1 DEF WakeupOne, SleepTypeOK
  <2>4. SliceInv'
    BY <1>0, <1>2, <2>2 DEF WakeupOne, Unblock, SliceInv, intrVars
  <2>5. UNCHANGED <<semaVars, holder, cond_waiters, pc, intrVars>>
    BY <1>2 DEF WakeupOne
  <2> QED
    BY <1>0, <2>2, <2>3, <2>4, <2>5 DEF TypeInv, TypeOK, SemaTypeOK, PcTypeOK,
       PlacesOK, PlaceOK, LockTypeOK, IntrTypeOK, semaVars, intrVars
<1>3. CASE WakeupDone
  <2>1. SleepTypeOK'
    <3>1. sleep_list # <<>> => Head(sleep_list) \in Threads
      BY <1>0, HeadTailProperties DEF SleepTypeOK
    <3>2. wakeup_call_time' \in Int
      BY <1>0, <1>3, <3>1 DEF WakeupDone, SleepTypeOK, INT64_MAX
    <3> QED
      BY <1>0, <1>3, <3>2 DEF WakeupDone, SleepTypeOK
  <2>2. UNCHANGED <<threadVars, semaVars, holder, cond_waiters, pc, ticks,
                    yield_on_return>> /\ intr = "wakeup" /\ intr' = "return"
    BY <1>3 DEF WakeupDone
  <2>3. SliceInv'
    BY <1>0, <2>2 DEF SliceInv, threadVars
  <2> QED
    BY <1>0, <2>1, <2>2, <2>3 DEF TypeInv, TypeOK, SchedTypeOK, SemaTypeOK, PcTypeOK,
       PlacesOK, PlaceOK, LockTypeOK, IntrTypeOK, threadVars, semaVars
<1>4. CASE IntrReturn
  <2>1. /\ UNCHANGED <<sleepVars, semaVars, holder, cond_waiters, pc, ticks>>
        /\ intr = "return" /\ intr' = "none" /\ yield_on_return' = FALSE
    BY <1>4 DEF IntrReturn
  <2>2. SchedTypeOK' /\ thread_ticks' < TIME_SLICE
    <3>1. CASE yield_on_return
      <4>1. SchedTypeOK' /\ thread_ticks' = 0
        BY <1>0, <1>4, <3>1, YieldTypeOK DEF IntrReturn
      <4> QED
        BY <4>1
    <3>2. CASE ~yield_on_return
      <4>1. UNCHANGED threadVars
        BY <1>4, <3>2 DEF IntrReturn
      <4>2. ~(thread_ticks >= TIME_SLICE)
        BY <1>0, <2>1, <3>2 DEF SliceInv
      <4> QED
        BY <1>0, <4>1, <4>2 DEF SchedTypeOK, threadVars
    <3> QED
      BY <3>1, <3>2
  <2>3. SliceInv'
    BY <2>1, <2>2 DEF SliceInv
  <2>4. IntrTypeOK'
    BY <1>0, <2>1 DEF IntrTypeOK
  <2> QED
    BY <1>0, <2>1, <2>2, <2>3, <2>4 DEF TypeInv, TypeOK, SleepTypeOK, SemaTypeOK,
       PcTypeOK, PlacesOK, PlaceOK, LockTypeOK, sleepVars, semaVars
<1> QED
  BY <1>1, <1>2, <1>3, <1>4 DEF TimerStep

LEMMA TypeStep == TypeInv /\ [Next]_vars => TypeInv'
PROOF
<1> SUFFICES ASSUME TypeInv, [Next]_vars PROVE TypeInv'
  OBVIOUS
<1>1. CASE UNCHANGED vars
  BY <1>1 DEF vars, threadVars, sleepVars, semaVars, intrVars, TypeInv, TypeOK,
     SchedTypeOK, SleepTypeOK, SemaTypeOK, PcTypeOK, PlacesOK, PlaceOK, LockTypeOK,
     IntrTypeOK, SliceInv
<1> QED
  BY <1>1, SchedulerTypeOK, SemaTypeStep, LockTypeStep, CondTypeStep, SleepTypeStep,
     TimerTypeStep DEF Next

(***************************************************************************)
(* Every variable of the kernel's threads keeps its type, and no thread is *)
(* seen running beyond its time slice (thread_tick(), intr_handler()).     *)
(***************************************************************************)
THEOREM TypeCorrect == Spec => [](TypeOK /\ SliceInv)
PROOF
<1>1. Init => TypeInv
  BY TypeInit
<1>2. TypeInv /\ [Next]_vars => TypeInv'
  BY TypeStep
<1>3. TypeInv => TypeOK /\ SliceInv
  BY DEF TypeInv
<1> QED
  BY <1>1, <1>2, <1>3, PTL DEF Spec

-----------------------------------------------------------------------------
(***************************************************************************)
(* One list_elem per thread suffices.  QueueInv is inductive on top of     *)
(* TypeInv.                                                                *)
(***************************************************************************)

(* A context switch: the head of the run queue, or idle, becomes RUNNING. *)
LEMMA ScheduleQueue ==
  ASSUME SchedTypeOK, NEW st \in [Threads -> Statuses], NEW rl \in Seq(Threads),
         IsInjective(rl),
         \A t \in Threads : t \in Range(rl) <=> st[t] = "READY" /\ t # Idle,
         \A t \in Threads : st[t] # "RUNNING",
         Schedule(st, rl)
  PROVE  /\ ReadyInv'
         /\ current' \in Threads
         /\ \A t \in Threads : status'[t] = "RUNNING" <=> t = current'
         /\ \A t \in Threads \ {current'} : status'[t] = st[t]
         /\ current' # Idle => st[current'] = "READY"
PROOF
<1> USE ThreadsAssumption
<1>1. CASE rl = <<>>
  <2>1. current' = Idle /\ ready_list' = <<>> /\ status' = [st EXCEPT ![Idle] = "RUNNING"]
    BY <1>1 DEF Schedule
  <2>2. Range(<<>>) = {} /\ IsInjective(<<>>)
    BY DEF Range, IsInjective
  <2> QED
    BY <1>1, <2>1, <2>2 DEF ReadyInv
<1>2. CASE rl # <<>>
  <2>1. /\ current' = Head(rl) /\ ready_list' = Tail(rl)
        /\ status' = [st EXCEPT ![Head(rl)] = "RUNNING"]
    BY <1>2 DEF Schedule
  <2>2. /\ Head(rl) \in Threads /\ Head(rl) \in Range(rl)
        /\ Range(rl) = Range(Tail(rl)) \cup {Head(rl)}
        /\ IsInjective(Tail(rl)) /\ Head(rl) \notin Range(Tail(rl))
    BY <1>2, HeadTailRange
  <2>3. st[Head(rl)] = "READY" /\ Head(rl) # Idle
    BY <2>2
  <2> QED
    BY <2>1, <2>2, <2>3 DEF ReadyInv
<1> QED
  BY <1>1, <1>2

LEMMA BlockQueue ==
  ASSUME SchedTypeOK, ReadyInv, RunningInv, Block
  PROVE  /\ ReadyInv'
         /\ current' \in Threads
         /\ \A t \in Threads : status'[t] = "RUNNING" <=> t = current'
         /\ \A t \in Threads \ {current'} :
              status'[t] = IF t = current THEN "BLOCKED" ELSE status[t]
         /\ current' # Idle => current' # current /\ status[current'] = "READY"
PROOF
<1> DEFINE st == [status EXCEPT ![current] = "BLOCKED"]
<1>1. /\ st \in [Threads -> Statuses] /\ ready_list \in Seq(Threads)
      /\ current \in Threads
      /\ \A t \in Threads : st[t] = IF t = current THEN "BLOCKED" ELSE status[t]
  BY DEF SchedTypeOK, Statuses
<1>2. status[current] = "RUNNING" /\ \A t \in Threads : status[t] = "RUNNING" => t = current
  BY <1>1 DEF RunningInv
<1>3. /\ IsInjective(ready_list)
      /\ \A t \in Threads : t \in Range(ready_list) <=> st[t] = "READY" /\ t # Idle
      /\ \A t \in Threads : st[t] # "RUNNING"
  BY <1>1, <1>2 DEF ReadyInv
<1>4. Schedule(st, ready_list)
  BY DEF Block
<1> HIDE DEF st
<1>5. /\ ReadyInv'
      /\ current' \in Threads
      /\ \A t \in Threads : status'[t] = "RUNNING" <=> t = current'
      /\ \A t \in Threads \ {current'} : status'[t] = st[t]
      /\ current' # Idle => st[current'] = "READY"
  BY <1>1, <1>3, <1>4, ScheduleQueue
<1> QED
  BY <1>1, <1>5

LEMMA YieldQueue ==
  ASSUME SchedTypeOK, ReadyInv, RunningInv, Yield
  PROVE  /\ ReadyInv'
         /\ current' \in Threads
         /\ \A t \in Threads : status'[t] = "RUNNING" <=> t = current'
         /\ \A t \in Threads \ {current'} :
              status'[t] = IF t = current THEN "READY" ELSE status[t]
         /\ current' # Idle => current' = current \/ status[current'] = "READY"
PROOF
<1> DEFINE st == [status EXCEPT ![current] = "READY"]
           rl == IF current = Idle THEN ready_list ELSE InsertReady(current)
<1>1. /\ st \in [Threads -> Statuses] /\ current \in Threads /\ ready_list \in Seq(Threads)
      /\ \A t \in Threads : st[t] = IF t = current THEN "READY" ELSE status[t]
  BY DEF SchedTypeOK, Statuses
<1>2. status[current] = "RUNNING" /\ \A t \in Threads : status[t] = "RUNNING" => t = current
  BY <1>1 DEF RunningInv
<1>3. current \notin Range(ready_list)
  BY <1>1, <1>2 DEF ReadyInv
<1>4. /\ rl \in Seq(Threads) /\ IsInjective(rl)
      /\ Range(rl) = IF current = Idle THEN Range(ready_list)
                                       ELSE Range(ready_list) \cup {current}
  BY <1>1, <1>3, InsertOrderedRange DEF ReadyInv, InsertReady
<1>5. Schedule(st, rl)
  BY DEF Yield
<1> HIDE DEF st, rl
<1>6. /\ \A t \in Threads : t \in Range(rl) <=> st[t] = "READY" /\ t # Idle
      /\ \A t \in Threads : st[t] # "RUNNING"
  BY <1>1, <1>2, <1>4 DEF ReadyInv
<1>7. /\ ReadyInv'
      /\ current' \in Threads
      /\ \A t \in Threads : status'[t] = "RUNNING" <=> t = current'
      /\ \A t \in Threads \ {current'} : status'[t] = st[t]
      /\ current' # Idle => st[current'] = "READY"
  BY <1>1, <1>4, <1>5, <1>6, ScheduleQueue
<1> QED
  BY <1>1, <1>7

LEMMA UnblockQueue ==
  ASSUME SchedTypeOK, ReadyInv, RunningInv, NEW t \in Threads, t # Idle,
         status[t] = "BLOCKED", Unblock(t)
  PROVE  /\ ReadyInv'
         /\ current' = current
         /\ \A u \in Threads : status'[u] = IF u = t THEN "READY" ELSE status[u]
         /\ \A u \in Threads : status'[u] = "RUNNING" <=> u = current'
PROOF
<1>1. /\ current' = current
      /\ \A u \in Threads : status'[u] = IF u = t THEN "READY" ELSE status[u]
  BY DEF Unblock, SchedTypeOK
<1>2. t \notin Range(ready_list)
  BY DEF ReadyInv
<1>3. IsInjective(ready_list') /\ Range(ready_list') = Range(ready_list) \cup {t}
  BY <1>2, InsertOrderedRange DEF Unblock, InsertReady, ReadyInv, SchedTypeOK
<1> QED
  BY <1>1, <1>3 DEF ReadyInv, RunningInv

(* sema_up() moves the first waiter, if any, to the run queue. *)
LEMMA UpQueue ==
  ASSUME TypeOK, QueueInv, NEW s \in SemaIds, Up(s)
  PROVE  /\ ReadyInv' /\ current' = current
         /\ \A u \in Threads : status'[u] = "RUNNING" <=> u = current'
         /\ \A u \in Threads :
              \/ status'[u] = status[u]
              \/ status[u] = "BLOCKED" /\ status'[u] = "READY" /\ u # Idle
                 /\ pc[u].at = "down" /\ pc[u].on = s
         /\ \A r \in SemaIds : IsInjective(waiters'[r])
         /\ \A r \in SemaIds, u \in Threads :
              u \in Range(waiters'[r]) <=>
                status'[u] = "BLOCKED" /\ pc[u].at = "down" /\ pc[u].on = r
PROOF
<1> USE ThreadsAssumption
<1>0. SchedTypeOK /\ SemaTypeOK /\ ReadyInv /\ WaitersInv /\ RunningInv
  BY DEF TypeOK, QueueInv
<1>1. CASE waiters[s] = <<>>
  <2>1. UNCHANGED <<waiters, threadVars>>
    BY <1>1 DEF Up
  <2> QED
    BY <1>0, <2>1 DEF threadVars, ReadyInv, RunningInv, WaitersInv
<1>2. CASE waiters[s] # <<>>
  <2> DEFINE t == Head(waiters[s])
  <2>1. /\ waiters[s] \in Seq(Threads) /\ IsInjective(waiters[s])
        /\ waiters' = [waiters EXCEPT ![s] = Tail(@)] /\ Unblock(t)
    BY <1>0, <1>2 DEF Up, SemaTypeOK, WaitersInv
  <2>2. /\ t \in Threads /\ t \in Range(waiters[s])
        /\ Range(waiters[s]) = Range(Tail(waiters[s])) \cup {t}
        /\ IsInjective(Tail(waiters[s])) /\ t \notin Range(Tail(waiters[s]))
    BY <1>2, <2>1, HeadTailRange
  <2> HIDE DEF t
  <2>3. status[t] = "BLOCKED" /\ pc[t].at = "down" /\ pc[t].on = s /\ t # Idle
    BY <1>0, <2>2 DEF WaitersInv, RunningInv
  <2>4. /\ ReadyInv' /\ current' = current
        /\ \A u \in Threads : status'[u] = IF u = t THEN "READY" ELSE status[u]
        /\ \A u \in Threads : status'[u] = "RUNNING" <=> u = current'
    BY <1>0, <2>1, <2>2, <2>3, UnblockQueue
  <2>5. \A r \in SemaIds : waiters'[r] = IF r = s THEN Tail(waiters[s]) ELSE waiters[r]
    BY <1>0, <2>1 DEF SemaTypeOK
  <2>6. \A r \in SemaIds : IsInjective(waiters'[r])
    BY <1>0, <2>2, <2>5 DEF WaitersInv
  <2>7. ASSUME NEW r \in SemaIds, NEW u \in Threads
        PROVE  u \in Range(waiters'[r]) <=>
                 status'[u] = "BLOCKED" /\ pc[u].at = "down" /\ pc[u].on = r
    <3>1. CASE r = s
      BY <1>0, <2>2, <2>3, <2>4, <2>5, <3>1 DEF WaitersInv
    <3>2. CASE r # s
      BY <1>0, <2>2, <2>3, <2>4, <2>5, <3>2 DEF WaitersInv
    <3> QED
      BY <3>1, <3>2
  <2> QED
    BY <2>3, <2>4, <2>6, <2>7
<1> QED
  BY <1>1, <1>2

(* The running thread moves to another place and nothing is queued. *)
LEMMA MoveQueue ==
  ASSUME TypeOK, QueueInv, UNCHANGED <<current, status, ready_list, sleep_list, waiters>>,
         \A t \in Threads \ {current} : pc'[t] = pc[t],
         current # Idle => pc'[current].at # "hlt",
         current = Idle => pc'[current].at \in {"run", "hlt"}
  PROVE  QueueInv'
PROOF
<1> USE ThreadsAssumption
<1>0. current \in Threads /\ status[current] = "RUNNING"
  BY DEF TypeOK, SchedTypeOK, QueueInv, RunningInv
<1>1. ReadyInv'
  BY DEF QueueInv, ReadyInv
<1>2. WaitersInv'
  BY <1>0 DEF QueueInv, WaitersInv
<1>3. SleepInv'
  BY <1>0 DEF QueueInv, SleepInv
<1>4. RunningInv'
  BY <1>0 DEF QueueInv, RunningInv
<1> QED
  BY <1>1, <1>2, <1>3, <1>4 DEF QueueInv

(* sema_up(s), after which the running thread moves on. *)
LEMMA UpMoveQueue ==
  ASSUME TypeOK, QueueInv, NEW s \in SemaIds, Up(s), UNCHANGED sleep_list,
         \A t \in Threads \ {current} : pc'[t] = pc[t],
         current # Idle => pc'[current].at # "hlt",
         current = Idle => pc'[current].at \in {"run", "hlt"}
  PROVE  QueueInv'
PROOF
<1> USE ThreadsAssumption
<1>0. current \in Threads /\ status[current] = "RUNNING"
  BY DEF TypeOK, SchedTypeOK, QueueInv, RunningInv
<1>1. /\ ReadyInv' /\ current' = current
      /\ \A u \in Threads : status'[u] = "RUNNING" <=> u = current'
      /\ \A u \in Threads :
           \/ status'[u] = status[u]
           \/ status[u] = "BLOCKED" /\ status'[u] = "READY" /\ u # Idle
              /\ pc[u].at = "down" /\ pc[u].on = s
      /\ \A r \in SemaIds : IsInjective(waiters'[r])
      /\ \A r \in SemaIds, u \in Threads :
           u \in Range(waiters'[r]) <=>
             status'[u] = "BLOCKED" /\ pc[u].at = "down" /\ pc[u].on = r
  BY UpQueue
<1>2. WaitersInv'
  BY <1>0, <1>1 DEF WaitersInv
<1>3. SleepInv'
  <2>1. ASSUME NEW u \in Threads
        PROVE  u \in Range(sleep_list') <=>
                 status'[u] = "BLOCKED" /\ pc'[u].at = "run" /\ u # Idle
    <3>1. CASE u = current
      BY <1>0, <1>1, <3>1 DEF QueueInv, SleepInv
    <3>2. CASE u # current
      BY <1>0, <1>1, <3>2 DEF QueueInv, SleepInv
    <3> QED
      BY <3>1, <3>2
  <2> QED
    BY <2>1 DEF QueueInv, SleepInv
<1>4. RunningInv'
  BY <1>0, <1>1 DEF QueueInv, RunningInv
<1> QED
  BY <1>1, <1>2, <1>3, <1>4 DEF QueueInv

(* sema_down(s): the running thread is queued or moves on. *)
LEMMA DownQueue ==
  ASSUME TypeOK, QueueInv, NEW s \in SemaIds, NEW lock \in Locks \cup {NULL},
         current # Idle, Down(s, lock), UNCHANGED sleep_list
  PROVE  QueueInv'
PROOF
<1> USE ThreadsAssumption
<1>0. /\ SchedTypeOK /\ SemaTypeOK /\ ReadyInv /\ WaitersInv /\ SleepInv /\ RunningInv
      /\ current \in Threads /\ status[current] = "RUNNING" /\ PcTypeOK
  BY DEF TypeOK, SchedTypeOK, QueueInv, RunningInv
<1>1. CASE value[s] = 0
  <2>1. /\ waiters' = [waiters EXCEPT ![s] = Append(@, current)]
        /\ Goto(At("down", s, lock)) /\ Block
    BY <1>1 DEF Down
  <2>2. /\ ReadyInv' /\ current' \in Threads
        /\ \A t \in Threads : status'[t] = "RUNNING" <=> t = current'
        /\ \A t \in Threads \ {current'} :
             status'[t] = IF t = current THEN "BLOCKED" ELSE status[t]
        /\ current' # Idle => current' # current /\ status[current'] = "READY"
    BY <1>0, <2>1, BlockQueue
  <2>3. /\ pc'[current] = At("down", s, lock)
        /\ \A t \in Threads \ {current} : pc'[t] = pc[t]
    BY <1>0, <2>1 DEF Goto, PcTypeOK
  <2>4. pc'[current].at = "down" /\ pc'[current].on = s
    BY <2>3 DEF At
  <2>5. /\ waiters[s] \in Seq(Threads) /\ current \notin Range(waiters[s])
        /\ \A r \in SemaIds :
             waiters'[r] = IF r = s THEN Append(waiters[s], current) ELSE waiters[r]
    BY <1>0, <2>1 DEF SemaTypeOK, WaitersInv
  <2>6. /\ Range(Append(waiters[s], current)) = Range(waiters[s]) \cup {current}
        /\ IsInjective(Append(waiters[s], current))
    BY <1>0, <2>5, AppendRange DEF WaitersInv
  <2>7. ASSUME NEW r \in SemaIds, NEW u \in Threads
        PROVE  u \in Range(waiters'[r]) <=>
                 status'[u] = "BLOCKED" /\ pc'[u].at = "down" /\ pc'[u].on = r
    <3>1. CASE u = current
      <4>1. u \in Range(waiters[r]) => FALSE
        BY <1>0, <3>1 DEF WaitersInv
      <4> QED
        BY <1>0, <2>2, <2>4, <2>5, <2>6, <3>1, <4>1
    <3>2. CASE u # current
      <4>1. u \in Range(waiters'[r]) <=> u \in Range(waiters[r])
        BY <2>5, <2>6, <3>2
      <4>2. u = Idle => pc[u].at # "down"
        BY <1>0 DEF RunningInv
      <4> QED
        BY <1>0, <2>2, <2>3, <3>2, <4>1, <4>2 DEF WaitersInv
    <3> QED
      BY <3>1, <3>2
  <2>8. WaitersInv'
    BY <1>0, <2>5, <2>6, <2>7 DEF WaitersInv
  <2>9. SleepInv'
    BY <1>0, <2>2, <2>3, <2>4 DEF SleepInv
  <2>10. RunningInv'
    BY <1>0, <2>2, <2>3, <2>4 DEF RunningInv
  <2> QED
    BY <2>2, <2>8, <2>9, <2>10 DEF QueueInv
<1>2. CASE value[s] # 0
  <2>1. Goto(AfterDown(s, lock)) /\ UNCHANGED <<waiters, threadVars>>
    BY <1>2 DEF Down
  <2>2. AfterDown(s, lock).at # "hlt"
    <3>1. AfterDown(s, lock) \in {At("own", s, NULL), At("reacquire", NULL, lock), Run}
      BY DEF AfterDown, SemaIds
    <3> QED
      BY <3>1 DEF At, Run
  <2>3. /\ pc'[current].at # "hlt"
        /\ \A t \in Threads \ {current} : pc'[t] = pc[t]
    BY <1>0, <2>1, <2>2 DEF Goto, PcTypeOK
  <2> QED
    BY <2>1, <2>3, MoveQueue DEF threadVars
<1> QED
  BY <1>1, <1>2

LEMMA QueueInit == Init => QueueInv
PROOF
<1> SUFFICES ASSUME Init PROVE QueueInv
  OBVIOUS
<1> USE ThreadsAssumption
<1>1. Range(<<>>) = {} /\ IsInjective(<<>>)
  BY DEF Range, IsInjective
<1>2. ReadyInv
  BY <1>1 DEF Init, ReadyInv
<1>3. WaitersInv
  BY <1>1 DEF Init, WaitersInv, Run, At
<1>4. SleepInv
  BY <1>1 DEF Init, SleepInv, Run, At
<1>5. RunningInv
  BY DEF Init, RunningInv, Run, At
<1> QED
  BY <1>2, <1>3, <1>4, <1>5 DEF QueueInv

(* The running thread's place after a Goto, as MoveQueue wants it. *)
LEMMA GotoMove ==
  ASSUME PcTypeOK, current \in Threads, NEW r, Goto(r)
  PROVE  pc'[current] = r /\ \A t \in Threads \ {current} : pc'[t] = pc[t]
  BY DEF PcTypeOK, Goto

(* A thread inside a function of the kernel is not the idle thread. *)
LEMMA NotIdle ==
  ASSUME QueueInv, NEW place, place \notin {"run", "hlt"}, Running(place)
  PROVE  current # Idle
  BY DEF QueueInv, RunningInv, Running

LEMMA SchedulerQueueStep ==
  ASSUME TypeOK, QueueInv, SchedulerStep
  PROVE  QueueInv'
PROOF
<1> USE ThreadsAssumption
<1>0. /\ SchedTypeOK /\ SemaTypeOK /\ PcTypeOK
      /\ ReadyInv /\ WaitersInv /\ SleepInv /\ RunningInv
      /\ current \in Threads /\ status[current] = "RUNNING"
  BY DEF TypeOK, SchedTypeOK, QueueInv, RunningInv
<1>1. CASE ThreadYield
  <2>1. /\ ReadyInv' /\ current' \in Threads
        /\ \A t \in Threads : status'[t] = "RUNNING" <=> t = current'
        /\ \A t \in Threads \ {current'} :
             status'[t] = IF t = current THEN "READY" ELSE status[t]
        /\ current' # Idle => current' = current \/ status[current'] = "READY"
    BY <1>0, <1>1, YieldQueue DEF ThreadYield
  <2>2. UNCHANGED <<pc, waiters, sleep_list>> /\ pc[current].at = "run" /\ current # Idle
    BY <1>1 DEF ThreadYield, Calls, Running, semaVars, sleepVars
  <2>3. WaitersInv'
    BY <1>0, <2>1, <2>2 DEF WaitersInv, RunningInv
  <2>4. SleepInv'
    BY <1>0, <2>1, <2>2 DEF SleepInv
  <2>5. RunningInv'
    BY <1>0, <2>1, <2>2 DEF RunningInv
  <2> QED
    BY <2>1, <2>3, <2>4, <2>5 DEF QueueInv
<1>2. CASE ThreadDie
  <2> DEFINE new == IF current = Main THEN "DYING" ELSE "FREE"
             st == [status EXCEPT ![current] = new]
  <2>1. /\ st \in [Threads -> Statuses] /\ ready_list \in Seq(Threads)
        /\ \A t \in Threads : st[t] = IF t = current THEN new ELSE status[t]
    BY <1>0 DEF SchedTypeOK, Statuses
  <2>2. Schedule(st, ready_list) /\ UNCHANGED <<pc, waiters, sleep_list>>
    BY <1>2 DEF ThreadDie, semaVars, sleepVars
  <2>3. pc[current].at = "run" /\ current # Idle
    BY <1>2 DEF ThreadDie, Calls, Running
  <2> HIDE DEF st
  <2>4. /\ IsInjective(ready_list)
        /\ \A t \in Threads : t \in Range(ready_list) <=> st[t] = "READY" /\ t # Idle
        /\ \A t \in Threads : st[t] # "RUNNING"
    BY <1>0, <2>1 DEF ReadyInv, RunningInv
  <2>5. /\ ReadyInv' /\ current' \in Threads
        /\ \A t \in Threads : status'[t] = "RUNNING" <=> t = current'
        /\ \A t \in Threads \ {current'} : status'[t] = st[t]
        /\ current' # Idle => st[current'] = "READY"
    BY <1>0, <2>1, <2>2, <2>4, ScheduleQueue
  <2>6. WaitersInv'
    BY <1>0, <2>1, <2>2, <2>3, <2>5 DEF WaitersInv, RunningInv
  <2>7. SleepInv'
    BY <1>0, <2>1, <2>2, <2>3, <2>5 DEF SleepInv
  <2>8. RunningInv'
    BY <1>0, <2>1, <2>2, <2>3, <2>5 DEF RunningInv
  <2> QED
    BY <2>5, <2>6, <2>7, <2>8 DEF QueueInv
<1>3. CASE IdleBlock
  <2>1. /\ ReadyInv' /\ current' \in Threads
        /\ \A t \in Threads : status'[t] = "RUNNING" <=> t = current'
        /\ \A t \in Threads \ {current'} :
             status'[t] = IF t = current THEN "BLOCKED" ELSE status[t]
        /\ current' # Idle => current' # current /\ status[current'] = "READY"
    BY <1>0, <1>3, BlockQueue DEF IdleBlock
  <2>2. /\ current = Idle /\ UNCHANGED <<waiters, sleep_list>>
        /\ Goto(At("hlt", NULL, NULL))
    BY <1>3 DEF IdleBlock, semaVars, sleepVars
  <2>3. pc'[Idle].at = "hlt" /\ \A t \in Threads \ {Idle} : pc'[t] = pc[t]
    BY <1>0, <2>2, GotoMove DEF At
  <2>4. WaitersInv'
    BY <1>0, <2>1, <2>2, <2>3 DEF WaitersInv, RunningInv
  <2>5. SleepInv'
    BY <1>0, <2>1, <2>2, <2>3 DEF SleepInv
  <2>6. RunningInv'
    BY <1>0, <2>1, <2>2, <2>3 DEF RunningInv
  <2> QED
    BY <2>1, <2>4, <2>5, <2>6 DEF QueueInv
<1>4. ASSUME NEW prio \in Priorities, ThreadSetPriority(prio) PROVE QueueInv'
  <2>1. /\ UNCHANGED <<current, status, ready_list, sleep_list, waiters, pc>>
        /\ current # Idle
    BY <1>4 DEF ThreadSetPriority, Calls, semaVars, sleepVars
  <2>2. pc'[current].at # "hlt"
    BY <1>0, <2>1 DEF RunningInv
  <2> QED
    BY <2>1, <2>2, MoveQueue
<1>5. ASSUME NEW t \in Threads, NEW prio \in Priorities, ThreadCreate(t, prio)
      PROVE  QueueInv'
  <2>1. /\ status[t] = "FREE" /\ t # Idle /\ t # current
        /\ current' = current /\ waiters' = waiters /\ sleep_list' = sleep_list
        /\ \A u \in Threads : status'[u] = IF u = t THEN "READY" ELSE status[u]
        /\ \A u \in Threads : pc'[u] = IF u = t THEN Run ELSE pc[u]
    BY <1>0, <1>5 DEF ThreadCreate, RunningInv, SchedTypeOK, PcTypeOK, semaVars
  <2>2. t \notin Range(ready_list)
    BY <1>0, <2>1 DEF ReadyInv
  <2>3. IsInjective(ready_list') /\ Range(ready_list') = Range(ready_list) \cup {t}
    BY <1>0, <1>5, <2>2, InsertOrderedRange DEF ThreadCreate, ReadyInv, SchedTypeOK
  <2>4. Run.at = "run"
    BY DEF Run, At
  <2>5. ReadyInv'
    BY <1>0, <2>1, <2>3 DEF ReadyInv
  <2>6. WaitersInv'
    BY <1>0, <2>1, <2>4 DEF WaitersInv
  <2>7. SleepInv'
    BY <1>0, <2>1, <2>4 DEF SleepInv
  <2>8. RunningInv'
    BY <1>0, <2>1, <2>4 DEF RunningInv
  <2> QED
    BY <2>5, <2>6, <2>7, <2>8 DEF QueueInv
<1> QED
  BY <1>1, <1>2, <1>3, <1>4, <1>5 DEF SchedulerStep

LEMMA SyncQueueStep ==
  ASSUME TypeOK, QueueInv, SemaStep \/ LockStep
  PROVE  QueueInv'
PROOF
<1> USE ThreadsAssumption
<1>0. /\ SchedTypeOK /\ SemaTypeOK /\ PcTypeOK /\ PlacesOK /\ RunningInv
      /\ current \in Threads /\ status[current] = "RUNNING"
      /\ Run.at = "run"
  BY DEF TypeOK, SchedTypeOK, QueueInv, RunningInv, Run, At
<1>1. CASE ResumeDown
  <2>1. pc[current].on \in SemaIds /\ pc[current].lk \in Locks \cup {NULL}
    BY <1>0, <1>1 DEF ResumeDown, Running, PlacesOK, PlaceOK, PcTypeOK
  <2>2. current # Idle
    BY <1>1, NotIdle DEF ResumeDown
  <2> QED
    BY <1>1, <2>1, <2>2, DownQueue DEF ResumeDown, sleepVars
<1>2. ASSUME NEW s \in Semas, SemaDown(s) PROVE QueueInv'
  BY <1>2, DownQueue DEF SemaDown, Calls, sleepVars, SemaIds
<1>3. ASSUME NEW s \in Semas, SemaTryDown(s) PROVE QueueInv'
  <2>1. /\ UNCHANGED <<current, status, ready_list, sleep_list, waiters, pc>>
        /\ current # Idle
    BY <1>3 DEF SemaTryDown, Calls, threadVars, sleepVars
  <2>2. pc'[current].at # "hlt"
    BY <1>0, <2>1 DEF RunningInv
  <2> QED
    BY <2>1, <2>2, MoveQueue
<1>4. ASSUME NEW s \in Semas, SemaUp(s) PROVE QueueInv'
  <2>1. UNCHANGED <<sleep_list, pc>> /\ current # Idle /\ Up(s) /\ s \in SemaIds
    BY <1>4 DEF SemaUp, Calls, sleepVars, SemaIds
  <2>2. pc'[current].at # "hlt"
    BY <1>0, <2>1 DEF RunningInv
  <2> QED
    BY <2>1, <2>2, UpMoveQueue
<1>5. ASSUME NEW s \in Semas, DeviceInterrupt(s) PROVE QueueInv'
  <2>1. sleep_list' = sleep_list /\ Up(s) /\ s \in SemaIds
    BY <1>5 DEF DeviceInterrupt, sleepVars, SemaIds
  <2>2. \A t \in Threads : pc'[t] = pc[t] \/ (t = Idle /\ t = current /\ pc'[t] = Run)
    BY <1>0, <1>5, EndHltTypeOK DEF DeviceInterrupt
  <2>3. /\ \A t \in Threads \ {current} : pc'[t] = pc[t]
        /\ current # Idle => pc'[current].at # "hlt"
        /\ current = Idle => pc'[current].at \in {"run", "hlt"}
    BY <1>0, <2>2 DEF RunningInv
  <2> QED
    BY <2>1, <2>3, UpMoveQueue
<1>6. CASE SetHolder
  <2>1. UNCHANGED <<current, status, ready_list, sleep_list, waiters>> /\ Goto(Run)
    BY <1>6 DEF SetHolder, threadVars, sleepVars, semaVars
  <2>2. current # Idle
    BY <1>6, NotIdle DEF SetHolder
  <2> QED
    BY <1>0, <2>1, <2>2, GotoMove, MoveQueue
<1>7. CASE LockUp
  <2>1. sleep_list' = sleep_list /\ Goto(Run) /\ Up(pc[current].on)
    BY <1>7 DEF LockUp, sleepVars
  <2>2. current # Idle
    BY <1>7, NotIdle DEF LockUp
  <2>3. pc[current].on \in SemaIds
    BY <1>0, <1>7 DEF LockUp, Running, PlacesOK, PlaceOK, SemaIds
  <2> QED
    BY <1>0, <2>1, <2>2, <2>3, GotoMove, UpMoveQueue
<1>8. ASSUME NEW l \in Locks, LockAcquire(l) PROVE QueueInv'
  BY <1>8, DownQueue DEF LockAcquire, Calls, sleepVars, SemaIds
<1>9. ASSUME NEW l \in Locks, LockTryAcquire(l) PROVE QueueInv'
  <2>1. /\ UNCHANGED <<current, status, ready_list, sleep_list, waiters>>
        /\ Goto(At("own", l, NULL)) /\ current # Idle
    BY <1>9 DEF LockTryAcquire, Calls, threadVars, sleepVars
  <2>2. At("own", l, NULL).at = "own"
    BY DEF At
  <2> QED
    BY <1>0, <2>1, <2>2, GotoMove, MoveQueue
<1>10. ASSUME NEW l \in Locks, LockRelease(l) PROVE QueueInv'
  <2>1. /\ UNCHANGED <<current, status, ready_list, sleep_list, waiters>>
        /\ Goto(At("up", l, NULL)) /\ current # Idle
    BY <1>10 DEF LockRelease, Calls, threadVars, sleepVars, semaVars
  <2>2. At("up", l, NULL).at = "up"
    BY DEF At
  <2> QED
    BY <1>0, <2>1, <2>2, GotoMove, MoveQueue
<1> QED
  BY <1>1, <1>2, <1>3, <1>4, <1>5, <1>6, <1>7, <1>8, <1>9, <1>10 DEF SemaStep, LockStep

(* Nobody waits on the semaphore on the running thread's own stack. *)
LEMMA OwnSemaphoreFree ==
  ASSUME TypeOK, QueueInv
  PROVE  waiters[current] = <<>>
PROOF
<1> USE ThreadsAssumption
<1>0. /\ SemaTypeOK /\ PlacesOK /\ WaitersInv
      /\ current \in Threads /\ status[current] = "RUNNING"
  BY DEF TypeOK, SchedTypeOK, QueueInv, RunningInv
<1>1. waiters[current] \in Seq(Threads)
  BY <1>0 DEF SemaTypeOK, SemaIds
<1>2. ASSUME NEW t \in Threads, t \in Range(waiters[current]) PROVE FALSE
  <2>1. status[t] = "BLOCKED" /\ pc[t].at = "down" /\ pc[t].on = current
    BY <1>0, <1>2 DEF WaitersInv, SemaIds
  <2>2. pc[t].on = t
    BY <1>0, <2>1 DEF PlacesOK, PlaceOK
  <2> QED
    BY <1>0, <2>1, <2>2
<1> QED
  BY <1>1, <1>2, HeadTailRange

LEMMA CondQueueStep ==
  ASSUME TypeOK, QueueInv, CondStep
  PROVE  QueueInv'
PROOF
<1> USE ThreadsAssumption
<1>0. /\ SchedTypeOK /\ SemaTypeOK /\ PcTypeOK /\ PlacesOK /\ LockTypeOK
      /\ RunningInv /\ WaitersInv
      /\ current \in Threads /\ status[current] = "RUNNING"
      /\ Run.at = "run"
  BY DEF TypeOK, SchedTypeOK, QueueInv, RunningInv, Run, At
<1>1. CASE CondUp
  <2>1. /\ sleep_list' = sleep_list /\ Up(pc[current].lk)
        /\ Goto(At("cond_down", NULL, pc[current].lk))
    BY <1>1 DEF CondUp, sleepVars
  <2>2. current # Idle
    BY <1>1, NotIdle DEF CondUp
  <2>3. pc[current].lk \in SemaIds
    BY <1>0, <1>1 DEF CondUp, Running, PlacesOK, PlaceOK, SemaIds
  <2>4. At("cond_down", NULL, pc[current].lk).at = "cond_down"
    BY DEF At
  <2> QED
    BY <1>0, <2>1, <2>2, <2>3, <2>4, GotoMove, UpMoveQueue
<1>2. CASE CondDown
  <2>1. current \in SemaIds /\ pc[current].lk \in Locks \cup {NULL}
    BY <1>0 DEF PcTypeOK, SemaIds
  <2>2. current # Idle
    BY <1>2, NotIdle DEF CondDown
  <2> QED
    BY <1>2, <2>1, <2>2, DownQueue DEF CondDown, sleepVars
<1>3. CASE CondReacquire
  <2>1. pc[current].lk \in SemaIds /\ pc[current].lk \in Locks \cup {NULL}
    BY <1>0, <1>3 DEF CondReacquire, Running, PlacesOK, PlaceOK, SemaIds
  <2>2. current # Idle
    BY <1>3, NotIdle DEF CondReacquire
  <2> QED
    BY <1>3, <2>1, <2>2, DownQueue DEF CondReacquire, sleepVars
<1>4. CASE BroadcastNext
  <2>1. pc[current].on \in Conds /\ sleep_list' = sleep_list
    BY <1>0, <1>4 DEF BroadcastNext, Running, PlacesOK, PlaceOK, sleepVars
  <2>2. current # Idle
    BY <1>4, NotIdle DEF BroadcastNext
  <2>3. CASE SignalOne(pc[current].on) /\ UNCHANGED pc
    <3>1. /\ Up(Head(cond_waiters[pc[current].on]))
          /\ Head(cond_waiters[pc[current].on]) \in SemaIds
      BY <1>0, <2>1, <2>3, HeadTailProperties DEF SignalOne, LockTypeOK, SemaIds
    <3>2. pc'[current].at # "hlt"
      BY <1>0, <2>2, <2>3 DEF RunningInv
    <3> QED
      BY <2>1, <2>2, <2>3, <3>1, <3>2, UpMoveQueue
  <2>4. CASE Goto(Run) /\ UNCHANGED <<threadVars, semaVars, cond_waiters>>
    BY <1>0, <2>1, <2>2, <2>4, GotoMove, MoveQueue DEF threadVars, semaVars
  <2> QED
    BY <1>4, <2>3, <2>4 DEF BroadcastNext
<1>5. ASSUME NEW c \in Conds, CondWait(c) PROVE QueueInv'
  <2>2. waiters[current] = <<>>
    BY OwnSemaphoreFree
  <2>3. waiters' = waiters
    BY <1>0, <1>5, <2>2 DEF CondWait, SemaTypeOK
  <2>4. /\ UNCHANGED <<current, status, ready_list, sleep_list>> /\ current # Idle
        /\ Goto(At("cond_up", c, CondLock[c]))
    BY <1>5 DEF CondWait, Calls, threadVars, sleepVars
  <2>5. At("cond_up", c, CondLock[c]).at = "cond_up"
    BY DEF At
  <2> QED
    BY <1>0, <2>3, <2>4, <2>5, GotoMove, MoveQueue
<1>6. ASSUME NEW c \in Conds, CondSignal(c) PROVE QueueInv'
  <2>1. /\ sleep_list' = sleep_list /\ pc' = pc /\ current # Idle
        /\ Up(Head(cond_waiters[c])) /\ Head(cond_waiters[c]) \in SemaIds
    BY <1>0, <1>6, HeadTailProperties DEF CondSignal, Calls, SignalOne, LockTypeOK,
       SemaIds, sleepVars
  <2>2. pc'[current].at # "hlt"
    BY <1>0, <2>1 DEF RunningInv
  <2> QED
    BY <2>1, <2>2, UpMoveQueue
<1>7. ASSUME NEW c \in Conds, CondBroadcast(c) PROVE QueueInv'
  <2>1. /\ UNCHANGED <<current, status, ready_list, sleep_list, waiters>>
        /\ Goto(At("broadcast", c, NULL)) /\ current # Idle
    BY <1>7 DEF CondBroadcast, Calls, threadVars, sleepVars, semaVars
  <2>2. At("broadcast", c, NULL).at = "broadcast"
    BY DEF At
  <2> QED
    BY <1>0, <2>1, <2>2, GotoMove, MoveQueue
<1> QED
  BY <1>1, <1>2, <1>3, <1>4, <1>5, <1>6, <1>7 DEF CondStep

LEMMA SleepQueueStep ==
  ASSUME TypeOK, QueueInv, SleepStep
  PROVE  QueueInv'
PROOF
<1> USE ThreadsAssumption
<1>0. /\ SchedTypeOK /\ SleepTypeOK /\ PcTypeOK
      /\ ReadyInv /\ WaitersInv /\ SleepInv /\ RunningInv
      /\ current \in Threads /\ status[current] = "RUNNING"
      /\ Run.at = "run"
  BY DEF TypeOK, SchedTypeOK, QueueInv, RunningInv, Run, At
<1>1. \A place \in {"compare", "store", "sleep"} : At(place, NULL, NULL).at # "hlt"
  BY DEF At
<1>2. CASE CompareCallTime
  <2>1. /\ UNCHANGED <<current, status, ready_list, sleep_list, waiters>>
        /\ Goto(At(IF wakeup_time[current] < wakeup_call_time THEN "store" ELSE "sleep",
                   NULL, NULL))
    BY <1>2 DEF CompareCallTime, threadVars, sleepVars, semaVars
  <2>2. current # Idle
    BY <1>2, NotIdle DEF CompareCallTime
  <2>3. pc'[current].at # "hlt" /\ \A t \in Threads \ {current} : pc'[t] = pc[t]
    BY <1>0, <1>1, <2>1, GotoMove
  <2> QED
    BY <2>1, <2>2, <2>3, MoveQueue
<1>3. CASE StoreCallTime
  <2>1. /\ UNCHANGED <<current, status, ready_list, sleep_list, waiters>>
        /\ Goto(At("sleep", NULL, NULL))
    BY <1>3 DEF StoreCallTime, threadVars, semaVars
  <2>2. current # Idle
    BY <1>3, NotIdle DEF StoreCallTime
  <2> QED
    BY <1>0, <1>1, <2>1, <2>2, GotoMove, MoveQueue
<1>4. CASE ThreadSleep
  <2>1. /\ ReadyInv' /\ current' \in Threads
        /\ \A t \in Threads : status'[t] = "RUNNING" <=> t = current'
        /\ \A t \in Threads \ {current'} :
             status'[t] = IF t = current THEN "BLOCKED" ELSE status[t]
        /\ current' # Idle => current' # current /\ status[current'] = "READY"
    BY <1>0, <1>4, BlockQueue DEF ThreadSleep
  <2>2. waiters' = waiters /\ Goto(Run) /\ pc[current].at = "sleep"
    BY <1>4 DEF ThreadSleep, semaVars, Running
  <2>3. current # Idle
    BY <1>4, NotIdle DEF ThreadSleep
  <2>4. pc'[current].at = "run" /\ \A t \in Threads \ {current} : pc'[t] = pc[t]
    BY <1>0, <2>2, GotoMove
  <2>5. current \notin Range(sleep_list)
    BY <1>0 DEF SleepInv
  <2>6. IsInjective(sleep_list') /\ Range(sleep_list') = Range(sleep_list) \cup {current}
    BY <1>0, <1>4, <2>5, InsertOrderedRange DEF ThreadSleep, SleepInv, SleepTypeOK
  <2>7. WaitersInv'
    BY <1>0, <2>1, <2>2, <2>3, <2>4 DEF WaitersInv, RunningInv
  <2>8. SleepInv'
    <3>1. ASSUME NEW u \in Threads
          PROVE  u \in Range(sleep_list') <=>
                   status'[u] = "BLOCKED" /\ pc'[u].at = "run" /\ u # Idle
      <4>1. CASE u = current
        BY <1>0, <2>1, <2>3, <2>4, <2>6, <4>1
      <4>2. CASE u # current
        BY <1>0, <2>1, <2>3, <2>4, <2>6, <4>2 DEF SleepInv
      <4> QED
        BY <4>1, <4>2
    <3> QED
      BY <2>6, <3>1 DEF SleepInv
  <2>9. RunningInv'
    BY <1>0, <2>1, <2>3, <2>4 DEF RunningInv
  <2> QED
    BY <2>1, <2>7, <2>8, <2>9 DEF QueueInv
<1>5. ASSUME NEW n \in Sleeps, TimerSleep(n) PROVE QueueInv'
  <2>1. /\ UNCHANGED <<current, status, ready_list, sleep_list, waiters>>
        /\ Goto(At("compare", NULL, NULL)) /\ current # Idle
    BY <1>5 DEF TimerSleep, Calls, threadVars, semaVars
  <2> QED
    BY <1>0, <1>1, <2>1, GotoMove, MoveQueue
<1> QED
  BY <1>2, <1>3, <1>4, <1>5 DEF SleepStep

LEMMA TimerQueueStep ==
  ASSUME TypeInv, QueueInv, TimerStep
  PROVE  QueueInv'
PROOF
<1> USE ThreadsAssumption
<1>0. /\ TypeOK /\ SliceInv
      /\ SchedTypeOK /\ SleepTypeOK /\ PcTypeOK /\ PlacesOK
      /\ ReadyInv /\ WaitersInv /\ SleepInv /\ RunningInv
      /\ current \in Threads /\ status[current] = "RUNNING"
      /\ Run.at = "run"
  BY DEF TypeInv, TypeOK, SchedTypeOK, QueueInv, RunningInv, Run, At
<1>1. CASE TimerInterrupt
  <2>1. UNCHANGED <<current, status, ready_list, sleep_list, waiters>>
    BY <1>1 DEF TimerInterrupt, ThreadTick, sleepVars, semaVars
  <2>2. \A t \in Threads : pc'[t] = pc[t] \/ (t = Idle /\ t = current /\ pc'[t] = Run)
    BY <1>0, <1>1, EndHltTypeOK DEF TimerInterrupt, ThreadTick
  <2>3. /\ \A t \in Threads \ {current} : pc'[t] = pc[t]
        /\ current # Idle => pc'[current].at # "hlt"
        /\ current = Idle => pc'[current].at \in {"run", "hlt"}
    BY <1>0, <2>2 DEF RunningInv
  <2> QED
    BY <1>0, <2>1, <2>3, MoveQueue
<1>2. CASE WakeupOne
  <2> DEFINE t == Head(sleep_list)
  <2>1. /\ sleep_list \in Seq(Threads) /\ sleep_list # <<>> /\ sleep_list' = Tail(sleep_list)
        /\ Unblock(t) /\ UNCHANGED <<pc, waiters>>
    BY <1>0, <1>2 DEF WakeupOne, SleepTypeOK, semaVars
  <2>2. /\ t \in Threads /\ t \in Range(sleep_list)
        /\ Range(sleep_list) = Range(sleep_list') \cup {t}
        /\ IsInjective(sleep_list') /\ t \notin Range(sleep_list')
    BY <1>0, <2>1, HeadTailRange DEF SleepInv
  <2> HIDE DEF t
  <2>3. status[t] = "BLOCKED" /\ pc[t].at = "run" /\ t # Idle
    BY <1>0, <2>2 DEF SleepInv
  <2>4. /\ ReadyInv' /\ current' = current
        /\ \A u \in Threads : status'[u] = IF u = t THEN "READY" ELSE status[u]
        /\ \A u \in Threads : status'[u] = "RUNNING" <=> u = current'
    BY <1>0, <2>1, <2>2, <2>3, UnblockQueue
  <2>5. WaitersInv'
    BY <1>0, <2>1, <2>3, <2>4 DEF WaitersInv
  <2>6. SleepInv'
    BY <1>0, <2>1, <2>2, <2>3, <2>4 DEF SleepInv
  <2>7. RunningInv'
    BY <1>0, <2>1, <2>3, <2>4 DEF RunningInv
  <2> QED
    BY <2>4, <2>5, <2>6, <2>7 DEF QueueInv
<1>3. CASE WakeupDone
  BY <1>3 DEF WakeupDone, threadVars, semaVars, QueueInv, ReadyInv, WaitersInv,
     SleepInv, RunningInv
<1>4. CASE IntrReturn
  <2>1. UNCHANGED <<sleep_list, waiters, pc>> /\ pc[current].at # "down"
    BY <1>0, <1>4 DEF IntrReturn, sleepVars, semaVars, SliceInv
  <2>2. CASE Yield
    <3>1. /\ ReadyInv' /\ current' \in Threads
          /\ \A t \in Threads : status'[t] = "RUNNING" <=> t = current'
          /\ \A t \in Threads \ {current'} :
               status'[t] = IF t = current THEN "READY" ELSE status[t]
          /\ current' # Idle => current' = current \/ status[current'] = "READY"
      BY <1>0, <2>2, YieldQueue
    <3>2. WaitersInv'
      BY <1>0, <2>1, <3>1 DEF WaitersInv, RunningInv
    <3>3. SleepInv'
      BY <1>0, <2>1, <3>1 DEF SleepInv
    <3>4. RunningInv'
      BY <1>0, <2>1, <3>1 DEF RunningInv
    <3> QED
      BY <3>1, <3>2, <3>3, <3>4 DEF QueueInv
  <2>3. CASE UNCHANGED threadVars
    BY <2>1, <2>3 DEF threadVars, QueueInv, ReadyInv, WaitersInv, SleepInv, RunningInv
  <2> QED
    BY <1>4, <2>2, <2>3 DEF IntrReturn
<1> QED
  BY <1>1, <1>2, <1>3, <1>4 DEF TimerStep

LEMMA QueueStep == TypeInv /\ QueueInv /\ [Next]_vars => QueueInv'
PROOF
<1> SUFFICES ASSUME TypeInv, QueueInv, [Next]_vars PROVE QueueInv'
  OBVIOUS
<1>1. TypeOK
  BY DEF TypeInv
<1>2. CASE UNCHANGED vars
  BY <1>2 DEF vars, threadVars, sleepVars, semaVars, QueueInv, ReadyInv, WaitersInv,
     SleepInv, RunningInv
<1> QED
  BY <1>1, <1>2, SchedulerQueueStep, SyncQueueStep, CondQueueStep, SleepQueueStep,
     TimerQueueStep DEF Next

(***************************************************************************)
(* struct thread's single list_elem is never on two lists or twice on one, *)
(* thread_unblock()'s ASSERT (t->status == THREAD_BLOCKED) never fails,    *)
(* and a blocked thread is always on the list it has to be woken from.     *)
(***************************************************************************)
THEOREM QueuesCorrect == Spec => []QueueInv
PROOF
<1>1. Init => TypeInv /\ QueueInv
  BY TypeInit, QueueInit
<1>2. TypeInv /\ QueueInv /\ [Next]_vars => TypeInv' /\ QueueInv'
  BY TypeStep, QueueStep
<1> QED
  BY <1>1, <1>2, PTL DEF Spec

-----------------------------------------------------------------------------
(***************************************************************************)
(* Mutual exclusion.  LockInv is inductive on top of TypeInv and QueueInv: *)
(* the latter is needed because a page is only taken for a new thread      *)
(* when no thread inside the kernel's functions lives in it.               *)
(***************************************************************************)
Dead == {"FREE", "DYING"}

(* No thread but the running one can leave the living, and only by exiting. *)
Alive == \A t \in Threads : status[t] \notin Dead => status'[t] \notin Dead

LEMMA ScheduleAlive ==
  ASSUME NEW st \in [Threads -> Statuses], NEW rl, Schedule(st, rl),
         NEW t \in Threads, st[t] \notin Dead
  PROVE  status'[t] \notin Dead
  BY DEF Schedule, Dead

LEMMA BlockAlive == ASSUME SchedTypeOK, Block PROVE Alive
PROOF
<1> DEFINE st == [status EXCEPT ![current] = "BLOCKED"]
<1>1. st \in [Threads -> Statuses] /\ Schedule(st, ready_list)
  BY DEF SchedTypeOK, Statuses, Block
<1>2. \A t \in Threads : status[t] \notin Dead => st[t] \notin Dead
  BY DEF SchedTypeOK, Dead
<1> HIDE DEF st
<1> QED
  BY <1>1, <1>2, ScheduleAlive DEF Alive

LEMMA YieldAlive == ASSUME SchedTypeOK, Yield PROVE Alive
PROOF
<1> DEFINE st == [status EXCEPT ![current] = "READY"]
<1>1. /\ st \in [Threads -> Statuses]
      /\ Schedule(st, IF current = Idle THEN ready_list ELSE InsertReady(current))
  BY DEF SchedTypeOK, Statuses, Yield
<1>2. \A t \in Threads : status[t] \notin Dead => st[t] \notin Dead
  BY DEF SchedTypeOK, Dead
<1> HIDE DEF st
<1> QED
  BY <1>1, <1>2, ScheduleAlive DEF Alive

LEMMA UnblockAlive == ASSUME SchedTypeOK, NEW t, Unblock(t) PROVE Alive
  BY DEF SchedTypeOK, Unblock, Alive, Dead

LEMMA UpAlive == ASSUME SchedTypeOK, NEW s, Up(s) PROVE Alive
PROOF
<1>1. CASE UNCHANGED threadVars
  BY <1>1 DEF Alive, threadVars
<1> QED
  BY <1>1, UnblockAlive DEF Up

LEMMA DownAlive == ASSUME SchedTypeOK, NEW s, NEW lock, Down(s, lock) PROVE Alive
PROOF
<1>1. CASE UNCHANGED threadVars
  BY <1>1 DEF Alive, threadVars
<1> QED
  BY <1>1, BlockAlive DEF Down

(* A lock that a step of the running thread does not concern. *)
LEMMA KeepLock ==
  ASSUME NEW l \in Locks, LockOK(l), current \in Threads,
         holder \in [Locks -> Threads \cup {NULL}],
         \A t \in Threads \ {current} : pc'[t] = pc[t],
         Hand(pc'[current], l) <=> Hand(pc[current], l),
         holder'[l] = holder[l], value'[l] = value[l],
         holder[l] # NULL => status'[holder[l]] \notin Dead
  PROVE  LockOK(l)'
PROOF
<1>1. \A t \in Threads : Hand(pc'[t], l) <=> Hand(pc[t], l)
  OBVIOUS
<1>2. InHand(l)' = InHand(l)
  BY <1>1 DEF InHand, Hand
<1>3. \A t : Owns(t, l)' <=> Owns(t, l)
  BY <1>2 DEF Owns
<1> QED
  BY <1>2, <1>3 DEF LockOK, Dead

(* The semaphore operation gives the lock to the running thread. *)
LEMMA TakeLock ==
  ASSUME NEW l \in Locks, LockOK(l), current \in Threads,
         holder \in [Locks -> Threads \cup {NULL}],
         \A t \in Threads \ {current} : pc'[t] = pc[t],
         Hand(pc'[current], l), value[l] # 0, value'[l] = value[l] - 1,
         holder'[l] = holder[l]
  PROVE  LockOK(l)'
PROOF
<1> USE ThreadsAssumption
<1>1. /\ \A t \in Threads : ~Owns(t, l)
      /\ value[l] = 1
  BY DEF LockOK
<1>2. holder[l] = NULL /\ \A t \in Threads : ~Hand(pc[t], l)
  BY <1>1 DEF Owns, InHand
<1>3. \A t \in Threads : Hand(pc'[t], l) <=> t = current
  BY <1>2
<1>4. InHand(l)' = {current}
  BY <1>3 DEF InHand, Hand
<1>5. \A t \in Threads : Owns(t, l)' <=> t = current
  BY <1>2, <1>4 DEF Owns
<1> QED
  BY <1>1, <1>2, <1>4, <1>5 DEF LockOK

(* The semaphore operation gives the lock back. *)
LEMMA GiveLock ==
  ASSUME NEW l \in Locks, LockOK(l), current \in Threads,
         holder \in [Locks -> Threads \cup {NULL}],
         \A t \in Threads \ {current} : pc'[t] = pc[t],
         Hand(pc[current], l), ~Hand(pc'[current], l), value'[l] = value[l] + 1,
         holder'[l] = holder[l]
  PROVE  LockOK(l)'
PROOF
<1> USE ThreadsAssumption
<1>1. current \in InHand(l) /\ Owns(current, l)
  BY DEF InHand, Owns
<1>2. /\ \A t \in Threads : Owns(t, l) => t = current
      /\ value[l] = 0 /\ holder[l] = NULL
  BY <1>1 DEF LockOK
<1>3. \A t \in Threads : ~Hand(pc'[t], l)
  BY <1>2 DEF Owns, InHand
<1>4. InHand(l)' = {}
  BY <1>3 DEF InHand, Hand
<1>5. \A t \in Threads : ~Owns(t, l)'
  BY <1>2, <1>4 DEF Owns
<1> QED
  BY <1>2, <1>4, <1>5 DEF LockOK

(* lock_acquire() records the owner. *)
LEMMA RecordHolder ==
  ASSUME NEW l \in Locks, LockOK(l), current \in Threads,
         holder \in [Locks -> Threads \cup {NULL}],
         \A t \in Threads \ {current} : pc'[t] = pc[t],
         Hand(pc[current], l), ~Hand(pc'[current], l), value'[l] = value[l],
         holder'[l] = current, status'[current] \notin Dead
  PROVE  LockOK(l)'
PROOF
<1> USE ThreadsAssumption
<1>1. current \in InHand(l) /\ Owns(current, l)
  BY DEF InHand, Owns
<1>2. /\ \A t \in Threads : Owns(t, l) => t = current
      /\ value[l] = 0 /\ holder[l] = NULL
  BY <1>1 DEF LockOK
<1>3. \A t \in Threads : ~Hand(pc'[t], l)
  BY <1>2 DEF Owns, InHand
<1>4. InHand(l)' = {}
  BY <1>3 DEF InHand, Hand
<1>5. \A t \in Threads : Owns(t, l)' <=> t = current
  BY <1>4 DEF Owns
<1> QED
  BY <1>2, <1>4, <1>5 DEF LockOK, Dead

(* lock_release() forgets the owner before the semaphore operation. *)
LEMMA ForgetHolder ==
  ASSUME NEW l \in Locks, LockOK(l), current \in Threads,
         holder \in [Locks -> Threads \cup {NULL}],
         \A t \in Threads \ {current} : pc'[t] = pc[t],
         holder[l] = current, Hand(pc'[current], l), value'[l] = value[l],
         holder'[l] = NULL
  PROVE  LockOK(l)'
PROOF
<1> USE ThreadsAssumption
<1>1. Owns(current, l) /\ holder[l] # NULL
  BY DEF Owns
<1>2. /\ \A t \in Threads : Owns(t, l) => t = current
      /\ value[l] = 0 /\ InHand(l) = {}
  BY <1>1 DEF LockOK
<1>3. \A t \in Threads : Hand(pc'[t], l) <=> t = current
  BY <1>2 DEF InHand
<1>4. InHand(l)' = {current}
  BY <1>3 DEF InHand, Hand
<1>5. \A t \in Threads : Owns(t, l)' <=> t = current
  BY <1>4 DEF Owns
<1> QED
  BY <1>2, <1>4, <1>5 DEF LockOK

(* A step that concerns no lock. *)
LEMMA KeepLocks ==
  ASSUME TypeOK, LockInv, Alive, UNCHANGED holder,
         \A l \in Locks : value'[l] = value[l],
         \A t \in Threads \ {current} : pc'[t] = pc[t],
         \A l \in Locks : Hand(pc'[current], l) <=> Hand(pc[current], l)
  PROVE  LockInv'
PROOF
<1>1. /\ current \in Threads /\ holder \in [Locks -> Threads \cup {NULL}]
      /\ NULL \notin Threads
  BY ThreadsAssumption DEF TypeOK, SchedTypeOK, LockTypeOK
<1>2. ASSUME NEW l \in Locks PROVE LockOK(l)'
  <2>1. LockOK(l)
    BY DEF LockInv
  <2>2. holder[l] # NULL => status'[holder[l]] \notin Dead
    BY <1>1, <2>1 DEF LockOK, Alive, Dead
  <2> QED
    BY <1>1, <2>1, <2>2, KeepLock
<1> QED
  BY <1>2 DEF LockInv

LEMMA DownLocks ==
  ASSUME TypeOK, LockInv, NEW s \in SemaIds, NEW lock, Down(s, lock),
         UNCHANGED holder, \A l \in Locks : ~Hand(pc[current], l)
  PROVE  LockInv'
PROOF
<1> USE ThreadsAssumption
<1>0. /\ SchedTypeOK /\ SemaTypeOK /\ PcTypeOK /\ current \in Threads
      /\ holder \in [Locks -> Threads \cup {NULL}]
  BY DEF TypeOK, SchedTypeOK, LockTypeOK
<1>1. Alive
  BY <1>0, DownAlive
<1>2. CASE value[s] = 0
  <2>1. Goto(At("down", s, lock)) /\ UNCHANGED value
    BY <1>2 DEF Down
  <2>2. \A l \in Locks : ~Hand(At("down", s, lock), l)
    BY DEF Hand, At
  <2> QED
    BY <1>0, <1>1, <2>1, <2>2, GotoMove, KeepLocks
<1>3. CASE value[s] # 0
  <2>1. Goto(AfterDown(s, lock)) /\ value' = [value EXCEPT ![s] = @ - 1]
    BY <1>3 DEF Down
  <2>2. \A l \in Locks : Hand(AfterDown(s, lock), l) <=> l = s
    <3>1. CASE s \in Locks
      <4>1. AfterDown(s, lock) = At("own", s, NULL)
        BY <3>1 DEF AfterDown
      <4> QED
        BY <4>1 DEF Hand, At
    <3>2. CASE s \notin Locks
      <4>1. AfterDown(s, lock) \in {At("reacquire", NULL, lock), Run}
        BY <3>2 DEF AfterDown, SemaIds
      <4> QED
        BY <3>2, <4>1 DEF Hand, At, Run
    <3> QED
      BY <3>1, <3>2
  <2>3. pc'[current] = AfterDown(s, lock) /\ \A t \in Threads \ {current} : pc'[t] = pc[t]
    BY <1>0, <2>1, GotoMove
  <2>4. /\ Locks \subseteq SemaIds
        /\ \A l \in Locks : value'[l] = IF l = s THEN value[l] - 1 ELSE value[l]
    BY <1>0, <2>1 DEF SemaTypeOK, SemaIds
  <2>5. ASSUME NEW l \in Locks PROVE LockOK(l)'
    <3>1. LockOK(l)
      BY DEF LockInv
    <3>2. CASE l = s
      BY <1>0, <1>3, <2>2, <2>3, <2>4, <3>1, <3>2, TakeLock
    <3>3. CASE l # s
      <4>1. holder[l] # NULL => status'[holder[l]] \notin Dead
        BY <1>0, <1>1, <3>1 DEF LockOK, Alive, Dead
      <4> QED
        BY <1>0, <2>2, <2>3, <2>4, <3>1, <3>3, <4>1, KeepLock
    <3> QED
      BY <3>2, <3>3
  <2> QED
    BY <2>5 DEF LockInv
<1> QED
  BY <1>2, <1>3

(* sema_up() of the semaphore of the lock that the running thread gives up. *)
LEMMA UpLocks ==
  ASSUME TypeOK, LockInv, NEW s \in Locks, Up(s), UNCHANGED holder,
         \A t \in Threads \ {current} : pc'[t] = pc[t],
         \A l \in Locks : Hand(pc[current], l) <=> l = s,
         \A l \in Locks : ~Hand(pc'[current], l)
  PROVE  LockInv'
PROOF
<1> USE ThreadsAssumption
<1>0. /\ SchedTypeOK /\ SemaTypeOK /\ current \in Threads
      /\ holder \in [Locks -> Threads \cup {NULL}]
  BY DEF TypeOK, SchedTypeOK, LockTypeOK
<1>1. Alive
  BY <1>0, UpAlive
<1>2. \A l \in Locks : value'[l] = IF l = s THEN value[l] + 1 ELSE value[l]
  BY <1>0 DEF Up, SemaTypeOK, SemaIds
<1>3. ASSUME NEW l \in Locks PROVE LockOK(l)'
  <2>1. LockOK(l)
    BY DEF LockInv
  <2>2. CASE l = s
    BY <1>0, <1>2, <2>1, <2>2, GiveLock
  <2>3. CASE l # s
    <3>1. holder[l] # NULL => status'[holder[l]] \notin Dead
      BY <1>0, <1>1, <2>1 DEF LockOK, Alive, Dead
    <3> QED
      BY <1>0, <1>2, <2>1, <2>3, <3>1, KeepLock
  <2> QED
    BY <2>2, <2>3
<1> QED
  BY <1>3 DEF LockInv

LEMMA LockInit == Init => LockInv
PROOF
<1> SUFFICES ASSUME Init, NEW l \in Locks PROVE LockOK(l)
  BY DEF LockInv
<1> USE ThreadsAssumption
<1>1. \A t \in Threads : ~Hand(pc[t], l)
  BY DEF Init, Hand, Run, At
<1>2. holder[l] = NULL /\ value[l] = 1
  BY DEF Init, SemaIds
<1>3. InHand(l) = {} /\ \A t \in Threads : ~Owns(t, l)
  BY <1>1, <1>2 DEF InHand, Owns
<1> QED
  BY <1>2, <1>3 DEF LockOK

LEMMA SchedulerLockStep ==
  ASSUME TypeOK, QueueInv, LockInv, SchedulerStep
  PROVE  LockInv'
PROOF
<1> USE ThreadsAssumption
<1>0. /\ SchedTypeOK /\ PcTypeOK /\ current \in Threads /\ RunningInv
      /\ holder \in [Locks -> Threads \cup {NULL}]
      /\ \A l \in Locks : ~Hand(Run, l)
  BY DEF TypeOK, SchedTypeOK, LockTypeOK, QueueInv, Hand, Run, At
<1>1. CASE ThreadYield
  BY <1>0, <1>1, YieldAlive, KeepLocks DEF ThreadYield, semaVars
<1>2. CASE ThreadDie
  <2>1. UNCHANGED <<value, holder, pc>> /\ \A l \in Locks : holder[l] # current
    BY <1>2 DEF ThreadDie, semaVars, lock_held_by_current_thread
  <2> DEFINE st == [status EXCEPT ![current] = IF current = Main THEN "DYING" ELSE "FREE"]
  <2>2. /\ st \in [Threads -> Statuses] /\ Schedule(st, ready_list)
        /\ \A t \in Threads \ {current} : st[t] = status[t]
    BY <1>0, <1>2 DEF ThreadDie, SchedTypeOK, Statuses
  <2> HIDE DEF st
  <2>3. ASSUME NEW l \in Locks PROVE LockOK(l)'
    <3>1. LockOK(l)
      BY DEF LockInv
    <3>2. holder[l] # NULL => status'[holder[l]] \notin Dead
      BY <1>0, <2>1, <2>2, <3>1, ScheduleAlive DEF LockOK, Dead
    <3> QED
      BY <1>0, <2>1, <3>1, <3>2, KeepLock
  <2> QED
    BY <2>3 DEF LockInv
<1>3. CASE IdleBlock
  <2>1. \A l \in Locks : ~Hand(At("hlt", NULL, NULL), l) /\ ~Hand(pc[current], l)
    BY <1>3 DEF IdleBlock, Running, Hand, At
  <2> QED
    BY <1>0, <1>3, <2>1, BlockAlive, GotoMove, KeepLocks DEF IdleBlock, semaVars
<1>4. ASSUME NEW prio \in Priorities, ThreadSetPriority(prio) PROVE LockInv'
  BY <1>4, KeepLocks DEF ThreadSetPriority, semaVars, Alive
<1>5. ASSUME NEW t \in Threads, NEW prio \in Priorities, ThreadCreate(t, prio)
      PROVE  LockInv'
  <2>1. /\ status[t] = "FREE" /\ UNCHANGED <<value, holder>>
        /\ \A u \in Threads : status'[u] = IF u = t THEN "READY" ELSE status[u]
        /\ \A u \in Threads : pc'[u] = IF u = t THEN Run ELSE pc[u]
    BY <1>0, <1>5 DEF ThreadCreate, semaVars, SchedTypeOK, PcTypeOK
  <2>2. pc[t].at = "run"
    BY <1>0, <2>1 DEF RunningInv
  <2>3. \A l \in Locks : ~Hand(pc[t], l)
    BY <2>2 DEF Hand
  <2>4. ASSUME NEW l \in Locks PROVE LockOK(l)'
    <3>1. LockOK(l)
      BY DEF LockInv
    <3>2. \A u \in Threads : Hand(pc'[u], l) <=> Hand(pc[u], l)
      BY <1>0, <2>1, <2>3
    <3>3. InHand(l)' = InHand(l)
      BY <3>2 DEF InHand, Hand
    <3>4. \A u : Owns(u, l)' <=> Owns(u, l)
      BY <2>1, <3>3 DEF Owns
    <3>5. holder[l] # NULL => status'[holder[l]] \notin Dead
      BY <1>0, <2>1, <3>1 DEF LockOK, Dead
    <3> QED
      BY <2>1, <3>1, <3>3, <3>4, <3>5 DEF LockOK, Dead
  <2> QED
    BY <2>4 DEF LockInv
<1> QED
  BY <1>1, <1>2, <1>3, <1>4, <1>5 DEF SchedulerStep

LEMMA SemaLockStep ==
  ASSUME TypeOK, QueueInv, LockInv, SemaStep
  PROVE  LockInv'
PROOF
<1> USE ThreadsAssumption
<1>0. /\ SchedTypeOK /\ SemaTypeOK /\ PcTypeOK /\ PlacesOK /\ current \in Threads
      /\ \A l \in Locks : ~Hand(Run, l)
  BY DEF TypeOK, SchedTypeOK, Hand, Run, At
<1>1. CASE ResumeDown
  <2>1. pc[current].on \in SemaIds /\ \A l \in Locks : ~Hand(pc[current], l)
    BY <1>0, <1>1 DEF ResumeDown, Running, PlacesOK, PlaceOK, Hand
  <2> QED
    BY <1>1, <2>1, DownLocks DEF ResumeDown
<1>2. ASSUME NEW s \in Semas, SemaDown(s) PROVE LockInv'
  <2>1. s \in SemaIds /\ \A l \in Locks : ~Hand(pc[current], l)
    BY <1>2 DEF SemaDown, Calls, Running, Hand, SemaIds
  <2> QED
    BY <1>2, <2>1, DownLocks DEF SemaDown
<1>3. ASSUME NEW s \in Semas, SemaTryDown(s) PROVE LockInv'
  <2>1. \A l \in Locks : value'[l] = value[l]
    BY <1>0, <1>3 DEF SemaTryDown, SemaTypeOK, SemaIds
  <2>2. Alive
    BY <1>3 DEF SemaTryDown, threadVars, Alive
  <2> QED
    BY <1>3, <2>1, <2>2, KeepLocks DEF SemaTryDown
<1>4. ASSUME NEW s \in Semas, SemaUp(s) PROVE LockInv'
  <2>1. \A l \in Locks : value'[l] = value[l]
    BY <1>0, <1>4 DEF SemaUp, Up, SemaTypeOK, SemaIds
  <2>2. Alive
    BY <1>0, <1>4, UpAlive DEF SemaUp
  <2> QED
    BY <1>4, <2>1, <2>2, KeepLocks DEF SemaUp
<1>5. ASSUME NEW s \in Semas, DeviceInterrupt(s) PROVE LockInv'
  <2>1. \A l \in Locks : value'[l] = value[l]
    BY <1>0, <1>5 DEF DeviceInterrupt, Up, SemaTypeOK, SemaIds
  <2>2. Alive
    BY <1>0, <1>5, UpAlive DEF DeviceInterrupt
  <2>3. \A t \in Threads : pc'[t] = pc[t] \/ (t = Idle /\ t = current /\ pc'[t] = Run)
    BY <1>0, <1>5, EndHltTypeOK DEF DeviceInterrupt
  <2>4. current = Idle => \A l \in Locks : ~Hand(pc[current], l)
    BY DEF QueueInv, RunningInv, Hand
  <2>5. \A l \in Locks : Hand(pc'[current], l) <=> Hand(pc[current], l)
    BY <1>0, <2>3, <2>4
  <2> QED
    BY <1>5, <2>1, <2>2, <2>3, <2>5, KeepLocks DEF DeviceInterrupt
<1> QED
  BY <1>1, <1>2, <1>3, <1>4, <1>5 DEF SemaStep

LEMMA LockLockStep ==
  ASSUME TypeOK, QueueInv, LockInv, LockStep
  PROVE  LockInv'
PROOF
<1> USE ThreadsAssumption
<1>0. /\ SchedTypeOK /\ SemaTypeOK /\ PcTypeOK /\ PlacesOK /\ current \in Threads
      /\ holder \in [Locks -> Threads \cup {NULL}]
      /\ status[current] = "RUNNING"
      /\ \A l \in Locks : ~Hand(Run, l)
  BY DEF TypeOK, SchedTypeOK, LockTypeOK, QueueInv, RunningInv, Hand, Run, At
<1>1. CASE SetHolder
  <2>1. /\ pc[current].on \in Locks
        /\ \A l \in Locks : Hand(pc[current], l) <=> l = pc[current].on
    BY <1>0, <1>1 DEF SetHolder, Running, PlacesOK, PlaceOK, Hand
  <2>2. pc'[current] = Run /\ \A t \in Threads \ {current} : pc'[t] = pc[t]
    BY <1>0, <1>1, GotoMove DEF SetHolder
  <2>3. /\ UNCHANGED <<status, value>>
        /\ \A l \in Locks : holder'[l] = IF l = pc[current].on THEN current ELSE holder[l]
    BY <1>0, <1>1 DEF SetHolder, threadVars, semaVars
  <2>4. ASSUME NEW l \in Locks PROVE LockOK(l)'
    <3>1. LockOK(l)
      BY DEF LockInv
    <3>2. CASE l = pc[current].on
      BY <1>0, <2>1, <2>2, <2>3, <3>1, <3>2, RecordHolder DEF Dead
    <3>3. CASE l # pc[current].on
      <4>1. holder[l] # NULL => status'[holder[l]] \notin Dead
        BY <2>3, <3>1 DEF LockOK, Dead
      <4> QED
        BY <1>0, <2>1, <2>2, <2>3, <3>1, <3>3, <4>1, KeepLock
    <3> QED
      BY <3>2, <3>3
  <2> QED
    BY <2>4 DEF LockInv
<1>2. CASE LockUp
  <2>1. /\ pc[current].on \in Locks
        /\ \A l \in Locks : Hand(pc[current], l) <=> l = pc[current].on
    BY <1>0, <1>2 DEF LockUp, Running, PlacesOK, PlaceOK, Hand
  <2>2. pc'[current] = Run /\ \A t \in Threads \ {current} : pc'[t] = pc[t]
    BY <1>0, <1>2, GotoMove DEF LockUp
  <2> QED
    BY <1>0, <1>2, <2>1, <2>2, UpLocks DEF LockUp
<1>3. ASSUME NEW l \in Locks, LockAcquire(l) PROVE LockInv'
  <2>1. l \in SemaIds /\ \A k \in Locks : ~Hand(pc[current], k)
    BY <1>3 DEF LockAcquire, Calls, Running, Hand, SemaIds
  <2> QED
    BY <1>3, <2>1, DownLocks DEF LockAcquire
<1>4. ASSUME NEW l \in Locks, LockTryAcquire(l) PROVE LockInv'
  <2>1. \A k \in Locks : ~Hand(pc[current], k) /\ (Hand(At("own", l, NULL), k) <=> k = l)
    BY <1>4 DEF LockTryAcquire, Calls, Running, Hand, At
  <2>2. /\ pc'[current] = At("own", l, NULL)
        /\ \A t \in Threads \ {current} : pc'[t] = pc[t]
    BY <1>0, <1>4, GotoMove DEF LockTryAcquire
  <2>3. /\ UNCHANGED <<status, holder>> /\ value[l] # 0
        /\ \A k \in Locks : value'[k] = IF k = l THEN value[k] - 1 ELSE value[k]
    BY <1>0, <1>4 DEF LockTryAcquire, threadVars, SemaTypeOK, SemaIds
  <2>4. ASSUME NEW k \in Locks PROVE LockOK(k)'
    <3>1. LockOK(k)
      BY DEF LockInv
    <3>2. CASE k = l
      BY <1>0, <2>1, <2>2, <2>3, <3>1, <3>2, TakeLock
    <3>3. CASE k # l
      <4>1. holder[k] # NULL => status'[holder[k]] \notin Dead
        BY <2>3, <3>1 DEF LockOK, Dead
      <4> QED
        BY <1>0, <2>1, <2>2, <2>3, <3>1, <3>3, <4>1, KeepLock
    <3> QED
      BY <3>2, <3>3
  <2> QED
    BY <2>4 DEF LockInv
<1>5. ASSUME NEW l \in Locks, LockRelease(l) PROVE LockInv'
  <2>1. \A k \in Locks : ~Hand(pc[current], k) /\ (Hand(At("up", l, NULL), k) <=> k = l)
    BY <1>5 DEF LockRelease, Calls, Running, Hand, At
  <2>2. /\ pc'[current] = At("up", l, NULL)
        /\ \A t \in Threads \ {current} : pc'[t] = pc[t]
    BY <1>0, <1>5, GotoMove DEF LockRelease
  <2>3. /\ UNCHANGED <<status, value>> /\ holder[l] = current
        /\ \A k \in Locks : holder'[k] = IF k = l THEN NULL ELSE holder[k]
    BY <1>0, <1>5 DEF LockRelease, threadVars, semaVars, lock_held_by_current_thread
  <2>4. ASSUME NEW k \in Locks PROVE LockOK(k)'
    <3>1. LockOK(k)
      BY DEF LockInv
    <3>2. CASE k = l
      BY <1>0, <2>1, <2>2, <2>3, <3>1, <3>2, ForgetHolder
    <3>3. CASE k # l
      <4>1. holder[k] # NULL => status'[holder[k]] \notin Dead
        BY <2>3, <3>1 DEF LockOK, Dead
      <4> QED
        BY <1>0, <2>1, <2>2, <2>3, <3>1, <3>3, <4>1, KeepLock
    <3> QED
      BY <3>2, <3>3
  <2> QED
    BY <2>4 DEF LockInv
<1> QED
  BY <1>1, <1>2, <1>3, <1>4, <1>5 DEF LockStep

(* cond_signal() concerns no lock: a waiter's semaphore is no lock's. *)
LEMMA SignalLocks ==
  ASSUME TypeOK, LockInv, NEW c \in Conds, SignalOne(c), UNCHANGED <<holder, pc>>
  PROVE  LockInv'
PROOF
<1> USE ThreadsAssumption
<1>0. SchedTypeOK /\ SemaTypeOK /\ LockTypeOK
  BY DEF TypeOK
<1>1. Head(cond_waiters[c]) \in Threads /\ Up(Head(cond_waiters[c]))
  BY <1>0, HeadTailProperties DEF SignalOne, LockTypeOK
<1>2. \A l \in Locks : value'[l] = value[l]
  BY <1>0, <1>1 DEF Up, SemaTypeOK, SemaIds
<1>3. Alive
  BY <1>0, <1>1, UpAlive
<1> QED
  BY <1>2, <1>3, KeepLocks

LEMMA CondLockStep ==
  ASSUME TypeOK, QueueInv, LockInv, CondStep
  PROVE  LockInv'
PROOF
<1> USE ThreadsAssumption
<1>0. /\ SchedTypeOK /\ SemaTypeOK /\ PcTypeOK /\ PlacesOK /\ current \in Threads
      /\ holder \in [Locks -> Threads \cup {NULL}]
      /\ \A l \in Locks : ~Hand(Run, l)
  BY DEF TypeOK, SchedTypeOK, LockTypeOK, Hand, Run, At
<1>1. CASE CondUp
  <2>1. /\ pc[current].lk \in Locks
        /\ \A l \in Locks : Hand(pc[current], l) <=> l = pc[current].lk
    BY <1>0, <1>1 DEF CondUp, Running, PlacesOK, PlaceOK, Hand
  <2>2. \A l \in Locks : ~Hand(At("cond_down", NULL, pc[current].lk), l)
    BY DEF Hand, At
  <2>3. /\ pc'[current] = At("cond_down", NULL, pc[current].lk)
        /\ \A t \in Threads \ {current} : pc'[t] = pc[t]
    BY <1>0, <1>1, GotoMove DEF CondUp
  <2> QED
    BY <1>1, <2>1, <2>2, <2>3, UpLocks DEF CondUp
<1>2. CASE CondDown
  <2>1. current \in SemaIds /\ \A l \in Locks : ~Hand(pc[current], l)
    BY <1>0, <1>2 DEF CondDown, Running, Hand, SemaIds
  <2> QED
    BY <1>2, <2>1, DownLocks DEF CondDown
<1>3. CASE CondReacquire
  <2>1. pc[current].lk \in SemaIds /\ \A l \in Locks : ~Hand(pc[current], l)
    BY <1>0, <1>3 DEF CondReacquire, Running, PlacesOK, PlaceOK, Hand, SemaIds
  <2> QED
    BY <1>3, <2>1, DownLocks DEF CondReacquire
<1>4. CASE BroadcastNext
  <2>1. pc[current].on \in Conds /\ holder' = holder
    BY <1>0, <1>4 DEF BroadcastNext, Running, PlacesOK, PlaceOK
  <2>2. CASE SignalOne(pc[current].on) /\ UNCHANGED pc
    BY <2>1, <2>2, SignalLocks
  <2>3. CASE Goto(Run) /\ UNCHANGED <<threadVars, semaVars, cond_waiters>>
    <3>1. \A l \in Locks : ~Hand(pc[current], l)
      BY <1>4 DEF BroadcastNext, Running, Hand
    <3>2. pc'[current] = Run /\ \A t \in Threads \ {current} : pc'[t] = pc[t]
      BY <1>0, <2>3, GotoMove
    <3>3. Alive /\ value' = value
      BY <2>3 DEF Alive, threadVars, semaVars
    <3> QED
      BY <1>0, <2>1, <3>1, <3>2, <3>3, KeepLocks
  <2> QED
    BY <1>4, <2>2, <2>3 DEF BroadcastNext
<1>5. ASSUME NEW c \in Conds, CondWait(c) PROVE LockInv'
  <2> DEFINE l == CondLock[c]
             r == At("cond_up", c, l)
  <2>1. /\ l \in Locks
        /\ \A k \in Locks : ~Hand(pc[current], k) /\ (Hand(r, k) <=> k = l)
    BY <1>5 DEF CondWait, Calls, Running, Hand, At
  <2>2. pc'[current] = r /\ \A t \in Threads \ {current} : pc'[t] = pc[t]
    BY <1>0, <1>5, GotoMove DEF CondWait
  <2>3. /\ UNCHANGED status /\ holder[l] = current
        /\ \A k \in Locks : value'[k] = value[k]
        /\ \A k \in Locks : holder'[k] = IF k = l THEN NULL ELSE holder[k]
    BY <1>0, <1>5 DEF CondWait, threadVars, SemaTypeOK, SemaIds, lock_held_by_current_thread
  <2> HIDE DEF l, r
  <2>4. ASSUME NEW k \in Locks PROVE LockOK(k)'
    <3>1. LockOK(k)
      BY DEF LockInv
    <3>2. CASE k = l
      BY <1>0, <2>1, <2>2, <2>3, <3>1, <3>2, ForgetHolder
    <3>3. CASE k # l
      <4>1. holder[k] # NULL => status'[holder[k]] \notin Dead
        BY <2>3, <3>1 DEF LockOK, Dead
      <4> QED
        BY <1>0, <2>1, <2>2, <2>3, <3>1, <3>3, <4>1, KeepLock
    <3> QED
      BY <3>2, <3>3
  <2> QED
    BY <2>4 DEF LockInv
<1>6. ASSUME NEW c \in Conds, CondSignal(c) PROVE LockInv'
  BY <1>6, SignalLocks DEF CondSignal
<1>7. ASSUME NEW c \in Conds, CondBroadcast(c) PROVE LockInv'
  <2>1. \A k \in Locks : ~Hand(pc[current], k) /\ ~Hand(At("broadcast", c, NULL), k)
    BY <1>7 DEF CondBroadcast, Calls, Running, Hand, At
  <2>2. Alive /\ UNCHANGED <<value, holder>>
    BY <1>7 DEF CondBroadcast, Alive, threadVars, semaVars
  <2> QED
    BY <1>0, <1>7, <2>1, <2>2, GotoMove, KeepLocks DEF CondBroadcast
<1> QED
  BY <1>1, <1>2, <1>3, <1>4, <1>5, <1>6, <1>7 DEF CondStep

LEMMA SleepLockStep ==
  ASSUME TypeOK, LockInv, SleepStep
  PROVE  LockInv'
PROOF
<1>0. /\ SchedTypeOK /\ PcTypeOK /\ current \in Threads
      /\ \A l \in Locks : ~Hand(Run, l)
  BY DEF TypeOK, SchedTypeOK, Hand, Run, At
<1>1. \A l \in Locks : ~Hand(pc[current], l)
  BY DEF SleepStep, CompareCallTime, StoreCallTime, ThreadSleep, TimerSleep, Calls,
     Running, Hand
<1>2. \A l \in Locks, place \in {"compare", "store", "sleep"} :
         ~Hand(At(place, NULL, NULL), l)
  BY DEF Hand, At
<1>3. /\ UNCHANGED <<value, holder>>
      /\ \/ Goto(Run)
         \/ \E place \in {"compare", "store", "sleep"} : Goto(At(place, NULL, NULL))
  BY DEF SleepStep, CompareCallTime, StoreCallTime, ThreadSleep, TimerSleep, semaVars
<1>4. Alive
  <2>1. CASE UNCHANGED status
    BY <2>1 DEF Alive
  <2>2. CASE ThreadSleep
    BY <1>0, <2>2, BlockAlive DEF ThreadSleep
  <2> QED
    BY <2>1, <2>2 DEF SleepStep, CompareCallTime, StoreCallTime, TimerSleep, threadVars
<1>5. /\ \A l \in Locks : ~Hand(pc'[current], l)
      /\ \A t \in Threads \ {current} : pc'[t] = pc[t]
  BY <1>0, <1>2, <1>3, GotoMove
<1> QED
  BY <1>1, <1>3, <1>4, <1>5, KeepLocks

LEMMA TimerLockStep ==
  ASSUME TypeOK, QueueInv, LockInv, TimerStep
  PROVE  LockInv'
PROOF
<1>0. /\ SchedTypeOK /\ PcTypeOK /\ PlacesOK /\ current \in Threads
      /\ \A l \in Locks : ~Hand(Run, l)
      /\ current = Idle => \A l \in Locks : ~Hand(pc[current], l)
  BY DEF TypeOK, SchedTypeOK, QueueInv, RunningInv, Hand, Run, At
<1>1. CASE TimerInterrupt
  <2>1. \A t \in Threads : pc'[t] = pc[t] \/ (t = Idle /\ t = current /\ pc'[t] = Run)
    BY <1>0, <1>1, EndHltTypeOK DEF TimerInterrupt, ThreadTick
  <2>2. \A l \in Locks : Hand(pc'[current], l) <=> Hand(pc[current], l)
    BY <1>0, <2>1
  <2>3. Alive /\ UNCHANGED <<value, holder>>
    BY <1>1 DEF TimerInterrupt, ThreadTick, Alive, semaVars
  <2> QED
    BY <2>1, <2>2, <2>3, KeepLocks
<1>2. CASE WakeupOne
  BY <1>0, <1>2, UnblockAlive, KeepLocks DEF WakeupOne, semaVars
<1>3. CASE WakeupDone
  <2>1. Alive
    BY <1>3 DEF WakeupDone, Alive, threadVars
  <2> QED
    BY <1>3, <2>1, KeepLocks DEF WakeupDone, semaVars
<1>4. CASE IntrReturn
  <2>1. CASE UNCHANGED threadVars
    BY <1>4, <2>1, KeepLocks DEF IntrReturn, Alive, threadVars, semaVars
  <2>2. CASE Yield
    BY <1>0, <1>4, <2>2, YieldAlive, KeepLocks DEF IntrReturn, semaVars
  <2> QED
    BY <1>4, <2>1, <2>2 DEF IntrReturn
<1> QED
  BY <1>1, <1>2, <1>3, <1>4 DEF TimerStep

LEMMA LockInvStep == TypeInv /\ QueueInv /\ LockInv /\ [Next]_vars => LockInv'
PROOF
<1> SUFFICES ASSUME TypeInv, QueueInv, LockInv, [Next]_vars PROVE LockInv'
  OBVIOUS
<1>1. TypeOK
  BY DEF TypeInv
<1>2. CASE UNCHANGED vars
  BY <1>1, <1>2, KeepLocks DEF vars, threadVars, semaVars, Alive
<1> QED
  BY <1>1, <1>2, SchedulerLockStep, SemaLockStep, LockLockStep, CondLockStep,
     SleepLockStep, TimerLockStep DEF Next

(***************************************************************************)
(* Mutual exclusion: lock_acquire(), lock_try_acquire(), lock_release()    *)
(* and cond_wait(), preempted between any two of their steps, never let    *)
(* two threads own a lock, and never lose it: the semaphore of a lock that *)
(* nobody owns is 1.                                                       *)
(***************************************************************************)
THEOREM MutualExclusion == Spec => []LockInv
PROOF
<1>1. Init => TypeInv /\ QueueInv /\ LockInv
  BY TypeInit, QueueInit, LockInit
<1>2. TypeInv /\ QueueInv /\ LockInv /\ [Next]_vars => TypeInv' /\ QueueInv' /\ LockInv'
  BY TypeStep, QueueStep, LockInvStep
<1> QED
  BY <1>1, <1>2, PTL DEF Spec

-----------------------------------------------------------------------------
(***************************************************************************)
(* Order.  list_insert_ordered() keeps a list in ascending order of its    *)
(* key, and so do the other operations on the run queue and the sleep      *)
(* list, because the keys of the threads on a list do not change.          *)
(***************************************************************************)
Sorted(list, key) == \A i, j \in DOMAIN list : i < j => key[list[i]] <= key[list[j]]

LEMMA InsertOrderedSorted ==
  ASSUME NEW list \in Seq(Threads), NEW t \in Threads, NEW key \in [Threads -> Int],
         Sorted(list, key)
  PROVE  Sorted(InsertOrdered(list, t, key), key)
PROOF
<1> DEFINE greater == {i \in 1 .. Len(list) : key[t] < key[list[i]]}
           pos == InsertPosition(list, t, key)
           new == InsertOrdered(list, t, key)
<1>1. Len(list) \in Nat /\ DOMAIN list = 1 .. Len(list)
  BY LenProperties
<1>2. \A i \in 1 .. Len(list) : key[list[i]] \in Int
  BY <1>1
<1>3. /\ pos \in 1 .. (Len(list) + 1)
      /\ \A j \in 1 .. Len(list) : j < pos => key[list[j]] <= key[t]
      /\ pos <= Len(list) => key[t] < key[list[pos]]
  <2>1. CASE greater = {}
    <3>1. pos = Len(list) + 1
      BY <2>1 DEF InsertPosition
    <3>2. \A j \in 1 .. Len(list) : ~(key[t] < key[list[j]])
      BY <2>1
    <3> QED
      BY <1>1, <1>2, <3>1, <3>2
  <2>2. CASE greater # {}
    <3> DEFINE first == CHOOSE i \in greater : \A j \in greater : i <= j
    <3>1. greater \subseteq Nat
      BY <1>1
    <3>2. first \in greater /\ \A j \in greater : first <= j
      <4> HIDE DEF greater
      <4>1. \E i \in greater : \A j \in greater : i <= j
        BY <2>2, <3>1, LeastNat
      <4> QED
        BY <4>1
    <3>3. pos = first
      BY <2>2 DEF InsertPosition
    <3> HIDE DEF first, pos
    <3>4. pos \in 1 .. Len(list) /\ key[t] < key[list[pos]]
      BY <3>2, <3>3
    <3>5. ASSUME NEW j \in 1 .. Len(list), j < pos
          PROVE  key[list[j]] <= key[t]
      <4>1. j \notin greater
        BY <1>1, <3>2, <3>3, <3>4, <3>5
      <4> QED
        BY <1>2, <4>1
    <3> QED
      BY <1>1, <3>4, <3>5
  <2> QED
    BY <2>1, <2>2
<1>4. \A j \in 1 .. Len(list) : j >= pos => key[t] <= key[list[j]]
  <2> SUFFICES ASSUME NEW j \in 1 .. Len(list), j >= pos
               PROVE  key[t] <= key[list[j]]
    OBVIOUS
  <2> HIDE DEF pos
  <2>1. pos \in 1 .. Len(list) /\ key[t] < key[list[pos]]
    BY <1>1, <1>3
  <2>2. key[list[pos]] <= key[list[j]]
    BY <1>1, <1>2, <2>1 DEF Sorted
  <2> QED
    BY <1>2, <2>1, <2>2
<1> HIDE DEF pos
<1>a. new = InsertAt(list, pos, t)
  BY DEF InsertOrdered, pos
<1> HIDE DEF new, greater
<1>5. /\ Len(new) = Len(list) + 1 /\ new \in Seq(Threads)
      /\ \A j \in 1 .. (Len(list) + 1) :
           new[j] = IF j < pos THEN list[j] ELSE IF j = pos THEN t ELSE list[j - 1]
  <2>1. pos \in 1 .. (Len(list) + 1)
    BY <1>3
  <2>2. /\ InsertAt(list, pos, t) \in Seq(Threads)
        /\ Len(InsertAt(list, pos, t)) = Len(list) + 1
        /\ \A j \in 1 .. (Len(list) + 1) :
             InsertAt(list, pos, t)[j] = IF j < pos THEN list[j]
                                         ELSE IF j = pos THEN t ELSE list[j - 1]
    BY <2>1, InsertAtElements
  <2> QED
    BY <1>a, <2>2
<1>6. DOMAIN new = 1 .. (Len(list) + 1)
  BY <1>5, LenProperties
<1>7. ASSUME NEW i \in 1 .. (Len(list) + 1), NEW j \in 1 .. (Len(list) + 1), i < j
      PROVE  key[new[i]] <= key[new[j]]
  <2>1. CASE i < pos /\ j < pos
    <3>1. i \in DOMAIN list /\ j \in DOMAIN list
      BY <1>1, <1>3, <2>1
    <3> QED
      BY <1>5, <1>7, <2>1, <3>1 DEF Sorted
  <2>2. CASE i < pos /\ j = pos
    <3>1. i \in 1 .. Len(list)
      BY <1>1, <1>3, <2>2
    <3>2. new[i] = list[i] /\ new[j] = t
      BY <1>1, <1>3, <1>5, <2>2
    <3> QED
      BY <1>3, <2>2, <3>1, <3>2
  <2>3. CASE i < pos /\ j > pos
    <3>1. i \in 1 .. Len(list) /\ j - 1 \in 1 .. Len(list) /\ j - 1 >= pos
      BY <1>1, <1>3, <2>3
    <3>2. new[i] = list[i] /\ new[j] = list[j - 1]
      BY <1>1, <1>3, <1>5, <2>3
    <3>3. key[list[i]] <= key[t] /\ key[t] <= key[list[j - 1]]
      BY <1>3, <1>4, <2>3, <3>1
    <3> QED
      BY <1>2, <3>1, <3>2, <3>3
  <2>4. CASE i = pos
    <3>1. j - 1 \in 1 .. Len(list) /\ j - 1 >= pos
      BY <1>1, <1>3, <1>7, <2>4
    <3>2. new[i] = t /\ new[j] = list[j - 1]
      BY <1>1, <1>3, <1>5, <1>7, <2>4
    <3> QED
      BY <1>4, <3>1, <3>2
  <2>5. CASE i > pos
    <3>1. i - 1 \in DOMAIN list /\ j - 1 \in DOMAIN list /\ i - 1 < j - 1
      BY <1>1, <1>3, <1>7, <2>5
    <3>2. new[i] = list[i - 1] /\ new[j] = list[j - 1]
      BY <1>1, <1>3, <1>5, <1>7, <2>5
    <3> QED
      BY <3>1, <3>2 DEF Sorted
  <2> QED
    BY <1>1, <1>3, <2>1, <2>2, <2>3, <2>4, <2>5
<1> QED
  BY <1>6, <1>7 DEF Sorted, new

LEMMA TailSorted ==
  ASSUME NEW list \in Seq(Threads), list # <<>>, NEW key, Sorted(list, key)
  PROVE  Sorted(Tail(list), key)
PROOF
<1>1. /\ Len(list) \in Nat \ {0} /\ DOMAIN list = 1 .. Len(list)
      /\ DOMAIN Tail(list) = 1 .. (Len(list) - 1)
      /\ \A i \in 1 .. (Len(list) - 1) : Tail(list)[i] = list[i + 1]
  OBVIOUS
<1>2. ASSUME NEW i \in DOMAIN Tail(list), NEW j \in DOMAIN Tail(list), i < j
      PROVE  key[Tail(list)[i]] <= key[Tail(list)[j]]
  <2>1. i + 1 \in DOMAIN list /\ j + 1 \in DOMAIN list /\ i + 1 < j + 1
    BY <1>1, <1>2
  <2>2. key[list[i + 1]] <= key[list[j + 1]]
    BY <2>1 DEF Sorted
  <2> QED
    BY <1>1, <2>2
<1> QED
  BY <1>2 DEF Sorted

LEMMA SameKeysSorted ==
  ASSUME NEW list \in Seq(Threads), NEW key, NEW new, Sorted(list, key),
         \A t \in Range(list) : new[t] = key[t]
  PROVE  Sorted(list, new)
PROOF
<1>1. \A i \in DOMAIN list : list[i] \in Range(list)
  BY DEF Range
<1> QED
  BY <1>1 DEF Sorted

LEMMA EmptySorted == ASSUME NEW key PROVE Sorted(<<>>, key)
  BY DEF Sorted

LEMMA UrgencyType ==
  ASSUME SchedTypeOK
  PROVE  /\ Urgency \in [Threads -> Int]
         /\ \A t \in Threads : Urgency[t] = 0 - priority[t]
PROOF
<1>1. \A t \in Threads : priority[t] \in Int
  BY NumbersAssumption DEF SchedTypeOK
<1> QED
  BY <1>1 DEF Urgency

LEMMA ReadySortedIff ==
  ASSUME SchedTypeOK
  PROVE  ReadySorted <=> Sorted(ready_list, Urgency)
PROOF
<1>1. \A i \in DOMAIN ready_list : /\ ready_list[i] \in Threads
                                   /\ priority[ready_list[i]] \in Int
                                   /\ Urgency[ready_list[i]] = 0 - priority[ready_list[i]]
  <2>1. \A t \in Threads : priority[t] \in Int /\ Urgency[t] = 0 - priority[t]
    BY NumbersAssumption, UrgencyType DEF SchedTypeOK
  <2>2. \A i \in DOMAIN ready_list : ready_list[i] \in Threads
    BY DEF SchedTypeOK
  <2> QED
    BY <2>1, <2>2
<1>2. \A i, j \in DOMAIN ready_list :
        Urgency[ready_list[i]] <= Urgency[ready_list[j]]
          <=> priority[ready_list[i]] >= priority[ready_list[j]]
  BY <1>1
<1> QED
  BY <1>2 DEF ReadySorted, Sorted

(* A context switch takes the head of the run queue off. *)
LEMMA ScheduleSorted ==
  ASSUME SchedTypeOK, SchedTypeOK', NEW st, NEW rl \in Seq(Threads),
         Sorted(rl, Urgency), Schedule(st, rl)
  PROVE  ReadySorted'
PROOF
<1>1. Urgency' = Urgency
  BY DEF Schedule, Urgency
<1>2. Sorted(ready_list', Urgency)
  BY TailSorted, EmptySorted DEF Schedule
<1>3. Sorted(ready_list, Urgency)'
  BY <1>1, <1>2 DEF Sorted
<1> QED
  BY <1>3, ReadySortedIff, PTL

LEMMA BlockSorted ==
  ASSUME SchedTypeOK, SchedTypeOK', ReadySorted, Block
  PROVE  ReadySorted'
PROOF
<1>1. Sorted(ready_list, Urgency) /\ ready_list \in Seq(Threads)
  BY ReadySortedIff DEF SchedTypeOK
<1> QED
  BY <1>1, ScheduleSorted DEF Block

LEMMA YieldSorted ==
  ASSUME SchedTypeOK, SchedTypeOK', ReadySorted, Yield
  PROVE  ReadySorted'
PROOF
<1>1. /\ Sorted(ready_list, Urgency) /\ ready_list \in Seq(Threads)
      /\ current \in Threads /\ Urgency \in [Threads -> Int]
  BY ReadySortedIff, UrgencyType DEF SchedTypeOK
<1>2. Sorted(InsertReady(current), Urgency) /\ InsertReady(current) \in Seq(Threads)
  BY <1>1, InsertOrderedSorted, InsertOrderedRange DEF InsertReady
<1> QED
  BY <1>1, <1>2, ScheduleSorted DEF Yield

LEMMA UnblockSorted ==
  ASSUME SchedTypeOK, SchedTypeOK', ReadySorted, NEW t \in Threads, Unblock(t)
  PROVE  ReadySorted'
PROOF
<1>1. /\ Sorted(ready_list, Urgency) /\ ready_list \in Seq(Threads)
      /\ Urgency \in [Threads -> Int]
  BY ReadySortedIff, UrgencyType DEF SchedTypeOK
<1>2. Urgency' = Urgency /\ ready_list' = InsertReady(t)
  BY DEF Unblock, Urgency
<1>3. Sorted(ready_list', Urgency)
  BY <1>1, <1>2, InsertOrderedSorted DEF InsertReady
<1>4. Sorted(ready_list, Urgency)'
  BY <1>2, <1>3 DEF Sorted
<1> QED
  BY <1>4, ReadySortedIff, PTL

(* Who enters and leaves the run queue, and who changes a priority. *)
LEMMA UpEffect ==
  ASSUME SemaTypeOK, NEW s \in SemaIds, Up(s)
  PROVE  UNCHANGED threadVars \/ \E t \in Threads : Unblock(t)
PROOF
<1>1. waiters[s] # <<>> => Head(waiters[s]) \in Threads
  BY HeadTailRange DEF SemaTypeOK
<1> QED
  BY <1>1 DEF Up

LEMMA RunQueueEffect ==
  ASSUME TypeOK, [Next]_vars
  PROVE  \/ UNCHANGED <<ready_list, priority>>
         \/ Block \/ Yield
         \/ \E t \in Threads : Unblock(t)
         \/ \E t \in Threads, prio \in Priorities : ThreadCreate(t, prio)
         \/ \E prio \in Priorities : ThreadSetPriority(prio)
         \/ ThreadDie
PROOF
<1> USE DEF threadVars
<1>0. /\ SemaTypeOK /\ current \in Threads /\ PlacesOK
      /\ sleep_list \in Seq(Threads) /\ cond_waiters \in [Conds -> Seq(Threads)]
  BY DEF TypeOK, SchedTypeOK, SleepTypeOK, LockTypeOK
<1>1. CASE UNCHANGED vars
  BY <1>1 DEF vars
<1>2. CASE SchedulerStep
  BY <1>2 DEF SchedulerStep, ThreadYield, IdleBlock
<1>d. ASSUME NEW s, NEW lock, Down(s, lock)
      PROVE  Block \/ UNCHANGED <<ready_list, priority>>
  BY <1>d DEF Down
<1>u. ASSUME NEW s \in SemaIds, Up(s)
      PROVE  UNCHANGED <<ready_list, priority>> \/ \E t \in Threads : Unblock(t)
  BY <1>0, <1>u, UpEffect
<1>3. CASE SemaStep
  <2>1. CASE ResumeDown
    BY <1>d, <2>1 DEF ResumeDown
  <2>2. ASSUME NEW s \in Semas, SemaDown(s) \/ SemaTryDown(s) \/ SemaUp(s) \/ DeviceInterrupt(s)
        PROVE  \/ UNCHANGED <<ready_list, priority>> \/ Block
               \/ \E t \in Threads : Unblock(t)
    <3>1. s \in SemaIds
      BY DEF SemaIds
    <3> QED
      BY <1>d, <1>u, <2>2, <3>1 DEF SemaDown, SemaTryDown, SemaUp, DeviceInterrupt
  <2> QED
    BY <1>3, <2>1, <2>2 DEF SemaStep
<1>4. CASE LockStep
  <2>1. CASE LockUp
    <3>1. pc[current].on \in SemaIds
      BY <1>0, <2>1 DEF LockUp, Running, PlacesOK, PlaceOK, SemaIds
    <3> QED
      BY <1>u, <2>1, <3>1 DEF LockUp
  <2>2. CASE SetHolder
    BY <2>2 DEF SetHolder
  <2>3. ASSUME NEW l \in Locks, LockAcquire(l) \/ LockTryAcquire(l) \/ LockRelease(l)
        PROVE  UNCHANGED <<ready_list, priority>> \/ Block
    BY <1>d, <2>3 DEF LockAcquire, LockTryAcquire, LockRelease
  <2> QED
    BY <1>4, <2>1, <2>2, <2>3 DEF LockStep
<1>5. CASE CondStep
  <2>s. ASSUME NEW c \in Conds, SignalOne(c)
        PROVE  UNCHANGED <<ready_list, priority>> \/ \E t \in Threads : Unblock(t)
    <3>1. Head(cond_waiters[c]) \in SemaIds
      BY <1>0, <2>s, HeadTailRange DEF SignalOne, SemaIds
    <3> QED
      BY <1>u, <2>s, <3>1 DEF SignalOne
  <2>1. CASE CondUp
    <3>1. pc[current].lk \in SemaIds
      BY <1>0, <2>1, ThreadsAssumption DEF CondUp, Running, PlacesOK, PlaceOK, SemaIds
    <3> QED
      BY <1>u, <2>1, <3>1 DEF CondUp
  <2>2. CASE CondDown \/ CondReacquire
    BY <1>d, <2>2 DEF CondDown, CondReacquire
  <2>3. CASE BroadcastNext
    <3>1. pc[current].on \in Conds
      BY <1>0, <2>3 DEF BroadcastNext, Running, PlacesOK, PlaceOK
    <3> QED
      BY <2>s, <2>3, <3>1 DEF BroadcastNext
  <2>4. ASSUME NEW c \in Conds, CondWait(c) \/ CondSignal(c) \/ CondBroadcast(c)
        PROVE  UNCHANGED <<ready_list, priority>> \/ \E t \in Threads : Unblock(t)
    BY <2>s, <2>4 DEF CondWait, CondSignal, CondBroadcast
  <2> QED
    BY <1>5, <2>1, <2>2, <2>3, <2>4 DEF CondStep
<1>6. CASE SleepStep
  BY <1>6 DEF SleepStep, CompareCallTime, StoreCallTime, ThreadSleep, TimerSleep
<1>7. CASE TimerStep
  <2>1. CASE WakeupOne
    BY <1>0, <2>1, HeadTailRange DEF WakeupOne
  <2> QED
    BY <1>7, <2>1 DEF TimerStep, TimerInterrupt, WakeupDone, IntrReturn
<1> QED
  BY <1>1, <1>2, <1>3, <1>4, <1>5, <1>6, <1>7 DEF Next

LEMMA SortedStep ==
  ASSUME TypeInv, TypeInv', QueueInv, ReadySorted, [Next]_vars
  PROVE  ReadySorted'
PROOF
<1>0. /\ SchedTypeOK /\ SchedTypeOK' /\ current \in Threads /\ ready_list \in Seq(Threads)
      /\ priority \in [Threads -> Priorities]
      /\ Sorted(ready_list, Urgency) /\ Urgency \in [Threads -> Int]
  BY ReadySortedIff, UrgencyType DEF TypeInv, TypeOK, SchedTypeOK
<1>1. CASE UNCHANGED <<ready_list, priority>>
  BY <1>1 DEF ReadySorted
<1>2. CASE Block
  BY <1>0, <1>2, BlockSorted
<1>3. CASE Yield
  BY <1>0, <1>3, YieldSorted
<1>4. ASSUME NEW t \in Threads, Unblock(t)
      PROVE  ReadySorted'
  BY <1>0, <1>4, UnblockSorted
<1>5. ASSUME NEW t \in Threads, NEW prio \in Priorities, ThreadCreate(t, prio)
      PROVE  ReadySorted'
  <2> DEFINE key == [Urgency EXCEPT ![t] = 0 - prio]
  <2>1. /\ ready_list' = InsertOrdered(ready_list, t, key)
        /\ priority' = [priority EXCEPT ![t] = prio]
    BY <1>5 DEF ThreadCreate
  <2>2. key \in [Threads -> Int]
    BY <1>0, NumbersAssumption
  <2>3. t \notin Range(ready_list)
    BY <1>5 DEF ThreadCreate, QueueInv, ReadyInv
  <2>4. \A u \in Range(ready_list) : key[u] = Urgency[u]
    BY <1>0, <2>3
  <2>5. Urgency' = key
    BY <1>0, <2>1 DEF Urgency
  <2> HIDE DEF key
  <2>6. Sorted(ready_list, key)
    BY <1>0, <2>4, SameKeysSorted
  <2>7. Sorted(ready_list', key)
    BY <1>0, <2>1, <2>2, <2>6, InsertOrderedSorted
  <2>8. Sorted(ready_list, Urgency)'
    BY <2>5, <2>7 DEF Sorted
  <2> QED
    BY <1>0, <2>8, ReadySortedIff, PTL
<1>6. ASSUME NEW prio \in Priorities, ThreadSetPriority(prio)
      PROVE  ReadySorted'
  <2>1. ready_list' = ready_list /\ priority' = [priority EXCEPT ![current] = prio]
    BY <1>6 DEF ThreadSetPriority
  <2>2. current \notin Range(ready_list)
    BY <1>0 DEF QueueInv, ReadyInv, RunningInv
  <2>3. \A i \in DOMAIN ready_list : priority'[ready_list[i]] = priority[ready_list[i]]
    BY <1>0, <2>1, <2>2 DEF Range
  <2> QED
    BY <2>1, <2>3 DEF ReadySorted
<1>7. CASE ThreadDie
  BY <1>0, <1>7, ScheduleSorted DEF ThreadDie
<1> QED
  BY <1>1, <1>2, <1>3, <1>4, <1>5, <1>6, <1>7, RunQueueEffect DEF TypeInv

(***************************************************************************)
(* The run queue is in descending order of priority, for any priorities    *)
(* and however often threads change theirs: next_thread_to_run() takes a   *)
(* thread of the highest priority that is ready.                           *)
(***************************************************************************)
THEOREM RunQueueSorted == Spec => []ReadySorted
PROOF
<1>1. Init => TypeInv /\ QueueInv /\ ReadySorted
  <2>1. Init => ReadySorted
    BY DEF Init, ReadySorted
  <2> QED
    BY <2>1, TypeInit, QueueInit
<1>2. TypeInv /\ QueueInv /\ ReadySorted /\ [Next]_vars =>
        TypeInv' /\ QueueInv' /\ ReadySorted'
  BY TypeStep, QueueStep, SortedStep
<1> QED
  BY <1>1, <1>2, PTL DEF Spec

-----------------------------------------------------------------------------
(***************************************************************************)
(* Sleepers.  SleepersCovered is not inductive: a thread that is about to  *)
(* block in timer_sleep() must be covered too, or the list it enters is    *)
(* not.                                                                    *)
(***************************************************************************)
Sleeper(t) == t \in Range(sleep_list) \/ pc[t].at = "sleep"

CoveredInv ==
  /\ Sorted(sleep_list, wakeup_time)
  /\ (\E t \in Threads : Sleeper(t)) =>
       \/ wakeup_call_time <= ticks
       \/ \E t \in Threads : Sleeper(t) /\ wakeup_call_time <= wakeup_time[t]

(* sema_down() ends outside timer_sleep(). *)
LEMMA DownMoves ==
  ASSUME TypeOK, NEW s, NEW lock, Down(s, lock)
  PROVE  /\ pc'[current].at \in {"down", "own", "reacquire", "run"}
         /\ \A t \in Threads \ {current} : pc'[t] = pc[t]
PROOF
<1>0. current \in Threads /\ PcTypeOK
  BY DEF TypeOK, SchedTypeOK
<1>1. CASE Goto(At("down", s, lock))
  BY <1>0, <1>1, GotoMove DEF At
<1>2. CASE Goto(AfterDown(s, lock))
  BY <1>0, <1>2, GotoMove DEF AfterDown, At, Run
<1> QED
  BY <1>1, <1>2 DEF Down

LEMMA SleepersStay ==
  ASSUME TypeOK, QueueInv, SchedulerStep \/ SemaStep \/ LockStep \/ CondStep
  PROVE  \A t \in Threads : pc'[t].at = "sleep" <=> pc[t].at = "sleep"
PROOF
<1>0. current \in Threads /\ PcTypeOK /\ Run.at = "run"
  BY DEF TypeOK, SchedTypeOK, Run, At
<1>g. ASSUME NEW r, Goto(r), r.at # "sleep", pc[current].at # "sleep"
      PROVE  \A t \in Threads : pc'[t].at = "sleep" <=> pc[t].at = "sleep"
  BY <1>0, <1>g, GotoMove
<1>d. ASSUME NEW s, NEW lock, Down(s, lock), pc[current].at # "sleep"
      PROVE  \A t \in Threads : pc'[t].at = "sleep" <=> pc[t].at = "sleep"
  BY <1>0, <1>d, DownMoves
<1>a. \A place, obj, lock : At(place, obj, lock).at = place
  BY DEF At
<1>1. CASE SchedulerStep
  <2>1. ASSUME NEW t \in Threads, NEW prio \in Priorities, ThreadCreate(t, prio)
        PROVE  \A u \in Threads : pc'[u].at = "sleep" <=> pc[u].at = "sleep"
    <3>1. pc[t].at = "run"
      BY <2>1 DEF ThreadCreate, QueueInv, RunningInv
    <3>2. pc'[t] = Run /\ \A u \in Threads \ {t} : pc'[u] = pc[u]
      BY <1>0, <2>1 DEF ThreadCreate, PcTypeOK
    <3> QED
      BY <1>0, <3>1, <3>2
  <2>2. CASE IdleBlock
    BY <1>a, <1>g, <2>2 DEF IdleBlock, Running
  <2> QED
    BY <1>1, <2>1, <2>2 DEF SchedulerStep, ThreadYield, ThreadDie, ThreadSetPriority
<1>2. CASE SemaStep
  <2>1. ASSUME NEW s \in Semas, DeviceInterrupt(s)
        PROVE  \A u \in Threads : pc'[u].at = "sleep" <=> pc[u].at = "sleep"
    <3>1. pc[Idle].at # "sleep"
      BY DEF QueueInv, RunningInv
    <3> QED
      BY <1>0, <2>1, <3>1 DEF DeviceInterrupt, EndHlt, PcTypeOK
  <2> QED
    BY <1>2, <1>d, <2>1 DEF SemaStep, ResumeDown, SemaDown, SemaTryDown, SemaUp, Calls, Running
<1>3. CASE LockStep
  BY <1>3, <1>0, <1>a, <1>d, <1>g DEF LockStep, SetHolder, LockUp, LockAcquire, LockTryAcquire,
     LockRelease, Calls, Running
<1>4. CASE CondStep
  <2>1. CASE BroadcastNext
    BY <1>0, <1>g, <2>1 DEF BroadcastNext, Running
  <2>2. ASSUME NEW c \in Conds, CondWait(c) \/ CondSignal(c) \/ CondBroadcast(c)
        PROVE  \A u \in Threads : pc'[u].at = "sleep" <=> pc[u].at = "sleep"
    BY <1>0, <1>a, <1>g, <2>2 DEF CondWait, CondSignal, CondBroadcast, Calls, Running
  <2>3. CASE CondUp
    BY <1>0, <1>a, <1>g, <2>3 DEF CondUp, Running
  <2>4. CASE CondDown \/ CondReacquire
    BY <1>d, <2>4 DEF CondDown, CondReacquire, Running
  <2> QED
    BY <1>4, <2>1, <2>2, <2>3, <2>4 DEF CondStep
<1> QED
  BY <1>1, <1>2, <1>3, <1>4

(* A step that neither wakes a thread nor puts one to sleep. *)
LEMMA KeepCovered ==
  ASSUME TypeOK, CoveredInv, sleep_list' = sleep_list,
         \A t \in Threads : pc'[t].at = "sleep" <=> pc[t].at = "sleep",
         wakeup_call_time' <= wakeup_call_time, wakeup_call_time' \in Int,
         ticks' >= ticks, ticks' \in Int,
         \A t \in Threads : Sleeper(t) => wakeup_time'[t] = wakeup_time[t]
  PROVE  CoveredInv'
PROOF
<1>0. /\ sleep_list \in Seq(Threads) /\ Range(sleep_list) \subseteq Threads
      /\ wakeup_call_time \in Int /\ wakeup_time \in [Threads -> Int] /\ ticks \in Int
  BY NumbersAssumption DEF TypeOK, SleepTypeOK, IntrTypeOK, Range
<1>1. \A t \in Threads : Sleeper(t)' <=> Sleeper(t)
  BY DEF Sleeper
<1>2. Sorted(sleep_list, wakeup_time)'
  <2>1. \A t \in Range(sleep_list) : wakeup_time'[t] = wakeup_time[t]
    BY <1>0 DEF Sleeper
  <2>2. Sorted(sleep_list, wakeup_time')
    BY <1>0, <2>1, SameKeysSorted DEF CoveredInv
  <2> QED
    BY <2>2 DEF Sorted
<1>3. ASSUME \E t \in Threads : Sleeper(t)'
      PROVE  \/ wakeup_call_time' <= ticks'
             \/ \E t \in Threads : Sleeper(t)' /\ wakeup_call_time' <= wakeup_time'[t]
  <2>1. CASE wakeup_call_time <= ticks
    BY <1>0, <2>1
  <2>2. CASE \E t \in Threads : Sleeper(t) /\ wakeup_call_time <= wakeup_time[t]
    <3>1. PICK t \in Threads : Sleeper(t) /\ wakeup_call_time <= wakeup_time[t]
      BY <2>2
    <3>2. wakeup_call_time' <= wakeup_time'[t]
      BY <1>0, <3>1
    <3> QED
      BY <1>1, <3>1, <3>2
  <2> QED
    BY <1>1, <1>3, <2>1, <2>2 DEF CoveredInv
<1> QED
  BY <1>2, <1>3 DEF CoveredInv

LEMMA SleepCoveredStep ==
  ASSUME TypeOK, QueueInv, CoveredInv, SleepStep
  PROVE  CoveredInv'
PROOF
<1>0. /\ current \in Threads /\ PcTypeOK /\ status[current] = "RUNNING"
      /\ sleep_list \in Seq(Threads) /\ Range(sleep_list) \subseteq Threads
      /\ wakeup_call_time \in Int /\ wakeup_time \in [Threads -> Int] /\ ticks \in Int
  BY NumbersAssumption DEF TypeOK, SchedTypeOK, SleepTypeOK, IntrTypeOK, Range, QueueInv,
     RunningInv
<1>a. \A place, obj, lock : At(place, obj, lock).at = place
  BY DEF At
<1>b. current \notin Range(sleep_list)
  BY <1>0 DEF QueueInv, SleepInv
<1>1. ASSUME NEW n \in Sleeps, TimerSleep(n)
      PROVE  CoveredInv'
  <2>1. /\ pc'[current] = At("compare", NULL, NULL) /\ pc[current].at = "run"
        /\ \A t \in Threads \ {current} : pc'[t] = pc[t]
    BY <1>0, <1>1, GotoMove DEF TimerSleep, Calls, Running
  <2>2. /\ UNCHANGED <<sleep_list, wakeup_call_time, ticks>>
        /\ \A t \in Threads \ {current} : wakeup_time'[t] = wakeup_time[t]
    BY <1>0, <1>1 DEF TimerSleep, intrVars
  <2>3. ~Sleeper(current)
    BY <1>b, <2>1 DEF Sleeper
  <2> QED
    BY <1>0, <1>a, <2>1, <2>2, <2>3, KeepCovered
<1>2. CASE CompareCallTime
  <2>1. UNCHANGED <<sleepVars, ticks>>
    BY <1>2 DEF CompareCallTime, intrVars
  <2>2. \A t \in Threads \ {current} : pc'[t] = pc[t]
    BY <1>0, <1>2, GotoMove DEF CompareCallTime
  <2>3. pc'[current].at = IF wakeup_time[current] < wakeup_call_time THEN "store" ELSE "sleep"
    BY <1>0, <1>2, <1>a, GotoMove DEF CompareCallTime
  <2>4. CASE wakeup_time[current] < wakeup_call_time
    <3>1. pc[current].at # "sleep"
      BY <1>2 DEF CompareCallTime, Running
    <3> QED
      BY <1>0, <2>1, <2>2, <2>3, <2>4, <3>1, KeepCovered DEF sleepVars
  <2>5. CASE ~(wakeup_time[current] < wakeup_call_time)
    <3>1. wakeup_call_time' <= wakeup_time'[current]
      BY <1>0, <2>1, <2>5 DEF sleepVars
    <3>2. Sorted(sleep_list, wakeup_time)'
      BY <2>1 DEF CoveredInv, Sorted, sleepVars
    <3>3. \E t \in Threads : pc'[t].at = "sleep" /\ wakeup_call_time' <= wakeup_time'[t]
      BY <1>0, <2>3, <2>5, <3>1
    <3> QED
      BY <3>2, <3>3 DEF CoveredInv, Sleeper
  <2> QED
    BY <2>4, <2>5
<1>3. CASE StoreCallTime
  <2>1. UNCHANGED <<wakeup_time, sleep_list>> /\ wakeup_call_time' = wakeup_time[current]
    BY <1>3 DEF StoreCallTime
  <2>2. pc'[current].at = "sleep"
    BY <1>0, <1>3, <1>a, GotoMove DEF StoreCallTime
  <2>3. wakeup_call_time' <= wakeup_time'[current]
    BY <1>0, <2>1
  <2>4. Sorted(sleep_list, wakeup_time)'
    BY <2>1 DEF CoveredInv, Sorted
  <2>5. \E t \in Threads : pc'[t].at = "sleep" /\ wakeup_call_time' <= wakeup_time'[t]
    BY <1>0, <2>2, <2>3
  <2> QED
    BY <2>4, <2>5 DEF CoveredInv, Sleeper
<1>4. CASE ThreadSleep
  <2>1. /\ UNCHANGED <<wakeup_time, wakeup_call_time, ticks>>
        /\ sleep_list' = InsertOrdered(sleep_list, current, wakeup_time)
        /\ pc[current].at = "sleep"
    BY <1>4 DEF ThreadSleep, intrVars, Running
  <2>2. \A t \in Threads \ {current} : pc'[t] = pc[t]
    BY <1>0, <1>4, GotoMove DEF ThreadSleep
  <2>3. Range(sleep_list') = Range(sleep_list) \cup {current}
    BY <1>0, <2>1, InsertOrderedRange
  <2>4. Sorted(sleep_list', wakeup_time)
    BY <1>0, <2>1, InsertOrderedSorted DEF CoveredInv
  <2>5. Sorted(sleep_list, wakeup_time)'
    BY <2>1, <2>4 DEF Sorted
  <2>6. \A t \in Threads : Sleeper(t) => Sleeper(t)'
    BY <2>2, <2>3 DEF Sleeper
  <2>7. Sleeper(current)
    BY <2>1 DEF Sleeper
  <2> QED
    BY <1>0, <2>1, <2>5, <2>6, <2>7 DEF CoveredInv
<1> QED
  BY <1>1, <1>2, <1>3, <1>4 DEF SleepStep

LEMMA TimerCoveredStep ==
  ASSUME TypeOK, QueueInv, CoveredInv, TimerStep
  PROVE  CoveredInv'
PROOF
<1>0. /\ current \in Threads /\ PcTypeOK
      /\ sleep_list \in Seq(Threads) /\ Range(sleep_list) \subseteq Threads
      /\ wakeup_call_time \in Int /\ wakeup_time \in [Threads -> Int]
      /\ ticks \in Int /\ INT64_MAX \in Int /\ MaxTicks \in Int
  BY NumbersAssumption DEF TypeOK, SchedTypeOK, SleepTypeOK, IntrTypeOK, Range, INT64_MAX
<1>1. CASE TimerInterrupt
  <2>1. \A t \in Threads : pc'[t].at = "sleep" <=> pc[t].at = "sleep"
    <3>1. pc[Idle].at # "sleep" /\ Run.at = "run"
      BY DEF QueueInv, RunningInv, Run, At
    <3> QED
      BY <1>0, <1>1, <3>1 DEF TimerInterrupt, EndHlt, PcTypeOK
  <2>2. UNCHANGED sleepVars /\ ticks' \in Int /\ ticks' >= ticks
    BY <1>0, <1>1 DEF TimerInterrupt
  <2> QED
    BY <1>0, <2>1, <2>2, KeepCovered DEF sleepVars
<1>2. CASE WakeupOne
  <2> DEFINE h == Head(sleep_list)
  <2>1. /\ sleep_list # <<>> /\ wakeup_time[h] <= ticks /\ sleep_list' = Tail(sleep_list)
        /\ UNCHANGED <<wakeup_time, wakeup_call_time, ticks, pc>>
    BY <1>2 DEF WakeupOne, intrVars
  <2>2. h \in Threads /\ Range(sleep_list) = Range(Tail(sleep_list)) \cup {h}
    BY <1>0, <2>1, HeadTailRange
  <2> HIDE DEF h
  <2>3. Sorted(sleep_list, wakeup_time)'
    <3>1. Sorted(Tail(sleep_list), wakeup_time)
      BY <1>0, <2>1, TailSorted DEF CoveredInv
    <3> QED
      BY <2>1, <3>1 DEF Sorted
  <2>4. \A t \in Threads : /\ Sleeper(t) => Sleeper(t)' \/ t = h
                           /\ Sleeper(t)' => Sleeper(t)
    BY <2>1, <2>2 DEF Sleeper
  <2>5. ASSUME \E t \in Threads : Sleeper(t)'
        PROVE  \/ wakeup_call_time' <= ticks'
               \/ \E t \in Threads : Sleeper(t)' /\ wakeup_call_time' <= wakeup_time'[t]
    <3>1. CASE wakeup_call_time <= ticks
      BY <2>1, <3>1
    <3>2. CASE \E t \in Threads : Sleeper(t) /\ wakeup_call_time <= wakeup_time[t]
      <4>1. PICK t \in Threads : Sleeper(t) /\ wakeup_call_time <= wakeup_time[t]
        BY <3>2
      <4>2. CASE t = h
        BY <1>0, <2>1, <4>1, <4>2
      <4>3. CASE t # h
        BY <2>1, <2>4, <4>1, <4>3
      <4> QED
        BY <4>2, <4>3
    <3> QED
      BY <2>4, <2>5, <3>1, <3>2 DEF CoveredInv
  <2> QED
    BY <2>3, <2>5 DEF CoveredInv
<1>3. CASE WakeupDone
  <2>1. sleep_list # <<>> => wakeup_time[Head(sleep_list)] \in Int
    BY <1>0, HeadTailRange
  <2>2. wakeup_call_time' <= wakeup_call_time /\ wakeup_call_time' \in Int
    BY <1>0, <1>3, <2>1 DEF WakeupDone
  <2> QED
    BY <1>0, <1>3, <2>2, KeepCovered DEF WakeupDone
<1>4. CASE IntrReturn
  BY <1>0, <1>4, KeepCovered DEF IntrReturn, sleepVars
<1> QED
  BY <1>1, <1>2, <1>3, <1>4 DEF TimerStep

LEMMA CoveredStep ==
  ASSUME TypeOK, QueueInv, CoveredInv, [Next]_vars
  PROVE  CoveredInv'
PROOF
<1>0. /\ current \in Threads
      /\ wakeup_call_time \in Int /\ wakeup_time \in [Threads -> Int] /\ ticks \in Int
  BY NumbersAssumption DEF TypeOK, SchedTypeOK, SleepTypeOK, IntrTypeOK
<1>1. CASE UNCHANGED vars
  BY <1>0, <1>1, KeepCovered DEF vars, sleepVars, intrVars
<1>2. CASE SchedulerStep \/ SemaStep \/ LockStep \/ CondStep
  <2>1. \A t \in Threads : pc'[t].at = "sleep" <=> pc[t].at = "sleep"
    BY <1>2, SleepersStay
  <2>2. ASSUME NEW u \in Threads, NEW prio \in Priorities, ThreadCreate(u, prio)
        PROVE  CoveredInv'
    <3>1. ~Sleeper(u)
      BY <2>2 DEF ThreadCreate, Sleeper, QueueInv, SleepInv, RunningInv
    <3>2. /\ UNCHANGED <<sleep_list, wakeup_call_time, ticks>>
          /\ \A t \in Threads \ {u} : wakeup_time'[t] = wakeup_time[t]
      BY <1>0, <2>2 DEF ThreadCreate, intrVars
    <3> QED
      BY <1>0, <2>1, <3>1, <3>2, KeepCovered
  <2>3. CASE UNCHANGED <<sleepVars, ticks>>
    BY <1>0, <2>1, <2>3, KeepCovered DEF sleepVars
  <2>4. CASE SchedulerStep
    BY <2>2, <2>3, <2>4 DEF SchedulerStep, ThreadYield, ThreadDie, IdleBlock,
       ThreadSetPriority, intrVars
  <2>5. CASE SemaStep
    BY <2>3, <2>5 DEF SemaStep, ResumeDown, SemaDown, SemaTryDown, SemaUp, DeviceInterrupt,
       intrVars
  <2>6. CASE LockStep
    BY <2>3, <2>6 DEF LockStep, SetHolder, LockUp, LockAcquire, LockTryAcquire, LockRelease,
       intrVars
  <2>7. CASE CondStep
    BY <2>3, <2>7 DEF CondStep, CondUp, CondDown, CondReacquire, BroadcastNext, CondWait,
       CondSignal, CondBroadcast, intrVars
  <2> QED
    BY <1>2, <2>4, <2>5, <2>6, <2>7
<1>3. CASE SleepStep
  BY <1>3, SleepCoveredStep
<1>4. CASE TimerStep
  BY <1>4, TimerCoveredStep
<1> QED
  BY <1>1, <1>2, <1>3, <1>4 DEF Next

(***************************************************************************)
(* For any number of sleeping threads and any sleeps: the sleep list is in *)
(* order, and although update_wakeup_call_time() races, wakeup_call_time   *)
(* is never later than every thread that sleeps or is about to.            *)
(***************************************************************************)
THEOREM SleepersFound == Spec => []SleepersCovered
PROOF
<1>1. Init => TypeInv /\ QueueInv /\ CoveredInv
  <2>1. Init => CoveredInv
    BY DEF Init, CoveredInv, Sorted, Sleeper, Range, Run, At
  <2> QED
    BY <2>1, TypeInit, QueueInit
<1>2. TypeInv /\ QueueInv /\ CoveredInv /\ [Next]_vars =>
        TypeInv' /\ QueueInv' /\ CoveredInv'
  BY TypeStep, QueueStep, CoveredStep DEF TypeInv
<1>3. TypeInv /\ CoveredInv => SleepersCovered
  <2> SUFFICES ASSUME TypeInv, CoveredInv, sleep_list # <<>>
               PROVE  \E t \in Threads : Sleeper(t)
    BY DEF CoveredInv, SleepersCovered, Sorted, Sleeper
  <2>1. sleep_list \in Seq(Threads)
    BY DEF TypeInv, TypeOK, SleepTypeOK
  <2> QED
    BY <2>1, HeadTailRange DEF Sleeper
<1> QED
  BY <1>1, <1>2, <1>3, PTL DEF Spec

-----------------------------------------------------------------------------
(***************************************************************************)
(* No wakeup is lost.  A step is quiet for the semaphores, or is one turn  *)
(* of sema_down()'s loop, or contains a sema_up().  By QueueInv, before    *)
(* and after the step, the woken threads of a semaphore are those in       *)
(* sema_down() that are not on its list.                                   *)
(***************************************************************************)
Downing(t, s) == pc[t].at = "down" /\ pc[t].on = s

SameDowners ==
  \A t \in Threads : /\ pc'[t].at = "down" <=> pc[t].at = "down"
                     /\ pc[t].at = "down" => pc'[t].on = pc[t].on

Quiet ==
  /\ SameDowners
  /\ \A s \in SemaIds : waiters'[s] = waiters[s] /\ value'[s] <= value[s]

LEMMA SemaphoreEffect ==
  ASSUME TypeOK, QueueInv, [Next]_vars
  PROVE  \/ Quiet
         \/ \E s \in SemaIds, lock \in Locks \cup {NULL} :
              Down(s, lock) /\ (pc[current].at = "down" => pc[current].on = s)
         \/ \E s \in SemaIds : Up(s) /\ SameDowners
PROOF
<1> USE ThreadsAssumption
<1>0. /\ current \in Threads /\ PcTypeOK /\ PlacesOK /\ Run.at = "run" /\ SemaTypeOK
      /\ LockTypeOK
  BY DEF TypeOK, SchedTypeOK, Run, At
<1>a. \A place, obj, lock : At(place, obj, lock).at = place
  BY DEF At
<1>g. ASSUME NEW r, Goto(r), r.at # "down", pc[current].at # "down" PROVE SameDowners
  <2>1. pc'[current] = r /\ \A t \in Threads \ {current} : pc'[t] = pc[t]
    BY <1>0, <1>g, GotoMove
  <2> QED
    BY <1>0, <1>g, <2>1 DEF SameDowners
<1>p. ASSUME UNCHANGED pc PROVE SameDowners
  BY <1>p DEF SameDowners
<1>h. ASSUME EndHlt PROVE SameDowners
  BY <1>0, <1>h DEF EndHlt, SameDowners, PcTypeOK, QueueInv, RunningInv
<1>q. ASSUME UNCHANGED <<value, waiters>>
      PROVE  \A s \in SemaIds : waiters'[s] = waiters[s] /\ value'[s] <= value[s]
  BY <1>0, <1>q DEF SemaTypeOK
<1>t. ASSUME NEW s \in SemaIds, value' = [value EXCEPT ![s] = @ - 1], waiters' = waiters
      PROVE  \A r \in SemaIds : waiters'[r] = waiters[r] /\ value'[r] <= value[r]
  BY <1>0, <1>t DEF SemaTypeOK
<1>1. CASE UNCHANGED vars
  BY <1>1, <1>p, <1>q DEF vars, semaVars, Quiet
<1>2. CASE SchedulerStep
  <2>1. UNCHANGED <<value, waiters>>
    BY <1>2 DEF SchedulerStep, ThreadYield, ThreadDie, IdleBlock, ThreadSetPriority,
       ThreadCreate, semaVars
  <2>2. ASSUME NEW t \in Threads, NEW prio \in Priorities, ThreadCreate(t, prio)
        PROVE  SameDowners
    <3>1. pc[t].at = "run"
      BY <2>2 DEF ThreadCreate, QueueInv, RunningInv
    <3>2. pc'[t] = Run /\ \A u \in Threads \ {t} : pc'[u] = pc[u]
      BY <1>0, <2>2 DEF ThreadCreate, PcTypeOK
    <3> QED
      BY <1>0, <3>1, <3>2 DEF SameDowners
  <2>3. ASSUME IdleBlock PROVE SameDowners
    BY <1>a, <1>g, <2>3 DEF IdleBlock, Running
  <2>4. SameDowners
    BY <1>2, <1>p, <2>2, <2>3 DEF SchedulerStep, ThreadYield, ThreadDie, ThreadSetPriority
  <2> QED
    BY <1>q, <2>1, <2>4 DEF Quiet
<1>3. CASE SemaStep
  <2>1. CASE ResumeDown
    <3>1. pc[current].on \in SemaIds /\ pc[current].lk \in Locks \cup {NULL}
      BY <1>0, <2>1 DEF ResumeDown, Running, PlacesOK, PlaceOK, PcTypeOK
    <3> QED
      BY <2>1, <3>1 DEF ResumeDown
  <2>2. ASSUME NEW s \in Semas, SemaDown(s)
        PROVE  Down(s, NULL) /\ pc[current].at # "down" /\ s \in SemaIds
    BY <2>2 DEF SemaDown, Calls, Running, SemaIds
  <2>3. ASSUME NEW s \in Semas, SemaTryDown(s) PROVE Quiet
    BY <1>p, <1>t, <2>3 DEF SemaTryDown, Quiet, SemaIds
  <2>4. ASSUME NEW s \in Semas, SemaUp(s) \/ DeviceInterrupt(s)
        PROVE  Up(s) /\ SameDowners /\ s \in SemaIds
    BY <1>p, <1>h, <2>4 DEF SemaUp, DeviceInterrupt, SemaIds
  <2> QED
    BY <1>3, <2>1, <2>2, <2>3, <2>4 DEF SemaStep
<1>4. CASE LockStep
  <2>1. CASE SetHolder
    BY <1>0, <1>g, <1>q, <2>1 DEF SetHolder, Running, semaVars, Quiet
  <2>2. CASE LockUp
    <3>1. pc[current].on \in SemaIds
      BY <1>0, <2>2 DEF LockUp, Running, PlacesOK, PlaceOK, SemaIds
    <3> QED
      BY <1>0, <1>g, <2>2, <3>1 DEF LockUp, Running
  <2>3. ASSUME NEW l \in Locks, LockAcquire(l)
        PROVE  Down(l, NULL) /\ pc[current].at # "down" /\ l \in SemaIds
    BY <2>3 DEF LockAcquire, Calls, Running, SemaIds
  <2>4. ASSUME NEW l \in Locks, LockTryAcquire(l) PROVE Quiet
    <3>1. SameDowners
      BY <1>a, <1>g, <2>4 DEF LockTryAcquire, Calls, Running
    <3> QED
      BY <1>t, <2>4, <3>1 DEF LockTryAcquire, Quiet, SemaIds
  <2>5. ASSUME NEW l \in Locks, LockRelease(l) PROVE Quiet
    BY <1>a, <1>g, <1>q, <2>5 DEF LockRelease, Calls, Running, semaVars, Quiet
  <2> QED
    BY <1>4, <2>1, <2>2, <2>3, <2>4, <2>5 DEF LockStep
<1>5. CASE CondStep
  <2>1. CASE CondUp
    <3>1. pc[current].lk \in SemaIds
      BY <1>0, <2>1 DEF CondUp, Running, PlacesOK, PlaceOK, SemaIds
    <3> QED
      BY <1>a, <1>g, <2>1, <3>1 DEF CondUp, Running
  <2>2. CASE CondDown
    <3>1. current \in SemaIds /\ pc[current].lk \in Locks \cup {NULL}
      BY <1>0 DEF PcTypeOK, SemaIds
    <3> QED
      BY <2>2, <3>1 DEF CondDown, Running
  <2>3. CASE CondReacquire
    <3>1. pc[current].lk \in SemaIds /\ pc[current].lk \in Locks \cup {NULL}
      BY <1>0, <2>3 DEF CondReacquire, Running, PlacesOK, PlaceOK, SemaIds
    <3> QED
      BY <2>3, <3>1 DEF CondReacquire, Running
  <2>s. ASSUME NEW c \in Conds, SignalOne(c)
        PROVE  \E s \in SemaIds : Up(s)
    BY <1>0, <2>s, HeadTailProperties DEF SignalOne, LockTypeOK, SemaIds
  <2>4. CASE BroadcastNext
    <3>1. pc[current].on \in Conds
      BY <1>0, <2>4 DEF BroadcastNext, Running, PlacesOK, PlaceOK
    <3>2. CASE SignalOne(pc[current].on) /\ UNCHANGED pc
      BY <1>p, <2>s, <3>1, <3>2
    <3>3. CASE Goto(Run) /\ UNCHANGED semaVars
      BY <1>0, <1>g, <1>q, <2>4, <3>3 DEF BroadcastNext, Running, semaVars, Quiet
    <3> QED
      BY <2>4, <3>2, <3>3 DEF BroadcastNext
  <2>5. ASSUME NEW c \in Conds, CondWait(c) PROVE Quiet
    <3>1. SameDowners
      BY <1>a, <1>g, <2>5 DEF CondWait, Calls, Running
    <3>2. waiters[current] = <<>> /\ current \in SemaIds
      BY OwnSemaphoreFree DEF SemaIds, TypeOK, SchedTypeOK
    <3>3. \A s \in SemaIds : waiters'[s] = waiters[s] /\ value'[s] <= value[s]
      BY <1>0, <2>5, <3>2 DEF CondWait, SemaTypeOK
    <3> QED
      BY <3>1, <3>3 DEF Quiet
  <2>6. ASSUME NEW c \in Conds, CondSignal(c) PROVE \E s \in SemaIds : Up(s) /\ SameDowners
    BY <1>p, <2>s, <2>6 DEF CondSignal
  <2>7. ASSUME NEW c \in Conds, CondBroadcast(c) PROVE Quiet
    BY <1>a, <1>g, <1>q, <2>7 DEF CondBroadcast, Calls, Running, semaVars, Quiet
  <2> QED
    BY <1>5, <2>1, <2>2, <2>3, <2>4, <2>5, <2>6, <2>7 DEF CondStep
<1>6. CASE SleepStep
  <2>1. UNCHANGED <<value, waiters>>
    BY <1>6 DEF SleepStep, CompareCallTime, StoreCallTime, ThreadSleep, TimerSleep, semaVars
  <2>2. SameDowners
    BY <1>0, <1>6, <1>a, <1>g DEF SleepStep, CompareCallTime, StoreCallTime, ThreadSleep,
       TimerSleep, Running, Calls
  <2> QED
    BY <1>q, <2>1, <2>2 DEF Quiet
<1>7. CASE TimerStep
  <2>1. UNCHANGED <<value, waiters>>
    BY <1>7 DEF TimerStep, TimerInterrupt, WakeupOne, WakeupDone, IntrReturn, semaVars
  <2>2. SameDowners
    BY <1>7, <1>h, <1>p DEF TimerStep, TimerInterrupt, WakeupOne, WakeupDone, IntrReturn
  <2> QED
    BY <1>q, <2>1, <2>2 DEF Quiet
<1> QED
  BY <1>1, <1>2, <1>3, <1>4, <1>5, <1>6, <1>7 DEF Next

(* NoLostWakeup for one semaphore, with what the count needs. *)
WakeOK(s) ==
  /\ IsFiniteSet(Woken(s))
  /\ waiters[s] = <<>> \/ value[s] <= Cardinality(Woken(s))

WakeInv == \A s \in SemaIds : WakeOK(s)

LEMMA WokenThreads ==
  ASSUME QueueInv, NEW s \in SemaIds
  PROVE  \A t \in Threads : t \in Woken(s) <=> Downing(t, s) /\ t \notin Range(waiters[s])
  BY DEF QueueInv, WaitersInv, Woken, Downing

(* A step that neither wakes a waiter of s nor lets a thread at s move. *)
LEMMA KeepWake ==
  ASSUME TypeOK, TypeOK', QueueInv, QueueInv', NEW s \in SemaIds, WakeOK(s),
         \A t \in Threads : Downing(t, s)' <=> Downing(t, s),
         waiters'[s] = waiters[s], value'[s] <= value[s]
  PROVE  WakeOK(s)'
PROOF
<1>1. \A t \in Threads : t \in Woken(s)' <=> Downing(t, s)' /\ t \notin Range(waiters'[s])
  BY DEF QueueInv, WaitersInv, Woken, Downing
<1>2. \A t \in Threads : t \in Woken(s)' <=> t \in Woken(s)
  BY <1>1, WokenThreads
<1>3. Woken(s)' = Woken(s)
  BY <1>2 DEF Woken
<1>4. value[s] \in Nat /\ value'[s] \in Nat /\ Cardinality(Woken(s)) \in Nat
  BY FS_CardinalityType DEF TypeOK, SemaTypeOK, WakeOK
<1> QED
  BY <1>3, <1>4 DEF WakeOK

(* sema_up(s): the new unit is spoken for by the thread it wakes. *)
LEMMA UpWake ==
  ASSUME TypeOK, TypeOK', QueueInv, QueueInv', WakeInv, NEW s \in SemaIds, Up(s), SameDowners
  PROVE  WakeInv'
PROOF
<1>0. SemaTypeOK /\ PcTypeOK
  BY DEF TypeOK
<1>1. \A t \in Threads, r \in SemaIds : Downing(t, r)' <=> Downing(t, r)
  BY DEF SameDowners, Downing
<1>2. ASSUME NEW r \in SemaIds, r # s PROVE WakeOK(r)'
  <2>1. waiters'[r] = waiters[r] /\ value'[r] <= value[r]
    BY <1>0, <1>2 DEF Up, SemaTypeOK
  <2> QED
    BY <1>1, <2>1, KeepWake DEF WakeInv
<1>3. WakeOK(s)'
  <2>1. /\ IsFiniteSet(Woken(s)) /\ Cardinality(Woken(s)) \in Nat
        /\ value[s] \in Nat /\ value'[s] = value[s] + 1
    BY <1>0, FS_CardinalityType DEF WakeInv, WakeOK, Up, SemaTypeOK
  <2>2. CASE waiters[s] = <<>>
    <3>1. waiters'[s] = <<>>
      BY <2>2 DEF Up
    <3>2. \A t \in Threads : t \in Woken(s)' <=> Downing(t, s)' /\ t \notin Range(waiters'[s])
      BY DEF QueueInv, WaitersInv, Woken, Downing
    <3>3. \A t \in Threads : t \in Woken(s)' <=> t \in Woken(s)
      BY <1>1, <2>2, <3>1, <3>2, WokenThreads
    <3>4. Woken(s)' = Woken(s)
      BY <3>3 DEF Woken
    <3> QED
      BY <2>1, <3>1, <3>4 DEF WakeOK
  <2>3. CASE waiters[s] # <<>>
    <3> DEFINE h == Head(waiters[s])
    <3>1. /\ h \in Threads /\ h \in Range(waiters[s])
          /\ Range(waiters[s]) = Range(Tail(waiters[s])) \cup {h}
          /\ h \notin Range(Tail(waiters[s]))
      BY <1>0, <2>3, HeadTailRange DEF SemaTypeOK, QueueInv, WaitersInv
    <3>2. waiters'[s] = Tail(waiters[s])
      BY <1>0, <2>3 DEF Up, SemaTypeOK
    <3> HIDE DEF h
    <3>3. \A t \in Threads : t \in Woken(s)' <=> Downing(t, s)' /\ t \notin Range(waiters'[s])
      BY DEF QueueInv, WaitersInv, Woken, Downing
    <3>4. Downing(h, s) /\ h \notin Woken(s)
      BY <3>1, WokenThreads DEF QueueInv, WaitersInv, Downing
    <3>5. \A t \in Threads : t \in Woken(s)' <=> t \in Woken(s) \cup {h}
      BY <1>1, <3>1, <3>2, <3>3, <3>4, WokenThreads
    <3>6. Woken(s)' = Woken(s) \cup {h}
      BY <3>1, <3>5 DEF Woken
    <3>7. /\ IsFiniteSet(Woken(s) \cup {h})
          /\ Cardinality(Woken(s) \cup {h}) = Cardinality(Woken(s)) + 1
      BY <2>1, <3>4, FS_AddElement
    <3>8. value[s] <= Cardinality(Woken(s))
      BY <2>3 DEF WakeInv, WakeOK
    <3>9. value'[s] <= Cardinality(Woken(s) \cup {h})
      BY <2>1, <3>7, <3>8
    <3> QED
      BY <3>6, <3>7, <3>9 DEF WakeOK
  <2> QED
    BY <2>2, <2>3
<1> QED
  BY <1>2, <1>3 DEF WakeInv

(* sema_down(s): a thread that takes a unit gives up its claim to one. *)
LEMMA DownWake ==
  ASSUME TypeOK, TypeOK', QueueInv, QueueInv', WakeInv,
         NEW s \in SemaIds, NEW lock \in Locks \cup {NULL}, Down(s, lock),
         pc[current].at = "down" => pc[current].on = s
  PROVE  WakeInv'
PROOF
<1>0. SemaTypeOK /\ PcTypeOK /\ current \in Threads /\ status[current] = "RUNNING"
  BY DEF TypeOK, SchedTypeOK, QueueInv, RunningInv
<1>a. \A place, obj, l : At(place, obj, l).at = place /\ At(place, obj, l).on = obj
  BY DEF At
<1>1. /\ \A t \in Threads \ {current} : pc'[t] = pc[t]
      /\ \/ /\ value[s] = 0 /\ value' = value /\ pc'[current] = At("down", s, lock)
            /\ waiters' = [waiters EXCEPT ![s] = Append(@, current)]
         \/ /\ value[s] # 0 /\ value' = [value EXCEPT ![s] = @ - 1] /\ waiters' = waiters
            /\ pc'[current].at # "down"
  <2>1. CASE value[s] = 0
    BY <1>0, <2>1, GotoMove DEF Down
  <2>2. CASE value[s] # 0
    <3>1. AfterDown(s, lock).at # "down"
      BY <1>a DEF AfterDown, Run
    <3> QED
      BY <1>0, <2>2, <3>1, GotoMove DEF Down
  <2> QED
    BY <2>1, <2>2
<1>2. ASSUME NEW r \in SemaIds, r # s PROVE WakeOK(r)'
  <2>1. \A t \in Threads : Downing(t, r)' <=> Downing(t, r)
    BY <1>0, <1>1, <1>2, <1>a DEF Downing
  <2>2. waiters'[r] = waiters[r] /\ value'[r] <= value[r]
    BY <1>0, <1>1, <1>2 DEF SemaTypeOK
  <2> QED
    BY <2>1, <2>2, KeepWake DEF WakeInv
<1>3. WakeOK(s)'
  <2>1. /\ IsFiniteSet(Woken(s)) /\ Cardinality(Woken(s)) \in Nat /\ value[s] \in Nat
        /\ waiters[s] \in Seq(Threads)
    BY <1>0, FS_CardinalityType DEF WakeInv, WakeOK, SemaTypeOK
  <2>2. Range(waiters'[s]) = IF value[s] = 0 THEN Range(waiters[s]) \cup {current}
                                             ELSE Range(waiters[s])
    <3>1. CASE value[s] = 0
      <4>1. waiters'[s] = Append(waiters[s], current)
        BY <1>0, <1>1, <3>1 DEF SemaTypeOK
      <4> QED
        BY <1>0, <2>1, <3>1, <4>1, AppendRange
    <3> QED
      BY <1>1, <3>1
  <2>3. \A t \in Threads : t \in Woken(s)' <=> Downing(t, s)' /\ t \notin Range(waiters'[s])
    BY DEF QueueInv, WaitersInv, Woken, Downing
  <2>4. current \notin Woken(s)'
    BY <1>0, <1>1, <2>2, <2>3 DEF Downing
  <2>5. ASSUME NEW t \in Threads, t # current PROVE t \in Woken(s)' <=> t \in Woken(s)
    BY <1>1, <2>2, <2>3, <2>5, WokenThreads DEF Downing
  <2>6. Woken(s)' = Woken(s) \ {current}
    BY <2>4, <2>5 DEF Woken
  <2>7. /\ IsFiniteSet(Woken(s) \ {current})
        /\ Cardinality(Woken(s) \ {current}) \in Nat
        /\ Cardinality(Woken(s) \ {current}) >= Cardinality(Woken(s)) - 1
    <3>1. /\ IsFiniteSet(Woken(s) \ {current})
          /\ \/ Cardinality(Woken(s) \ {current}) = Cardinality(Woken(s)) - 1
             \/ Cardinality(Woken(s) \ {current}) = Cardinality(Woken(s))
      BY <2>1, FS_RemoveElement
    <3>2. Cardinality(Woken(s) \ {current}) \in Nat
      BY <3>1, FS_CardinalityType
    <3> QED
      BY <2>1, <3>1, <3>2
  <2>8. CASE value[s] = 0
    <3>1. value'[s] = 0
      BY <1>1, <2>8
    <3> QED
      BY <2>6, <2>7, <3>1 DEF WakeOK
  <2>9. CASE value[s] # 0
    <3>1. value'[s] = value[s] - 1 /\ waiters'[s] = waiters[s]
      BY <1>0, <1>1, <2>9 DEF SemaTypeOK
    <3>2. waiters[s] = <<>> \/ value[s] <= Cardinality(Woken(s))
      BY DEF WakeInv, WakeOK
    <3>3. waiters'[s] = <<>> \/ value'[s] <= Cardinality(Woken(s) \ {current})
      BY <2>1, <2>7, <3>1, <3>2
    <3> QED
      BY <2>6, <2>7, <3>3 DEF WakeOK
  <2> QED
    BY <2>8, <2>9
<1> QED
  BY <1>2, <1>3 DEF WakeInv

LEMMA WakeStep ==
  TypeInv /\ QueueInv /\ WakeInv /\ [Next]_vars => WakeInv'
PROOF
<1> SUFFICES ASSUME TypeInv, QueueInv, WakeInv, [Next]_vars PROVE WakeInv'
  OBVIOUS
<1>1. TypeOK /\ TypeOK' /\ QueueInv'
  BY TypeStep, QueueStep DEF TypeInv
<1>2. CASE Quiet
  <2>1. \A t \in Threads, r \in SemaIds : Downing(t, r)' <=> Downing(t, r)
    BY <1>2 DEF Quiet, SameDowners, Downing
  <2>2. ASSUME NEW s \in SemaIds PROVE WakeOK(s)'
    BY <1>1, <1>2, <2>1, KeepWake DEF WakeInv, Quiet
  <2> QED
    BY <2>2 DEF WakeInv
<1> QED
  BY <1>1, <1>2, SemaphoreEffect, UpWake, DownWake

(***************************************************************************)
(* For any number of threads and units: while a thread waits in            *)
(* sema_down(), every free unit is spoken for by a thread that sema_up()   *)
(* has woken, so the threads that run between a sema_up() and the retest   *)
(* of the value never leave a waiter behind.                               *)
(***************************************************************************)
THEOREM WakeupsKept == Spec => []NoLostWakeup
PROOF
<1>1. Init => TypeInv /\ QueueInv /\ WakeInv
  <2>1. Init => WakeInv
    <3> SUFFICES ASSUME Init, NEW s \in SemaIds PROVE WakeOK(s)
      BY DEF WakeInv
    <3>1. \A t \in Threads : pc[t].at # "down"
      BY DEF Init, Run, At
    <3>2. Woken(s) = {} /\ waiters[s] = <<>>
      BY <3>1 DEF Woken, Init
    <3> QED
      BY <3>2, FS_EmptySet DEF WakeOK
  <2> QED
    BY <2>1, TypeInit, QueueInit
<1>2. TypeInv /\ QueueInv /\ WakeInv /\ [Next]_vars => TypeInv' /\ QueueInv' /\ WakeInv'
  BY TypeStep, QueueStep, WakeStep
<1>3. WakeInv => NoLostWakeup
  BY DEF WakeInv, WakeOK, NoLostWakeup
<1> QED
  BY <1>1, <1>2, <1>3, PTL DEF Spec

-----------------------------------------------------------------------------
(***************************************************************************)
(* Where a thread can be blocked: in sema_down(), in timer_sleep(), which  *)
(* it leaves when it runs again, or in idle().                             *)
(***************************************************************************)
BlockedPlaces == {"down", "run", "hlt"}

BlockedInv == \A t \in Threads : status[t] = "BLOCKED" => pc[t].at \in BlockedPlaces

(* No step but the running thread's own blocks a thread. *)
OnlyCurrentBlocks ==
  \A t \in Threads : status'[t] = "BLOCKED" =>
    status[t] = "BLOCKED" \/ (t = current /\ pc'[t].at \in BlockedPlaces)

LEMMA ScheduleBlocked ==
  ASSUME NEW st \in [Threads -> Statuses], NEW rl, Schedule(st, rl),
         NEW t \in Threads, status'[t] = "BLOCKED"
  PROVE  st[t] = "BLOCKED"
  BY DEF Schedule

LEMMA BlockBlocked ==
  ASSUME SchedTypeOK, Block, pc'[current].at \in BlockedPlaces
  PROVE  OnlyCurrentBlocks
PROOF
<1> DEFINE st == [status EXCEPT ![current] = "BLOCKED"]
<1>1. st \in [Threads -> Statuses] /\ Schedule(st, ready_list)
  BY DEF SchedTypeOK, Statuses, Block
<1>2. \A t \in Threads : st[t] = "BLOCKED" => t = current \/ status[t] = "BLOCKED"
  BY DEF SchedTypeOK
<1> HIDE DEF st
<1> QED
  BY <1>1, <1>2, ScheduleBlocked DEF OnlyCurrentBlocks

LEMMA YieldBlocked == ASSUME SchedTypeOK, Yield PROVE OnlyCurrentBlocks
PROOF
<1> DEFINE st == [status EXCEPT ![current] = "READY"]
<1>1. /\ st \in [Threads -> Statuses]
      /\ Schedule(st, IF current = Idle THEN ready_list ELSE InsertReady(current))
  BY DEF SchedTypeOK, Statuses, Yield
<1>2. \A t \in Threads : st[t] = "BLOCKED" => status[t] = "BLOCKED"
  BY DEF SchedTypeOK
<1> HIDE DEF st
<1> QED
  BY <1>1, <1>2, ScheduleBlocked DEF OnlyCurrentBlocks

LEMMA UnblockBlocked == ASSUME SchedTypeOK, NEW t, Unblock(t) PROVE OnlyCurrentBlocks
  BY DEF SchedTypeOK, Unblock, OnlyCurrentBlocks

LEMMA UpBlocked == ASSUME SchedTypeOK, NEW s, Up(s) PROVE OnlyCurrentBlocks
PROOF
<1>1. CASE UNCHANGED threadVars
  BY <1>1 DEF OnlyCurrentBlocks, threadVars
<1> QED
  BY <1>1, UnblockBlocked DEF Up

LEMMA DownBlocked ==
  ASSUME SchedTypeOK, PcTypeOK, NEW s, NEW lock, Down(s, lock)
  PROVE  OnlyCurrentBlocks
PROOF
<1>1. CASE UNCHANGED threadVars
  BY <1>1 DEF OnlyCurrentBlocks, threadVars
<1>2. CASE Goto(At("down", s, lock)) /\ Block
  <2>1. pc'[current].at \in BlockedPlaces
    BY <1>2, GotoMove DEF SchedTypeOK, At, BlockedPlaces
  <2> QED
    BY <1>2, <2>1, BlockBlocked
<1> QED
  BY <1>1, <1>2 DEF Down

LEMMA BlockEffect ==
  ASSUME TypeOK, QueueInv, [Next]_vars
  PROVE  OnlyCurrentBlocks /\ \A t \in Threads : status[t] = "BLOCKED" => pc'[t] = pc[t]
PROOF
<1> USE ThreadsAssumption
<1>0. /\ current \in Threads /\ PcTypeOK /\ SchedTypeOK /\ status[current] # "BLOCKED"
      /\ Run.at = "run"
  BY DEF TypeOK, SchedTypeOK, QueueInv, RunningInv, Run, At
<1> DEFINE Still == \A t \in Threads : status[t] = "BLOCKED" => pc'[t] = pc[t]
<1>g. ASSUME NEW r, Goto(r) PROVE Still
  BY <1>0, <1>g, GotoMove
<1>p. ASSUME UNCHANGED pc PROVE Still
  BY <1>p
<1>h. ASSUME EndHlt PROVE Still
  BY <1>0, <1>h DEF EndHlt, PcTypeOK
<1>d. ASSUME NEW s, NEW lock, Down(s, lock) PROVE OnlyCurrentBlocks /\ Still
  BY <1>0, <1>d, <1>g, DownBlocked DEF Down
<1>u. ASSUME NEW s, Up(s) PROVE OnlyCurrentBlocks
  BY <1>0, <1>u, UpBlocked
<1>s. ASSUME UNCHANGED status PROVE OnlyCurrentBlocks
  BY <1>s DEF OnlyCurrentBlocks
<1> HIDE DEF Still
<1>1. CASE UNCHANGED vars
  BY <1>1, <1>p, <1>s DEF vars, threadVars, Still
<1>2. CASE SchedulerStep
  <2>1. CASE ThreadYield
    BY <1>0, <1>p, <2>1, YieldBlocked DEF ThreadYield, Still
  <2>2. CASE ThreadDie
    <3> DEFINE st == [status EXCEPT ![current] = IF current = Main THEN "DYING" ELSE "FREE"]
    <3>1. st \in [Threads -> Statuses] /\ Schedule(st, ready_list)
      BY <1>0, <2>2 DEF SchedTypeOK, Statuses, ThreadDie
    <3>2. \A t \in Threads : st[t] = "BLOCKED" => status[t] = "BLOCKED"
      BY <1>0 DEF SchedTypeOK
    <3> HIDE DEF st
    <3>3. OnlyCurrentBlocks
      BY <3>1, <3>2, ScheduleBlocked DEF OnlyCurrentBlocks
    <3> QED
      BY <1>p, <2>2, <3>3 DEF ThreadDie, Still
  <2>3. CASE IdleBlock
    <3>1. pc'[current].at \in BlockedPlaces
      BY <1>0, <2>3, GotoMove DEF IdleBlock, At, BlockedPlaces
    <3> QED
      BY <1>0, <1>g, <2>3, <3>1, BlockBlocked DEF IdleBlock, Still
  <2>4. ASSUME NEW prio \in Priorities, ThreadSetPriority(prio)
        PROVE  OnlyCurrentBlocks /\ Still
    BY <1>p, <1>s, <2>4 DEF ThreadSetPriority
  <2>5. ASSUME NEW u \in Threads, NEW prio \in Priorities, ThreadCreate(u, prio)
        PROVE  OnlyCurrentBlocks /\ Still
    <3>1. OnlyCurrentBlocks
      BY <1>0, <2>5 DEF ThreadCreate, SchedTypeOK, OnlyCurrentBlocks
    <3>2. Still
      BY <1>0, <2>5 DEF ThreadCreate, PcTypeOK, Still
    <3> QED
      BY <3>1, <3>2
  <2> QED
    BY <1>2, <2>1, <2>2, <2>3, <2>4, <2>5 DEF SchedulerStep, Still
<1>3. CASE SemaStep
  <2>1. ASSUME NEW s \in Semas, SemaTryDown(s) PROVE OnlyCurrentBlocks /\ Still
    BY <1>p, <1>s, <2>1 DEF SemaTryDown, threadVars
  <2>2. ASSUME NEW s \in Semas, SemaUp(s) \/ DeviceInterrupt(s)
        PROVE  OnlyCurrentBlocks /\ Still
    BY <1>p, <1>h, <1>u, <2>2 DEF SemaUp, DeviceInterrupt
  <2> QED
    BY <1>3, <1>d, <2>1, <2>2 DEF SemaStep, ResumeDown, SemaDown, Still
<1>4. CASE LockStep
  BY <1>4, <1>d, <1>g, <1>s, <1>u DEF LockStep, SetHolder, LockUp, LockAcquire,
     LockTryAcquire, LockRelease, threadVars, Still
<1>5. CASE CondStep
  <2>1. ASSUME NEW c, SignalOne(c) PROVE OnlyCurrentBlocks
    BY <1>u, <2>1 DEF SignalOne
  <2>2. CASE BroadcastNext
    BY <1>g, <1>p, <1>s, <2>1, <2>2 DEF BroadcastNext, threadVars, Still
  <2>3. ASSUME NEW c \in Conds, CondWait(c) \/ CondSignal(c) \/ CondBroadcast(c)
        PROVE  OnlyCurrentBlocks /\ Still
    BY <1>g, <1>p, <1>s, <2>1, <2>3 DEF CondWait, CondSignal, CondBroadcast, threadVars
  <2>4. CASE CondUp \/ CondDown \/ CondReacquire
    BY <1>d, <1>g, <1>u, <2>4 DEF CondUp, CondDown, CondReacquire, Still
  <2> QED
    BY <1>5, <2>2, <2>3, <2>4 DEF CondStep, Still
<1>6. CASE SleepStep
  <2>1. CASE ThreadSleep
    <3>1. pc'[current].at \in BlockedPlaces
      BY <1>0, <2>1, GotoMove DEF ThreadSleep, BlockedPlaces
    <3> QED
      BY <1>0, <1>g, <2>1, <3>1, BlockBlocked DEF ThreadSleep, Still
  <2> QED
    BY <1>6, <1>g, <1>s, <2>1 DEF SleepStep, CompareCallTime, StoreCallTime, TimerSleep,
       threadVars, Still
<1>7. CASE TimerStep
  <2>1. CASE TimerInterrupt \/ WakeupDone
    BY <1>h, <1>p, <1>s, <2>1 DEF TimerInterrupt, WakeupDone, threadVars, Still
  <2>2. CASE WakeupOne
    BY <1>0, <1>p, <2>2, UnblockBlocked DEF WakeupOne, Still
  <2>3. CASE IntrReturn
    BY <1>0, <1>p, <1>s, <2>3, YieldBlocked DEF IntrReturn, threadVars, Still
  <2> QED
    BY <1>7, <2>1, <2>2, <2>3 DEF TimerStep
<1> QED
  BY <1>1, <1>2, <1>3, <1>4, <1>5, <1>6, <1>7 DEF Next

LEMMA BlockedStep ==
  TypeInv /\ QueueInv /\ BlockedInv /\ [Next]_vars => BlockedInv'
PROOF
<1> SUFFICES ASSUME TypeInv, QueueInv, BlockedInv, [Next]_vars PROVE BlockedInv'
  OBVIOUS
<1>1. OnlyCurrentBlocks /\ \A t \in Threads : status[t] = "BLOCKED" => pc'[t] = pc[t]
  BY BlockEffect DEF TypeInv
<1> QED
  BY <1>1 DEF BlockedInv, OnlyCurrentBlocks

-----------------------------------------------------------------------------
(***************************************************************************)
(* Condition variables.  CondInv needs three more facts to be inductive.   *)
(* A thread that has not yet given up the lock is on the list, so with     *)
(* LockInv nobody can signal it there; a broadcaster keeps the lock        *)
(* between two signals; and a signaled thread is not on its semaphore's    *)
(* list, which QueueInv and BlockedInv turn into its status.               *)
(***************************************************************************)
InCond(t) == pc[t].at \in {"cond_up", "cond_down"} \/ Downing(t, t)

Listed(t) == \E c \in Conds : t \in Range(cond_waiters[c])

OnceListed ==
  /\ \A c \in Conds : IsInjective(cond_waiters[c])
  /\ \A c, d \in Conds, t \in Threads :
       t \in Range(cond_waiters[c]) /\ t \in Range(cond_waiters[d]) => c = d

ListedInv ==
  \A c \in Conds, t \in Threads :
    t \in Range(cond_waiters[c]) =>
      InCond(t) /\ pc[t].lk = CondLock[c] /\ value[t] = 0

CondUpInv ==
  \A t \in Threads, c \in Conds :
    pc[t].at = "cond_up" => (t \in Range(cond_waiters[c]) <=> pc[t].on = c)

SignaledInv ==
  \A t \in Threads :
    InCond(t) => Listed(t) \/ (value[t] = 1 /\ t \notin Range(waiters[t]))

BroadcastInv ==
  \A t \in Threads : pc[t].at = "broadcast" => holder[CondLock[pc[t].on]] = t

WaitInv == OnceListed /\ ListedInv /\ CondUpInv /\ SignaledInv /\ BroadcastInv

LEMMA WaitInvCond ==
  ASSUME TypeOK, QueueInv, BlockedInv, WaitInv
  PROVE  CondInv
PROOF
<1> USE ThreadsAssumption
<1>1. ASSUME NEW t \in Threads, pc[t].at = "cond_down" \/ (pc[t].at = "down" /\ pc[t].on = t)
      PROVE  \/ \E c \in Conds : t \in Range(cond_waiters[c])
             \/ value[t] = 1 /\ status[t] \in {"READY", "RUNNING"}
  <2>1. Listed(t) \/ (value[t] = 1 /\ t \notin Range(waiters[t]))
    BY <1>1 DEF WaitInv, SignaledInv, InCond, Downing
  <2>2. status[t] \in Statuses /\ status[t] \notin {"FREE", "DYING"}
    BY <1>1 DEF TypeOK, SchedTypeOK, QueueInv, RunningInv
  <2>3. t \notin Range(waiters[t]) => status[t] # "BLOCKED"
    BY <1>1 DEF QueueInv, WaitersInv, BlockedInv, BlockedPlaces, SemaIds
  <2> QED
    BY <2>1, <2>2, <2>3 DEF Listed, Statuses
<1>2. ASSUME NEW c \in Conds, NEW t \in Threads, t \in Range(cond_waiters[c])
      PROVE  /\ \/ pc[t].at \in {"cond_up", "cond_down"}
                \/ pc[t].at = "down" /\ pc[t].on = t
             /\ pc[t].lk = CondLock[c]
             /\ pc[t].at = "cond_up" => pc[t].on = c
             /\ value[t] = 0
  BY <1>2 DEF WaitInv, ListedInv, CondUpInv, InCond, Downing
<1> QED
  BY <1>1, <1>2 DEF CondInv, WaitInv, OnceListed

(* A step that concerns no thread in cond_wait() and no list of a condition. *)
LEMMA KeepWaits ==
  ASSUME TypeOK, WaitInv, cond_waiters' = cond_waiters,
         \A t \in Threads : InCond(t) => pc'[t] = pc[t] /\ value'[t] = value[t]
                                         /\ waiters'[t] = waiters[t],
         \A t \in Threads : InCond(t)' => InCond(t),
         BroadcastInv'
  PROVE  WaitInv'
PROOF
<1>1. \A t \in Threads : Listed(t)' <=> Listed(t)
  BY DEF Listed
<1>2. \A t \in Threads : pc[t].at = "cond_up" => InCond(t)
  BY DEF InCond
<1>3. \A t \in Threads : pc'[t].at = "cond_up" => InCond(t)'
  BY DEF InCond
<1>4. OnceListed'
  BY DEF WaitInv, OnceListed
<1>5. \A t \in Threads : InCond(t) => InCond(t)'
  BY DEF InCond, Downing
<1>6. ListedInv'
  BY <1>5 DEF WaitInv, ListedInv
<1>7. CondUpInv'
  BY <1>2, <1>3 DEF WaitInv, CondUpInv
<1>8. SignaledInv'
  BY <1>1 DEF WaitInv, SignaledInv
<1> QED
  BY <1>4, <1>6, <1>7, <1>8 DEF WaitInv

(* holder is changed only by the thread it names, or where nobody is named. *)
LEMMA KeepBroadcasts ==
  ASSUME TypeOK, LockInv, BroadcastInv,
         \A t \in Threads \ {current} : pc'[t] = pc[t],
         pc'[current].at # "broadcast",
         \A l \in Locks : holder'[l] = holder[l] \/ holder[l] \in {NULL, current}
  PROVE  BroadcastInv'
PROOF
<1> USE ThreadsAssumption
<1>1. ASSUME NEW t \in Threads, pc'[t].at = "broadcast"
      PROVE  holder'[CondLock[pc'[t].on]] = t
  <2>1. t # current /\ pc'[t] = pc[t]
    BY <1>1
  <2>2. pc[t].on \in Conds
    BY <1>1, <2>1 DEF TypeOK, PlacesOK, PlaceOK
  <2>3. holder[CondLock[pc[t].on]] = t /\ CondLock[pc[t].on] \in Locks
    BY <1>1, <2>1, <2>2 DEF BroadcastInv
  <2> QED
    BY <2>1, <2>3
<1> QED
  BY <1>1 DEF BroadcastInv

(* The semaphores on the stacks of threads in cond_wait() are left alone. *)
StackSemasKept == \A t \in Threads : value'[t] = value[t] /\ waiters'[t] = waiters[t]

LEMMA SameWaits ==
  ASSUME TypeOK, WaitInv, StackSemasKept, UNCHANGED <<pc, holder, cond_waiters>>
  PROVE  WaitInv'
PROOF
<1>1. BroadcastInv'
  BY DEF WaitInv, BroadcastInv
<1>2. \A t \in Threads : InCond(t)' => InCond(t)
  BY DEF InCond, Downing
<1> QED
  BY <1>1, <1>2, KeepWaits DEF StackSemasKept

LEMMA OutsideWaits ==
  ASSUME TypeOK, LockInv, WaitInv, StackSemasKept, UNCHANGED cond_waiters,
         \A t \in Threads \ {current} : pc'[t] = pc[t],
         ~InCond(current),
         pc'[current].at \notin {"cond_up", "cond_down", "broadcast"},
         pc'[current].at = "down" => pc'[current].on # current,
         \A l \in Locks : holder'[l] = holder[l] \/ holder[l] \in {NULL, current}
  PROVE  WaitInv'
PROOF
<1>0. current \in Threads
  BY DEF TypeOK, SchedTypeOK
<1>1. BroadcastInv'
  BY KeepBroadcasts DEF WaitInv
<1>2. ASSUME NEW t \in Threads, InCond(t)' PROVE InCond(t)
  BY <1>0, <1>2 DEF InCond, Downing
<1> QED
  BY <1>1, <1>2, KeepWaits DEF StackSemasKept

(* cond_signal() by the lock's holder takes the longest waiting thread. *)
LEMMA SignalWaits ==
  ASSUME TypeOK, QueueInv, LockInv, WaitInv, NEW c \in Conds,
         holder[CondLock[c]] = current, SignalOne(c), UNCHANGED <<pc, holder>>
  PROVE  WaitInv'
PROOF
<1> USE ThreadsAssumption
<1>0. /\ current \in Threads /\ SemaTypeOK /\ PlacesOK /\ LockTypeOK /\ WaitersInv
      /\ Threads \subseteq SemaIds
  BY DEF TypeOK, SchedTypeOK, QueueInv, SemaIds
<1> DEFINE h == Head(cond_waiters[c])
<1>1. /\ h \in Threads /\ h \in Range(cond_waiters[c])
      /\ Range(cond_waiters[c]) = Range(Tail(cond_waiters[c])) \cup {h}
      /\ IsInjective(Tail(cond_waiters[c])) /\ h \notin Range(Tail(cond_waiters[c]))
  BY <1>0, HeadTailRange DEF SignalOne, LockTypeOK, WaitInv, OnceListed
<1>2. \A d \in Conds :
        cond_waiters'[d] = IF d = c THEN Tail(cond_waiters[c]) ELSE cond_waiters[d]
  BY <1>0 DEF SignalOne, LockTypeOK
<1>3. Up(h)
  BY DEF SignalOne
<1> HIDE DEF h
<1>4. InCond(h) /\ pc[h].lk = CondLock[c] /\ value[h] = 0
  BY <1>1 DEF WaitInv, ListedInv
<1>5. /\ value'[h] = 1
      /\ \A t \in Threads \ {h} : value'[t] = value[t] /\ waiters'[t] = waiters[t]
  <2>1. \A t \in Threads : value'[t] = IF t = h THEN value[t] + 1 ELSE value[t]
    BY <1>0, <1>1, <1>3 DEF Up, SemaTypeOK
  <2>2. \A t \in Threads \ {h} : waiters'[t] = waiters[t]
    BY <1>0, <1>1, <1>3 DEF Up, SemaTypeOK
  <2> QED
    BY <1>1, <1>4, <2>1, <2>2
<1>6. h \notin Range(waiters'[h])
  <2>1. CASE waiters[h] = <<>>
    <3>1. waiters'[h] = <<>>
      BY <1>3, <2>1 DEF Up
    <3> QED
      BY <3>1 DEF Range
  <2>2. CASE waiters[h] # <<>>
    <3>1. waiters'[h] = Tail(waiters[h])
      BY <1>0, <1>1, <1>3, <2>2 DEF Up, SemaTypeOK
    <3>2. waiters[h] \in Seq(Threads) /\ IsInjective(waiters[h])
      BY <1>0, <1>1 DEF SemaTypeOK, WaitersInv
    <3>3. /\ Head(waiters[h]) \in Threads /\ Head(waiters[h]) \in Range(waiters[h])
          /\ Head(waiters[h]) \notin Range(Tail(waiters[h]))
      BY <2>2, <3>2, HeadTailRange
    <3>4. Head(waiters[h]) = h
      BY <1>0, <1>1, <3>3 DEF WaitersInv, PlacesOK, PlaceOK
    <3> QED
      BY <3>1, <3>3, <3>4
  <2> QED
    BY <2>1, <2>2
<1>7. \A t \in Threads : pc[t].at = "cond_up" => pc[t].lk # CondLock[c]
  <2>1. CondLock[c] \in Locks /\ holder[CondLock[c]] # NULL
    BY <1>0
  <2>2. InHand(CondLock[c]) = {}
    BY <2>1 DEF LockInv, LockOK
  <2> QED
    BY <2>2 DEF InHand, Hand
<1>8. ASSUME NEW d \in Conds, NEW t \in Threads
      PROVE  t \in Range(cond_waiters'[d]) <=> t \in Range(cond_waiters[d]) /\ t # h
  BY <1>1, <1>2 DEF WaitInv, OnceListed
<1>9. OnceListed'
  <2>1. \A d \in Conds : IsInjective(cond_waiters'[d])
    BY <1>1, <1>2 DEF WaitInv, OnceListed
  <2> QED
    BY <1>8, <2>1 DEF WaitInv, OnceListed
<1>10. ListedInv'
  BY <1>5, <1>8 DEF WaitInv, ListedInv, InCond, Downing
<1>11. CondUpInv'
  <2>1. pc[h].at # "cond_up"
    BY <1>1, <1>4, <1>7
  <2> QED
    BY <1>8, <2>1 DEF WaitInv, CondUpInv
<1>12. SignaledInv'
  <2>1. ASSUME NEW t \in Threads, InCond(t)'
        PROVE  Listed(t)' \/ (value'[t] = 1 /\ t \notin Range(waiters'[t]))
    <3>1. CASE t = h
      BY <1>5, <1>6, <3>1
    <3>2. CASE t # h
      <4>1. InCond(t)
        BY <2>1 DEF InCond, Downing
      <4> QED
        BY <1>5, <1>8, <3>2, <4>1 DEF WaitInv, SignaledInv, Listed
    <3> QED
      BY <3>1, <3>2
  <2> QED
    BY <2>1 DEF SignaledInv
<1>13. BroadcastInv'
  BY DEF WaitInv, BroadcastInv
<1> QED
  BY <1>9, <1>10, <1>11, <1>12, <1>13 DEF WaitInv

(* cond_wait() puts the running thread on the list, with the lock. *)
LEMMA CondWaitWaits ==
  ASSUME TypeOK, QueueInv, LockInv, WaitInv, NEW c \in Conds, CondWait(c)
  PROVE  WaitInv'
PROOF
<1> USE ThreadsAssumption
<1>0. /\ current \in Threads /\ SemaTypeOK /\ PcTypeOK /\ LockTypeOK
      /\ Threads \subseteq SemaIds
  BY DEF TypeOK, SchedTypeOK, SemaIds
<1>1. /\ pc'[current] = At("cond_up", c, CondLock[c])
      /\ \A t \in Threads \ {current} : pc'[t] = pc[t]
  BY <1>0, GotoMove DEF CondWait
<1>2. pc'[current].at = "cond_up" /\ pc'[current].on = c /\ pc'[current].lk = CondLock[c]
  BY <1>1 DEF At
<1>3. /\ value'[current] = 0
      /\ \A t \in Threads \ {current} : value'[t] = value[t] /\ waiters'[t] = waiters[t]
  BY <1>0 DEF CondWait, SemaTypeOK
<1>4. ~InCond(current) /\ \A d \in Conds : current \notin Range(cond_waiters[d])
  <2>1. ~InCond(current)
    BY DEF CondWait, Calls, Running, InCond, Downing
  <2> QED
    BY <1>0, <2>1 DEF WaitInv, ListedInv
<1>5. \A d \in Conds :
        cond_waiters'[d] = IF d = c THEN Append(cond_waiters[c], current) ELSE cond_waiters[d]
  BY <1>0 DEF CondWait, LockTypeOK
<1>6. /\ IsInjective(Append(cond_waiters[c], current))
      /\ Range(Append(cond_waiters[c], current)) = Range(cond_waiters[c]) \cup {current}
  BY <1>0, <1>4, AppendRange DEF LockTypeOK, WaitInv, OnceListed
<1>7. \A d \in Conds, t \in Threads :
        t \in Range(cond_waiters'[d]) <=>
          t \in Range(cond_waiters[d]) \/ (t = current /\ d = c)
  BY <1>5, <1>6
<1>8. OnceListed'
  <2>1. \A d \in Conds : IsInjective(cond_waiters'[d])
    BY <1>5, <1>6 DEF WaitInv, OnceListed
  <2> QED
    BY <1>4, <1>7, <2>1 DEF WaitInv, OnceListed
<1>9. ListedInv'
  <2>1. ASSUME NEW d \in Conds, NEW t \in Threads, t \in Range(cond_waiters'[d])
        PROVE  InCond(t)' /\ pc'[t].lk = CondLock[d] /\ value'[t] = 0
    <3>1. CASE t = current
      BY <1>2, <1>3, <1>4, <1>7, <2>1, <3>1 DEF InCond
    <3>2. CASE t # current
      BY <1>1, <1>3, <1>7, <2>1, <3>2 DEF WaitInv, ListedInv, InCond, Downing
    <3> QED
      BY <3>1, <3>2
  <2> QED
    BY <2>1 DEF ListedInv
<1>10. CondUpInv'
  <2>1. ASSUME NEW t \in Threads, NEW d \in Conds, pc'[t].at = "cond_up"
        PROVE  t \in Range(cond_waiters'[d]) <=> pc'[t].on = d
    <3>1. CASE t = current
      BY <1>2, <1>4, <1>7, <3>1
    <3>2. CASE t # current
      BY <1>1, <1>7, <2>1, <3>2 DEF WaitInv, CondUpInv
    <3> QED
      BY <3>1, <3>2
  <2> QED
    BY <2>1 DEF CondUpInv
<1>11. SignaledInv'
  <2>1. ASSUME NEW t \in Threads, InCond(t)'
        PROVE  Listed(t)' \/ (value'[t] = 1 /\ t \notin Range(waiters'[t]))
    <3>1. CASE t = current
      BY <1>7, <3>1 DEF Listed
    <3>2. CASE t # current
      <4>1. InCond(t)
        BY <1>1, <2>1, <3>2 DEF InCond, Downing
      <4> QED
        BY <1>3, <1>7, <3>2, <4>1 DEF WaitInv, SignaledInv, Listed
    <3> QED
      BY <3>1, <3>2
  <2> QED
    BY <2>1 DEF SignaledInv
<1>12. BroadcastInv'
  <2>1. \A l \in Locks : holder'[l] = holder[l] \/ holder[l] \in {NULL, current}
    BY <1>0 DEF CondWait, LockTypeOK, lock_held_by_current_thread
  <2> QED
    BY <1>1, <1>2, <2>1, KeepBroadcasts DEF WaitInv
<1> QED
  BY <1>8, <1>9, <1>10, <1>11, <1>12 DEF WaitInv

(* A waiting thread moves on inside cond_wait(), still on the list or signaled. *)
LEMMA MoveWaits ==
  ASSUME TypeOK, LockInv, WaitInv, UNCHANGED <<cond_waiters, holder>>,
         \A t \in Threads \ {current} :
           pc'[t] = pc[t] /\ value'[t] = value[t] /\ waiters'[t] = waiters[t],
         pc'[current].at = "cond_down" \/ (pc'[current].at = "down" /\ pc'[current].on = current),
         pc'[current].lk = pc[current].lk, value'[current] = value[current],
         Listed(current) \/ (value[current] = 1 /\ current \notin Range(waiters'[current]))
  PROVE  WaitInv'
PROOF
<1>0. current \in Threads
  BY DEF TypeOK, SchedTypeOK
<1>1. OnceListed'
  BY DEF WaitInv, OnceListed
<1>2. ListedInv'
  <2>1. ASSUME NEW d \in Conds, NEW t \in Threads, t \in Range(cond_waiters'[d])
        PROVE  InCond(t)' /\ pc'[t].lk = CondLock[d] /\ value'[t] = 0
    <3>1. InCond(t) /\ pc[t].lk = CondLock[d] /\ value[t] = 0
      BY <2>1 DEF WaitInv, ListedInv
    <3>2. CASE t = current
      BY <3>1, <3>2 DEF InCond, Downing
    <3>3. CASE t # current
      BY <3>1, <3>3 DEF InCond, Downing
    <3> QED
      BY <3>2, <3>3
  <2> QED
    BY <2>1 DEF ListedInv
<1>3. CondUpInv'
  BY DEF WaitInv, CondUpInv
<1>4. SignaledInv'
  <2>1. ASSUME NEW t \in Threads, InCond(t)'
        PROVE  Listed(t)' \/ (value'[t] = 1 /\ t \notin Range(waiters'[t]))
    <3>1. CASE t = current
      BY <3>1 DEF Listed
    <3>2. CASE t # current
      <4>1. InCond(t)
        BY <2>1, <3>2 DEF InCond, Downing
      <4> QED
        BY <3>2, <4>1 DEF WaitInv, SignaledInv, Listed
    <3> QED
      BY <3>1, <3>2
  <2> QED
    BY <2>1 DEF SignaledInv
<1>5. BroadcastInv'
  BY KeepBroadcasts DEF WaitInv
<1> QED
  BY <1>1, <1>2, <1>3, <1>4, <1>5 DEF WaitInv

(* sema_down() of the semaphore on the thread's own stack. *)
LEMMA OwnDownWaits ==
  ASSUME TypeOK, QueueInv, LockInv, WaitInv, InCond(current),
         pc[current].at # "cond_up", Down(current, pc[current].lk),
         UNCHANGED <<cond_waiters, holder>>
  PROVE  WaitInv'
PROOF
<1> USE ThreadsAssumption
<1>0. /\ current \in Threads /\ SemaTypeOK /\ PcTypeOK /\ Threads \subseteq SemaIds
  BY DEF TypeOK, SchedTypeOK, SemaIds
<1>1. \A t \in Threads \ {current} :
        pc'[t] = pc[t] /\ value'[t] = value[t] /\ waiters'[t] = waiters[t]
  <2>1. \A t \in Threads \ {current} : pc'[t] = pc[t]
    BY DownMoves
  <2>2. \A t \in Threads \ {current} : value'[t] = value[t] /\ waiters'[t] = waiters[t]
    BY <1>0 DEF Down, SemaTypeOK
  <2> QED
    BY <2>1, <2>2
<1>2. Listed(current) \/ value[current] = 1
  BY <1>0 DEF WaitInv, SignaledInv
<1>3. Listed(current) => value[current] = 0
  BY <1>0 DEF WaitInv, ListedInv, Listed
<1>4. CASE value[current] = 0
  <2>1. pc'[current] = At("down", current, pc[current].lk) /\ value' = value
    BY <1>0, <1>4, GotoMove DEF Down
  <2>2. /\ pc'[current].at = "down" /\ pc'[current].on = current
        /\ pc'[current].lk = pc[current].lk
    BY <2>1 DEF At
  <2> QED
    BY <1>1, <1>2, <1>4, <2>1, <2>2, MoveWaits
<1>5. CASE value[current] # 0
  <2>1. pc'[current] = At("reacquire", NULL, pc[current].lk)
    <3>1. AfterDown(current, pc[current].lk) = At("reacquire", NULL, pc[current].lk)
      BY <1>0 DEF AfterDown
    <3> QED
      BY <1>0, <1>5, <3>1, GotoMove DEF Down
  <2>2. pc'[current].at = "reacquire"
    BY <2>1 DEF At
  <2>3. \A d \in Conds : current \notin Range(cond_waiters[d])
    BY <1>3, <1>5 DEF Listed
  <2>4. \A t \in Threads : InCond(t)' <=> InCond(t) /\ t # current
    BY <1>1, <2>2 DEF InCond, Downing
  <2>5. OnceListed'
    BY DEF WaitInv, OnceListed
  <2>6. ListedInv'
    <3>1. ASSUME NEW d \in Conds, NEW t \in Threads, t \in Range(cond_waiters'[d])
          PROVE  InCond(t)' /\ pc'[t].lk = CondLock[d] /\ value'[t] = 0
      BY <1>1, <2>3, <2>4, <3>1 DEF WaitInv, ListedInv
    <3> QED
      BY <3>1 DEF ListedInv
  <2>7. CondUpInv'
    BY <1>1, <2>2 DEF WaitInv, CondUpInv
  <2>8. SignaledInv'
    BY <1>1, <2>4 DEF WaitInv, SignaledInv, Listed
  <2>9. BroadcastInv'
    BY <1>1, <2>2, KeepBroadcasts DEF WaitInv
  <2> QED
    BY <2>5, <2>6, <2>7, <2>8, <2>9 DEF WaitInv
<1> QED
  BY <1>4, <1>5

(* sema_down() of any other semaphore. *)
LEMMA DownWaits ==
  ASSUME TypeOK, LockInv, WaitInv, NEW s \in Semas \cup Locks, NEW lock, Down(s, lock),
         ~InCond(current), UNCHANGED <<cond_waiters, holder>>
  PROVE  WaitInv'
PROOF
<1> USE ThreadsAssumption
<1>0. /\ current \in Threads /\ SemaTypeOK /\ PcTypeOK /\ Threads \subseteq SemaIds
      /\ s \in SemaIds /\ s \notin Threads
  BY DEF TypeOK, SchedTypeOK, SemaIds
<1>1. StackSemasKept
  BY <1>0 DEF Down, SemaTypeOK, StackSemasKept
<1>2. /\ pc'[current].at \in {"down", "own", "reacquire", "run"}
      /\ \A t \in Threads \ {current} : pc'[t] = pc[t]
  BY DownMoves
<1>3. pc'[current].at = "down" => pc'[current].on # current
  <2>1. CASE Goto(At("down", s, lock))
    BY <1>0, <2>1, GotoMove DEF At
  <2>2. CASE Goto(AfterDown(s, lock))
    BY <1>0, <2>2, GotoMove DEF AfterDown, At, Run
  <2> QED
    BY <2>1, <2>2 DEF Down
<1> QED
  BY <1>1, <1>2, <1>3, OutsideWaits

LEMMA UpStackSemas ==
  ASSUME TypeOK, NEW s \in Semas \cup Locks, Up(s)
  PROVE  StackSemasKept
PROOF
<1>0. SemaTypeOK /\ Threads \subseteq SemaIds /\ s \in SemaIds /\ s \notin Threads
  BY ThreadsAssumption DEF TypeOK, SemaIds
<1> QED
  BY <1>0 DEF Up, SemaTypeOK, StackSemasKept

LEMMA SyncWaitStep ==
  ASSUME TypeOK, QueueInv, LockInv, WaitInv, SemaStep \/ LockStep
  PROVE  WaitInv'
PROOF
<1> USE ThreadsAssumption
<1>0. /\ current \in Threads /\ SemaTypeOK /\ PcTypeOK /\ PlacesOK /\ LockTypeOK
      /\ Threads \subseteq SemaIds /\ Run.at = "run"
  BY DEF TypeOK, SchedTypeOK, SemaIds, Run, At
<1>a. \A place, obj, lock : At(place, obj, lock).at = place
  BY DEF At
<1>b. \A place \in {"run", "own", "up"} : Running(place) => ~InCond(current)
  BY DEF Running, InCond, Downing
<1>c. Calls => Running("run")
  BY DEF Calls
<1>t. ASSUME NEW s \in Semas \cup Locks, value' = [value EXCEPT ![s] = @ - 1], waiters' = waiters
      PROVE  StackSemasKept
  BY <1>0, <1>t DEF SemaTypeOK, StackSemasKept
<1>1. CASE ResumeDown
  <2>1. pc[current].on \in SemaIds /\ pc[current].at = "down"
    BY <1>0, <1>1 DEF ResumeDown, Running, PlacesOK, PlaceOK
  <2>2. CASE pc[current].on \in Threads
    <3>1. pc[current].on = current
      BY <1>0, <2>1, <2>2 DEF PlacesOK, PlaceOK
    <3> QED
      BY <1>1, <2>1, <3>1, OwnDownWaits DEF ResumeDown, InCond, Downing
  <2>3. CASE pc[current].on \notin Threads
    <3>1. ~InCond(current) /\ pc[current].on \in Semas \cup Locks
      BY <1>0, <2>1, <2>3 DEF InCond, Downing, SemaIds
    <3> QED
      BY <1>1, <3>1, DownWaits DEF ResumeDown
  <2> QED
    BY <2>2, <2>3
<1>2. ASSUME NEW s \in Semas, SemaDown(s) PROVE WaitInv'
  BY <1>2, <1>b, <1>c, DownWaits DEF SemaDown
<1>3. ASSUME NEW s \in Semas, SemaTryDown(s) PROVE WaitInv'
  BY <1>3, <1>t, SameWaits DEF SemaTryDown
<1>4. ASSUME NEW s \in Semas, SemaUp(s) PROVE WaitInv'
  BY <1>4, UpStackSemas, SameWaits DEF SemaUp
<1>5. ASSUME NEW s \in Semas, DeviceInterrupt(s) PROVE WaitInv'
  <2>1. StackSemasKept /\ UNCHANGED <<holder, cond_waiters>>
    BY <1>5, UpStackSemas DEF DeviceInterrupt
  <2>2. CASE current = Idle
    <3>1. pc'[current] = Run /\ \A t \in Threads \ {current} : pc'[t] = pc[t]
      BY <1>0, <1>5, <2>2 DEF DeviceInterrupt, EndHlt, PcTypeOK
    <3>2. ~InCond(current)
      BY <2>2 DEF QueueInv, RunningInv, InCond, Downing
    <3> QED
      BY <1>0, <2>1, <3>1, <3>2, OutsideWaits
  <2>3. CASE current # Idle
    <3>1. pc' = pc
      BY <1>0, <1>5, <2>3 DEF DeviceInterrupt, EndHlt, PcTypeOK
    <3> QED
      BY <2>1, <3>1, SameWaits
  <2> QED
    BY <2>2, <2>3
<1>6. CASE SetHolder
  <2>1. StackSemasKept /\ UNCHANGED cond_waiters
    BY <1>6 DEF SetHolder, semaVars, StackSemasKept
  <2>2. pc'[current] = Run /\ \A t \in Threads \ {current} : pc'[t] = pc[t]
    BY <1>0, <1>6, GotoMove DEF SetHolder
  <2>3. pc[current].at = "own" /\ pc[current].on \in Locks
    BY <1>0, <1>6 DEF SetHolder, Running, PlacesOK, PlaceOK
  <2>4. holder[pc[current].on] = NULL
    <3>1. current \in InHand(pc[current].on)
      BY <1>0, <2>3 DEF InHand, Hand
    <3> QED
      BY <2>3, <3>1 DEF LockInv, LockOK
  <2>5. \A l \in Locks : holder'[l] = holder[l] \/ holder[l] \in {NULL, current}
    BY <1>0, <1>6, <2>3, <2>4 DEF SetHolder, LockTypeOK
  <2> QED
    BY <1>0, <1>6, <1>b, <2>1, <2>2, <2>5, OutsideWaits DEF SetHolder
<1>7. CASE LockUp
  <2>1. pc[current].on \in Locks
    BY <1>0, <1>7 DEF LockUp, Running, PlacesOK, PlaceOK
  <2>2. StackSemasKept
    BY <1>7, <2>1, UpStackSemas DEF LockUp
  <2>3. pc'[current] = Run /\ \A t \in Threads \ {current} : pc'[t] = pc[t]
    BY <1>0, <1>7, GotoMove DEF LockUp
  <2> QED
    BY <1>0, <1>7, <1>b, <2>2, <2>3, OutsideWaits DEF LockUp
<1>8. ASSUME NEW l \in Locks, LockAcquire(l) PROVE WaitInv'
  BY <1>8, <1>b, <1>c, DownWaits DEF LockAcquire
<1>9. ASSUME NEW l \in Locks, LockTryAcquire(l) PROVE WaitInv'
  <2>1. StackSemasKept
    BY <1>9, <1>t DEF LockTryAcquire
  <2>2. pc'[current].at = "own" /\ \A t \in Threads \ {current} : pc'[t] = pc[t]
    BY <1>0, <1>9, <1>a, GotoMove DEF LockTryAcquire
  <2> QED
    BY <1>9, <1>b, <1>c, <2>1, <2>2, OutsideWaits DEF LockTryAcquire
<1>10. ASSUME NEW l \in Locks, LockRelease(l) PROVE WaitInv'
  <2>1. /\ pc'[current].at = "up" /\ \A t \in Threads \ {current} : pc'[t] = pc[t]
        /\ StackSemasKept
    BY <1>0, <1>10, <1>a, GotoMove DEF LockRelease, semaVars, StackSemasKept
  <2>2. \A k \in Locks : holder'[k] = holder[k] \/ holder[k] \in {NULL, current}
    BY <1>0, <1>10 DEF LockRelease, LockTypeOK, lock_held_by_current_thread
  <2> QED
    BY <1>10, <1>b, <1>c, <2>1, <2>2, OutsideWaits DEF LockRelease
<1> QED
  BY <1>1, <1>2, <1>3, <1>4, <1>5, <1>6, <1>7, <1>8, <1>9, <1>10 DEF SemaStep, LockStep

LEMMA CondWaitStep ==
  ASSUME TypeOK, QueueInv, LockInv, WaitInv, CondStep
  PROVE  WaitInv'
PROOF
<1> USE ThreadsAssumption
<1>0. /\ current \in Threads /\ SemaTypeOK /\ PcTypeOK /\ PlacesOK /\ LockTypeOK
      /\ Threads \subseteq SemaIds /\ Run.at = "run"
  BY DEF TypeOK, SchedTypeOK, SemaIds, Run, At
<1>a. \A place, obj, lock : At(place, obj, lock).at = place /\ At(place, obj, lock).lk = lock
  BY DEF At
<1>1. CASE CondUp
  <2>1. /\ pc[current].at = "cond_up" /\ pc[current].lk \in Locks /\ pc[current].on \in Conds
    BY <1>0, <1>1 DEF CondUp, Running, PlacesOK, PlaceOK
  <2>2. StackSemasKept
    BY <1>1, <2>1, UpStackSemas DEF CondUp
  <2>3. /\ pc'[current].at = "cond_down" /\ pc'[current].lk = pc[current].lk
        /\ \A t \in Threads \ {current} : pc'[t] = pc[t]
    BY <1>0, <1>1, <1>a, GotoMove DEF CondUp
  <2>4. Listed(current)
    BY <1>0, <2>1 DEF WaitInv, CondUpInv, Listed
  <2> QED
    BY <1>0, <1>1, <2>2, <2>3, <2>4, MoveWaits DEF CondUp, StackSemasKept
<1>2. CASE CondDown
  BY <1>2, OwnDownWaits DEF CondDown, Running, InCond
<1>3. CASE CondReacquire
  <2>1. pc[current].lk \in Locks /\ ~InCond(current)
    BY <1>0, <1>3 DEF CondReacquire, Running, PlacesOK, PlaceOK, InCond, Downing
  <2> QED
    BY <1>3, <2>1, DownWaits DEF CondReacquire
<1>4. CASE BroadcastNext
  <2>1. /\ pc[current].at = "broadcast" /\ pc[current].on \in Conds
        /\ holder[CondLock[pc[current].on]] = current
    BY <1>0, <1>4 DEF BroadcastNext, Running, PlacesOK, PlaceOK, WaitInv, BroadcastInv
  <2>2. CASE SignalOne(pc[current].on) /\ UNCHANGED pc
    BY <1>4, <2>1, <2>2, SignalWaits DEF BroadcastNext
  <2>3. CASE Goto(Run) /\ UNCHANGED <<semaVars, cond_waiters>>
    <3>1. pc'[current] = Run /\ \A t \in Threads \ {current} : pc'[t] = pc[t]
      BY <1>0, <2>3, GotoMove
    <3>2. ~InCond(current)
      BY <2>1 DEF InCond, Downing
    <3>3. StackSemasKept
      BY <2>3 DEF semaVars, StackSemasKept
    <3> QED
      BY <1>0, <1>4, <2>3, <3>1, <3>2, <3>3, OutsideWaits DEF BroadcastNext
  <2> QED
    BY <1>4, <2>2, <2>3 DEF BroadcastNext
<1>5. ASSUME NEW c \in Conds, CondWait(c) PROVE WaitInv'
  BY <1>5, CondWaitWaits
<1>6. ASSUME NEW c \in Conds, CondSignal(c) PROVE WaitInv'
  BY <1>6, SignalWaits DEF CondSignal, lock_held_by_current_thread
<1>7. ASSUME NEW c \in Conds, CondBroadcast(c) PROVE WaitInv'
  <2>1. /\ pc'[current] = At("broadcast", c, NULL)
        /\ \A t \in Threads \ {current} : pc'[t] = pc[t]
    BY <1>0, <1>7, GotoMove DEF CondBroadcast
  <2>2. pc'[current].at = "broadcast" /\ pc'[current].on = c /\ pc[current].at = "run"
    BY <1>7, <2>1 DEF At, CondBroadcast, Calls, Running
  <2>3. BroadcastInv'
    BY <1>7, <2>1, <2>2 DEF CondBroadcast, lock_held_by_current_thread, WaitInv, BroadcastInv
  <2>4. \A t \in Threads : InCond(t) => t # current
    BY <2>2 DEF InCond, Downing
  <2>5. \A t \in Threads : InCond(t)' => t # current
    BY <2>2 DEF InCond, Downing
  <2>6. \A t \in Threads : InCond(t)' => InCond(t)
    BY <2>1, <2>5 DEF InCond, Downing
  <2> QED
    BY <1>7, <2>1, <2>3, <2>4, <2>6, KeepWaits DEF CondBroadcast, semaVars
<1> QED
  BY <1>1, <1>2, <1>3, <1>4, <1>5, <1>6, <1>7 DEF CondStep

LEMMA OtherWaitStep ==
  ASSUME TypeOK, QueueInv, LockInv, WaitInv, SchedulerStep \/ SleepStep \/ TimerStep
  PROVE  WaitInv'
PROOF
<1> USE ThreadsAssumption
<1>0. /\ current \in Threads /\ PcTypeOK /\ Run.at = "run"
  BY DEF TypeOK, SchedTypeOK, Run, At
<1>a. \A place, obj, lock : At(place, obj, lock).at = place
  BY DEF At
<1>1. StackSemasKept /\ UNCHANGED <<holder, cond_waiters>>
  BY DEF SchedulerStep, ThreadYield, ThreadDie, IdleBlock, ThreadSetPriority, ThreadCreate,
     SleepStep, CompareCallTime, StoreCallTime, ThreadSleep, TimerSleep,
     TimerStep, TimerInterrupt, WakeupOne, WakeupDone, IntrReturn, semaVars, StackSemasKept
<1>p. ASSUME UNCHANGED pc PROVE WaitInv'
  BY <1>1, <1>p, SameWaits
<1>g. ASSUME NEW r, Goto(r), r.at \in {"run", "hlt", "compare", "store", "sleep"},
             pc[current].at \in {"run", "compare", "store", "sleep"}
      PROVE  WaitInv'
  <2>1. pc'[current] = r /\ \A t \in Threads \ {current} : pc'[t] = pc[t]
    BY <1>0, <1>g, GotoMove
  <2>2. ~InCond(current)
    BY <1>g DEF InCond, Downing
  <2> QED
    BY <1>1, <1>g, <2>1, <2>2, OutsideWaits
<1>2. CASE SchedulerStep
  <2>1. ASSUME NEW u \in Threads, NEW prio \in Priorities, ThreadCreate(u, prio)
        PROVE  WaitInv'
    <3>1. pc[u].at = "run" /\ pc'[u].at = "run" /\ \A t \in Threads \ {u} : pc'[t] = pc[t]
      BY <1>0, <2>1 DEF ThreadCreate, PcTypeOK, QueueInv, RunningInv
    <3>2. \A t \in Threads : InCond(t) => t # u
      BY <3>1 DEF InCond, Downing
    <3>3. \A t \in Threads : InCond(t)' => t # u
      BY <3>1 DEF InCond, Downing
    <3>4. \A t \in Threads : InCond(t)' => InCond(t)
      BY <3>1, <3>3 DEF InCond, Downing
    <3>5. BroadcastInv'
      BY <1>1, <3>1 DEF WaitInv, BroadcastInv
    <3> QED
      BY <1>1, <3>1, <3>2, <3>4, <3>5, KeepWaits DEF StackSemasKept
  <2>2. CASE IdleBlock
    BY <1>a, <1>g, <2>2 DEF IdleBlock, Running
  <2> QED
    BY <1>2, <1>p, <2>1, <2>2 DEF SchedulerStep, ThreadYield, ThreadDie, ThreadSetPriority
<1>3. CASE SleepStep
  BY <1>0, <1>3, <1>a, <1>g DEF SleepStep, CompareCallTime, StoreCallTime, ThreadSleep,
     TimerSleep, Running, Calls
<1>4. CASE TimerStep
  <2>1. CASE TimerInterrupt /\ current = Idle
    <3>1. pc'[current] = Run /\ \A t \in Threads \ {current} : pc'[t] = pc[t]
      BY <1>0, <2>1 DEF TimerInterrupt, EndHlt, PcTypeOK
    <3>2. ~InCond(current)
      BY <2>1 DEF QueueInv, RunningInv, InCond, Downing
    <3> QED
      BY <1>0, <1>1, <3>1, <3>2, OutsideWaits
  <2>2. CASE TimerInterrupt /\ current # Idle
    <3>1. pc' = pc
      BY <1>0, <2>2 DEF TimerInterrupt, EndHlt, PcTypeOK
    <3> QED
      BY <1>p, <3>1
  <2> QED
    BY <1>4, <1>p, <2>1, <2>2 DEF TimerStep, WakeupOne, WakeupDone, IntrReturn
<1> QED
  BY <1>2, <1>3, <1>4

LEMMA WaitStep ==
  TypeInv /\ QueueInv /\ LockInv /\ WaitInv /\ [Next]_vars => WaitInv'
PROOF
<1> SUFFICES ASSUME TypeInv, QueueInv, LockInv, WaitInv, [Next]_vars PROVE WaitInv'
  OBVIOUS
<1>0. TypeOK
  BY DEF TypeInv
<1>1. CASE UNCHANGED vars
  <2>1. StackSemasKept
    BY <1>1 DEF vars, semaVars, StackSemasKept
  <2> QED
    BY <1>0, <1>1, <2>1, SameWaits DEF vars
<1> QED
  BY <1>0, <1>1, SyncWaitStep, CondWaitStep, OtherWaitStep DEF Next

(* The state that the proofs about condition variables carry along. *)
SyncInv == TypeInv /\ QueueInv /\ BlockedInv /\ LockInv /\ WaitInv

LEMMA SyncInit == Init => SyncInv
PROOF
<1> SUFFICES ASSUME Init PROVE BlockedInv /\ WaitInv
  BY TypeInit, QueueInit, LockInit DEF SyncInv
<1>1. \A t \in Threads : pc[t].at \in {"run", "hlt"}
  BY DEF Init, Run, At
<1>2. Range(<<>>) = {} /\ IsInjective(<<>>)
  BY DEF Range, IsInjective
<1>3. \A c \in Conds : cond_waiters[c] = <<>>
  BY DEF Init
<1>4. BlockedInv
  BY <1>1 DEF BlockedInv, BlockedPlaces
<1>5. OnceListed /\ ListedInv
  BY <1>2, <1>3 DEF OnceListed, ListedInv
<1>6. CondUpInv /\ SignaledInv /\ BroadcastInv
  BY <1>1 DEF CondUpInv, SignaledInv, BroadcastInv, InCond, Downing
<1> QED
  BY <1>4, <1>5, <1>6 DEF WaitInv

LEMMA SyncStep == SyncInv /\ [Next]_vars => SyncInv'
  BY TypeStep, QueueStep, BlockedStep, LockInvStep, WaitStep DEF SyncInv

(***************************************************************************)
(* For any number of threads, locks and conditions: a thread in            *)
(* cond_wait() is on its condition's list until it is signaled, and only   *)
(* then has its semaphore a unit, wherever the waiter and the signaler are *)
(* preempted; no signal is lost and no list refers to a dead stack frame.  *)
(***************************************************************************)
THEOREM ConditionsCorrect == Spec => []CondInv
PROOF
<1>1. SyncInv => CondInv
  BY WaitInvCond DEF SyncInv, TypeInv
<1> QED
  BY <1>1, SyncInit, SyncStep, PTL DEF Spec

-----------------------------------------------------------------------------
(***************************************************************************)
(* Locks and condition variables implement MonitorSpec.  Every step is one *)
(* of its actions, for the thread that runs, or leaves the monitor as it   *)
(* is.  First what the refinement mapping says of one thread.              *)
(***************************************************************************)
OwnerInv ==
  /\ owner \in [Locks -> Threads \cup {NULL}]
  /\ \A l \in Locks, t \in Threads : owner[l] = t <=> Owns(t, l)

Waits(t, c) == t \in Range(cond_waiters[c]) /\ pc[t].at # "cond_up"

Signaled(t, l) == pc[t].lk = l /\ pc[t].at # "cond_up" /\ ~Listed(t)

LEMMA OwnerCorrect == LockInv => OwnerInv
PROOF
<1> SUFFICES ASSUME LockInv PROVE OwnerInv
  OBVIOUS
<1>1. ASSUME NEW l \in Locks
      PROVE  /\ owner[l] \in Threads \cup {NULL}
             /\ \A t \in Threads : owner[l] = t <=> Owns(t, l)
  <2>1. CASE \E t \in Threads : Owns(t, l)
    <3> DEFINE o == CHOOSE t \in Threads : Owns(t, l)
    <3>1. o \in Threads /\ Owns(o, l)
      BY <2>1
    <3>2. owner[l] = o
      BY <2>1 DEF owner
    <3> HIDE DEF o
    <3> QED
      BY <3>1, <3>2 DEF LockInv, LockOK
  <2>2. CASE ~\E t \in Threads : Owns(t, l)
    <3>1. owner[l] = NULL
      BY <2>2 DEF owner
    <3> QED
      BY <2>2, <3>1, ThreadsAssumption
  <2> QED
    BY <2>1, <2>2
<1>2. DOMAIN owner = Locks /\ owner = [l \in Locks |-> owner[l]]
  BY DEF owner
<1> QED
  BY <1>1, <1>2 DEF OwnerInv

LEMMA MonitorSets ==
  /\ \A c \in Conds : waiting[c] = {t \in Threads : Waits(t, c)}
  /\ \A l \in Locks : signaled[l] = {t \in Threads : Signaled(t, l)}
  /\ waiting \in [Conds -> SUBSET Threads] /\ signaled \in [Locks -> SUBSET Threads]
PROOF
<1>1. /\ \A c \in Conds : waiting[c] = {t \in Threads : Waits(t, c)}
      /\ waiting \in [Conds -> SUBSET Threads]
  BY DEF waiting, Waits
<1>2. /\ \A l \in Locks : signaled[l] = {t \in Threads : Signaled(t, l)}
      /\ signaled \in [Locks -> SUBSET Threads]
  BY DEF signaled, Signaled, Listed
<1> QED
  BY <1>1, <1>2

SameOwners == \A t \in Threads, l \in Locks : Owns(t, l)' <=> Owns(t, l)
SameWaiting == \A t \in Threads, c \in Conds : Waits(t, c)' <=> Waits(t, c)
SameSignaled == \A t \in Threads, l \in Locks : Signaled(t, l)' <=> Signaled(t, l)

LEMMA OwnerSame ==
  ASSUME OwnerInv, OwnerInv', SameOwners
  PROVE  UNCHANGED owner
PROOF
<1>1. ASSUME NEW l \in Locks PROVE owner'[l] = owner[l]
  <2>1. owner[l] \in Threads \cup {NULL} /\ owner'[l] \in Threads \cup {NULL}
    BY DEF OwnerInv
  <2>2. \A t \in Threads : owner'[l] = t <=> owner[l] = t
    BY DEF OwnerInv, SameOwners
  <2> QED
    BY <2>1, <2>2
<1>2. /\ owner = [l \in Locks |-> owner[l]] /\ owner' = [l \in Locks |-> owner'[l]]
  BY DEF OwnerInv
<1> QED
  BY <1>1, <1>2

LEMMA WaitingSame == ASSUME SameWaiting PROVE UNCHANGED waiting
  BY DEF SameWaiting, Waits, waiting

LEMMA SignaledSame == ASSUME SameSignaled PROVE UNCHANGED signaled
  BY DEF SameSignaled, Signaled, Listed, signaled

(* One lock changes hands, from the thread u, or NULL, to the thread v, or NULL. *)
LEMMA OwnerMoves ==
  ASSUME OwnerInv, OwnerInv', NEW l \in Locks,
         NEW u \in Threads \cup {NULL}, NEW v \in Threads \cup {NULL},
         \A t \in Threads : Owns(t, l) <=> t = u,
         \A t \in Threads : Owns(t, l)' <=> t = v,
         \A t \in Threads, k \in Locks \ {l} : Owns(t, k)' <=> Owns(t, k)
  PROVE  owner[l] = u /\ owner' = [owner EXCEPT ![l] = v]
PROOF
<1>1. owner[l] = u /\ owner'[l] = v
  <2>1. owner[l] \in Threads \cup {NULL} /\ owner'[l] \in Threads \cup {NULL}
    BY DEF OwnerInv
  <2>2. \A t \in Threads : (owner[l] = t <=> t = u) /\ (owner'[l] = t <=> t = v)
    BY DEF OwnerInv
  <2> QED
    BY <2>1, <2>2
<1>2. ASSUME NEW k \in Locks \ {l} PROVE owner'[k] = owner[k]
  <2>1. owner[k] \in Threads \cup {NULL} /\ owner'[k] \in Threads \cup {NULL}
    BY DEF OwnerInv
  <2>2. \A t \in Threads : owner'[k] = t <=> owner[k] = t
    BY DEF OwnerInv
  <2> QED
    BY <2>1, <2>2
<1>3. owner \in [Locks -> Threads \cup {NULL}] /\ owner' \in [Locks -> Threads \cup {NULL}]
  BY DEF OwnerInv
<1> QED
  BY <1>1, <1>2, <1>3

(* Only the running thread's hands move. *)
LEMMA OthersOwn ==
  ASSUME \A t \in Threads \ {current} : pc'[t] = pc[t],
         \A l \in Locks : \/ holder'[l] = holder[l]
                          \/ holder[l] \in {NULL, current} /\ holder'[l] \in {NULL, current}
  PROVE  \A t \in Threads \ {current}, l \in Locks : Owns(t, l)' <=> Owns(t, l)
PROOF
<1> USE ThreadsAssumption
<1>1. ASSUME NEW t \in Threads \ {current}, NEW l \in Locks
      PROVE  t \in InHand(l)' <=> t \in InHand(l)
  BY DEF InHand, Hand
<1>2. ASSUME NEW t \in Threads \ {current}, NEW l \in Locks
      PROVE  holder'[l] = t <=> holder[l] = t
  OBVIOUS
<1> QED
  BY <1>1, <1>2 DEF Owns

(* A step that the monitor does not see. *)
LEMMA MonitorStutter ==
  ASSUME OwnerInv, OwnerInv', UNCHANGED cond_waiters, SameOwners,
         \A t \in Threads : /\ pc'[t].lk = pc[t].lk
                            /\ pc'[t].at = "cond_up" <=> pc[t].at = "cond_up"
  PROVE  UNCHANGED <<owner, waiting, signaled>>
PROOF
<1>1. SameWaiting
  BY DEF SameWaiting, Waits
<1>2. SameSignaled
  BY DEF SameSignaled, Signaled, Listed
<1> QED
  BY <1>1, <1>2, OwnerSame, WaitingSame, SignaledSame

LEMMA PlainStutter ==
  ASSUME OwnerInv, OwnerInv', UNCHANGED <<pc, holder, cond_waiters>>
  PROVE  UNCHANGED <<owner, waiting, signaled>>
PROOF
<1>1. SameOwners
  BY DEF SameOwners, Owns, InHand, Hand
<1> QED
  BY <1>1, MonitorStutter

LEMMA OwnsIs ==
  \A t \in Threads, l \in Locks : Owns(t, l) <=> holder[l] = t \/ Hand(pc[t], l)
  BY DEF Owns, InHand

LEMMA OwnsNext ==
  \A t \in Threads, l \in Locks : Owns(t, l)' <=> holder'[l] = t \/ Hand(pc'[t], l)
  BY DEF Owns, InHand, Hand

(* The running thread moves on; what it owns and waits for stays the same. *)
LEMMA MoveStutter ==
  ASSUME OwnerInv, OwnerInv', current \in Threads, UNCHANGED cond_waiters,
         \A t \in Threads \ {current} : pc'[t] = pc[t],
         \A l \in Locks : \/ holder'[l] = holder[l]
                          \/ holder[l] \in {NULL, current} /\ holder'[l] \in {NULL, current},
         \A l \in Locks : (holder'[l] = current \/ Hand(pc'[current], l)) <=>
                          (holder[l] = current \/ Hand(pc[current], l)),
         pc'[current].lk = pc[current].lk,
         pc'[current].at # "cond_up", pc[current].at # "cond_up"
  PROVE  UNCHANGED <<owner, waiting, signaled>>
PROOF
<1>1. \A t \in Threads \ {current}, l \in Locks : Owns(t, l)' <=> Owns(t, l)
  BY OthersOwn
<1>2. ASSUME NEW t \in Threads, NEW l \in Locks, t = current PROVE Owns(t, l)' <=> Owns(t, l)
  BY <1>2, OwnsIs, OwnsNext
<1>3. SameOwners
  BY <1>1, <1>2 DEF SameOwners
<1>4. \A t \in Threads : /\ pc'[t].lk = pc[t].lk
                         /\ pc'[t].at = "cond_up" <=> pc[t].at = "cond_up"
  OBVIOUS
<1> QED
  BY <1>3, <1>4, MonitorStutter

(* A thread outside cond_wait() is not in a wait of the monitor. *)
LEMMA NotInWait ==
  ASSUME WaitInv, NEW t \in Threads, ~InCond(t) \/ pc[t].at = "cond_up",
         pc[t].at # "cond_up" => pc[t].lk = NULL
  PROVE  ~Monitor!InWait(t)
PROOF
<1>1. \A c \in Conds : ~Waits(t, c)
  BY DEF WaitInv, ListedInv, Waits
<1>2. \A l \in Locks : ~Signaled(t, l)
  BY ThreadsAssumption DEF Signaled
<1>3. \A c \in Conds : t \notin waiting[c]
  BY <1>1, MonitorSets
<1>4. \A l \in Locks : t \notin signaled[l]
  BY <1>2, MonitorSets
<1> QED
  BY <1>3, <1>4 DEF Monitor!InWait

(* The decrement of a lock's semaphore, in lock_acquire() or cond_wait(). *)
LEMMA TakeMonitor ==
  ASSUME TypeOK, LockInv, WaitInv, OwnerInv, OwnerInv', NEW l \in Locks, value[l] # 0,
         UNCHANGED <<holder, cond_waiters>>,
         \A t \in Threads \ {current} : pc'[t] = pc[t],
         pc'[current] = At("own", l, NULL),
         pc[current].at \in {"run", "reacquire", "down"}, ~InCond(current),
         pc[current].lk \in {NULL, l}
  PROVE  Monitor!Acquire(current, l) \/ Monitor!Return(current, l)
PROOF
<1> USE ThreadsAssumption
<1>0. current \in Threads
  BY DEF TypeOK, SchedTypeOK
<1>1. /\ pc'[current].at = "own" /\ pc'[current].on = l /\ pc'[current].lk = NULL
  BY DEF At
<1>2. \A t \in Threads : ~Owns(t, l)
  BY DEF LockInv, LockOK
<1>3. \A k \in Locks : ~Hand(pc[current], k) /\ (Hand(pc'[current], k) <=> k = l)
  BY <1>1 DEF Hand
<1>4. owner[l] = NULL /\ owner' = [owner EXCEPT ![l] = current]
  <2>1. \A t \in Threads \ {current}, k \in Locks : Owns(t, k)' <=> Owns(t, k)
    BY OthersOwn
  <2>2. \A t \in Threads, k \in Locks \ {l} : Owns(t, k)' <=> Owns(t, k)
    BY <1>3, <2>1, OwnsIs, OwnsNext
  <2>3. \A t \in Threads : (Owns(t, l) <=> t = NULL) /\ (Owns(t, l)' <=> t = current)
    BY <1>2, <1>3, <2>1, OwnsNext
  <2> QED
    BY <1>0, <2>2, <2>3, OwnerMoves
<1>5. ~Listed(current)
  BY <1>0 DEF WaitInv, ListedInv, Listed
<1>6. UNCHANGED waiting
  <2>1. SameWaiting
    BY <1>1, <1>5 DEF SameWaiting, Waits, Listed
  <2> QED
    BY <2>1, WaitingSame
<1>7. CASE pc[current].lk = NULL
  <2>1. UNCHANGED signaled
    <3>1. SameSignaled
      BY <1>1, <1>7 DEF SameSignaled, Signaled, Listed
    <3> QED
      BY <3>1, SignaledSame
  <2>2. ~Monitor!InWait(current)
    BY <1>0, <1>7, NotInWait
  <2> QED
    BY <1>4, <1>6, <2>1, <2>2 DEF Monitor!Acquire
<1>8. CASE pc[current].lk = l
  <2>1. Signaled(current, l)
    BY <1>5, <1>8 DEF Signaled
  <2>2. \A t \in Threads, k \in Locks :
          Signaled(t, k)' <=> Signaled(t, k) /\ ~(t = current /\ k = l)
    BY <1>1, <1>8 DEF Signaled, Listed
  <2>3. current \in signaled[l]
    BY <1>0, <2>1, MonitorSets
  <2>4. signaled' = [signaled EXCEPT ![l] = @ \ {current}]
    <3>1. /\ signaled \in [Locks -> SUBSET Threads]
          /\ signaled' \in [Locks -> SUBSET Threads]
          /\ \A k \in Locks, t \in Threads : t \in signaled[k] <=> Signaled(t, k)
          /\ \A k \in Locks, t \in Threads : t \in signaled'[k] <=> Signaled(t, k)'
      BY DEF signaled, Signaled, Listed
    <3>2. ASSUME NEW k \in Locks
          PROVE  signaled'[k] = IF k = l THEN signaled[k] \ {current} ELSE signaled[k]
      <4>1. signaled[k] \subseteq Threads /\ signaled'[k] \subseteq Threads
        BY <3>1
      <4>2. \A t \in Threads : t \in signaled'[k] <=> t \in signaled[k] /\ ~(t = current /\ k = l)
        BY <2>2, <3>1
      <4> QED
        BY <4>1, <4>2
    <3> QED
      BY <3>1, <3>2
  <2> QED
    BY <1>4, <1>6, <2>3, <2>4 DEF Monitor!Return
<1> QED
  BY <1>7, <1>8

(* The increment of the semaphore of the lock in the running thread's hand. *)
LEMMA OwnerGives ==
  ASSUME TypeOK, LockInv, OwnerInv, OwnerInv', NEW l \in Locks, UNCHANGED holder,
         \A t \in Threads \ {current} : pc'[t] = pc[t],
         \A k \in Locks : Hand(pc[current], k) <=> k = l,
         \A k \in Locks : ~Hand(pc'[current], k)
  PROVE  owner[l] = current /\ owner' = [owner EXCEPT ![l] = NULL]
PROOF
<1> USE ThreadsAssumption
<1>0. current \in Threads
  BY DEF TypeOK, SchedTypeOK
<1>1. current \in InHand(l) /\ Owns(current, l)
  BY <1>0 DEF InHand, Owns
<1>2. holder[l] = NULL /\ \A t \in Threads : Owns(t, l) <=> t = current
  BY <1>0, <1>1 DEF LockInv, LockOK
<1>3. \A t \in Threads \ {current}, k \in Locks : Owns(t, k)' <=> Owns(t, k)
  BY OthersOwn
<1>4. \A t \in Threads, k \in Locks \ {l} : Owns(t, k)' <=> Owns(t, k)
  BY <1>3, OwnsIs, OwnsNext
<1>5. \A t \in Threads : Owns(t, l)' <=> t = NULL
  BY <1>2, <1>3, OwnsNext
<1> QED
  BY <1>0, <1>2, <1>4, <1>5, OwnerMoves

(* lock_release() ends with Release, lock_release() in cond_wait() with Wait. *)
LEMMA LockUpMonitor ==
  ASSUME TypeOK, LockInv, WaitInv, OwnerInv, OwnerInv', LockUp
  PROVE  Monitor!Release(current, pc[current].on) /\ pc[current].on \in Locks
PROOF
<1> USE ThreadsAssumption
<1> DEFINE l == pc[current].on
<1>0. current \in Threads /\ PcTypeOK /\ PlacesOK
  BY DEF TypeOK, SchedTypeOK
<1>1. pc[current].at = "up" /\ l \in Locks /\ pc[current].lk = NULL
  BY <1>0 DEF LockUp, Running, PlacesOK, PlaceOK
<1>2. /\ pc'[current] = Run /\ \A t \in Threads \ {current} : pc'[t] = pc[t]
      /\ UNCHANGED <<holder, cond_waiters>>
  BY <1>0, GotoMove DEF LockUp
<1>3. pc'[current].at = "run" /\ pc'[current].lk = NULL
  BY <1>2 DEF Run, At
<1>4. \A k \in Locks : (Hand(pc[current], k) <=> k = l) /\ ~Hand(pc'[current], k)
  BY <1>1, <1>3 DEF Hand
<1>5. owner[l] = current /\ owner' = [owner EXCEPT ![l] = NULL]
  <2> HIDE DEF l
  <2> QED
    BY <1>1, <1>2, <1>4, OwnerGives
<1>6. UNCHANGED <<waiting, signaled>>
  <2>1. \A t \in Threads : /\ pc'[t].lk = pc[t].lk
                           /\ pc'[t].at = "cond_up" <=> pc[t].at = "cond_up"
    BY <1>1, <1>2, <1>3
  <2>2. SameWaiting
    BY <1>2, <2>1 DEF SameWaiting, Waits
  <2>3. SameSignaled
    BY <1>2, <2>1 DEF SameSignaled, Signaled, Listed
  <2> QED
    BY <2>2, <2>3, WaitingSame, SignaledSame
<1>7. ~Monitor!InWait(current)
  <2>1. ~InCond(current)
    BY <1>1 DEF InCond, Downing
  <2> QED
    BY <1>0, <1>1, <2>1, NotInWait
<1> QED
  BY <1>1, <1>5, <1>6, <1>7 DEF Monitor!Release

LEMMA CondUpMonitor ==
  ASSUME TypeOK, LockInv, WaitInv, OwnerInv, OwnerInv', CondUp
  PROVE  Monitor!Wait(current, pc[current].on) /\ pc[current].on \in Conds
PROOF
<1> USE ThreadsAssumption
<1> DEFINE c == pc[current].on
           l == CondLock[c]
<1>0. current \in Threads /\ PcTypeOK /\ PlacesOK
  BY DEF TypeOK, SchedTypeOK
<1>1. pc[current].at = "cond_up" /\ c \in Conds /\ pc[current].lk = l /\ l \in Locks
  BY <1>0 DEF CondUp, Running, PlacesOK, PlaceOK
<1>2. /\ pc'[current] = At("cond_down", NULL, pc[current].lk)
      /\ \A t \in Threads \ {current} : pc'[t] = pc[t]
      /\ UNCHANGED <<holder, cond_waiters>>
  BY <1>0, GotoMove DEF CondUp
<1>3. pc'[current].at = "cond_down" /\ pc'[current].lk = l
  BY <1>1, <1>2 DEF At
<1>4. \A k \in Locks : (Hand(pc[current], k) <=> k = l) /\ ~Hand(pc'[current], k)
  BY <1>1, <1>3 DEF Hand
<1> HIDE DEF l
<1>5. owner[l] = current /\ owner' = [owner EXCEPT ![l] = NULL]
  BY <1>1, <1>2, <1>4, OwnerGives
<1>6. \A d \in Conds : current \in Range(cond_waiters[d]) <=> d = c
  BY <1>0, <1>1 DEF WaitInv, CondUpInv
<1>7. UNCHANGED signaled
  <2>1. \A t \in Threads, k \in Locks : Signaled(t, k)' <=> Signaled(t, k)
    <3>1. Listed(current)
      BY <1>1, <1>6 DEF Listed
    <3> QED
      BY <1>1, <1>2, <3>1 DEF Signaled, Listed
  <2> QED
    BY <2>1, SignaledSame DEF SameSignaled
<1>8. waiting' = [waiting EXCEPT ![c] = @ \cup {current}]
  <2>1. /\ waiting \in [Conds -> SUBSET Threads]
        /\ waiting' \in [Conds -> SUBSET Threads]
        /\ \A d \in Conds, t \in Threads : t \in waiting[d] <=> Waits(t, d)
        /\ \A d \in Conds, t \in Threads : t \in waiting'[d] <=> Waits(t, d)'
    BY DEF waiting, Waits
  <2>2. \A d \in Conds, t \in Threads : Waits(t, d)' <=> Waits(t, d) \/ (t = current /\ d = c)
    BY <1>1, <1>2, <1>3, <1>6 DEF Waits
  <2> HIDE DEF c
  <2>3. ASSUME NEW d \in Conds
        PROVE  waiting'[d] = IF d = c THEN waiting[d] \cup {current} ELSE waiting[d]
    <3>1. waiting[d] \subseteq Threads /\ waiting'[d] \subseteq Threads
      BY <2>1
    <3>2. \A t \in Threads : t \in waiting'[d] <=> t \in waiting[d] \/ (t = current /\ d = c)
      BY <2>1, <2>2
    <3> QED
      BY <1>0, <3>1, <3>2
  <2> QED
    BY <2>1, <2>3
<1>9. ~Monitor!InWait(current)
  BY <1>0, <1>1, NotInWait
<1> QED
  BY <1>1, <1>5, <1>7, <1>8, <1>9 DEF Monitor!Wait, l

(* One signal, of cond_signal() or of cond_broadcast(). *)
LEMMA SignalMonitor ==
  ASSUME TypeOK, LockInv, WaitInv, OwnerInv, OwnerInv', NEW c \in Conds,
         holder[CondLock[c]] = current, SignalOne(c), UNCHANGED <<pc, holder>>,
         pc[current].at \in {"run", "broadcast"}
  PROVE  Monitor!Signal(current, Head(cond_waiters[c]), c) /\ Head(cond_waiters[c]) \in Threads
PROOF
<1> USE ThreadsAssumption
<1> DEFINE h == Head(cond_waiters[c])
           l == CondLock[c]
<1>0. current \in Threads /\ PlacesOK /\ LockTypeOK /\ l \in Locks
  BY DEF TypeOK, SchedTypeOK
<1>1. /\ h \in Threads /\ h \in Range(cond_waiters[c])
      /\ Range(cond_waiters[c]) = Range(Tail(cond_waiters[c])) \cup {h}
      /\ h \notin Range(Tail(cond_waiters[c]))
  BY <1>0, HeadTailRange DEF SignalOne, LockTypeOK, WaitInv, OnceListed
<1>2. \A d \in Conds :
        cond_waiters'[d] = IF d = c THEN Tail(cond_waiters[c]) ELSE cond_waiters[d]
  BY <1>0 DEF SignalOne, LockTypeOK
<1>3. pc[h].lk = l /\ pc[h].at # "cond_up"
  <2>1. pc[h].lk = l
    BY <1>1 DEF WaitInv, ListedInv
  <2>2. InHand(l) = {}
    BY <1>0 DEF LockInv, LockOK
  <2> QED
    BY <1>1, <2>1, <2>2 DEF InHand, Hand
<1>4. owner[l] = current /\ UNCHANGED owner
  <2>1. SameOwners
    BY DEF SameOwners, Owns, InHand, Hand
  <2>2. Owns(current, l)
    BY DEF Owns
  <2> QED
    BY <1>0, <2>1, <2>2, OwnerSame DEF OwnerInv
<1> HIDE DEF h, l
<1>5. \A d \in Conds, t \in Threads :
        t \in Range(cond_waiters'[d]) <=> t \in Range(cond_waiters[d]) /\ t # h
  BY <1>1, <1>2 DEF WaitInv, OnceListed
<1>6. \A d \in Conds, t \in Threads : Waits(t, d)' <=> Waits(t, d) /\ ~(t = h /\ d = c)
  BY <1>1, <1>5 DEF Waits, WaitInv, OnceListed
<1>7. \A k \in Locks, t \in Threads : Signaled(t, k)' <=> Signaled(t, k) \/ (t = h /\ k = l)
  <2>1. \A t \in Threads : Listed(t)' <=> Listed(t) /\ t # h
    BY <1>5 DEF Listed
  <2>2. Listed(h)
    BY <1>1 DEF Listed
  <2> QED
    BY <1>3, <2>1, <2>2 DEF Signaled
<1>8. /\ waiting \in [Conds -> SUBSET Threads]
      /\ waiting' \in [Conds -> SUBSET Threads]
      /\ \A d \in Conds, t \in Threads : t \in waiting[d] <=> Waits(t, d)
      /\ \A d \in Conds, t \in Threads : t \in waiting'[d] <=> Waits(t, d)'
  BY DEF waiting, Waits
<1>9. /\ signaled \in [Locks -> SUBSET Threads]
      /\ signaled' \in [Locks -> SUBSET Threads]
      /\ \A k \in Locks, t \in Threads : t \in signaled[k] <=> Signaled(t, k)
      /\ \A k \in Locks, t \in Threads : t \in signaled'[k] <=> Signaled(t, k)'
  BY DEF signaled, Signaled, Listed
<1>10. h \in waiting[c]
  BY <1>1, <1>3, <1>8 DEF Waits
<1>11. waiting' = [waiting EXCEPT ![c] = @ \ {h}]
  <2>1. ASSUME NEW d \in Conds
        PROVE  waiting'[d] = IF d = c THEN waiting[d] \ {h} ELSE waiting[d]
    <3>1. waiting[d] \subseteq Threads /\ waiting'[d] \subseteq Threads
      BY <1>8
    <3>2. \A t \in Threads : t \in waiting'[d] <=> t \in waiting[d] /\ ~(t = h /\ d = c)
      BY <1>6, <1>8
    <3> QED
      BY <3>1, <3>2
  <2> QED
    BY <1>8, <2>1
<1>12. signaled' = [signaled EXCEPT ![l] = @ \cup {h}]
  <2>1. ASSUME NEW k \in Locks
        PROVE  signaled'[k] = IF k = l THEN signaled[k] \cup {h} ELSE signaled[k]
    <3>1. signaled[k] \subseteq Threads /\ signaled'[k] \subseteq Threads
      BY <1>9
    <3>2. \A t \in Threads : t \in signaled'[k] <=> t \in signaled[k] \/ (t = h /\ k = l)
      BY <1>7, <1>9
    <3>3. CASE k = l
      BY <1>1, <3>1, <3>2, <3>3
    <3>4. CASE k # l
      BY <3>1, <3>2, <3>4
    <3> QED
      BY <3>3, <3>4
  <2> QED
    BY <1>9, <2>1
<1>13. ~Monitor!InWait(current)
  <2>1. ~InCond(current) /\ pc[current].lk = NULL
    BY <1>0 DEF InCond, Downing, PlacesOK, PlaceOK
  <2> QED
    BY <1>0, <2>1, NotInWait
<1> QED
  BY <1>1, <1>4, <1>10, <1>11, <1>12, <1>13 DEF Monitor!Signal, l, h

MonitorStutters == UNCHANGED <<owner, waiting, signaled>>

(* One turn of sema_down(): a lock is taken, or the monitor sees nothing. *)
LEMMA DownMonitor ==
  ASSUME TypeOK, LockInv, WaitInv, OwnerInv, OwnerInv', UNCHANGED <<holder, cond_waiters>>,
         NEW s \in SemaIds, Down(s, pc[current].lk),
         pc[current].at \in {"run", "cond_down", "reacquire", "down"},
         s \in Threads => s = current /\ pc[current].at \in {"cond_down", "down"},
         s \in Locks => ~InCond(current) /\ pc[current].lk \in {NULL, s},
         s \in Semas => pc[current].lk = NULL
  PROVE  MonitorStutters \/ \E l \in Locks : Monitor!Acquire(current, l) \/ Monitor!Return(current, l)
PROOF
<1> USE ThreadsAssumption
<1>0. current \in Threads /\ PcTypeOK /\ SemaTypeOK
  BY DEF TypeOK, SchedTypeOK
<1>a. \A place, obj, lock : /\ At(place, obj, lock).at = place
                            /\ At(place, obj, lock).on = obj /\ At(place, obj, lock).lk = lock
  BY DEF At
<1>1. \A t \in Threads \ {current} : pc'[t] = pc[t]
  BY DownMoves
<1>2. CASE s \in Locks /\ value[s] # 0
  <2>1. pc'[current] = At("own", s, NULL)
    BY <1>0, <1>2, GotoMove DEF Down, AfterDown
  <2>2. pc[current].at # "cond_down"
    BY <1>2 DEF InCond
  <2> QED
    BY <1>1, <1>2, <2>1, <2>2, TakeMonitor
<1>3. CASE ~(s \in Locks /\ value[s] # 0)
  <2>1. /\ pc'[current].lk = pc[current].lk
        /\ pc'[current].at \in {"down", "reacquire", "run"}
    <3>1. CASE value[s] = 0
      BY <1>0, <1>a, <3>1, GotoMove DEF Down
    <3>2. CASE value[s] # 0 /\ s \in Threads
      <4>1. AfterDown(s, pc[current].lk) = At("reacquire", NULL, pc[current].lk)
        BY <3>2 DEF AfterDown
      <4> QED
        BY <1>0, <1>a, <3>2, <4>1, GotoMove DEF Down
    <3>3. CASE value[s] # 0 /\ s \in Semas
      <4>1. AfterDown(s, pc[current].lk) = Run
        BY <3>3 DEF AfterDown
      <4> QED
        BY <1>0, <1>a, <3>3, <4>1, GotoMove DEF Down, Run
    <3> QED
      BY <1>3, <3>1, <3>2, <3>3 DEF SemaIds
  <2>2. \A l \in Locks : ~Hand(pc'[current], l) /\ ~Hand(pc[current], l)
    BY <2>1 DEF Hand
  <2>3. MonitorStutters
    BY <1>0, <1>1, <2>1, <2>2, MoveStutter DEF MonitorStutters
  <2> QED
    BY <2>3
<1> QED
  BY <1>2, <1>3

(* An interrupt ends the idle thread's hlt. *)
LEMMA IdleStutter ==
  ASSUME TypeOK, QueueInv, OwnerInv, OwnerInv', EndHlt, UNCHANGED <<holder, cond_waiters>>
  PROVE  MonitorStutters
PROOF
<1> USE ThreadsAssumption
<1>0. current \in Threads /\ PcTypeOK /\ PlacesOK
  BY DEF TypeOK, SchedTypeOK
<1>1. CASE current = Idle
  <2>1. pc'[current] = Run /\ \A t \in Threads \ {current} : pc'[t] = pc[t]
    BY <1>0, <1>1 DEF EndHlt, PcTypeOK
  <2>2. pc[current].at \in {"run", "hlt"} /\ pc[current].lk = NULL
    BY <1>0, <1>1 DEF QueueInv, RunningInv, PlacesOK, PlaceOK
  <2>3. pc'[current].at = "run" /\ pc'[current].lk = NULL
    BY <2>1 DEF Run, At
  <2>4. \A l \in Locks : ~Hand(pc'[current], l) /\ ~Hand(pc[current], l)
    BY <2>2, <2>3 DEF Hand
  <2> QED
    BY <1>0, <2>1, <2>2, <2>3, <2>4, MoveStutter DEF MonitorStutters
<1>2. CASE current # Idle
  <2>1. pc' = pc
    BY <1>0, <1>2 DEF EndHlt, PcTypeOK
  <2> QED
    BY <2>1, PlainStutter DEF MonitorStutters
<1> QED
  BY <1>1, <1>2

LEMMA SyncMonitorStep ==
  ASSUME TypeOK, QueueInv, LockInv, WaitInv, OwnerInv, OwnerInv', SemaStep \/ LockStep
  PROVE  MonitorStutters \/ Monitor!MonitorNext
PROOF
<1> USE ThreadsAssumption
<1>0. /\ current \in Threads /\ PcTypeOK /\ SemaTypeOK /\ PlacesOK /\ LockTypeOK
  BY DEF TypeOK, SchedTypeOK
<1>a. \A place, obj, lock : /\ At(place, obj, lock).at = place
                            /\ At(place, obj, lock).on = obj /\ At(place, obj, lock).lk = lock
  BY DEF At
<1>r. Run.at = "run" /\ Run.lk = NULL
  BY DEF Run, At
<1>b. Calls => pc[current].at = "run" /\ pc[current].lk = NULL /\ ~InCond(current)
  BY <1>0 DEF Calls, Running, PlacesOK, PlaceOK, InCond, Downing
<1>1. CASE ResumeDown
  <2>1. /\ pc[current].at = "down" /\ pc[current].on \in SemaIds
        /\ Down(pc[current].on, pc[current].lk) /\ UNCHANGED <<holder, cond_waiters>>
        /\ pc[current].on \in Threads => pc[current].on = current
        /\ pc[current].on \in Locks => pc[current].lk \in {NULL, pc[current].on}
        /\ pc[current].on \in Semas => pc[current].lk = NULL
    BY <1>0, <1>1 DEF ResumeDown, Running, PlacesOK, PlaceOK
  <2>2. pc[current].on \in Locks => ~InCond(current)
    BY <1>0, <2>1 DEF InCond, Downing
  <2> QED
    BY <1>0, <2>1, <2>2, DownMonitor DEF Monitor!MonitorNext
<1>2. ASSUME NEW s \in Semas, SemaDown(s) PROVE MonitorStutters \/ Monitor!MonitorNext
  <2>1. s \in SemaIds /\ s \notin Threads /\ s \notin Locks
    BY DEF SemaIds
  <2> QED
    BY <1>0, <1>2, <1>b, <2>1, DownMonitor DEF SemaDown, Monitor!MonitorNext
<1>3. ASSUME NEW s \in Semas, SemaTryDown(s) \/ SemaUp(s) PROVE MonitorStutters
  BY <1>3, PlainStutter DEF SemaTryDown, SemaUp, MonitorStutters
<1>4. ASSUME NEW s \in Semas, DeviceInterrupt(s) PROVE MonitorStutters
  BY <1>4, IdleStutter DEF DeviceInterrupt
<1>5. CASE SetHolder
  <2>1. pc'[current] = Run /\ \A t \in Threads \ {current} : pc'[t] = pc[t]
    BY <1>0, <1>5, GotoMove DEF SetHolder
  <2>2. pc[current].at = "own" /\ pc[current].on \in Locks /\ pc[current].lk = NULL
    BY <1>0, <1>5 DEF SetHolder, Running, PlacesOK, PlaceOK
  <2>3. holder[pc[current].on] = NULL
    <3>1. current \in InHand(pc[current].on)
      BY <1>0, <2>2 DEF InHand, Hand
    <3> QED
      BY <2>2, <3>1 DEF LockInv, LockOK
  <2>4. \A l \in Locks : holder'[l] = IF l = pc[current].on THEN current ELSE holder[l]
    BY <1>0, <1>5, <2>2 DEF SetHolder, LockTypeOK
  <2>5. \A l \in Locks : ~Hand(pc'[current], l) /\ (Hand(pc[current], l) <=> l = pc[current].on)
    BY <1>r, <2>1, <2>2 DEF Hand
  <2>6. MonitorStutters
    BY <1>0, <1>5, <1>r, <2>1, <2>2, <2>3, <2>4, <2>5, MoveStutter DEF SetHolder, MonitorStutters
  <2> QED
    BY <2>6
<1>6. CASE LockUp
  BY <1>0, <1>6, LockUpMonitor DEF Monitor!MonitorNext
<1>7. ASSUME NEW l \in Locks, LockAcquire(l) PROVE MonitorStutters \/ Monitor!MonitorNext
  <2>1. l \in SemaIds /\ l \notin Threads /\ l \notin Semas
    BY DEF SemaIds
  <2> QED
    BY <1>0, <1>7, <1>b, <2>1, DownMonitor DEF LockAcquire, Monitor!MonitorNext
<1>8. ASSUME NEW l \in Locks, LockTryAcquire(l) PROVE Monitor!MonitorNext
  <2>1. /\ pc'[current] = At("own", l, NULL) /\ \A t \in Threads \ {current} : pc'[t] = pc[t]
    BY <1>0, <1>8, GotoMove DEF LockTryAcquire
  <2>2. value[l] # 0
    BY <1>8 DEF LockTryAcquire
  <2>3. Monitor!Acquire(current, l) \/ Monitor!Return(current, l)
    BY <1>8, <1>b, <2>1, <2>2, TakeMonitor DEF LockTryAcquire
  <2> QED
    BY <1>0, <2>3 DEF Monitor!MonitorNext
<1>9. ASSUME NEW l \in Locks, LockRelease(l) PROVE MonitorStutters
  <2>1. /\ pc'[current] = At("up", l, NULL) /\ \A t \in Threads \ {current} : pc'[t] = pc[t]
    BY <1>0, <1>9, GotoMove DEF LockRelease
  <2>2. pc'[current].at = "up" /\ pc'[current].on = l /\ pc'[current].lk = NULL
    BY <1>a, <2>1
  <2>3. holder[l] = current /\ \A k \in Locks : holder'[k] = IF k = l THEN NULL ELSE holder[k]
    BY <1>0, <1>9 DEF LockRelease, LockTypeOK, lock_held_by_current_thread
  <2>4. \A k \in Locks : (Hand(pc'[current], k) <=> k = l) /\ ~Hand(pc[current], k)
    BY <1>9, <1>b, <2>2 DEF Hand, LockRelease
  <2>5. pc[current].at # "cond_up" /\ pc[current].lk = NULL /\ UNCHANGED cond_waiters
    BY <1>9, <1>b DEF LockRelease
  <2> QED
    BY <1>0, <2>1, <2>2, <2>3, <2>4, <2>5, MoveStutter DEF MonitorStutters
<1> QED
  BY <1>1, <1>2, <1>3, <1>4, <1>5, <1>6, <1>7, <1>8, <1>9 DEF SemaStep, LockStep

LEMMA CondMonitorStep ==
  ASSUME TypeOK, QueueInv, LockInv, WaitInv, OwnerInv, OwnerInv', CondStep
  PROVE  MonitorStutters \/ Monitor!MonitorNext
PROOF
<1> USE ThreadsAssumption
<1>0. /\ current \in Threads /\ PcTypeOK /\ SemaTypeOK /\ PlacesOK /\ LockTypeOK
  BY DEF TypeOK, SchedTypeOK
<1>a. \A place, obj, lock : /\ At(place, obj, lock).at = place
                            /\ At(place, obj, lock).on = obj /\ At(place, obj, lock).lk = lock
  BY DEF At
<1>r. Run.at = "run" /\ Run.lk = NULL
  BY DEF Run, At
<1>b. Calls => pc[current].at = "run" /\ pc[current].lk = NULL /\ ~InCond(current)
  BY <1>0 DEF Calls, Running, PlacesOK, PlaceOK, InCond, Downing
<1>1. CASE CondUp
  BY <1>0, <1>1, CondUpMonitor DEF Monitor!MonitorNext
<1>2. CASE CondDown
  <2>1. /\ current \in SemaIds /\ current \notin Locks /\ current \notin Semas
        /\ pc[current].at = "cond_down"
    BY <1>0, <1>2 DEF CondDown, Running, SemaIds
  <2> QED
    BY <1>0, <1>2, <2>1, DownMonitor DEF CondDown, Monitor!MonitorNext
<1>3. CASE CondReacquire
  <2>1. /\ pc[current].lk \in SemaIds /\ pc[current].lk \in Locks
        /\ pc[current].lk \notin Threads /\ pc[current].lk \notin Semas
        /\ pc[current].at = "reacquire" /\ ~InCond(current)
    BY <1>0, <1>3 DEF CondReacquire, Running, PlacesOK, PlaceOK, SemaIds, InCond, Downing
  <2> QED
    BY <1>0, <1>3, <2>1, DownMonitor DEF CondReacquire, Monitor!MonitorNext
<1>4. CASE BroadcastNext
  <2>1. /\ pc[current].at = "broadcast" /\ pc[current].on \in Conds /\ pc[current].lk = NULL
        /\ holder[CondLock[pc[current].on]] = current
    BY <1>0, <1>4 DEF BroadcastNext, Running, PlacesOK, PlaceOK, WaitInv, BroadcastInv
  <2>2. CASE SignalOne(pc[current].on) /\ UNCHANGED pc
    <3>1. /\ Monitor!Signal(current, Head(cond_waiters[pc[current].on]), pc[current].on)
          /\ Head(cond_waiters[pc[current].on]) \in Threads
      BY <1>4, <2>1, <2>2, SignalMonitor DEF BroadcastNext
    <3> QED
      BY <1>0, <2>1, <3>1 DEF Monitor!MonitorNext
  <2>3. CASE Goto(Run) /\ UNCHANGED cond_waiters
    <3>1. pc'[current] = Run /\ \A t \in Threads \ {current} : pc'[t] = pc[t]
      BY <1>0, <2>3, GotoMove
    <3>2. \A l \in Locks : ~Hand(pc'[current], l) /\ ~Hand(pc[current], l)
      BY <1>r, <2>1, <3>1 DEF Hand
    <3>3. MonitorStutters
      BY <1>0, <1>4, <1>r, <2>1, <2>3, <3>1, <3>2, MoveStutter
         DEF BroadcastNext, MonitorStutters
    <3> QED
      BY <3>3
  <2> QED
    BY <1>4, <2>2, <2>3 DEF BroadcastNext
<1>5. ASSUME NEW c \in Conds, CondWait(c) PROVE MonitorStutters
  <2> DEFINE l == CondLock[c]
  <2>0. l \in Locks
    OBVIOUS
  <2>1. /\ pc'[current] = At("cond_up", c, l) /\ \A t \in Threads \ {current} : pc'[t] = pc[t]
    BY <1>0, <1>5, GotoMove DEF CondWait
  <2>2. pc'[current].at = "cond_up" /\ pc'[current].lk = l /\ pc[current].at = "run"
        /\ pc[current].lk = NULL /\ ~InCond(current)
    BY <1>5, <1>a, <1>b, <2>1 DEF CondWait
  <2>3. holder[l] = current /\ \A k \in Locks : holder'[k] = IF k = l THEN NULL ELSE holder[k]
    BY <1>0, <1>5 DEF CondWait, LockTypeOK, lock_held_by_current_thread
  <2> HIDE DEF l
  <2>4. \A k \in Locks : (Hand(pc'[current], k) <=> k = l) /\ ~Hand(pc[current], k)
    BY <2>2 DEF Hand
  <2>5. SameOwners
    <3>1. \A t \in Threads \ {current}, k \in Locks : Owns(t, k)' <=> Owns(t, k)
      BY <2>1, <2>3, OthersOwn
    <3>2. ASSUME NEW t \in Threads, NEW k \in Locks, t = current
          PROVE  Owns(t, k)' <=> Owns(t, k)
      BY <2>3, <2>4, <3>2, OwnsIs, OwnsNext
    <3> QED
      BY <3>1, <3>2 DEF SameOwners
  <2>6. \A d \in Conds, t \in Threads \ {current} :
          t \in Range(cond_waiters'[d]) <=> t \in Range(cond_waiters[d])
    <3>1. \A d \in Conds : cond_waiters'[d] = IF d = c THEN Append(cond_waiters[c], current)
                                                       ELSE cond_waiters[d]
      BY <1>0, <1>5 DEF CondWait, LockTypeOK
    <3>2. Range(Append(cond_waiters[c], current)) = Range(cond_waiters[c]) \cup {current}
      BY <1>0, AppendRange DEF LockTypeOK
    <3> QED
      BY <3>1, <3>2
  <2>7. \A d \in Conds : current \notin Range(cond_waiters[d])
    BY <1>0, <2>2 DEF WaitInv, ListedInv
  <2>8. SameWaiting
    BY <2>1, <2>2, <2>6, <2>7 DEF SameWaiting, Waits
  <2>9. SameSignaled
    <3>1. \A t \in Threads \ {current} : Listed(t)' <=> Listed(t)
      BY <2>6 DEF Listed
    <3> QED
      BY <2>1, <2>2, <3>1 DEF SameSignaled, Signaled
  <2> QED
    BY <2>5, <2>8, <2>9, OwnerSame, WaitingSame, SignaledSame DEF MonitorStutters
<1>6. ASSUME NEW c \in Conds, CondSignal(c) PROVE Monitor!MonitorNext
  <2>1. /\ Monitor!Signal(current, Head(cond_waiters[c]), c)
        /\ Head(cond_waiters[c]) \in Threads
    BY <1>6, <1>b, SignalMonitor DEF CondSignal, lock_held_by_current_thread
  <2> QED
    BY <1>0, <2>1 DEF Monitor!MonitorNext
<1>7. ASSUME NEW c \in Conds, CondBroadcast(c) PROVE MonitorStutters
  <2>1. /\ pc'[current].at = "broadcast" /\ pc'[current].lk = NULL
        /\ \A t \in Threads \ {current} : pc'[t] = pc[t]
    BY <1>0, <1>7, <1>a, GotoMove DEF CondBroadcast
  <2>2. pc[current].at = "run" /\ pc[current].lk = NULL
    BY <1>7, <1>b DEF CondBroadcast
  <2>3. \A k \in Locks : ~Hand(pc'[current], k) /\ ~Hand(pc[current], k)
    BY <2>1, <2>2 DEF Hand
  <2> QED
    BY <1>0, <1>7, <2>1, <2>2, <2>3, MoveStutter DEF CondBroadcast, MonitorStutters
<1> QED
  BY <1>1, <1>2, <1>3, <1>4, <1>5, <1>6, <1>7 DEF CondStep

LEMMA OtherMonitorStep ==
  ASSUME TypeOK, QueueInv, OwnerInv, OwnerInv', SchedulerStep \/ SleepStep \/ TimerStep
  PROVE  MonitorStutters
PROOF
<1> USE ThreadsAssumption
<1>0. current \in Threads /\ PcTypeOK /\ PlacesOK
  BY DEF TypeOK, SchedTypeOK
<1>a. \A place, obj, lock : /\ At(place, obj, lock).at = place
                            /\ At(place, obj, lock).on = obj /\ At(place, obj, lock).lk = lock
  BY DEF At
<1>r. Run.at = "run" /\ Run.lk = NULL
  BY DEF Run, At
<1>1. UNCHANGED <<holder, cond_waiters>>
  BY DEF SchedulerStep, ThreadYield, ThreadDie, IdleBlock, ThreadSetPriority, ThreadCreate,
     SleepStep, CompareCallTime, StoreCallTime, ThreadSleep, TimerSleep,
     TimerStep, TimerInterrupt, WakeupOne, WakeupDone, IntrReturn
<1>p. ASSUME UNCHANGED pc PROVE MonitorStutters
  BY <1>1, <1>p, PlainStutter DEF MonitorStutters
<1>g. ASSUME NEW r, Goto(r), r.at \in {"run", "hlt", "compare", "store", "sleep"},
             r.lk = NULL, pc[current].at \in {"run", "compare", "store", "sleep"}
      PROVE  MonitorStutters
  <2>1. pc'[current] = r /\ \A t \in Threads \ {current} : pc'[t] = pc[t]
    BY <1>0, <1>g, GotoMove
  <2>2. pc[current].lk = NULL
    BY <1>0, <1>g DEF PlacesOK, PlaceOK
  <2>3. \A l \in Locks : ~Hand(pc'[current], l) /\ ~Hand(pc[current], l)
    BY <1>g, <2>1 DEF Hand
  <2> QED
    BY <1>0, <1>1, <1>g, <2>1, <2>2, <2>3, MoveStutter DEF MonitorStutters
<1>2. CASE SchedulerStep
  <2>1. ASSUME NEW u \in Threads, NEW prio \in Priorities, ThreadCreate(u, prio)
        PROVE  MonitorStutters
    <3>1. /\ pc[u].at = "run" /\ pc[u].lk = NULL
          /\ pc'[u] = Run /\ \A t \in Threads \ {u} : pc'[t] = pc[t]
      BY <1>0, <2>1 DEF ThreadCreate, PcTypeOK, QueueInv, RunningInv, PlacesOK, PlaceOK
    <3>2. \A t \in Threads, l \in Locks : Hand(pc'[t], l) <=> Hand(pc[t], l)
      BY <1>r, <3>1 DEF Hand
    <3>3. SameOwners
      BY <1>1, <3>2, OwnsIs, OwnsNext DEF SameOwners
    <3> QED
      BY <1>1, <1>r, <3>1, <3>3, MonitorStutter DEF MonitorStutters
  <2>2. CASE IdleBlock
    BY <1>a, <1>g, <2>2 DEF IdleBlock, Running
  <2> QED
    BY <1>2, <1>p, <2>1, <2>2 DEF SchedulerStep, ThreadYield, ThreadDie, ThreadSetPriority
<1>3. CASE SleepStep
  BY <1>3, <1>a, <1>g, <1>r DEF SleepStep, CompareCallTime, StoreCallTime, ThreadSleep,
     TimerSleep, Running, Calls
<1>4. CASE TimerStep
  BY <1>1, <1>4, <1>p, IdleStutter DEF TimerStep, TimerInterrupt, WakeupOne, WakeupDone,
     IntrReturn
<1> QED
  BY <1>2, <1>3, <1>4

LEMMA MonitorInitial == Init => Monitor!MonitorInit
PROOF
<1> SUFFICES ASSUME Init PROVE Monitor!MonitorInit
  OBVIOUS
<1> USE ThreadsAssumption
<1>1. \A t \in Threads : pc[t].at \in {"run", "hlt"} /\ pc[t].lk = NULL
  BY DEF Init, Run, At
<1>2. (\A c \in Conds : cond_waiters[c] = <<>>) /\ Range(<<>>) = {}
  BY DEF Init, Range
<1>3. \A t \in Threads, l \in Locks : ~Owns(t, l)
  BY <1>1 DEF Init, Owns, InHand, Hand
<1>4. owner = [l \in Locks |-> NULL]
  BY <1>3 DEF owner
<1>5. waiting = [c \in Conds |-> {}]
  BY <1>2 DEF waiting
<1>6. signaled = [l \in Locks |-> {}]
  BY <1>1 DEF signaled
<1> QED
  BY <1>4, <1>5, <1>6 DEF Monitor!MonitorInit

(***************************************************************************)
(* The locks and condition variables of synch.c, built from semaphores     *)
(* whose operations can be preempted between any two steps, implement the  *)
(* monitor: cond_wait() gives the lock up and joins the waiting threads in *)
(* one step that nobody can come between, a signal picks a waiting thread, *)
(* and only a signaled thread that owns the lock again returns.            *)
(***************************************************************************)
THEOREM MonitorRefinement == Spec => ImplementsMonitor
PROOF
<1>1. ASSUME SyncInv, SyncInv', [Next]_vars
      PROVE  Monitor!MonitorNext \/ UNCHANGED <<owner, waiting, signaled>>
  <2>1. TypeOK /\ QueueInv /\ LockInv /\ WaitInv
    BY <1>1 DEF SyncInv, TypeInv
  <2>2. OwnerInv
    BY <2>1, OwnerCorrect
  <2>3. LockInv'
    BY <1>1 DEF SyncInv
  <2>4. OwnerInv'
    BY <2>3, OwnerCorrect, PTL
  <2>5. CASE UNCHANGED vars
    BY <2>2, <2>4, <2>5, PlainStutter DEF vars
  <2> QED
    BY <1>1, <2>1, <2>2, <2>4, <2>5, SyncMonitorStep, CondMonitorStep, OtherMonitorStep
       DEF Next, MonitorStutters
<1>2. SyncInv /\ SyncInv' /\ [Next]_vars => [Monitor!MonitorNext]_<<owner, waiting, signaled>>
  BY <1>1
<1>3. [Monitor!MonitorNext]_<<owner, waiting, signaled>> => [Monitor!MonitorNext]_(Monitor!monitorVars)
  BY DEF Monitor!monitorVars
<1> QED
  BY <1>2, <1>3, MonitorInitial, SyncInit, SyncStep, PTL
     DEF Spec, ImplementsMonitor, Monitor!MonitorSpec
=============================================================================
