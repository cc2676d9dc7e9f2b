----------------------------- MODULE MonitorSpec -----------------------------
(***************************************************************************)
(* What threads/synch.h promises of locks and condition variables, with no *)
(* scheduler, semaphore or list in sight: a lock has at most one owner,    *)
(* waiting on a condition gives the lock up and joins the waiting threads  *)
(* in one indivisible step, and a wait returns only to a thread that has   *)
(* been signaled and that owns the lock again.  Module Threads implements  *)
(* it.                                                                     *)
(***************************************************************************)
CONSTANTS Threads, Locks, Conds, CondLock, NULL

VARIABLES
  owner,      \* the thread that owns a lock, or NULL
  waiting,    \* the threads waiting on a condition that nobody has signaled
  signaled    \* the signaled threads that have to reacquire a lock

monitorVars == <<owner, waiting, signaled>>

MonitorTypeOK ==
  /\ owner \in [Locks -> Threads \cup {NULL}]
  /\ waiting \in [Conds -> SUBSET Threads]
  /\ signaled \in [Locks -> SUBSET Threads]

MonitorInit ==
  /\ owner = [l \in Locks |-> NULL]
  /\ waiting = [c \in Conds |-> {}]
  /\ signaled = [l \in Locks |-> {}]

(* A thread inside a wait does nothing else. *)
InWait(t) ==
  \/ \E c \in Conds : t \in waiting[c]
  \/ \E l \in Locks : t \in signaled[l]

Acquire(t, l) ==
  /\ owner[l] = NULL
  /\ ~InWait(t)
  /\ owner' = [owner EXCEPT ![l] = t]
  /\ UNCHANGED <<waiting, signaled>>

Release(t, l) ==
  /\ owner[l] = t
  /\ ~InWait(t)
  /\ owner' = [owner EXCEPT ![l] = NULL]
  /\ UNCHANGED <<waiting, signaled>>

Wait(t, c) ==
  /\ owner[CondLock[c]] = t
  /\ ~InWait(t)
  /\ owner' = [owner EXCEPT ![CondLock[c]] = NULL]
  /\ waiting' = [waiting EXCEPT ![c] = @ \cup {t}]
  /\ UNCHANGED signaled

(* The owner t of the lock signals one waiting thread u. *)
Signal(t, u, c) ==
  /\ owner[CondLock[c]] = t
  /\ ~InWait(t)
  /\ u \in waiting[c]
  /\ waiting' = [waiting EXCEPT ![c] = @ \ {u}]
  /\ signaled' = [signaled EXCEPT ![CondLock[c]] = @ \cup {u}]
  /\ UNCHANGED owner

Return(t, l) ==
  /\ t \in signaled[l]
  /\ owner[l] = NULL
  /\ owner' = [owner EXCEPT ![l] = t]
  /\ signaled' = [signaled EXCEPT ![l] = @ \ {t}]
  /\ UNCHANGED waiting

MonitorNext ==
  \/ \E t \in Threads, l \in Locks : Acquire(t, l) \/ Release(t, l) \/ Return(t, l)
  \/ \E t \in Threads, c \in Conds : Wait(t, c)
  \/ \E t, u \in Threads, c \in Conds : Signal(t, u, c)

MonitorSpec == MonitorInit /\ [][MonitorNext]_monitorVars
=============================================================================
