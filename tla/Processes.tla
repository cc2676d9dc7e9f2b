------------------------------ MODULE Processes ------------------------------
(***************************************************************************)
(* User processes: process_execute(), start_process(), process_wait() and  *)
(* process_exit() of userprog/process.c, the exec, wait, exit, open and    *)
(* close system calls that reach them, and kill() of userprog/exception.c. *)
(*                                                                         *)
(* A parent and its child meet at three semaphores of their struct thread: *)
(* sema_load (the child has been loaded), sema_wait (the child is done)    *)
(* and sema_exited (the parent has taken the child off its list).  Module  *)
(* Threads is about semaphores themselves; here one is its value, a down   *)
(* is an action that waits for it to be positive, and an action is what a  *)
(* process does from one such operation to the next.                       *)
(*                                                                         *)
(* A process is the page of its struct thread; a page is used again after  *)
(* its thread has died.  Thread identifiers are never used again.          *)
(***************************************************************************)
EXTENDS Integers, SequencesExt

CONSTANTS
  Procs,        \* pages that can hold a struct thread
  Main,         \* initial_thread: it runs the tasks of the command line
  Daemon,       \* a kernel thread main() created (idle, write_behind)
  ExitArgs,     \* arguments of exit()
  MaxTid,       \* bound: thread identifiers stop here
  MaxFiles,     \* bound: files a process has open at a time
  NULL

ASSUME ProcessesAssumption ==
  /\ Main \in Procs /\ Daemon \in Procs /\ Main # Daemon
  /\ NULL \notin Procs
  /\ ExitArgs \subseteq Int
  /\ MaxTid \in Nat /\ MaxTid >= 2
  /\ MaxFiles \in Nat

TID_ERROR == -1
Tids == 1 .. MaxTid

VARIABLES
  pc,                                   \* where the process is in the kernel
  tid, th_parent, list_children,        \* struct thread members
  is_loaded, is_exited, exit_status,
  sema_load, sema_wait, sema_exited,
  list_file,                            \* number of files in the list
  th_child,                             \* process_wait()'s variable
  arg,                                  \* tid that exec created or wait got
  next_tid,                             \* allocate_tid()'s variable
  ret,                                  \* last call and what it returned
  loads,                                \* history: how each load() ended
  fate                                  \* history: how each process ended

threadVars == <<tid, th_parent, list_children, is_loaded, is_exited, exit_status>>
semaVars   == <<sema_load, sema_wait, sema_exited>>
callVars   == <<th_child, arg, ret>>
history    == <<loads, fate>>
vars == <<pc, threadVars, semaVars, list_file, callVars, next_tid, history>>

(***************************************************************************)
(* pc: "free" is an unused page, "start" is start_process(), "loaded" the  *)
(* place behind load(), "run" is user code (or main()), "exec" and "wait"  *)
(* are the sema_down() of process_execute() and process_wait(), "exit" is  *)
(* process_exit() up to its sema_up(), "zombie" its sema_down(), "reaped"  *)
(* the rest of it, and "spin" a process that page faults for ever there.   *)
(***************************************************************************)
Places == {"free", "start", "loaded", "run", "exec", "wait", "exit",
           "zombie", "reaped", "spin"}

(* Ways to end: exit() with a status, and the kernel's kill(). *)
Exited(status) == <<"exit", status>>
Killed == <<"killed">>
Nothing == [call |-> "none", of |-> 0, mine |-> FALSE, value |-> 0]

(* The variables hold what their C types and their uses allow. *)
TypeOK ==
  /\ pc \in [Procs -> Places]
  /\ tid \in [Procs -> 0 .. MaxTid]
  /\ th_parent \in [Procs -> Procs \cup {NULL}]
  /\ list_children \in [Procs -> Seq(Procs)]
  /\ is_loaded \in [Procs -> BOOLEAN]
  /\ is_exited \in [Procs -> BOOLEAN]
  /\ exit_status \in [Procs -> ExitArgs \cup {0, -1}]
  /\ sema_load \in [Procs -> {0, 1}]
  /\ sema_wait \in [Procs -> {0, 1}]
  /\ sema_exited \in [Procs -> {0, 1}]
  /\ list_file \in [Procs -> 0 .. MaxFiles]
  /\ th_child \in [Procs -> Procs \cup {NULL}]
  /\ arg \in [Procs -> Tids \cup {0, TID_ERROR}]
  /\ next_tid \in Tids \cup {MaxTid + 1}
  /\ ret \in [Procs -> [call : {"none", "exec", "wait"}, of : Tids \cup {0, TID_ERROR},
                        mine : BOOLEAN, value : Tids \cup ExitArgs \cup {0, -1}]]
  /\ loads \in [Tids -> {"pending", "ok", "failed"}]
  /\ fate \in [Tids -> {<<>>, Killed} \cup {Exited(s) : s \in ExitArgs \cup {-1}}]

(* main() has created its kernel threads and is about to run its tasks. *)
Init ==
  /\ pc = [p \in Procs |-> IF p \in {Main, Daemon} THEN "run" ELSE "free"]
  /\ tid = [p \in Procs |-> CASE p = Main -> 1 [] p = Daemon -> 2 [] OTHER -> 0]
  /\ th_parent = [p \in Procs |-> IF p = Daemon THEN Main ELSE NULL]
  /\ list_children = [p \in Procs |-> IF p = Main THEN <<Daemon>> ELSE <<>>]
  /\ is_loaded = [p \in Procs |-> FALSE]
  /\ is_exited = [p \in Procs |-> FALSE]
  /\ exit_status = [p \in Procs |-> 0]
  /\ sema_load = [p \in Procs |-> 0]
  /\ sema_wait = [p \in Procs |-> 0]
  /\ sema_exited = [p \in Procs |-> 0]
  /\ list_file = [p \in Procs |-> 0]
  /\ th_child = [p \in Procs |-> NULL]
  /\ arg = [p \in Procs |-> 0]
  /\ next_tid = 3
  /\ ret = [p \in Procs |-> Nothing]
  /\ loads = [t \in Tids |-> "pending"]
  /\ fate = [t \in Tids |-> <<>>]

Goto(p, place) == pc' = [pc EXCEPT ![p] = place]

(* A user process, or main() between two calls. *)
Calls(p) == pc[p] = "run" /\ p # Daemon
UserProcess(p) == pc[p] = "run" /\ p \notin {Main, Daemon}

-----------------------------------------------------------------------------
(***************************************************************************)
(* search_child(): the loop stops at the child with the given tid, or      *)
(* leaves the last child in th_child.                                      *)
(***************************************************************************)
Candidate(children, t) ==
  IF \E c \in Range(children) : tid[c] = t
  THEN CHOOSE c \in Range(children) : tid[c] = t
  ELSE Last(children)

search_child(p, t) ==
  LET children == list_children[p]
  IN  IF children # <<>> /\ is_loaded[Candidate(children, t)]
      THEN Candidate(children, t) ELSE NULL

Return(p, call, of, mine, value) ==
  ret' = [ret EXCEPT ![p] = [call |-> call, of |-> of, mine |-> mine, value |-> value]]

(* allocate_tid() for the thread c; tid_lock makes it one step. *)
AllocateTid(c) ==
  /\ next_tid \in Tids
  /\ tid' = [tid EXCEPT ![c] = next_tid]
  /\ next_tid' = next_tid + 1

(***************************************************************************)
(* process_execute() up to its sema_down().  thread_create() takes a free  *)
(* page c; when there is none, the caller waits all the same.              *)
(***************************************************************************)
ExecCreate(p, c) ==
  /\ Calls(p)
  /\ p = Main => ret[p].call # "exec"
  /\ pc[c] = "free"
  /\ AllocateTid(c)
  /\ th_parent' = [th_parent EXCEPT ![c] = p]
  /\ list_children' = [list_children EXCEPT ![p] = Append(@, c), ![c] = <<>>]
  /\ is_loaded' = [is_loaded EXCEPT ![c] = FALSE]
  /\ is_exited' = [is_exited EXCEPT ![c] = FALSE]
  /\ exit_status' = [exit_status EXCEPT ![c] = 0]
  /\ sema_load' = [sema_load EXCEPT ![c] = 0]
  /\ sema_wait' = [sema_wait EXCEPT ![c] = 0]
  /\ sema_exited' = [sema_exited EXCEPT ![c] = 0]
  /\ list_file' = [list_file EXCEPT ![c] = 0]
  /\ th_child' = [th_child EXCEPT ![c] = NULL]
  /\ arg' = [arg EXCEPT ![p] = next_tid, ![c] = 0]
  /\ ret' = [ret EXCEPT ![c] = Nothing]
  /\ pc' = [pc EXCEPT ![p] = "exec", ![c] = "start"]
  /\ UNCHANGED history

ExecNoMemory(p) ==
  /\ Calls(p)
  /\ p = Main => ret[p].call # "exec"
  /\ \A c \in Procs : pc[c] # "free"
  /\ arg' = [arg EXCEPT ![p] = TID_ERROR]
  /\ Goto(p, "exec")
  /\ UNCHANGED <<threadVars, semaVars, list_file, th_child, ret, next_tid, history>>

(* Mutant of ExecReturn: process_execute() does not wait for the load. *)
ExecReturnEarly(p) ==
  /\ pc[p] = "exec"
  /\ Return(p, "exec", arg[p], TRUE,
            IF arg[p] = TID_ERROR \/ search_child(p, arg[p]) = NULL THEN -1 ELSE arg[p])
  /\ Goto(p, "run")
  /\ UNCHANGED <<threadVars, semaVars, list_file, th_child, arg, next_tid, history>>

(* process_execute() behind its sema_down(). *)
ExecReturn(p) ==
  /\ pc[p] = "exec"
  /\ sema_load[p] > 0
  /\ sema_load' = [sema_load EXCEPT ![p] = @ - 1]
  /\ Return(p, "exec", arg[p], TRUE,
            IF arg[p] = TID_ERROR \/ search_child(p, arg[p]) = NULL THEN -1 ELSE arg[p])
  /\ arg' = [arg EXCEPT ![p] = 0]
  /\ Goto(p, "run")
  /\ UNCHANGED <<threadVars, sema_wait, sema_exited, list_file, th_child, next_tid,
                 history>>

(* start_process(): load(), and then is_loaded is set ... *)
Load(p, success) ==
  /\ pc[p] = "start"
  /\ is_loaded' = [is_loaded EXCEPT ![p] = success]
  /\ loads' = [loads EXCEPT ![tid[p]] = IF success THEN "ok" ELSE "failed"]
  /\ Goto(p, "loaded")
  /\ UNCHANGED <<tid, th_parent, list_children, is_exited, exit_status, semaVars,
                 list_file, callVars, next_tid, fate>>

(* Mutant of TellParent: nobody is told of a failure. *)
TellOnlySuccess(p) ==
  /\ pc[p] = "loaded"
  /\ sema_load' = [sema_load EXCEPT ![th_parent[p]] = @ + IF is_loaded[p] THEN 1 ELSE 0]
  /\ Goto(p, IF is_loaded[p] THEN "run" ELSE "exit")
  /\ UNCHANGED <<threadVars, sema_wait, sema_exited, list_file, callVars, next_tid,
                 history>>

(* ... before the parent is told. *)
TellParent(p) ==
  /\ pc[p] = "loaded"
  /\ sema_load' = [sema_load EXCEPT ![th_parent[p]] = @ + 1]
  /\ Goto(p, IF is_loaded[p] THEN "run" ELSE "exit")
  /\ UNCHANGED <<threadVars, sema_wait, sema_exited, list_file, callVars, next_tid,
                 history>>

-----------------------------------------------------------------------------
(* exit(): the status is recorded and thread_exit() called. *)
Exit(p, status) ==
  /\ UserProcess(p)
  /\ exit_status' = [exit_status EXCEPT ![p] = status]
  /\ fate' = [fate EXCEPT ![tid[p]] = Exited(status)]
  /\ Goto(p, "exit")
  /\ UNCHANGED <<tid, th_parent, list_children, is_loaded, is_exited, semaVars,
                 list_file, callVars, next_tid, loads>>

(* kill(), or a system call with a stack pointer that is no user address. *)
Kill(p) ==
  /\ UserProcess(p)
  /\ fate' = [fate EXCEPT ![tid[p]] = Killed]
  /\ Goto(p, "exit")
  /\ UNCHANGED <<threadVars, semaVars, list_file, callVars, next_tid, loads>>

(* main() after its tasks. *)
MainExit ==
  /\ pc[Main] = "run"
  /\ ret[Main].call # "exec"
  /\ Goto(Main, "exit")
  /\ UNCHANGED <<threadVars, semaVars, list_file, callVars, next_tid, history>>

(* process_exit() up to sema_up(&curr->sema_wait). *)
ProcessExit(p) ==
  /\ pc[p] = "exit"
  /\ is_exited' = [is_exited EXCEPT ![p] = TRUE]
  /\ sema_wait' = [sema_wait EXCEPT ![p] = @ + 1]
  /\ ret' = [ret EXCEPT ![p] = Nothing]
  /\ Goto(p, "zombie")
  /\ UNCHANGED <<tid, th_parent, list_children, is_loaded, exit_status, sema_load,
                 sema_exited, list_file, th_child, arg, next_tid, history>>

(* "wait until parent removes the child in the list" *)
Reaped(p) ==
  /\ pc[p] = "zombie"
  /\ sema_exited[p] > 0
  /\ sema_exited' = [sema_exited EXCEPT ![p] = @ - 1]
  /\ Goto(p, "reaped")
  /\ UNCHANGED <<threadVars, sema_load, sema_wait, list_file, callVars, next_tid,
                 history>>

(* The rest of process_exit() and of thread_exit(): the page is freed. *)
Die(p) ==
  /\ pc[p] = "reaped"
  /\ list_file[p] = 0
  /\ Goto(p, "free")
  /\ UNCHANGED <<threadVars, semaVars, list_file, callVars, next_tid, history>>

(***************************************************************************)
(* The loop that closes the files frees a file_entry and then reads its    *)
(* list element: free() has filled it with 0xcc, and following that        *)
(* pointer faults in the kernel.  page_fault() calls exit(), which returns *)
(* because is_exited is set, and the same instruction faults again.        *)
(***************************************************************************)
CloseFiles(p) ==
  /\ pc[p] = "reaped"
  /\ list_file[p] > 0
  /\ list_file' = [list_file EXCEPT ![p] = @ - 1]
  /\ exit_status' = [exit_status EXCEPT ![p] = -1]
  /\ Goto(p, "spin")
  /\ UNCHANGED <<tid, th_parent, list_children, is_loaded, is_exited, semaVars,
                 callVars, next_tid, history>>

-----------------------------------------------------------------------------
(* process_wait() up to its sema_down(): TID_ERROR, NULL or a child. *)
Wait(p, t) ==
  /\ Calls(p)
  /\ p = Main => ret[p].call = "exec" /\ t = ret[p].value
  /\ LET found == IF t = TID_ERROR THEN NULL ELSE search_child(p, t)
         mine == \E c \in Range(list_children[p]) : tid[c] = t
     IN  \/ /\ found = NULL
            /\ Return(p, "wait", t, mine, -1)
            /\ UNCHANGED <<pc, th_child, arg>>
         \/ /\ found # NULL
            /\ th_child' = [th_child EXCEPT ![p] = found]
            /\ arg' = [arg EXCEPT ![p] = t]
            /\ Goto(p, "wait")
            /\ UNCHANGED ret
  /\ UNCHANGED <<threadVars, semaVars, list_file, next_tid, history>>

(***************************************************************************)
(* Mutants of WaitReturn: the child stays on the list; the status is read  *)
(* without waiting for the child; the child is not let go.                 *)
(***************************************************************************)
WaitReturnKeep(p) ==
  /\ pc[p] = "wait"
  /\ sema_wait[th_child[p]] > 0
  /\ sema_wait' = [sema_wait EXCEPT ![th_child[p]] = @ - 1]
  /\ sema_exited' = [sema_exited EXCEPT ![th_child[p]] = @ + 1]
  /\ Return(p, "wait", arg[p], tid[th_child[p]] = arg[p], exit_status[th_child[p]])
  /\ th_child' = [th_child EXCEPT ![p] = NULL]
  /\ Goto(p, "run")
  /\ UNCHANGED <<threadVars, sema_load, list_file, arg, next_tid, history>>

WaitReturnEarly(p) ==
  /\ pc[p] = "wait"
  /\ Return(p, "wait", arg[p], tid[th_child[p]] = arg[p], exit_status[th_child[p]])
  /\ th_child' = [th_child EXCEPT ![p] = NULL]
  /\ Goto(p, "run")
  /\ UNCHANGED <<threadVars, semaVars, list_file, arg, next_tid, history>>

WaitReturnNoUp(p) ==
  /\ pc[p] = "wait"
  /\ sema_wait[th_child[p]] > 0
  /\ sema_wait' = [sema_wait EXCEPT ![th_child[p]] = @ - 1]
  /\ list_children' = [list_children EXCEPT ![p] = RemoveFirst(@, th_child[p])]
  /\ Return(p, "wait", arg[p], tid[th_child[p]] = arg[p], exit_status[th_child[p]])
  /\ th_child' = [th_child EXCEPT ![p] = NULL]
  /\ Goto(p, "run")
  /\ UNCHANGED <<tid, th_parent, is_loaded, is_exited, exit_status, sema_load,
                 sema_exited, list_file, arg, next_tid, history>>

(***************************************************************************)
(* process_wait() behind its sema_down(): it searches again, removes what  *)
(* it finds from the list, reads the status and lets the child go.  Only   *)
(* the caller changes its list, and the child waits for sema_exited.       *)
(***************************************************************************)
WaitReturn(p) ==
  /\ pc[p] = "wait"
  /\ sema_wait[th_child[p]] > 0
  /\ LET found == search_child(p, arg[p])
     IN  /\ sema_wait' = [sema_wait EXCEPT ![th_child[p]] = @ - 1]
         /\ sema_exited' = [sema_exited EXCEPT ![found] = @ + 1]
         /\ list_children' = [list_children EXCEPT ![p] = RemoveFirst(@, found)]
         /\ Return(p, "wait", arg[p], tid[found] = arg[p], exit_status[found])
  /\ th_child' = [th_child EXCEPT ![p] = NULL]
  /\ arg' = [arg EXCEPT ![p] = 0]
  /\ Goto(p, "run")
  /\ UNCHANGED <<tid, th_parent, is_loaded, is_exited, exit_status, sema_load,
                 list_file, next_tid, history>>

(* open() and close() as far as process_exit() can tell. *)
OpenFile(p) ==
  /\ UserProcess(p)
  /\ list_file[p] < MaxFiles
  /\ list_file' = [list_file EXCEPT ![p] = @ + 1]
  /\ UNCHANGED <<pc, threadVars, semaVars, callVars, next_tid, history>>

CloseFile(p) ==
  /\ UserProcess(p)
  /\ list_file[p] > 0
  /\ list_file' = [list_file EXCEPT ![p] = @ - 1]
  /\ UNCHANGED <<pc, threadVars, semaVars, callVars, next_tid, history>>

-----------------------------------------------------------------------------
ExecStep(p) ==
  \/ \E c \in Procs : ExecCreate(p, c)
  \/ ExecNoMemory(p)
  \/ ExecReturn(p)
  \/ \E success \in BOOLEAN : Load(p, success)
  \/ TellParent(p)

ExitStep(p) ==
  \/ \E status \in ExitArgs \cup {-1} : Exit(p, status)
  \/ Kill(p)
  \/ ProcessExit(p)
  \/ Reaped(p)
  \/ Die(p)
  \/ CloseFiles(p)

WaitStep(p) ==
  \/ \E t \in Tids \cup {TID_ERROR} : Wait(p, t)
  \/ WaitReturn(p)

Next == MainExit \/ \E p \in Procs : \/ ExecStep(p) \/ ExitStep(p) \/ WaitStep(p)
                                     \/ OpenFile(p) \/ CloseFile(p)

Spec == Init /\ [][Next]_vars

-----------------------------------------------------------------------------
(***************************************************************************)
(* No pointer between parent and child dangles, however their steps        *)
(* interleave and pages are used again: a child is on exactly its parent's *)
(* list until it is reaped, and it is not freed before; the parent whose   *)
(* sema_load a starting child ups is alive and waits for that child; and   *)
(* the second search of process_wait() finds the child it has waited for.  *)
(***************************************************************************)
ChildrenLive ==
  \A p \in Procs : pc[p] # "free" =>
    /\ IsInjective(list_children[p])
    /\ \A c \in Range(list_children[p]) :
          /\ pc[c] \notin {"free", "reaped", "spin"}
          /\ th_parent[c] = p
          /\ sema_exited[c] = 0

ParentWaits ==
  \A p \in Procs : pc[p] \in {"start", "loaded"} =>
    /\ pc[th_parent[p]] = "exec"
    /\ arg[th_parent[p]] = tid[p]
    /\ p \in Range(list_children[th_parent[p]])

SearchAgrees ==
  \A p \in Procs : pc[p] = "wait" =>
    /\ th_child[p] \in Range(list_children[p])
    /\ search_child(p, arg[p]) = th_child[p]

FamilyInv == TypeOK /\ ChildrenLive /\ ParentWaits /\ SearchAgrees

(***************************************************************************)
(* exec returns the new process's identifier if and only if the program    *)
(* was loaded, although the child may have exited long before the parent   *)
(* runs again.                                                             *)
(***************************************************************************)
ExecTruth ==
  \A p \in Procs : ret[p].call = "exec" =>
    ret[p].value = IF loads[ret[p].of] = "ok" THEN ret[p].of ELSE -1

(***************************************************************************)
(* wait for a child returns once the child has ended, with the status it   *)
(* passed to exit(); a killed child gives the 0 its struct thread was      *)
(* created with, and one that was not loaded gives -1.                     *)
(***************************************************************************)
WaitTruth ==
  \A p \in Procs : (ret[p].call = "wait" /\ ret[p].mine) =>
    LET t == ret[p].of
    IN  \/ loads[t] = "failed" /\ ret[p].value = -1
        \/ fate[t] = Exited(ret[p].value)
        \/ fate[t] = Killed /\ ret[p].value = 0

-----------------------------------------------------------------------------
(***************************************************************************)
(* Fairness: a process that can go on inside the kernel does.  All user    *)
(* processes and main() have the same priority, so the scheduler reaches   *)
(* each of them (ReadyRuns in Threads).  What user programs do, and        *)
(* whether they ever call exit or wait, is up to them.                     *)
(***************************************************************************)
KernelStep(p) ==
  \/ ExecReturn(p)
  \/ \E success \in BOOLEAN : Load(p, success)
  \/ TellParent(p)
  \/ ProcessExit(p)
  \/ Reaped(p)
  \/ Die(p)
  \/ CloseFiles(p)
  \/ WaitReturn(p)

Fairness == \A p \in Procs : WF_vars(KernelStep(p))

FairSpec == Spec /\ Fairness

(* A process whose child thread was created gets an answer from exec. *)
ExecReturns ==
  \A p \in Procs : (pc[p] = "exec" /\ arg[p] # TID_ERROR) ~> pc[p] = "run"

(***************************************************************************)
(* The two-way handshake of process_wait() and process_exit() completes:   *)
(* the parent gets on, and the child's page is freed (if it has no open    *)
(* files).                                                                 *)
(***************************************************************************)
HandshakeCompletes ==
  LET Done(p) == pc[p] = "wait" /\ pc[th_child[p]] \in {"exit", "zombie"}
  IN  \A c \in Procs :
        /\ Done(c) ~> pc[c] = "run"
        /\ (\E p \in Procs : Done(p) /\ th_child[p] = c /\ list_file[c] = 0)
              ~> pc[c] = "free"
=============================================================================
