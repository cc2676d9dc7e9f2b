---------------------------- MODULE ProcessesProofs ----------------------------
(***************************************************************************)
(* exec, wait and exit are right for every number of processes, exit       *)
(* statuses and thread identifiers: no pointer between parent and child    *)
(* dangles, exec tells whether the program was loaded, and wait returns    *)
(* the status of the child.                                                *)
(*                                                                         *)
(* FamilyInv is not inductive.  It rests on the identifiers (no two        *)
(* threads have the same one), on when each semaphore is up, and on what   *)
(* the history of a thread says at each place of its life.                 *)
(***************************************************************************)
EXTENDS Processes, ListLemmas

(* Thread identifiers tell the threads apart. *)
TidInv ==
  /\ next_tid >= 3
  /\ \A p \in Procs : pc[p] # "free" => tid[p] >= 1 /\ tid[p] < next_tid
  /\ \A p, q \in Procs : pc[p] # "free" /\ pc[q] # "free" /\ tid[p] = tid[q] => p = q

(* main() and its kernel thread are nobody's user processes. *)
RootInv ==
  /\ pc[Main] \in {"run", "exec", "wait", "exit", "zombie"} /\ pc[Daemon] = "run"
  /\ tid[Main] = 1 /\ tid[Daemon] = 2
  /\ th_parent[Main] = NULL /\ th_parent[Daemon] = Main /\ sema_exited[Main] = 0
  /\ ~is_loaded[Main] /\ ~is_loaded[Daemon]
  /\ loads[1] = "pending" /\ loads[2] = "pending"

(* A semaphore is up between the one sema_up() and the one sema_down(). *)
SemaInv ==
  \A p \in Procs :
    /\ sema_load[p] # 0 =>
         /\ pc[p] = "exec"
         /\ \E c \in Range(list_children[p]) :
              tid[c] = arg[p] /\ pc[c] \notin {"start", "loaded"} /\ c # Daemon
    /\ pc[p] \in {"start", "loaded"} =>
         th_parent[p] \in Procs /\ sema_load[th_parent[p]] = 0
    /\ pc[p] \in {"start", "loaded", "run", "exec", "wait", "exit"} => sema_wait[p] = 0

(* What process_wait() has found it will find again. *)
SearchInv ==
  \A p \in Procs : pc[p] = "wait" =>
    /\ th_child[p] \in Range(list_children[p])
    /\ is_loaded[th_child[p]]
    /\ \/ tid[th_child[p]] = arg[p]
       \/ /\ th_child[p] = Last(list_children[p])
          /\ \A c \in Range(list_children[p]) : tid[c] # arg[p]

(* is_loaded says how load() ended, and there is no history of threads to come. *)
LoadInv ==
  /\ \A p \in Procs \ {Main, Daemon} : pc[p] # "free" =>
       /\ pc[p] = "start" => loads[tid[p]] = "pending"
       /\ pc[p] # "start" => loads[tid[p]] = IF is_loaded[p] THEN "ok" ELSE "failed"
  /\ \A t \in Tids : t >= next_tid => loads[t] = "pending" /\ fate[t] = <<>>

(* exit_status is what the thread's history says. *)
FateInv ==
  \A p \in Procs \ {Main, Daemon} :
    /\ pc[p] \in {"start", "loaded", "run", "exec", "wait"} =>
         exit_status[p] = 0 /\ fate[tid[p]] = <<>>
    /\ pc[p] \in {"exit", "zombie"} /\ is_loaded[p] =>
         \/ fate[tid[p]] = Exited(exit_status[p])
         \/ fate[tid[p]] = Killed /\ exit_status[p] = 0

(* exec has returned after the load was over. *)
ExecInv ==
  \A p \in Procs : ret[p].call = "exec" =>
    /\ ret[p].of \in Tids /\ loads[ret[p].of] # "pending"
    /\ ret[p].value = IF loads[ret[p].of] = "ok" THEN ret[p].of ELSE -1

(* wait for a child has been called after the load was over. *)
WaitInv ==
  \A p \in Procs : ret[p].call = "wait" /\ ret[p].mine =>
    /\ ret[p].of \in Tids
    /\ \/ loads[ret[p].of] = "failed" /\ ret[p].value = -1
       \/ fate[ret[p].of] = Exited(ret[p].value)
       \/ fate[ret[p].of] = Killed /\ ret[p].value = 0

IInv == /\ TypeOK /\ ChildrenLive /\ ParentWaits
        /\ TidInv /\ RootInv /\ SemaInv /\ SearchInv /\ LoadInv /\ FateInv
        /\ ExecInv /\ WaitInv
(* A step that neither ups nor downs sema_load. *)
LEMMA SemaKept ==
  ASSUME IInv, NEW p \in Procs, NEW place, Goto(p, place),
         UNCHANGED <<tid, th_parent, list_children, sema_load>>,
         \A q \in Procs : q # p => arg'[q] = arg[q] /\ sema_wait'[q] = sema_wait[q],
         pc[p] # "exec", place # "start", place = "loaded" => pc[p] = "start",
         place \in {"loaded", "run", "exec", "wait", "exit"} => sema_wait'[p] = 0
  PROVE  SemaInv'
PROOF
<1> USE DEF IInv
<1>1. pc'[p] = place /\ \A q \in Procs : q # p => pc'[q] = pc[q]
  BY DEF Goto, TypeOK
<1>2. ASSUME NEW q \in Procs, sema_load'[q] # 0
      PROVE  /\ pc'[q] = "exec"
             /\ \E c \in Range(list_children'[q]) :
                  tid'[c] = arg'[q] /\ pc'[c] \notin {"start", "loaded"} /\ c # Daemon
  <2>1. PICK c \in Range(list_children[q]) :
          tid[c] = arg[q] /\ pc[c] \notin {"start", "loaded"} /\ c # Daemon
    BY <1>2 DEF SemaInv
  <2>2. c \in Procs
    BY DEF TypeOK, Range
  <2>3. pc[q] = "exec" /\ q # p
    BY <1>2 DEF SemaInv
  <2>4. pc'[c] \notin {"start", "loaded"}
    BY <1>1, <2>1, <2>2
  <2> QED
    BY <1>1, <2>1, <2>3, <2>4
<1>3. ASSUME NEW q \in Procs, pc'[q] \in {"start", "loaded"}
      PROVE  th_parent'[q] \in Procs /\ sema_load'[th_parent'[q]] = 0
  BY <1>1, <1>3 DEF SemaInv
<1>4. ASSUME NEW q \in Procs,
             pc'[q] \in {"start", "loaded", "run", "exec", "wait", "exit"}
      PROVE  sema_wait'[q] = 0
  BY <1>1, <1>4 DEF SemaInv
<1> QED
  BY <1>2, <1>3, <1>4 DEF SemaInv

LEMMA ExecNoMemoryStep ==
  ASSUME IInv, NEW p \in Procs, ExecNoMemory(p)
  PROVE  IInv'
PROOF
<1> USE ProcessesAssumption DEF IInv, threadVars, semaVars, callVars, history
<1>1. TypeOK'
  BY DEF ExecNoMemory, Goto, Calls, TypeOK, Places, Tids
<1>2. ChildrenLive'
  BY DEF ExecNoMemory, Goto, Calls, TypeOK, ChildrenLive
<1>3. ParentWaits'
  BY DEF ExecNoMemory, Goto, Calls, TypeOK, ParentWaits
<1>4. TidInv'
  BY DEF ExecNoMemory, Goto, Calls, TypeOK, TidInv
<1>5. RootInv'
  BY DEF ExecNoMemory, Goto, Calls, TypeOK, RootInv
<1>6. SemaInv'
  <2>1. UNCHANGED <<tid, th_parent, list_children, sema_load>> /\ Goto(p, "exec")
    BY DEF ExecNoMemory
  <2>2. \A q \in Procs : q # p => arg'[q] = arg[q] /\ sema_wait'[q] = sema_wait[q]
    BY DEF ExecNoMemory, TypeOK
  <2>3. pc[p] = "run" /\ sema_wait'[p] = 0
    BY DEF ExecNoMemory, Calls, SemaInv
  <2> QED
    BY <2>1, <2>2, <2>3, SemaKept
<1>7. SearchInv'
  BY SMTT(30) DEF ExecNoMemory, Goto, Calls, TypeOK, SearchInv, ChildrenLive
<1>8. LoadInv'
  BY DEF ExecNoMemory, Goto, Calls, TypeOK, LoadInv, TidInv, Tids
<1>9. FateInv'
  BY DEF ExecNoMemory, Goto, Calls, TypeOK, FateInv, TidInv
<1>10. ExecInv'
  BY DEF ExecNoMemory, Goto, Calls, TypeOK, ExecInv, LoadInv, TidInv, RootInv
<1>11. WaitInv'
  BY DEF ExecNoMemory, Goto, Calls, TypeOK, WaitInv, LoadInv, FateInv, TidInv
<1> QED
  BY <1>1, <1>2, <1>3, <1>4, <1>5, <1>6, <1>7, <1>8, <1>9, <1>10, <1>11

LEMMA LoadStep ==
  ASSUME IInv, NEW p \in Procs, NEW success \in BOOLEAN, Load(p, success)
  PROVE  IInv'
PROOF
<1> USE ProcessesAssumption DEF IInv, threadVars, semaVars, callVars, history
<1>1. TypeOK'
  BY DEF Load, Goto, TypeOK, Places, Tids
<1>2. ChildrenLive'
  BY DEF Load, Goto, TypeOK, ChildrenLive
<1>3. ParentWaits'
  BY DEF Load, Goto, TypeOK, ParentWaits
<1>4. TidInv'
  BY DEF Load, Goto, TypeOK, TidInv
<1>5. RootInv'
  <2>1. p \notin {Main, Daemon}
    BY DEF Load, RootInv
  <2>2. tid[p] \notin {1, 2}
    BY <2>1 DEF Load, RootInv, TidInv
  <2>3. loads'[1] = loads[1] /\ loads'[2] = loads[2]
    BY <2>2 DEF Load, TypeOK, Tids
  <2> QED
    BY <2>1, <2>3 DEF Load, Goto, TypeOK, RootInv
<1>6. SemaInv'
  <2>1. UNCHANGED <<tid, th_parent, list_children, sema_load>> /\ Goto(p, "loaded")
    BY DEF Load
  <2>2. \A q \in Procs : q # p => arg'[q] = arg[q] /\ sema_wait'[q] = sema_wait[q]
    BY DEF Load, TypeOK
  <2>3. pc[p] = "start" /\ sema_wait'[p] = 0
    BY DEF Load, SemaInv
  <2> QED
    BY <2>1, <2>2, <2>3, SemaKept
<1>7. SearchInv'
  <2>1. \A q \in Procs : pc[q] = "wait" => p \notin Range(list_children[q])
    BY DEF Load, ChildrenLive, ParentWaits
  <2>2. \A q \in Procs, c \in Procs : c # p => is_loaded'[c] = is_loaded[c]
    BY DEF Load, TypeOK
  <2> QED
    BY <2>1, <2>2, SMTT(30) DEF Load, Goto, TypeOK, SearchInv
<1>8. LoadInv'
  BY SMTT(30) DEF Load, Goto, TypeOK, LoadInv, TidInv, Tids
<1>9. FateInv'
  BY DEF Load, Goto, TypeOK, FateInv, TidInv
<1>10. ExecInv'
  <2>1. p \notin {Main, Daemon} /\ tid[p] \in Tids /\ loads[tid[p]] = "pending"
    BY DEF Load, RootInv, LoadInv, TidInv, TypeOK, Tids
  <2>2. \A t \in Tids : loads[t] # "pending" => loads'[t] = loads[t]
    BY <2>1 DEF Load, TypeOK
  <2> QED
    BY <2>2 DEF Load, ExecInv
<1>11. WaitInv'
  <2>1. p \notin {Main, Daemon} /\ tid[p] \in Tids /\ loads[tid[p]] = "pending"
    BY DEF Load, RootInv, LoadInv, TidInv, TypeOK, Tids
  <2>2. \A t \in Tids : loads[t] # "pending" => loads'[t] = loads[t]
    BY <2>1 DEF Load, TypeOK
  <2> QED
    BY <2>2 DEF Load, WaitInv
<1> QED
  BY <1>1, <1>2, <1>3, <1>4, <1>5, <1>6, <1>7, <1>8, <1>9, <1>10, <1>11

LEMMA TellParentStep ==
  ASSUME IInv, NEW p \in Procs, TellParent(p)
  PROVE  IInv'
PROOF
<1> USE ProcessesAssumption DEF IInv, threadVars, semaVars, callVars, history
<1>1. TypeOK'
  <2>1. th_parent[p] \in Procs /\ sema_load[th_parent[p]] = 0
    BY DEF TellParent, ParentWaits, SemaInv, TypeOK, RootInv
  <2>2. sema_load' \in [Procs -> {0, 1}]
    BY <2>1 DEF TellParent, TypeOK
  <2> QED
    BY <2>2 DEF TellParent, Goto, TypeOK, Places
<1>2. ChildrenLive'
  BY DEF TellParent, Goto, TypeOK, ChildrenLive
<1>3. ParentWaits'
  BY SMTT(30) DEF TellParent, Goto, TypeOK, ParentWaits
<1>4. TidInv'
  BY DEF TellParent, Goto, TypeOK, TidInv
<1>5. RootInv'
  BY DEF TellParent, Goto, TypeOK, RootInv
<1>6. SemaInv'
  <2> DEFINE r == th_parent[p]
  <2>1. /\ pc[p] = "loaded" /\ r \in Procs /\ pc[r] = "exec" /\ arg[r] = tid[p]
        /\ p \in Range(list_children[r])
    BY DEF TellParent, ParentWaits, SemaInv
  <2>2. \A q \in Procs : sema_load'[q] # 0 => q = r \/ sema_load[q] # 0
    BY DEF TellParent, TypeOK
  <2>3. \A q \in Procs : pc'[q] \in {"start", "loaded"} => pc[q] \in {"start", "loaded"} /\ q # p
    BY DEF TellParent, Goto, TypeOK
  <2>4. pc'[p] \in {"run", "exit"} /\ p # Daemon
    BY <2>1 DEF TellParent, Goto, TypeOK, RootInv
  <2>5. ASSUME NEW q \in Procs, sema_load'[q] # 0
        PROVE  /\ pc'[q] = "exec"
               /\ \E c \in Range(list_children'[q]) :
                    tid'[c] = arg'[q] /\ pc'[c] \notin {"start", "loaded"} /\ c # Daemon
    <3>1. pc'[q] = "exec"
      BY <2>1, <2>2, <2>5 DEF TellParent, Goto, SemaInv, TypeOK
    <3>2. CASE q = r
      BY <2>1, <2>4, <3>1, <3>2 DEF TellParent
    <3>3. CASE q # r
      <4>1. sema_load[q] # 0
        BY <2>2, <2>5, <3>3
      <4>2. PICK c \in Range(list_children[q]) :
              tid[c] = arg[q] /\ pc[c] \notin {"start", "loaded"} /\ c # Daemon
        BY <4>1 DEF SemaInv
      <4>3. c \in Procs
        BY <4>2 DEF TypeOK, Range
      <4>4. pc'[c] \notin {"start", "loaded"}
        BY <2>3, <4>2, <4>3
      <4> QED
        BY <3>1, <4>2, <4>4 DEF TellParent
    <3> QED
      BY <3>2, <3>3
  <2>6. ASSUME NEW q \in Procs, pc'[q] \in {"start", "loaded"}
        PROVE  th_parent'[q] \in Procs /\ sema_load'[th_parent'[q]] = 0
    <3>1. pc[q] \in {"start", "loaded"} /\ q # p
      BY <2>3, <2>6
    <3>2. th_parent[q] # r
      BY <2>1, <3>1 DEF ParentWaits, TidInv
    <3>3. th_parent[q] \in Procs /\ sema_load[th_parent[q]] = 0
      BY <3>1 DEF SemaInv
    <3> QED
      BY <3>1, <3>2, <3>3 DEF TellParent, TypeOK, ParentWaits
  <2>7. \A q \in Procs : pc'[q] \in {"start", "loaded", "run", "exec", "wait", "exit"}
                           => sema_wait'[q] = 0
    BY <2>1 DEF TellParent, Goto, TypeOK, SemaInv
  <2> QED
    BY <2>5, <2>6, <2>7 DEF SemaInv
<1>7. SearchInv'
  BY SMTT(30) DEF TellParent, Goto, TypeOK, SearchInv, ChildrenLive
<1>8. LoadInv'
  BY DEF TellParent, Goto, TypeOK, LoadInv, TidInv, Tids
<1>9. FateInv'
  BY DEF TellParent, Goto, TypeOK, FateInv, TidInv
<1>10. ExecInv'
  BY DEF TellParent, Goto, TypeOK, ExecInv, LoadInv, TidInv, RootInv
<1>11. WaitInv'
  BY DEF TellParent, Goto, TypeOK, WaitInv, LoadInv, FateInv, TidInv
<1> QED
  BY <1>1, <1>2, <1>3, <1>4, <1>5, <1>6, <1>7, <1>8, <1>9, <1>10, <1>11

LEMMA ExitCallStep ==
  ASSUME IInv, NEW p \in Procs, NEW status \in ExitArgs \cup {-1}, Exit(p, status)
  PROVE  IInv'
PROOF
<1> USE ProcessesAssumption DEF IInv, threadVars, semaVars, callVars, history
<1>1. TypeOK'
  BY DEF Exit, Goto, UserProcess, TypeOK, Places, Tids
<1>2. ChildrenLive'
  BY DEF Exit, Goto, UserProcess, TypeOK, ChildrenLive
<1>3. ParentWaits'
  BY DEF Exit, Goto, UserProcess, TypeOK, ParentWaits
<1>4. TidInv'
  BY DEF Exit, Goto, UserProcess, TypeOK, TidInv
<1>5. RootInv'
  BY DEF Exit, Goto, UserProcess, TypeOK, RootInv
<1>6. SemaInv'
  <2>1. UNCHANGED <<tid, th_parent, list_children, sema_load>> /\ Goto(p, "exit")
    BY DEF Exit
  <2>2. \A q \in Procs : q # p => arg'[q] = arg[q] /\ sema_wait'[q] = sema_wait[q]
    BY DEF Exit, TypeOK
  <2>3. pc[p] = "run" /\ sema_wait'[p] = 0
    BY DEF Exit, UserProcess, SemaInv
  <2> QED
    BY <2>1, <2>2, <2>3, SemaKept
<1>7. SearchInv'
  BY SMTT(30) DEF Exit, Goto, UserProcess, TypeOK, SearchInv, ChildrenLive
<1>8. LoadInv'
  BY SMTT(30) DEF Exit, Goto, UserProcess, TypeOK, LoadInv, TidInv, Tids
<1>9. FateInv'
  <2>1. p \notin {Main, Daemon} /\ tid[p] \in Tids /\ exit_status[p] = 0 /\ pc[p] = "run"
    BY DEF Exit, UserProcess, TidInv, TypeOK, Tids, FateInv
  <2>2. fate'[tid[p]] = Exited(status) /\ \A t \in Tids : t # tid[p] => fate'[t] = fate[t]
    BY <2>1 DEF Exit, TypeOK
  <2>3. pc'[p] = "exit" /\ \A q \in Procs : q # p => pc'[q] = pc[q] /\ exit_status'[q] = exit_status[q]
    BY DEF Exit, Goto, TypeOK
  <2>4. tid' = tid /\ is_loaded' = is_loaded /\ exit_status'[p] = status
    BY <2>1 DEF Exit, TypeOK
  <2>5. \A q \in Procs : q # p /\ pc[q] # "free" => tid[q] # tid[p] /\ tid[q] \in Tids
    BY <2>1 DEF TidInv, TypeOK, Tids
  <2> QED
    BY <2>1, <2>2, <2>3, <2>4, <2>5 DEF FateInv
<1>10. ExecInv'
  BY SMTT(30) DEF Exit, Goto, UserProcess, TypeOK, ExecInv, LoadInv, TidInv, RootInv
<1>11. WaitInv'
  <2>1. tid[p] \in Tids /\ fate[tid[p]] = <<>>
    BY DEF Exit, UserProcess, TidInv, TypeOK, Tids, FateInv
  <2>2. \A t \in Tids : fate[t] # <<>> => fate'[t] = fate[t]
    BY <2>1 DEF Exit, TypeOK
  <2>3. ret' = ret /\ loads' = loads
    BY DEF Exit
  <2>4. \A v : Exited(v) # <<>> /\ Killed # <<>>
    BY DEF Exited, Killed
  <2> QED
    BY <2>2, <2>3, <2>4 DEF WaitInv
<1> QED
  BY <1>1, <1>2, <1>3, <1>4, <1>5, <1>6, <1>7, <1>8, <1>9, <1>10, <1>11

LEMMA KillStep ==
  ASSUME IInv, NEW p \in Procs, Kill(p)
  PROVE  IInv'
PROOF
<1> USE ProcessesAssumption DEF IInv, threadVars, semaVars, callVars, history
<1>1. TypeOK'
  BY DEF Kill, Goto, UserProcess, TypeOK, Places, Tids
<1>2. ChildrenLive'
  BY DEF Kill, Goto, UserProcess, TypeOK, ChildrenLive
<1>3. ParentWaits'
  BY DEF Kill, Goto, UserProcess, TypeOK, ParentWaits
<1>4. TidInv'
  BY DEF Kill, Goto, UserProcess, TypeOK, TidInv
<1>5. RootInv'
  BY DEF Kill, Goto, UserProcess, TypeOK, RootInv
<1>6. SemaInv'
  <2>1. UNCHANGED <<tid, th_parent, list_children, sema_load>> /\ Goto(p, "exit")
    BY DEF Kill
  <2>2. \A q \in Procs : q # p => arg'[q] = arg[q] /\ sema_wait'[q] = sema_wait[q]
    BY DEF Kill, TypeOK
  <2>3. pc[p] = "run" /\ sema_wait'[p] = 0
    BY DEF Kill, UserProcess, SemaInv
  <2> QED
    BY <2>1, <2>2, <2>3, SemaKept
<1>7. SearchInv'
  BY SMTT(30) DEF Kill, Goto, UserProcess, TypeOK, SearchInv, ChildrenLive
<1>8. LoadInv'
  BY SMTT(30) DEF Kill, Goto, UserProcess, TypeOK, LoadInv, TidInv, Tids
<1>9. FateInv'
  <2>1. p \notin {Main, Daemon} /\ tid[p] \in Tids /\ exit_status[p] = 0 /\ pc[p] = "run"
    BY DEF Kill, UserProcess, TidInv, TypeOK, Tids, FateInv
  <2>2. fate'[tid[p]] = Killed /\ \A t \in Tids : t # tid[p] => fate'[t] = fate[t]
    BY <2>1 DEF Kill, TypeOK
  <2>3. pc'[p] = "exit" /\ \A q \in Procs : q # p => pc'[q] = pc[q] /\ exit_status'[q] = exit_status[q]
    BY DEF Kill, Goto, TypeOK
  <2>4. tid' = tid /\ is_loaded' = is_loaded /\ exit_status'[p] = 0
    BY <2>1 DEF Kill, TypeOK
  <2>5. \A q \in Procs : q # p /\ pc[q] # "free" => tid[q] # tid[p] /\ tid[q] \in Tids
    BY <2>1 DEF TidInv, TypeOK, Tids
  <2> QED
    BY <2>1, <2>2, <2>3, <2>4, <2>5 DEF FateInv
<1>10. ExecInv'
  BY DEF Kill, Goto, UserProcess, TypeOK, ExecInv, LoadInv, TidInv, RootInv
<1>11. WaitInv'
  <2>1. tid[p] \in Tids /\ fate[tid[p]] = <<>>
    BY DEF Kill, UserProcess, TidInv, TypeOK, Tids, FateInv
  <2>2. \A t \in Tids : fate[t] # <<>> => fate'[t] = fate[t]
    BY <2>1 DEF Kill, TypeOK
  <2>3. ret' = ret /\ loads' = loads
    BY DEF Kill
  <2>4. \A v : Exited(v) # <<>> /\ Killed # <<>>
    BY DEF Exited, Killed
  <2> QED
    BY <2>2, <2>3, <2>4 DEF WaitInv
<1> QED
  BY <1>1, <1>2, <1>3, <1>4, <1>5, <1>6, <1>7, <1>8, <1>9, <1>10, <1>11

LEMMA MainExitStep ==
  ASSUME IInv, MainExit
  PROVE  IInv'
PROOF
<1> USE ProcessesAssumption DEF IInv, threadVars, semaVars, callVars, history
<1>1. TypeOK'
  BY DEF MainExit, Goto, TypeOK, Places, Tids
<1>2. ChildrenLive'
  BY DEF MainExit, Goto, TypeOK, ChildrenLive
<1>3. ParentWaits'
  BY DEF MainExit, Goto, TypeOK, ParentWaits
<1>4. TidInv'
  BY DEF MainExit, Goto, TypeOK, TidInv
<1>5. RootInv'
  BY DEF MainExit, Goto, TypeOK, RootInv
<1>6. SemaInv'
  <2>1. UNCHANGED <<tid, th_parent, list_children, sema_load>> /\ Goto(Main, "exit")
    BY DEF MainExit
  <2>2. \A q \in Procs : q # Main => arg'[q] = arg[q] /\ sema_wait'[q] = sema_wait[q]
    BY DEF MainExit, TypeOK
  <2>3. pc[Main] = "run" /\ sema_wait'[Main] = 0
    BY DEF MainExit, SemaInv
  <2> QED
    BY <2>1, <2>2, <2>3, SemaKept
<1>7. SearchInv'
  BY ZenonT(40) DEF MainExit, Goto, TypeOK, SearchInv, ChildrenLive
<1>8. LoadInv'
  BY DEF MainExit, Goto, TypeOK, LoadInv, TidInv, Tids
<1>9. FateInv'
  BY DEF MainExit, Goto, TypeOK, FateInv, TidInv
<1>10. ExecInv'
  BY DEF MainExit, Goto, TypeOK, ExecInv, LoadInv, TidInv, RootInv
<1>11. WaitInv'
  BY DEF MainExit, Goto, TypeOK, WaitInv, LoadInv, FateInv, TidInv
<1> QED
  BY <1>1, <1>2, <1>3, <1>4, <1>5, <1>6, <1>7, <1>8, <1>9, <1>10, <1>11

LEMMA ProcessExitStep ==
  ASSUME IInv, NEW p \in Procs, ProcessExit(p)
  PROVE  IInv'
PROOF
<1> USE ProcessesAssumption DEF IInv, threadVars, semaVars, callVars, history
<1>1. TypeOK'
  <2>1. sema_wait' \in [Procs -> {0, 1}]
    BY DEF ProcessExit, SemaInv, TypeOK
  <2>2. Nothing \in [call : {"none", "exec", "wait"}, of : Tids \cup {0, TID_ERROR},
                     mine : BOOLEAN, value : Tids \cup ExitArgs \cup {0, -1}]
    BY DEF Nothing
  <2> QED
    BY <2>1, <2>2 DEF ProcessExit, Goto, TypeOK, Places
<1>2. ChildrenLive'
  BY DEF ProcessExit, Goto, TypeOK, ChildrenLive
<1>3. ParentWaits'
  BY DEF ProcessExit, Goto, TypeOK, ParentWaits
<1>4. TidInv'
  BY DEF ProcessExit, Goto, TypeOK, TidInv
<1>5. RootInv'
  BY DEF ProcessExit, Goto, TypeOK, RootInv
<1>6. SemaInv'
  <2>1. UNCHANGED <<tid, th_parent, list_children, sema_load>> /\ Goto(p, "zombie")
    BY DEF ProcessExit
  <2>2. \A q \in Procs : q # p => arg'[q] = arg[q] /\ sema_wait'[q] = sema_wait[q]
    BY DEF ProcessExit, TypeOK
  <2>3. pc[p] = "exit"
    BY DEF ProcessExit
  <2> QED
    BY <2>1, <2>2, <2>3, SemaKept
<1>7. SearchInv'
  BY SMTT(30) DEF ProcessExit, Goto, TypeOK, SearchInv, ChildrenLive
<1>8. LoadInv'
  BY DEF ProcessExit, Goto, TypeOK, LoadInv, TidInv, Tids
<1>9. FateInv'
  BY DEF ProcessExit, Goto, TypeOK, FateInv, TidInv
<1>10. ExecInv'
  <2>1. ret'[p].call = "none" /\ \A q \in Procs : q # p => ret'[q] = ret[q]
    BY DEF ProcessExit, TypeOK, Nothing
  <2> QED
    BY <2>1 DEF ProcessExit, ExecInv
<1>11. WaitInv'
  <2>1. ret'[p].call = "none" /\ \A q \in Procs : q # p => ret'[q] = ret[q]
    BY DEF ProcessExit, TypeOK, Nothing
  <2> QED
    BY <2>1 DEF ProcessExit, WaitInv
<1> QED
  BY <1>1, <1>2, <1>3, <1>4, <1>5, <1>6, <1>7, <1>8, <1>9, <1>10, <1>11

LEMMA ReapedStep ==
  ASSUME IInv, NEW p \in Procs, Reaped(p)
  PROVE  IInv'
PROOF
<1> USE ProcessesAssumption DEF IInv, threadVars, semaVars, callVars, history
<1>1. TypeOK'
  BY SMTT(30) DEF Reaped, Goto, TypeOK, Places, Tids
<1>2. ChildrenLive'
  BY DEF Reaped, Goto, TypeOK, ChildrenLive
<1>3. ParentWaits'
  BY DEF Reaped, Goto, TypeOK, ParentWaits
<1>4. TidInv'
  BY DEF Reaped, Goto, TypeOK, TidInv
<1>5. RootInv'
  BY DEF Reaped, Goto, TypeOK, RootInv
<1>6. SemaInv'
  <2>1. UNCHANGED <<tid, th_parent, list_children, sema_load>> /\ Goto(p, "reaped")
    BY DEF Reaped
  <2>2. \A q \in Procs : q # p => arg'[q] = arg[q] /\ sema_wait'[q] = sema_wait[q]
    BY DEF Reaped, TypeOK
  <2>3. pc[p] = "zombie"
    BY DEF Reaped
  <2> QED
    BY <2>1, <2>2, <2>3, SemaKept
<1>7. SearchInv'
  BY SMTT(30) DEF Reaped, Goto, TypeOK, SearchInv, ChildrenLive
<1>8. LoadInv'
  BY DEF Reaped, Goto, TypeOK, LoadInv, TidInv, Tids
<1>9. FateInv'
  BY DEF Reaped, Goto, TypeOK, FateInv, TidInv
<1>10. ExecInv'
  BY SMTT(30) DEF Reaped, Goto, TypeOK, ExecInv, LoadInv, TidInv, RootInv
<1>11. WaitInv'
  BY DEF Reaped, Goto, TypeOK, WaitInv, LoadInv, FateInv, TidInv
<1> QED
  BY <1>1, <1>2, <1>3, <1>4, <1>5, <1>6, <1>7, <1>8, <1>9, <1>10, <1>11

LEMMA DieStep ==
  ASSUME IInv, NEW p \in Procs, Die(p)
  PROVE  IInv'
PROOF
<1> USE ProcessesAssumption DEF IInv, threadVars, semaVars, callVars, history
<1>1. TypeOK'
  BY DEF Die, Goto, TypeOK, Places, Tids
<1>2. ChildrenLive'
  BY DEF Die, Goto, TypeOK, ChildrenLive
<1>3. ParentWaits'
  BY DEF Die, Goto, TypeOK, ParentWaits
<1>4. TidInv'
  BY DEF Die, Goto, TypeOK, TidInv
<1>5. RootInv'
  BY DEF Die, Goto, TypeOK, RootInv
<1>6. SemaInv'
  <2>1. UNCHANGED <<tid, th_parent, list_children, sema_load>> /\ Goto(p, "free")
    BY DEF Die
  <2>2. \A q \in Procs : q # p => arg'[q] = arg[q] /\ sema_wait'[q] = sema_wait[q]
    BY DEF Die, TypeOK
  <2>3. pc[p] = "reaped"
    BY DEF Die
  <2> QED
    BY <2>1, <2>2, <2>3, SemaKept
<1>7. SearchInv'
  BY SMTT(30) DEF Die, Goto, TypeOK, SearchInv, ChildrenLive
<1>8. LoadInv'
  BY DEF Die, Goto, TypeOK, LoadInv, TidInv, Tids
<1>9. FateInv'
  BY DEF Die, Goto, TypeOK, FateInv, TidInv
<1>10. ExecInv'
  BY SMTT(30) DEF Die, Goto, TypeOK, ExecInv, LoadInv, TidInv, RootInv
<1>11. WaitInv'
  BY DEF Die, Goto, TypeOK, WaitInv, LoadInv, FateInv, TidInv
<1> QED
  BY <1>1, <1>2, <1>3, <1>4, <1>5, <1>6, <1>7, <1>8, <1>9, <1>10, <1>11

LEMMA CloseFilesStep ==
  ASSUME IInv, NEW p \in Procs, CloseFiles(p)
  PROVE  IInv'
PROOF
<1> USE ProcessesAssumption DEF IInv, threadVars, semaVars, callVars, history
<1>1. TypeOK'
  <2>1. list_file' \in [Procs -> 0 .. MaxFiles]
    BY DEF CloseFiles, TypeOK
  <2> QED
    BY <2>1 DEF CloseFiles, Goto, TypeOK, Places
<1>2. ChildrenLive'
  BY SMTT(30) DEF CloseFiles, Goto, TypeOK, ChildrenLive
<1>3. ParentWaits'
  BY SMTT(30) DEF CloseFiles, Goto, TypeOK, ParentWaits
<1>4. TidInv'
  BY DEF CloseFiles, Goto, TypeOK, TidInv
<1>5. RootInv'
  BY DEF CloseFiles, Goto, TypeOK, RootInv
<1>6. SemaInv'
  <2>1. UNCHANGED <<tid, th_parent, list_children, sema_load>> /\ Goto(p, "spin")
    BY DEF CloseFiles
  <2>2. \A q \in Procs : q # p => arg'[q] = arg[q] /\ sema_wait'[q] = sema_wait[q]
    BY DEF CloseFiles, TypeOK
  <2>3. pc[p] = "reaped"
    BY DEF CloseFiles
  <2> QED
    BY <2>1, <2>2, <2>3, SemaKept
<1>7. SearchInv'
  BY DEF CloseFiles, Goto, TypeOK, SearchInv, ChildrenLive
<1>8. LoadInv'
  BY SMTT(30) DEF CloseFiles, Goto, TypeOK, LoadInv, TidInv, Tids
<1>9. FateInv'
  BY DEF CloseFiles, Goto, TypeOK, FateInv, TidInv
<1>10. ExecInv'
  BY SMTT(30) DEF CloseFiles, Goto, TypeOK, ExecInv, LoadInv, TidInv, RootInv
<1>11. WaitInv'
  BY DEF CloseFiles, Goto, TypeOK, WaitInv, LoadInv, FateInv, TidInv
<1> QED
  BY <1>1, <1>2, <1>3, <1>4, <1>5, <1>6, <1>7, <1>8, <1>9, <1>10, <1>11

LEMMA OpenFileStep ==
  ASSUME IInv, NEW p \in Procs, OpenFile(p)
  PROVE  IInv'
PROOF
<1> USE ProcessesAssumption DEF IInv, threadVars, semaVars, callVars, history
<1>1. TypeOK'
  BY SMTT(30) DEF OpenFile, Goto, UserProcess, TypeOK, Places, Tids
<1>2. ChildrenLive'
  BY DEF OpenFile, Goto, UserProcess, TypeOK, ChildrenLive
<1>3. ParentWaits'
  BY DEF OpenFile, Goto, UserProcess, TypeOK, ParentWaits
<1>4. TidInv'
  BY DEF OpenFile, Goto, UserProcess, TypeOK, TidInv
<1>5. RootInv'
  BY DEF OpenFile, Goto, UserProcess, TypeOK, RootInv
<1>6. SemaInv'
  BY DEF OpenFile, Goto, UserProcess, TypeOK, SemaInv, ParentWaits, ChildrenLive
<1>7. SearchInv'
  BY DEF OpenFile, Goto, UserProcess, TypeOK, SearchInv, ChildrenLive
<1>8. LoadInv'
  BY DEF OpenFile, Goto, UserProcess, TypeOK, LoadInv, TidInv, Tids
<1>9. FateInv'
  BY DEF OpenFile, Goto, UserProcess, TypeOK, FateInv, TidInv
<1>10. ExecInv'
  BY SMTT(30) DEF OpenFile, Goto, UserProcess, TypeOK, ExecInv, LoadInv, TidInv, RootInv
<1>11. WaitInv'
  BY DEF OpenFile, Goto, UserProcess, TypeOK, WaitInv, LoadInv, FateInv, TidInv
<1> QED
  BY <1>1, <1>2, <1>3, <1>4, <1>5, <1>6, <1>7, <1>8, <1>9, <1>10, <1>11

LEMMA CloseFileStep ==
  ASSUME IInv, NEW p \in Procs, CloseFile(p)
  PROVE  IInv'
PROOF
<1> USE ProcessesAssumption DEF IInv, threadVars, semaVars, callVars, history
<1>1. TypeOK'
  <2>1. list_file' \in [Procs -> 0 .. MaxFiles]
    BY DEF CloseFile, TypeOK
  <2> QED
    BY <2>1 DEF CloseFile, TypeOK
<1>2. ChildrenLive'
  BY DEF CloseFile, Goto, UserProcess, TypeOK, ChildrenLive
<1>3. ParentWaits'
  BY DEF CloseFile, Goto, UserProcess, TypeOK, ParentWaits
<1>4. TidInv'
  BY DEF CloseFile, Goto, UserProcess, TypeOK, TidInv
<1>5. RootInv'
  BY DEF CloseFile, Goto, UserProcess, TypeOK, RootInv
<1>6. SemaInv'
  BY DEF CloseFile, Goto, UserProcess, TypeOK, SemaInv, ParentWaits, ChildrenLive
<1>7. SearchInv'
  BY DEF CloseFile, Goto, UserProcess, TypeOK, SearchInv, ChildrenLive
<1>8. LoadInv'
  BY DEF CloseFile, Goto, UserProcess, TypeOK, LoadInv, TidInv, Tids
<1>9. FateInv'
  BY DEF CloseFile, Goto, UserProcess, TypeOK, FateInv, TidInv
<1>10. ExecInv'
  BY SMTT(30) DEF CloseFile, Goto, UserProcess, TypeOK, ExecInv, LoadInv, TidInv, RootInv
<1>11. WaitInv'
  BY DEF CloseFile, Goto, UserProcess, TypeOK, WaitInv, LoadInv, FateInv, TidInv
<1> QED
  BY <1>1, <1>2, <1>3, <1>4, <1>5, <1>6, <1>7, <1>8, <1>9, <1>10, <1>11

-----------------------------------------------------------------------------
LEMMA InitIInv == Init => IInv
PROOF
<1> SUFFICES ASSUME Init PROVE IInv
  OBVIOUS
<1> USE ProcessesAssumption
<1>1. TypeOK
  BY DEF Init, TypeOK, Places, Tids, Nothing
<1>2. ChildrenLive /\ ParentWaits
  BY DEF Init, ChildrenLive, ParentWaits, Range, IsInjective
<1>3. TidInv /\ RootInv
  BY DEF Init, TidInv, RootInv, Tids
<1>4. SemaInv /\ SearchInv /\ FateInv
  BY DEF Init, SemaInv, SearchInv, FateInv
<1>5. LoadInv /\ ExecInv /\ WaitInv
  BY DEF Init, LoadInv, ExecInv, WaitInv, Nothing
<1> QED
  BY <1>1, <1>2, <1>3, <1>4, <1>5 DEF IInv

(* Children are threads, live and with identifiers of their own. *)
LEMMA Children ==
  ASSUME IInv, NEW p \in Procs, pc[p] # "free", NEW c \in Range(list_children[p])
  PROVE  /\ c \in Procs /\ pc[c] \notin {"free", "reaped", "spin"} /\ th_parent[c] = p
         /\ tid[c] \in Tids /\ c # Main /\ c # NULL
         /\ \A d \in Range(list_children[p]) : tid[d] = tid[c] => d = c
PROOF
<1> USE ProcessesAssumption DEF IInv
<1>1. Range(list_children[p]) \subseteq Procs
  BY DEF TypeOK, Range
<1>2. \A d \in Range(list_children[p]) :
        pc[d] \notin {"free", "reaped", "spin"} /\ th_parent[d] = p
  BY DEF ChildrenLive
<1>3. tid[c] \in Tids
  BY <1>1, <1>2 DEF TidInv, TypeOK, Tids
<1>4. \A d \in Range(list_children[p]) : tid[d] = tid[c] => d = c
  BY <1>1, <1>2 DEF TidInv
<1>5. c # Main /\ c # NULL
  BY <1>1, <1>2 DEF RootInv
<1> QED
  BY <1>1, <1>2, <1>3, <1>4, <1>5

(* What search_child() returns. *)
LEMMA SearchChild ==
  ASSUME IInv, NEW p \in Procs, pc[p] # "free", NEW t
  PROVE  /\ \A c \in Range(list_children[p]) : tid[c] = t =>
              search_child(p, t) = IF is_loaded[c] THEN c ELSE NULL
         /\ (\A c \in Range(list_children[p]) : tid[c] # t) =>
              search_child(p, t) \in {NULL, Last(list_children[p])}
         /\ search_child(p, t) # NULL =>
              /\ search_child(p, t) \in Range(list_children[p])
              /\ is_loaded[search_child(p, t)]
PROOF
<1> DEFINE children == list_children[p]
<1>1. children \in Seq(Procs)
  BY DEF IInv, TypeOK
<1>2. children # <<>> => Last(children) \in Range(children)
  BY <1>1 DEF Last, Range
<1>3. ASSUME NEW c \in Range(children), tid[c] = t
      PROVE  children # <<>> /\ Candidate(children, t) = c
  <2>1. children # <<>>
    BY <1>1 DEF Range
  <2>2. \A d \in Range(children) : tid[d] = t => d = c
    BY <1>3, Children
  <2> QED
    BY <1>3, <2>1, <2>2 DEF Candidate
<1>4. ASSUME \A c \in Range(children) : tid[c] # t
      PROVE  Candidate(children, t) = Last(children)
  BY <1>4 DEF Candidate
<1>5. search_child(p, t) = IF children # <<>> /\ is_loaded[Candidate(children, t)]
                           THEN Candidate(children, t) ELSE NULL
  BY DEF search_child
<1>6. children # <<>> => Candidate(children, t) \in Range(children)
  BY <1>2, <1>3, <1>4
<1> HIDE DEF children
<1>7. /\ \A c \in Range(children) : tid[c] = t =>
           search_child(p, t) = IF is_loaded[c] THEN c ELSE NULL
      /\ (\A c \in Range(children) : tid[c] # t) =>
           search_child(p, t) \in {NULL, Last(children)}
      /\ search_child(p, t) # NULL =>
           search_child(p, t) \in Range(children) /\ is_loaded[search_child(p, t)]
  BY <1>3, <1>4, <1>5, <1>6
<1> QED
  BY <1>7 DEF children

LEMMA SearchesAgree == IInv => SearchAgrees
PROOF
<1> SUFFICES ASSUME IInv, NEW p \in Procs, pc[p] = "wait"
             PROVE  /\ th_child[p] \in Range(list_children[p])
                    /\ search_child(p, arg[p]) = th_child[p]
  BY DEF SearchAgrees
<1>1. /\ th_child[p] \in Range(list_children[p])
      /\ is_loaded[th_child[p]]
      /\ \/ tid[th_child[p]] = arg[p]
         \/ /\ th_child[p] = Last(list_children[p])
            /\ \A c \in Range(list_children[p]) : tid[c] # arg[p]
  BY DEF IInv, SearchInv
<1>2. CASE tid[th_child[p]] = arg[p]
  BY <1>1, <1>2, SearchChild
<1>3. CASE th_child[p] = Last(list_children[p]) /\ \A c \in Range(list_children[p]) : tid[c] # arg[p]
  <2> DEFINE children == list_children[p]
  <2>1. children # <<>>
    BY <1>1 DEF IInv, TypeOK, Range
  <2>2. Candidate(children, arg[p]) = Last(children)
    BY <1>3 DEF Candidate
  <2> QED
    BY <1>1, <1>3, <2>1, <2>2 DEF search_child
<1> QED
  BY <1>1, <1>2, <1>3

-----------------------------------------------------------------------------
(* process_execute() creates the child. *)
LEMMA ExecCreateStep ==
  ASSUME IInv, NEW p \in Procs, NEW c \in Procs, ExecCreate(p, c)
  PROVE  IInv'
PROOF
<1> USE ProcessesAssumption DEF IInv
<1>1. /\ pc[p] = "run" /\ p # Daemon /\ pc[c] = "free" /\ c # p
      /\ c \notin {Main, Daemon} /\ next_tid \in Tids
  BY DEF ExecCreate, Calls, AllocateTid, RootInv
<1>2. /\ pc'[p] = "exec" /\ pc'[c] = "start"
      /\ \A q \in Procs : q # p /\ q # c => pc'[q] = pc[q]
  BY <1>1 DEF ExecCreate, TypeOK
<1>3. /\ tid'[c] = next_tid /\ th_parent'[c] = p /\ ~is_loaded'[c]
      /\ exit_status'[c] = 0 /\ sema_load'[c] = 0 /\ sema_wait'[c] = 0 /\ sema_exited'[c] = 0
      /\ ret'[c].call = "none" /\ next_tid' = next_tid + 1
  BY DEF ExecCreate, AllocateTid, TypeOK, Nothing
<1>4. \A q \in Procs : q # c =>
        /\ tid'[q] = tid[q] /\ th_parent'[q] = th_parent[q] /\ is_loaded'[q] = is_loaded[q]
        /\ exit_status'[q] = exit_status[q] /\ sema_load'[q] = sema_load[q]
        /\ sema_wait'[q] = sema_wait[q] /\ sema_exited'[q] = sema_exited[q]
        /\ ret'[q] = ret[q] /\ th_child'[q] = th_child[q]
  BY DEF ExecCreate, AllocateTid, TypeOK
<1>5. /\ arg'[p] = next_tid /\ \A q \in Procs : q # p /\ q # c => arg'[q] = arg[q]
      /\ loads' = loads /\ fate' = fate
  BY <1>1 DEF ExecCreate, TypeOK, history
<1>6. \A q \in Procs : pc[q] # "free" =>
        c \notin Range(list_children[q]) /\ Range(list_children[q]) \subseteq Procs
  BY <1>1, SMTT(30) DEF ChildrenLive, TypeOK, Range
<1>7. /\ list_children'[c] = <<>> /\ Range(list_children'[c]) = {}
      /\ list_children'[p] \in Seq(Procs) /\ IsInjective(list_children'[p])
      /\ Range(list_children'[p]) = Range(list_children[p]) \cup {c}
      /\ \A q \in Procs : q # p /\ q # c => list_children'[q] = list_children[q]
  <2>1. /\ list_children'[p] = Append(list_children[p], c) /\ list_children'[c] = <<>>
        /\ \A q \in Procs : q # p /\ q # c => list_children'[q] = list_children[q]
    BY <1>1 DEF ExecCreate, TypeOK
  <2>2. list_children[p] \in Seq(Procs) /\ IsInjective(list_children[p])
    BY <1>1 DEF TypeOK, ChildrenLive
  <2>3. Range(list_children'[c]) = {}
    BY <2>1 DEF Range
  <2> QED
    BY <1>1, <1>6, <2>1, <2>2, <2>3, AppendRange
<1>8. TypeOK'
  <2>1. pc' \in [Procs -> Places] /\ tid' \in [Procs -> 0 .. MaxTid] /\ next_tid' \in Tids \cup {MaxTid + 1}
    <3>1. pc' \in [Procs -> Places]
      BY DEF ExecCreate, TypeOK, Places
    <3>2. next_tid \in 0 .. MaxTid /\ next_tid + 1 \in Tids \cup {MaxTid + 1}
      BY <1>1 DEF Tids
    <3>3. tid' \in [Procs -> 0 .. MaxTid]
      BY <3>2 DEF ExecCreate, AllocateTid, TypeOK
    <3> QED
      BY <1>3, <3>1, <3>2, <3>3
  <2>2. list_children' \in [Procs -> Seq(Procs)]
    <3>1. list_children' = [list_children EXCEPT ![p] = list_children'[p], ![c] = <<>>]
      BY <1>1 DEF ExecCreate, TypeOK
    <3>2. <<>> \in Seq(Procs)
      OBVIOUS
    <3> QED
      BY <1>7, <3>1, <3>2, ZenonT(40) DEF TypeOK
  <2>3. /\ th_parent' \in [Procs -> Procs \cup {NULL}]
        /\ is_loaded' \in [Procs -> BOOLEAN] /\ is_exited' \in [Procs -> BOOLEAN]
        /\ exit_status' \in [Procs -> ExitArgs \cup {0, -1}]
        /\ th_child' \in [Procs -> Procs \cup {NULL}]
    BY DEF ExecCreate, TypeOK
  <2>4. /\ sema_load' \in [Procs -> {0, 1}] /\ sema_wait' \in [Procs -> {0, 1}]
        /\ sema_exited' \in [Procs -> {0, 1}]
    BY <1>1 DEF ExecCreate, TypeOK
  <2>6. list_file' \in [Procs -> 0 .. MaxFiles]
    BY DEF ExecCreate, TypeOK
  <2>7. arg' \in [Procs -> Tids \cup {0, TID_ERROR}]
    BY <1>1 DEF ExecCreate, TypeOK
  <2>5. ret' \in [Procs -> [call : {"none", "exec", "wait"}, of : Tids \cup {0, TID_ERROR},
                            mine : BOOLEAN, value : Tids \cup ExitArgs \cup {0, -1}]]
    <3>1. Nothing \in [call : {"none", "exec", "wait"}, of : Tids \cup {0, TID_ERROR},
                       mine : BOOLEAN, value : Tids \cup ExitArgs \cup {0, -1}]
      BY DEF Nothing
    <3> QED
      BY <3>1 DEF ExecCreate, TypeOK
  <2> QED
    BY <1>5, <2>1, <2>2, <2>3, <2>4, <2>5, <2>6, <2>7 DEF TypeOK
<1>9. ChildrenLive'
  <2> SUFFICES ASSUME NEW q \in Procs, pc'[q] # "free"
               PROVE  /\ IsInjective(list_children'[q])
                      /\ \A d \in Range(list_children'[q]) :
                           /\ pc'[d] \notin {"free", "reaped", "spin"}
                           /\ th_parent'[d] = q
                           /\ sema_exited'[d] = 0
    BY DEF ChildrenLive
  <2>1. CASE q = c
    BY <1>7, <2>1 DEF IsInjective
  <2>2. CASE q = p
    BY <1>1, <1>2, <1>3, <1>4, <1>6, <1>7, <2>2 DEF ChildrenLive
  <2>3. CASE q # p /\ q # c
    BY <1>2, <1>4, <1>6, <1>7, <2>3 DEF ChildrenLive
  <2> QED
    BY <2>1, <2>2, <2>3
<1>10. ParentWaits'
  <2> SUFFICES ASSUME NEW q \in Procs, pc'[q] \in {"start", "loaded"}
               PROVE  /\ pc'[th_parent'[q]] = "exec"
                      /\ arg'[th_parent'[q]] = tid'[q]
                      /\ q \in Range(list_children'[th_parent'[q]])
    BY DEF ParentWaits
  <2>1. CASE q = c
    BY <1>2, <1>3, <1>5, <1>7, <2>1
  <2>2. CASE q # c
    <3>1. pc[q] \in {"start", "loaded"} /\ q # p
      BY <1>2, <2>2
    <3>2. th_parent[q] \in Procs /\ pc[th_parent[q]] = "exec" /\ arg[th_parent[q]] = tid[q]
          /\ q \in Range(list_children[th_parent[q]])
      BY <3>1 DEF ParentWaits, SemaInv
    <3>3. th_parent[q] # p /\ th_parent[q] # c
      BY <1>1, <3>2
    <3> QED
      BY <1>2, <1>4, <1>5, <1>7, <2>2, <3>2, <3>3
  <2> QED
    BY <2>1, <2>2
<1>11. TidInv'
  <2>1. next_tid \in Int /\ next_tid >= 3
    BY DEF TidInv, TypeOK, Tids
  <2>2. \A q \in Procs : q # c /\ pc'[q] # "free" => tid'[q] >= 1 /\ tid'[q] < next_tid /\ tid'[q] \in Int
    BY <1>1, <1>2, <1>4, SMTT(30) DEF TidInv, TypeOK
  <2>3. \A q, r \in Procs : q # c /\ r # c /\ pc'[q] # "free" /\ pc'[r] # "free" /\ tid'[q] = tid'[r] => q = r
    BY <1>1, <1>2, <1>4 DEF TidInv
  <2> QED
    BY <1>3, <2>1, <2>2, <2>3 DEF TidInv
<1>12. RootInv'
  BY <1>1, <1>2, <1>4, <1>5 DEF RootInv
<1>13. SemaInv'
  <2>1. ASSUME NEW q \in Procs, sema_load'[q] # 0
        PROVE  /\ pc'[q] = "exec"
               /\ \E d \in Range(list_children'[q]) :
                    tid'[d] = arg'[q] /\ pc'[d] \notin {"start", "loaded"} /\ d # Daemon
    <3>1. q # c /\ sema_load[q] # 0
      BY <1>3, <1>4, <2>1
    <3>2. pc[q] = "exec" /\ q # p
      BY <1>1, <3>1 DEF SemaInv
    <3>3. PICK d \in Range(list_children[q]) :
            tid[d] = arg[q] /\ pc[d] \notin {"start", "loaded"} /\ d # Daemon
      BY <3>1 DEF SemaInv
    <3>4. d \in Procs /\ d # c
      BY <1>6, <3>2, <3>3
    <3>5. pc'[d] \notin {"start", "loaded"}
      BY <1>2, <3>3, <3>4
    <3> QED
      BY <1>2, <1>4, <1>5, <1>7, <3>1, <3>2, <3>3, <3>4, <3>5
  <2>2. ASSUME NEW q \in Procs, pc'[q] \in {"start", "loaded"}
        PROVE  th_parent'[q] \in Procs /\ sema_load'[th_parent'[q]] = 0
    <3>1. CASE q = c
      BY <1>1, <1>3, <1>4, <3>1 DEF SemaInv
    <3>2. CASE q # c
      <4>1. pc[q] \in {"start", "loaded"}
        BY <1>2, <2>2, <3>2
      <4>2. th_parent[q] # c
        BY <1>1, <4>1 DEF ParentWaits
      <4> QED
        BY <1>4, <3>2, <4>1, <4>2 DEF SemaInv
    <3> QED
      BY <3>1, <3>2
  <2>3. ASSUME NEW q \in Procs,
               pc'[q] \in {"start", "loaded", "run", "exec", "wait", "exit"}
        PROVE  sema_wait'[q] = 0
    BY <1>1, <1>2, <1>3, <1>4, <2>3 DEF SemaInv
  <2> QED
    BY <2>1, <2>2, <2>3 DEF SemaInv
<1>14. SearchInv'
  <2> SUFFICES ASSUME NEW q \in Procs, pc'[q] = "wait"
               PROVE  /\ th_child'[q] \in Range(list_children'[q])
                      /\ is_loaded'[th_child'[q]]
                      /\ \/ tid'[th_child'[q]] = arg'[q]
                         \/ /\ th_child'[q] = Last(list_children'[q])
                            /\ \A d \in Range(list_children'[q]) : tid'[d] # arg'[q]
    BY DEF SearchInv
  <2>1. q # p /\ q # c /\ pc[q] = "wait"
    BY <1>2
  <2>2. list_children'[q] = list_children[q] /\ arg'[q] = arg[q] /\ th_child'[q] = th_child[q]
    BY <1>4, <1>5, <1>7, <2>1
  <2>3. \A d \in Range(list_children[q]) : d \in Procs /\ tid'[d] = tid[d] /\ is_loaded'[d] = is_loaded[d]
    BY <1>4, <1>6, <2>1
  <2> QED
    BY <2>1, <2>2, <2>3 DEF SearchInv
<1>15. LoadInv'
  <2>1. \A t \in Tids : t >= next_tid => loads[t] = "pending" /\ fate[t] = <<>>
    BY DEF LoadInv
  <2>2. next_tid \in Int /\ \A t \in Tids : t \in Int /\ (t >= next_tid + 1 => t >= next_tid)
    BY DEF TypeOK, Tids
  <2>3. loads[next_tid] = "pending"
    BY <1>1, <2>1, <2>2
  <2>4. \A q \in Procs \ {Main, Daemon} : pc'[q] # "free" /\ q # c =>
          /\ pc'[q] = "start" => loads'[tid'[q]] = "pending"
          /\ pc'[q] # "start" => loads'[tid'[q]] = IF is_loaded'[q] THEN "ok" ELSE "failed"
    BY <1>1, <1>2, <1>4, <1>5 DEF LoadInv
  <2>5. pc'[c] = "start" /\ loads'[tid'[c]] = "pending"
    BY <1>2, <1>3, <1>5, <2>3
  <2> QED
    BY <1>3, <1>5, <2>1, <2>2, <2>4, <2>5 DEF LoadInv
<1>16. FateInv'
  <2>1. next_tid \in Int /\ fate[next_tid] = <<>>
    BY <1>1 DEF LoadInv, TypeOK, Tids
  <2>2. \A q \in Procs \ {Main, Daemon} : q # c =>
          /\ pc'[q] \in {"start", "loaded", "run", "exec", "wait"} =>
               exit_status'[q] = 0 /\ fate'[tid'[q]] = <<>>
          /\ pc'[q] \in {"exit", "zombie"} /\ is_loaded'[q] =>
               \/ fate'[tid'[q]] = Exited(exit_status'[q])
               \/ fate'[tid'[q]] = Killed /\ exit_status'[q] = 0
    BY <1>1, <1>2, <1>4, <1>5 DEF FateInv
  <2> QED
    BY <1>2, <1>3, <1>5, <2>1, <2>2 DEF FateInv
<1>17. ExecInv' /\ WaitInv'
  BY <1>3, <1>4, <1>5 DEF ExecInv, WaitInv
<1> QED
  BY <1>8, <1>9, <1>10, <1>11, <1>12, <1>13, <1>14, <1>15, <1>16, <1>17

(* process_execute() returns. *)
LEMMA ExecReturnStep ==
  ASSUME IInv, NEW p \in Procs, ExecReturn(p)
  PROVE  IInv'
PROOF
<1> USE ProcessesAssumption DEF IInv, threadVars, history
<1>1. pc[p] = "exec" /\ sema_load[p] = 1
  BY DEF ExecReturn, TypeOK
<1>2. PICK c \in Range(list_children[p]) :
        tid[c] = arg[p] /\ pc[c] \notin {"start", "loaded"} /\ c # Daemon
  BY <1>1 DEF SemaInv
<1>3. /\ c \in Procs \ {Main, Daemon} /\ pc[c] # "free" /\ arg[p] \in Tids /\ c # NULL
      /\ search_child(p, arg[p]) = IF is_loaded[c] THEN c ELSE NULL
  BY <1>1, <1>2, Children, SearchChild
<1>4. loads[arg[p]] = IF is_loaded[c] THEN "ok" ELSE "failed"
  BY <1>2, <1>3 DEF LoadInv
<1>5. /\ pc'[p] = "run" /\ \A q \in Procs : q # p => pc'[q] = pc[q] /\ arg'[q] = arg[q]
      /\ sema_load'[p] = 0 /\ \A q \in Procs : q # p => sema_load'[q] = sema_load[q]
  BY <1>1 DEF ExecReturn, Goto, TypeOK
<1>6. /\ ret'[p].call = "exec" /\ ret'[p].of = arg[p]
      /\ ret'[p].value = IF is_loaded[c] THEN arg[p] ELSE -1
      /\ \A q \in Procs : q # p => ret'[q] = ret[q]
  <2>1. arg[p] # TID_ERROR
    BY <1>3 DEF Tids, TID_ERROR
  <2>2. (IF arg[p] = TID_ERROR \/ search_child(p, arg[p]) = NULL THEN -1 ELSE arg[p])
        = IF is_loaded[c] THEN arg[p] ELSE -1
    BY <1>3, <2>1
  <2> QED
    BY <2>2 DEF ExecReturn, Return, TypeOK
<1>7. UNCHANGED <<tid, th_parent, list_children, is_loaded, is_exited, exit_status, sema_wait,
                  sema_exited, list_file, th_child, next_tid, loads, fate>>
  BY DEF ExecReturn
<1>8. TypeOK'
  <2>1. pc' \in [Procs -> Places] /\ sema_load' \in [Procs -> {0, 1}]
    BY <1>1, SMTT(30) DEF ExecReturn, Goto, TypeOK, Places
  <2>2. arg' \in [Procs -> Tids \cup {0, TID_ERROR}]
    BY DEF ExecReturn, TypeOK
  <2>3. ret' \in [Procs -> [call : {"none", "exec", "wait"}, of : Tids \cup {0, TID_ERROR},
                            mine : BOOLEAN, value : Tids \cup ExitArgs \cup {0, -1}]]
    <3> DEFINE v == IF arg[p] = TID_ERROR \/ search_child(p, arg[p]) = NULL THEN -1 ELSE arg[p]
    <3>1. v \in Tids \cup ExitArgs \cup {0, -1}
      BY <1>3
    <3> HIDE DEF v
    <3>2. [call |-> "exec", of |-> arg[p], mine |-> TRUE, value |-> v]
            \in [call : {"none", "exec", "wait"}, of : Tids \cup {0, TID_ERROR},
                 mine : BOOLEAN, value : Tids \cup ExitArgs \cup {0, -1}]
      BY <1>3, <3>1
    <3>3. ret' = [ret EXCEPT ![p] = [call |-> "exec", of |-> arg[p], mine |-> TRUE, value |-> v]]
      BY DEF ExecReturn, Return, v
    <3> QED
      BY <3>2, <3>3 DEF TypeOK
  <2> QED
    BY <1>7, <2>1, <2>2, <2>3 DEF TypeOK
<1>9. ChildrenLive'
  <2>1. \A q \in Procs : Range(list_children[q]) \subseteq Procs
    BY DEF TypeOK, Range
  <2>2. \A q \in Procs : (pc'[q] \in {"free", "reaped", "spin"}) = (pc[q] \in {"free", "reaped", "spin"})
                          /\ (pc'[q] = "free") = (pc[q] = "free")
    BY <1>1, <1>5
  <2> QED
    BY <1>7, <2>1, <2>2 DEF ChildrenLive
<1>t. TidInv' /\ RootInv'
  BY <1>1, <1>5, <1>7 DEF TidInv, RootInv
<1>10. \A q \in Procs : pc'[q] \in {"start", "loaded"} =>
         pc[q] \in {"start", "loaded"} /\ th_parent[q] \in Procs /\ th_parent[q] # p
  BY <1>1, <1>5 DEF SemaInv
<1>11. ParentWaits'
  BY <1>5, <1>7, <1>10 DEF ParentWaits
<1>12. SemaInv'
  <2>1. ASSUME NEW q \in Procs, sema_load'[q] # 0
        PROVE  /\ pc'[q] = "exec"
               /\ \E d \in Range(list_children'[q]) :
                    tid'[d] = arg'[q] /\ pc'[d] \notin {"start", "loaded"} /\ d # Daemon
    <3>1. q # p /\ sema_load[q] # 0 /\ pc[q] = "exec"
      BY <1>5, <2>1 DEF SemaInv
    <3>2. PICK d \in Range(list_children[q]) :
            tid[d] = arg[q] /\ pc[d] \notin {"start", "loaded"} /\ d # Daemon
      BY <3>1 DEF SemaInv
    <3>3. d \in Procs
      BY <3>1, <3>2, Children
    <3> QED
      BY <1>5, <1>7, <3>1, <3>2, <3>3
  <2>2. ASSUME NEW q \in Procs, pc'[q] \in {"start", "loaded"}
        PROVE  th_parent'[q] \in Procs /\ sema_load'[th_parent'[q]] = 0
    BY <1>5, <1>7, <1>10, <2>2 DEF SemaInv
  <2>3. ASSUME NEW q \in Procs,
               pc'[q] \in {"start", "loaded", "run", "exec", "wait", "exit"}
        PROVE  sema_wait'[q] = 0
    BY <1>1, <1>5, <1>7, <2>3 DEF SemaInv
  <2> QED
    BY <2>1, <2>2, <2>3 DEF SemaInv
<1>13. SearchInv' /\ LoadInv' /\ FateInv'
  BY <1>1, <1>5, <1>7 DEF SearchInv, LoadInv, FateInv
<1>14. ExecInv'
  BY <1>3, <1>4, <1>6, <1>7 DEF ExecInv
<1>15. WaitInv'
  BY <1>6, <1>7 DEF WaitInv
<1> QED
  BY <1>8, <1>9, <1>t, <1>11, <1>12, <1>13, <1>14, <1>15

(* process_wait() up to its sema_down(). *)
LEMMA WaitCallStep ==
  ASSUME IInv, NEW p \in Procs, NEW t \in Tids \cup {TID_ERROR}, Wait(p, t)
  PROVE  IInv'
PROOF
<1> USE ProcessesAssumption DEF IInv, threadVars, semaVars, history
<1> DEFINE found == IF t = TID_ERROR THEN NULL ELSE search_child(p, t)
           mine == \E c \in Range(list_children[p]) : tid[c] = t
<1>1. pc[p] = "run" /\ p # Daemon /\ (p = Main => ret[p].call = "exec" /\ t = ret[p].value)
  BY DEF Wait, Calls
<1>2. UNCHANGED <<tid, th_parent, list_children, is_loaded, is_exited, exit_status,
                  sema_load, sema_wait, sema_exited, list_file, next_tid, loads, fate>>
  BY DEF Wait
<1>3. CASE found = NULL
  <2>1. /\ UNCHANGED <<pc, th_child, arg>>
        /\ ret' = [ret EXCEPT ![p] = [call |-> "wait", of |-> t, mine |-> mine, value |-> -1]]
    BY <1>3 DEF Wait, Return
  <2>2. /\ ret'[p].call = "wait" /\ ret'[p].of = t /\ ret'[p].mine = mine /\ ret'[p].value = -1
        /\ \A q \in Procs : q # p => ret'[q] = ret[q]
    BY <2>1 DEF TypeOK
  <2>3. TypeOK'
    <3>1. mine \in BOOLEAN
      OBVIOUS
    <3> HIDE DEF mine
    <3>2. [call |-> "wait", of |-> t, mine |-> mine, value |-> -1]
            \in [call : {"none", "exec", "wait"}, of : Tids \cup {0, TID_ERROR},
                 mine : BOOLEAN, value : Tids \cup ExitArgs \cup {0, -1}]
      BY <3>1
    <3>3. ret' \in [Procs -> [call : {"none", "exec", "wait"}, of : Tids \cup {0, TID_ERROR},
                              mine : BOOLEAN, value : Tids \cup ExitArgs \cup {0, -1}]]
      BY <2>1, <3>2 DEF TypeOK
    <3> QED
      BY <1>2, <2>1, <3>3 DEF TypeOK
  <2>4. ChildrenLive' /\ ParentWaits' /\ TidInv' /\ RootInv'
    BY <1>2, <2>1 DEF ChildrenLive, ParentWaits, TidInv, RootInv
  <2>5. SemaInv' /\ SearchInv' /\ LoadInv' /\ FateInv'
    BY <1>2, <2>1 DEF SemaInv, SearchInv, LoadInv, FateInv
  <2>6. ExecInv'
    BY <1>2, <2>2 DEF ExecInv
  <2>7. ASSUME mine PROVE t \in Tids /\ loads[t] = "failed"
    <3>1. PICK c \in Range(list_children[p]) : tid[c] = t
      BY <2>7
    <3>2. /\ c \in Procs /\ c # Main /\ c # NULL /\ pc[c] # "free" /\ th_parent[c] = p
          /\ t \in Tids
      BY <1>1, <3>1, Children
    <3>3. t # TID_ERROR
      BY <3>2 DEF Tids, TID_ERROR
    <3>4. ~is_loaded[c]
      BY <1>1, <1>3, <3>1, <3>2, <3>3, SearchChild
    <3>5. c # Daemon
      <4>1. SUFFICES ASSUME c = Daemon PROVE FALSE
        OBVIOUS
      <4>2. p = Main /\ t = 2
        BY <3>1, <3>2, <4>1 DEF RootInv
      <4>3. ret[p].call = "exec" /\ ret[p].value = 2
        BY <1>1, <4>2
      <4>4. loads[2] # "pending"
        BY <4>3 DEF ExecInv
      <4> QED
        BY <4>4 DEF RootInv
    <3>6. pc[c] # "start"
      BY <1>1, <3>2 DEF ParentWaits
    <3> QED
      BY <3>1, <3>2, <3>4, <3>5, <3>6 DEF LoadInv
  <2>8. WaitInv'
    BY <1>2, <2>2, <2>7, ZenonT(40) DEF WaitInv
  <2> QED
    BY <2>3, <2>4, <2>5, <2>6, <2>8
<1>4. CASE found # NULL
  <2>1. /\ th_child' = [th_child EXCEPT ![p] = found] /\ arg' = [arg EXCEPT ![p] = t]
        /\ Goto(p, "wait") /\ ret' = ret
    BY <1>4 DEF Wait
  <2>2. found = search_child(p, t) /\ found \in Range(list_children[p]) /\ is_loaded[found]
    BY <1>1, <1>4, SearchChild
  <2>3. found \in Procs
    BY <1>1, <2>2, Children
  <2>4. \/ tid[found] = t
        \/ found = Last(list_children[p]) /\ \A c \in Range(list_children[p]) : tid[c] # t
    <3>1. CASE mine
      <4>1. PICK c \in Range(list_children[p]) : tid[c] = t
        BY <3>1
      <4> QED
        BY <1>1, <1>4, <2>2, <4>1, SearchChild
    <3>2. CASE ~mine
      BY <1>1, <1>4, <2>2, <3>2, SearchChild
    <3> QED
      BY <3>1, <3>2
  <2> HIDE DEF found, mine
  <2>5. /\ pc'[p] = "wait" /\ th_child'[p] = found /\ arg'[p] = t
        /\ \A q \in Procs : q # p => pc'[q] = pc[q] /\ th_child'[q] = th_child[q] /\ arg'[q] = arg[q]
    BY <2>1 DEF Goto, TypeOK
  <2>6. TypeOK'
    <3>1. pc' \in [Procs -> Places] /\ th_child' \in [Procs -> Procs \cup {NULL}]
          /\ arg' \in [Procs -> Tids \cup {0, TID_ERROR}]
      BY <2>1, <2>3 DEF Goto, TypeOK, Places
    <3> QED
      BY <1>2, <2>1, <3>1 DEF TypeOK
  <2>7. ChildrenLive'
    <3>1. \A q \in Procs : Range(list_children[q]) \subseteq Procs
      BY DEF TypeOK, Range
    <3>2. \A q \in Procs : (pc'[q] \in {"free", "reaped", "spin"}) = (pc[q] \in {"free", "reaped", "spin"})
                            /\ (pc'[q] = "free") = (pc[q] = "free")
      BY <1>1, <2>5
    <3> QED
      BY <1>2, <3>1, <3>2 DEF ChildrenLive
  <2>8. ParentWaits'
    <3>1. \A q \in Procs : pc'[q] \in {"start", "loaded"} =>
            pc[q] \in {"start", "loaded"} /\ th_parent[q] \in Procs /\ th_parent[q] # p
      BY <1>1, <2>5 DEF SemaInv, ParentWaits
    <3> QED
      BY <1>2, <2>5, <3>1 DEF ParentWaits
  <2>9. TidInv' /\ RootInv'
    <3>1. TidInv'
      BY <1>1, <1>2, <2>5 DEF TidInv
    <3>2. RootInv'
      BY <1>1, <1>2, <2>5 DEF RootInv
    <3> QED
      BY <3>1, <3>2
  <2>10. SemaInv'
    BY <1>1, <1>2, <2>1, <2>5, SemaKept DEF SemaInv
  <2>11. SearchInv'
    BY <1>2, <2>2, <2>4, <2>5 DEF SearchInv
  <2>12. LoadInv' /\ FateInv'
    BY <1>1, <1>2, <2>5 DEF LoadInv, FateInv
  <2>13. ExecInv' /\ WaitInv'
    BY <1>2, <2>1 DEF ExecInv, WaitInv
  <2> QED
    BY <2>6, <2>7, <2>8, <2>9, <2>10, <2>11, <2>12, <2>13
<1> QED
  BY <1>3, <1>4

(* process_wait() behind its sema_down(). *)
LEMMA WaitReturnStep ==
  ASSUME IInv, NEW p \in Procs, WaitReturn(p)
  PROVE  IInv'
PROOF
<1> USE ProcessesAssumption DEF IInv, history
<1> DEFINE k == th_child[p]
<1>1. pc[p] = "wait" /\ sema_wait[k] > 0
  BY DEF WaitReturn
<1>2. search_child(p, arg[p]) = k /\ k \in Range(list_children[p]) /\ is_loaded[k]
  BY <1>1, SearchesAgree DEF SearchAgrees, SearchInv
<1>3. /\ k \in Procs /\ k # p /\ k \notin {Main, Daemon} /\ pc[k] = "zombie" /\ th_parent[k] = p
      /\ tid[k] \in Tids /\ sema_exited[k] = 0 /\ sema_wait[k] = 1
  <2>1. /\ k \in Procs /\ pc[k] \notin {"free", "reaped", "spin"} /\ th_parent[k] = p
        /\ tid[k] \in Tids
    BY <1>1, <1>2, Children
  <2>2. k \notin {Main, Daemon}
    BY <1>2 DEF RootInv
  <2>3. sema_exited[k] = 0
    BY <1>1, <1>2 DEF ChildrenLive
  <2>4. sema_wait[k] = 1
    BY <1>1, <2>1 DEF TypeOK
  <2>5. pc[k] = "zombie"
    <3>1. pc[k] \notin {"start", "loaded", "run", "exec", "wait", "exit"}
      BY <2>1, <2>4 DEF SemaInv
    <3>2. pc[k] \in Places
      BY <2>1 DEF TypeOK
    <3> QED
      BY <2>1, <3>1, <3>2 DEF Places
  <2> QED
    BY <1>1, <2>1, <2>2, <2>3, <2>4, <2>5
<1>4. /\ sema_wait' = [sema_wait EXCEPT ![k] = @ - 1]
      /\ sema_exited' = [sema_exited EXCEPT ![k] = @ + 1]
      /\ list_children' = [list_children EXCEPT ![p] = RemoveFirst(@, k)]
      /\ ret' = [ret EXCEPT ![p] = [call |-> "wait", of |-> arg[p], mine |-> tid[k] = arg[p],
                                    value |-> exit_status[k]]]
      /\ th_child' = [th_child EXCEPT ![p] = NULL] /\ arg' = [arg EXCEPT ![p] = 0]
      /\ Goto(p, "run")
  BY <1>2 DEF WaitReturn, Return
<1>5. UNCHANGED <<tid, th_parent, is_loaded, is_exited, exit_status, sema_load, list_file,
                  next_tid, loads, fate>>
  BY DEF WaitReturn
<1> HIDE DEF k
<1>6. /\ pc'[p] = "run"
      /\ \A q \in Procs : q # p => /\ pc'[q] = pc[q] /\ th_child'[q] = th_child[q]
                                    /\ arg'[q] = arg[q] /\ ret'[q] = ret[q]
                                    /\ list_children'[q] = list_children[q]
      /\ sema_wait'[k] = 0 /\ sema_exited'[k] = 1
      /\ \A q \in Procs : q # k => sema_wait'[q] = sema_wait[q] /\ sema_exited'[q] = sema_exited[q]
  BY <1>3, <1>4 DEF Goto, TypeOK
<1>7. /\ list_children'[p] \in Seq(Procs)
      /\ Range(list_children'[p]) = Range(list_children[p]) \ {k}
      /\ IsInjective(list_children'[p])
  <2>1. list_children[p] \in Seq(Procs) /\ IsInjective(list_children[p])
    BY <1>1 DEF TypeOK, ChildrenLive
  <2>2. list_children'[p] = RemoveFirst(list_children[p], k)
    BY <1>4 DEF TypeOK
  <2> QED
    BY <1>2, <2>1, <2>2, RemoveFirstRange
<1>8. /\ ret'[p].call = "wait" /\ ret'[p].of = arg[p] /\ ret'[p].mine = (tid[k] = arg[p])
      /\ ret'[p].value = exit_status[k]
  BY <1>4 DEF TypeOK
<1>9. TypeOK'
  <2>1. pc' \in [Procs -> Places] /\ th_child' \in [Procs -> Procs \cup {NULL}]
    BY <1>4 DEF Goto, TypeOK, Places
  <2>2. arg' \in [Procs -> Tids \cup {0, TID_ERROR}]
    BY <1>4 DEF TypeOK
  <2>3. sema_wait' \in [Procs -> {0, 1}] /\ sema_exited' \in [Procs -> {0, 1}]
    BY <1>3, <1>4, SMTT(30) DEF TypeOK
  <2>4. list_children' \in [Procs -> Seq(Procs)]
    <3>1. list_children' = [list_children EXCEPT ![p] = list_children'[p]]
      BY <1>4 DEF TypeOK
    <3> QED
      BY <1>7, <3>1 DEF TypeOK
  <2>5. ret' \in [Procs -> [call : {"none", "exec", "wait"}, of : Tids \cup {0, TID_ERROR},
                            mine : BOOLEAN, value : Tids \cup ExitArgs \cup {0, -1}]]
    <3>1. exit_status[k] \in ExitArgs \cup {0, -1} /\ arg[p] \in Tids \cup {0, TID_ERROR}
      BY <1>3 DEF TypeOK
    <3>2. (tid[k] = arg[p]) \in BOOLEAN
      OBVIOUS
    <3>3. [call |-> "wait", of |-> arg[p], mine |-> tid[k] = arg[p], value |-> exit_status[k]]
            \in [call : {"none", "exec", "wait"}, of : Tids \cup {0, TID_ERROR},
                 mine : BOOLEAN, value : Tids \cup ExitArgs \cup {0, -1}]
      BY <3>1, <3>2
    <3> QED
      BY <1>4, <3>3 DEF TypeOK
  <2> QED
    BY <1>5, <2>1, <2>2, <2>3, <2>4, <2>5 DEF TypeOK
<1>10. ChildrenLive'
  <2> SUFFICES ASSUME NEW q \in Procs, pc'[q] # "free"
               PROVE  /\ IsInjective(list_children'[q])
                      /\ \A d \in Range(list_children'[q]) :
                           /\ pc'[d] \notin {"free", "reaped", "spin"}
                           /\ th_parent'[d] = q
                           /\ sema_exited'[d] = 0
    BY DEF ChildrenLive
  <2>1. pc[q] # "free" /\ Range(list_children[q]) \subseteq Procs
    BY <1>1, <1>6, SMTT(30) DEF TypeOK, Range
  <2>2. CASE q = p
    BY <1>1, <1>5, <1>6, <1>7, <2>1, <2>2 DEF ChildrenLive
  <2>3. CASE q # p
    <3>1. k \notin Range(list_children[q])
      BY <1>3, <2>1, <2>3 DEF ChildrenLive
    <3> QED
      BY <1>1, <1>5, <1>6, <2>1, <2>3, <3>1 DEF ChildrenLive
  <2> QED
    BY <2>2, <2>3
<1>11. ParentWaits'
  <2>1. \A q \in Procs : pc'[q] \in {"start", "loaded"} =>
          pc[q] \in {"start", "loaded"} /\ th_parent[q] \in Procs /\ th_parent[q] # p
    BY <1>1, <1>6 DEF SemaInv, ParentWaits
  <2> QED
    BY <1>5, <1>6, <2>1 DEF ParentWaits
<1>12. TidInv' /\ RootInv'
  BY <1>1, <1>3, <1>5, <1>6 DEF TidInv, RootInv
<1>13. SemaInv'
  <2>1. ASSUME NEW q \in Procs, sema_load'[q] # 0
        PROVE  /\ pc'[q] = "exec"
               /\ \E d \in Range(list_children'[q]) :
                    tid'[d] = arg'[q] /\ pc'[d] \notin {"start", "loaded"} /\ d # Daemon
    <3>1. q # p /\ sema_load[q] # 0 /\ pc[q] = "exec"
      BY <1>1, <1>5, <2>1 DEF SemaInv
    <3>2. PICK d \in Range(list_children[q]) :
            tid[d] = arg[q] /\ pc[d] \notin {"start", "loaded"} /\ d # Daemon
      BY <3>1 DEF SemaInv
    <3>3. d \in Procs
      BY <3>1, <3>2, Children
    <3>4. pc'[d] \notin {"start", "loaded"}
      BY <1>6, <3>2, <3>3
    <3> QED
      BY <1>5, <1>6, <3>1, <3>2, <3>4
  <2>2. ASSUME NEW q \in Procs, pc'[q] \in {"start", "loaded"}
        PROVE  th_parent'[q] \in Procs /\ sema_load'[th_parent'[q]] = 0
    BY <1>5, <1>6, <2>2 DEF SemaInv
  <2>3. ASSUME NEW q \in Procs,
               pc'[q] \in {"start", "loaded", "run", "exec", "wait", "exit"}
        PROVE  sema_wait'[q] = 0
    BY <1>1, <1>6, <2>3 DEF SemaInv
  <2> QED
    BY <2>1, <2>2, <2>3 DEF SemaInv
<1>14. SearchInv'
  BY <1>5, <1>6 DEF SearchInv
<1>15. LoadInv' /\ FateInv'
  BY <1>1, <1>5, <1>6 DEF LoadInv, FateInv
<1>16. ExecInv'
  BY <1>5, <1>6, <1>8 DEF ExecInv
<1>17. WaitInv'
  <2>1. \/ fate[tid[k]] = Exited(exit_status[k])
        \/ fate[tid[k]] = Killed /\ exit_status[k] = 0
    BY <1>2, <1>3 DEF FateInv
  <2> QED
    <3>1. ret'[p].mine =>
            /\ ret'[p].of \in Tids
            /\ \/ fate'[ret'[p].of] = Exited(ret'[p].value)
               \/ fate'[ret'[p].of] = Killed /\ ret'[p].value = 0
      BY <1>3, <1>5, <1>8, <2>1, ZenonT(40)
    <3>2. \A q \in Procs : q # p => ret'[q] = ret[q]
      BY <1>6
    <3> QED
      BY <1>5, <3>1, <3>2 DEF WaitInv
<1> QED
  BY <1>9, <1>10, <1>11, <1>12, <1>13, <1>14, <1>15, <1>16, <1>17

-----------------------------------------------------------------------------
LEMMA NextStep == IInv /\ [Next]_vars => IInv'
PROOF
<1> SUFFICES ASSUME IInv, [Next]_vars PROVE IInv'
  OBVIOUS
<1>1. CASE UNCHANGED vars
  <2>1. UNCHANGED <<pc, tid, th_parent, list_children, is_loaded, is_exited, exit_status,
                    sema_load, sema_wait, sema_exited, list_file, th_child, arg, ret, next_tid,
                    loads, fate>>
    BY <1>1 DEF vars, threadVars, semaVars, callVars, history
  <2> QED
    BY <2>1, SMTT(30) DEF IInv, TypeOK, ChildrenLive, ParentWaits, TidInv, RootInv, SemaInv, SearchInv,
                LoadInv, FateInv, ExecInv, WaitInv
<1>2. CASE MainExit
  BY <1>2, MainExitStep
<1>3. ASSUME NEW p \in Procs, ExecStep(p)
      PROVE  IInv'
  BY <1>3, ExecCreateStep, ExecNoMemoryStep, ExecReturnStep, LoadStep, TellParentStep
     DEF ExecStep
<1>4. ASSUME NEW p \in Procs, ExitStep(p)
      PROVE  IInv'
  BY <1>4, ExitCallStep, KillStep, ProcessExitStep, ReapedStep, DieStep, CloseFilesStep
     DEF ExitStep
<1>5. ASSUME NEW p \in Procs, WaitStep(p)
      PROVE  IInv'
  BY <1>5, WaitCallStep, WaitReturnStep DEF WaitStep
<1>6. ASSUME NEW p \in Procs, OpenFile(p) \/ CloseFile(p)
      PROVE  IInv'
  BY <1>6, OpenFileStep, CloseFileStep
<1> QED
  BY <1>1, <1>2, <1>3, <1>4, <1>5, <1>6 DEF Next

LEMMA ProcessesInduction == Spec => []IInv
PROOF
  BY InitIInv, NextStep, PTL DEF Spec

(***************************************************************************)
(* For any number of processes and however their pages are used again: no  *)
(* pointer between parent and child dangles, and process_wait() finds the  *)
(* child it has waited for when it searches a second time.                 *)
(***************************************************************************)
THEOREM FamilyCorrect == Spec => []FamilyInv
PROOF
<1>1. IInv => FamilyInv
  BY SearchesAgree DEF IInv, FamilyInv
<1> QED
  BY <1>1, ProcessesInduction, PTL

(***************************************************************************)
(* exec returns the identifier of the new process if and only if its       *)
(* program was loaded.                                                     *)
(***************************************************************************)
THEOREM ExecCorrect == Spec => []ExecTruth
PROOF
<1>1. IInv => ExecTruth
  BY DEF IInv, ExecInv, ExecTruth
<1> QED
  BY <1>1, ProcessesInduction, PTL

(***************************************************************************)
(* wait for a child returns the status with which the child has ended.     *)
(***************************************************************************)
THEOREM WaitCorrect == Spec => []WaitTruth
PROOF
<1>1. IInv => WaitTruth
  BY DEF IInv, WaitInv, WaitTruth
<1> QED
  BY <1>1, ProcessesInduction, PTL
=============================================================================
