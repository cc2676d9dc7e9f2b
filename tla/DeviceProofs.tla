----------------------------- MODULE DeviceProofs -----------------------------
(***************************************************************************)
(* The devices.                                                            *)
(*                                                                         *)
(* The disk driver accounts for every interrupt and implements disks that  *)
(* are read and written atomically, for every number of threads, sectors,  *)
(* values and spurious interrupts.  NoStaleCompletion is not inductive.    *)
(* What is: the interrupts that the semaphore counts, that is pending and  *)
(* that the controller still owes are no more than the spurious ones and   *)
(* one for the thread that waits.                                          *)
(*                                                                         *)
(* The terminal, in the second half, keeps the bytes in order and the      *)
(* calls apart and misses no wakeup, for every number of threads and every *)
(* size of the queues and of the calls.                                    *)
(***************************************************************************)
EXTENDS Disk, Terminal, SequenceTheorems, TLAPS

Places == {"idle", "boot", "identify", "acquire", "select", "issue", "wait", "input",
           "output", "release"}
InChannel == {"select", "issue", "wait", "input", "output", "release"}
Calls  == [at : Places, op : {"none", "identify", "read", "write"}, disk : Nat,
           sector : Sectors \cup {NULL}, value : Values \cup {NULL}]

TypeOK ==
  /\ medium \in [Disks -> [Sectors -> Values]]
  /\ status \in {"idle", "busy", "drq"}
  /\ reg \in [dev : Disks, sector : Sectors \cup {NULL},
              command : {"none", "identify", "read", "write", "store"},
              data : Values \cup {NULL}]
  /\ intrq \in BOOLEAN
  /\ lock \in Threads \cup {NULL}
  /\ expecting_interrupt \in BOOLEAN
  /\ completion_wait \in Nat
  /\ is_ata \in [Disks -> BOOLEAN]
  /\ c \in [Threads -> Calls]
  /\ halted \in BOOLEAN
  /\ spurious \in Nat

(* Where a thread can be in each call; who is in the channel has its lock, *)
(* but for the main thread, which identifies the devices alone.            *)
CallOK ==
  \A t \in Threads :
    /\ c[t].op = "none" => c[t].at \in {"idle", "boot", "identify"}
    /\ c[t].at \in {"boot", "identify"} => t = Main /\ c[t].op = "none"
    /\ c[t].op = "identify" =>
         t = Main /\ c[t].at \in {"select", "issue", "wait", "input"} /\ c[t].disk \in Disks
    /\ c[t].op \in {"read", "write"} =>
         /\ ~Booting
         /\ c[t].at \in InChannel \cup {"acquire"}
         /\ c[t].at \in InChannel => lock = t
         /\ c[t].at # IF c[t].op = "read" THEN "output" ELSE "input"
         /\ c[t].disk \in Disks /\ c[t].sector \in Sectors /\ c[t].value \in Values

(* What the thread in the channel knows of the registers. *)
RegOK ==
  \A t \in Threads :
    /\ c[t].at \in {"issue", "wait", "input", "output"} =>
         reg.dev = c[t].disk /\ reg.sector = c[t].sector
    /\ c[t].at = "issue" => status = "idle"
    /\ c[t].at \in {"wait", "input", "output"} =>
         reg.command = IF c[t].op = "write" /\ c[t].at = "wait" THEN "store" ELSE c[t].op

(* What the controller is doing and for whom.  Only the end of a write may *)
(* be left to do when the thread has gone.                                 *)
ControllerOK ==
  /\ status = "drq" \/ (status = "busy" /\ reg.command # "store") =>
       \E t \in Threads : c[t].at \in {"wait", "input", "output"} /\ c[t].op = reg.command
  /\ status = "busy" /\ reg.command = "store" => reg.sector \in Sectors /\ reg.data \in Values
  /\ status = "drq" /\ reg.command = "read" => reg.data = medium[reg.dev][reg.sector]

Owed    == status = "busy" \/ (status = "drq" /\ reg.command = "write")
Waiting == \E t \in Threads : c[t].at \in {"wait", "output"}

InterruptsOK ==
  completion_wait + (IF intrq THEN 1 ELSE 0) + (IF Owed THEN 1 ELSE 0)
    <= spurious + (IF Waiting THEN 1 ELSE 0)

IInv == TypeOK /\ CallOK /\ RegOK /\ ControllerOK /\ InterruptsOK

-----------------------------------------------------------------------------
(* Two threads are never in the channel. *)
LEMMA Alone ==
  ASSUME IInv, NEW t \in Threads, NEW u \in Threads,
         c[t].at \in InChannel, c[u].at \in InChannel
  PROVE  t = u
PROOF
<1>1. ASSUME NEW r \in Threads, c[r].at \in InChannel
      PROVE  (r = Main /\ c[r].op = "identify") \/ (~Booting /\ lock = r)
  BY <1>1 DEF IInv, CallOK, TypeOK, Calls, InChannel, Places
<1> QED
  BY <1>1, DiskAssumption DEF Booting

(* Going to another place leaves the rest of the call and the other calls. *)
LEMMA GotoCalls ==
  ASSUME TypeOK, NEW t \in Threads, NEW place \in Places, Goto(t, place)
  PROVE  /\ c' \in [Threads -> Calls]
         /\ c'[t].at = place /\ c'[t].op = c[t].op /\ c'[t].disk = c[t].disk
         /\ c'[t].sector = c[t].sector /\ c'[t].value = c[t].value
         /\ \A u \in Threads : u # t => c'[u] = c[u]
PROOF
  BY DEF TypeOK, Goto, Calls

LEMMA InitIInv == Init => IInv
PROOF
<1> SUFFICES ASSUME Init PROVE IInv
  OBVIOUS
<1>1. TypeOK
  BY DiskAssumption DEF Init, TypeOK, Calls, Places, Idle, Disks
<1>2. CallOK
  BY DiskAssumption DEF Init, CallOK, Idle
<1>3. RegOK /\ ControllerOK
  BY DEF Init, RegOK, ControllerOK, Idle
<1>4. InterruptsOK
  BY DEF Init, InterruptsOK, Owed
<1> QED
  BY <1>1, <1>2, <1>3, <1>4 DEF IInv
-----------------------------------------------------------------------------
LEMMA CheckDevicesStep ==
  ASSUME IInv, CheckDevices
  PROVE  IInv'
PROOF
<1> USE DiskAssumption DEF IInv, hardware
<1>0. /\ c' \in [Threads -> Calls]
      /\ c'[Main].at = "identify" /\ c'[Main].op = "none" /\ c[Main].op = "none"
      /\ c[Main].at = "boot"
      /\ \A u \in Threads : u # Main => c'[u] = c[u]
  <2>1. c[Main].at = "boot" /\ c[Main].op = "none"
    BY DEF CheckDevices, At, CallOK
  <2>2. c' = [c EXCEPT ![Main] = [c[Main] EXCEPT !.at = "identify", !.disk = 0]]
    BY DEF CheckDevices, TypeOK
  <2>3. [c[Main] EXCEPT !.at = "identify", !.disk = 0] \in Calls
    BY ZenonT(40) DEF TypeOK, Calls, Places
  <2> QED
    BY <2>1, <2>2, <2>3 DEF TypeOK, Calls
<1>1. TypeOK'
  BY <1>0 DEF CheckDevices, TypeOK
<1>2. CallOK'
  BY <1>0 DEF CheckDevices, CallOK, Booting
<1>3. RegOK'
  BY <1>0 DEF CheckDevices, RegOK
<1>4. ControllerOK'
  BY <1>0 DEF CheckDevices, ControllerOK
<1>5. Waiting' = Waiting
  BY <1>0 DEF Waiting
<1>6. InterruptsOK'
  BY <1>5 DEF CheckDevices, InterruptsOK, Owed
<1> QED
  BY <1>1, <1>2, <1>3, <1>4, <1>6

LEMMA IdentifyStep ==
  ASSUME IInv, Identify
  PROVE  IInv'
PROOF
<1> USE DiskAssumption DEF IInv, hardware
<1>0. /\ c' \in [Threads -> Calls]
      /\ c[Main].at = "identify" /\ c[Main].op = "none"
      /\ \/ c'[Main].at \in {"idle", "identify"} /\ c'[Main].op = "none"
         \/ c'[Main].at = "select" /\ c'[Main].op = "identify" /\ c'[Main].disk \in Disks
      /\ \A u \in Threads : u # Main => c'[u] = c[u]
  <2> DEFINE d == c[Main].disk
             next == [c[Main] EXCEPT !.disk = d + 1]
             begin == [c[Main] EXCEPT !.at = "select", !.op = "identify"]
  <2>1. c[Main].at = "identify" /\ c[Main].op = "none"
    BY DEF Identify, At, CallOK
  <2>2. c' = [c EXCEPT ![Main] = c'[Main]]
        /\ c'[Main] = IF d \notin Disks THEN Idle ELSE IF is_ata[d] THEN begin ELSE next
    BY DEF Identify, TypeOK
  <2>3. Idle \in Calls /\ next \in Calls /\ begin \in Calls
    <3>1. Idle \in Calls
      BY DEF Idle, Calls, Places
    <3>2. c[Main] \in Calls /\ d \in Nat
      BY DEF TypeOK, Calls
    <3>3. next \in Calls /\ begin \in Calls
      <4>1. ASSUME NEW k \in Calls, NEW n \in Nat PROVE [k EXCEPT !.disk = n] \in Calls
        BY DEF Calls
      <4>2. ASSUME NEW k \in Calls
            PROVE  [k EXCEPT !.at = "select", !.op = "identify"] \in Calls
        BY DEF Calls, Places
      <4>3. d + 1 \in Nat
        BY <3>2
      <4> QED
        BY <3>2, <4>1, <4>2, <4>3
    <3> QED
      BY <3>1, <3>3
  <2>4. c'[Main] \in Calls
    BY <2>2, <2>3
  <2>5. \/ c'[Main].at \in {"idle", "identify"} /\ c'[Main].op = "none"
        \/ c'[Main].at = "select" /\ c'[Main].op = "identify" /\ c'[Main].disk \in Disks
    BY <2>1, <2>2 DEF Idle, TypeOK, Calls
  <2> QED
    BY <2>1, <2>2, <2>4, <2>5 DEF TypeOK
<1>1. TypeOK'
  BY <1>0 DEF Identify, TypeOK
<1>2. CallOK'
  BY <1>0 DEF Identify, CallOK, Booting
<1>3. RegOK'
  BY <1>0 DEF Identify, RegOK
<1>4. ControllerOK'
  BY <1>0 DEF Identify, ControllerOK
<1>5. Waiting' = Waiting
  BY <1>0 DEF Waiting
<1>6. InterruptsOK'
  BY <1>5 DEF Identify, InterruptsOK, Owed
<1> QED
  BY <1>1, <1>2, <1>3, <1>4, <1>6

LEMMA IdentifiedStep ==
  ASSUME IInv, Identified
  PROVE  IInv'
PROOF
<1> USE DiskAssumption DEF IInv, hardware
<1>0. /\ c' \in [Threads -> Calls]
      /\ c[Main].at = "input" /\ c[Main].op = "identify"
      /\ c'[Main].at = "identify" /\ c'[Main].op = "none"
      /\ \A u \in Threads : u # Main => c'[u] = c[u] /\ c[u].op = "none"
      /\ status' = "idle" /\ reg' = reg
  <2>1. c'[Main] = [at |-> "identify", op |-> "none", disk |-> c[Main].disk + 1,
                    sector |-> NULL, value |-> NULL]
    BY DEF Identified, TypeOK, Idle
  <2>2. c' = [c EXCEPT ![Main] = c'[Main]]
    BY DEF Identified, TypeOK
  <2>3. c' \in [Threads -> Calls]
    BY <2>1, <2>2 DEF TypeOK, Calls, Places
  <2>4. \A u \in Threads : u # Main => c[u].op = "none"
    BY DEF Identified, At, TypeOK, Calls, CallOK, Booting
  <2> QED
    <3>1. c'[Main].at = "identify" /\ c'[Main].op = "none"
      BY <2>1
    <3>2. \A u \in Threads : u # Main => c'[u] = c[u]
      BY <2>2 DEF TypeOK
    <3> QED
      BY <2>3, <2>4, <3>1, <3>2 DEF Identified, At
<1>1. TypeOK'
  BY <1>0 DEF Identified, TypeOK, CallOK
<1>2. CallOK'
  BY <1>0 DEF Identified, CallOK, Booting
<1>3. RegOK'
  BY <1>0 DEF Identified, RegOK, CallOK
<1>4. ControllerOK'
  BY <1>0 DEF Identified, ControllerOK
<1>5. Waiting' = Waiting
  BY <1>0 DEF Waiting
<1>6. InterruptsOK'
  BY <1>5 DEF Identified, InterruptsOK, Owed, TypeOK
<1> QED
  BY <1>1, <1>2, <1>3, <1>4, <1>6

LEMMA CallStep ==
  ASSUME IInv, NEW t \in Threads, NEW op \in {"read", "write"}, NEW d \in Disks,
         NEW s \in Sectors, NEW v \in Values, Call(t, op, d, s, v)
  PROVE  IInv'
PROOF
<1> USE DiskAssumption DEF IInv, hardware
<1>0. /\ c' \in [Threads -> Calls]
      /\ c[t].at = "idle" /\ ~Booting /\ c[t].op = "none"
      /\ c'[t].at = "acquire" /\ c'[t].op = op /\ c'[t].disk = d
      /\ c'[t].sector = s /\ c'[t].value = v
      /\ \A u \in Threads : u # t => c'[u] = c[u]
  BY DEF Call, At, TypeOK, Calls, Places, CallOK, Disks, InChannel
<1>1. TypeOK'
  BY <1>0 DEF Call, TypeOK
<1>2. CallOK'
  <2>1. ~Booting'
    BY <1>0 DEF Booting
  <2> QED
    BY <1>0, <2>1 DEF Call, CallOK, InChannel
<1>3. RegOK'
  BY <1>0 DEF Call, RegOK
<1>4. ControllerOK'
  BY <1>0 DEF Call, ControllerOK
<1>5. Waiting' = Waiting
  BY <1>0 DEF Waiting
<1>6. InterruptsOK'
  BY <1>5 DEF Call, InterruptsOK, Owed
<1> QED
  BY <1>1, <1>2, <1>3, <1>4, <1>6

LEMMA AcquireStep ==
  ASSUME IInv, NEW t \in Threads, Acquire(t)
  PROVE  IInv'
PROOF
<1> USE DiskAssumption DEF IInv, hardware
<1>0. /\ c' \in [Threads -> Calls]
      /\ c[t].at = "acquire" /\ c[t].op \in {"read", "write"}
      /\ c'[t].at = "select" /\ c'[t].op = c[t].op /\ c'[t].disk = c[t].disk
      /\ c'[t].sector = c[t].sector /\ c'[t].value = c[t].value
      /\ \A u \in Threads : u # t => c'[u] = c[u]
  <2>1. c[t].at = "acquire" /\ c[t].op \in {"read", "write"}
    BY DEF Acquire, At, TypeOK, Calls, CallOK
  <2> QED
    BY <2>1, GotoCalls DEF Acquire, Places
<1>1. TypeOK'
  BY <1>0 DEF Acquire, TypeOK
<1>2. CallOK'
  BY <1>0 DEF Acquire, CallOK, Booting, InChannel
<1>3. RegOK'
  BY <1>0 DEF Acquire, RegOK
<1>4. ControllerOK'
  BY <1>0 DEF Acquire, ControllerOK
<1>5. Waiting' = Waiting
  BY <1>0 DEF Waiting
<1>6. InterruptsOK'
  BY <1>5 DEF Acquire, InterruptsOK, Owed
<1> QED
  BY <1>1, <1>2, <1>3, <1>4, <1>6

LEMMA SelectStep ==
  ASSUME IInv, NEW t \in Threads, Select(t)
  PROVE  IInv'
PROOF
<1> USE DiskAssumption DEF IInv, hardware
<1>0. /\ c' \in [Threads -> Calls]
      /\ c[t].at = "select" /\ c[t].op # "none"
      /\ c'[t].at = "issue" /\ c'[t].op = c[t].op /\ c'[t].disk = c[t].disk
      /\ c'[t].sector = c[t].sector /\ c'[t].value = c[t].value
      /\ \A u \in Threads : u # t => c'[u] = c[u]
      /\ status = "idle" /\ status' = "idle" /\ intrq' = FALSE
  <2>1. c[t].at = "select" /\ c[t].op # "none"
    BY DEF Select, At, CallOK
  <2> QED
    BY <2>1, GotoCalls DEF Select, Places, wait_until_idle
<1>r. /\ reg'.dev = c[t].disk /\ reg'.sector = c[t].sector /\ reg'.command = reg.command
      /\ reg'.data = reg.data
      /\ reg' = [reg EXCEPT !.dev = c[t].disk, !.sector = c[t].sector]
      /\ c[t].disk \in Disks
  BY <1>0 DEF Select, TypeOK, CallOK, Calls
<1>a. \A u \in Threads : u # t => c[u].at \notin InChannel
  BY <1>0, Alone DEF InChannel
<1>1. TypeOK'
  BY <1>0, <1>r DEF Select, TypeOK, Calls
<1>2. CallOK'
  BY <1>0 DEF Select, CallOK, Booting, InChannel
<1>3. RegOK'
  BY <1>0, <1>r, <1>a DEF RegOK, InChannel
<1>4. ControllerOK'
  BY <1>0, <1>r DEF Select, ControllerOK
<1>5. Waiting' = Waiting
  BY <1>0 DEF Waiting
<1>6. InterruptsOK'
  BY <1>0, <1>5 DEF Select, InterruptsOK, Owed, TypeOK
<1> QED
  BY <1>1, <1>2, <1>3, <1>4, <1>6

LEMMA IssueStep ==
  ASSUME IInv, NEW t \in Threads, issue_pio_command(t)
  PROVE  IInv'
PROOF
<1> USE DiskAssumption DEF IInv, hardware
<1>0. /\ c' \in [Threads -> Calls]
      /\ c[t].at = "issue" /\ c[t].op # "none"
      /\ c'[t].at = (IF c[t].op = "write" THEN "output" ELSE "wait")
      /\ c'[t].op = c[t].op /\ c'[t].disk = c[t].disk
      /\ c'[t].sector = c[t].sector /\ c'[t].value = c[t].value
      /\ \A u \in Threads : u # t => c'[u] = c[u]
      /\ status = "idle" /\ status' = "busy"
  <2>1. c[t].at = "issue" /\ c[t].op # "none" /\ status = "idle"
    BY DEF issue_pio_command, At, CallOK, RegOK
  <2> QED
    BY <2>1, GotoCalls DEF issue_pio_command, Places
<1>r. /\ reg'.dev = c[t].disk /\ reg'.sector = c[t].sector /\ reg'.command = c[t].op
      /\ reg' = [reg EXCEPT !.command = c[t].op]
  BY <1>0 DEF issue_pio_command, TypeOK, RegOK
<1>a. \A u \in Threads : u # t => c[u].at \notin InChannel
  BY <1>0, Alone DEF InChannel
<1>1. TypeOK'
  BY <1>0, <1>r DEF issue_pio_command, TypeOK, Calls
<1>2. CallOK'
  BY <1>0 DEF issue_pio_command, CallOK, Booting, InChannel
<1>3. RegOK'
  BY <1>0, <1>r, <1>a DEF RegOK, InChannel
<1>4. ControllerOK'
  <2>1. c[t].op # "store"
    BY DEF TypeOK, Calls
  <2> QED
    BY <1>0, <1>r, <2>1 DEF ControllerOK
<1>5. ~Waiting /\ Waiting'
  BY <1>0, <1>a DEF Waiting, InChannel
<1>6. InterruptsOK'
  BY <1>0, <1>5 DEF issue_pio_command, InterruptsOK, Owed, TypeOK
<1> QED
  BY <1>1, <1>2, <1>3, <1>4, <1>6

LEMMA WaitStep ==
  ASSUME IInv, NEW t \in Threads, Wait(t)
  PROVE  IInv'
PROOF
<1> USE DiskAssumption DEF IInv, hardware
<1>0. /\ c' \in [Threads -> Calls]
      /\ c[t].at = "wait" /\ c[t].op # "none"
      /\ c'[t].at = (IF c[t].op = "write" THEN "release" ELSE "input")
      /\ c'[t].op = c[t].op /\ c'[t].disk = c[t].disk
      /\ c'[t].sector = c[t].sector /\ c'[t].value = c[t].value
      /\ \A u \in Threads : u # t => c'[u] = c[u]
  <2>1. c[t].at = "wait" /\ c[t].op # "none"
    BY DEF Wait, At, CallOK
  <2> QED
    BY <2>1, GotoCalls DEF Wait, Places
<1>a. \A u \in Threads : u # t => c[u].at \notin InChannel
  BY <1>0, Alone DEF InChannel
<1>1. TypeOK'
  BY <1>0 DEF Wait, TypeOK
<1>2. CallOK'
  BY <1>0 DEF Wait, CallOK, Booting, InChannel
<1>3. RegOK'
  BY <1>0 DEF Wait, RegOK
<1>4. ControllerOK'
  BY <1>0 DEF Wait, ControllerOK, RegOK
<1>5. Waiting /\ ~Waiting'
  BY <1>0, <1>a DEF Waiting, InChannel
<1>6. InterruptsOK'
  BY <1>0, <1>5 DEF Wait, InterruptsOK, Owed, TypeOK
<1> QED
  BY <1>1, <1>2, <1>3, <1>4, <1>6

LEMMA InputStep ==
  ASSUME IInv, NEW t \in Threads, Input(t)
  PROVE  IInv'
PROOF
<1> USE DiskAssumption DEF IInv, hardware
<1>b. c[t].at = "input" /\ c[t].op = "read"
  BY DEF Input, At
<1>1. CASE status # "drq"
  <2>1. UNCHANGED <<kind, medium, status, reg, intrq, lock, expecting_interrupt,
                    completion_wait, is_ata, c, spurious>> /\ halted' = TRUE
    BY <1>1 DEF Input
  <2> QED
    BY <2>1 DEF TypeOK, CallOK, RegOK, ControllerOK, InterruptsOK, Owed, Waiting, Booting
<1>2. CASE status = "drq"
  <2>d. reg.data \in Values
    BY <1>b, <1>2 DEF ControllerOK, RegOK, CallOK, TypeOK
  <2>0. /\ c' \in [Threads -> Calls]
        /\ c'[t].at = "release" /\ c'[t].op = c[t].op /\ c'[t].disk = c[t].disk
        /\ c'[t].sector = c[t].sector /\ c'[t].value = reg.data
        /\ \A u \in Threads : u # t => c'[u] = c[u]
        /\ status' = "idle"
    <3>1. c' = [c EXCEPT ![t] = [at |-> "release", op |-> c[t].op, disk |-> c[t].disk,
                                 sector |-> c[t].sector, value |-> reg.data]]
      BY <1>2 DEF Input, TypeOK, Calls
    <3> QED
      BY <1>2, <2>d, <3>1 DEF Input, TypeOK, Calls, Places
  <2>1. TypeOK'
    BY <1>2, <2>0 DEF Input, TypeOK
  <2>2. CallOK'
    BY <1>b, <2>0, <2>d DEF Input, CallOK, Booting, InChannel
  <2>3. RegOK'
    BY <2>0 DEF Input, RegOK
  <2>4. ControllerOK'
    BY <2>0 DEF ControllerOK
  <2>5. Waiting' = Waiting
    BY <1>b, <2>0 DEF Waiting
  <2>6. InterruptsOK'
    BY <2>0, <2>5 DEF Input, InterruptsOK, Owed, TypeOK
  <2> QED
    BY <2>1, <2>2, <2>3, <2>4, <2>6
<1> QED
  BY <1>1, <1>2

LEMMA OutputStep ==
  ASSUME IInv, NEW t \in Threads, Output(t)
  PROVE  IInv'
PROOF
<1> USE DiskAssumption DEF IInv, hardware
<1>b. c[t].at = "output" /\ c[t].op = "write"
  BY DEF Output, At, CallOK, TypeOK, Calls
<1>1. CASE status # "drq"
  <2>1. UNCHANGED <<kind, medium, status, reg, intrq, lock, expecting_interrupt,
                    completion_wait, is_ata, c, spurious>> /\ halted' = TRUE
    BY <1>1 DEF Output
  <2> QED
    BY <2>1 DEF TypeOK, CallOK, RegOK, ControllerOK, InterruptsOK, Owed, Waiting, Booting
<1>2. CASE status = "drq"
  <2>0. /\ c' \in [Threads -> Calls]
        /\ c'[t].at = "wait" /\ c'[t].op = c[t].op /\ c'[t].disk = c[t].disk
        /\ c'[t].sector = c[t].sector /\ c'[t].value = c[t].value
        /\ \A u \in Threads : u # t => c'[u] = c[u]
        /\ status' = "busy"
    BY <1>2, GotoCalls DEF Output, Places
  <2>r. /\ reg'.dev = reg.dev /\ reg'.sector = reg.sector /\ reg'.command = "store"
        /\ reg'.data = c[t].value
        /\ reg' = [reg EXCEPT !.command = "store", !.data = c[t].value]
        /\ reg.command = "write"
    BY <1>b, <1>2 DEF Output, TypeOK, RegOK
  <2>a. \A u \in Threads : u # t => c[u].at \notin InChannel
    BY <1>b, Alone DEF InChannel
  <2>1. TypeOK'
    BY <1>2, <2>0, <2>r DEF Output, TypeOK, Calls
  <2>2. CallOK'
    BY <1>b, <2>0 DEF Output, CallOK, Booting, InChannel
  <2>3. RegOK'
    BY <1>b, <2>0, <2>r, <2>a DEF RegOK, InChannel
  <2>4. ControllerOK'
    BY <1>b, <2>0, <2>r DEF ControllerOK, CallOK, RegOK
  <2>5. Waiting' = Waiting
    BY <1>b, <2>0 DEF Waiting
  <2>6. InterruptsOK'
    BY <1>2, <2>0, <2>5, <2>r DEF Output, InterruptsOK, Owed, TypeOK
  <2> QED
    BY <2>1, <2>2, <2>3, <2>4, <2>6
<1> QED
  BY <1>1, <1>2

LEMMA ReleaseStep ==
  ASSUME IInv, NEW t \in Threads, Release(t)
  PROVE  IInv'
PROOF
<1> USE DiskAssumption DEF IInv, hardware
<1>0. /\ c' \in [Threads -> Calls]
      /\ c[t].at = "release" /\ c[t].op \in {"read", "write"}
      /\ c'[t].at = "idle" /\ c'[t].op = "none"
      /\ \A u \in Threads : u # t => c'[u] = c[u]
  BY DEF Release, At, TypeOK, Calls, Places, CallOK, Idle
<1>a. \A u \in Threads : u # t => c[u].at \notin InChannel
  BY <1>0, Alone DEF InChannel
<1>1. TypeOK'
  BY <1>0 DEF Release, TypeOK
<1>2. CallOK'
  BY <1>0, <1>a DEF Release, CallOK, Booting, InChannel
<1>3. RegOK'
  BY <1>0 DEF Release, RegOK
<1>4. ControllerOK'
  BY <1>0 DEF Release, ControllerOK
<1>5. Waiting' = Waiting
  BY <1>0 DEF Waiting
<1>6. InterruptsOK'
  BY <1>5 DEF Release, InterruptsOK, Owed
<1> QED
  BY <1>1, <1>2, <1>3, <1>4, <1>6

(* interrupt_handler() changes nothing but the semaphore. *)
LEMMA HandlerStep ==
  ASSUME IInv, Interrupt \/ SpuriousInterrupt
  PROVE  IInv'
PROOF
<1> USE DEF IInv, hardware, Interrupt, SpuriousInterrupt, Handle
<1>1. TypeOK'
  <2>1. UNCHANGED <<medium, status, reg, lock, expecting_interrupt, is_ata, c, halted>>
    OBVIOUS
  <2>2. completion_wait' \in Nat /\ spurious' \in Nat
    BY DEF TypeOK
  <2>3. intrq' = FALSE \/ intrq' = intrq
    OBVIOUS
  <2> QED
    BY <2>1, <2>2, <2>3 DEF TypeOK
<1>2. CallOK'
  BY DEF CallOK, Booting
<1>3. RegOK'
  BY DEF RegOK
<1>4. ControllerOK'
  BY DEF ControllerOK
<1>5. Waiting' = Waiting
  BY DEF Waiting
<1>6. InterruptsOK'
  BY <1>5 DEF InterruptsOK, Owed, TypeOK
<1> QED
  BY <1>1, <1>2, <1>3, <1>4, <1>6

LEMMA DeviceStep ==
  ASSUME IInv, Device
  PROVE  IInv'
PROOF
<1> USE DEF IInv, Device
<1>0. status = "busy" /\ c' = c /\ lock' = lock
  BY DEF DeviceReads, DeviceAsks, DeviceStores, DeviceFails
<1>2. CallOK'
  BY <1>0 DEF CallOK, Booting
<1>5. Waiting' = Waiting
  BY <1>0 DEF Waiting
<1>t. UNCHANGED <<expecting_interrupt, completion_wait, is_ata, halted, spurious>>
  OBVIOUS
<1>3. CASE DeviceReads
  <2>1. reg.command = "read" => reg.sector \in Sectors
    BY <1>0 DEF ControllerOK, RegOK, CallOK
  <2>r. /\ reg'.dev = reg.dev /\ reg'.sector = reg.sector /\ reg'.command = reg.command
        /\ reg'.data = IF reg.command = "read" THEN medium[reg.dev][reg.sector] ELSE NULL
        /\ reg' = [reg EXCEPT !.data = reg'.data]
        /\ status' = "drq" /\ intrq' = TRUE /\ medium' = medium
        /\ reg.command \in {"read", "identify"}
    BY <1>3 DEF DeviceReads, TypeOK
  <2>2. reg'.data \in Values \cup {NULL}
    BY <2>1, <2>r DEF TypeOK
  <2>3. TypeOK'
    BY <1>0, <1>t, <2>2, <2>r DEF TypeOK
  <2>4. RegOK'
    BY <1>0, <2>r DEF RegOK
  <2>5. ControllerOK'
    BY <1>0, <2>r DEF ControllerOK
  <2>6. InterruptsOK'
    BY <1>0, <1>5, <1>t, <2>r DEF InterruptsOK, Owed, TypeOK
  <2> QED
    BY <1>2, <2>3, <2>4, <2>5, <2>6
<1>4. CASE DeviceAsks \/ DeviceFails
  <2>r. /\ reg' = reg /\ medium' = medium
        /\ \/ reg.command = "write" /\ status' = "drq" /\ intrq' = intrq
           \/ status' = "idle" /\ intrq' = TRUE
    BY <1>4 DEF DeviceAsks, DeviceFails
  <2>3. TypeOK'
    BY <1>0, <1>t, <2>r DEF TypeOK
  <2>4. RegOK'
    BY <1>0, <2>r DEF RegOK
  <2>5. ControllerOK'
    BY <1>0, <2>r DEF ControllerOK
  <2>6. InterruptsOK'
    BY <1>0, <1>5, <1>t, <2>r DEF InterruptsOK, Owed, TypeOK
  <2> QED
    BY <1>2, <2>3, <2>4, <2>5, <2>6
<1>6. CASE DeviceStores
  <2>r. /\ reg' = reg /\ status' = "idle" /\ intrq' = TRUE
        /\ reg.sector \in Sectors /\ reg.data \in Values
        /\ medium' = [medium EXCEPT ![reg.dev][reg.sector] = reg.data]
    BY <1>6 DEF DeviceStores, ControllerOK
  <2>3. TypeOK'
    BY <1>0, <1>t, <2>r DEF TypeOK
  <2>4. RegOK'
    BY <1>0, <2>r DEF RegOK
  <2>5. ControllerOK'
    BY <1>0, <2>r DEF ControllerOK
  <2>6. InterruptsOK'
    BY <1>0, <1>5, <1>t, <2>r DEF InterruptsOK, Owed, TypeOK
  <2> QED
    BY <1>2, <2>3, <2>4, <2>5, <2>6
<1> QED
  BY <1>3, <1>4, <1>6

LEMMA NextStep == IInv /\ [Next]_vars => IInv'
PROOF
<1> SUFFICES ASSUME IInv, [Next]_vars PROVE IInv'
  OBVIOUS
<1>1. CASE UNCHANGED vars
  BY <1>1 DEF IInv, TypeOK, CallOK, RegOK, ControllerOK, InterruptsOK, Owed, Waiting, Booting,
              vars, hardware
<1>2. CASE Boot
  BY <1>2, CheckDevicesStep, IdentifyStep, IdentifiedStep DEF Boot
<1>3. CASE Interrupt \/ SpuriousInterrupt \/ Device
  BY <1>3, HandlerStep, DeviceStep
<1>4. ASSUME NEW t \in Threads, Step(t) \/ Acquire(t)
      PROVE  IInv'
  BY <1>4, AcquireStep, SelectStep, IssueStep, WaitStep, InputStep, OutputStep, ReleaseStep
     DEF Step
<1>5. ASSUME NEW t \in Threads, NEW op \in {"read", "write"}, NEW d \in Disks,
             NEW s \in Sectors, NEW v \in Values, Call(t, op, d, s, v)
      PROVE  IInv'
  BY <1>5, CallStep
<1> QED
  BY <1>1, <1>2, <1>3, <1>4, <1>5 DEF Next

LEMMA DiskInduction == Spec => []IInv
PROOF
  BY InitIInv, NextStep, PTL DEF Spec

(***************************************************************************)
(* For any number of threads and of spurious interrupts: no interrupt is   *)
(* taken for the end of a later command, but those that are spurious, and  *)
(* disk_read() and disk_write() leave the channel as they found it.        *)
(***************************************************************************)
THEOREM ChannelCorrect == Spec => []NoStaleCompletion
PROOF
<1>1. ASSUME IInv PROVE NoStaleCompletion
  <2> USE <1>1 DEF IInv
  <2>1. completion_wait <= spurious + 1
    BY DEF InterruptsOK, TypeOK
  <2>2. ASSUME spurious = 0, ~Booting, lock = NULL
        PROVE  completion_wait = 0 /\ ~intrq /\ status = "idle"
    <3>1. \A t \in Threads : c[t].at \notin {"wait", "input", "output"}
      BY <2>2, DiskAssumption DEF CallOK, Booting, InChannel, TypeOK, Calls
    <3>2. ~Waiting
      BY <3>1 DEF Waiting
    <3>3. completion_wait = 0 /\ ~intrq /\ ~Owed
      BY <2>2, <3>2 DEF InterruptsOK, TypeOK
    <3>4. status # "drq"
      BY <3>1 DEF ControllerOK
    <3> QED
      BY <3>3, <3>4 DEF Owed, TypeOK
  <2> QED
    BY <2>1, <2>2 DEF NoStaleCompletion
<1> QED
  BY <1>1, DiskInduction, PTL
-----------------------------------------------------------------------------
(* The refinement.  A call takes effect at Input or at Output; every other *)
(* step asks, replies or is invisible.                                     *)
Request == [t \in Threads |-> Requested(t)]

LEMMA StoredType ==
  ASSUME IInv
  PROVE  Stored \in [Disks -> [Sectors -> Values]]
PROOF
  BY DEF IInv, TypeOK, ControllerOK, Stored

(* The controller's own steps, and those of the handler, are invisible. *)
LEMMA DeviceInvisible ==
  ASSUME IInv, Interrupt \/ SpuriousInterrupt \/ Device
  PROVE  Stored' = Stored /\ Request' = Request
PROOF
<1>1. c' = c
  BY DEF Interrupt, SpuriousInterrupt, Device
<1>2. Request' = Request
  BY <1>1 DEF Request, Requested
<1>3. CASE Interrupt \/ SpuriousInterrupt
  BY <1>2, <1>3 DEF Interrupt, SpuriousInterrupt, hardware, Stored
<1>4. CASE Device
  <2>1. CASE DeviceReads
    BY <1>2, <2>1 DEF IInv, TypeOK, DeviceReads, Stored
  <2>2. CASE DeviceAsks \/ DeviceStores \/ DeviceFails
    BY <1>2, <2>2 DEF DeviceAsks, DeviceStores, DeviceFails, Stored
  <2> QED
    BY <1>4, <2>1, <2>2 DEF Device
<1> QED
  BY <1>2, <1>3, <1>4

(* disk_init() is invisible. *)
LEMMA BootInvisible ==
  ASSUME IInv, IInv', Boot
  PROVE  Stored' = Stored /\ Request' = Request
PROOF
<1>1. /\ c[Main].op \notin {"read", "write"} /\ c'[Main].op \notin {"read", "write"}
      /\ \A u \in Threads : u # Main => c'[u] = c[u]
  <2>1. Booting
    BY DEF Boot, CheckDevices, Identify, Identified, At, Booting
  <2>2. c[Main].op \notin {"read", "write"}
    BY <2>1, DiskAssumption DEF IInv, CallOK
  <2>3. \A u \in Threads : u # Main => c'[u] = c[u]
    BY DEF IInv, TypeOK, Boot, CheckDevices, Identify, Identified
  <2>4. c'[Main].op \notin {"read", "write"}
    <3>1. CASE CheckDevices
      BY <2>2, <3>1, DiskAssumption DEF IInv, TypeOK, Calls, CheckDevices
    <3>2. CASE Identified
      <4>1. c'[Main].at = "identify"
        BY <3>2, DiskAssumption DEF IInv, TypeOK, Calls, Identified, Idle
      <4> QED
        BY <4>1, DiskAssumption DEF IInv, CallOK
    <3>3. CASE Identify
      <4>1. c[Main].op = "none" /\ c[Main] \in Calls
        BY <3>3, DiskAssumption DEF IInv, CallOK, TypeOK, Identify, At
      <4> DEFINE next == [c[Main] EXCEPT !.disk = c[Main].disk + 1]
                 begin == [c[Main] EXCEPT !.at = "select", !.op = "identify"]
      <4>2. c'[Main] \in {Idle, begin, next}
        BY <3>3, DiskAssumption DEF IInv, TypeOK, Identify
      <4>3. Idle.op = "none" /\ begin.op = "identify" /\ next.op = "none"
        <5>1. \A k \in Calls, n \in Nat : [k EXCEPT !.disk = n].op = k.op
          BY DEF Calls
        <5>2. \A k \in Calls : [k EXCEPT !.at = "select", !.op = "identify"].op = "identify"
          BY DEF Calls
        <5>3. c[Main].disk + 1 \in Nat
          BY <4>1 DEF Calls
        <5> QED
          BY <4>1, <5>1, <5>2, <5>3 DEF Idle
      <4> QED
        BY <4>2, <4>3
    <3> QED
      BY <3>1, <3>2, <3>3 DEF Boot
  <2> QED
    BY <2>2, <2>3, <2>4
<1>2. \A u \in Threads : Requested(u)' = Requested(u)
  BY <1>1 DEF Requested
<1>3. Request' = Request
  BY <1>2 DEF Request
<1>4. Stored' = Stored
  BY DEF Boot, CheckDevices, Identify, Identified, hardware, wait_while_busy, Stored
<1> QED
  BY <1>3, <1>4

(* A step of one thread changes no other request. *)
LEMMA OneRequest ==
  ASSUME NEW t \in Threads, \A u \in Threads : u # t => c'[u] = c[u]
  PROVE  Request' = [Request EXCEPT ![t] = Requested(t)']
PROOF
  BY ZenonT(40) DEF Request, Requested

(* The steps of a thread that neither begin, perform nor end a call. *)
LEMMA ThreadInvisible ==
  ASSUME IInv, NEW t \in Threads,
         Acquire(t) \/ Select(t) \/ issue_pio_command(t) \/ Wait(t)
  PROVE  Stored' = Stored /\ Request' = Request
PROOF
<1> USE DEF IInv, hardware
<1>1. PICK place \in Places :
        /\ Goto(t, place)
        /\ place = "release" => c[t].op = "write" /\ c[t].at = "wait"
        /\ place = "wait" => c[t].op # "write"
        /\ c[t].at # "release" /\ (c[t].op = "write" /\ c[t].at = "wait" => place = "release")
  BY DEF Acquire, Select, issue_pio_command, Wait, At, Places
<1>2. /\ c'[t].at = place /\ c'[t].op = c[t].op /\ c'[t].disk = c[t].disk
      /\ c'[t].sector = c[t].sector /\ c'[t].value = c[t].value
      /\ \A u \in Threads : u # t => c'[u] = c[u]
  BY <1>1, GotoCalls
<1>4. Requested(t)' = Requested(t)
  BY <1>1, <1>2 DEF Requested
<1>5. Request' = Request
  BY <1>2, <1>4 DEF Request, Requested
<1>6. Stored' = Stored
  <2>1. CASE issue_pio_command(t)
    <3>1. status = "idle" /\ reg'.command # "store" /\ medium' = medium
      BY <2>1 DEF RegOK, TypeOK, Calls, issue_pio_command, At
    <3> QED
      BY <3>1 DEF Stored
  <2>2. CASE Acquire(t) \/ Select(t) \/ Wait(t)
    BY <2>2 DEF Acquire, Select, Wait, wait_until_idle, Stored
  <2> QED
    BY <2>1, <2>2
<1> QED
  BY <1>5, <1>6

LEMMA CallAsks ==
  ASSUME IInv, NEW t \in Threads, NEW op \in {"read", "write"}, NEW d \in Disks,
         NEW s \in Sectors, NEW v \in Values, Call(t, op, d, s, v)
  PROVE  Atomic!Next
PROOF
<1> DEFINE ask == [op |-> op, disk |-> d, sector |-> s, value |-> v]
<1>1. Request[t] = Atomic!Quiet
  BY DEF Request, Requested, Call, At, IInv, CallOK, TypeOK, Calls, InChannel, Atomic!Quiet
<1>2. Requested(t)' = Atomic!Pending(ask)
  BY DEF IInv, TypeOK, Call, Requested, Atomic!Pending
<1>3. Request' = [Request EXCEPT ![t] = Atomic!Pending(ask)]
  <2>1. \A u \in Threads : u # t => c'[u] = c[u]
    BY DEF Call, IInv, TypeOK
  <2> QED
    BY <1>2, <2>1, OneRequest
<1>4. Stored' = Stored
  BY DEF Call, hardware, Stored
<1>5. Atomic!Ask(t, ask)
  BY <1>1, <1>3, <1>4 DEF Atomic!Ask, Request
<1>6. ask \in Atomic!Asked
  BY DEF Atomic!Asked
<1> QED
  BY <1>5, <1>6 DEF Atomic!Next

LEMMA InputReads ==
  ASSUME IInv, NEW t \in Threads, Input(t)
  PROVE  Atomic!Next \/ (Stored' = Stored /\ Request' = Request)
PROOF
<1>1. c[t].at = "input" /\ c[t].op = "read"
  BY DEF Input, At
<1>2. CASE status # "drq"
  BY <1>2 DEF Input, Stored, Request, Requested
<1>3. CASE status = "drq"
  <2> DEFINE ask == [op |-> "read", disk |-> c[t].disk, sector |-> c[t].sector,
                     value |-> c[t].value]
             got == [op |-> "read", disk |-> c[t].disk, sector |-> c[t].sector,
                     value |-> reg.data]
  <2>1. ask \in Atomic!Asked
    BY <1>1 DEF IInv, CallOK, Atomic!Asked
  <2>2. Stored = medium /\ Stored' = medium
    BY <1>3 DEF Input, Stored
  <2>3. Request[t] = Atomic!Pending(ask)
    BY <1>1 DEF Request, Requested, Atomic!Pending
  <2>4. reg.data = Stored[ask.disk][ask.sector]
    BY <1>1, <1>3, <2>2 DEF IInv, RegOK, ControllerOK
  <2>5. got = [ask EXCEPT !.value = Stored[ask.disk][ask.sector]]
    BY <2>4
  <2>6. Requested(t)' = Atomic!Answer(got)
    BY <1>1, <1>3 DEF Input, IInv, TypeOK, Calls, Requested, Atomic!Answer
  <2>7. \A u \in Threads : u # t => c'[u] = c[u]
    BY <1>3 DEF Input, IInv, TypeOK
  <2>8. Request' = [Request EXCEPT ![t] = Atomic!Answer(got)]
    BY <2>6, <2>7, OneRequest
  <2>9. Atomic!Read(t, ask)
    <3>1. ask.op = "read"
      OBVIOUS
    <3> QED
      BY <2>2, <2>3, <2>5, <2>8, <3>1 DEF Atomic!Read, Request
  <2> QED
    BY <2>1, <2>9 DEF Atomic!Next
<1> QED
  BY <1>2, <1>3

LEMMA OutputWrites ==
  ASSUME IInv, NEW t \in Threads, Output(t)
  PROVE  Atomic!Next \/ (Stored' = Stored /\ Request' = Request)
PROOF
<1>1. c[t].at = "output" /\ c[t].op = "write"
  BY DEF Output, At, IInv, CallOK, TypeOK, Calls
<1>2. CASE status # "drq"
  BY <1>2 DEF Output, Stored, Request, Requested
<1>3. CASE status = "drq"
  <2> DEFINE ask == [op |-> "write", disk |-> c[t].disk, sector |-> c[t].sector,
                     value |-> c[t].value]
  <2>1. ask \in Atomic!Asked
    BY <1>1 DEF IInv, CallOK, Atomic!Asked
  <2>2. Stored = medium
    BY <1>3 DEF Stored
  <2>3. Request[t] = Atomic!Pending(ask)
    BY <1>1 DEF Request, Requested, Atomic!Pending
  <2>4. Stored' = [medium EXCEPT ![ask.disk][ask.sector] = ask.value]
    <3>1. reg.dev = c[t].disk /\ reg.sector = c[t].sector
      BY <1>1 DEF IInv, RegOK
    <3>2. /\ reg'.dev = reg.dev /\ reg'.sector = reg.sector /\ reg'.command = "store"
          /\ reg'.data = c[t].value /\ status' = "busy" /\ medium' = medium
      BY <1>3 DEF Output, IInv, TypeOK
    <3> QED
      BY <3>1, <3>2 DEF Stored
  <2>5. Goto(t, "wait")
    BY <1>3 DEF Output
  <2>6. /\ c'[t].at = "wait" /\ c'[t].op = "write" /\ c'[t].disk = c[t].disk
        /\ c'[t].sector = c[t].sector /\ c'[t].value = c[t].value
        /\ \A u \in Threads : u # t => c'[u] = c[u]
    BY <1>1, <2>5, GotoCalls DEF IInv, Places
  <2>7. Requested(t)' = Atomic!Answer(ask)
    BY <2>6 DEF Requested, Atomic!Answer
  <2>8. Request' = [Request EXCEPT ![t] = Atomic!Answer(ask)]
    BY <2>6, <2>7, OneRequest
  <2>9. Atomic!Write(t, ask)
    <3>1. ask.op = "write"
      OBVIOUS
    <3> QED
      BY <2>2, <2>3, <2>4, <2>8, <3>1 DEF Atomic!Write, Request
  <2> QED
    BY <2>1, <2>9 DEF Atomic!Next
<1> QED
  BY <1>2, <1>3

LEMMA ReleaseReplies ==
  ASSUME IInv, NEW t \in Threads, Release(t)
  PROVE  Atomic!Next
PROOF
<1> DEFINE ask == [op |-> c[t].op, disk |-> c[t].disk, sector |-> c[t].sector,
                   value |-> c[t].value]
<1>1. c[t].at = "release" /\ c[t].op \in {"read", "write"}
  BY DEF Release, At, IInv, CallOK, TypeOK, Calls
<1>2. ask \in Atomic!Asked
  BY <1>1 DEF IInv, CallOK, Atomic!Asked
<1>3. Request[t] = Atomic!Answer(ask)
  BY <1>1 DEF Request, Requested, Atomic!Answer
<1>4. c'[t].op = "none" /\ \A u \in Threads : u # t => c'[u] = c[u]
  BY DEF Release, IInv, TypeOK, Idle
<1>5. Requested(t)' = Atomic!Quiet
  BY <1>4 DEF Requested, Atomic!Quiet
<1>6. Request' = [Request EXCEPT ![t] = Atomic!Quiet]
  BY <1>4, <1>5, OneRequest
<1>7. Stored' = Stored
  BY DEF Release, hardware, Stored
<1>8. Atomic!Reply(t, ask)
  BY <1>3, <1>6, <1>7 DEF Atomic!Reply, Request
<1> QED
  BY <1>2, <1>8 DEF Atomic!Next

LEMMA NextRefines ==
  ASSUME IInv, IInv', [Next]_vars
  PROVE  [Atomic!Next]_<<Stored, Request>>
PROOF
<1>1. CASE UNCHANGED vars
  BY <1>1 DEF vars, hardware, Stored, Request, Requested
<1>2. CASE Boot
  BY <1>2, BootInvisible
<1>3. CASE Interrupt \/ SpuriousInterrupt \/ Device
  BY <1>3, DeviceInvisible
<1>4. ASSUME NEW t \in Threads, Step(t) \/ Acquire(t)
      PROVE  [Atomic!Next]_<<Stored, Request>>
  BY <1>4, ThreadInvisible, InputReads, OutputWrites, ReleaseReplies DEF Step
<1>5. ASSUME NEW t \in Threads, NEW op \in {"read", "write"}, NEW d \in Disks,
             NEW s \in Sectors, NEW v \in Values, Call(t, op, d, s, v)
      PROVE  [Atomic!Next]_<<Stored, Request>>
  BY <1>5, CallAsks
<1> QED
  BY <1>1, <1>2, <1>3, <1>4, <1>5 DEF Next

(***************************************************************************)
(* For any number of threads, sectors, values and spurious interrupts: the *)
(* driver implements disks that are read and written atomically, as the    *)
(* comment on disk_read() and disk_write() promises.                       *)
(***************************************************************************)
THEOREM DiskRefinement == Spec => ImplementsDiskSpec
PROOF
<1>1. Init => Atomic!Init
  <2> SUFFICES ASSUME Init PROVE Atomic!Init
    OBVIOUS
  <2>1. Stored \in [Disks -> [Sectors -> Values]]
    BY DEF Init, Stored
  <2>2. \A t \in Threads : c[t].op = "none"
    BY DEF Init, Idle
  <2>3. Request = [t \in Threads |-> Atomic!Quiet]
    BY <2>2 DEF Request, Requested, Atomic!Quiet
  <2> QED
    BY <2>1, <2>3 DEF Atomic!Init, Request
<1>2. IInv /\ IInv' /\ [Next]_vars => [Atomic!Next]_<<Stored, [t \in Threads |-> Requested(t)]>>
  BY NextRefines DEF Request
<1> QED
  BY <1>1, <1>2, DiskInduction, PTL DEF Spec, ImplementsDiskSpec, Atomic!Spec

-----------------------------------------------------------------------------
(***************************************************************************)
(* The terminal.  TtyInv is inductive.  Of the two halves of the state,    *)
(* the readers' and the writers', each says who has the lock of its queue, *)
(* who is blocked on it and why, and the writers' also what the thread in  *)
(* a call of putbuf() has left to write and that it wrote last.            *)
(***************************************************************************)
Bytes == Writers \cup OtherBytes
Rings == [buf : [Positions -> Bytes \cup {NULL}], head : Positions, tail : Positions,
          lock : Users \cup {NULL}, not_full : Users \cup {NULL},
          not_empty : Users \cup {NULL}]
TtyCalls == [at : {"idle", "putc", "lock", "blocked", "woken"}, left : Seq(Nat)]

(* The variables hold what their C types and their uses allow. *)
TtyType ==
  /\ buffer \in Rings /\ Contents(buffer) \in Seq(Bytes)
  /\ txq \in Rings /\ Contents(txq) \in Seq(Bytes)
  /\ rbr \in Bytes \cup {NULL} /\ thr \in Bytes \cup {NULL}
  /\ console_lock \in Writers \cup {NULL} /\ console_lock_depth \in Nat
  /\ c \in [Users -> TtyCalls] /\ halted \in BOOLEAN
  /\ typed \in Seq(Bytes) /\ taken \in Seq(Bytes)
  /\ written \in Seq(Bytes) /\ sent \in Seq(Bytes)

(* Readers: who has the lock of the queue blocks on it, or has been woken. *)
ReadersOK ==
  /\ buffer.not_full = NULL /\ buffer.not_empty \in Readers \cup {NULL}
  /\ \A t \in Readers :
       /\ c[t].at # "putc"
       /\ buffer.lock = t <=> c[t].at \in {"blocked", "woken"}
       /\ buffer.not_empty = t <=> c[t].at = "blocked"
       /\ c[t].at = "blocked" => intq_empty(buffer)

(* Writers: one at a time is in a call, has the console and may block. *)
Writing(t) ==
  /\ console_lock = t
  /\ c[t].left # <<>> /\ console_lock_depth = Len(c[t].left) - 1
  /\ c[t].at \in {"blocked", "woken"} => Head(c[t].left) > 0
  /\ c[t].at = "blocked" => intq_full(txq)
  /\ c[t].left[Len(c[t].left)] < CallSize => WroteLast(t)

WritersOK ==
  /\ txq.not_empty = NULL /\ txq.not_full \in Writers \cup {NULL}
  /\ console_lock = NULL => console_lock_depth = 0
  /\ \A t \in Writers :
       /\ c[t].at # "lock"
       /\ txq.not_full = t <=> c[t].at = "blocked"
       /\ c[t].at = "idle" => console_lock # t
       /\ c[t].at # "idle" => Writing(t)

(* The UART may interrupt when there is something to do for it. *)
IerOK == mode = "QUEUE" => ier = write_ier(buffer, txq)

(* Before there are interrupts nothing is queued. *)
PollOK ==
  mode # "QUEUE" => intq_empty(txq) /\ \A t \in Writers : c[t].at = "idle"

TtyInv ==
  /\ TtyType /\ InOrder
  /\ halted \/ (ReadersOK /\ WritersOK /\ IerOK /\ PollOK)

-----------------------------------------------------------------------------
(* Arithmetic on a ring. *)

LEMMA Wrap ==
  ASSUME NEW x \in Positions, NEW y \in Positions
  PROVE  /\ Succ(x) = IF x = INTQ_BUFSIZE - 1 THEN 0 ELSE x + 1
         /\ (x - y) % INTQ_BUFSIZE = IF x >= y THEN x - y ELSE x - y + INTQ_BUFSIZE
         /\ (x + y) % INTQ_BUFSIZE = IF x + y < INTQ_BUFSIZE THEN x + y
                                                             ELSE x + y - INTQ_BUFSIZE
PROOF
<1>1. INTQ_BUFSIZE \in Nat /\ INTQ_BUFSIZE > 1 /\ x \in 0 .. INTQ_BUFSIZE - 1
      /\ y \in 0 .. INTQ_BUFSIZE - 1
  BY TerminalAssumption DEF Positions
<1>2. (x + 1) % INTQ_BUFSIZE = IF x = INTQ_BUFSIZE - 1 THEN 0 ELSE x + 1
  BY <1>1
<1>3. (x - y) % INTQ_BUFSIZE = IF x >= y THEN x - y ELSE x - y + INTQ_BUFSIZE
  BY <1>1
<1>4. (x + y) % INTQ_BUFSIZE = IF x + y < INTQ_BUFSIZE THEN x + y ELSE x + y - INTQ_BUFSIZE
  BY <1>1
<1> QED
  BY <1>2, <1>3, <1>4 DEF Succ

(* The number of bytes in a queue, and where the i-th is. *)
Used(q) == (q.head - q.tail) % INTQ_BUFSIZE
Slot(q, i) == (q.tail + i - 1) % INTQ_BUFSIZE

LEMMA RingFacts ==
  ASSUME NEW q \in Rings
  PROVE  /\ INTQ_BUFSIZE \in Nat /\ INTQ_BUFSIZE > 1
         /\ q.head \in Positions /\ q.tail \in Positions
         /\ Used(q) = IF q.head >= q.tail THEN q.head - q.tail
                                          ELSE q.head - q.tail + INTQ_BUFSIZE
         /\ Used(q) \in 0 .. INTQ_BUFSIZE - 1
         /\ intq_empty(q) <=> Used(q) = 0
         /\ intq_full(q) <=> Used(q) = INTQ_BUFSIZE - 1
         /\ \A i \in 1 .. INTQ_BUFSIZE :
              /\ Slot(q, i) = IF q.tail + i - 1 < INTQ_BUFSIZE THEN q.tail + i - 1
                                                               ELSE q.tail + i - 1 - INTQ_BUFSIZE
              /\ Slot(q, i) \in Positions
         /\ Contents(q) = [i \in 1 .. Used(q) |-> q.buf[Slot(q, i)]]
PROOF
<1>1. INTQ_BUFSIZE \in Nat /\ INTQ_BUFSIZE > 1
  BY TerminalAssumption
<1>2. q.head \in Positions /\ q.tail \in Positions
  BY DEF Rings
<1>3. q.head \in 0 .. INTQ_BUFSIZE - 1 /\ q.tail \in 0 .. INTQ_BUFSIZE - 1
  BY <1>2 DEF Positions
<1>4. Used(q) = IF q.head >= q.tail THEN q.head - q.tail ELSE q.head - q.tail + INTQ_BUFSIZE
  BY <1>2, Wrap DEF Used
<1>5. Used(q) \in 0 .. INTQ_BUFSIZE - 1
  BY <1>1, <1>3, <1>4
<1>6. intq_empty(q) <=> Used(q) = 0
  BY <1>1, <1>3, <1>4 DEF intq_empty
<1>7. intq_full(q) <=> Used(q) = INTQ_BUFSIZE - 1
  <2>1. Succ(q.head) = IF q.head = INTQ_BUFSIZE - 1 THEN 0 ELSE q.head + 1
    BY <1>2, Wrap
  <2> QED
    BY <1>1, <1>3, <1>4, <2>1 DEF intq_full
<1>8. ASSUME NEW i \in 1 .. INTQ_BUFSIZE
      PROVE  /\ Slot(q, i) = IF q.tail + i - 1 < INTQ_BUFSIZE THEN q.tail + i - 1
                                                              ELSE q.tail + i - 1 - INTQ_BUFSIZE
             /\ Slot(q, i) \in Positions
  <2>1. PICK j \in Positions : j = i - 1
    BY <1>1 DEF Positions
  <2>2. Slot(q, i) = (q.tail + j) % INTQ_BUFSIZE
    BY <1>3, <2>1 DEF Slot
  <2>3. (q.tail + j) % INTQ_BUFSIZE = IF q.tail + j < INTQ_BUFSIZE THEN q.tail + j
                                      ELSE q.tail + j - INTQ_BUFSIZE
    BY <1>2, Wrap
  <2> QED
    BY <1>1, <1>3, <2>1, <2>2, <2>3 DEF Positions
<1>9. Contents(q) = [i \in 1 .. Used(q) |-> q.buf[Slot(q, i)]]
  BY DEF Contents, Used, Slot
<1> QED
  BY <1>1, <1>2, <1>4, <1>5, <1>6, <1>7, <1>8, <1>9

(* Who waits and who has the lock does not matter to the contents. *)
LEMMA RingSame ==
  ASSUME NEW q, NEW r, q.buf = r.buf, q.head = r.head, q.tail = r.tail
  PROVE  /\ Contents(q) = Contents(r)
         /\ intq_empty(q) <=> intq_empty(r)
         /\ intq_full(q) <=> intq_full(r)
PROOF
  BY DEF Contents, intq_empty, intq_full

LEMMA PutcFields ==
  ASSUME NEW q \in Rings, NEW b \in Bytes
  PROVE  /\ Putc(q, b) \in Rings /\ Putc(q, b).head = Succ(q.head)
         /\ Putc(q, b).tail = q.tail /\ Putc(q, b).buf = [q.buf EXCEPT ![q.head] = b]
         /\ Putc(q, b).lock = q.lock /\ Putc(q, b).not_full = q.not_full
         /\ Putc(q, b).not_empty = NULL
PROOF
<1>1. q.head \in Positions /\ Succ(q.head) \in Positions
  <2>1. q.head \in Positions
    BY DEF Rings
  <2>2. INTQ_BUFSIZE \in Nat /\ INTQ_BUFSIZE > 1
    BY TerminalAssumption
  <2>3. Succ(q.head) = IF q.head = INTQ_BUFSIZE - 1 THEN 0 ELSE q.head + 1
    BY <2>1, Wrap
  <2> QED
    BY <2>1, <2>2, <2>3 DEF Positions
<1>2. Putc(q, b) = [q EXCEPT !.head = Succ(q.head), !.buf = [q.buf EXCEPT ![q.head] = b],
                             !.not_empty = NULL]
  BY DEF Putc, Rings
<1>3. [q.buf EXCEPT ![q.head] = b] \in [Positions -> Bytes \cup {NULL}]
  BY <1>1 DEF Rings
<1> DEFINE h == Succ(q.head)  f == [q.buf EXCEPT ![q.head] = b]
<1>4. h \in Positions /\ f \in [Positions -> Bytes \cup {NULL}]
      /\ Putc(q, b) = [q EXCEPT !.head = h, !.buf = f, !.not_empty = NULL]
  BY <1>1, <1>2, <1>3
<1> HIDE DEF h, f
<1>5. /\ Putc(q, b) \in Rings /\ Putc(q, b).head = h
      /\ Putc(q, b).tail = q.tail /\ Putc(q, b).buf = f
      /\ Putc(q, b).lock = q.lock /\ Putc(q, b).not_full = q.not_full
      /\ Putc(q, b).not_empty = NULL
  BY <1>4 DEF Rings
<1> QED
  BY <1>5 DEF h, f

LEMMA GetcFields ==
  ASSUME NEW q \in Rings
  PROVE  /\ Getc(q) \in Rings /\ Getc(q).tail = Succ(q.tail)
         /\ Getc(q).head = q.head /\ Getc(q).buf = [q.buf EXCEPT ![q.tail] = NULL]
         /\ Getc(q).lock = q.lock /\ Getc(q).not_empty = q.not_empty
         /\ Getc(q).not_full = NULL
PROOF
<1>1. q.tail \in Positions /\ Succ(q.tail) \in Positions
  <2>1. q.tail \in Positions
    BY DEF Rings
  <2>2. INTQ_BUFSIZE \in Nat /\ INTQ_BUFSIZE > 1
    BY TerminalAssumption
  <2>3. Succ(q.tail) = IF q.tail = INTQ_BUFSIZE - 1 THEN 0 ELSE q.tail + 1
    BY <2>1, Wrap
  <2> QED
    BY <2>1, <2>2, <2>3 DEF Positions
<1>2. Getc(q) = [q EXCEPT !.tail = Succ(q.tail), !.buf = [q.buf EXCEPT ![q.tail] = NULL],
                          !.not_full = NULL]
  BY DEF Getc, Rings
<1> DEFINE h == Succ(q.tail)  f == [q.buf EXCEPT ![q.tail] = NULL]
<1>3. f \in [Positions -> Bytes \cup {NULL}]
  BY <1>1 DEF Rings
<1>4. h \in Positions /\ Getc(q) = [q EXCEPT !.tail = h, !.buf = f, !.not_full = NULL]
  BY <1>1, <1>2
<1> HIDE DEF h, f
<1>5. /\ Getc(q) \in Rings /\ Getc(q).tail = h
      /\ Getc(q).head = q.head /\ Getc(q).buf = f
      /\ Getc(q).lock = q.lock /\ Getc(q).not_empty = q.not_empty
      /\ Getc(q).not_full = NULL
  BY <1>3, <1>4 DEF Rings
<1> QED
  BY <1>5 DEF h, f

(* intq_putc() adds a byte at the end. *)
LEMMA PutcContents ==
  ASSUME NEW q \in Rings, Contents(q) \in Seq(Bytes), NEW b \in Bytes,
         ~intq_full(q)
  PROVE  /\ Contents(Putc(q, b)) = Append(Contents(q), b)
         /\ ~intq_empty(Putc(q, b))
PROOF
<1> DEFINE N == INTQ_BUFSIZE
<1>1. PICK r \in Rings : r = Putc(q, b)
  BY PutcFields
<1>2. r.head = Succ(q.head) /\ r.tail = q.tail /\ r.buf = [q.buf EXCEPT ![q.head] = b]
  BY <1>1, PutcFields
<1>3. PICK h \in 0 .. N - 1, t \in 0 .. N - 1 : h = q.head /\ t = q.tail
  BY RingFacts DEF Positions
<1>4. N \in Nat /\ N > 1
  BY RingFacts
<1>5. Used(q) = (IF h >= t THEN h - t ELSE h - t + N) /\ Used(q) # N - 1 /\ Used(q) \in 0 .. N - 1
  BY <1>3, RingFacts
<1>6. r.head = IF h = N - 1 THEN 0 ELSE h + 1
  BY <1>2, <1>3, Wrap DEF Positions
<1>7. Used(r) = IF r.head >= t THEN r.head - t ELSE r.head - t + N
  BY <1>2, <1>3, RingFacts
<1>8. Used(r) = Used(q) + 1
  BY <1>3, <1>4, <1>5, <1>6, <1>7, SMTT(30)
<1>9. \A i \in 1 .. N : /\ Slot(r, i) = Slot(q, i)
                        /\ Slot(q, i) = IF t + i - 1 < N THEN t + i - 1 ELSE t + i - 1 - N
  BY <1>2, <1>3, RingFacts DEF Slot
<1>10. q.buf \in [Positions -> Bytes \cup {NULL}] /\ q.head \in Positions
  BY DEF Rings
<1>11. ASSUME NEW i \in 1 .. Used(q) PROVE r.buf[Slot(r, i)] = q.buf[Slot(q, i)]
  <2>1. i \in 1 .. N
    BY <1>4, <1>5
  <2>2. Slot(q, i) # h
    <3>1. Slot(q, i) = IF t + i - 1 < N THEN t + i - 1 ELSE t + i - 1 - N
      BY <1>9, <2>1
    <3>2. PICK u \in 0 .. N - 1 : u = Used(q)
      BY <1>5
    <3> QED
      BY <1>3, <1>4, <1>5, <3>1, <3>2
  <2>3. Slot(q, i) \in Positions
    BY <2>1, RingFacts
  <2> QED
    BY <1>2, <1>3, <1>9, <1>10, <2>1, <2>2, <2>3
<1>12. r.buf[Slot(r, Used(q) + 1)] = b
  <2>1. Used(q) + 1 \in 1 .. N
    BY <1>4, <1>5
  <2>2. Slot(r, Used(q) + 1) = h
    <3>1. PICK u \in 0 .. N - 1 : u = Used(q)
      BY <1>5
    <3>2. Slot(r, u + 1) = IF t + u < N THEN t + u ELSE t + u - N
      BY <1>3, <1>4, <1>9, <2>1, <3>1
    <3> QED
      BY <1>3, <1>4, <1>5, <3>1, <3>2, SMTT(30)
  <2> QED
    BY <1>2, <1>3, <1>10, <2>2
<1>13. /\ Contents(q) = [i \in 1 .. Used(q) |-> q.buf[Slot(q, i)]]
       /\ Contents(r) = [i \in 1 .. Used(r) |-> r.buf[Slot(r, i)]]
  BY RingFacts
<1>14. Contents(r) = Append(Contents(q), b)
  <2> DEFINE u == Used(q)
             f == [i \in 1 .. u |-> q.buf[Slot(q, i)]]
             g == [i \in 1 .. u + 1 |-> r.buf[Slot(r, i)]]
  <2>1. Contents(q) = f /\ Contents(r) = g /\ u \in Nat /\ f \in Seq(Bytes)
    BY <1>4, <1>5, <1>8, <1>13
  <2>2. \A i \in 1 .. u : g[i] = f[i]
    BY <1>4, <1>5, <1>11
  <2>3. g[u + 1] = b
    BY <1>4, <1>5, <1>12
  <2>4. DOMAIN f = 1 .. u /\ DOMAIN g = 1 .. u + 1 /\ g = [i \in 1 .. u + 1 |-> g[i]]
    OBVIOUS
  <2>5. f \in Seq(Bytes)
    BY <2>1
  <2>6. u \in Nat
    BY <2>1
  <2> HIDE DEF u, f, g
  <2>7. Len(f) = u
    BY <2>4, <2>5, <2>6
  <2>8. g \in Seq(Bytes) /\ Len(g) = u + 1
    <3>1. \A i \in 1 .. u + 1 : g[i] \in Bytes
      BY <2>2, <2>3, <2>5, <2>6, <2>7
    <3> QED
      BY <2>4, <2>6, <3>1, SMTT(30)
  <2>9. Append(f, b) \in Seq(Bytes) /\ Len(Append(f, b)) = u + 1
    BY <2>5, <2>7
  <2>10. \A i \in 1 .. u + 1 : g[i] = Append(f, b)[i]
    BY <2>2, <2>3, <2>5, <2>6, <2>7
  <2>11. g = Append(f, b)
    BY <2>8, <2>9, <2>10, SeqEqual
  <2> QED
    BY <2>1, <2>11
<1>15. ~intq_empty(r)
  BY <1>4, <1>5, <1>8, RingFacts
<1> QED
  BY <1>1, <1>14, <1>15

(* intq_getc() takes the first one. *)
LEMMA GetcContents ==
  ASSUME NEW q \in Rings, Contents(q) \in Seq(Bytes), ~intq_empty(q)
  PROVE  /\ Oldest(q) \in Bytes /\ Contents(Getc(q)) \in Seq(Bytes)
         /\ Contents(q) = <<Oldest(q)>> \o Contents(Getc(q))
         /\ ~intq_full(Getc(q))
PROOF
<1> DEFINE N == INTQ_BUFSIZE
<1>1. PICK r \in Rings : r = Getc(q)
  BY GetcFields
<1>2. r.tail = Succ(q.tail) /\ r.head = q.head /\ r.buf = [q.buf EXCEPT ![q.tail] = NULL]
  BY <1>1, GetcFields
<1>3. PICK h \in 0 .. N - 1, t \in 0 .. N - 1 : h = q.head /\ t = q.tail
  BY RingFacts DEF Positions
<1>4. N \in Nat /\ N > 1
  BY RingFacts
<1>5. Used(q) = (IF h >= t THEN h - t ELSE h - t + N) /\ Used(q) # 0 /\ Used(q) \in 0 .. N - 1
  BY <1>3, RingFacts
<1>6. r.tail = IF t = N - 1 THEN 0 ELSE t + 1
  BY <1>2, <1>3, Wrap DEF Positions
<1>7. Used(r) = IF h >= r.tail THEN h - r.tail ELSE h - r.tail + N
  BY <1>2, <1>3, RingFacts
<1>8. Used(q) = Used(r) + 1 /\ Used(r) \in 0 .. N - 1
  <2>1. Used(r) \in 0 .. N - 1
    BY RingFacts
  <2> QED
    BY <1>3, <1>4, <1>5, <1>6, <1>7, <2>1, SMTT(30)
<1>9. \A i \in 1 .. N :
        /\ Slot(r, i) = IF r.tail + i - 1 < N THEN r.tail + i - 1 ELSE r.tail + i - 1 - N
        /\ Slot(q, i) = IF t + i - 1 < N THEN t + i - 1 ELSE t + i - 1 - N
  BY <1>3, RingFacts
<1>10. q.buf \in [Positions -> Bytes \cup {NULL}] /\ q.tail \in Positions
  BY DEF Rings
<1>11. ASSUME NEW i \in 1 .. Used(r) PROVE r.buf[Slot(r, i)] = q.buf[Slot(q, i + 1)]
  <2>1. i \in 1 .. N /\ i + 1 \in 1 .. N
    BY <1>4, <1>5, <1>8
  <2>2. Slot(r, i) = Slot(q, i + 1) /\ Slot(r, i) # t
    <3>1. Slot(r, i) = IF r.tail + i - 1 < N THEN r.tail + i - 1 ELSE r.tail + i - 1 - N
      BY <1>9, <2>1
    <3>2. Slot(q, i + 1) = IF t + i < N THEN t + i ELSE t + i - N
      BY <1>3, <1>4, <1>9, <2>1
    <3>3. r.tail \in 0 .. N - 1 /\ i < N
      BY <1>3, <1>4, <1>5, <1>6, <1>8
    <3>4. Slot(r, i) = Slot(q, i + 1)
      BY <1>3, <1>4, <1>6, <2>1, <3>1, <3>2, <3>3
    <3>5. Slot(q, i + 1) # t
      BY <1>3, <1>4, <2>1, <3>2, <3>3
    <3> QED
      BY <3>4, <3>5
  <2>3. Slot(q, i + 1) \in Positions
    BY <2>1, RingFacts
  <2> QED
    BY <1>2, <1>3, <1>10, <2>2, <2>3
<1>12. Oldest(q) = q.buf[Slot(q, 1)]
  BY <1>3, <1>4, <1>9 DEF Oldest
<1>13. /\ Contents(q) = [i \in 1 .. Used(q) |-> q.buf[Slot(q, i)]]
       /\ Contents(r) = [i \in 1 .. Used(r) |-> r.buf[Slot(r, i)]]
  BY RingFacts
<1>14. /\ Oldest(q) \in Bytes /\ Contents(r) \in Seq(Bytes)
       /\ Contents(q) = <<Oldest(q)>> \o Contents(r)
  <2> DEFINE u == Used(r)
             f == [i \in 1 .. u + 1 |-> q.buf[Slot(q, i)]]
             g == [i \in 1 .. u |-> r.buf[Slot(r, i)]]
             o == q.buf[Slot(q, 1)]
  <2>1. Contents(q) = f /\ Contents(r) = g /\ u \in Nat
    BY <1>4, <1>5, <1>8, <1>13
  <2>2. f \in Seq(Bytes)
    BY <2>1
  <2>3. u \in Nat
    BY <2>1
  <2>4. \A i \in 1 .. u : g[i] = f[i + 1]
    BY <1>11, <2>3
  <2>5. f[1] = o
    BY <2>3
  <2>6. DOMAIN f = 1 .. u + 1 /\ g = [i \in 1 .. u |-> g[i]]
    OBVIOUS
  <2>7. o = Oldest(q)
    BY <1>12
  <2> HIDE DEF u, f, g, o
  <2>8. Len(f) = u + 1 /\ \A i \in 1 .. u + 1 : f[i] \in Bytes
    BY <2>2, <2>3, <2>6
  <2>9. o \in Bytes
    BY <2>3, <2>5, <2>8
  <2>10. g \in Seq(Bytes) /\ Len(g) = u
    BY <2>3, <2>4, <2>6, <2>8, SMTT(30)
  <2>11. f = <<o>> \o g
    <3>1. <<o>> \o g \in Seq(Bytes) /\ Len(<<o>> \o g) = u + 1
      BY <2>3, <2>9, <2>10
    <3>2. \A i \in 1 .. u + 1 : f[i] = (<<o>> \o g)[i]
      <4> TAKE i \in 1 .. u + 1
      <4>1. CASE i = 1
        BY <2>3, <2>5, <2>9, <2>10, <4>1
      <4>2. CASE i # 1
        <5>1. i - 1 \in 1 .. u
          BY <2>3, <4>2
        <5>2. (<<o>> \o g)[i] = g[i - 1]
          BY <2>3, <2>9, <2>10, <4>2, <5>1
        <5>3. f[(i - 1) + 1] = g[i - 1]
          BY <2>4, <5>1
        <5>4. (i - 1) + 1 = i
          BY <2>3
        <5> QED
          BY <5>2, <5>3, <5>4
      <4> QED
        BY <4>1, <4>2
    <3> QED
      BY <2>2, <2>8, <3>1, <3>2, SeqEqual
  <2> QED
    BY <2>1, <2>7, <2>9, <2>10, <2>11
<1>15. ~intq_full(r)
  BY <1>4, <1>5, <1>8, RingFacts
<1> QED
  BY <1>1, <1>14, <1>15

-----------------------------------------------------------------------------
(* The bytes in order. *)

InputOK == taken \o Contents(buffer) = typed
OutputOK == sent \o InThr \o Contents(txq) = written

LEMMA OrderPut ==
  ASSUME NEW S, NEW u \in Seq(S), NEW v \in Seq(S), NEW b \in S
  PROVE  u \o Append(v, b) = Append(u \o v, b)
PROOF
<1>1. Append(v, b) = v \o <<b>> /\ u \o v \in Seq(S) /\ <<b>> \in Seq(S)
  BY AppendIsConcat, ConcatProperties
<1>2. Append(u \o v, b) = (u \o v) \o <<b>>
  BY <1>1, AppendIsConcat
<1> QED
  BY <1>1, <1>2, ConcatAssociative

LEMMA OrderGet ==
  ASSUME NEW S, NEW u \in Seq(S), NEW v \in Seq(S), NEW b \in S
  PROVE  Append(u, b) \o v = u \o (<<b>> \o v)
PROOF
<1>1. Append(u, b) = u \o <<b>> /\ <<b>> \in Seq(S)
  BY AppendIsConcat
<1> QED
  BY <1>1, ConcatAssociative

(* A byte put into the input buffer, and one got from it. *)
LEMMA InputPut ==
  ASSUME TtyType, InputOK, NEW b \in Bytes, ~intq_full(buffer),
         buffer' = Putc(buffer, b), typed' = Append(typed, b), taken' = taken
  PROVE  /\ buffer' \in Rings /\ Contents(buffer') \in Seq(Bytes) /\ typed' \in Seq(Bytes)
         /\ taken' \o Contents(buffer') = typed'
PROOF
<1>1. /\ buffer \in Rings /\ Contents(buffer) \in Seq(Bytes)
      /\ typed \in Seq(Bytes) /\ taken \in Seq(Bytes)
  BY DEF TtyType
<1>2. buffer' \in Rings /\ Contents(buffer') = Append(Contents(buffer), b)
  BY <1>1, PutcFields, PutcContents
<1>3. taken \o Append(Contents(buffer), b) = Append(taken \o Contents(buffer), b)
  BY <1>1, OrderPut
<1> QED
  BY <1>1, <1>2, <1>3 DEF InputOK

LEMMA InputGet ==
  ASSUME TtyType, InputOK, ~intq_empty(buffer), NEW q \in Rings,
         q = Getc(buffer), taken' = Append(taken, Oldest(buffer)), typed' = typed
  PROVE  /\ Contents(q) \in Seq(Bytes) /\ taken' \in Seq(Bytes)
         /\ taken' \o Contents(q) = typed'
PROOF
<1>1. /\ buffer \in Rings /\ Contents(buffer) \in Seq(Bytes) /\ taken \in Seq(Bytes)
  BY DEF TtyType
<1>2. /\ Contents(q) \in Seq(Bytes) /\ Oldest(buffer) \in Bytes
      /\ Contents(buffer) = <<Oldest(buffer)>> \o Contents(q)
  BY <1>1, GetcContents
<1>3. taken' \o Contents(q) = taken \o (<<Oldest(buffer)>> \o Contents(q))
  BY <1>1, <1>2, OrderGet
<1> QED
  BY <1>1, <1>2, <1>3 DEF InputOK

(* The same for the output. *)
LEMMA OutputPut ==
  ASSUME TtyType, OutputOK, NEW b \in Bytes, ~intq_full(txq),
         NEW q \in Rings, q = Putc(txq, b), written' = Append(written, b)
  PROVE  /\ Contents(q) \in Seq(Bytes) /\ written' \in Seq(Bytes)
         /\ sent \o InThr \o Contents(q) = written'
PROOF
<1>1. /\ txq \in Rings /\ Contents(txq) \in Seq(Bytes)
      /\ written \in Seq(Bytes) /\ sent \in Seq(Bytes) /\ InThr \in Seq(Bytes)
  BY DEF TtyType, InThr
<1>2. Contents(q) = Append(Contents(txq), b)
  BY <1>1, PutcContents
<1>3. sent \o InThr \in Seq(Bytes)
  BY <1>1, ConcatProperties
<1>4. (sent \o InThr) \o Append(Contents(txq), b)
        = Append((sent \o InThr) \o Contents(txq), b)
  BY <1>1, <1>3, OrderPut
<1> QED
  BY <1>1, <1>2, <1>4 DEF OutputOK

(* The oldest byte goes to the transmitter, which has sent the one before. *)
LEMMA OutputGet ==
  ASSUME TtyType, OutputOK, ~intq_empty(txq), NEW q \in Rings,
         q = Getc(txq), thr' = Oldest(txq), sent' = sent \o InThr
  PROVE  /\ Contents(q) \in Seq(Bytes) /\ thr' \in Bytes /\ sent' \in Seq(Bytes)
         /\ InThr' = <<thr'>>
         /\ sent' \o InThr' \o Contents(q) = written
PROOF
<1>1. /\ txq \in Rings /\ Contents(txq) \in Seq(Bytes)
      /\ sent \in Seq(Bytes) /\ InThr \in Seq(Bytes)
  BY DEF TtyType, InThr
<1>2. /\ Contents(q) \in Seq(Bytes) /\ Oldest(txq) \in Bytes
      /\ Contents(txq) = <<Oldest(txq)>> \o Contents(q)
  BY <1>1, GetcContents
<1>3. NULL \notin Bytes
  BY TerminalAssumption DEF Bytes, Users
<1>4. InThr' = <<thr'>>
  BY <1>2, <1>3 DEF InThr
<1>5. sent' \in Seq(Bytes) /\ <<thr'>> \in Seq(Bytes)
  BY <1>1, <1>2, ConcatProperties
<1>6. (sent' \o <<thr'>>) \o Contents(q) = sent' \o (<<thr'>> \o Contents(q))
  BY <1>2, <1>5, ConcatAssociative
<1> QED
  BY <1>2, <1>4, <1>5, <1>6 DEF OutputOK

-----------------------------------------------------------------------------
(* Who waits, and who is woken. *)

LEMMA SignalEffect ==
  ASSUME NEW cc \in [Users -> TtyCalls], NEW w \in Users \cup {NULL},
         NULL \notin Users
  PROVE  /\ Signal(cc, w) \in [Users -> TtyCalls]
         /\ \A t \in Users :
              /\ Signal(cc, w)[t].left = cc[t].left
              /\ Signal(cc, w)[t].at = IF t = w THEN "woken" ELSE cc[t].at
PROOF
<1>1. CASE w = NULL
  BY <1>1 DEF Signal
<1>2. CASE w # NULL
  <2>1. Signal(cc, w) = [cc EXCEPT ![w].at = "woken"]
    BY <1>2 DEF Signal
  <2>2. \A r \in TtyCalls : /\ [r EXCEPT !.at = "woken"] \in TtyCalls
                            /\ [r EXCEPT !.at = "woken"].at = "woken"
                            /\ [r EXCEPT !.at = "woken"].left = r.left
    BY DEF TtyCalls
  <2>3. w \in Users
    BY <1>2
  <2> QED
    BY <2>1, <2>2, <2>3
<1> QED
  BY <1>1, <1>2

LEMMA TtyConstants ==
  /\ NULL \notin Users /\ NULL \notin Bytes /\ Readers \cap Writers = {}
  /\ Readers \subseteq Users /\ Writers \subseteq Users
  /\ {"intr", "boot", "panic", "assert", "key", "serial"} \cap Writers = {}
  /\ {"intr", "boot", "panic", "assert", "key", "serial"} \subseteq Bytes
  /\ Writers \subseteq Bytes
PROOF
  BY TerminalAssumption DEF Users, OtherBytes, Bytes

LEMMA WroteLastStays ==
  ASSUME TtyType, NEW t, NEW b \in Bytes, b \notin Writers, written' = Append(written, b),
         WroteLast(t)
  PROVE  WroteLast(t)'
PROOF
<1>1. PICK i \in 1 .. Len(written) :
        written[i] = t /\ \A j \in i + 1 .. Len(written) : written[j] \notin Writers
  BY DEF WroteLast
<1>2. written \in Seq(Bytes)
  BY DEF TtyType
<1>3. /\ Len(written') = Len(written) + 1 /\ written'[Len(written) + 1] = b
      /\ \A j \in 1 .. Len(written) : written'[j] = written[j]
  BY <1>2
<1>4. i \in 1 .. Len(written') /\ written'[i] = t
  BY <1>1, <1>2, <1>3
<1>5. ASSUME NEW j \in i + 1 .. Len(written') PROVE written'[j] \notin Writers
  <2>1. CASE j = Len(written) + 1
    BY <1>3, <2>1
  <2>2. CASE j # Len(written) + 1
    <3>1. j \in i + 1 .. Len(written) /\ j \in 1 .. Len(written)
      BY <1>1, <1>2, <1>3, <2>2
    <3> QED
      BY <1>1, <1>3, <3>1
  <2> QED
    BY <2>1, <2>2
<1> QED
  BY <1>4, <1>5 DEF WroteLast

LEMMA WroteLastNow ==
  ASSUME TtyType, NEW t \in Bytes, written' = Append(written, t)
  PROVE  WroteLast(t)'
PROOF
<1>1. written \in Seq(Bytes)
  BY DEF TtyType
<1>2. Len(written') = Len(written) + 1 /\ written'[Len(written) + 1] = t /\ Len(written) \in Nat
  BY <1>1
<1>3. \A j \in Len(written) + 2 .. Len(written') : written'[j] \notin Writers
  BY <1>2
<1>4. Len(written) + 1 \in 1 .. Len(written')
  BY <1>2
<1>5. (Len(written) + 1) + 1 = Len(written) + 2
  BY <1>2
<1> QED
  BY <1>2, <1>3, <1>4, <1>5 DEF WroteLast

(* A step that does not concern the readers. *)
LEMMA ReadersKept ==
  ASSUME ReadersOK, buffer' = buffer, \A t \in Readers : c'[t].at = c[t].at
  PROVE  ReadersOK'
PROOF
  BY DEF ReadersOK, intq_empty

(* A byte comes in: who waits for it is woken. *)
LEMMA ReadersPut ==
  ASSUME TtyType, ReadersOK, NEW b \in Bytes, buffer' = Putc(buffer, b),
         \A t \in Readers :
           c'[t].at = IF t = buffer.not_empty THEN "woken" ELSE c[t].at
  PROVE  ReadersOK'
PROOF
<1>1. buffer \in Rings
  BY DEF TtyType
<1>2. /\ buffer'.not_full = NULL /\ buffer'.not_empty = NULL /\ buffer'.lock = buffer.lock
  BY <1>1, PutcFields DEF ReadersOK
<1>3. ASSUME NEW t \in Readers
      PROVE  /\ c'[t].at # "putc" /\ c'[t].at # "blocked" /\ t # NULL
             /\ buffer.lock = t <=> c'[t].at \in {"blocked", "woken"}
  <2>1. t # NULL
    BY TtyConstants
  <2> QED
    BY <2>1 DEF ReadersOK
<1> QED
  BY <1>2, <1>3 DEF ReadersOK

(***************************************************************************)
(* A step that leaves the console and the calls of the writers alone, but  *)
(* may wake one.                                                           *)
(***************************************************************************)
LEMMA WritersKept ==
  ASSUME WritersOK, UNCHANGED <<console_lock, console_lock_depth>>,
         txq'.not_empty = NULL, txq'.not_full \in Writers \cup {NULL},
         \A t \in Writers :
           /\ c'[t].left = c[t].left /\ c'[t].at # "lock"
           /\ c'[t].at = "idle" <=> c[t].at = "idle"
           /\ c'[t].at \in {"blocked", "woken"} => c[t].at \in {"blocked", "woken"}
           /\ txq'.not_full = t <=> c'[t].at = "blocked"
           /\ c'[t].at = "blocked" => intq_full(txq')
           /\ WroteLast(t) => WroteLast(t)'
  PROVE  WritersOK'
PROOF
<1>1. console_lock' = NULL => console_lock_depth' = 0
  BY DEF WritersOK
<1>2. ASSUME NEW t \in Writers, c'[t].at # "idle" PROVE Writing(t)'
  <2>1. Writing(t)
    BY <1>2 DEF WritersOK
  <2>2. /\ console_lock' = t /\ c'[t].left # <<>>
        /\ console_lock_depth' = Len(c'[t].left) - 1
    BY <2>1 DEF Writing
  <2>3. c'[t].at \in {"blocked", "woken"} => Head(c'[t].left) > 0
    BY <2>1 DEF Writing
  <2>4. c'[t].at = "blocked" => intq_full(txq')
    OBVIOUS
  <2>5. c'[t].left[Len(c'[t].left)] < CallSize => WroteLast(t)'
    BY <2>1 DEF Writing
  <2> QED
    BY <2>2, <2>3, <2>4, <2>5 DEF Writing, intq_full
<1>3. ASSUME NEW t \in Writers, c'[t].at = "idle" PROVE console_lock' # t
  BY <1>3 DEF WritersOK
<1> QED
  BY <1>1, <1>2, <1>3 DEF WritersOK

(* One that does not concern them at all. *)
LEMMA WritersSame ==
  ASSUME WritersOK, UNCHANGED <<console_lock, console_lock_depth, txq, written>>,
         \A t \in Writers : c'[t] = c[t]
  PROVE  WritersOK'
PROOF
<1>1. \A t \in Writers : WroteLast(t)' <=> WroteLast(t)
  BY DEF WroteLast
<1>2. \A t \in Writers : c[t].at = "blocked" => intq_full(txq')
  BY DEF WritersOK, Writing
<1> QED
  BY <1>1, <1>2, WritersKept DEF WritersOK

-----------------------------------------------------------------------------
(* Parts of the invariant, and of a step. *)

LEMMA TtyParts ==
  ASSUME TtyInv, ~halted
  PROVE  TtyType /\ InputOK /\ OutputOK /\ ReadersOK /\ WritersOK /\ IerOK /\ PollOK
PROOF
  BY DEF TtyInv, InOrder, InputOK, OutputOK

LEMMA TtyJoin ==
  ASSUME TtyType', InputOK', OutputOK', ~halted', ReadersOK', WritersOK', IerOK', PollOK'
  PROVE  TtyInv'
PROOF
  BY DEF TtyInv, InOrder, InputOK, OutputOK

LEMMA PollKept ==
  ASSUME PollOK, mode' = mode, txq' = txq, \A t \in Writers : c'[t].at = c[t].at
  PROVE  PollOK'
PROOF
  BY DEF PollOK, intq_empty

LEMMA CallGoto ==
  ASSUME TtyType, NEW t \in Users,
         NEW place \in {"idle", "putc", "lock", "blocked", "woken"},
         c' = [c EXCEPT ![t].at = place]
  PROVE  /\ c' \in [Users -> TtyCalls]
         /\ c'[t].at = place /\ c'[t].left = c[t].left
         /\ \A u \in Users \ {t} : c'[u] = c[u]
PROOF
<1>1. c \in [Users -> TtyCalls]
  BY DEF TtyType
<1>2. \A r \in TtyCalls : /\ [r EXCEPT !.at = place] \in TtyCalls
                          /\ [r EXCEPT !.at = place].at = place
                          /\ [r EXCEPT !.at = place].left = r.left
  BY DEF TtyCalls
<1> QED
  BY <1>1, <1>2

LEMMA LockField ==
  ASSUME NEW q \in Rings, NEW x \in Users \cup {NULL}
  PROVE  /\ [q EXCEPT !.lock = x] \in Rings
         /\ [q EXCEPT !.lock = x].lock = x
         /\ [q EXCEPT !.lock = x].not_full = q.not_full
         /\ [q EXCEPT !.lock = x].not_empty = q.not_empty
         /\ [q EXCEPT !.lock = x].buf = q.buf
         /\ [q EXCEPT !.lock = x].head = q.head /\ [q EXCEPT !.lock = x].tail = q.tail
PROOF
  BY DEF Rings

LEMMA WaitFields ==
  ASSUME NEW q \in Rings, NEW x \in Users \cup {NULL}
  PROVE  /\ [q EXCEPT !.lock = x, !.not_empty = x] \in Rings
         /\ [q EXCEPT !.lock = x, !.not_empty = x].lock = x
         /\ [q EXCEPT !.lock = x, !.not_empty = x].not_empty = x
         /\ [q EXCEPT !.lock = x, !.not_empty = x].not_full = q.not_full
         /\ [q EXCEPT !.lock = x, !.not_empty = x].buf = q.buf
         /\ [q EXCEPT !.lock = x, !.not_empty = x].head = q.head
         /\ [q EXCEPT !.lock = x, !.not_empty = x].tail = q.tail
         /\ [q EXCEPT !.lock = x, !.not_full = x] \in Rings
         /\ [q EXCEPT !.lock = x, !.not_full = x].not_full = x
         /\ [q EXCEPT !.lock = x, !.not_full = x].not_empty = q.not_empty
         /\ [q EXCEPT !.lock = x, !.not_full = x].buf = q.buf
         /\ [q EXCEPT !.lock = x, !.not_full = x].head = q.head
         /\ [q EXCEPT !.lock = x, !.not_full = x].tail = q.tail
PROOF
  BY DEF Rings

-----------------------------------------------------------------------------
(* Input. *)

LEMMA GetByteStep ==
  ASSUME TtyInv, NEW t \in Users, GetByte(t)
  PROVE  TtyInv'
PROOF
<1>1. /\ ~halted /\ t \in Readers /\ c[t].at \in {"idle", "woken"}
      /\ ~intq_empty(buffer) /\ taken' = Append(taken, Oldest(buffer))
      /\ UNCHANGED <<txq, mode, rbr, thr, console_lock, console_lock_depth, halted, typed>>
      /\ UNCHANGED <<written, sent>>
  BY DEF GetByte, Getting, At, console, output
<1>2. TtyType /\ InputOK /\ OutputOK /\ ReadersOK /\ WritersOK /\ IerOK /\ PollOK
  BY <1>1, TtyParts
<1>3. c' = [c EXCEPT ![t].at = "idle"]
  BY <1>2 DEF GetByte, Signal, ReadersOK
<1>4. /\ c' \in [Users -> TtyCalls] /\ c'[t].at = "idle"
      /\ \A u \in Users \ {t} : c'[u] = c[u]
  BY <1>2, <1>3, CallGoto
<1>5. buffer \in Rings
  BY <1>2 DEF TtyType
<1>6. PICK q \in Rings : q = Getc(buffer)
  BY <1>5, GetcFields
<1>7. PICK x \in Users \cup {NULL} :
        /\ x = IF c[t].at = "woken" THEN NULL ELSE buffer.lock
        /\ buffer' = [q EXCEPT !.lock = x]
  <2>1. q.lock = buffer.lock /\ buffer.lock \in Users \cup {NULL}
    BY <1>5, <1>6, GetcFields DEF Rings
  <2> DEFINE x == IF c[t].at = "woken" THEN NULL ELSE buffer.lock
  <2>2. x \in Users \cup {NULL}
    BY <2>1
  <2>3. buffer' = [q EXCEPT !.lock = x]
    BY <1>1, <1>6, <2>1 DEF GetByte, At
  <2> QED
    BY <2>2, <2>3
<1>8. /\ buffer' \in Rings /\ buffer'.lock = x /\ buffer'.not_full = NULL
      /\ buffer'.not_empty = buffer.not_empty
      /\ buffer'.buf = q.buf /\ buffer'.head = q.head /\ buffer'.tail = q.tail
  <2>1. q.not_full = NULL /\ q.not_empty = buffer.not_empty
    BY <1>5, <1>6, GetcFields
  <2> QED
    BY <1>7, <2>1, LockField
<1>9. /\ Contents(q) \in Seq(Bytes) /\ taken' \in Seq(Bytes)
      /\ taken' \o Contents(q) = typed'
  BY <1>1, <1>2, <1>6, InputGet
<1>10. Contents(buffer') = Contents(q)
  BY <1>8, RingSame
<1>11. TtyType'
  BY <1>1, <1>2, <1>4, <1>8, <1>9, <1>10 DEF TtyType
<1>12. InputOK' /\ OutputOK'
  BY <1>1, <1>2, <1>9, <1>10 DEF InputOK, OutputOK, InThr
<1>13. ReadersOK'
  <2>1. ASSUME NEW u \in Readers
        PROVE  /\ c'[u].at # "putc" /\ c'[u].at # "blocked" /\ buffer.not_empty # u
               /\ x = u <=> c'[u].at \in {"blocked", "woken"}
    <3>1. c[u].at # "blocked" /\ buffer.not_empty # u /\ u # NULL
      BY <1>1, <1>2, TtyConstants DEF ReadersOK
    <3>2. u \in Users
      BY TtyConstants
    <3>3. CASE u = t
      BY <1>1, <1>2, <1>4, <1>7, <3>1, <3>3 DEF ReadersOK
    <3>4. CASE u # t
      BY <1>1, <1>2, <1>4, <1>7, <3>1, <3>2, <3>4 DEF ReadersOK
    <3> QED
      BY <3>1, <3>3, <3>4
  <2> QED
    BY <1>2, <1>8, <2>1 DEF ReadersOK
<1>14. WritersOK' /\ PollOK'
  <2>1. \A u \in Writers : c'[u] = c[u]
    BY <1>1, <1>4, TtyConstants
  <2> QED
    BY <1>1, <1>2, <2>1, WritersSame, PollKept
<1>15. IerOK'
  BY <1>1 DEF IerOK, GetByte, serial_notify, write_ier, intq_empty, intq_full
<1> QED
  BY <1>1, <1>11, <1>12, <1>13, <1>14, <1>15, TtyJoin

(* A reader goes to sleep: it has the lock of the queue, which is empty. *)
LEMMA ReaderBlocks ==
  ASSUME TtyInv, ~halted, NEW t \in Readers, intq_empty(buffer),
         buffer.lock = NULL \/ c[t].at = "woken", c[t].at \in {"idle", "lock", "woken"},
         buffer' = [buffer EXCEPT !.lock = t, !.not_empty = t],
         c' = [c EXCEPT ![t].at = "blocked"],
         UNCHANGED <<txq, mode, ier, rbr, thr, console_lock, console_lock_depth, halted>>,
         UNCHANGED <<typed, taken, written, sent>>
  PROVE  TtyInv'
PROOF
<1>1. TtyType /\ InputOK /\ OutputOK /\ ReadersOK /\ WritersOK /\ IerOK /\ PollOK
  BY TtyParts
<1>2. t \in Users /\ t # NULL
  BY TtyConstants
<1>3. /\ c' \in [Users -> TtyCalls] /\ c'[t].at = "blocked"
      /\ \A u \in Users \ {t} : c'[u] = c[u]
  BY <1>1, <1>2, CallGoto
<1>4. buffer \in Rings
  BY <1>1 DEF TtyType
<1>5. /\ buffer' \in Rings /\ buffer'.lock = t /\ buffer'.not_full = buffer.not_full
      /\ buffer'.not_empty = t /\ buffer'.buf = buffer.buf
      /\ buffer'.head = buffer.head /\ buffer'.tail = buffer.tail
  BY <1>2, <1>4, WaitFields
<1>6. /\ Contents(buffer') = Contents(buffer) /\ intq_empty(buffer')
      /\ intq_full(buffer') <=> intq_full(buffer)
  BY <1>5, RingSame
<1>7. TtyType'
  BY <1>1, <1>3, <1>5, <1>6 DEF TtyType
<1>8. InputOK' /\ OutputOK'
  BY <1>1, <1>6 DEF InputOK, OutputOK, InThr
<1>9. ReadersOK'
  <2>1. ASSUME NEW u \in Readers, u # t
        PROVE  c'[u].at \notin {"blocked", "woken", "putc"}
    <3>1. c'[u] = c[u]
      BY <1>3, <2>1, TtyConstants
    <3>2. buffer.lock # u
      BY <1>1, <2>1, TtyConstants DEF ReadersOK
    <3> QED
      BY <1>1, <3>1, <3>2 DEF ReadersOK
  <2>2. ASSUME NEW u \in Readers
        PROVE  /\ c'[u].at # "putc"
               /\ buffer'.lock = u <=> c'[u].at \in {"blocked", "woken"}
               /\ buffer'.not_empty = u <=> c'[u].at = "blocked"
               /\ c'[u].at = "blocked" => intq_empty(buffer')
    BY <1>3, <1>5, <1>6, <2>1
  <2> QED
    BY <1>1, <1>5, <2>2 DEF ReadersOK, intq_empty
<1>10. WritersOK' /\ PollOK'
  <2>1. \A u \in Writers : c'[u] = c[u]
    BY <1>3, TtyConstants
  <2> QED
    BY <1>1, <2>1, WritersSame, PollKept
<1>11. IerOK'
  BY <1>1, <1>5 DEF IerOK, write_ier, intq_empty, intq_full
<1> QED
  BY <1>7, <1>8, <1>9, <1>10, <1>11, TtyJoin

LEMMA GetBlocksStep ==
  ASSUME TtyInv, NEW t \in Users, GetBlocks(t)
  PROVE  TtyInv'
PROOF
<1>1. /\ ~halted /\ t \in Readers /\ c[t].at \in {"idle", "woken"}
      /\ intq_empty(buffer)
      /\ UNCHANGED <<txq, mode, ier, rbr, thr, console_lock, console_lock_depth, halted>>
      /\ UNCHANGED <<typed, taken, written, sent>>
  BY DEF GetBlocks, Getting, At, uart, console, input, output
<1>2. CASE Waits(buffer, t)
  <2>1. /\ buffer.lock = NULL \/ c[t].at = "woken"
        /\ buffer' = [buffer EXCEPT !.lock = t, !.not_empty = t]
        /\ c' = [c EXCEPT ![t].at = "blocked"]
    BY <1>2 DEF GetBlocks, Waits, At
  <2> QED
    BY <1>1, <2>1, ReaderBlocks
<1>3. CASE ~Waits(buffer, t)
  <2>1. TtyType /\ InputOK /\ OutputOK /\ ReadersOK /\ WritersOK /\ IerOK /\ PollOK
    BY <1>1, TtyParts
  <2>2. c[t].at = "idle" /\ buffer' = buffer /\ c' = [c EXCEPT ![t].at = "lock"]
    BY <1>1, <1>3 DEF GetBlocks, Waits, At
  <2>3. /\ c' \in [Users -> TtyCalls] /\ c'[t].at = "lock"
        /\ \A u \in Users \ {t} : c'[u] = c[u]
    BY <2>1, <2>2, CallGoto
  <2>4. TtyType' /\ InputOK' /\ OutputOK'
    BY <1>1, <2>1, <2>2, <2>3 DEF TtyType, InputOK, OutputOK, InThr
  <2>5. ReadersOK'
    <3>1. ASSUME NEW u \in Readers
          PROVE  /\ c'[u].at # "putc"
                 /\ buffer.lock = u <=> c'[u].at \in {"blocked", "woken"}
                 /\ buffer.not_empty = u <=> c'[u].at = "blocked"
                 /\ c'[u].at = "blocked" => intq_empty(buffer)
      <4>1. CASE u = t
        BY <2>1, <2>2, <2>3, <4>1 DEF ReadersOK
      <4>2. CASE u # t
        <5>1. c'[u] = c[u]
          BY <2>3, <4>2, TtyConstants
        <5> QED
          BY <2>1, <5>1 DEF ReadersOK
      <4> QED
        BY <4>1, <4>2
    <3> QED
      BY <2>1, <2>2, <3>1 DEF ReadersOK, intq_empty
  <2>6. WritersOK' /\ PollOK'
    <3>1. \A u \in Writers : c'[u] = c[u]
      BY <1>1, <2>3, TtyConstants
    <3> QED
      BY <1>1, <2>1, <2>2, <3>1, WritersSame, PollKept
  <2>7. IerOK'
    BY <1>1, <2>1, <2>2 DEF IerOK, write_ier, intq_empty, intq_full
  <2> QED
    BY <1>1, <2>4, <2>5, <2>6, <2>7, TtyJoin
<1> QED
  BY <1>2, <1>3

LEMMA KeyboardStep ==
  ASSUME TtyInv, KeyboardInterrupt
  PROVE  TtyInv'
PROOF
<1>1. /\ ~halted /\ ~intq_full(buffer) /\ buffer' = Putc(buffer, "key")
      /\ typed' = Append(typed, "key") /\ c' = Signal(c, buffer.not_empty)
      /\ UNCHANGED <<txq, mode, rbr, thr, console_lock, console_lock_depth, halted, taken>>
      /\ UNCHANGED <<written, sent>>
  BY DEF KeyboardInterrupt, console, output
<1>2. TtyType /\ InputOK /\ OutputOK /\ ReadersOK /\ WritersOK /\ IerOK /\ PollOK
  BY <1>1, TtyParts
<1>3. "key" \in Bytes
  BY TtyConstants
<1>4. /\ c' \in [Users -> TtyCalls]
      /\ \A u \in Users :
           /\ c'[u].left = c[u].left
           /\ c'[u].at = IF u = buffer.not_empty THEN "woken" ELSE c[u].at
  <2>1. /\ c \in [Users -> TtyCalls] /\ buffer.not_empty \in Users \cup {NULL}
        /\ NULL \notin Users
    BY <1>2, TtyConstants DEF TtyType, Rings
  <2> QED
    BY <1>1, <2>1, SignalEffect
<1>5. /\ buffer' \in Rings /\ Contents(buffer') \in Seq(Bytes) /\ typed' \in Seq(Bytes)
      /\ taken' \o Contents(buffer') = typed'
  BY <1>1, <1>2, <1>3, InputPut
<1>6. TtyType'
  BY <1>1, <1>2, <1>4, <1>5 DEF TtyType
<1>7. InputOK' /\ OutputOK'
  BY <1>1, <1>2, <1>5 DEF InputOK, OutputOK, InThr
<1>8. ReadersOK'
  <2>1. \A t \in Readers :
          c'[t].at = IF t = buffer.not_empty THEN "woken" ELSE c[t].at
    BY <1>4, TtyConstants
  <2> QED
    BY <1>1, <1>2, <1>3, <2>1, ReadersPut
<1>9. WritersOK' /\ PollOK'
  <2>1. \A u \in Writers : u # buffer.not_empty /\ u \in Users
    BY <1>2, TtyConstants DEF ReadersOK
  <2>2. \A u \in Writers : c'[u].at = c[u].at /\ c'[u].left = c[u].left
    BY <1>4, <2>1
  <2>3. \A u \in Writers : WroteLast(u)' <=> WroteLast(u)
    BY <1>1 DEF WroteLast
  <2>4. \A u \in Writers : c[u].at = "blocked" => intq_full(txq')
    BY <1>1, <1>2 DEF WritersOK, Writing
  <2>5. WritersOK'
    BY <1>1, <1>2, <2>2, <2>3, <2>4, WritersKept DEF WritersOK
  <2> QED
    BY <1>1, <1>2, <2>2, <2>5, PollKept
<1>10. IerOK'
  BY <1>1 DEF IerOK, KeyboardInterrupt, serial_notify, write_ier, intq_empty,
              intq_full
<1> QED
  BY <1>1, <1>6, <1>7, <1>8, <1>9, <1>10, TtyJoin

(* debug_panic(): serial_flush() sends what is in the queue, and the panic. *)
LEMMA HaltStep ==
  ASSUME TtyInv, ~halted, NEW b \in Bytes, Halt(<<b>>)
  PROVE  TtyInv'
PROOF
<1>1. /\ halted' = TRUE /\ written' = written \o <<b>>
      /\ sent' = sent \o InThr \o Contents(txq) \o <<b>>
      /\ thr' = NULL /\ txq' = intq_init
      /\ UNCHANGED <<buffer, mode, ier, rbr, console_lock, console_lock_depth, c>>
      /\ UNCHANGED <<typed, taken>>
  BY DEF Halt, console, input
<1>2. TtyType /\ InputOK /\ OutputOK
  BY TtyParts
<1>3. written \in Seq(Bytes) /\ <<b>> \in Seq(Bytes)
  BY <1>2 DEF TtyType
<1>4. written' \in Seq(Bytes) /\ sent' = written'
  BY <1>1, <1>2, <1>3, ConcatProperties DEF OutputOK
<1>5. txq' \in Rings /\ Contents(txq') = <<>>
  <2>1. INTQ_BUFSIZE \in Nat /\ INTQ_BUFSIZE > 1 /\ 0 \in Positions
    BY TerminalAssumption DEF Positions
  <2>2. intq_init \in Rings
    BY <2>1 DEF intq_init, Rings
  <2>3. intq_init.head = 0 /\ intq_init.tail = 0
    BY DEF intq_init
  <2>4. Used(intq_init) = 0
    BY <2>1, <2>2, <2>3, RingFacts
  <2>5. Contents(intq_init) = [i \in 1 .. 0 |-> intq_init.buf[Slot(intq_init, i)]]
    BY <2>2, <2>4, RingFacts
  <2> QED
    BY <1>1, <2>2, <2>5
<1>6. InThr' = <<>> /\ sent' \o <<>> \o <<>> = written'
  <2>1. InThr' = <<>>
    BY <1>1 DEF InThr
  <2> QED
    BY <1>4, <2>1, ConcatEmptySeq
<1>7. TtyType'
  <2>1. halted' \in BOOLEAN
    BY <1>1
  <2>2. Contents(txq') \in Seq(Bytes) /\ sent' \in Seq(Bytes)
    BY <1>4, <1>5
  <2> QED
    BY <1>1, <1>2, <1>4, <1>5, <2>1, <2>2 DEF TtyType
<1>8. InputOK' /\ OutputOK'
  BY <1>1, <1>2, <1>5, <1>6 DEF InputOK, OutputOK
<1> QED
  BY <1>1, <1>4, <1>7, <1>8 DEF TtyInv, InputOK, OutputOK, InOrder

LEMMA GetLocksStep ==
  ASSUME TtyInv, NEW t \in Users, GetLocks(t)
  PROVE  TtyInv'
PROOF
<1>1. ~halted /\ t \in Readers /\ c[t].at = "lock" /\ buffer.lock = NULL
  BY DEF GetLocks, At
<1>2. CASE /\ intq_empty(buffer)
           /\ buffer' = [buffer EXCEPT !.lock = t, !.not_empty = t]
           /\ c' = [c EXCEPT ![t].at = "blocked"]
           /\ UNCHANGED <<txq, uart, console, halted, input, output>>
  BY <1>1, <1>2, ReaderBlocks DEF uart, console, input, output
<1>3. CASE Halt(<<"assert">>)
  BY <1>1, <1>3, HaltStep, TtyConstants
<1> QED
  BY <1>2, <1>3 DEF GetLocks

-----------------------------------------------------------------------------
(* The console. *)

LEMMA PutPolledStep ==
  ASSUME TtyInv, PutPolled
  PROVE  TtyInv'
PROOF
<1>1. /\ ~halted /\ mode # "QUEUE" /\ mode' = "POLL" /\ written' = Append(written, "boot")
      /\ sent' = sent \o InThr /\ thr' = "boot"
      /\ UNCHANGED <<buffer, txq, ier, rbr, console_lock, console_lock_depth, c, halted>>
      /\ UNCHANGED <<typed, taken>>
  BY DEF PutPolled, console, input
<1>2. TtyType /\ InputOK /\ OutputOK /\ ReadersOK /\ WritersOK /\ IerOK /\ PollOK
  BY <1>1, TtyParts
<1>3. "boot" \in Bytes /\ "boot" \notin Writers /\ NULL \notin Bytes
  BY TtyConstants
<1>4. Contents(txq) = <<>>
  <2>1. txq \in Rings /\ intq_empty(txq)
    BY <1>1, <1>2 DEF TtyType, PollOK
  <2>2. Used(txq) = 0
    BY <2>1, RingFacts
  <2>3. Contents(txq) = [i \in 1 .. 0 |-> txq.buf[Slot(txq, i)]]
    BY <2>1, <2>2, RingFacts
  <2> QED
    BY <2>3
<1>5. /\ written \in Seq(Bytes) /\ sent \in Seq(Bytes) /\ InThr \in Seq(Bytes)
  BY <1>2 DEF TtyType, InThr
<1>6. sent' \in Seq(Bytes) /\ written' \in Seq(Bytes)
  BY <1>1, <1>3, <1>5, ConcatProperties
<1>7. sent' = written
  BY <1>1, <1>2, <1>4, <1>6, ConcatEmptySeq DEF OutputOK
<1>8. InThr' = <<"boot">>
  BY <1>1, <1>3 DEF InThr
<1>9. sent' \o <<"boot">> \o <<>> = written'
  BY <1>1, <1>3, <1>6, <1>7, ConcatEmptySeq, AppendIsConcat
<1>10. TtyType'
  BY <1>1, <1>2, <1>3, <1>6 DEF TtyType
<1>11. InputOK' /\ OutputOK'
  BY <1>1, <1>2, <1>4, <1>8, <1>9 DEF InputOK, OutputOK
<1>12. ReadersOK'
  BY <1>1, <1>2, ReadersKept
<1>13. WritersOK'
  <2>1. \A u \in Writers : WroteLast(u) => WroteLast(u)'
    BY <1>1, <1>2, <1>3, WroteLastStays
  <2>2. \A u \in Writers : c[u].at = "idle"
    BY <1>1, <1>2 DEF PollOK
  <2> QED
    BY <1>1, <1>2, <2>1, <2>2, WritersKept DEF WritersOK
<1>14. IerOK' /\ PollOK'
  BY <1>1, <1>2 DEF IerOK, PollOK, intq_empty
<1> QED
  BY <1>1, <1>10, <1>11, <1>12, <1>13, <1>14, TtyJoin

LEMMA InitQueueStep ==
  ASSUME TtyInv, serial_init_queue
  PROVE  TtyInv'
PROOF
<1>1. /\ ~halted /\ mode' = "QUEUE" /\ ier' = write_ier(buffer, txq)
      /\ UNCHANGED <<buffer, txq, rbr, thr, console_lock, console_lock_depth, c, halted>>
      /\ UNCHANGED <<typed, taken, written, sent>>
  BY DEF serial_init_queue, console, input, output
<1>2. TtyType /\ InputOK /\ OutputOK /\ ReadersOK /\ WritersOK
  BY <1>1, TtyParts
<1>3. TtyType' /\ InputOK' /\ OutputOK'
  BY <1>1, <1>2 DEF TtyType, InputOK, OutputOK, InThr
<1>4. ReadersOK' /\ WritersOK'
  BY <1>1, <1>2, ReadersKept, WritersSame
<1>5. IerOK' /\ PollOK'
  BY <1>1 DEF IerOK, PollOK, write_ier, intq_empty, intq_full
<1> QED
  BY <1>1, <1>3, <1>4, <1>5, TtyJoin

(* The UART sends or receives a byte. *)
LEMMA UartStep ==
  ASSUME TtyInv, UartSends \/ UartReceives
  PROVE  TtyInv'
PROOF
<1>1. /\ ~halted /\ UNCHANGED <<buffer, txq, mode, ier, console_lock, console_lock_depth>>
      /\ UNCHANGED <<c, halted, typed, taken, written>>
  BY DEF UartSends, UartReceives, console, input, output
<1>2. TtyType /\ InputOK /\ OutputOK /\ ReadersOK /\ WritersOK /\ IerOK /\ PollOK
  BY <1>1, TtyParts
<1>3. /\ sent' \in Seq(Bytes) /\ thr' \in Bytes \cup {NULL} /\ rbr' \in Bytes \cup {NULL}
      /\ sent' \o InThr' = sent \o InThr
  <2>1. CASE UartSends
    <3>1. /\ thr # NULL /\ thr \in Bytes /\ sent' = Append(sent, thr) /\ thr' = NULL /\ rbr' = rbr
          /\ sent \in Seq(Bytes)
      BY <1>2, <2>1 DEF UartSends, TtyType
    <3>2. InThr = <<thr>> /\ InThr' = <<>>
      BY <3>1 DEF InThr
    <3>3. sent' = sent \o <<thr>> /\ sent' \in Seq(Bytes) /\ sent' \o <<>> = sent'
      BY <3>1, AppendIsConcat, ConcatEmptySeq
    <3> QED
      BY <1>2, <3>1, <3>2, <3>3 DEF TtyType
  <2>2. CASE UartReceives
    BY <1>2, <2>2, TtyConstants DEF UartReceives, TtyType, InThr, output
  <2> QED
    BY <2>1, <2>2
<1>4. TtyType'
  BY <1>1, <1>2, <1>3 DEF TtyType
<1>5. InputOK' /\ OutputOK'
  BY <1>1, <1>2, <1>3 DEF InputOK, OutputOK
<1>6. ReadersOK' /\ WritersOK' /\ PollOK'
  BY <1>1, <1>2, ReadersKept, WritersSame, PollKept
<1>7. IerOK'
  BY <1>1, <1>2 DEF IerOK, write_ier, intq_empty, intq_full
<1> QED
  BY <1>1, <1>4, <1>5, <1>6, <1>7, TtyJoin

(* A step of the writer that has the console, or takes it. *)
LEMMA WriterMoves ==
  ASSUME WritersOK, NEW t \in Writers,
         console_lock \in {t, NULL}, console_lock' \in {t, NULL},
         \A u \in Writers \ {t} : c'[u] = c[u],
         txq'.not_empty = NULL, txq'.not_full \in {t, NULL},
         txq'.not_full = t <=> c'[t].at = "blocked",
         c'[t].at # "lock",
         console_lock' = NULL => console_lock_depth' = 0,
         c'[t].at = "idle" => console_lock' = NULL,
         c'[t].at # "idle" => Writing(t)'
  PROVE  WritersOK'
PROOF
<1>1. t # NULL
  BY TtyConstants
<1>2. ASSUME NEW u \in Writers \ {t}
      PROVE  c'[u].at = "idle" /\ console_lock' # u /\ txq'.not_full # u /\ u # NULL
  <2>1. u # NULL
    BY TtyConstants
  <2>2. console_lock # u
    BY <1>2, <2>1
  <2>3. c[u].at = "idle"
    BY <2>2 DEF WritersOK, Writing
  <2> QED
    BY <1>2, <2>1, <2>3
<1>3. ASSUME NEW u \in Writers
      PROVE  /\ c'[u].at # "lock"
             /\ txq'.not_full = u <=> c'[u].at = "blocked"
             /\ c'[u].at = "idle" => console_lock' # u
             /\ c'[u].at # "idle" => Writing(u)'
  <2>1. CASE u = t
    BY <1>1, <2>1
  <2>2. CASE u # t
    BY <1>2, <2>2
  <2> QED
    BY <2>1, <2>2
<1> QED
  BY <1>3 DEF WritersOK

(* What is left to write in the calls of a thread. *)
LEMMA CallLeft ==
  ASSUME TtyType, NEW t \in Users, NEW place \in {"idle", "putc"}, NEW left \in Seq(Nat),
         c' = [c EXCEPT ![t] = [at |-> place, left |-> left]]
  PROVE  /\ c' \in [Users -> TtyCalls]
         /\ c'[t].at = place /\ c'[t].left = left
         /\ \A u \in Users \ {t} : c'[u] = c[u]
PROOF
<1>1. c \in [Users -> TtyCalls]
  BY DEF TtyType
<1> DEFINE r == [at |-> place, left |-> left]
<1>2. r \in TtyCalls /\ r.at = place /\ r.left = left
  BY DEF TtyCalls
<1> HIDE DEF r
<1>3. c' = [c EXCEPT ![t] = r]
  BY DEF r
<1> QED
  BY <1>1, <1>2, <1>3

(* A step of a writer that leaves the queue alone. *)
LEMMA ConsoleStep ==
  ASSUME TtyInv, ~halted, NEW t \in Writers,
         c' \in [Users -> TtyCalls],
         \A u \in Users \ {t} : c'[u] = c[u],
         console_lock' \in Writers \cup {NULL}, console_lock_depth' \in Nat, WritersOK', PollOK',
         UNCHANGED <<buffer, txq, mode, ier, rbr, thr, halted, typed, taken, written, sent>>
  PROVE  TtyInv'
PROOF
<1>1. TtyType /\ InputOK /\ OutputOK /\ ReadersOK /\ IerOK
  BY TtyParts
<1>2. TtyType' /\ InputOK' /\ OutputOK'
  BY <1>1 DEF TtyType, InputOK, OutputOK, InThr
<1>3. ReadersOK'
  <2>1. \A u \in Readers : c'[u].at = c[u].at
    BY TtyConstants
  <2> QED
    BY <1>1, <2>1, ReadersKept
<1>4. IerOK'
  BY <1>1 DEF IerOK, write_ier, intq_empty, intq_full
<1> QED
  BY <1>2, <1>3, <1>4, TtyJoin

LEMMA ConsoleAcquireStep ==
  ASSUME TtyInv, NEW t \in Users, acquire_console(t)
  PROVE  TtyInv'
PROOF
<1>1. /\ ~halted /\ t \in Writers /\ c[t].at = "idle" /\ mode = "QUEUE"
      /\ console_lock = NULL /\ console_lock' = t
      /\ c' = [c EXCEPT ![t] = [at |-> "putc", left |-> <<CallSize>>]]
      /\ UNCHANGED <<buffer, txq, mode, ier, rbr, thr, console_lock_depth, halted>>
      /\ UNCHANGED <<typed, taken, written, sent>>
  BY DEF acquire_console, At, uart, input, output
<1>2. TtyType /\ WritersOK
  BY <1>1, TtyParts
<1>3. <<CallSize>> \in Seq(Nat) /\ t # NULL /\ CallSize \in Nat
  BY <1>1, TtyConstants, TerminalAssumption
<1>4. /\ c' \in [Users -> TtyCalls]
      /\ c'[t].at = "putc" /\ c'[t].left = <<CallSize>>
      /\ \A u \in Users \ {t} : c'[u] = c[u]
  BY <1>1, <1>2, <1>3, CallLeft
<1>5. console_lock_depth' = 0 /\ console_lock_depth' \in Nat
  BY <1>1, <1>2 DEF WritersOK
<1>6. Writing(t)'
  <2>1. <<CallSize>> # <<>> /\ Len(<<CallSize>>) = 1 /\ <<CallSize>>[1] = CallSize
    BY <1>3
  <2> QED
    BY <1>1, <1>3, <1>4, <1>5, <2>1 DEF Writing
<1>7. WritersOK'
  <2>1. \A u \in Writers \ {t} : c'[u] = c[u]
    BY <1>4, TtyConstants
  <2>2. txq.not_full = NULL /\ txq.not_empty = NULL
    <3>1. \A u \in Writers : c[u].at # "blocked"
      BY <1>1, <1>2, TtyConstants DEF WritersOK, Writing
    <3> QED
      BY <1>2, <3>1 DEF WritersOK
  <2> QED
    BY <1>1, <1>2, <1>3, <1>4, <1>6, <2>1, <2>2, WriterMoves
<1>8. PollOK'
  BY <1>1 DEF PollOK
<1> QED
  BY <1>1, <1>4, <1>5, <1>7, <1>8, ConsoleStep

(* The one that writes is the one that may be blocked. *)
LEMMA WriterAlone ==
  ASSUME WritersOK, NEW t \in Writers, c[t].at # "idle"
  PROVE  Writing(t) /\ txq.not_empty = NULL /\ txq.not_full \in {t, NULL}
PROOF
<1>1. Writing(t)
  BY DEF WritersOK
<1>2. \A u \in Writers \ {t} : c[u].at # "blocked"
  BY <1>1 DEF WritersOK, Writing
<1> QED
  BY <1>1, <1>2 DEF WritersOK

LEMMA AcquireAgainStep ==
  ASSUME TtyInv, NEW t \in Users, AcquireAgain(t)
  PROVE  TtyInv'
PROOF
<1>1. /\ ~halted /\ t \in Writers /\ c[t].at = "putc"
      /\ console_lock_depth' = console_lock_depth + 1
      /\ c' = [c EXCEPT ![t].left = <<1>> \o c[t].left]
      /\ UNCHANGED <<buffer, txq, mode, ier, rbr, thr, console_lock, halted>>
      /\ UNCHANGED <<typed, taken, written, sent>>
  BY DEF AcquireAgain, At, uart, input, output
<1>2. TtyType /\ WritersOK /\ PollOK
  BY <1>1, TtyParts
<1>3. Writing(t) /\ txq.not_empty = NULL /\ txq.not_full \in {t, NULL}
  BY <1>1, <1>2, WriterAlone
<1>4. PICK l \in Seq(Nat) : l = c[t].left
  BY <1>2 DEF TtyType, TtyCalls
<1>5. /\ <<1>> \o l \in Seq(Nat) /\ Len(<<1>> \o l) = Len(l) + 1 /\ Len(l) \in Nat
      /\ l # <<>> => (<<1>> \o l)[Len(l) + 1] = l[Len(l)]
  OBVIOUS
<1>6. /\ c' \in [Users -> TtyCalls]
      /\ c'[t].at = "putc" /\ c'[t].left = <<1>> \o l
      /\ \A u \in Users \ {t} : c'[u] = c[u]
  <2>1. c \in [Users -> TtyCalls]
    BY <1>2 DEF TtyType
  <2>2. \A r \in TtyCalls, s \in Seq(Nat) : /\ [r EXCEPT !.left = s] \in TtyCalls
                                            /\ [r EXCEPT !.left = s].at = r.at
                                            /\ [r EXCEPT !.left = s].left = s
    BY DEF TtyCalls
  <2> DEFINE s == <<1>> \o l
  <2>3. s \in Seq(Nat) /\ c' = [c EXCEPT ![t].left = s]
    BY <1>1, <1>4, <1>5
  <2> HIDE DEF s
  <2> DEFINE v == [c[t] EXCEPT !.left = s]
  <2>4. c' = [c EXCEPT ![t] = v] /\ c[t] \in TtyCalls
    BY <2>1, <2>3
  <2>5. v \in TtyCalls /\ v.at = "putc" /\ v.left = s
    BY <1>1, <2>2, <2>3, <2>4
  <2> HIDE DEF v
  <2>6. /\ c' \in [Users -> TtyCalls] /\ c'[t] = v
        /\ \A u \in Users \ {t} : c'[u] = c[u]
    BY <2>1, <2>4, <2>5
  <2> QED
    BY <2>5, <2>6 DEF s
<1>7. console_lock_depth' \in Nat /\ console_lock' = t /\ t # NULL
  BY <1>1, <1>2, <1>3, TtyConstants DEF TtyType, Writing
<1>8. Writing(t)'
  <2>1. <<1>> \o l # <<>>
    BY <1>5
  <2>2. console_lock_depth' = Len(<<1>> \o l) - 1
    BY <1>1, <1>3, <1>4, <1>5 DEF Writing
  <2>3. c'[t].left[Len(c'[t].left)] = l[Len(l)]
    BY <1>3, <1>4, <1>5, <1>6 DEF Writing
  <2>4. l[Len(l)] < CallSize => WroteLast(t)'
    BY <1>1, <1>3, <1>4 DEF Writing, WroteLast
  <2> QED
    BY <1>6, <1>7, <2>1, <2>2, <2>3, <2>4 DEF Writing
<1>9. WritersOK'
  <2>1. \A u \in Writers \ {t} : c'[u] = c[u]
    BY <1>6, TtyConstants
  <2>2. txq.not_full # t
    BY <1>1, <1>2 DEF WritersOK
  <2>3. console_lock = t
    BY <1>3 DEF Writing
  <2> QED
    BY <1>1, <1>2, <1>3, <1>6, <1>7, <1>8, <2>1, <2>2, <2>3, WriterMoves
<1>10. PollOK'
  BY <1>1, <1>2 DEF PollOK
<1>11. console_lock' \in Writers \cup {NULL}
  BY <1>1, <1>7
<1> QED
  BY <1>1, <1>6, <1>7, <1>9, <1>10, <1>11, ConsoleStep

LEMMA ConsoleReleaseStep ==
  ASSUME TtyInv, NEW t \in Users, release_console(t)
  PROVE  TtyInv'
PROOF
<1>1. PICK l : l = c[t].left
  OBVIOUS
<1>2. /\ ~halted /\ t \in Writers /\ c[t].at = "putc" /\ Head(l) = 0
      /\ IF console_lock_depth > 0
           THEN console_lock_depth' = console_lock_depth - 1 /\ console_lock' = console_lock
           ELSE console_lock' = NULL /\ console_lock_depth' = console_lock_depth
      /\ c' = [c EXCEPT ![t] = [at |-> IF Len(l) > 1 THEN "putc" ELSE "idle",
                                        left |-> Tail(l)]]
      /\ UNCHANGED <<buffer, txq, mode, ier, rbr, thr, halted, typed, taken, written, sent>>
  <2>1. t \in DOMAIN c
    BY DEF TtyInv, TtyType
  <2> QED
    BY <1>1, <2>1 DEF release_console, At, uart, input, output
<1>3. TtyType /\ WritersOK /\ PollOK
  BY <1>2, TtyParts
<1>4. Writing(t) /\ txq.not_empty = NULL /\ txq.not_full \in {t, NULL}
  BY <1>2, <1>3, WriterAlone
<1>5. l \in Seq(Nat) /\ l # <<>> /\ console_lock_depth = Len(l) - 1 /\ console_lock_depth \in Nat
  BY <1>1, <1>3, <1>4 DEF TtyType, TtyCalls, Writing
<1>6. /\ Tail(l) \in Seq(Nat) /\ Len(Tail(l)) = Len(l) - 1 /\ Len(l) \in Nat
      /\ Len(l) > 1 => Tail(l) # <<>> /\ Tail(l)[Len(l) - 1] = l[Len(l)]
  <2>1. Len(l) \in Nat /\ Len(l) > 0 /\ Tail(l) \in Seq(Nat) /\ Len(Tail(l)) = Len(l) - 1
    BY <1>5
  <2>2. ASSUME Len(l) > 1 PROVE Tail(l) # <<>> /\ Tail(l)[Len(l) - 1] = l[Len(l)]
    <3>1. Len(l) - 1 \in 1 .. Len(l) - 1 /\ (Len(l) - 1) + 1 = Len(l)
      BY <2>1, <2>2
    <3>2. Tail(l)[Len(l) - 1] = l[(Len(l) - 1) + 1]
      BY <1>5, <3>1, HeadTailProperties
    <3>3. Tail(l) # <<>>
      <4>1. PICK m \in Seq(Nat) : m = Tail(l)
        BY <2>1
      <4>2. Len(m) > 0 /\ Len(m) \in Nat
        BY <2>1, <2>2, <4>1
      <4>3. m # <<>>
        BY <4>2
      <4> QED
        BY <4>1, <4>3
    <3> QED
      BY <3>1, <3>2, <3>3
  <2> QED
    BY <2>1, <2>2
<1>7. PICK place \in {"idle", "putc"} : place = IF Len(l) > 1 THEN "putc" ELSE "idle"
  OBVIOUS
<1>8. /\ c' \in [Users -> TtyCalls]
      /\ c'[t].at = place /\ c'[t].left = Tail(l)
      /\ \A u \in Users \ {t} : c'[u] = c[u]
  BY <1>2, <1>3, <1>6, <1>7, CallLeft
<1>9. /\ place = "putc" => console_lock' = t /\ console_lock_depth' = Len(Tail(l)) - 1
      /\ place = "idle" => console_lock' = NULL /\ console_lock_depth' = 0
      /\ console_lock_depth' \in Nat /\ console_lock = t
  <2>1. console_lock = t
    BY <1>4 DEF Writing
  <2>2. CASE console_lock_depth > 0
    <3>1. Len(l) > 1 /\ place = "putc"
      BY <1>5, <1>6, <1>7, <2>2
    <3>2. console_lock_depth' = console_lock_depth - 1 /\ console_lock' = t
      BY <1>2, <2>1, <2>2
    <3> QED
      BY <1>5, <1>6, <2>1, <2>2, <3>1, <3>2
  <2>3. CASE ~(console_lock_depth > 0)
    <3>1. ~(Len(l) > 1) /\ place = "idle"
      BY <1>5, <1>6, <1>7, <2>3
    <3>2. console_lock_depth' = 0 /\ console_lock' = NULL
      BY <1>2, <1>5, <2>3
    <3> QED
      BY <2>1, <3>1, <3>2
  <2> QED
    BY <2>2, <2>3
<1>10. place = "putc" => Writing(t)'
  <2> SUFFICES ASSUME place = "putc" PROVE Writing(t)'
    OBVIOUS
  <2>1. Len(l) > 1
    BY <1>7
  <2>2. c'[t].left[Len(c'[t].left)] = l[Len(l)]
    BY <1>6, <1>8, <2>1
  <2>3. l[Len(l)] < CallSize => WroteLast(t)'
    BY <1>1, <1>2, <1>4 DEF Writing, WroteLast
  <2> QED
    BY <1>6, <1>8, <1>9, <2>1, <2>2, <2>3 DEF Writing
<1>11. WritersOK'
  <2>1. \A u \in Writers \ {t} : c'[u] = c[u]
    BY <1>8, TtyConstants
  <2>2. txq.not_full # t /\ t # NULL
    BY <1>2, <1>3, TtyConstants DEF WritersOK
  <2> QED
    BY <1>2, <1>3, <1>4, <1>7, <1>8, <1>9, <1>10, <2>1, <2>2, WriterMoves
<1>12. PollOK'
  BY <1>2, <1>3 DEF PollOK
<1>13. console_lock' \in Writers \cup {NULL}
  BY <1>2, <1>7, <1>9
<1> QED
  BY <1>2, <1>8, <1>9, <1>11, <1>12, <1>13, ConsoleStep

-----------------------------------------------------------------------------
(* Output. *)

LEMMA PutByteStep ==
  ASSUME TtyInv, NEW t \in Users, PutByte(t)
  PROVE  TtyInv'
PROOF
<1>1. /\ ~halted /\ t \in Writers /\ ~intq_full(txq)
      /\ \/ c[t].at = "putc" /\ Head(c[t].left) > 0
         \/ c[t].at = "woken"
      /\ written' = Append(written, t) /\ ier' = write_ier(buffer, txq')
      /\ UNCHANGED <<buffer, mode, rbr, thr, console_lock, console_lock_depth, halted>>
      /\ UNCHANGED <<typed, taken, sent>>
  BY DEF PutByte, Putting, At, console, input
<1>2. TtyType /\ InputOK /\ OutputOK /\ ReadersOK /\ WritersOK /\ PollOK
  BY <1>1, TtyParts
<1>3. Writing(t) /\ txq.not_empty = NULL /\ txq.not_full = NULL
  <2>1. Writing(t) /\ txq.not_empty = NULL /\ txq.not_full \in {t, NULL}
    BY <1>1, <1>2, WriterAlone
  <2>2. txq.not_full # t
    BY <1>1, <1>2 DEF WritersOK
  <2> QED
    BY <2>1, <2>2
<1>4. PICK l \in Seq(Nat) : l = c[t].left
  BY <1>2 DEF TtyType, TtyCalls
<1>5. l # <<>> /\ l[1] > 0
  BY <1>1, <1>3, <1>4 DEF Writing
<1>6. PICK m \in Seq(Nat) : m = [l EXCEPT ![1] = l[1] - 1] /\ Len(m) = Len(l) /\ m # <<>>
  <2>1. Len(l) \in Nat /\ Len(l) > 0 /\ DOMAIN l = 1 .. Len(l) /\ \A i \in 1 .. Len(l) : l[i] \in Nat
    BY <1>5
  <2> DEFINE m == [l EXCEPT ![1] = l[1] - 1]
  <2>2. m = [i \in 1 .. Len(l) |-> IF i = 1 THEN l[1] - 1 ELSE l[i]]
    BY <2>1
  <2>3. \A i \in 1 .. Len(l) : (IF i = 1 THEN l[1] - 1 ELSE l[i]) \in Nat
    BY <1>5, <2>1
  <2>4. m \in Seq(Nat) /\ Len(m) = Len(l)
    BY <2>1, <2>2, <2>3
  <2> HIDE DEF m
  <2>5. m # <<>>
    BY <2>1, <2>4, EmptySeq
  <2> QED
    BY <2>4, <2>5 DEF m
<1>7. /\ c' \in [Users -> TtyCalls]
      /\ c'[t].at = "putc" /\ c'[t].left = m
      /\ \A u \in Users \ {t} : c'[u] = c[u]
  <2>1. c \in [Users -> TtyCalls]
    BY <1>2 DEF TtyType
  <2>2. Signal(c, txq.not_empty) = c
    BY <1>3 DEF Signal
  <2>3. c' = [c EXCEPT ![t].at = "putc", ![t].left[1] = @ - 1]
    BY <2>2 DEF PutByte
  <2> DEFINE v == [c[t] EXCEPT !.at = "putc", !.left = m]
  <2>4. c' = [c EXCEPT ![t] = v]
    BY <1>4, <1>6, <2>1, <2>3 DEF TtyCalls
  <2>5. c[t] \in TtyCalls
    BY <2>1
  <2>6. v \in TtyCalls /\ v.at = "putc" /\ v.left = m
    BY <2>5 DEF TtyCalls
  <2> HIDE DEF v
  <2>7. /\ c' \in [Users -> TtyCalls] /\ c'[t] = v
        /\ \A u \in Users \ {t} : c'[u] = c[u]
    BY <2>1, <2>4, <2>6
  <2> QED
    BY <2>6, <2>7
<1>8. txq \in Rings /\ t \in Bytes /\ t # NULL
  BY <1>1, <1>2, TtyConstants DEF TtyType
<1>9. PICK q \in Rings : q = Putc(txq, t)
  BY <1>8, PutcFields
<1>10. /\ txq' \in Rings /\ txq'.not_full = NULL /\ txq'.not_empty = NULL
       /\ txq'.buf = q.buf /\ txq'.head = q.head /\ txq'.tail = q.tail
  <2>1. q.not_full = NULL /\ q.not_empty = NULL
    BY <1>3, <1>8, <1>9, PutcFields
  <2>2. txq' = [q EXCEPT !.lock = NULL]
    BY <1>9 DEF PutByte
  <2> QED
    BY <2>1, <2>2, LockField
<1>11. /\ Contents(q) \in Seq(Bytes) /\ written' \in Seq(Bytes)
       /\ sent \o InThr \o Contents(q) = written'
  BY <1>1, <1>2, <1>8, <1>9, OutputPut
<1>12. Contents(txq') = Contents(q)
  BY <1>10, RingSame
<1>13. TtyType'
  BY <1>1, <1>2, <1>7, <1>10, <1>11, <1>12 DEF TtyType
<1>14. InputOK' /\ OutputOK'
  BY <1>1, <1>2, <1>11, <1>12 DEF InputOK, OutputOK, InThr
<1>15. ReadersOK'
  <2>1. \A u \in Readers : c'[u].at = c[u].at
    BY <1>1, <1>7, TtyConstants
  <2> QED
    BY <1>1, <1>2, <2>1, ReadersKept
<1>16. WritersOK'
  <2>1. WroteLast(t)'
    BY <1>1, <1>2, <1>8, WroteLastNow
  <2>2. console_lock = t /\ console_lock_depth' = Len(m) - 1
    BY <1>1, <1>3, <1>4, <1>6 DEF Writing
  <2>3. Writing(t)'
    BY <1>1, <1>6, <1>7, <2>1, <2>2 DEF Writing
  <2>4. \A u \in Writers \ {t} : c'[u] = c[u]
    BY <1>7, TtyConstants
  <2> QED
    BY <1>1, <1>2, <1>7, <1>8, <1>10, <2>2, <2>3, <2>4, WriterMoves
<1>17. IerOK' /\ PollOK'
  <2>1. mode = "QUEUE"
    BY <1>1, <1>2 DEF PollOK
  <2> QED
    BY <1>1, <2>1 DEF IerOK, PollOK, write_ier, intq_empty, intq_full
<1> QED
  BY <1>1, <1>13, <1>14, <1>15, <1>16, <1>17, TtyJoin

LEMMA PutBlocksStep ==
  ASSUME TtyInv, NEW t \in Users, PutBlocks(t)
  PROVE  TtyInv'
PROOF
<1>1. /\ ~halted /\ t \in Writers /\ intq_full(txq)
      /\ \/ c[t].at = "putc" /\ Head(c[t].left) > 0
         \/ c[t].at = "woken"
      /\ txq' = [txq EXCEPT !.lock = t, !.not_full = t]
      /\ c' = [c EXCEPT ![t].at = "blocked"]
      /\ UNCHANGED <<buffer, mode, ier, rbr, thr, console_lock, console_lock_depth, halted>>
      /\ UNCHANGED <<typed, taken, written, sent>>
  BY DEF PutBlocks, Putting, At, uart, console, input, output
<1>2. TtyType /\ InputOK /\ OutputOK /\ ReadersOK /\ WritersOK /\ IerOK /\ PollOK
  BY <1>1, TtyParts
<1>3. Writing(t) /\ txq.not_empty = NULL
  BY <1>1, <1>2, WriterAlone
<1>4. /\ c' \in [Users -> TtyCalls]
      /\ c'[t].at = "blocked" /\ c'[t].left = c[t].left
      /\ \A u \in Users \ {t} : c'[u] = c[u]
  BY <1>1, <1>2, CallGoto
<1>5. txq \in Rings /\ t # NULL
  BY <1>1, <1>2, TtyConstants DEF TtyType
<1>6. /\ txq' \in Rings /\ txq'.not_full = t /\ txq'.not_empty = NULL
      /\ txq'.buf = txq.buf /\ txq'.head = txq.head /\ txq'.tail = txq.tail
  BY <1>1, <1>3, <1>5, WaitFields
<1>7. Contents(txq') = Contents(txq) /\ intq_full(txq')
  BY <1>1, <1>6, RingSame
<1>8. TtyType'
  BY <1>1, <1>2, <1>4, <1>6, <1>7 DEF TtyType
<1>9. InputOK' /\ OutputOK'
  BY <1>1, <1>2, <1>7 DEF InputOK, OutputOK, InThr
<1>10. ReadersOK'
  <2>1. \A u \in Readers : c'[u].at = c[u].at
    BY <1>1, <1>4, TtyConstants
  <2> QED
    BY <1>1, <1>2, <2>1, ReadersKept
<1>11. WritersOK'
  <2>1. WroteLast(t)' <=> WroteLast(t)
    BY <1>1 DEF WroteLast
  <2>2. console_lock = t /\ Head(c[t].left) > 0
    BY <1>1, <1>3 DEF Writing
  <2>3. Writing(t)'
    BY <1>1, <1>3, <1>4, <1>7, <2>1, <2>2 DEF Writing, intq_full
  <2>4. \A u \in Writers \ {t} : c'[u] = c[u]
    BY <1>4, TtyConstants
  <2> QED
    BY <1>1, <1>2, <1>4, <1>5, <1>6, <2>2, <2>3, <2>4, WriterMoves
<1>12. IerOK' /\ PollOK'
  <2>1. mode = "QUEUE"
    BY <1>1, <1>2 DEF PollOK
  <2> QED
    BY <1>1, <1>2, <1>6, <2>1 DEF IerOK, PollOK, write_ier, intq_empty, intq_full
<1> QED
  BY <1>1, <1>8, <1>9, <1>10, <1>11, <1>12, TtyJoin

(* What was blocked is woken when the oldest byte is taken from the queue. *)
LEMMA WritersGet ==
  ASSUME TtyType, WritersOK, UNCHANGED <<console_lock, console_lock_depth>>,
         txq'.not_empty = NULL, txq'.not_full = NULL,
         \A t \in Writers :
           /\ c'[t].left = c[t].left
           /\ c'[t].at = IF t = txq.not_full THEN "woken" ELSE c[t].at
           /\ WroteLast(t) => WroteLast(t)'
  PROVE  WritersOK'
PROOF
<1>1. ASSUME NEW t \in Writers
      PROVE  /\ c'[t].at # "lock" /\ c'[t].at # "blocked" /\ t # NULL
             /\ c'[t].at = "idle" <=> c[t].at = "idle"
             /\ c'[t].at \in {"blocked", "woken"} => c[t].at \in {"blocked", "woken"}
  <2>1. t # NULL
    BY TtyConstants
  <2>2. txq.not_full = t <=> c[t].at = "blocked"
    BY DEF WritersOK
  <2>3. c[t].at # "lock"
    BY DEF WritersOK
  <2> QED
    BY <2>1, <2>2, <2>3
<1> QED
  BY <1>1, WritersKept

LEMMA PutInterruptStep ==
  ASSUME TtyInv, PutInterrupt
  PROVE  TtyInv'
PROOF
<1>1. /\ ~halted /\ mode = "QUEUE" /\ written' = Append(written, "intr")
      /\ ier' = write_ier(buffer, txq')
      /\ UNCHANGED <<buffer, mode, rbr, console_lock, console_lock_depth, halted>>
      /\ UNCHANGED <<typed, taken>>
  BY DEF PutInterrupt, console, input
<1>2. TtyType /\ InputOK /\ OutputOK /\ ReadersOK /\ WritersOK
  BY <1>1, TtyParts
<1>3. "intr" \in Bytes /\ "intr" \notin Writers /\ NULL \notin Bytes
  BY TtyConstants
<1>4. \A u \in Writers : WroteLast(u) => WroteLast(u)'
  BY <1>1, <1>2, <1>3, WroteLastStays
<1>5. /\ txq \in Rings /\ Contents(txq) \in Seq(Bytes) /\ written \in Seq(Bytes)
      /\ c \in [Users -> TtyCalls] /\ txq.not_full \in Users \cup {NULL}
  BY <1>2 DEF TtyType, Rings
<1>6. /\ txq' \in Rings /\ Contents(txq') \in Seq(Bytes)
      /\ thr' \in Bytes \cup {NULL} /\ sent' \in Seq(Bytes) /\ written' \in Seq(Bytes)
      /\ sent' \o InThr' \o Contents(txq') = written'
      /\ c' \in [Users -> TtyCalls]
      /\ \A u \in Readers : c'[u].at = c[u].at
      /\ WritersOK'
  <2>1. CASE intq_full(txq)
    <3>1. /\ sent' = sent \o InThr /\ thr' = Oldest(txq)
          /\ txq' = Putc(Getc(txq), "intr") /\ c' = Signal(c, txq.not_full)
      BY <2>1 DEF PutInterrupt
    <3>2. ~intq_empty(txq)
      <4>1. /\ INTQ_BUFSIZE \in Nat /\ INTQ_BUFSIZE > 1 /\ Used(txq) = INTQ_BUFSIZE - 1
            /\ intq_empty(txq) <=> Used(txq) = 0
        BY <1>5, <2>1, RingFacts
      <4> QED
        BY <4>1
    <3>3. PICK q \in Rings : q = Getc(txq)
      BY <1>5, GetcFields
    <3>4. q.not_full = NULL /\ q.not_empty = NULL
      BY <1>2, <1>5, <3>3, GetcFields DEF WritersOK
    <3>5. /\ Contents(q) \in Seq(Bytes) /\ thr' \in Bytes /\ sent' \in Seq(Bytes)
          /\ InThr' = <<thr'>>
          /\ sent' \o InThr' \o Contents(q) = written
      BY <1>2, <3>1, <3>2, <3>3, OutputGet
    <3>6. ~intq_full(q)
      BY <1>5, <3>2, <3>3, GetcContents
    <3>7. txq' = Putc(q, "intr")
      BY <3>1, <3>3
    <3>8. txq' \in Rings /\ txq'.not_full = NULL /\ txq'.not_empty = NULL
      BY <1>3, <3>4, <3>7, PutcFields
    <3>9. Contents(txq') = Append(Contents(q), "intr")
      BY <1>3, <3>5, <3>6, <3>7, PutcContents
    <3>10. sent' \o InThr' \in Seq(Bytes)
      BY <3>5, ConcatProperties
    <3>11. (sent' \o InThr') \o Append(Contents(q), "intr")
             = Append((sent' \o InThr') \o Contents(q), "intr")
      BY <1>3, <3>5, <3>10, OrderPut
    <3>12. sent' \o InThr' \o Contents(txq') = written'
      BY <1>1, <3>5, <3>9, <3>11
    <3>13. /\ c' \in [Users -> TtyCalls]
           /\ \A u \in Users :
                /\ c'[u].left = c[u].left
                /\ c'[u].at = IF u = txq.not_full THEN "woken" ELSE c[u].at
      BY <1>5, <3>1, SignalEffect, TtyConstants
    <3>14. \A u \in Readers : c'[u].at = c[u].at
      <4>1. \A u \in Readers : u # txq.not_full /\ u \in Users
        BY <1>2, TtyConstants DEF WritersOK
      <4> QED
        BY <3>13, <4>1
    <3>15. WritersOK'
      <4>1. \A u \in Writers :
              /\ c'[u].left = c[u].left
              /\ c'[u].at = IF u = txq.not_full THEN "woken" ELSE c[u].at
        BY <3>13, TtyConstants
      <4> QED
        BY <1>1, <1>2, <1>4, <3>8, <4>1, WritersGet
    <3>16. Contents(txq') \in Seq(Bytes) /\ written' \in Seq(Bytes)
      BY <1>1, <1>3, <1>5, <3>5, <3>9
    <3> QED
      BY <3>5, <3>8, <3>12, <3>13, <3>14, <3>15, <3>16
  <2>2. CASE ~intq_full(txq)
    <3>1. /\ txq' = Putc(txq, "intr") /\ c' = Signal(c, txq.not_empty)
          /\ thr' = thr /\ sent' = sent
      BY <2>2 DEF PutInterrupt
    <3>2. c' = c
      BY <1>2, <3>1 DEF Signal, WritersOK
    <3>3. txq' \in Rings /\ txq'.not_full = txq.not_full /\ txq'.not_empty = NULL
      BY <1>3, <1>5, <3>1, PutcFields
    <3>4. /\ Contents(txq') \in Seq(Bytes) /\ written' \in Seq(Bytes)
          /\ sent \o InThr \o Contents(txq') = written'
      BY <1>1, <1>2, <1>3, <2>2, <3>1, <3>3, OutputPut
    <3>5. InThr' = InThr
      BY <3>1 DEF InThr
    <3>6. \A u \in Writers : c[u].at # "blocked"
      BY <1>2, <2>2 DEF WritersOK, Writing
    <3>7. WritersOK'
      BY <1>1, <1>2, <1>4, <3>2, <3>3, <3>6, WritersKept DEF WritersOK
    <3> QED
      BY <1>2, <1>5, <3>1, <3>2, <3>3, <3>4, <3>5, <3>7 DEF TtyType
  <2> QED
    BY <2>1, <2>2
<1>7. TtyType'
  BY <1>1, <1>2, <1>6 DEF TtyType
<1>8. InputOK' /\ OutputOK'
  BY <1>1, <1>2, <1>6 DEF InputOK, OutputOK
<1>9. ReadersOK'
  BY <1>1, <1>2, <1>6, ReadersKept
<1>10. IerOK' /\ PollOK'
  BY <1>1 DEF IerOK, PollOK, write_ier, intq_empty, intq_full
<1> QED
  BY <1>1, <1>6, <1>7, <1>8, <1>9, <1>10, TtyJoin

(***************************************************************************)
(* serial_interrupt() does two things to different halves of the state:    *)
(* what it receives is put into the input buffer, and what is to be sent   *)
(* is got from the transmit queue.                                         *)
(***************************************************************************)
LEMMA SerialStep ==
  ASSUME TtyInv, SerialInterrupt
  PROVE  TtyInv'
PROOF
<1>1. PICK receive \in BOOLEAN, send \in BOOLEAN :
        /\ receive = (rbr # NULL /\ ~intq_full(buffer))
        /\ send = (thr = NULL /\ ~intq_empty(txq))
  BY Zenon
<1>2. PICK x, y : /\ x = IF receive THEN buffer.not_empty ELSE NULL
                  /\ y = IF send THEN txq.not_full ELSE NULL
  OBVIOUS
<1>3. /\ ~halted /\ ier' = write_ier(buffer', txq')
      /\ UNCHANGED <<mode, console_lock, console_lock_depth, halted, taken, written, sent>>
      /\ buffer' = IF receive THEN Putc(buffer, rbr) ELSE buffer
      /\ typed' = IF receive THEN Append(typed, rbr) ELSE typed
      /\ rbr' = IF receive THEN NULL ELSE rbr
      /\ txq' = IF send THEN Getc(txq) ELSE txq
      /\ thr' = IF send THEN Oldest(txq) ELSE thr
      /\ c' = Signal(Signal(c, x), y)
  BY <1>1, <1>2 DEF SerialInterrupt, console, output
<1>4. TtyType /\ InputOK /\ OutputOK /\ ReadersOK /\ WritersOK /\ PollOK
  BY <1>3, TtyParts
<1>5. /\ x \in Readers \cup {NULL} /\ y \in Writers \cup {NULL}
      /\ x \in Users \cup {NULL} /\ y \in Users \cup {NULL}
      /\ NULL \notin Users /\ NULL \notin Bytes
  BY <1>2, <1>4, TtyConstants DEF ReadersOK, WritersOK
<1>6. /\ c' \in [Users -> TtyCalls]
      /\ \A u \in Users :
           /\ c'[u].left = c[u].left
           /\ c'[u].at = IF u \in {x, y} THEN "woken" ELSE c[u].at
  <2>1. PICK cc : cc = Signal(c, x)
    OBVIOUS
  <2>2. c \in [Users -> TtyCalls]
    BY <1>4 DEF TtyType
  <2>3. /\ cc \in [Users -> TtyCalls]
        /\ \A u \in Users : /\ cc[u].left = c[u].left
                            /\ cc[u].at = IF u = x THEN "woken" ELSE c[u].at
    BY <1>5, <2>1, <2>2, SignalEffect
  <2>4. /\ c' \in [Users -> TtyCalls]
        /\ \A u \in Users : /\ c'[u].left = cc[u].left
                            /\ c'[u].at = IF u = y THEN "woken" ELSE cc[u].at
    BY <1>3, <1>5, <2>1, <2>3, SignalEffect
  <2> QED
    BY <2>3, <2>4
<1>7. \A u \in Readers : c'[u].at = IF u = x THEN "woken" ELSE c[u].at
  <2>1. \A u \in Readers : u \in Users /\ u # y
    BY <1>5, TtyConstants
  <2> QED
    BY <1>6, <2>1
<1>8. \A u \in Writers : /\ c'[u].left = c[u].left
                         /\ c'[u].at = IF u = y THEN "woken" ELSE c[u].at
  <2>1. \A u \in Writers : u \in Users /\ u # x
    BY <1>5, TtyConstants
  <2> QED
    BY <1>6, <2>1
<1>9. /\ buffer \in Rings /\ txq \in Rings /\ Contents(buffer) \in Seq(Bytes)
      /\ Contents(txq) \in Seq(Bytes) /\ sent \in Seq(Bytes) /\ typed \in Seq(Bytes)
      /\ rbr \in Bytes \cup {NULL} /\ thr \in Bytes \cup {NULL}
  BY <1>4 DEF TtyType
<1>10. /\ buffer' \in Rings /\ Contents(buffer') \in Seq(Bytes) /\ typed' \in Seq(Bytes)
       /\ rbr' \in Bytes \cup {NULL} /\ taken' \o Contents(buffer') = typed'
       /\ ReadersOK'
  <2>1. CASE receive
    <3>1. rbr \in Bytes /\ ~intq_full(buffer)
      BY <1>1, <1>9, <2>1
    <3>2. /\ buffer' = Putc(buffer, rbr) /\ typed' = Append(typed, rbr) /\ rbr' = NULL
          /\ taken' = taken /\ x = buffer.not_empty
      BY <1>2, <1>3, <2>1
    <3>3. /\ buffer' \in Rings /\ Contents(buffer') \in Seq(Bytes) /\ typed' \in Seq(Bytes)
          /\ taken' \o Contents(buffer') = typed'
      BY <1>4, <3>1, <3>2, InputPut
    <3>4. ReadersOK'
      BY <1>4, <1>7, <3>1, <3>2, ReadersPut
    <3> QED
      BY <3>2, <3>3, <3>4
  <2>2. CASE ~receive
    <3>1. buffer' = buffer /\ typed' = typed /\ rbr' = rbr /\ taken' = taken /\ x = NULL
      BY <1>2, <1>3, <2>2
    <3>2. \A u \in Readers : c'[u].at = c[u].at
      BY <1>7, <3>1, TtyConstants
    <3>3. ReadersOK'
      BY <1>4, <3>1, <3>2, ReadersKept
    <3> QED
      BY <1>4, <1>9, <3>1, <3>3 DEF InputOK
  <2> QED
    BY <2>1, <2>2
<1>11. \A u \in Writers : WroteLast(u)' <=> WroteLast(u)
  BY <1>3 DEF WroteLast
<1>12. /\ txq' \in Rings /\ Contents(txq') \in Seq(Bytes) /\ thr' \in Bytes \cup {NULL}
       /\ sent' \o InThr' \o Contents(txq') = written'
       /\ WritersOK' /\ PollOK'
  <2>1. CASE send
    <3>1. /\ thr = NULL /\ ~intq_empty(txq) /\ txq' = Getc(txq)
          /\ thr' = Oldest(txq) /\ y = txq.not_full
      BY <1>1, <1>2, <1>3, <2>1
    <3>2. sent' = sent \o InThr
      <4>1. InThr = <<>>
        BY <3>1 DEF InThr
      <4>2. sent \o <<>> = sent
        BY <1>9, ConcatEmptySeq
      <4> QED
        BY <1>3, <4>1, <4>2
    <3>3. txq' \in Rings /\ txq'.not_full = NULL /\ txq'.not_empty = NULL
      BY <1>4, <1>9, <3>1, GetcFields DEF WritersOK
    <3>4. /\ Contents(txq') \in Seq(Bytes) /\ thr' \in Bytes
          /\ sent' \o InThr' \o Contents(txq') = written
      BY <1>4, <3>1, <3>2, <3>3, OutputGet
    <3>5. WritersOK'
      BY <1>3, <1>4, <1>8, <1>11, <3>1, <3>3, WritersGet
    <3>6. PollOK'
      BY <1>3, <1>4, <3>1 DEF PollOK
    <3> QED
      BY <1>3, <3>3, <3>4, <3>5, <3>6
  <2>2. CASE ~send
    <3>1. txq' = txq /\ thr' = thr /\ y = NULL
      BY <1>2, <1>3, <2>2
    <3>2. InThr' = InThr
      BY <3>1 DEF InThr
    <3>3. \A u \in Writers : c'[u].at = c[u].at /\ c'[u].left = c[u].left
      BY <1>8, <3>1, TtyConstants
    <3>4. \A u \in Writers : c[u].at = "blocked" => intq_full(txq')
      BY <1>4, <3>1 DEF WritersOK, Writing
    <3>5. WritersOK'
      BY <1>3, <1>4, <1>11, <3>1, <3>3, <3>4, WritersKept DEF WritersOK
    <3>6. PollOK'
      BY <1>3, <1>4, <3>1, <3>3, PollKept
    <3> QED
      BY <1>3, <1>4, <1>9, <3>1, <3>2, <3>5, <3>6 DEF OutputOK
  <2> QED
    BY <2>1, <2>2
<1>13. TtyType'
  BY <1>3, <1>4, <1>6, <1>10, <1>12 DEF TtyType
<1>14. InputOK' /\ OutputOK'
  BY <1>10, <1>12 DEF InputOK, OutputOK
<1>15. IerOK'
  BY <1>3 DEF IerOK, write_ier, intq_empty, intq_full
<1> QED
  BY <1>3, <1>10, <1>12, <1>13, <1>14, <1>15, TtyJoin

-----------------------------------------------------------------------------
(* The specification. *)

LEMMA TtyInvInit ==
  ASSUME TtyInit
  PROVE  TtyInv
PROOF
<1>1. INTQ_BUFSIZE \in Nat /\ INTQ_BUFSIZE > 1 /\ 0 \in Positions
  BY TerminalAssumption DEF Positions
<1>2. PICK q : q = intq_init
  OBVIOUS
<1>3. /\ q \in Rings /\ q.head = 0 /\ q.tail = 0 /\ q.lock = NULL /\ q.not_full = NULL
      /\ q.not_empty = NULL
  BY <1>1, <1>2 DEF intq_init, Rings
<1>4. Contents(q) = <<>> /\ intq_empty(q)
  <2>1. Used(q) = 0
    BY <1>1, <1>3, RingFacts
  <2>2. Contents(q) = [i \in 1 .. 0 |-> q.buf[Slot(q, i)]]
    BY <1>3, <2>1, RingFacts
  <2> QED
    BY <1>3, <2>2 DEF intq_empty
<1>5. /\ buffer = q /\ txq = q /\ mode = "UNINIT" /\ rbr = NULL /\ thr = NULL
      /\ console_lock = NULL /\ console_lock_depth = 0 /\ halted = FALSE
      /\ c = [t \in Users |-> [at |-> "idle", left |-> <<>>]]
      /\ typed = <<>> /\ taken = <<>> /\ written = <<>> /\ sent = <<>>
  BY <1>2 DEF TtyInit
<1>6. /\ c \in [Users -> TtyCalls] /\ \A t \in Users : c[t].at = "idle"
  BY <1>5 DEF TtyCalls
<1>7. <<>> \in Seq(Bytes) /\ <<>> \o <<>> = <<>> /\ InThr = <<>>
  BY <1>5 DEF InThr
<1>8. TtyType
  <2>1. halted \in BOOLEAN
    BY <1>5
  <2> QED
    BY <1>3, <1>4, <1>5, <1>6, <1>7, <2>1 DEF TtyType
<1>9. InOrder
  BY <1>4, <1>5, <1>7 DEF InOrder
<1>10. ReadersOK
  BY <1>3, <1>4, <1>5, <1>6, TtyConstants DEF ReadersOK
<1>11. WritersOK
  BY <1>3, <1>5, <1>6, TtyConstants DEF WritersOK
<1>12. IerOK /\ PollOK
  BY <1>4, <1>5, <1>6, TtyConstants DEF IerOK, PollOK
<1> QED
  BY <1>8, <1>9, <1>10, <1>11, <1>12 DEF TtyInv

LEMMA TtyStutter ==
  ASSUME TtyInv, UNCHANGED ttyVars
  PROVE  TtyInv'
PROOF
<1>1. /\ UNCHANGED <<buffer, txq, mode, ier, rbr, thr, console_lock, console_lock_depth>>
      /\ UNCHANGED <<c, halted, typed, taken, written, sent>>
  BY DEF ttyVars, uart, console, input, output
<1>2. TtyType'
  BY <1>1 DEF TtyInv, TtyType
<1>3. InOrder'
  BY <1>1 DEF TtyInv, InOrder, InThr
<1>4. ASSUME ~halted PROVE ReadersOK' /\ WritersOK' /\ IerOK' /\ PollOK'
  <2>1. ReadersOK /\ WritersOK /\ IerOK /\ PollOK
    BY <1>4, TtyParts
  <2>2. ReadersOK' /\ WritersOK' /\ PollOK'
    BY <1>1, <2>1, ReadersKept, WritersSame, PollKept
  <2>3. IerOK'
    BY <1>1, <2>1 DEF IerOK, write_ier, intq_empty, intq_full
  <2> QED
    BY <2>2, <2>3
<1> QED
  BY <1>1, <1>2, <1>3, <1>4 DEF TtyInv

LEMMA TtyInvNext ==
  ASSUME TtyInv, [TtyNext]_ttyVars
  PROVE  TtyInv'
PROOF
<1>1. CASE UNCHANGED ttyVars
  BY <1>1, TtyStutter
<1>2. CASE \E t \in Users : \/ ReadStep(t) \/ WriteStep(t)
                            \/ acquire_console(t) \/ AcquireAgain(t)
  <2>1. PICK t \in Users : \/ GetByte(t) \/ GetBlocks(t) \/ GetLocks(t)
                           \/ PutByte(t) \/ PutBlocks(t) \/ release_console(t)
                           \/ acquire_console(t) \/ AcquireAgain(t)
    BY <1>2 DEF ReadStep, WriteStep
  <2> QED
    BY <2>1, GetByteStep, GetBlocksStep, GetLocksStep, PutByteStep, PutBlocksStep, ConsoleReleaseStep,
       ConsoleAcquireStep, AcquireAgainStep
<1>3. CASE Panic
  <2>1. ~halted /\ Halt(<<"panic">>)
    BY <1>3 DEF Panic
  <2> QED
    BY <2>1, HaltStep, TtyConstants
<1>4. CASE PutPolled
  BY <1>4, PutPolledStep
<1>5. CASE serial_init_queue
  BY <1>5, InitQueueStep
<1>6. CASE PutInterrupt
  BY <1>6, PutInterruptStep
<1>7. CASE KeyboardInterrupt
  BY <1>7, KeyboardStep
<1>8. CASE SerialInterrupt
  BY <1>8, SerialStep
<1>9. CASE UartSends \/ UartReceives
  BY <1>9, UartStep
<1> QED
  BY <1>1, <1>2, <1>3, <1>4, <1>5, <1>6, <1>7, <1>8, <1>9 DEF TtyNext

LEMMA TtyAlways == TtySpec => []TtyInv
PROOF
<1>1. TtyInit => TtyInv
  BY TtyInvInit
<1>2. TtyInv /\ [TtyNext]_ttyVars => TtyInv'
  BY TtyInvNext
<1> QED
  BY <1>1, <1>2, PTL DEF TtySpec

(***************************************************************************)
(* intq_putc() and intq_getc(), serial_putc(), serial_interrupt() and      *)
(* debug_panic() lose, repeat or reorder no byte, for any size of the      *)
(* queues and any number of threads (InOrder).                             *)
(***************************************************************************)
THEOREM BytesInOrder == TtySpec => []InOrder
PROOF
<1>1. TtyInv => InOrder
  BY DEF TtyInv
<1> QED
  BY <1>1, TtyAlways, PTL

(***************************************************************************)
(* acquire_console() and release_console() keep what one thread writes in  *)
(* a call of putbuf() together, however long the call is and whatever the  *)
(* thread waits for in the middle of it (NotMixed).                        *)
(***************************************************************************)
THEOREM CallsNotMixed == TtySpec => []NotMixed
PROOF
<1>1. ASSUME TtyInv PROVE NotMixed
  <2> SUFFICES ASSUME NEW t \in Writers, ~halted, c[t].at # "idle"
               PROVE  /\ console_lock = t
                      /\ console_lock_depth = Len(c[t].left) - 1
                      /\ Last(c[t].left) < CallSize => WroteLast(t)
    BY DEF NotMixed, At
  <2>1. Writing(t)
    BY <1>1, TtyParts DEF WritersOK
  <2> QED
    BY <2>1 DEF Writing, Last
<1> QED
  BY <1>1, TtyAlways, PTL

(***************************************************************************)
(* wait() and signal() on an interrupt queue, and write_ier(): whoever     *)
(* sleeps is the one the queue will wake, and what is to wake him may      *)
(* happen (NoMissedWakeup).                                                *)
(***************************************************************************)
THEOREM WakeupsNotMissed == TtySpec => []NoMissedWakeup
PROOF
<1>1. ASSUME TtyInv PROVE NoMissedWakeup
  <2> SUFFICES ASSUME ~halted
               PROVE  /\ \A t \in Readers : c[t].at = "blocked" =>
                           buffer.not_empty = t /\ intq_empty(buffer)
                      /\ \A t \in Writers : c[t].at = "blocked" =>
                           txq.not_full = t /\ intq_full(txq)
                      /\ mode = "QUEUE" => ier = write_ier(buffer, txq)
    BY DEF NoMissedWakeup
  <2>1. ReadersOK /\ WritersOK /\ IerOK
    BY <1>1, TtyParts
  <2> QED
    BY <2>1 DEF ReadersOK, WritersOK, Writing, IerOK
<1> QED
  BY <1>1, TtyAlways, PTL
=============================================================================
