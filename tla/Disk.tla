--------------------------------- MODULE Disk ---------------------------------
(***************************************************************************)
(* One ATA channel with its two devices: devices/disk.c and the interrupt  *)
(* handler that intr_handler() calls for it.                               *)
(*                                                                         *)
(* The controller is external.  It is modelled as far as the driver sees   *)
(* it: registers, the bits BSY and DRQ of the status register, and an      *)
(* interrupt line that reading the status register clears.  It works while *)
(* the driver waits, and it may fail a command.  A spurious interrupt can  *)
(* come at any time; their number is bounded.  That the controller takes   *)
(* longer than wait_until_idle() is prepared to wait is left out.          *)
(***************************************************************************)
EXTENDS Integers, Drivers

CONSTANTS
  Threads,
  Main,           \* the thread that runs disk_init()
  Sectors, Values,
  MaxSpurious     \* bound on spurious interrupts

ASSUME DiskAssumption == Main \in Threads /\ NULL \notin Threads /\ MaxSpurious \in Nat

Disks == {0, 1}

VARIABLES
  \* the controller and the disks
  kind,           \* what is attached: "ata", another device, or nothing
  medium,         \* the contents of the disks
  status,         \* "idle", "busy" (BSY) or "drq" (DRQ)
  reg,            \* registers: the device, the sector, the command and the data
  intrq,          \* an interrupt is pending
  \* struct channel and struct disk
  lock, expecting_interrupt, completion_wait, is_ata,
  spurious        \* history: the number of spurious interrupts

hardware == <<kind, medium, status, reg, intrq>>
vars == <<hardware, lock, expecting_interrupt, completion_wait, is_ata, c, halted, spurious>>

Idle == [at |-> "idle", op |-> "none", disk |-> 0, sector |-> NULL, value |-> NULL]

(***************************************************************************)
(* A call is at "acquire", "select", "issue", then a read at "wait" and    *)
(* "input", a write at "output" and "wait", and either at "release".  The  *)
(* main thread is at "boot" until it has identified the devices.           *)
(***************************************************************************)
Init ==
  /\ kind \in [Disks -> {"ata", "other", "none"}]
  /\ medium \in [Disks -> [Sectors -> Values]]
  /\ status = "idle"
  /\ reg = [dev |-> 0, sector |-> NULL, command |-> "none", data |-> NULL]
  /\ intrq = FALSE
  /\ lock = NULL
  /\ expecting_interrupt = FALSE
  /\ completion_wait = 0
  /\ is_ata = [d \in Disks |-> FALSE]
  /\ c = [t \in Threads |-> IF t = Main THEN [Idle EXCEPT !.at = "boot"] ELSE Idle]
  /\ halted = FALSE
  /\ spurious = 0

Goto(t, place) == c' = [c EXCEPT ![t].at = place]

Booting == c[Main].op = "identify" \/ c[Main].at \in {"boot", "identify"}

-----------------------------------------------------------------------------
(***************************************************************************)
(* reset_channel() and check_device_type().  The second device is not      *)
(* looked at if the first is not ready and says that there is none.        *)
(***************************************************************************)
CheckDevices ==
  /\ At(Main, "boot")
  /\ \E second \in BOOLEAN :
       /\ kind[0] = "ata" => second
       /\ is_ata' = [d \in Disks |-> kind[d] = "ata" /\ (d = 1 => second)]
  /\ c' = [c EXCEPT ![Main].at = "identify", ![Main].disk = 0]
  /\ UNCHANGED <<hardware, lock, expecting_interrupt, completion_wait, halted, spurious>>

(* The loops that wait for the controller.  Reading the status register    *)
(* clears a pending interrupt, reading the alternate one does not.         *)
wait_until_idle == status = "idle" /\ intrq' = FALSE
wait_while_busy == status # "busy"

(* The next device: identify_ata_device() begins, or there is nothing to do. *)
Identify ==
  /\ At(Main, "identify")
  /\ LET d == c[Main].disk
     IN  c' = [c EXCEPT ![Main] =
                 IF d \notin Disks THEN Idle
                 ELSE IF is_ata[d] THEN [@ EXCEPT !.at = "select", !.op = "identify"]
                 ELSE [@ EXCEPT !.disk = d + 1]]
  /\ UNCHANGED <<hardware, lock, expecting_interrupt, completion_wait, is_ata, halted, spurious>>

(* input_sector(), or no data and then no disk. *)
Identified ==
  /\ At(Main, "input") /\ c[Main].op = "identify"
  /\ wait_while_busy
  /\ is_ata' = [is_ata EXCEPT ![c[Main].disk] = (status = "drq")]
  /\ status' = "idle"
  /\ c' = [c EXCEPT ![Main] = [Idle EXCEPT !.at = "identify", !.disk = c[Main].disk + 1]]
  /\ UNCHANGED <<kind, medium, reg, intrq, lock, expecting_interrupt, completion_wait, halted, spurious>>

-----------------------------------------------------------------------------
(* disk_read() and disk_write(). *)
Call(t, op, d, s, v) ==
  /\ At(t, "idle") /\ ~Booting
  /\ is_ata[d]
  /\ c' = [c EXCEPT ![t] = [at |-> "acquire", op |-> op, disk |-> d, sector |-> s, value |-> v]]
  /\ UNCHANGED <<hardware, lock, expecting_interrupt, completion_wait, is_ata, halted, spurious>>

Acquire(t) ==
  /\ At(t, "acquire")
  /\ lock = NULL
  /\ lock' = t
  /\ Goto(t, "select")
  /\ UNCHANGED <<hardware, expecting_interrupt, completion_wait, is_ata, halted, spurious>>

(* Mutant of Select: the controller may be busy. *)
SelectAtOnce(t) ==
  /\ At(t, "select")
  /\ reg' = [reg EXCEPT !.dev = c[t].disk, !.sector = c[t].sector]
  /\ intrq' = FALSE
  /\ Goto(t, "issue")
  /\ UNCHANGED <<kind, medium, status, lock, expecting_interrupt, completion_wait, is_ata, halted, spurious>>

(* select_device_wait(), and the rest of select_sector(). *)
Select(t) ==
  /\ At(t, "select")
  /\ wait_until_idle
  /\ reg' = [reg EXCEPT !.dev = c[t].disk, !.sector = c[t].sector]
  /\ Goto(t, "issue")
  /\ UNCHANGED <<kind, medium, status, lock, expecting_interrupt, completion_wait, is_ata, halted, spurious>>

(* Mutant of issue_pio_command: no interrupt is expected. *)
issue_unexpected(t) ==
  /\ At(t, "issue")
  /\ reg' = [reg EXCEPT !.command = c[t].op]
  /\ status' = "busy"
  /\ Goto(t, IF c[t].op = "write" THEN "output" ELSE "wait")
  /\ UNCHANGED <<kind, medium, intrq, lock, expecting_interrupt, completion_wait, is_ata, halted, spurious>>

issue_pio_command(t) ==
  /\ At(t, "issue")
  /\ expecting_interrupt' = TRUE
  /\ reg' = [reg EXCEPT !.command = c[t].op]
  /\ status' = "busy"
  /\ Goto(t, IF c[t].op = "write" THEN "output" ELSE "wait")
  /\ UNCHANGED <<kind, medium, intrq, lock, completion_wait, is_ata, halted, spurious>>

(* sema_down() of completion_wait. *)
Wait(t) ==
  /\ At(t, "wait")
  /\ completion_wait > 0
  /\ completion_wait' = completion_wait - 1
  /\ Goto(t, IF c[t].op = "write" THEN "release" ELSE "input")
  /\ UNCHANGED <<hardware, lock, expecting_interrupt, is_ata, halted, spurious>>

(* wait_while_busy() and input_sector(), or PANIC. *)
Input(t) ==
  /\ At(t, "input") /\ c[t].op = "read"
  /\ wait_while_busy
  /\ IF status = "drq"
       THEN /\ c' = [c EXCEPT ![t].at = "release", ![t].value = reg.data]
            /\ status' = "idle"
            /\ UNCHANGED halted
       ELSE halted' = TRUE /\ UNCHANGED <<c, status>>
  /\ UNCHANGED <<kind, medium, reg, intrq, lock, expecting_interrupt, completion_wait, is_ata, spurious>>

(* Mutant of Output: the thread does not wait for the interrupt. *)
OutputOnly(t) ==
  /\ At(t, "output")
  /\ wait_while_busy
  /\ IF status = "drq"
       THEN /\ Goto(t, "release")
            /\ status' = "busy"
            /\ reg' = [reg EXCEPT !.command = "store", !.data = c[t].value]
            /\ UNCHANGED halted
       ELSE halted' = TRUE /\ UNCHANGED <<c, status, reg>>
  /\ UNCHANGED <<kind, medium, intrq, lock, expecting_interrupt, completion_wait, is_ata, spurious>>

(* wait_while_busy() and output_sector(), or PANIC. *)
Output(t) ==
  /\ At(t, "output")
  /\ wait_while_busy
  /\ IF status = "drq"
       THEN /\ Goto(t, "wait")
            /\ status' = "busy"
            /\ reg' = [reg EXCEPT !.command = "store", !.data = c[t].value]
            /\ UNCHANGED halted
       ELSE halted' = TRUE /\ UNCHANGED <<c, status, reg>>
  /\ UNCHANGED <<kind, medium, intrq, lock, expecting_interrupt, completion_wait, is_ata, spurious>>

Release(t) ==
  /\ At(t, "release")
  /\ lock' = NULL
  /\ c' = [c EXCEPT ![t] = Idle]
  /\ UNCHANGED <<hardware, expecting_interrupt, completion_wait, is_ata, halted, spurious>>

-----------------------------------------------------------------------------
(* interrupt_handler(). *)
Handle == completion_wait' = IF expecting_interrupt THEN completion_wait + 1 ELSE completion_wait

Interrupt ==
  /\ ~halted /\ intrq
  /\ intrq' = FALSE
  /\ Handle
  /\ UNCHANGED <<kind, medium, status, reg, lock, expecting_interrupt, is_ata, c, halted, spurious>>

SpuriousInterrupt ==
  /\ ~halted /\ spurious < MaxSpurious
  /\ spurious' = spurious + 1
  /\ Handle
  /\ UNCHANGED <<hardware, lock, expecting_interrupt, is_ata, c, halted>>

(***************************************************************************)
(* The controller: data of a read are ready; it wants those of a write,    *)
(* without an interrupt; it has stored them; or it fails a command.        *)
(***************************************************************************)
DeviceReads ==
  /\ status = "busy" /\ reg.command \in {"read", "identify"}
  /\ status' = "drq"
  /\ reg' = [reg EXCEPT !.data = IF reg.command = "read" THEN medium[reg.dev][reg.sector] ELSE NULL]
  /\ intrq' = TRUE
  /\ UNCHANGED medium

DeviceAsks ==
  /\ status = "busy" /\ reg.command = "write"
  /\ status' = "drq"
  /\ UNCHANGED <<reg, intrq, medium>>

DeviceStores ==
  /\ status = "busy" /\ reg.command = "store"
  /\ medium' = [medium EXCEPT ![reg.dev][reg.sector] = reg.data]
  /\ status' = "idle"
  /\ intrq' = TRUE
  /\ UNCHANGED reg

DeviceFails ==
  /\ status = "busy" /\ reg.command # "store"
  /\ status' = "idle"
  /\ intrq' = TRUE
  /\ UNCHANGED <<reg, medium>>

Device ==
  /\ ~halted
  /\ DeviceReads \/ DeviceAsks \/ DeviceStores \/ DeviceFails
  /\ UNCHANGED <<kind, lock, expecting_interrupt, completion_wait, is_ata, c, halted, spurious>>

-----------------------------------------------------------------------------
Step(t) ==
  \/ Select(t) \/ issue_pio_command(t) \/ Wait(t) \/ Input(t) \/ Output(t) \/ Release(t)

Boot == CheckDevices \/ Identify \/ Identified

Next ==
  \/ Boot \/ Interrupt \/ SpuriousInterrupt \/ Device
  \/ \E t \in Threads :
       \/ Step(t) \/ Acquire(t)
       \/ \E op \in {"read", "write"}, d \in Disks, s \in Sectors, v \in Values : Call(t, op, d, s, v)

(***************************************************************************)
(* A thread that can go on does, a pending interrupt is delivered, and the *)
(* controller finishes a command.  The lock goes to the thread that has    *)
(* waited longest, so nobody waits for ever while it changes hands.        *)
(***************************************************************************)
Fairness ==
  /\ WF_vars(Boot) /\ WF_vars(Interrupt) /\ WF_vars(Device)
  /\ \A t \in Threads : WF_vars(Step(t)) /\ SF_vars(Acquire(t))

Spec == Init /\ [][Next]_vars /\ Fairness

-----------------------------------------------------------------------------
(***************************************************************************)
(* Without spurious interrupts every interrupt is taken by the call that   *)
(* caused it: when nobody holds the channel, the controller is idle, no    *)
(* interrupt is pending and the semaphore is down.  With them the          *)
(* semaphore is ahead by no more than their number.                        *)
(***************************************************************************)
NoStaleCompletion ==
  /\ completion_wait <= spurious + 1
  /\ spurious = 0 /\ ~Booting /\ lock = NULL =>
       completion_wait = 0 /\ ~intrq /\ status = "idle"

(* What is on the disk, or about to be stored. *)
Stored ==
  IF status = "busy" /\ reg.command = "store"
    THEN [medium EXCEPT ![reg.dev][reg.sector] = reg.data]
    ELSE medium

(* What a thread has asked for, or got. *)
Requested(t) ==
  LET ask == [op |-> c[t].op, disk |-> c[t].disk, sector |-> c[t].sector, value |-> c[t].value]
      done == c[t].at = "release" \/ (c[t].op = "write" /\ c[t].at = "wait")
  IN  IF c[t].op \notin {"read", "write"} THEN [at |-> "quiet"]
      ELSE [at |-> IF done THEN "answer" ELSE "pending", ask |-> ask]

(***************************************************************************)
(* The driver implements disks that are read and written atomically, also  *)
(* when spurious interrupts let disk_write() return before the controller  *)
(* is done.                                                                *)
(***************************************************************************)
Atomic == INSTANCE DiskSpec WITH
            store <- Stored, request <- [t \in Threads |-> Requested(t)]

ImplementsDiskSpec == Atomic!Spec

(* Booting ends and every call returns, unless the kernel panics. *)
CallsReturn == \A t \in Threads : c[t].at # "idle" ~> (halted \/ c[t].at = "idle")
=============================================================================
