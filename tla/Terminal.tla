------------------------------- MODULE Terminal -------------------------------
(***************************************************************************)
(* The terminal: interrupt queues (devices/intq.c), the input buffer       *)
(* (devices/input.c), keyboard and serial port (devices/kbd.c,             *)
(* devices/serial.c) and the console (lib/kernel/console.c).               *)
(*                                                                         *)
(* A step is what runs with interrupts off without blocking.  A thread     *)
(* that finds a queue empty or full takes the lock of the queue and        *)
(* blocks; one that finds the lock taken blocks on the lock and tests      *)
(* nothing again but the assertion in wait().  The UART is external: it    *)
(* has one byte to send and one it has received, and interrupts as long as *)
(* it has a reason to and IER lets it.  Which character a key stands for   *)
(* does not matter here; the display is left out.                          *)
(***************************************************************************)
EXTENDS Integers, Sequences, SequencesExt, Drivers

CONSTANTS
  Readers,        \* threads that call input_getc()
  Writers,        \* threads that call putbuf()
  INTQ_BUFSIZE,
  CallSize,       \* characters in one call of putbuf()
  MaxInput,       \* bound on the bytes that are typed
  MaxOutput       \* bound on the bytes that are written

Users == Readers \cup Writers

(* The bytes that are not written by a thread. *)
OtherBytes == {"key", "serial", "boot", "intr", "panic", "assert"}

ASSUME TerminalAssumption ==
  /\ INTQ_BUFSIZE \in Nat /\ INTQ_BUFSIZE > 1
  /\ CallSize \in Nat /\ CallSize > 0
  /\ Readers \cap Writers = {} /\ OtherBytes \cap Writers = {}
  /\ NULL \notin Users \cup OtherBytes

VARIABLES
  buffer, txq,        \* the two interrupt queues
  mode, ier,          \* of the serial port
  rbr, thr,           \* the byte received, the byte to send, or NULL
  console_lock, console_lock_depth,
  typed, taken,       \* history: bytes put into the input buffer, and got from it
  written, sent       \* history: bytes given to serial_putc(), and sent by the UART

uart == <<mode, ier, rbr, thr>>
console == <<console_lock, console_lock_depth>>
input == <<typed, taken>>
output == <<written, sent>>
ttyVars == <<buffer, txq, uart, console, c, halted, input, output>>

Positions == 0 .. INTQ_BUFSIZE - 1

intq_init == [buf |-> [i \in Positions |-> NULL], head |-> 0, tail |-> 0,
              lock |-> NULL, not_full |-> NULL, not_empty |-> NULL]

TtyInit ==
  /\ buffer = intq_init
  /\ txq = intq_init
  /\ mode = "UNINIT" /\ ier = {}
  /\ rbr = NULL /\ thr = NULL
  /\ console_lock = NULL /\ console_lock_depth = 0
  /\ c = [t \in Users |-> [at |-> "idle", left |-> <<>>]]
  /\ halted = FALSE
  /\ typed = <<>> /\ taken = <<>>
  /\ written = <<>> /\ sent = <<>>

-----------------------------------------------------------------------------
(* Interrupt queues. *)
Succ(pos) == (pos + 1) % INTQ_BUFSIZE
intq_empty(q) == q.head = q.tail
intq_full(q)  == Succ(q.head) = q.tail

(* What intq_getc() and intq_putc() do with a queue that lets them. *)
Getc(q)    == [q EXCEPT !.tail = Succ(@), !.buf[q.tail] = NULL, !.not_full = NULL]
Putc(q, b) == [q EXCEPT !.head = Succ(@), !.buf[q.head] = b, !.not_empty = NULL]
Oldest(q)  == q.buf[q.tail]

(* signal(): the waiter runs again. *)
Signal(cc, waiter) == IF waiter = NULL THEN cc ELSE [cc EXCEPT ![waiter].at = "woken"]

(* write_ier(). *)
write_ier(in, tx) ==
  (IF intq_empty(tx) THEN {} ELSE {"xmit"}) \cup (IF intq_full(in) THEN {} ELSE {"recv"})

(* Mutant of serial_notify: nothing is done. *)
serial_ignore(in) == ier

serial_notify(in) == IF mode = "QUEUE" THEN write_ier(in, txq) ELSE ier

(* The byte in the transmitter, as a sequence. *)
InThr == IF thr = NULL THEN <<>> ELSE <<thr>>

(* The bytes in a queue. *)
Contents(q) ==
  [i \in 1 .. (q.head - q.tail) % INTQ_BUFSIZE |-> q.buf[(q.tail + i - 1) % INTQ_BUFSIZE]]

-----------------------------------------------------------------------------
(* debug_panic() prints with interrupts off; serial_flush() sends what is queued. *)
Halt(last) ==
  /\ halted' = TRUE
  /\ written' = written \o last
  /\ sent' = sent \o InThr \o Contents(txq) \o last
  /\ thr' = NULL
  /\ txq' = intq_init
  /\ UNCHANGED <<buffer, mode, ier, rbr, console, c, input>>

(* PANIC anywhere in the kernel. *)
Panic == ~halted /\ Halt(<<"panic">>)

(***************************************************************************)
(* input_getc() in a thread that has nothing, or has been woken and        *)
(* releases the lock: it gets a byte, or waits for one, or for the lock.   *)
(***************************************************************************)
Getting(t) == t \in Readers /\ (At(t, "idle") \/ At(t, "woken"))
Waits(q, t) == q.lock = NULL \/ At(t, "woken")

GetByte(t) ==
  /\ Getting(t)
  /\ ~intq_empty(buffer)
  /\ buffer' = [Getc(buffer) EXCEPT !.lock = IF At(t, "woken") THEN NULL ELSE @]
  /\ taken' = Append(taken, Oldest(buffer))
  /\ ier' = serial_notify(buffer')
  /\ c' = [Signal(c, buffer.not_full) EXCEPT ![t].at = "idle"]
  /\ UNCHANGED <<txq, mode, rbr, thr, console, halted, typed, output>>

GetBlocks(t) ==
  /\ Getting(t)
  /\ intq_empty(buffer)
  /\ IF Waits(buffer, t)
       THEN /\ buffer' = [buffer EXCEPT !.lock = t, !.not_empty = t]
            /\ c' = [c EXCEPT ![t].at = "blocked"]
       ELSE c' = [c EXCEPT ![t].at = "lock"] /\ UNCHANGED buffer
  /\ UNCHANGED <<txq, uart, console, halted, input, output>>

(* lock_acquire() returns: wait() asserts that the queue is empty. *)
GetLocks(t) ==
  /\ t \in Readers /\ At(t, "lock")
  /\ buffer.lock = NULL
  /\ \/ /\ intq_empty(buffer)
        /\ buffer' = [buffer EXCEPT !.lock = t, !.not_empty = t]
        /\ c' = [c EXCEPT ![t].at = "blocked"]
        /\ UNCHANGED <<txq, uart, console, halted, input, output>>
     \/ ~intq_empty(buffer) /\ Halt(<<"assert">>)

-----------------------------------------------------------------------------
(* init_poll() and polling, before there are interrupts and threads. *)
PutPolled ==
  /\ ~halted /\ mode # "QUEUE"
  /\ Len(written) < MaxOutput
  /\ mode' = "POLL"
  /\ written' = Append(written, "boot")
  /\ sent' = sent \o InThr
  /\ thr' = "boot"
  /\ UNCHANGED <<buffer, txq, ier, rbr, console, c, halted, input>>

serial_init_queue ==
  /\ ~halted /\ mode # "QUEUE"
  /\ mode' = "QUEUE"
  /\ ier' = write_ier(buffer, txq)
  /\ UNCHANGED <<buffer, txq, rbr, thr, console, c, halted, input, output>>

(* putbuf() begins; a thread that has the lock may call it again. *)
acquire_console(t) ==
  /\ t \in Writers /\ At(t, "idle")
  /\ mode = "QUEUE" /\ Len(written) < MaxOutput
  /\ console_lock = NULL
  /\ console_lock' = t
  /\ c' = [c EXCEPT ![t] = [at |-> "putc", left |-> <<CallSize>>]]
  /\ UNCHANGED <<buffer, txq, uart, console_lock_depth, halted, input, output>>

AcquireAgain(t) ==
  /\ t \in Writers /\ At(t, "putc")
  /\ console_lock = t /\ Len(c[t].left) = 1
  /\ Len(written) < MaxOutput
  /\ console_lock_depth' = console_lock_depth + 1
  /\ c' = [c EXCEPT ![t].left = <<1>> \o @]
  /\ UNCHANGED <<buffer, txq, uart, console_lock, halted, input, output>>

(* Mutant of release_console: the nested call releases the lock. *)
ReleaseAtOnce(t) ==
  /\ t \in Writers /\ At(t, "putc") /\ Head(c[t].left) = 0
  /\ console_lock' = NULL
  /\ c' = [c EXCEPT ![t] = [at |-> IF Len(@.left) > 1 THEN "putc" ELSE "idle", left |-> Tail(@.left)]]
  /\ UNCHANGED <<buffer, txq, uart, console_lock_depth, halted, input, output>>

(* putbuf() ends. *)
release_console(t) ==
  /\ t \in Writers /\ At(t, "putc") /\ Head(c[t].left) = 0
  /\ IF console_lock_depth > 0
       THEN console_lock_depth' = console_lock_depth - 1 /\ UNCHANGED console_lock
       ELSE console_lock' = NULL /\ UNCHANGED console_lock_depth
  /\ c' = [c EXCEPT ![t] = [at |-> IF Len(@.left) > 1 THEN "putc" ELSE "idle", left |-> Tail(@.left)]]
  /\ UNCHANGED <<buffer, txq, uart, halted, input, output>>

(***************************************************************************)
(* serial_putc() for a thread.  The console lock keeps the others away     *)
(* from the lock of the queue.                                             *)
(***************************************************************************)
Putting(t) ==
  t \in Writers /\ ((At(t, "putc") /\ Head(c[t].left) > 0) \/ At(t, "woken"))

PutByte(t) ==
  /\ Putting(t)
  /\ ~intq_full(txq)
  /\ txq' = [Putc(txq, t) EXCEPT !.lock = NULL]
  /\ ier' = write_ier(buffer, txq')
  /\ written' = Append(written, t)
  /\ c' = [Signal(c, txq.not_empty) EXCEPT ![t].at = "putc", ![t].left[1] = @ - 1]
  /\ UNCHANGED <<buffer, mode, rbr, thr, console, halted, input, sent>>

PutBlocks(t) ==
  /\ Putting(t)
  /\ intq_full(txq)
  /\ Waits(txq, t)
  /\ txq' = [txq EXCEPT !.lock = t, !.not_full = t]
  /\ c' = [c EXCEPT ![t].at = "blocked"]
  /\ UNCHANGED <<buffer, uart, console, halted, input, output>>

(* Mutant of PutInterrupt: the new byte is sent, not the oldest. *)
PutInterruptFirst ==
  /\ ~halted /\ mode = "QUEUE"
  /\ Len(written) < MaxOutput
  /\ written' = Append(written, "intr")
  /\ IF intq_full(txq)
       THEN /\ sent' = sent \o InThr
            /\ thr' = "intr"
            /\ UNCHANGED <<txq, c>>
       ELSE /\ txq' = Putc(txq, "intr")
            /\ c' = Signal(c, txq.not_empty)
            /\ UNCHANGED <<thr, sent>>
  /\ ier' = write_ier(buffer, txq')
  /\ UNCHANGED <<buffer, mode, rbr, console, halted, input>>

(***************************************************************************)
(* printf() in an interrupt handler takes no lock, and does not wait: if   *)
(* the queue is full, the oldest byte is sent by polling.                  *)
(***************************************************************************)
PutInterrupt ==
  /\ ~halted /\ mode = "QUEUE"
  /\ Len(written) < MaxOutput
  /\ written' = Append(written, "intr")
  /\ IF intq_full(txq)
       THEN /\ sent' = sent \o InThr
            /\ thr' = Oldest(txq)
            /\ txq' = Putc(Getc(txq), "intr")
            /\ c' = Signal(c, txq.not_full)
       ELSE /\ txq' = Putc(txq, "intr")
            /\ c' = Signal(c, txq.not_empty)
            /\ UNCHANGED <<thr, sent>>
  /\ ier' = write_ier(buffer, txq')
  /\ UNCHANGED <<buffer, mode, rbr, console, halted, input>>

-----------------------------------------------------------------------------
(* keyboard_interrupt() for a character: dropped when the buffer is full. *)
KeyboardInterrupt ==
  /\ ~halted /\ Len(typed) < MaxInput
  /\ ~intq_full(buffer)
  /\ buffer' = Putc(buffer, "key")
  /\ typed' = Append(typed, "key")
  /\ c' = Signal(c, buffer.not_empty)
  /\ ier' = serial_notify(buffer')
  /\ UNCHANGED <<txq, mode, rbr, thr, console, halted, taken, output>>

(* serial_interrupt(): receive a byte, send a byte, update IER. *)
SerialInterrupt ==
  /\ ~halted
  /\ (rbr # NULL /\ "recv" \in ier) \/ (thr = NULL /\ "xmit" \in ier)
  /\ LET receive == rbr # NULL /\ ~intq_full(buffer)
         send    == thr = NULL /\ ~intq_empty(txq)
     IN  /\ buffer' = IF receive THEN Putc(buffer, rbr) ELSE buffer
         /\ typed' = IF receive THEN Append(typed, rbr) ELSE typed
         /\ rbr' = IF receive THEN NULL ELSE rbr
         /\ txq' = IF send THEN Getc(txq) ELSE txq
         /\ thr' = IF send THEN Oldest(txq) ELSE thr
         /\ c' = Signal(Signal(c, IF receive THEN buffer.not_empty ELSE NULL),
                        IF send THEN txq.not_full ELSE NULL)
  /\ ier' = write_ier(buffer', txq')
  /\ UNCHANGED <<mode, console, halted, taken, output>>

(* The UART sends and receives. *)
UartSends ==
  /\ ~halted /\ thr # NULL
  /\ sent' = Append(sent, thr)
  /\ thr' = NULL
  /\ UNCHANGED <<buffer, txq, mode, ier, rbr, console, c, halted, input, written>>

UartReceives ==
  /\ ~halted /\ rbr = NULL /\ Len(typed) < MaxInput
  /\ rbr' = "serial"
  /\ UNCHANGED <<buffer, txq, mode, ier, thr, console, c, halted, input, output>>

-----------------------------------------------------------------------------
ReadStep(t)  == GetByte(t) \/ GetBlocks(t) \/ GetLocks(t)
WriteStep(t) == PutByte(t) \/ PutBlocks(t) \/ release_console(t)

TtyNext ==
  \/ \E t \in Users : ReadStep(t) \/ WriteStep(t) \/ acquire_console(t) \/ AcquireAgain(t)
  \/ PutPolled \/ serial_init_queue \/ PutInterrupt
  \/ KeyboardInterrupt \/ SerialInterrupt \/ UartSends \/ UartReceives \/ Panic

TtySpec == TtyInit /\ [][TtyNext]_ttyVars

-----------------------------------------------------------------------------
(***************************************************************************)
(* No byte is lost, repeated or overtaken between who produces it and who  *)
(* consumes it, at the ends of the queues and when polling and interrupts  *)
(* mix; and after a panic everything has been sent.                        *)
(***************************************************************************)
InOrder ==
  /\ taken \o Contents(buffer) = typed
  /\ sent \o InThr \o Contents(txq) = written
  /\ halted => sent = written

(* No thread has written after t, which has. *)
WroteLast(t) ==
  \E i \in 1 .. Len(written) :
    written[i] = t /\ \A j \in i + 1 .. Len(written) : written[j] \notin Writers

(***************************************************************************)
(* What a thread writes in one call of putbuf() is not mixed with what     *)
(* another thread writes, also when calls are nested: a thread in a call   *)
(* has the lock and wrote last.                                            *)
(***************************************************************************)
NotMixed ==
  \A t \in Writers :
    At(t, "idle") \/ halted
      \/ /\ console_lock = t
         /\ console_lock_depth = Len(c[t].left) - 1
         /\ Last(c[t].left) < CallSize => WroteLast(t)

(***************************************************************************)
(* Nobody sleeps over what he waits for: a thread that blocks on a queue   *)
(* is the one the queue will wake, the condition it waits for is false,    *)
(* and the UART may interrupt when that is what will make it true.         *)
(***************************************************************************)
NoMissedWakeup ==
  halted \/
    /\ \A t \in Readers : c[t].at = "blocked" => buffer.not_empty = t /\ intq_empty(buffer)
    /\ \A t \in Writers : c[t].at = "blocked" => txq.not_full = t /\ intq_full(txq)
    /\ mode = "QUEUE" => ier = write_ier(buffer, txq)
=============================================================================
