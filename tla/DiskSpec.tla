------------------------------- MODULE DiskSpec -------------------------------
(***************************************************************************)
(* What disk_read() and disk_write() promise to any number of threads: a   *)
(* disk is an array of sectors, and a call reads or writes one of them at  *)
(* one moment between its beginning and its end (devices/disk.c: "external *)
(* per-disk locking is unneeded").                                         *)
(***************************************************************************)
CONSTANTS Threads, Disks, Sectors, Values

VARIABLES
  store,          \* the contents of the disks
  request         \* of a thread: what it has asked for, or what it has got

Asked == [op : {"read", "write"}, disk : Disks, sector : Sectors, value : Values]

Quiet        == [at |-> "quiet"]
Pending(ask) == [at |-> "pending", ask |-> ask]
Answer(ask)  == [at |-> "answer", ask |-> ask]

Init ==
  /\ store \in [Disks -> [Sectors -> Values]]
  /\ request = [t \in Threads |-> Quiet]

Ask(t, ask) ==
  /\ request[t] = Quiet
  /\ request' = [request EXCEPT ![t] = Pending(ask)]
  /\ UNCHANGED store

Read(t, ask) ==
  /\ ask.op = "read" /\ request[t] = Pending(ask)
  /\ request' = [request EXCEPT ![t] = Answer([ask EXCEPT !.value = store[ask.disk][ask.sector]])]
  /\ UNCHANGED store

Write(t, ask) ==
  /\ ask.op = "write" /\ request[t] = Pending(ask)
  /\ store' = [store EXCEPT ![ask.disk][ask.sector] = ask.value]
  /\ request' = [request EXCEPT ![t] = Answer(ask)]

Reply(t, ask) ==
  /\ request[t] = Answer(ask)
  /\ request' = [request EXCEPT ![t] = Quiet]
  /\ UNCHANGED store

Next == \E t \in Threads, ask \in Asked : Ask(t, ask) \/ Read(t, ask) \/ Write(t, ask) \/ Reply(t, ask)

Spec == Init /\ [][Next]_<<store, request>>
=============================================================================
