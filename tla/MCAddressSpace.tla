---------------------------- MODULE MCAddressSpace ----------------------------
(* A small instance of AddressSpace for TLC. *)
EXTENDS AddressSpace

(* Sizes and addresses on both sides of the limits that validate_segment() tests. *)
SomePhdrs ==
  [p_offset : {0, 8, 40, 96}, p_vaddr : {8, 32, 40, 72, 232}, p_filesz : {0, 20, 50},
   p_memsz : {0, 20, 50, 130, 200}]

SomeLines == {<<1>>, <<2>>, <<3>>, <<2, 1>>, <<7, 7, 7>>}

(* Only a process with one plain segment at 32 and one argument goes on to map files. *)
Plain ==
  map_id > 0 \/ list_mmap # <<>> =>
    args = <<1>> /\ phdrs = <<[p_offset |-> 0, p_vaddr |-> 32, p_filesz |-> 20, p_memsz |-> 20]>>
=============================================================================
