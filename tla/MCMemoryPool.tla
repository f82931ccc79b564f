---------------------------- MODULE MCMemoryPool ----------------------------
(* A small instance of MemoryPool: one request for each kind of memory, of *)
(* different sizes. *)
EXTENDS MemoryPool

MCRequests == {[location |-> "managed",  bytes |-> 1],
               [location |-> "readback", bytes |-> 2],
               [location |-> "device",   bytes |-> 4]}
=============================================================================
