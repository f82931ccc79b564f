---------------------------- MODULE MCIocpStream ----------------------------
(***************************************************************************)
(* The instance of IocpStream TLC checks: the index, two chunks, and a     *)
(* range that ends beyond the end of the payload file.                     *)
(***************************************************************************)
EXTENDS IocpStream

CONSTANTS index, chunk, other, beyond

MCRequests == {index, chunk, other, beyond}
MCServes   == [r \in MCRequests |-> IF r = beyond THEN Units ELSE Units + 1]
=============================================================================
