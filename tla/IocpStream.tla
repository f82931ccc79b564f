----------------------------- MODULE IocpStream -----------------------------
(***************************************************************************)
(* IocpStreamClient (src/dxiocp/dxiocp.cpp): fetches chunks from the       *)
(* server and copies them into VRAM slots.  One thread makes all calls.    *)
(*                                                                         *)
(* A receive (recv_exact) is an overlapped WSARecv.  Data that is there is *)
(* taken at once; otherwise the thread waits at the completion port.  The  *)
(* port gets a packet for every WSARecv, also for one that was done at     *)
(* once, and the thread takes the first packet there is, whatever receive  *)
(* it is of.  What is missing then is read with blocking recv.             *)
(*                                                                         *)
(* A chunk goes through one staging buffer, which the COPY queue reads     *)
(* when it comes to the copy.                                              *)
(*                                                                         *)
(* A receive that returns without the bytes it is for leaves the client    *)
(* with a header or a body of other bytes; what it does then is not        *)
(* modelled ("derailed").  Left out: zstd, statistics, failures of D3D12   *)
(* calls, a chunk larger than the staging buffer.                          *)
(***************************************************************************)
EXTENDS ChunkLink

CONSTANTS
  Slots,      (* destination buffers in VRAM                               *)
  Index,      (* the request of fetch_index; the others are of fetch_chunk *)
  Filler,     (* what warm_vram writes                                     *)
  MaxCalls    (* bound: calls made                                         *)

ASSUME ClientAssumption ==
  /\ Index \in Requests
  /\ Filler \notin Requests
  /\ Slots # {}
  /\ MaxCalls \in Nat

VARIABLES
  pc,           (* where the client's thread is                            *)
  phase,        (* what it receives: "header" or "body"                    *)
  cur, slot,    (* the request it is in, and its destination               *)
  receive,      (* receives (WSARecv) issued so far: the number of the last*)
  bytes,        (* pieces the present receive is known to have             *)
  buf,          (* the piece at each position of its buffer, 0 for none    *)
  outstanding,  (* a WSARecv is pending                                    *)
  packets,      (* completion packets at the port                          *)
  staging,      (* contents of m_staging                                   *)
  copies,       (* copies the COPY queue has not done                      *)
  fence_value,  (* m_copy_fence_value, which is also m_last_copy_fv        *)
  reached,      (* completed value of m_copy_fence                         *)
  vram,         (* contents of each slot                                   *)
  want,         (* history: the last copy into each slot, and of what      *)
  calls,        (* calls made                                              *)
  mixed,        (* history: a packet was taken for another receive's       *)
  scribbled     (* history: copies whose source was overwritten            *)

recvVars == <<phase, receive, bytes, buf, outstanding, packets, mixed>>
copyVars == <<staging, copies, fence_value, reached, vram, want, scribbled>>
callVars == <<cur, slot, calls>>
vars == <<linkVars, pc, recvVars, copyVars, callVars>>

Positions == 1..Whole

(* Pieces recv_exact is asked for.                                         *)
Length(p) == IF p = "header" THEN 1 ELSE Units

Empty == [i \in Positions |-> 0]

(* After connect, whose warm_copy_queue has signalled 1 and waited for it.  *)
Init ==
  /\ LinkInit
  /\ pc = "idle"
  /\ phase = "header"
  /\ cur = Index
  /\ slot = CHOOSE s \in Slots : TRUE
  /\ receive = 0
  /\ bytes = 0
  /\ buf = Empty
  /\ outstanding = FALSE
  /\ packets = {}
  /\ staging = NoRequest
  /\ copies = {}
  /\ fence_value = 1
  /\ reached = 1
  /\ vram = [s \in Slots |-> NoRequest]
  /\ want = [s \in Slots |-> [fv |-> 0, of |-> NoRequest]]
  /\ calls = 0
  /\ mixed = FALSE
  /\ scribbled = {}

-----------------------------------------------------------------------------
(* Calls.                                                                  *)

(* Mutant: the staging buffer is refilled whatever the COPY queue does.    *)
NoCopyToWaitFor(r) == TRUE

(* fetch_index uses no staging; fetch_chunk must not refill it while the   *)
(* last copy still reads it.                                               *)
StagingFree(r) == r = Index \/ reached >= fence_value

Call(r, s) ==
  /\ pc = "idle"
  /\ calls < MaxCalls
  /\ calls' = calls + 1
  /\ cur' = r
  /\ slot' = s
  /\ pc' = "waiting"
  /\ UNCHANGED <<linkVars, recvVars, copyVars>>

(* wait_copy(m_last_copy_fv).                                              *)
StagingWaited ==
  /\ pc = "waiting"
  /\ StagingFree(cur)
  /\ pc' = "sending"
  /\ UNCHANGED <<linkVars, recvVars, copyVars, callVars>>

(* send_request; a connection that was closed fails it.                    *)
SendRequest ==
  /\ pc = "sending"
  /\ open
  /\ inbox' = cur
  /\ phase' = "header"
  /\ pc' = "receiving"
  /\ UNCHANGED <<open, server, serving, sent, taken, receive, bytes, buf,
                 outstanding, packets, mixed, copyVars, callVars>>

(* An operation on the closed connection throws.                           *)
Throw ==
  /\ ~open
  /\ pc \in {"sending", "receiving", "port", "rest"}
  /\ pc' = "idle"
  /\ outstanding' = FALSE
  /\ UNCHANGED <<linkVars, phase, receive, bytes, buf, packets, mixed,
                 copyVars, callVars>>

-----------------------------------------------------------------------------
(* recv_exact.                                                             *)

(* The next k pieces of the stream, put into b behind position n.          *)
Put(b, n, k) ==
  [i \in Positions |-> IF i \in (n + 1)..(n + k) THEN taken + i - n ELSE b[i]]

(* WSARecv, and its packet, when there is data.                            *)
ReceiveAtOnce ==
  LET k == Fitting(Length(phase))
  IN  /\ pc = "receiving"
      /\ Arrived > 0
      /\ receive' = receive + 1
      /\ buf' = Put(Empty, 0, k)
      /\ bytes' = k
      /\ taken' = taken + k
      /\ packets' = packets \cup {[receive |-> receive + 1, bytes |-> k]}
      /\ pc' = "rest"
      /\ UNCHANGED <<open, inbox, server, serving, sent, phase, outstanding,
                     mixed, copyVars, callVars>>

(* WSA_IO_PENDING.                                                         *)
ReceivePending ==
  /\ pc = "receiving"
  /\ Arrived = 0
  /\ receive' = receive + 1
  /\ buf' = Empty
  /\ bytes' = 0
  /\ outstanding' = TRUE
  /\ pc' = "port"
  /\ UNCHANGED <<linkVars, phase, packets, mixed, copyVars, callVars>>

(* The pending WSARecv gets what has arrived (external).                   *)
Deliver ==
  LET k == Fitting(Length(phase))
  IN  /\ outstanding
      /\ pc # "derailed"
      /\ Arrived > 0
      /\ buf' = Put(buf, 0, k)
      /\ taken' = taken + k
      /\ outstanding' = FALSE
      /\ packets' = packets \cup {[receive |-> receive, bytes |-> k]}
      /\ UNCHANGED <<open, inbox, server, serving, sent, pc, phase, receive,
                     bytes, mixed, copyVars, callVars>>

(* The packets come out in the order they went in.                         *)
FirstPacket(p) == \A o \in packets : p.receive <= o.receive

(* GetQueuedCompletionStatus.                                              *)
TakePacket(p) ==
  /\ pc = "port"
  /\ p \in packets
  /\ FirstPacket(p)
  /\ packets' = packets \ {p}
  /\ bytes' = p.bytes
  /\ mixed' = (mixed \/ p.receive # receive)
  /\ pc' = "rest"
  /\ UNCHANGED <<linkVars, phase, receive, buf, outstanding, copyVars, callVars>>

(* Mutant: the remainder is put at the front of the buffer.                *)
RestAtFront(n) == 0

(* Where the remainder goes: behind the bytes there are.                   *)
RestAt(n) == n

(* The blocking recv; a pending WSARecv is served before it.               *)
ReceiveRest ==
  LET k == Fitting(Length(phase) - bytes)
  IN  /\ pc = "rest"
      /\ bytes < Length(phase)
      /\ ~outstanding
      /\ Arrived > 0
      /\ buf' = Put(buf, RestAt(bytes), k)
      /\ bytes' = bytes + k
      /\ taken' = taken + k
      /\ UNCHANGED <<open, inbox, server, serving, sent, pc, phase, receive,
                     outstanding, packets, mixed, copyVars, callVars>>

(* Every piece is where it belongs.                                        *)
Landed == \A i \in 1..Length(phase) :
            buf[i] = IF phase = "header" THEN i ELSE i + 1

Received == pc = "rest" /\ bytes >= Length(phase)

HeaderReceived ==
  /\ Received
  /\ phase = "header"
  /\ IF Landed THEN phase' = "body" /\ pc' = "receiving"
               ELSE phase' = phase /\ pc' = "derailed"
  /\ UNCHANGED <<linkVars, receive, bytes, buf, outstanding, packets, mixed,
                 copyVars, callVars>>

(* fetch_index is done with its body.                                      *)
IndexReceived ==
  /\ Received
  /\ phase = "body"
  /\ cur = Index
  /\ pc' = IF Landed THEN "idle" ELSE "derailed"
  /\ UNCHANGED <<linkVars, recvVars, copyVars, callVars>>

-----------------------------------------------------------------------------
(* The staging buffer and the COPY queue.                                  *)

(* Mutant: the fence value of the copy before.                             *)
FenceBefore(v) == v

(* The fence value submit_copy returns.                                    *)
FenceOfCopy(v) == v + 1

(* submit_copy of staging, filled with c, into s.                          *)
SubmitCopy(c, s) ==
  /\ staging' = c
  /\ scribbled' = scribbled \cup {o.fv : o \in copies}
  /\ fence_value' = fence_value + 1
  /\ copies' = copies \cup {[fv |-> fence_value + 1, dst |-> s]}
  /\ want' = [want EXCEPT ![s] = [fv |-> FenceOfCopy(fence_value), of |-> c]]
  /\ UNCHANGED <<reached, vram>>

(* The end of fetch_chunk: memcpy into staging, submit_copy.               *)
ChunkReceived ==
  /\ Received
  /\ phase = "body"
  /\ cur # Index
  /\ IF Landed THEN pc' = "idle" /\ SubmitCopy(cur, slot)
               ELSE pc' = "derailed" /\ UNCHANGED copyVars
  /\ UNCHANGED <<linkVars, recvVars, callVars>>

(* warm_vram fills staging and submits at once, then waits for its copy.   *)
WarmVram(s) ==
  /\ pc = "idle"
  /\ calls < MaxCalls
  /\ calls' = calls + 1
  /\ SubmitCopy(Filler, s)
  /\ pc' = "warming"
  /\ UNCHANGED <<linkVars, recvVars, cur, slot>>

WarmEnds ==
  /\ pc = "warming"
  /\ reached >= fence_value
  /\ pc' = "idle"
  /\ UNCHANGED <<linkVars, recvVars, copyVars, callVars>>

FirstCopy(c) == \A o \in copies : c.fv <= o.fv

(* The COPY queue does its first copy and reaches the signal behind it     *)
(* (external).                                                             *)
CopyDone(c) ==
  /\ c \in copies
  /\ FirstCopy(c)
  /\ copies' = copies \ {c}
  /\ vram' = [vram EXCEPT ![c.dst] = staging]
  /\ reached' = c.fv
  /\ UNCHANGED <<linkVars, pc, recvVars, staging, fence_value, want, scribbled,
                 callVars>>

-----------------------------------------------------------------------------
ClientStep ==
  \/ StagingWaited \/ SendRequest \/ Throw
  \/ ReceiveAtOnce \/ ReceivePending \/ (\E p \in packets : TakePacket(p))
  \/ ReceiveRest \/ HeaderReceived \/ IndexReceived \/ ChunkReceived \/ WarmEnds

ServerStep == Serve /\ UNCHANGED <<pc, recvVars, copyVars, callVars>>
Stop == StopServer /\ UNCHANGED <<pc, recvVars, copyVars, callVars>>
CopyStep == \E c \in copies : CopyDone(c)

Next ==
  \/ \E r \in Requests, s \in Slots : Call(r, s)
  \/ \E s \in Slots : WarmVram(s)
  \/ ClientStep
  \/ Deliver
  \/ ServerStep
  \/ Stop
  \/ CopyStep

Spec == Init /\ [][Next]_vars

(* Each thread, the network and the COPY queue go on when they can; nobody *)
(* has to call or to stop the server.                                      *)
FairSpec ==
  /\ Spec
  /\ WF_vars(ClientStep)
  /\ WF_vars(Deliver)
  /\ WF_vars(ServerStep)
  /\ WF_vars(CopyStep)

-----------------------------------------------------------------------------
(* "submit WSARecv, wait for the completion-port completion, return when   *)
(* the full chunk has landed" (recv_exact).                                *)
ReturnsWhenLanded == pc # "derailed"

(* A receive can return without its bytes only after the thread took the   *)
(* packet of another receive for its own.                                  *)
OnlyMixedDerails == pc = "derailed" => mixed

(* Once the fence value fetch_chunk returned is completed, the slot holds  *)
(* the chunk, however receives and copies overlapped, unless staging was   *)
(* overwritten under the copy.                                             *)
DeliveredInSlot ==
  \A s \in Slots :
    0 < want[s].fv /\ want[s].fv <= reached /\ want[s].fv \notin scribbled =>
      vram[s] = want[s].of

(* Only warm_vram overwrites staging under a copy: fetches never do        *)
(* (dxiocp.cpp:307-312).                                                   *)
FetchesKeepStaging ==
  [][pc' # "warming" => scribbled' = scribbled]_vars

(* A fetch returns or throws, unless the server gave up on the request     *)
(* (serve_conn returned with the socket open) or a packet was mixed up.    *)
FetchReturns ==
  pc # "idle" ~> pc = "idle" \/ mixed \/ (open /\ server = "returned")
=============================================================================
