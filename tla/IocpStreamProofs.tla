-------------------------- MODULE IocpStreamProofs --------------------------
(***************************************************************************)
(* Proofs about IocpStream for any requests, number of pieces and slots.   *)
(*                                                                         *)
(* Two arguments that do not meet.  The receives: as long as no packet was *)
(* taken for another receive's, the client knows which piece of the        *)
(* response comes next, and between calls nothing of a response is left    *)
(* (Framing).  The copies: each has a fence value of its own that the      *)
(* fence has not reached, a fetch begins only when there is none, and what *)
(* a slot is to get is in staging until it is scribbled over (CopiesInv).  *)
(***************************************************************************)
EXTENDS IocpStream, TLAPS

Outside   == {"idle", "waiting", "sending", "warming"}
Receiving == {"receiving", "port", "rest"}

Contents == Requests \cup {NoRequest, Filler}

TypeOK ==
  /\ open \in BOOLEAN
  /\ inbox \in Requests \cup {NoRequest}
  /\ server \in {"receiving", "sending", "returned"}
  /\ serving \in Requests \cup {NoRequest}
  /\ server = "sending" => serving \in Requests
  /\ sent \in Nat /\ taken \in Nat /\ taken <= sent /\ sent <= Whole
  /\ pc \in Outside \cup Receiving \cup {"derailed"}
  /\ phase \in {"header", "body"}
  /\ cur \in Requests
  /\ slot \in Slots
  /\ receive \in Nat
  /\ bytes \in Nat
  /\ buf \in [Positions -> Nat]
  /\ outstanding \in BOOLEAN
  /\ packets \subseteq [receive : Nat, bytes : Nat]
  /\ staging \in Contents
  /\ copies \subseteq [fv : Nat, dst : Slots]
  /\ fence_value \in Nat /\ reached \in Nat
  /\ vram \in [Slots -> Contents]
  /\ want \in [Slots -> [fv : Nat, of : Contents]]
  /\ calls \in Nat
  /\ mixed \in BOOLEAN
  /\ scribbled \subseteq Nat

-----------------------------------------------------------------------------
(* Receives.                                                               *)

(* The pieces of the response before what the present receive is for.      *)
Base == IF phase = "header" THEN 0 ELSE 1

(* The server has nothing left to send of the last response.               *)
Quiet == sent = taken /\ (server = "sending" => sent = Whole)

(* A receive that has nothing yet: it is its turn, or the server has not   *)
(* come to the request.                                                    *)
HasNothing ==
  \/ inbox = NoRequest /\ taken = Base
  \/ phase = "header" /\ inbox # NoRequest /\ Quiet

Has(n) ==
  /\ inbox = NoRequest
  /\ taken = Base + n
  /\ n <= Length(phase)
  /\ \A i \in 1 .. n : buf[i] = Base + i

PacketsInv == \A p \in packets : p.receive <= receive

Framing ==
  /\ pc # "derailed"
  /\ pc \in Outside => ~outstanding /\ (open => inbox = NoRequest /\ Quiet)
  /\ pc = "receiving" => ~outstanding /\ HasNothing
  /\ pc = "port" /\ outstanding =>
       HasNothing /\ \A p \in packets : p.receive # receive
  /\ pc = "port" /\ ~outstanding =>
       \A p \in packets : p.receive = receive => Has(p.bytes)
  /\ pc = "rest" => ~outstanding /\ Has(bytes)

ReceiveInv == PacketsInv /\ (~mixed => Framing)

-----------------------------------------------------------------------------
(* Copies.                                                                 *)
FencesInv ==
  /\ reached <= fence_value
  /\ \A c \in copies : reached < c.fv /\ c.fv <= fence_value
  /\ \A c, o \in copies : c.fv = o.fv => c = o

(* A fetch of a chunk has the staging buffer for itself.                   *)
StagingQuiet ==
  pc \in Receiving \cup {"sending"} /\ cur # Index => copies = {}

(* The copy each slot waits for is the last into it.                       *)
WantedInv ==
  \A s \in Slots :
    /\ \A c \in copies : c.dst = s => c.fv <= want[s].fv
    /\ reached < want[s].fv =>
         /\ [fv |-> want[s].fv, dst |-> s] \in copies
         /\ want[s].fv \notin scribbled => staging = want[s].of

CopiesInv == FencesInv /\ StagingQuiet /\ WantedInv /\ DeliveredInSlot

IInv == TypeOK /\ ReceiveInv /\ CopiesInv
-----------------------------------------------------------------------------
LEMMA Numbers ==
  /\ Units \in Nat \ {0} /\ Whole \in Nat /\ Whole = Units + 1
  /\ \A r \in Requests : Serves[r] \in Nat /\ Serves[r] <= Whole
  /\ \A p \in {"header", "body"} : Length(p) \in Nat \ {0} /\ Length(p) <= Units
BY LinkAssumption DEF Whole, Length

(* A receive gets what has arrived, and not more than it asked for.        *)
LEMMA Fits ==
  ASSUME TypeOK, NEW n \in Nat
  PROVE  /\ Fitting(n) \in Nat /\ Fitting(n) <= n
         /\ taken + Fitting(n) <= sent
BY DEF Fitting, Arrived, TypeOK

LEMMA PutIsBuffer ==
  ASSUME TypeOK, NEW b \in [Positions -> Nat], NEW n \in Nat, NEW k \in Nat
  PROVE  /\ Put(b, n, k) \in [Positions -> Nat]
         /\ \A i \in Positions : i <= n => Put(b, n, k)[i] = b[i]
         /\ \A i \in Positions : n < i /\ i <= n + k => Put(b, n, k)[i] = taken + i - n
<1>1. \A i \in Positions : i \in Nat
  BY Numbers DEF Positions
<1>2. \A i \in (n + 1) .. (n + k) : taken + i - n \in Nat
  BY DEF TypeOK
<1>3. QED
  BY <1>1, <1>2 DEF Put

LEMMA TypeInit == Init => TypeOK
<1> SUFFICES ASSUME Init PROVE TypeOK
  OBVIOUS
<1>1. slot \in Slots
  BY ClientAssumption DEF Init
<1>2. Empty \in [Positions -> Nat]
  BY DEF Empty
<1>3. vram \in [Slots -> Contents] /\ want \in [Slots -> [fv : Nat, of : Contents]]
  BY DEF Init, Contents
<1>4. staging \in Contents /\ cur \in Requests /\ pc \in Outside
  BY ClientAssumption DEF Init, Contents, Outside
<1>5. sent \in Nat /\ taken \in Nat /\ taken <= sent /\ sent <= Whole
  BY Numbers DEF Init, LinkInit
<1>6. QED
  BY <1>1, <1>2, <1>3, <1>4, <1>5 DEF Init, LinkInit, TypeOK

-----------------------------------------------------------------------------
(* Types.                                                                  *)

LEMMA TypeLink ==
  ASSUME TypeOK, ServerStep \/ Stop
  PROVE  TypeOK'
<1> USE Numbers DEF linkVars, recvVars, copyVars, callVars, TypeOK
<1>1. CASE TakeRequest /\ ServerStep
  BY <1>1 DEF TakeRequest, ServerStep
<1>2. CASE SendPiece /\ ServerStep
  <2>1. sent + 1 <= Whole
    BY <1>2 DEF SendPiece
  <2>2. QED
    BY <1>2, <2>1 DEF SendPiece, ServerStep
<1>3. CASE EndResponse /\ ServerStep
  BY <1>3 DEF EndResponse, ServerStep
<1>4. CASE Stop
  BY <1>4 DEF Stop, StopServer
<1>5. QED
  BY <1>1, <1>2, <1>3, <1>4 DEF ServerStep, Serve

LEMMA TypeReceives ==
  ASSUME TypeOK, ReceiveAtOnce \/ ReceivePending \/ Deliver \/ ReceiveRest
                 \/ \E p \in packets : TakePacket(p)
  PROVE  TypeOK'
<1> USE Numbers DEF linkVars, recvVars, copyVars, callVars, Receiving, Outside
<1>e. Empty \in [Positions -> Nat]
  BY DEF Empty
<1>1. CASE ReceiveAtOnce
  <2> DEFINE k == Fitting(Length(phase))
  <2>1. k \in Nat /\ taken + k <= sent
    BY Fits DEF TypeOK
  <2>2. Put(Empty, 0, k) \in [Positions -> Nat]
    BY <1>e, <2>1, PutIsBuffer
  <2>3. [receive |-> receive + 1, bytes |-> k] \in [receive : Nat, bytes : Nat]
    BY <2>1 DEF TypeOK
  <2> HIDE DEF k
  <2>4. QED
    BY <1>1, <2>1, <2>2, <2>3 DEF ReceiveAtOnce, TypeOK, k
<1>2. CASE ReceivePending
  BY <1>2, <1>e DEF ReceivePending, TypeOK
<1>3. CASE Deliver
  <2> DEFINE k == Fitting(Length(phase))
  <2>1. k \in Nat /\ taken + k <= sent
    BY Fits DEF TypeOK
  <2>2. Put(buf, 0, k) \in [Positions -> Nat]
    BY <2>1, PutIsBuffer DEF TypeOK
  <2>3. [receive |-> receive, bytes |-> k] \in [receive : Nat, bytes : Nat]
    BY <2>1 DEF TypeOK
  <2>4. packets' \subseteq [receive : Nat, bytes : Nat]
    BY <1>3, <2>3 DEF Deliver, TypeOK
  <2>5. taken' = taken + k /\ buf' = Put(buf, 0, k) /\ outstanding' = FALSE
        /\ UNCHANGED <<open, inbox, server, serving, sent, pc, phase, receive, bytes, mixed,
                       copyVars, callVars>>
    BY <1>3 DEF Deliver
  <2> HIDE DEF k
  <2>6. /\ taken' \in Nat /\ taken' <= sent'
        /\ buf' \in [Positions -> Nat] /\ outstanding' \in BOOLEAN
    <3>1. taken \in Nat /\ sent \in Nat /\ taken' = taken + k /\ sent' = sent
      BY <2>5 DEF TypeOK
    <3>2. outstanding' \in BOOLEAN /\ buf' \in [Positions -> Nat]
      BY <2>2, <2>5
    <3>3. taken' \in Nat /\ taken' <= sent'
      BY <2>1, <3>1
    <3>4. QED
      BY <3>2, <3>3
  <2>7. QED
    BY <2>4, <2>5, <2>6 DEF TypeOK
<1>4. CASE ReceiveRest
  <2> DEFINE k == Fitting(Length(phase) - bytes)
  <2>0. Length(phase) - bytes \in Nat
    BY <1>4 DEF ReceiveRest, TypeOK
  <2>1. k \in Nat /\ taken + k <= sent
    BY <2>0, Fits
  <2>2. Put(buf, bytes, k) \in [Positions -> Nat]
    BY <2>1, PutIsBuffer DEF TypeOK
  <2> HIDE DEF k
  <2>3. QED
    BY <1>4, <2>1, <2>2 DEF ReceiveRest, RestAt, TypeOK, k
<1>5. CASE \E p \in packets : TakePacket(p)
  <2>1. PICK p \in packets : TakePacket(p)
    BY <1>5
  <2>2. p.receive \in Nat /\ p.bytes \in Nat
    BY DEF TypeOK
  <2>3. QED
    BY <2>1, <2>2 DEF TakePacket, TypeOK
<1>6. QED
  BY <1>1, <1>2, <1>3, <1>4, <1>5

LEMMA TypeCalls ==
  ASSUME TypeOK, \/ \E r \in Requests, s \in Slots : Call(r, s)
                 \/ StagingWaited \/ SendRequest \/ Throw
                 \/ HeaderReceived \/ IndexReceived \/ WarmEnds
  PROVE  TypeOK'
<1> USE DEF linkVars, recvVars, copyVars, callVars, Receiving, Outside, TypeOK
<1>1. CASE \E r \in Requests, s \in Slots : Call(r, s)
  BY <1>1 DEF Call
<1>2. CASE StagingWaited \/ SendRequest \/ Throw
  BY <1>2 DEF StagingWaited, SendRequest, Throw
<1>3. CASE HeaderReceived \/ IndexReceived \/ WarmEnds
  BY <1>3 DEF HeaderReceived, IndexReceived, WarmEnds
<1>4. QED
  BY <1>1, <1>2, <1>3

LEMMA TypeCopies ==
  ASSUME TypeOK, ChunkReceived \/ (\E s \in Slots : WarmVram(s)) \/ CopyStep
  PROVE  TypeOK'
<1>1. ASSUME NEW c \in Requests \cup {Filler}, NEW s \in Slots, SubmitCopy(c, s)
      PROVE  /\ staging' \in Contents /\ scribbled' \subseteq Nat /\ fence_value' \in Nat
             /\ copies' \subseteq [fv : Nat, dst : Slots] /\ reached' \in Nat
             /\ want' \in [Slots -> [fv : Nat, of : Contents]] /\ vram' \in [Slots -> Contents]
  <2>1. want' \in [Slots -> [fv : Nat, of : Contents]] /\ vram' \in [Slots -> Contents]
    BY <1>1 DEF SubmitCopy, TypeOK, Contents, FenceOfCopy
  <2>2. scribbled' \subseteq Nat
    BY <1>1 DEF SubmitCopy, TypeOK
  <2>3. [fv |-> fence_value + 1, dst |-> s] \in [fv : Nat, dst : Slots]
    BY DEF TypeOK
  <2>4. QED
    BY <1>1, <2>1, <2>2, <2>3 DEF SubmitCopy, TypeOK, Contents
<1>2. CASE ChunkReceived
  <2>1. CASE UNCHANGED copyVars
    BY <1>2, <2>1 DEF ChunkReceived, linkVars, recvVars, copyVars, callVars, Outside, TypeOK
  <2>2. CASE SubmitCopy(cur, slot)
    <3>1. cur \in Requests /\ slot \in Slots
      BY DEF TypeOK
    <3>2. QED
      BY <1>1, <1>2, <2>2, <3>1 DEF ChunkReceived, linkVars, recvVars, callVars, Outside, TypeOK
  <2>3. QED
    BY <1>2, <2>1, <2>2 DEF ChunkReceived
<1>3. CASE \E s \in Slots : WarmVram(s)
  BY <1>1, <1>3 DEF WarmVram, linkVars, recvVars, callVars, Outside, TypeOK
<1>4. CASE CopyStep
  <2>1. PICK c \in copies : CopyDone(c)
    BY <1>4 DEF CopyStep
  <2>2. c.fv \in Nat /\ c.dst \in Slots
    BY DEF TypeOK
  <2>3. vram' \in [Slots -> Contents]
    BY <2>1 DEF CopyDone, TypeOK
  <2>4. QED
    BY <2>1, <2>2, <2>3 DEF CopyDone, linkVars, recvVars, callVars, TypeOK
<1>5. QED
  BY <1>2, <1>3, <1>4

LEMMA TypeNext == TypeOK /\ [Next]_vars => TypeOK'
<1> SUFFICES ASSUME TypeOK, [Next]_vars PROVE TypeOK'
  OBVIOUS
<1>1. CASE UNCHANGED vars
  BY <1>1 DEF vars, linkVars, recvVars, copyVars, callVars, TypeOK
<1>2. CASE Next
  BY <1>2, TypeLink, TypeReceives, TypeCalls, TypeCopies DEF Next, ClientStep
<1>3. QED
  BY <1>1, <1>2

-----------------------------------------------------------------------------
(* Receives.                                                               *)

LEMMA PacketsNext == TypeOK /\ PacketsInv /\ [Next]_vars => PacketsInv'
<1> SUFFICES ASSUME TypeOK, PacketsInv, [Next]_vars PROVE PacketsInv'
  OBVIOUS
<1> USE DEF PacketsInv
<1>t. receive \in Nat /\ \A p \in packets : p.receive \in Nat
  BY DEF TypeOK
<1>1. CASE ReceiveAtOnce
  BY <1>t, <1>1 DEF ReceiveAtOnce
<1>2. CASE ReceivePending
  BY <1>t, <1>2 DEF ReceivePending
<1>3. CASE Deliver
  BY <1>t, <1>3 DEF Deliver
<1>4. CASE \E p \in packets : TakePacket(p)
  BY <1>t, <1>4 DEF TakePacket
<1>5. CASE UNCHANGED <<receive, packets>>
  BY <1>5
<1>6. QED
  BY <1>1, <1>2, <1>3, <1>4, <1>5
     DEF Next, vars, ClientStep, ServerStep, Stop, CopyStep, CopyDone, Call, WarmVram, StagingWaited,
         SendRequest, Throw, ReceiveRest, HeaderReceived, IndexReceived, ChunkReceived, WarmEnds,
         recvVars

(* What a receive has got is where it belongs when it is all there.        *)
LEMMA HasAllLands ==
  ASSUME TypeOK, Has(bytes), bytes >= Length(phase)
  PROVE  /\ bytes = Length(phase) /\ Landed
         /\ inbox = NoRequest /\ taken = Base + bytes
<1>1. bytes = Length(phase)
  BY Numbers DEF Has, TypeOK
<1>2. \A i \in 1 .. Length(phase) : buf[i] = Base + i
  BY <1>1 DEF Has
<1>3. \A i \in 1 .. Length(phase) : Base + i = IF phase = "header" THEN i ELSE i + 1
  BY Numbers DEF Base, TypeOK
<1>4. QED
  BY <1>1, <1>2, <1>3 DEF Has, Landed

(* A receive that has n pieces gets the next k of its response.            *)
LEMMA GetsMore ==
  ASSUME TypeOK, NEW n \in Nat, NEW k \in Nat, n + k <= Length(phase),
         NEW b \in [Positions -> Nat], \A i \in 1 .. n : b[i] = Base + i,
         inbox = NoRequest, taken = Base + n,
         inbox' = inbox, taken' = taken + k, phase' = phase, buf' = Put(b, n, k)
  PROVE  Has(n + k)'
<1>1. Base \in Nat /\ Base' = Base
  BY DEF Base
<1>2. \A i \in 1 .. n + k : i \in Positions
  BY Numbers DEF Positions, TypeOK
<1>p. /\ \A i \in Positions : i <= n => Put(b, n, k)[i] = b[i]
      /\ \A i \in Positions : n < i /\ i <= n + k => Put(b, n, k)[i] = taken + i - n
  BY PutIsBuffer
<1>3. ASSUME NEW i \in 1 .. n + k PROVE Put(b, n, k)[i] = Base + i
  <2>0. i \in Nat /\ 1 <= i /\ i <= n + k /\ i \in Positions
    BY <1>2
  <2>1. CASE i <= n
    <3>1. Put(b, n, k)[i] = b[i] /\ i \in 1 .. n
      BY <1>p, <2>0, <2>1
    <3>2. QED
      BY <3>1
  <2>2. CASE n < i
    <3>1. Put(b, n, k)[i] = taken + i - n
      BY <1>p, <2>0, <2>2
    <3>2. QED
      BY <1>1, <2>0, <3>1
  <2>3. QED
    BY <2>0, <2>1, <2>2
<1>4. taken' = Base' + (n + k)
  BY <1>1
<1>5. QED
  BY <1>1, <1>3, <1>4 DEF Has

(* The server answers only a request the client waits on with an empty     *)
(* receive, and sends only what belongs to it.                             *)
LEMMA FramingLink ==
  ASSUME TypeOK, Framing, ServerStep \/ Stop
  PROVE  Framing'
<1> USE DEF Framing, recvVars, copyVars, callVars
<1>p. phase' = phase /\ buf' = buf /\ pc' = pc /\ outstanding' = outstanding
      /\ packets' = packets /\ receive' = receive /\ bytes' = bytes
  BY DEF ServerStep, Stop
<1>1. CASE TakeRequest
  <2>1. open /\ inbox # NoRequest /\ taken' = 0 /\ inbox' = NoRequest
    BY <1>1 DEF TakeRequest
  <2>2. pc \notin Outside /\ \A n : ~Has(n)
    BY <2>1 DEF Has
  <2>3. HasNothing => HasNothing'
    BY <1>p, <2>1 DEF HasNothing, Base
  <2>4. QED
    BY <1>p, <2>2, <2>3
<1>2. CASE SendPiece
  <2>1. server = "sending" /\ sent # Whole
    BY <1>2, Numbers DEF SendPiece, TypeOK
  <2>2. ~Quiet
    BY <2>1 DEF Quiet
  <2>3. inbox' = inbox /\ taken' = taken /\ open' = open /\ server' = server
    BY <1>2 DEF SendPiece
  <2>4. \A n : Has(n)' <=> Has(n)
    BY <1>p, <2>3 DEF Has, Base
  <2>5. HasNothing => HasNothing'
    BY <1>p, <2>2, <2>3 DEF HasNothing, Base
  <2>6. QED
    BY <1>p, <2>2, <2>3, <2>4, <2>5
<1>3. CASE EndResponse \/ StopServer
  <2>1. inbox' = inbox /\ taken' = taken /\ sent' = sent /\ server' # "sending" /\ (open' => open)
    BY <1>3 DEF EndResponse, StopServer
  <2>2. \A n : Has(n)' <=> Has(n)
    BY <1>p, <2>1 DEF Has, Base
  <2>3. HasNothing => HasNothing'
    BY <1>p, <2>1 DEF HasNothing, Base, Quiet
  <2>4. Quiet => Quiet'
    BY <2>1 DEF Quiet
  <2>5. QED
    BY <1>p, <2>1, <2>2, <2>3, <2>4
<1>4. QED
  BY <1>1, <1>2, <1>3 DEF ServerStep, Stop, Serve

(* A receive gets the first pieces of what it is for.                      *)
LEMMA FramingFirstPieces ==
  ASSUME TypeOK, ReceiveInv, ~mixed, ReceiveAtOnce \/ ReceivePending \/ Deliver
  PROVE  Framing'
<1>0. Framing /\ PacketsInv
  BY DEF ReceiveInv
<1>n. receive \in Nat /\ sent \in Nat /\ taken \in Nat
      /\ \A p \in packets : p.receive \in Nat /\ p.bytes \in Nat
  BY DEF TypeOK
<1>l. Length(phase) \in Nat
  BY Numbers DEF TypeOK
<1>f. PICK k \in Nat : k = Fitting(Length(phase)) /\ k <= Length(phase) /\ 0 + k = k
  BY <1>l, Fits
<1>e. Empty \in [Positions -> Nat] /\ buf \in [Positions -> Nat]
  BY DEF Empty, TypeOK
<1>1. ASSUME HasNothing, Arrived > 0
      PROVE  inbox = NoRequest /\ taken = Base /\ Base + 0 = Base
  BY <1>1, <1>n DEF HasNothing, Quiet, Arrived, Base
<1>2. CASE ReceiveAtOnce
  <2>1. inbox = NoRequest /\ taken = Base + 0
    BY <1>0, <1>1, <1>2 DEF ReceiveAtOnce, Framing
  <2>2. Has(0 + k)'
    BY <1>2, <1>e, <1>f, <2>1, GetsMore DEF ReceiveAtOnce, linkVars
  <2>3. Has(bytes)'
    BY <1>2, <1>f, <2>2 DEF ReceiveAtOnce
  <2>4. QED
    BY <1>0, <1>2, <2>3 DEF ReceiveAtOnce, Framing, Outside
<1>3. CASE ReceivePending
  <2>1. HasNothing' /\ pc' = "port" /\ outstanding'
    BY <1>0, <1>3 DEF ReceivePending, Framing, HasNothing, Quiet, Base, linkVars
  <2>2. \A p \in packets' : p.receive # receive'
    BY <1>0, <1>3, <1>n DEF ReceivePending, PacketsInv
  <2>3. QED
    BY <2>1, <2>2 DEF Framing, Outside
<1>4. CASE Deliver
  <2>1. pc = "port" /\ HasNothing /\ \A p \in packets : p.receive # receive
    BY <1>0, <1>4 DEF Deliver, Framing, Outside, TypeOK, Receiving
  <2>2. inbox = NoRequest /\ taken = Base + 0
    BY <1>1, <1>4, <2>1 DEF Deliver
  <2>3. Has(0 + k)'
    BY <1>4, <1>e, <1>f, <2>2, GetsMore DEF Deliver
  <2>4. \A p \in packets' : p.receive = receive' => p.bytes = k
    BY <1>4, <1>f, <2>1 DEF Deliver
  <2>5. pc' = "port" /\ outstanding' = FALSE
    BY <1>4, <2>1 DEF Deliver
  <2>6. QED
    BY <1>f, <2>3, <2>4, <2>5 DEF Framing, Outside
<1>5. QED
  BY <1>2, <1>3, <1>4

(* The first packet is that of the receive, or the two are mixed; and the  *)
(* remainder goes behind what there is.                                    *)
LEMMA FramingRest ==
  ASSUME TypeOK, ReceiveInv, ~mixed, ~mixed',
         ReceiveRest \/ \E p \in packets : TakePacket(p)
  PROVE  Framing'
<1>0. Framing
  BY DEF ReceiveInv
<1>1. CASE \E p \in packets : TakePacket(p)
  <2>1. PICK p \in packets : TakePacket(p)
    BY <1>1
  <2>2. p.receive = receive /\ pc = "port"
    BY <2>1 DEF TakePacket
  <2>3. ~outstanding /\ Has(p.bytes)
    BY <1>0, <2>2 DEF Framing
  <2>4. Has(bytes)' /\ pc' = "rest" /\ outstanding' = outstanding
    BY <2>1, <2>3 DEF TakePacket, Has, Base, linkVars
  <2>5. QED
    BY <2>3, <2>4 DEF Framing, Outside
<1>2. CASE ReceiveRest
  <2>1. PICK n \in Nat : n = bytes
    BY DEF TypeOK
  <2>2. Has(n) /\ ~outstanding /\ pc = "rest"
    BY <1>0, <1>2, <2>1 DEF Framing, ReceiveRest
  <2>3. Length(phase) - bytes \in Nat
    BY <1>2, Numbers DEF ReceiveRest, TypeOK
  <2>4. PICK k \in Nat : k = Fitting(Length(phase) - bytes) /\ n + k <= Length(phase)
    BY <2>1, <2>3, Numbers, Fits DEF TypeOK
  <2>5. /\ inbox' = inbox /\ taken' = taken + k /\ phase' = phase
        /\ buf' = Put(buf, n, k) /\ bytes' = n + k
        /\ pc' = "rest" /\ outstanding' = outstanding
    BY <1>2, <2>1, <2>2, <2>4 DEF ReceiveRest, RestAt
  <2>6. buf \in [Positions -> Nat] /\ \A i \in 1 .. n : buf[i] = Base + i
    BY <2>2 DEF Has, TypeOK
  <2>7. inbox = NoRequest /\ taken = Base + n
    BY <2>2 DEF Has
  <2>8. Has(n + k)'
    BY <2>4, <2>5, <2>6, <2>7, GetsMore
  <2>9. QED
    BY <2>2, <2>5, <2>8 DEF Framing, Outside
<1>3. QED
  BY <1>1, <1>2

(* A response that has come whole leaves nothing behind.                   *)
LEMMA FramingReceived ==
  ASSUME TypeOK, ReceiveInv, ~mixed, HeaderReceived \/ IndexReceived \/ ChunkReceived
  PROVE  Framing'
<1>1. pc = "rest" /\ bytes >= Length(phase)
  BY DEF HeaderReceived, IndexReceived, ChunkReceived, Received
<1>2. ~outstanding /\ Has(bytes)
  BY <1>1 DEF ReceiveInv, Framing
<1>3. bytes = Length(phase) /\ Landed /\ inbox = NoRequest /\ taken = Base + bytes
  BY <1>1, <1>2, HasAllLands
<1>4. CASE HeaderReceived
  <2>1. taken = 1 /\ phase' = "body" /\ pc' = "receiving"
    BY <1>3, <1>4 DEF HeaderReceived, Base, Length
  <2>2. HasNothing' /\ ~outstanding'
    BY <1>2, <1>3, <1>4, <2>1 DEF HeaderReceived, HasNothing, Base, linkVars
  <2>3. QED
    BY <2>1, <2>2 DEF Framing, Outside
<1>5. CASE IndexReceived \/ ChunkReceived
  <2>1. pc' = "idle" /\ UNCHANGED <<linkVars, outstanding>> /\ phase = "body"
    BY <1>3, <1>5 DEF IndexReceived, ChunkReceived, recvVars
  <2>2. taken = Whole
    BY <1>3, <2>1, Numbers DEF Base, Length
  <2>3. sent = Whole
    BY <2>2, Numbers DEF TypeOK
  <2>4. ~outstanding' /\ inbox' = NoRequest /\ Quiet'
    BY <1>2, <1>3, <2>1, <2>2, <2>3 DEF linkVars, Quiet
  <2>5. QED
    BY <2>1, <2>4 DEF Framing, Outside
<1>6. QED
  BY <1>4, <1>5

LEMMA FramingCalls ==
  ASSUME TypeOK, ReceiveInv, ~mixed,
         \/ \E r \in Requests, s \in Slots : Call(r, s)
         \/ \E s \in Slots : WarmVram(s)
         \/ StagingWaited \/ SendRequest \/ Throw \/ WarmEnds \/ CopyStep
         \/ UNCHANGED vars
  PROVE  Framing'
<1>0. Framing
  BY DEF ReceiveInv
<1>1. ASSUME pc \in Outside, pc' \in Outside, UNCHANGED <<linkVars, outstanding>>
      PROVE  Framing'
  BY <1>0, <1>1 DEF Framing, Outside, linkVars, Quiet
<1>2. CASE (\E r \in Requests, s \in Slots : Call(r, s)) \/ (\E s \in Slots : WarmVram(s))
           \/ StagingWaited \/ WarmEnds
  BY <1>1, <1>2 DEF Call, WarmVram, StagingWaited, WarmEnds, Outside, recvVars
<1>3. CASE SendRequest
  <2>1. inbox = NoRequest /\ Quiet /\ ~outstanding
    BY <1>0, <1>3 DEF Framing, SendRequest, Outside
  <2>2. inbox' # NoRequest
    BY <1>3, LinkAssumption DEF SendRequest, TypeOK
  <2>3. HasNothing' /\ ~outstanding' /\ pc' = "receiving"
    BY <1>3, <2>1, <2>2 DEF SendRequest, HasNothing, Quiet
  <2>4. QED
    BY <2>3 DEF Framing, Outside
<1>4. CASE Throw
  BY <1>4 DEF Throw, Framing, Outside, linkVars
<1>5. CASE CopyStep \/ UNCHANGED vars
  <2>1. UNCHANGED <<linkVars, pc, recvVars>>
    BY <1>5 DEF CopyStep, CopyDone, vars
  <2>2. HasNothing' <=> HasNothing
    BY <2>1 DEF linkVars, recvVars, HasNothing, Base, Quiet
  <2>3. \A n : Has(n)' <=> Has(n)
    BY <2>1 DEF linkVars, recvVars, Has, Base
  <2>4. Quiet' <=> Quiet
    BY <2>1 DEF linkVars, Quiet
  <2>5. UNCHANGED <<pc, open, inbox, outstanding, packets, receive, bytes>>
    BY <2>1 DEF linkVars, recvVars
  <2>6. QED
    BY <1>0, <2>2, <2>3, <2>4, <2>5 DEF Framing
<1>6. QED
  BY <1>2, <1>3, <1>4, <1>5

LEMMA ReceiveNext == TypeOK /\ ReceiveInv /\ [Next]_vars => ReceiveInv'
<1> SUFFICES ASSUME TypeOK, ReceiveInv, [Next]_vars PROVE ReceiveInv'
  OBVIOUS
<1>1. PacketsInv'
  BY PacketsNext DEF ReceiveInv
<1>2. ASSUME ~mixed' PROVE Framing'
  <2>1. ~mixed
    BY <1>2 DEF Next, vars, ClientStep, ServerStep, Stop, CopyStep, CopyDone, Call, WarmVram,
                StagingWaited, SendRequest, Throw, ReceiveAtOnce, ReceivePending, TakePacket, Deliver,
                ReceiveRest, HeaderReceived, IndexReceived, ChunkReceived, WarmEnds, recvVars
  <2>2. Framing
    BY <2>1 DEF ReceiveInv
  <2>3. QED
    BY <1>2, <2>1, <2>2, FramingLink, FramingFirstPieces, FramingRest, FramingReceived, FramingCalls
       DEF Next, ClientStep
<1>3. QED
  BY <1>1, <1>2 DEF ReceiveInv

-----------------------------------------------------------------------------
(* Copies.                                                                 *)

LEMMA CopyNumbers ==
  ASSUME TypeOK
  PROVE  /\ fence_value \in Nat /\ reached \in Nat
         /\ \A c \in copies : /\ c.fv \in Nat /\ c.dst \in Slots
                             /\ c = [fv |-> c.fv, dst |-> c.dst]
         /\ \A s \in Slots : want[s].fv \in Nat
BY DEF TypeOK

(* Nothing new is copied, and a chunk is fetched only after a wait.        *)
LEMMA CopiesUnchanged ==
  ASSUME TypeOK, CopiesInv, UNCHANGED copyVars,
         pc' \in Receiving \cup {"sending"} /\ cur' # Index =>
           copies = {} \/ (cur' = cur /\ pc \in Receiving \cup {"sending"})
  PROVE  CopiesInv'
<1> USE DEF CopiesInv, copyVars
<1>1. FencesInv' /\ DeliveredInSlot'
  BY DEF FencesInv, DeliveredInSlot
<1>2. WantedInv'
  BY DEF WantedInv
<1>3. StagingQuiet'
  BY DEF StagingQuiet
<1>4. QED
  BY <1>1, <1>2, <1>3

(* A copy that is submitted has a new number; what it overwrites in        *)
(* staging is scribbled.                                                   *)
LEMMA CopiesSubmitted ==
  ASSUME TypeOK, CopiesInv, NEW c \in Contents, NEW d \in Slots, SubmitCopy(c, d),
         pc' \in {"idle", "warming"}
  PROVE  CopiesInv'
<1> USE CopyNumbers
<1>1. /\ staging' = c /\ reached' = reached /\ vram' = vram
      /\ fence_value' = fence_value + 1
      /\ copies' = copies \cup {[fv |-> fence_value + 1, dst |-> d]}
      /\ \A o \in copies : o.fv \in scribbled'
      /\ scribbled \subseteq scribbled'
  BY DEF SubmitCopy
<1>2. /\ want'[d] = [fv |-> fence_value + 1, of |-> c]
      /\ \A s \in Slots \ {d} : want'[s] = want[s]
  BY DEF SubmitCopy, FenceOfCopy, TypeOK
<1>3. FencesInv'
  BY <1>1 DEF CopiesInv, FencesInv
<1>4. StagingQuiet'
  BY DEF StagingQuiet, Receiving
<1>5. ASSUME NEW s \in Slots
      PROVE  /\ \A o \in copies' : o.dst = s => o.fv <= want'[s].fv
             /\ reached' < want'[s].fv =>
                  /\ [fv |-> want'[s].fv, dst |-> s] \in copies'
                  /\ want'[s].fv \notin scribbled' => staging' = want'[s].of
  <2>1. CASE s = d
    BY <1>1, <1>2, <2>1 DEF CopiesInv, FencesInv
  <2>2. CASE s # d
    <3>1. want'[s] = want[s]
      BY <1>2, <2>2
    <3>2. \A o \in copies' : o.dst = s => o \in copies
      BY <1>1, <2>2
    <3>3. reached < want[s].fv => [fv |-> want[s].fv, dst |-> s] \in copies
      BY DEF CopiesInv, WantedInv
    <3>4. reached < want[s].fv => want[s].fv \in scribbled'
      BY <1>1, <3>3
    <3>5. \A o \in copies : o.dst = s => o.fv <= want[s].fv
      BY DEF CopiesInv, WantedInv
    <3>6. QED
      BY <1>1, <3>1, <3>2, <3>3, <3>4, <3>5
  <2>3. QED
    BY <2>1, <2>2
<1>6. DeliveredInSlot'
  <2> SUFFICES ASSUME NEW s \in Slots, 0 < want'[s].fv, want'[s].fv <= reached',
                      want'[s].fv \notin scribbled'
               PROVE  vram'[s] = want'[s].of
    BY DEF DeliveredInSlot
  <2>1. s # d
    BY <1>1, <1>2 DEF CopiesInv, FencesInv
  <2>2. QED
    BY <1>1, <1>2, <2>1 DEF CopiesInv, DeliveredInSlot
<1>7. QED
  BY <1>3, <1>4, <1>5, <1>6 DEF CopiesInv, WantedInv

(* The queue does its copies in the order of their numbers.                *)
LEMMA CopiesDone ==
  ASSUME TypeOK, CopiesInv, NEW c \in copies, CopyDone(c)
  PROVE  CopiesInv'
<1> USE CopyNumbers
<1>1. /\ UNCHANGED <<pc, cur, staging, fence_value, want, scribbled>>
      /\ copies' = copies \ {c} /\ reached' = c.fv
      /\ vram' = [vram EXCEPT ![c.dst] = staging]
      /\ \A o \in copies : c.fv <= o.fv
  BY DEF CopyDone, FirstCopy, callVars
<1>2. \A o \in copies' : o \in copies /\ c.fv < o.fv
  BY <1>1 DEF CopiesInv, FencesInv
<1>3. reached < c.fv /\ c.fv <= fence_value
  BY DEF CopiesInv, FencesInv
<1>4. FencesInv'
  BY <1>1, <1>2, <1>3 DEF CopiesInv, FencesInv
<1>5. StagingQuiet'
  BY <1>1 DEF CopiesInv, StagingQuiet
<1>6. WantedInv'
  <2> SUFFICES ASSUME NEW s \in Slots
               PROVE  /\ \A o \in copies' : o.dst = s => o.fv <= want[s].fv
                      /\ reached' < want[s].fv =>
                           /\ [fv |-> want[s].fv, dst |-> s] \in copies'
                           /\ want[s].fv \notin scribbled => staging = want[s].of
    BY <1>1 DEF WantedInv
  <2>1. \A o \in copies : o.dst = s => o.fv <= want[s].fv
    BY DEF CopiesInv, WantedInv
  <2>2. ASSUME c.fv < want[s].fv
        PROVE  /\ [fv |-> want[s].fv, dst |-> s] \in copies \ {c}
               /\ want[s].fv \notin scribbled => staging = want[s].of
    <3>1. reached < want[s].fv
      BY <1>3, <2>2
    <3>2. [fv |-> want[s].fv, dst |-> s] # c
      BY <2>2
    <3>3. QED
      BY <3>1, <3>2 DEF CopiesInv, WantedInv
  <2>3. QED
    BY <1>1, <1>2, <2>1, <2>2
<1>7. DeliveredInSlot'
  <2> SUFFICES ASSUME NEW s \in Slots, 0 < want[s].fv, want[s].fv <= c.fv, want[s].fv \notin scribbled
               PROVE  vram'[s] = want[s].of
    BY <1>1 DEF DeliveredInSlot
  <2>v. vram \in [Slots -> Contents]
    BY DEF TypeOK
  <2>1. CASE want[s].fv <= reached
    <3>0. /\ c.dst = s => c.fv <= want[s].fv
          /\ c.fv \in Nat /\ want[s].fv \in Nat /\ reached \in Nat
      BY DEF CopiesInv, WantedInv
    <3>1. c.dst # s
      BY <1>3, <2>1, <3>0
    <3>2. vram[s] = want[s].of
      BY <2>1 DEF CopiesInv, DeliveredInSlot
    <3>3. QED
      BY <1>1, <2>v, <3>1, <3>2
  <2>2. CASE reached < want[s].fv
    <3>1. [fv |-> want[s].fv, dst |-> s] \in copies /\ staging = want[s].of
      BY <2>2 DEF CopiesInv, WantedInv
    <3>2. want[s].fv = c.fv
      BY <1>1, <3>1
    <3>3. c = [fv |-> want[s].fv, dst |-> s]
      BY <3>1, <3>2 DEF CopiesInv, FencesInv
    <3>4. c.dst = s
      BY <3>3
    <3>5. QED
      BY <1>1, <2>v, <3>1, <3>4
  <2>3. QED
    BY <1>3, <2>1, <2>2
<1>8. QED
  BY <1>4, <1>5, <1>6, <1>7 DEF CopiesInv

LEMMA CopiesNext == TypeOK /\ CopiesInv /\ [Next]_vars => CopiesInv'
<1> SUFFICES ASSUME TypeOK, CopiesInv, [Next]_vars PROVE CopiesInv'
  OBVIOUS
<1>1. CASE ChunkReceived
  <2>1. CASE UNCHANGED copyVars
    BY <1>1, <2>1, CopiesUnchanged DEF ChunkReceived, Receiving, Received, callVars
  <2>2. CASE SubmitCopy(cur, slot) /\ pc' = "idle"
    <3>1. cur \in Contents /\ slot \in Slots
      BY DEF TypeOK, Contents
    <3>2. QED
      BY <2>2, <3>1, CopiesSubmitted
  <2>3. QED
    BY <1>1, <2>1, <2>2 DEF ChunkReceived
<1>2. CASE \E s \in Slots : WarmVram(s)
  BY <1>2, CopiesSubmitted DEF WarmVram, Contents
<1>3. CASE CopyStep
  BY <1>3, CopiesDone DEF CopyStep
<1>4. CASE StagingWaited
  <2>1. cur # Index => copies = {}
    BY <1>4, CopyNumbers DEF StagingWaited, StagingFree, CopiesInv, FencesInv
  <2>2. UNCHANGED <<copyVars, cur>>
    BY <1>4 DEF StagingWaited, callVars
  <2>3. QED
    BY <2>1, <2>2, CopiesUnchanged
<1>5. CASE SendRequest \/ ReceiveAtOnce \/ ReceivePending \/ ReceiveRest \/ HeaderReceived
           \/ Deliver \/ \E p \in packets : TakePacket(p)
  <2>1. UNCHANGED <<copyVars, cur>> /\ (pc' \in Receiving => pc \in Receiving \cup {"sending"})
        /\ (pc' = "sending" => pc = "sending")
    BY <1>5 DEF SendRequest, ReceiveAtOnce, ReceivePending, ReceiveRest, HeaderReceived, Deliver,
                TakePacket, Receiving, Received, callVars
  <2>2. QED
    BY <2>1, CopiesUnchanged
<1>6. CASE Throw \/ IndexReceived \/ WarmEnds \/ \E r \in Requests, s \in Slots : Call(r, s)
  <2>1. UNCHANGED copyVars /\ pc' \notin Receiving \cup {"sending"}
    BY <1>6 DEF Throw, IndexReceived, WarmEnds, Call, Receiving
  <2>2. QED
    BY <2>1, CopiesUnchanged
<1>7. CASE ServerStep \/ Stop \/ UNCHANGED vars
  <2>1. UNCHANGED <<copyVars, cur, pc>>
    BY <1>7 DEF ServerStep, Stop, vars, callVars
  <2>2. QED
    BY <2>1, CopiesUnchanged
<1>8. QED
  BY <1>1, <1>2, <1>3, <1>4, <1>5, <1>6, <1>7 DEF Next, ClientStep

-----------------------------------------------------------------------------
(* The inductive invariant: framing of the receives, numbers of the copies *)
(* (dxiocp.cpp:240-345).                                                   *)
THEOREM InductiveInvariant == Spec => []IInv
<1>1. Init => IInv
  <2> SUFFICES ASSUME Init PROVE IInv
    OBVIOUS
  <2>1. TypeOK
    BY TypeInit
  <2>2. ReceiveInv
    BY DEF Init, LinkInit, ReceiveInv, PacketsInv, Framing, Quiet, Outside
  <2>3. CopiesInv
    BY DEF Init, CopiesInv, FencesInv, StagingQuiet, WantedInv, DeliveredInSlot
  <2>4. QED
    BY <2>1, <2>2, <2>3 DEF IInv
<1>2. IInv /\ [Next]_vars => IInv'
  BY TypeNext, ReceiveNext, CopiesNext DEF IInv
<1>3. QED
  BY <1>1, <1>2, PTL DEF Spec

(* For any requests and any number of pieces, a receive returns without    *)
(* its bytes only after a packet of another receive was taken for its own  *)
(* (dxiocp.cpp:240-280).                                                   *)
THEOREM OnlyMixedReceivesDerail == Spec => []OnlyMixedDerails
<1>1. IInv => OnlyMixedDerails
  BY DEF IInv, TypeOK, ReceiveInv, Framing, OnlyMixedDerails
<1>2. QED
  BY <1>1, InductiveInvariant, PTL

(* For any number of fetches and slots, a slot holds the chunk last copied *)
(* to it once its fence value is reached, or staging was scribbled over    *)
(* (dxiocp.cpp:300-345).                                                   *)
THEOREM ChunksArrive == Spec => []DeliveredInSlot
<1>1. IInv => DeliveredInSlot
  BY DEF IInv, CopiesInv
<1>2. QED
  BY <1>1, InductiveInvariant, PTL

(* However fetches and copies overlap, only warm_vram writes to staging    *)
(* before the COPY queue has read it (dxiocp.cpp:307-312).                 *)
THEOREM FetchesLeaveStaging == Spec => FetchesKeepStaging
<1>1. IInv /\ [Next]_vars => [pc' # "warming" => scribbled' = scribbled]_vars
  <2> SUFFICES ASSUME IInv, Next, pc' # "warming" PROVE scribbled' = scribbled
    OBVIOUS
  <2>1. CASE ChunkReceived
    <3>1. copies = {}
      BY <2>1 DEF IInv, CopiesInv, StagingQuiet, ChunkReceived, Received, Receiving
    <3>2. QED
      BY <2>1, <3>1 DEF ChunkReceived, SubmitCopy, copyVars
  <2>2. CASE ~ChunkReceived
    BY <2>2 DEF Next, ClientStep, ServerStep, Stop, CopyStep, CopyDone, Call, WarmVram,
                StagingWaited, SendRequest, Throw, ReceiveAtOnce, ReceivePending, TakePacket, Deliver,
                ReceiveRest, HeaderReceived, IndexReceived, WarmEnds, copyVars
  <2>3. QED
    BY <2>1, <2>2
<1>2. QED
  BY <1>1, InductiveInvariant, PTL DEF Spec, FetchesKeepStaging
=============================================================================
