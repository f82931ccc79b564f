----------------------------- MODULE ChunkLink -----------------------------
(***************************************************************************)
(* IocpStreamServer and the TCP connection it answers one client on        *)
(* (src/dxiocp/dxiocp.cpp).  A request is answered by a header and the     *)
(* bytes asked for, the index blob or a range of the payload file.         *)
(*                                                                         *)
(* TCP keeps the order of bytes and not their boundaries: a response is a  *)
(* sequence of 1 + Units pieces, the header being the first, and a receive *)
(* gets those that have arrived, as many as fit.  Pieces are known by      *)
(* their number, so the stream is two counters, `sent' and `taken'.        *)
(*                                                                         *)
(* Left out: the request (24 bytes) arrives whole; a second client (the    *)
(* connections share nothing but m_conns).                                 *)
(***************************************************************************)
EXTENDS Naturals

CONSTANTS
  Requests,   (* what a client may ask for                                 *)
  Units,      (* pieces of the body of a response                          *)
  Serves,     (* pieces of the response to each request the server has: a  *)
              (* range beyond the end of the file is cut short             *)
  NoRequest   (* an empty inbox                                            *)

Whole == Units + 1

ASSUME LinkAssumption ==
  /\ Units \in Nat \ {0}
  /\ Serves \in [Requests -> 0..Whole]
  /\ NoRequest \notin Requests

VARIABLES
  open,       (* the connection: closed by stop()                          *)
  inbox,      (* the request on its way to the server                      *)
  server,     (* serve_conn: in recv, in send, or returned                 *)
  serving,    (* the request being answered                                *)
  sent,       (* pieces of the present response handed to TCP              *)
  taken       (* pieces of it the client's socket has given away           *)

linkVars == <<open, inbox, server, serving, sent, taken>>

LinkInit ==
  /\ open = TRUE
  /\ inbox = NoRequest
  /\ server = "receiving"
  /\ serving = NoRequest
  /\ sent = 0
  /\ taken = 0

(* serve_conn reads a request; the pieces are counted anew.                *)
TakeRequest ==
  /\ open
  /\ server = "receiving"
  /\ inbox # NoRequest
  /\ serving' = inbox
  /\ inbox' = NoRequest
  /\ server' = "sending"
  /\ sent' = 0
  /\ taken' = 0
  /\ UNCHANGED open

(* Mutant: a short read at the end of the file ends the response, not the  *)
(* connection.                                                             *)
SkipsShortReads(r) == TRUE

(* Whether the whole range could be read.                                  *)
ServesWhole(r) == Serves[r] = Whole

(* The header, then the body in pieces; a range that cannot be read to its *)
(* end makes serve_conn return, and nobody closes the socket.              *)
SendPiece ==
  /\ open
  /\ server = "sending"
  /\ sent < Serves[serving]
  /\ sent' = sent + 1
  /\ UNCHANGED <<open, inbox, server, serving, taken>>

EndResponse ==
  /\ open
  /\ server = "sending"
  /\ sent = Serves[serving]
  /\ server' = IF ServesWhole(serving) THEN "receiving" ELSE "returned"
  /\ UNCHANGED <<open, inbox, serving, sent, taken>>

(* stop() closes every socket; the thread of the connection fails in recv  *)
(* or send and returns.                                                    *)
StopServer ==
  /\ open
  /\ open' = FALSE
  /\ server' = "returned"
  /\ UNCHANGED <<inbox, serving, sent, taken>>

Serve == TakeRequest \/ SendPiece \/ EndResponse

(* Pieces a receive could have now.                                        *)
Arrived == sent - taken

Fitting(n) == IF Arrived < n THEN Arrived ELSE n
=============================================================================
