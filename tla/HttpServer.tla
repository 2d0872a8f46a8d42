----------------------------- MODULE HttpServer -----------------------------
(***************************************************************************)
(* The HTTP server of network/http_server.hpp: worker threads (executor)   *)
(* that share one listening socket; each has a Socket with a receive and a *)
(* send buffer, a Request and a Response, all used again for its next      *)
(* connection.                                                             *)
(*                                                                         *)
(* A byte is a pair <<connection, token>>.  A token is a request line, a   *)
(* header field, a line end (CRLF) or a byte of a body; the bytes inside a *)
(* line are not told apart.  A client sends one request, which may arrive  *)
(* in any pieces; it may stall, hang up or reset at any time.              *)
(***************************************************************************)
EXTENDS Naturals, Sequences

CONSTANTS HttpWorkers,   \* the threads of Server::listen
          HttpConns,     \* the connections clients make
          HttpBuf,       \* size of recv_buffer and send_buffer
          HttpMaxLine    \* bound: bytes of a line (see HttpRefill)

ASSUME HttpAssumption == HttpBuf \in Nat \ {0} /\ HttpMaxLine \in Nat /\ "none" \notin HttpConns

VARIABLES httpServer, \* server_fd: "none", "made" (in the SocketBuilder), "bound", "listening"
          httpConn,   \* connection -> "none", "open" or "closed" (the descriptor)
          httpIn,     \* connection -> bytes of its client that are not read yet
          httpSent,   \* connection -> bytes the server wrote on it
          httpW       \* worker -> its locals

httpVars == <<httpServer, httpConn, httpIn, httpSent, httpW>>

HttpBodyLength == 2
HttpRequests == { <<"routed", "crlf", "field", "crlf", "crlf">>,
                  <<"routed", "crlf", "length", "crlf", "crlf", "body", "body">>,
                  <<"routed", "crlf", "badlength", "crlf">>,
                  <<"unrouted", "crlf", "crlf">>,
                  <<"bad", "crlf">> }

\* Faulty variant: assign_socket keeps what is left in the receive buffer.
HttpFreshKeepsBuffer(w, c) ==
    [httpW[w] EXCEPT !.pc = "line", !.conn = c, !.line = <<>>, !.uri = "", !.length = 0, !.body = <<>>]

\* assign_socket and Request::reset: a worker with connection c and nothing read
HttpFresh(w, c) ==
    [httpW[w] EXCEPT !.pc = "line", !.conn = c, !.pos = 0, !.size = 0,
                     !.line = <<>>, !.uri = "", !.length = 0, !.body = <<>>]

HttpInit ==
    /\ httpServer = "none"
    /\ httpConn = [c \in HttpConns |-> "none"]
    /\ httpIn = [c \in HttpConns |-> <<>>]
    /\ httpSent = [c \in HttpConns |-> <<>>]
    /\ httpW = [w \in HttpWorkers |->
                 [pc |-> "none", conn |-> "none", recv |-> <<>>, pos |-> 0, size |-> 0,
                  line |-> <<>>, uri |-> "", length |-> 0, body |-> <<>>,
                  response |-> <<>>, written |-> 0, send |-> <<>>]]

-----------------------------------------------------------------------------
(* Server::listen_to and Server::listen.  A step that fails leaves things   *)
(* as they were before listen_to: ~SocketBuilder closes what was made.     *)

HttpStart(from, to) ==
    /\ httpServer = from
    /\ httpServer' \in {to, "none"}
    /\ UNCHANGED <<httpConn, httpIn, httpSent, httpW>>

HttpCreateSocket == HttpStart("none", "made")
HttpBindAddr == HttpStart("made", "bound")

\* once (bound): a second call would start as many workers again; when it fails the socket stays
HttpListen ==
    /\ httpServer = "bound" /\ httpServer' \in {"bound", "listening"}
    /\ httpW' = IF httpServer' = "bound" THEN httpW ELSE [w \in HttpWorkers |-> [httpW[w] EXCEPT !.pc = "accept"]]
    /\ UNCHANGED <<httpConn, httpIn, httpSent>>

-----------------------------------------------------------------------------
(* executor: accept, build_request *)

\* a client connects and will send request
HttpAccept(w, c, request) ==
    /\ httpW[w].pc = "accept" /\ httpConn[c] = "none"
    /\ httpConn' = [httpConn EXCEPT ![c] = "open"]
    /\ httpIn' = [httpIn EXCEPT ![c] = [i \in DOMAIN request |-> <<c, request[i]>>]]
    /\ httpW' = [httpW EXCEPT ![w] = HttpFresh(w, c)]
    /\ UNCHANGED <<httpServer, httpSent>>

HttpSet(w, r) ==
    /\ httpW' = [httpW EXCEPT ![w] = r]
    /\ UNCHANGED <<httpServer, httpConn, httpIn, httpSent>>

(* back to accept4, which ends the locals of build_request; a refused or    *)
(* unrouted connection is left open                                        *)
HttpRefuse(r) == [r EXCEPT !.pc = "accept", !.conn = "none", !.line = <<>>, !.uri = "", !.length = 0]

\* what build_request does with a line, r.line, once read_until_crlf returns it
HttpLineRead(r) ==
    LET first == r.line[1][2] IN
    CASE r.pc = "line" /\ Len(r.line) = 1 /\ first \in {"routed", "unrouted"} ->
           [r EXCEPT !.pc = "field", !.uri = first, !.line = <<>>]
      [] r.pc = "line" /\ ~(Len(r.line) = 1 /\ first \in {"routed", "unrouted"}) ->
           HttpRefuse(r)
      [] r.pc = "field" /\ r.line = <<>> ->
           [r EXCEPT !.pc = IF r.length > 0 THEN "body" ELSE "route"]
      [] r.pc = "field" /\ r.line # <<>> /\ first = "badlength" -> HttpRefuse(r)
      [] r.pc = "field" /\ r.line # <<>> /\ first # "badlength" ->
           [r EXCEPT !.length = IF first = "length" THEN HttpBodyLength ELSE @,
                     !.line = <<>>]

\* read_until_crlf on what is in the buffer, to the line end or to the end of the buffer
HttpReadLine(w) ==
    LET r == httpW[w]
        ends == {i \in (r.pos + 1)..r.size : r.recv[i][2] = "crlf"}
        stop == IF ends = {} THEN r.size ELSE CHOOSE i \in ends : \A j \in ends : i <= j
        got == [r EXCEPT !.line = @ \o SubSeq(r.recv, r.pos + 1,
                                              IF ends = {} THEN stop ELSE stop - 1),
                         !.pos = stop]
    IN /\ r.pc \in {"line", "field"} /\ r.pos < r.size
       /\ HttpSet(w, IF ends = {} THEN got ELSE HttpLineRead(got))

\* read_bytes
HttpReadBody(w) ==
    LET r == httpW[w]
        body == Append(r.body, r.recv[r.pos + 1])
    IN /\ r.pc = "body" /\ r.pos < r.size
       /\ HttpSet(w, [r EXCEPT !.pos = @ + 1, !.body = body,
                               !.pc = IF Len(body) = r.length THEN "route" ELSE "body"])

\* check_buffer found no more: the loop of read_until_crlf or of read_bytes ends
HttpReadEnds(r) == IF r.pc = "body" THEN [r EXCEPT !.pc = "route"] ELSE HttpLineRead(r)

\* the first n bytes of the array recv_buffer are overwritten, the others stay
HttpOverwrite(array, bytes) ==
    [i \in 1..(IF Len(bytes) > Len(array) THEN Len(bytes) ELSE Len(array)) |->
        IF i <= Len(bytes) THEN bytes[i] ELSE array[i]]

(* refill_buffer.  When poll times out recv_size stays as it is, while     *)
(* recv_readpos is 0 again: what was in the buffer is read once more.  That *)
(* can go on for ever; the bound HttpMaxLine ends it.                      *)
HttpRefill(w) ==
    LET r == httpW[w]
        c == r.conn
    IN /\ r.pc \in {"line", "field", "body"} /\ r.pos >= r.size
       /\ \/ \E n \in 1..HttpBuf :
               /\ n <= Len(httpIn[c])
               /\ httpIn' = [httpIn EXCEPT ![c] = SubSeq(@, n + 1, Len(@))]
               /\ httpW' = [httpW EXCEPT ![w] =
                              [r EXCEPT !.recv = HttpOverwrite(@, SubSeq(httpIn[c], 1, n)),
                                        !.pos = 0, !.size = n]]
               /\ UNCHANGED <<httpServer, httpConn, httpSent>>
          \/ \* end of the stream, or an error
             /\ httpIn' = [httpIn EXCEPT ![c] = <<>>]
             /\ httpW' = [httpW EXCEPT ![w] = HttpReadEnds([r EXCEPT !.pos = 0, !.size = 0])]
             /\ UNCHANGED <<httpServer, httpConn, httpSent>>
          \/ \* poll times out
             /\ Len(r.line) < HttpMaxLine
             /\ HttpSet(w, IF r.size = 0 THEN HttpReadEnds([r EXCEPT !.pos = 0])
                                         ELSE [r EXCEPT !.pos = 0])

-----------------------------------------------------------------------------
(* executor: the handler and its response *)

\* the handler appends to the Response it is given: here n bytes of its own
HttpRoute(w) ==
    LET r == httpW[w] IN
    /\ r.pc = "route"
    /\ IF r.uri = "unrouted"
       THEN HttpSet(w, HttpRefuse(r))
       ELSE \E n \in {1, HttpBuf + 1} :
              HttpSet(w, [r EXCEPT !.pc = "write", !.written = 0,
                                   !.response = @ \o [i \in 1..n |-> <<r.conn, i>>]])

\* Socket::write, over and over, up to a full send buffer or the end of the response
HttpWrite(w) ==
    LET r == httpW[w]
        room == HttpBuf - Len(r.send)
        left == Len(r.response) - r.written
        n == IF left < room THEN left ELSE room
    IN /\ r.pc = "write"
       /\ HttpSet(w, [r EXCEPT !.pc = "flush", !.written = @ + n,
                               !.send = @ \o SubSeq(r.response, r.written + 1, r.written + n)])

(* flush: after one write, whole or short, or one time-out, what was not   *)
(* written is dropped; a write that fails is tried again (stuttering)      *)
HttpFlush(w) ==
    LET r == httpW[w] IN
    /\ r.pc = "flush"
    /\ \E n \in 0..Len(r.send) :
         httpSent' = [httpSent EXCEPT ![r.conn] = @ \o SubSeq(r.send, 1, n)]
    /\ httpW' = [httpW EXCEPT ![w].send = <<>>,
                              ![w].pc = IF r.written = Len(r.response) THEN "close" ELSE "write"]
    /\ UNCHANGED <<httpServer, httpConn, httpIn>>

\* the descriptor is closed and the Response reset
HttpClose(w) ==
    LET r == httpW[w] IN
    /\ r.pc = "close"
    /\ httpConn' = [httpConn EXCEPT ![r.conn] = "closed"]
    /\ httpW' = [httpW EXCEPT ![w] = [HttpRefuse(r) EXCEPT !.response = <<>>, !.written = 0]]
    /\ UNCHANGED <<httpServer, httpIn, httpSent>>

HttpWorker(w) ==
    \/ \E c \in HttpConns, request \in HttpRequests : HttpAccept(w, c, request)
    \/ HttpReadLine(w) \/ HttpReadBody(w) \/ HttpRefill(w)
    \/ HttpRoute(w) \/ HttpWrite(w) \/ HttpFlush(w) \/ HttpClose(w)

HttpNext ==
    \/ HttpCreateSocket \/ HttpBindAddr \/ HttpListen
    \/ \E w \in HttpWorkers : HttpWorker(w)

HttpSpec == HttpInit /\ [][HttpNext]_httpVars

-----------------------------------------------------------------------------
(* A worker uses its buffers, its Request and its Response for one         *)
(* connection after the other, also when a request was refused half read:  *)
(* the request a handler gets is made of bytes of its own connection only  *)
(* (assign_socket, Request::reset).                                        *)
HttpRequestFromOwnConnection ==
    \A w \in HttpWorkers :
        LET r == httpW[w] IN
        r.conn # "none" =>
            /\ \A i \in DOMAIN r.line : r.line[i][1] = r.conn
            /\ \A i \in DOMAIN r.body : r.body[i][1] = r.conn

(* Whatever flush drops, a client gets bytes of the response to its own    *)
(* request only, each at most once and in their order (flush,              *)
(* Response::reset).                                                       *)
HttpResponseOnOwnConnection ==
    \A c \in HttpConns :
        /\ \A i \in DOMAIN httpSent[c] : httpSent[c][i][1] = c
        /\ \A i, j \in DOMAIN httpSent[c] : i < j => httpSent[c][i][2] < httpSent[c][j][2]

(* Nothing of one connection gets into another one by way of the buffers   *)
(* of a worker, in either direction.                                       *)
HttpOwnConnectionOnly == HttpRequestFromOwnConnection /\ HttpResponseOnOwnConnection

HttpTokens == {"routed", "unrouted", "bad", "field", "length", "badlength", "crlf", "body"}
HttpBytes == HttpConns \X HttpTokens   \* of requests
HttpReply == HttpConns \X Nat          \* of responses
HttpReading == {"line", "field", "body", "route"}
HttpWriting == {"write", "flush", "close"}
HttpLocals ==
    [pc : {"none", "accept"} \union HttpReading \union HttpWriting, conn : HttpConns \union {"none"},
     recv : Seq(HttpBytes), pos : Nat, size : Nat, line : Seq(HttpBytes), uri : {"", "routed", "unrouted"},
     length : Nat, body : Seq(HttpBytes), response : Seq(HttpReply), written : Nat, send : Seq(HttpReply)]

HttpTypeOK ==
    /\ httpServer \in {"none", "made", "bound", "listening"}
    /\ httpConn \in [HttpConns -> {"none", "open", "closed"}]
    /\ httpIn \in [HttpConns -> Seq(HttpBytes)]
    /\ httpSent \in [HttpConns -> Seq(HttpReply)]
    /\ httpW \in [HttpWorkers -> HttpLocals]

\* all of bytes are of connection c
HttpAllOf(bytes, c) == \A i \in DOMAIN bytes : bytes[i][1] = c

\* what a worker with locals r has read is of its connection, as far as it will be looked at
HttpReadOwn(r) ==
    r.pc \in HttpReading \union HttpWriting =>
        /\ r.conn \in HttpConns /\ r.pos <= r.size /\ r.size <= Len(r.recv)
        /\ \A i \in 1..r.size : r.recv[i][1] = r.conn
        /\ HttpAllOf(r.line, r.conn) /\ HttpAllOf(r.body, r.conn)

\* the response is numbered from 1, and the send buffer holds its bytes up to written
HttpWriteOwn(r) ==
    /\ r.pc \notin HttpWriting => r.response = <<>> /\ r.send = <<>>
    /\ r.pc \in {"none", "accept"} => r.conn = "none"
    /\ r.pc \in HttpWriting =>
         /\ \A i \in DOMAIN r.response : r.response[i] = <<r.conn, i>>
         /\ r.written <= Len(r.response) /\ Len(r.send) <= r.written
         /\ \A i \in DOMAIN r.send : r.send[i] = <<r.conn, r.written - Len(r.send) + i>>
         /\ r.pc # "flush" => r.send = <<>>

\* a connection has one worker, which has sent nothing before the response is there; no worker runs
\* before listen
HttpServed ==
    /\ \A c \in HttpConns : HttpAllOf(httpIn[c], c) /\ (httpConn[c] = "none" => httpSent[c] = <<>>)
    /\ \A w \in HttpWorkers : httpW[w].conn # "none" =>
         /\ httpConn[httpW[w].conn] = "open"
         /\ httpW[w].pc \in HttpReading => httpSent[httpW[w].conn] = <<>>
         /\ \A i \in DOMAIN httpSent[httpW[w].conn] :
              httpSent[httpW[w].conn][i][2] <= httpW[w].written - Len(httpW[w].send)
    /\ \A v, w \in HttpWorkers : v # w /\ httpW[v].conn # "none" => httpW[v].conn # httpW[w].conn
    /\ httpServer # "listening" => \A w \in HttpWorkers : httpW[w].pc = "none"

\* the inductive invariant
HttpIInv ==
    /\ HttpTypeOK /\ HttpServed /\ HttpResponseOnOwnConnection
    /\ \A w \in HttpWorkers : HttpReadOwn(httpW[w]) /\ HttpWriteOwn(httpW[w])
=============================================================================
