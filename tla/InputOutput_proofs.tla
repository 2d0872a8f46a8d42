------------------------- MODULE InputOutput_proofs -------------------------
(***************************************************************************)
(* Proofs about files, connections and readers.                            *)
(***************************************************************************)
EXTENDS HttpServer, BufferedSocket, AsyncFile, DnsResolver, HttpClient, Streams,
        IndexLemmas, SequenceTheorems, TLAPS

-----------------------------------------------------------------------------
(***************************************************************************)
(* The HTTP server                                                         *)
(***************************************************************************)

\* The locals of a worker, one by one.
LEMMA HttpFields ==
  ASSUME NEW r \in HttpLocals
  PROVE  /\ r.pc \in {"none", "accept"} \cup HttpReading \cup HttpWriting
         /\ r.conn \in HttpConns \cup {"none"}
         /\ r.recv \in Seq(HttpBytes) /\ r.pos \in Nat /\ r.size \in Nat
         /\ r.line \in Seq(HttpBytes) /\ r.uri \in {"", "routed", "unrouted"} /\ r.length \in Nat /\ r.body \in Seq(HttpBytes)
         /\ r.response \in Seq(HttpReply) /\ r.written \in Nat /\ r.send \in Seq(HttpReply)
BY DEF HttpLocals

\* The bytes of a concatenation are of a connection if those of its parts are.
LEMMA HttpAllOfConcat ==
  ASSUME NEW S, NEW s \in Seq(S), NEW t \in Seq(S), NEW c, HttpAllOf(s, c), HttpAllOf(t, c)
  PROVE  HttpAllOf(s \o t, c)
<1>1. /\ Len(s) \in Nat /\ Len(t) \in Nat /\ DOMAIN (s \o t) = 1 .. Len(s) + Len(t)
      /\ DOMAIN s = 1 .. Len(s) /\ DOMAIN t = 1 .. Len(t)
  OBVIOUS
<1>2. ASSUME NEW i \in 1 .. Len(s) + Len(t)
      PROVE  (s \o t)[i][1] = c
  <2>1. CASE i <= Len(s)
    <3>1. i \in 1 .. Len(s) /\ (s \o t)[i] = s[i]
      BY <1>1, <2>1
    <3>2. QED
      BY <1>1, <3>1 DEF HttpAllOf
  <2>2. CASE ~(i <= Len(s))
    <3>1. i - Len(s) \in 1 .. Len(t) /\ (s \o t)[i] = t[i - Len(s)]
      BY <1>1, <2>2
    <3>2. QED
      BY <1>1, <3>1 DEF HttpAllOf
  <2>3. QED
    BY <2>1, <2>2
<1>3. QED
  BY <1>1, <1>2 DEF HttpAllOf

\* What is left when some locals of the invariant change, and a connection stays or is given up.
LEMMA HttpSetStep ==
  ASSUME HttpIInv, NEW w \in HttpWorkers, NEW r \in HttpLocals,
         httpW' = [httpW EXCEPT ![w] = r],
         httpServer' = httpServer, httpConn' = httpConn, httpSent' = httpSent,
         httpIn' \in [HttpConns -> Seq(HttpBytes)], \A c \in HttpConns : HttpAllOf(httpIn'[c], c),
         HttpReadOwn(r), HttpWriteOwn(r),
         r.conn # "none" =>
           /\ r.conn = httpW[w].conn
           /\ r.pc \in HttpReading => httpW[w].pc \in HttpReading
           /\ httpW[w].pc \in HttpWriting => r.written - Len(r.send) = httpW[w].written - Len(httpW[w].send),
         httpW[w].pc # "none"
  PROVE  HttpIInv'
<1>1. /\ httpW'[w] = r /\ httpW' \in [HttpWorkers -> HttpLocals]
      /\ \A v \in HttpWorkers : v # w => httpW'[v] = httpW[v]
  BY DEF HttpIInv, HttpTypeOK
<1>2. HttpTypeOK'
  BY <1>1 DEF HttpIInv, HttpTypeOK
<1>3. HttpResponseOnOwnConnection'
  BY DEF HttpIInv, HttpResponseOnOwnConnection
<1>4. \A v \in HttpWorkers : HttpReadOwn(httpW'[v]) /\ HttpWriteOwn(httpW'[v])
  BY <1>1 DEF HttpIInv
<1>5. HttpServed'
  <2>1. \A c \in HttpConns : HttpAllOf(httpIn'[c], c) /\ (httpConn'[c] = "none" => httpSent'[c] = <<>>)
    BY DEF HttpIInv, HttpServed
  <2>2. \A v, u \in HttpWorkers : v # u /\ httpW'[v].conn # "none" => httpW'[v].conn # httpW'[u].conn
    BY <1>1 DEF HttpIInv, HttpServed
  <2>5. httpServer' # "listening" => \A v \in HttpWorkers : httpW'[v].pc = "none"
    BY <1>1 DEF HttpIInv, HttpServed
  <2>3. ASSUME NEW v \in HttpWorkers, httpW'[v].conn # "none"
        PROVE  /\ httpConn[httpW'[v].conn] = "open"
               /\ httpW'[v].pc \in HttpReading => httpSent[httpW'[v].conn] = <<>>
               /\ \A i \in DOMAIN httpSent[httpW'[v].conn] :
                    httpSent[httpW'[v].conn][i][2] <= httpW'[v].written - Len(httpW'[v].send)
    <3>1. CASE v # w
      BY <1>1, <2>3, <3>1 DEF HttpIInv, HttpServed
    <3>2. CASE v = w
      <4>1. /\ httpW'[v] = r /\ r.conn = httpW[w].conn /\ r.conn # "none"
            /\ httpConn[r.conn] = "open"
            /\ httpW[w].pc \in HttpReading => httpSent[r.conn] = <<>>
            /\ \A i \in DOMAIN httpSent[r.conn] :
                 httpSent[r.conn][i][2] <= httpW[w].written - Len(httpW[w].send)
        BY <1>1, <2>3, <3>2 DEF HttpIInv, HttpServed
      <4>2. httpW[w].pc \in HttpReading \/ httpW[w].pc \in HttpWriting
        <5>1. httpW[w] \in HttpLocals /\ HttpWriteOwn(httpW[w])
          BY DEF HttpIInv, HttpTypeOK
        <5>2. QED
          BY <4>1, <5>1, HttpFields DEF HttpWriteOwn
      <4>3. \A i \in DOMAIN httpSent[r.conn] : httpSent[r.conn][i][2] <= r.written - Len(r.send)
        <5>1. CASE httpW[w].pc \in HttpWriting
          BY <4>1, <5>1
        <5>2. CASE httpW[w].pc \in HttpReading
          BY <4>1, <5>2
        <5>3. QED
          BY <4>2, <5>1, <5>2
      <4>4. QED
        BY <4>1, <4>3
    <3>3. QED
      BY <3>1, <3>2
  <2>4. QED
    BY <2>1, <2>2, <2>3, <2>5 DEF HttpServed
<1>6. QED
  BY <1>2, <1>3, <1>4, <1>5 DEF HttpIInv

\* A worker that reads keeps to its connection when build_request takes a line, or gives it up.
LEMMA HttpLineReadOwn ==
  ASSUME NEW r \in HttpLocals, r.pc \in {"line", "field"}, HttpReadOwn(r), HttpWriteOwn(r)
  PROVE  /\ HttpLineRead(r) \in HttpLocals
         /\ HttpReadOwn(HttpLineRead(r)) /\ HttpWriteOwn(HttpLineRead(r))
         /\ HttpLineRead(r).conn # "none" => HttpLineRead(r).conn = r.conn /\ HttpLineRead(r).pc \in HttpReading
<1> DEFINE first == r.line[1][2]
           good == Len(r.line) = 1 /\ first \in {"routed", "unrouted"}
<1> USE DEF HttpReading, HttpWriting
<1>0. \A s \in HttpLocals :
        /\ s.recv = r.recv /\ s.pos = r.pos /\ s.size = r.size /\ s.body = r.body
        /\ s.response = r.response /\ s.send = r.send /\ (s.line = r.line \/ s.line = <<>>)
        /\ \/ s.pc \in HttpReading /\ s.conn = r.conn
           \/ s.pc = "accept" /\ s.conn = "none"
        => /\ HttpReadOwn(s) /\ HttpWriteOwn(s)
           /\ s.conn # "none" => s.conn = r.conn /\ s.pc \in HttpReading
  BY DEF HttpReadOwn, HttpWriteOwn, HttpAllOf
<1> DEFINE PCs == {"none", "accept"} \cup HttpReading \cup HttpWriting
<1>a. <<>> \in Seq(HttpBytes) /\ "none" \in HttpConns \cup {"none"} /\ "" \in {"", "routed", "unrouted"} /\ 0 \in Nat
      /\ "field" \in PCs /\ "accept" \in PCs
  OBVIOUS
<1>1. CASE r.pc = "line" /\ good
  <2> DEFINE s == [r EXCEPT !.pc = "field", !.uri = first, !.line = <<>>]
  <2>1. HttpLineRead(r) = s
    BY <1>1 DEF HttpLineRead
  <2>2. s \in HttpLocals
    <3>1. first \in {"", "routed", "unrouted"}
      BY <1>1
    <3> HIDE DEF first, HttpReading, HttpWriting
    <3>2. QED
      BY <1>a, <3>1 DEF HttpLocals
  <2>3. /\ s.recv = r.recv /\ s.pos = r.pos /\ s.size = r.size /\ s.body = r.body
        /\ s.response = r.response /\ s.send = r.send /\ s.line = <<>>
        /\ s.pc \in HttpReading /\ s.conn = r.conn
    BY DEF HttpLocals
  <2> HIDE DEF s
  <2>4. QED
    BY <1>0, <2>1, <2>2, <2>3
<1>2. CASE (r.pc = "line" /\ ~good) \/ (r.pc = "field" /\ r.line # <<>> /\ first = "badlength")
  <2> DEFINE s == HttpRefuse(r)
  <2>1. HttpLineRead(r) = s
    BY <1>2 DEF HttpLineRead
  <2>2. s \in HttpLocals
    <3> HIDE DEF HttpReading, HttpWriting
    <3>1. QED
      BY <1>a DEF HttpLocals, HttpRefuse
  <2>3. /\ s.recv = r.recv /\ s.pos = r.pos /\ s.size = r.size /\ s.body = r.body
        /\ s.response = r.response /\ s.send = r.send /\ s.line = <<>>
        /\ s.pc = "accept" /\ s.conn = "none"
    BY DEF HttpLocals, HttpRefuse
  <2> HIDE DEF s
  <2>4. QED
    BY <1>0, <2>1, <2>2, <2>3
<1>3. CASE r.pc = "field" /\ r.line = <<>>
  <2> DEFINE s == [r EXCEPT !.pc = IF r.length > 0 THEN "body" ELSE "route"]
  <2>1. HttpLineRead(r) = s
    BY <1>3 DEF HttpLineRead
  <2>2. s \in HttpLocals
    BY DEF HttpLocals
  <2>3. /\ s.recv = r.recv /\ s.pos = r.pos /\ s.size = r.size /\ s.body = r.body
        /\ s.response = r.response /\ s.send = r.send /\ s.line = r.line
        /\ s.pc \in HttpReading /\ s.conn = r.conn
    BY DEF HttpLocals
  <2> HIDE DEF s
  <2>4. QED
    BY <1>0, <2>1, <2>2, <2>3
<1>4. CASE r.pc = "field" /\ r.line # <<>> /\ first # "badlength"
  <2> DEFINE length == IF first = "length" THEN HttpBodyLength ELSE r.length
             s == [r EXCEPT !.length = length, !.line = <<>>]
  <2>1. HttpLineRead(r) = s
    BY <1>4 DEF HttpLineRead
  <2>2. length \in Nat
    BY HttpFields DEF HttpBodyLength
  <2> HIDE DEF length
  <2>3. s \in HttpLocals
    <3> HIDE DEF HttpReading, HttpWriting
    <3>1. QED
      BY <1>a, <2>2 DEF HttpLocals
  <2>4. /\ s.recv = r.recv /\ s.pos = r.pos /\ s.size = r.size /\ s.body = r.body
        /\ s.response = r.response /\ s.send = r.send /\ s.line = <<>>
        /\ s.pc \in HttpReading /\ s.conn = r.conn
    BY <1>4 DEF HttpLocals
  <2> HIDE DEF s
  <2>5. QED
    BY <1>0, <2>1, <2>3, <2>4
<1>5. QED
  BY <1>1, <1>2, <1>3, <1>4

\* A part of the receive buffer.
LEMMA HttpPartOf ==
  ASSUME NEW S, NEW s \in Seq(S), NEW a \in Nat, NEW b \in Nat, NEW n \in Nat, NEW c,
         1 <= a, b <= n, n <= Len(s), \A i \in 1 .. n : s[i][1] = c
  PROVE  SubSeq(s, a, b) \in Seq(S) /\ HttpAllOf(SubSeq(s, a, b), c)
<1>1. /\ SubSeq(s, a, b) \in Seq(S)
      /\ DOMAIN SubSeq(s, a, b) = 1 .. (IF a <= b THEN b - a + 1 ELSE 0)
      /\ \A i \in 1 .. b - a + 1 : SubSeq(s, a, b)[i] = s[a + i - 1]
  <2>1. \A i \in a .. b : s[i] \in S
    OBVIOUS
  <2>2. QED
    BY <2>1, SubSeqProperties
<1>2. \A i \in 1 .. b - a + 1 : a + i - 1 \in 1 .. n
  OBVIOUS
<1>3. \A i \in 1 .. (IF a <= b THEN b - a + 1 ELSE 0) : i \in 1 .. b - a + 1
  OBVIOUS
<1>4. QED
  BY <1>1, <1>2, <1>3 DEF HttpAllOf

\* What the invariant says of one worker that reads.
LEMMA HttpReader ==
  ASSUME HttpIInv, NEW w \in HttpWorkers, httpW[w].pc \in HttpReading
  PROVE  /\ httpW[w] \in HttpLocals /\ HttpReadOwn(httpW[w]) /\ HttpWriteOwn(httpW[w])
         /\ httpW[w].conn \in HttpConns /\ httpW[w].pos <= httpW[w].size /\ httpW[w].size <= Len(httpW[w].recv)
         /\ \A i \in 1 .. httpW[w].size : httpW[w].recv[i][1] = httpW[w].conn
         /\ HttpAllOf(httpW[w].line, httpW[w].conn) /\ HttpAllOf(httpW[w].body, httpW[w].conn)
         /\ httpW[w].response = <<>> /\ httpW[w].send = <<>>
         /\ httpIn \in [HttpConns -> Seq(HttpBytes)] /\ \A c \in HttpConns : HttpAllOf(httpIn[c], c)
         /\ httpW[w].pc \notin HttpWriting
<1>1. httpW[w].pc \notin HttpWriting
  BY DEF HttpReading, HttpWriting
<1>2. QED
  BY <1>1 DEF HttpIInv, HttpTypeOK, HttpReadOwn, HttpWriteOwn, HttpServed

\* A worker that goes on reading, or gives its connection up.
LEMMA HttpReadOn ==
  ASSUME HttpIInv, NEW w \in HttpWorkers, httpW[w].pc \in HttpReading,
         NEW r \in HttpLocals, httpW' = [httpW EXCEPT ![w] = r],
         httpServer' = httpServer, httpConn' = httpConn, httpSent' = httpSent,
         httpIn' \in [HttpConns -> Seq(HttpBytes)], \A c \in HttpConns : HttpAllOf(httpIn'[c], c),
         HttpReadOwn(r), HttpWriteOwn(r),
         r.conn # "none" => r.conn = httpW[w].conn
  PROVE  HttpIInv'
<1>1. httpW[w].pc # "none"
  BY DEF HttpReading
<1>2. QED
  BY <1>1, HttpReader, HttpSetStep

\* read_until_crlf
LEMMA HttpReadLineStep ==
  ASSUME HttpIInv, NEW w \in HttpWorkers, HttpReadLine(w)
  PROVE  HttpIInv'
<1> DEFINE r == httpW[w]
           ends == {i \in (r.pos + 1) .. r.size : r.recv[i][2] = "crlf"}
           stop == IF ends = {} THEN r.size ELSE CHOOSE i \in ends : \A j \in ends : i <= j
           to == IF ends = {} THEN stop ELSE stop - 1
           part == SubSeq(r.recv, r.pos + 1, to)
           got == [r EXCEPT !.line = r.line \o part, !.pos = stop]
<1>1. r.pc \in {"line", "field"} /\ r.pc \in HttpReading
  BY DEF HttpReadLine, HttpReading
<1>2. /\ r \in HttpLocals /\ HttpReadOwn(r) /\ HttpWriteOwn(r)
      /\ r.conn \in HttpConns /\ r.pos <= r.size /\ r.size <= Len(r.recv)
      /\ \A i \in 1 .. r.size : r.recv[i][1] = r.conn
      /\ HttpAllOf(r.line, r.conn) /\ HttpAllOf(r.body, r.conn)
      /\ httpIn \in [HttpConns -> Seq(HttpBytes)] /\ \A c \in HttpConns : HttpAllOf(httpIn[c], c)
  BY <1>1, HttpReader
<1>3. r.recv \in Seq(HttpBytes) /\ r.pos \in Nat /\ r.size \in Nat /\ r.line \in Seq(HttpBytes)
  BY <1>2, HttpFields
<1>4. HttpSet(w, IF ends = {} THEN got ELSE HttpLineRead(got))
  BY DEF HttpReadLine
<1>5. stop \in Nat /\ to \in Nat /\ stop <= r.size /\ to <= r.size
  <2>1. CASE ends = {}
    BY <1>3, <2>1
  <2>2. CASE ends # {}
    <3>1. ends \in SUBSET Nat
      BY <1>3
    <3>2. \E i \in ends : \A j \in ends : i <= j
      <4> HIDE DEF ends
      <4>1. QED
        BY <2>2, <3>1, LeastNumber
    <3>3. stop \in ends
      <4> HIDE DEF ends
      <4>1. QED
        BY <2>2, <3>2
    <3>4. to = stop - 1
      BY <2>2
    <3>5. stop \in (r.pos + 1) .. r.size
      BY <3>3
    <3> HIDE DEF stop, to
    <3>6. QED
      BY <1>3, <3>4, <3>5
  <2>3. QED
    BY <2>1, <2>2
<1> HIDE DEF ends, stop, to
<1>6. part \in Seq(HttpBytes) /\ HttpAllOf(part, r.conn)
  <2> HIDE DEF r
  <2>1. r.pos + 1 \in Nat /\ 1 <= r.pos + 1
    BY <1>3
  <2>2. QED
    BY <1>2, <1>3, <1>5, <2>1, HttpPartOf
<1> HIDE DEF part
<1>7. r.line \o part \in Seq(HttpBytes) /\ HttpAllOf(r.line \o part, r.conn)
  BY <1>2, <1>3, <1>6, HttpAllOfConcat
<1>8. got \in HttpLocals
  <2> HIDE DEF r
  <2>1. QED
    BY <1>2, <1>5, <1>7 DEF HttpLocals
<1>9. /\ got.pc = r.pc /\ got.conn = r.conn /\ got.line = r.line \o part /\ got.pos = stop
      /\ got.size = r.size /\ got.recv = r.recv /\ got.body = r.body
      /\ got.response = r.response /\ got.send = r.send /\ got.written = r.written
  <2> HIDE DEF r
  <2>1. QED
    BY <1>2 DEF HttpLocals
<1> HIDE DEF got
<1>10. HttpReadOwn(got) /\ HttpWriteOwn(got)
  <2> HIDE DEF r
  <2>1. r.pc \notin HttpWriting
    BY <1>1 DEF HttpWriting
  <2>2. HttpReadOwn(got)
    BY <1>2, <1>5, <1>7, <1>9 DEF HttpReadOwn
  <2>3. HttpWriteOwn(got)
    BY <1>2, <1>9, <2>1 DEF HttpWriteOwn
  <2>4. QED
    BY <2>2, <2>3
<1>11. /\ httpServer' = httpServer /\ httpConn' = httpConn /\ httpSent' = httpSent /\ httpIn' = httpIn
       /\ httpW' = [httpW EXCEPT ![w] = IF ends = {} THEN got ELSE HttpLineRead(got)]
  BY <1>4 DEF HttpSet
<1>12. CASE ends = {}
  BY <1>1, <1>2, <1>8, <1>9, <1>10, <1>11, <1>12, HttpReadOn
<1>13. CASE ends # {}
  <2>1. /\ HttpLineRead(got) \in HttpLocals
        /\ HttpReadOwn(HttpLineRead(got)) /\ HttpWriteOwn(HttpLineRead(got))
        /\ HttpLineRead(got).conn # "none" => HttpLineRead(got).conn = r.conn
    BY <1>1, <1>8, <1>9, <1>10, HttpLineReadOwn
  <2>2. httpW' = [httpW EXCEPT ![w] = HttpLineRead(got)]
    BY <1>11, <1>13
  <2>3. QED
    BY <1>1, <1>2, <1>11, <2>1, <2>2, HttpReadOn
<1>14. QED
  BY <1>12, <1>13

\* read_bytes
LEMMA HttpReadBodyStep ==
  ASSUME HttpIInv, NEW w \in HttpWorkers, HttpReadBody(w)
  PROVE  HttpIInv'
<1> DEFINE r == httpW[w]
           byte == r.recv[r.pos + 1]
           body == Append(r.body, byte)
           pc == IF Len(body) = r.length THEN "route" ELSE "body"
           got == [r EXCEPT !.pos = r.pos + 1, !.body = body, !.pc = pc]
<1>1. r.pc = "body" /\ r.pc \in HttpReading /\ r.pos < r.size
  BY DEF HttpReadBody, HttpReading
<1>2. /\ r \in HttpLocals /\ HttpReadOwn(r) /\ HttpWriteOwn(r)
      /\ r.conn \in HttpConns /\ r.size <= Len(r.recv)
      /\ \A i \in 1 .. r.size : r.recv[i][1] = r.conn
      /\ HttpAllOf(r.line, r.conn) /\ HttpAllOf(r.body, r.conn)
      /\ r.response = <<>> /\ r.send = <<>>
      /\ httpIn \in [HttpConns -> Seq(HttpBytes)] /\ \A c \in HttpConns : HttpAllOf(httpIn[c], c)
  BY <1>1, HttpReader
<1>3. r.recv \in Seq(HttpBytes) /\ r.pos \in Nat /\ r.size \in Nat /\ r.body \in Seq(HttpBytes)
  BY <1>2, HttpFields
<1>4. HttpSet(w, got)
  BY DEF HttpReadBody
<1>5. byte \in HttpBytes /\ byte[1] = r.conn /\ r.pos + 1 \in Nat /\ r.pos + 1 <= r.size
  <2> HIDE DEF r
  <2>1. r.pos + 1 \in 1 .. r.size /\ r.pos + 1 \in 1 .. Len(r.recv) /\ r.pos + 1 \in Nat
    BY <1>1, <1>2, <1>3
  <2>2. QED
    BY <1>2, <1>3, <2>1
<1> HIDE DEF byte
<1>6. body \in Seq(HttpBytes) /\ HttpAllOf(body, r.conn)
  <2> HIDE DEF r
  <2>1. <<byte>> \in Seq(HttpBytes) /\ HttpAllOf(<<byte>>, r.conn)
    BY <1>5 DEF HttpAllOf
  <2>2. Append(r.body, byte) = r.body \o <<byte>>
    BY <1>3, <1>5, AppendIsConcat
  <2>3. HttpAllOf(r.body \o <<byte>>, r.conn)
    BY <1>2, <1>3, <2>1, HttpAllOfConcat
  <2>4. Append(r.body, byte) \in Seq(HttpBytes)
    BY <1>3, <1>5
  <2>5. QED
    BY <2>2, <2>3, <2>4
<1>7. pc \in HttpReading /\ pc \in {"none", "accept"} \cup HttpReading \cup HttpWriting
      /\ pc \notin HttpWriting /\ pc \notin {"none", "accept"}
  BY DEF HttpReading, HttpWriting
<1> HIDE DEF body, pc
<1>8. got \in HttpLocals
  <2> HIDE DEF r
  <2>1. QED
    BY <1>2, <1>5, <1>6, <1>7 DEF HttpLocals
<1>9. /\ got.pc = pc /\ got.conn = r.conn /\ got.line = r.line /\ got.pos = r.pos + 1
      /\ got.size = r.size /\ got.recv = r.recv /\ got.body = body
      /\ got.response = r.response /\ got.send = r.send
  <2> HIDE DEF r
  <2>1. QED
    BY <1>2 DEF HttpLocals
<1> HIDE DEF got
<1>10. HttpReadOwn(got) /\ HttpWriteOwn(got)
  <2> HIDE DEF r
  <2>1. HttpReadOwn(got)
    BY <1>2, <1>5, <1>6, <1>9 DEF HttpReadOwn
  <2>2. HttpWriteOwn(got)
    BY <1>2, <1>7, <1>9 DEF HttpWriteOwn
  <2>3. QED
    BY <2>1, <2>2
<1>11. QED
  BY <1>1, <1>2, <1>4, <1>8, <1>9, <1>10, HttpReadOn DEF HttpSet

\* The loop of read_until_crlf or of read_bytes ends without more to read.
LEMMA HttpReadEndsOwn ==
  ASSUME NEW r \in HttpLocals, r.pc \in {"line", "field", "body"}, HttpReadOwn(r), HttpWriteOwn(r)
  PROVE  /\ HttpReadEnds(r) \in HttpLocals
         /\ HttpReadOwn(HttpReadEnds(r)) /\ HttpWriteOwn(HttpReadEnds(r))
         /\ HttpReadEnds(r).conn # "none" => HttpReadEnds(r).conn = r.conn
<1>1. CASE r.pc # "body"
  BY <1>1, HttpLineReadOwn DEF HttpReadEnds
<1>2. CASE r.pc = "body"
  <2> DEFINE s == [r EXCEPT !.pc = "route"]
  <2>1. HttpReadEnds(r) = s
    BY <1>2 DEF HttpReadEnds
  <2>2. s \in HttpLocals
    BY DEF HttpLocals, HttpReading
  <2>3. /\ s.pc = "route" /\ s.conn = r.conn /\ s.line = r.line /\ s.pos = r.pos
        /\ s.size = r.size /\ s.recv = r.recv /\ s.body = r.body
        /\ s.response = r.response /\ s.send = r.send
    BY DEF HttpLocals
  <2> HIDE DEF s
  <2>4. QED
    BY <1>2, <2>1, <2>2, <2>3 DEF HttpReadOwn, HttpWriteOwn, HttpReading, HttpWriting
<1>3. QED
  BY <1>1, <1>2

\* Buffers that are not looked at any more are as good as any.
LEMMA HttpRewound ==
  ASSUME NEW r \in HttpLocals, r.pc \in HttpReading, HttpReadOwn(r), HttpWriteOwn(r),
         NEW s, s = [r EXCEPT !.pos = 0] \/ s = [r EXCEPT !.pos = 0, !.size = 0]
  PROVE  /\ s \in HttpLocals /\ HttpReadOwn(s) /\ HttpWriteOwn(s)
         /\ s.pc = r.pc /\ s.conn = r.conn
<1>1. s \in HttpLocals
  <2>1. [r EXCEPT !.pos = 0] \in HttpLocals
    BY DEF HttpLocals
  <2>2. [r EXCEPT !.pos = 0, !.size = 0] \in HttpLocals
    BY DEF HttpLocals
  <2>3. QED
    BY <2>1, <2>2, Zenon
<1>2. /\ s.pc = r.pc /\ s.conn = r.conn /\ s.line = r.line /\ s.recv = r.recv /\ s.body = r.body
      /\ s.response = r.response /\ s.send = r.send /\ s.written = r.written
      /\ s.pos = 0 /\ (s.size = 0 \/ s.size = r.size)
  <2>1. CASE s = [r EXCEPT !.pos = 0]
    BY <2>1 DEF HttpLocals
  <2>2. CASE s = [r EXCEPT !.pos = 0, !.size = 0]
    BY <2>2 DEF HttpLocals
  <2>3. QED
    BY <2>1, <2>2
<1>3. r.size \in Nat /\ Len(r.recv) \in Nat
  <2>1. r.size \in Nat /\ r.recv \in Seq(HttpBytes)
    BY HttpFields, Zenon
  <2>2. QED
    BY <2>1
<1>4. HttpReadOwn(s)
  <2>1. /\ r.conn \in HttpConns /\ r.size <= Len(r.recv)
        /\ \A i \in 1 .. r.size : r.recv[i][1] = r.conn
        /\ HttpAllOf(r.line, r.conn) /\ HttpAllOf(r.body, r.conn)
    BY DEF HttpReadOwn
  <2>2. QED
    BY <1>2, <1>3, <2>1 DEF HttpReadOwn
<1>5. HttpWriteOwn(s)
  BY <1>2 DEF HttpWriteOwn, HttpReading, HttpWriting
<1>6. QED
  BY <1>1, <1>2, <1>4, <1>5

\* The first bytes of the array are what was received.
LEMMA HttpOverwritten ==
  ASSUME NEW S, NEW s \in Seq(S), NEW t \in Seq(S)
  PROVE  /\ HttpOverwrite(s, t) \in Seq(S) /\ Len(t) <= Len(HttpOverwrite(s, t))
         /\ \A i \in 1 .. Len(t) : HttpOverwrite(s, t)[i] = t[i]
<1> DEFINE n == IF Len(t) > Len(s) THEN Len(t) ELSE Len(s)
           f == [i \in 1 .. n |-> IF i <= Len(t) THEN t[i] ELSE s[i]]
<1>1. HttpOverwrite(s, t) = f
  BY DEF HttpOverwrite
<1>2. n \in Nat /\ Len(t) <= n
  OBVIOUS
<1>3. \A i \in 1 .. n : f[i] \in S
  <2>1. TAKE i \in 1 .. n
  <2>2. CASE i <= Len(t)
    BY <2>2
  <2>3. CASE ~(i <= Len(t))
    <3>1. i \in 1 .. Len(s)
      BY <2>3
    <3>2. QED
      BY <2>3, <3>1
  <2>4. QED
    BY <2>2, <2>3
<1>4. f \in Seq(S) /\ Len(f) = n
  <2> HIDE DEF n
  <2>1. f \in [1 .. n -> S]
    BY <1>3
  <2>2. QED
    BY <1>2, <2>1, LenProperties
<1>5. \A i \in 1 .. Len(t) : f[i] = t[i]
  BY <1>2
<1>6. QED
  BY <1>1, <1>2, <1>4, <1>5

\* refill_buffer
LEMMA HttpRefillStep ==
  ASSUME HttpIInv, NEW w \in HttpWorkers, HttpRefill(w)
  PROVE  HttpIInv'
<1> DEFINE r == httpW[w]
           c == r.conn
<1>1. r.pc \in {"line", "field", "body"} /\ r.pc \in HttpReading
  BY DEF HttpRefill, HttpReading
<1>2. /\ r \in HttpLocals /\ HttpReadOwn(r) /\ HttpWriteOwn(r) /\ c \in HttpConns
      /\ HttpAllOf(r.line, c) /\ HttpAllOf(r.body, c) /\ r.response = <<>> /\ r.send = <<>>
      /\ httpIn \in [HttpConns -> Seq(HttpBytes)] /\ \A d \in HttpConns : HttpAllOf(httpIn[d], d)
      /\ r.pc \notin HttpWriting
  BY <1>1, HttpReader
<1>3. r.recv \in Seq(HttpBytes) /\ r.pos \in Nat /\ r.size \in Nat
  BY <1>2, HttpFields
<1>4. ASSUME NEW n \in 1 .. HttpBuf,
             n <= Len(httpIn[c]),
             httpIn' = [httpIn EXCEPT ![c] = SubSeq(httpIn[c], n + 1, Len(httpIn[c]))],
             httpW' = [httpW EXCEPT ![w] =
                         [r EXCEPT !.recv = HttpOverwrite(r.recv, SubSeq(httpIn[c], 1, n)), !.pos = 0, !.size = n]],
             UNCHANGED <<httpServer, httpConn, httpSent>>
      PROVE  HttpIInv'
  <2> DEFINE in == httpIn[c]
             bytes == SubSeq(in, 1, n)
             left == SubSeq(in, n + 1, Len(in))
             recv == HttpOverwrite(r.recv, bytes)
             got == [r EXCEPT !.recv = recv, !.pos = 0, !.size = n]
  <2>1. in \in Seq(HttpBytes) /\ HttpAllOf(in, c) /\ Len(in) \in Nat /\ n \in Nat /\ 1 <= n /\ n <= Len(in)
    BY <1>2, <1>4, HttpAssumption
  <2> HIDE DEF r, in
  <2>2. \A i \in 1 .. Len(in) : in[i][1] = c
    BY <2>1 DEF HttpAllOf
  <2>3. bytes \in Seq(HttpBytes) /\ HttpAllOf(bytes, c) /\ left \in Seq(HttpBytes) /\ HttpAllOf(left, c)
    <3>1. n + 1 \in Nat /\ 1 <= n + 1 /\ 1 \in Nat /\ 1 <= 1
      BY <2>1
    <3> HIDE DEF c
    <3>2. QED
      BY <2>1, <2>2, <3>1, HttpPartOf
  <2>4. Len(bytes) = n
    BY <2>1
  <2> HIDE DEF bytes, left
  <2>5. recv \in Seq(HttpBytes) /\ n <= Len(recv) /\ \A i \in 1 .. n : recv[i] = bytes[i]
    BY <1>3, <2>3, <2>4, HttpOverwritten
  <2>6. \A i \in 1 .. n : recv[i][1] = c
    <3>1. DOMAIN bytes = 1 .. n
      BY <2>3, <2>4
    <3>2. QED
      BY <2>3, <2>5, <3>1 DEF HttpAllOf
  <2> HIDE DEF recv
  <2>7. got \in HttpLocals
    BY <1>2, <2>1, <2>5 DEF HttpLocals
  <2>8. /\ got.pc = r.pc /\ got.conn = c /\ got.line = r.line /\ got.pos = 0
        /\ got.size = n /\ got.recv = recv /\ got.body = r.body
        /\ got.response = r.response /\ got.send = r.send
    BY <1>2 DEF HttpLocals
  <2>9. httpW' = [httpW EXCEPT ![w] = got] /\ httpIn' = [httpIn EXCEPT ![c] = left]
    BY <1>4 DEF recv, bytes, left, in
  <2> HIDE DEF got
  <2>10. HttpReadOwn(got)
    BY <1>2, <2>1, <2>5, <2>6, <2>8 DEF HttpReadOwn
  <2>11. HttpWriteOwn(got)
    BY <1>1, <1>2, <2>8 DEF HttpWriteOwn
  <2>12. httpIn' \in [HttpConns -> Seq(HttpBytes)] /\ \A d \in HttpConns : HttpAllOf(httpIn'[d], d)
    <3> HIDE DEF c
    <3>1. QED
      BY <1>2, <2>3, <2>9
  <2>13. httpServer' = httpServer /\ httpConn' = httpConn /\ httpSent' = httpSent
    BY <1>4
  <2>14. got.conn = httpW[w].conn
    BY <2>8 DEF r
  <2>15. httpW[w].pc \in HttpReading
    BY <1>1 DEF r
  <2>16. QED
    BY <2>7, <2>9, <2>10, <2>11, <2>12, <2>13, <2>14, <2>15, HttpReadOn
<1>5. ASSUME NEW s, httpW' = [httpW EXCEPT ![w] = s],
             httpIn' = httpIn \/ httpIn' = [httpIn EXCEPT ![c] = <<>>],
             UNCHANGED <<httpServer, httpConn, httpSent>>,
             NEW e, e = [r EXCEPT !.pos = 0] \/ e = [r EXCEPT !.pos = 0, !.size = 0],
             s = e \/ s = HttpReadEnds(e)
      PROVE  HttpIInv'
  <2>1. e \in HttpLocals /\ HttpReadOwn(e) /\ HttpWriteOwn(e) /\ e.pc = r.pc /\ e.conn = c
    BY <1>1, <1>2, <1>5, HttpRewound
  <2>2. s \in HttpLocals /\ HttpReadOwn(s) /\ HttpWriteOwn(s) /\ (s.conn # "none" => s.conn = c)
    BY <1>1, <1>5, <2>1, HttpReadEndsOwn
  <2>3. httpIn' \in [HttpConns -> Seq(HttpBytes)] /\ \A d \in HttpConns : HttpAllOf(httpIn'[d], d)
    <3>1. CASE httpIn' = httpIn
      BY <1>2, <3>1
    <3>2. CASE httpIn' = [httpIn EXCEPT ![c] = <<>>]
      <4>1. <<>> \in Seq(HttpBytes) /\ HttpAllOf(<<>>, c)
        BY DEF HttpAllOf
      <4> HIDE DEF c, r
      <4>2. QED
        BY <1>2, <3>2, <4>1
    <3>3. QED
      BY <1>5, <3>1, <3>2
  <2>4. QED
    BY <1>1, <1>5, <2>2, <2>3, HttpReadOn
<1>6. QED
  <2>1. \/ \E n \in 1 .. HttpBuf :
             /\ n <= Len(httpIn[c])
             /\ httpIn' = [httpIn EXCEPT ![c] = SubSeq(httpIn[c], n + 1, Len(httpIn[c]))]
             /\ httpW' = [httpW EXCEPT ![w] =
                  [r EXCEPT !.recv = HttpOverwrite(r.recv, SubSeq(httpIn[c], 1, n)), !.pos = 0, !.size = n]]
             /\ UNCHANGED <<httpServer, httpConn, httpSent>>
        \/ /\ httpIn' = [httpIn EXCEPT ![c] = <<>>]
           /\ httpW' = [httpW EXCEPT ![w] = HttpReadEnds([r EXCEPT !.pos = 0, !.size = 0])]
           /\ UNCHANGED <<httpServer, httpConn, httpSent>>
        \/ HttpSet(w, IF r.size = 0 THEN HttpReadEnds([r EXCEPT !.pos = 0]) ELSE [r EXCEPT !.pos = 0])
    BY DEF HttpRefill
  <2>2. CASE \/ /\ httpIn' = [httpIn EXCEPT ![c] = <<>>]
                /\ httpW' = [httpW EXCEPT ![w] = HttpReadEnds([r EXCEPT !.pos = 0, !.size = 0])]
                /\ UNCHANGED <<httpServer, httpConn, httpSent>>
    BY <1>5, <2>2
  <2>3. CASE HttpSet(w, IF r.size = 0 THEN HttpReadEnds([r EXCEPT !.pos = 0]) ELSE [r EXCEPT !.pos = 0])
    BY <1>5, <2>3 DEF HttpSet
  <2>4. QED
    BY <1>4, <2>1, <2>2, <2>3

\* What the invariant says of one worker that answers.
LEMMA HttpWriter ==
  ASSUME HttpIInv, NEW w \in HttpWorkers, httpW[w].pc \in HttpWriting
  PROVE  /\ httpW[w] \in HttpLocals /\ HttpReadOwn(httpW[w]) /\ HttpWriteOwn(httpW[w])
         /\ httpW[w].conn \in HttpConns
         /\ httpW[w].response \in Seq(HttpReply) /\ httpW[w].send \in Seq(HttpReply) /\ httpW[w].written \in Nat
         /\ \A i \in DOMAIN httpW[w].response : httpW[w].response[i] = <<httpW[w].conn, i>>
         /\ httpW[w].written <= Len(httpW[w].response) /\ Len(httpW[w].send) <= httpW[w].written
         /\ \A i \in DOMAIN httpW[w].send :
              httpW[w].send[i] = <<httpW[w].conn, httpW[w].written - Len(httpW[w].send) + i>>
         /\ httpW[w].pc # "flush" => httpW[w].send = <<>>
         /\ httpIn \in [HttpConns -> Seq(HttpBytes)] /\ \A c \in HttpConns : HttpAllOf(httpIn[c], c)
<1>1. httpW[w] \in HttpLocals /\ HttpReadOwn(httpW[w]) /\ HttpWriteOwn(httpW[w])
  BY DEF HttpIInv, HttpTypeOK
<1>2. httpIn \in [HttpConns -> Seq(HttpBytes)] /\ \A c \in HttpConns : HttpAllOf(httpIn[c], c)
  BY DEF HttpIInv, HttpTypeOK, HttpServed
<1>3. httpW[w].response \in Seq(HttpReply) /\ httpW[w].send \in Seq(HttpReply) /\ httpW[w].written \in Nat
  BY <1>1, HttpFields
<1>4. httpW[w].conn \in HttpConns
  BY <1>1 DEF HttpReadOwn
<1>5. QED
  BY <1>1, <1>2, <1>3, <1>4 DEF HttpWriteOwn

\* The handler, or no handler: the connection is given up.
LEMMA HttpRouteStep ==
  ASSUME HttpIInv, NEW w \in HttpWorkers, HttpRoute(w)
  PROVE  HttpIInv'
<1> DEFINE r == httpW[w]
<1>1. r.pc = "route" /\ r.pc \in HttpReading /\ r.pc \notin HttpWriting /\ r.pc # "none"
  BY DEF HttpRoute, HttpReading, HttpWriting
<1>2. /\ r \in HttpLocals /\ HttpReadOwn(r) /\ HttpWriteOwn(r) /\ r.conn \in HttpConns
      /\ r.response = <<>> /\ r.send = <<>> /\ httpW[w].conn = r.conn
      /\ httpIn \in [HttpConns -> Seq(HttpBytes)] /\ \A d \in HttpConns : HttpAllOf(httpIn[d], d)
  BY <1>1, HttpReader
<1>3. CASE r.uri = "unrouted"
  <2> DEFINE s == HttpRefuse(r)
  <2>1. HttpSet(w, s)
    BY <1>3 DEF HttpRoute
  <2>2. s \in HttpLocals
    <3> HIDE DEF r
    <3>1. <<>> \in Seq(HttpBytes)
      OBVIOUS
    <3>2. QED
      BY <1>2, <3>1 DEF HttpLocals, HttpRefuse
  <2>3. s.pc = "accept" /\ s.conn = "none" /\ s.response = r.response /\ s.send = r.send
    <3> HIDE DEF r
    <3>1. QED
      BY <1>2 DEF HttpLocals, HttpRefuse
  <2> HIDE DEF s
  <2>4. HttpReadOwn(s) /\ HttpWriteOwn(s)
    BY <1>2, <2>3 DEF HttpReadOwn, HttpWriteOwn, HttpReading, HttpWriting
  <2>5. QED
    BY <1>1, <1>2, <2>1, <2>2, <2>3, <2>4, HttpReadOn DEF HttpSet
<1>4. ASSUME NEW n \in {1, HttpBuf + 1},
             HttpSet(w, [r EXCEPT !.pc = "write", !.written = 0,
                                  !.response = r.response \o [i \in 1 .. n |-> <<r.conn, i>>]])
      PROVE  HttpIInv'
  <2> DEFINE answer == [i \in 1 .. n |-> <<r.conn, i>>]
             response == r.response \o answer
             s == [r EXCEPT !.pc = "write", !.written = 0, !.response = response]
  <2>1. HttpSet(w, s)
    BY <1>4
  <2> HIDE DEF r
  <2>2. n \in Nat
    BY <1>4, HttpAssumption
  <2>3. answer \in Seq(HttpReply) /\ Len(answer) = n
    <3>1. answer \in [1 .. n -> HttpReply]
      BY <1>2 DEF HttpReply
    <3>2. QED
      BY <2>2, <3>1, LenProperties
  <2>4. response = answer
    <3> HIDE DEF answer
    <3>1. QED
      BY <1>2, <2>3, ConcatEmptySeq
  <2>5. \A i \in DOMAIN response : response[i] = <<r.conn, i>>
    BY <2>4
  <2>6. response \in Seq(HttpReply) /\ Len(response) = n
    BY <2>3, <2>4
  <2> HIDE DEF response
  <2>7. s \in HttpLocals
    BY <1>2, <2>6 DEF HttpLocals, HttpWriting
  <2>8. /\ s.pc = "write" /\ s.conn = r.conn /\ s.line = r.line /\ s.pos = r.pos
        /\ s.size = r.size /\ s.recv = r.recv /\ s.body = r.body
        /\ s.response = response /\ s.written = 0 /\ s.send = r.send
    BY <1>2 DEF HttpLocals
  <2> HIDE DEF s
  <2>9. HttpReadOwn(s)
    BY <1>1, <1>2, <2>8 DEF HttpReadOwn
  <2>10. HttpWriteOwn(s)
    BY <1>2, <2>2, <2>5, <2>6, <2>8 DEF HttpWriteOwn, HttpWriting
  <2>11. s.pc \notin HttpReading
    BY <2>8 DEF HttpReading
  <2>12. httpW[w].pc \notin HttpWriting /\ httpW[w].pc # "none" /\ s.conn = httpW[w].conn
    BY <1>1, <1>2, <2>8 DEF r
  <2>13. QED
    BY <1>2, <2>1, <2>7, <2>9, <2>10, <2>11, <2>12, HttpSetStep DEF HttpSet
<1>5. QED
  BY <1>3, <1>4 DEF HttpRoute

\* Socket::write: the bytes that follow those written so far
LEMMA HttpWriteStep ==
  ASSUME HttpIInv, NEW w \in HttpWorkers, HttpWrite(w)
  PROVE  HttpIInv'
<1> DEFINE r == httpW[w]
           room == HttpBuf - Len(r.send)
           left == Len(r.response) - r.written
           n == IF left < room THEN left ELSE room
           part == SubSeq(r.response, r.written + 1, r.written + n)
           s == [r EXCEPT !.pc = "flush", !.written = r.written + n, !.send = r.send \o part]
<1>1. r.pc = "write" /\ r.pc \in HttpWriting /\ r.pc # "none"
  BY DEF HttpWrite, HttpWriting
<1>2. /\ r \in HttpLocals /\ HttpReadOwn(r) /\ HttpWriteOwn(r) /\ r.conn \in HttpConns
      /\ r.response \in Seq(HttpReply) /\ r.written \in Nat
      /\ \A i \in DOMAIN r.response : r.response[i] = <<r.conn, i>>
      /\ r.written <= Len(r.response) /\ r.send = <<>>
      /\ httpIn \in [HttpConns -> Seq(HttpBytes)] /\ \A d \in HttpConns : HttpAllOf(httpIn[d], d)
  BY <1>1, HttpWriter
<1>3. HttpSet(w, s)
  BY DEF HttpWrite
<1> HIDE DEF r
<1>4. n \in Nat /\ r.written + n \in Nat /\ r.written + n <= Len(r.response)
  BY <1>2, HttpAssumption
<1> HIDE DEF n
<1>5. /\ part \in Seq(HttpReply) /\ Len(part) = n
      /\ \A i \in 1 .. n : part[i] = r.response[r.written + i]
  <2>1. \A i \in r.written + 1 .. r.written + n : r.response[i] \in HttpReply
    BY <1>2, <1>4
  <2>2. r.written + 1 \in Int /\ r.written + n \in Int
    BY <1>2, <1>4
  <2>3. /\ part \in Seq(HttpReply)
        /\ Len(part) = IF r.written + 1 <= r.written + n THEN (r.written + n) - (r.written + 1) + 1 ELSE 0
        /\ \A i \in 1 .. (r.written + n) - (r.written + 1) + 1 : part[i] = r.response[(r.written + 1) + i - 1]
    <3> DEFINE a == r.written + 1
               b == r.written + n
    <3>1. a \in Int /\ b \in Int /\ \A i \in a .. b : r.response[i] \in HttpReply
      BY <2>1, <2>2
    <3>2. part = SubSeq(r.response, a, b)
      OBVIOUS
    <3> HIDE DEF a, b, part
    <3>3. /\ part \in Seq(HttpReply) /\ Len(part) = IF a <= b THEN b - a + 1 ELSE 0
          /\ \A i \in 1 .. b - a + 1 : part[i] = r.response[a + i - 1]
      BY <3>1, <3>2, SubSeqProperties
    <3>4. QED
      BY <3>3 DEF a, b
  <2> HIDE DEF part
  <2>4. Len(part) = n
    BY <1>2, <1>4, <2>3
  <2>5. \A i \in 1 .. n : i \in 1 .. (r.written + n) - (r.written + 1) + 1 /\ (r.written + 1) + i - 1 = r.written + i
    BY <1>2, <1>4
  <2>6. QED
    BY <2>3, <2>4, <2>5
<1>6. \A i \in 1 .. n : part[i] = <<r.conn, r.written + i>>
  <2> HIDE DEF part
  <2>1. \A i \in 1 .. n : r.written + i \in DOMAIN r.response
    BY <1>2, <1>4
  <2>2. QED
    BY <1>2, <1>5, <2>1
<1> HIDE DEF part
<1>7. r.send \o part = part
  BY <1>2, <1>5, ConcatEmptySeq
<1>8. s \in HttpLocals
  BY <1>2, <1>4, <1>5, <1>7 DEF HttpLocals, HttpWriting
<1>9. /\ s.pc = "flush" /\ s.conn = r.conn /\ s.line = r.line /\ s.pos = r.pos
      /\ s.size = r.size /\ s.recv = r.recv /\ s.body = r.body
      /\ s.response = r.response /\ s.written = r.written + n /\ s.send = part
  BY <1>2, <1>7 DEF HttpLocals
<1> HIDE DEF s
<1>10. HttpReadOwn(s)
  BY <1>1, <1>2, <1>9 DEF HttpReadOwn
<1>11. HttpWriteOwn(s)
  <2>1. s.written - Len(s.send) = r.written /\ Len(s.send) <= s.written
    BY <1>2, <1>4, <1>5, <1>9
  <2>2. DOMAIN s.send = 1 .. n
    BY <1>5, <1>9
  <2>3. \A i \in DOMAIN s.send : s.send[i] = <<s.conn, s.written - Len(s.send) + i>>
    BY <1>6, <1>9, <2>1, <2>2
  <2>4. s.pc \in HttpWriting /\ s.pc \notin {"none", "accept"}
    BY <1>9 DEF HttpWriting
  <2>5. QED
    BY <1>2, <1>4, <1>9, <2>1, <2>3, <2>4 DEF HttpWriteOwn
<1>12. s.pc \notin HttpReading
  BY <1>9 DEF HttpReading
<1>13. s.written - Len(s.send) = r.written - Len(r.send)
  <2>1. Len(r.send) = 0
    BY <1>2
  <2>2. QED
    BY <1>2, <1>4, <1>5, <1>9, <2>1
<1>14. QED
  BY <1>1, <1>2, <1>3, <1>8, <1>9, <1>10, <1>11, <1>12, <1>13, HttpSetStep DEF HttpSet, r

\* The bytes of a request, each with its connection.
LEMMA HttpRequestBytes ==
  ASSUME NEW c \in HttpConns, NEW request \in HttpRequests
  PROVE  /\ [i \in DOMAIN request |-> <<c, request[i]>>] \in Seq(HttpBytes)
         /\ HttpAllOf([i \in DOMAIN request |-> <<c, request[i]>>], c)
<1> DEFINE bytes == [i \in DOMAIN request |-> <<c, request[i]>>]
<1>1. request \in Seq(HttpTokens)
  <2>1. /\ <<"routed", "crlf", "field", "crlf", "crlf">> \in Seq(HttpTokens)
        /\ <<"routed", "crlf", "length", "crlf", "crlf", "body", "body">> \in Seq(HttpTokens)
        /\ <<"routed", "crlf", "badlength", "crlf">> \in Seq(HttpTokens)
        /\ <<"unrouted", "crlf", "crlf">> \in Seq(HttpTokens)
        /\ <<"bad", "crlf">> \in Seq(HttpTokens)
    BY DEF HttpTokens
  <2>2. QED
    BY <2>1, Zenon DEF HttpRequests
<1>2. Len(request) \in Nat /\ DOMAIN request = 1 .. Len(request) /\ \A i \in 1 .. Len(request) : request[i] \in HttpTokens
  BY <1>1
<1>3. bytes \in [1 .. Len(request) -> HttpBytes]
  BY <1>2 DEF HttpBytes
<1>4. bytes \in Seq(HttpBytes)
  <2> HIDE DEF bytes
  <2>1. QED
    BY <1>2, <1>3
<1>5. HttpAllOf(bytes, c)
  BY DEF HttpAllOf
<1>6. QED
  BY <1>4, <1>5

\* accept, assign_socket and Request::reset
LEMMA HttpAcceptStep ==
  ASSUME HttpIInv, NEW w \in HttpWorkers, NEW c \in HttpConns, NEW request \in HttpRequests,
         HttpAccept(w, c, request)
  PROVE  HttpIInv'
<1> DEFINE bytes == [i \in DOMAIN request |-> <<c, request[i]>>]
           r == httpW[w]
           s == HttpFresh(w, c)
<1>1. /\ r.pc = "accept" /\ httpConn[c] = "none" /\ httpConn' = [httpConn EXCEPT ![c] = "open"]
      /\ httpIn' = [httpIn EXCEPT ![c] = bytes] /\ httpW' = [httpW EXCEPT ![w] = s]
      /\ httpServer' = httpServer /\ httpSent' = httpSent
  BY DEF HttpAccept
<1>2. bytes \in Seq(HttpBytes) /\ HttpAllOf(bytes, c)
  BY HttpRequestBytes
<1> HIDE DEF bytes
<1>3. r \in HttpLocals /\ HttpReadOwn(r) /\ HttpWriteOwn(r) /\ r.recv \in Seq(HttpBytes)
  BY HttpFields DEF HttpIInv, HttpTypeOK
<1>4. r.response = <<>> /\ r.send = <<>>
  BY <1>1, <1>3 DEF HttpWriteOwn, HttpWriting
<1>5. s = [r EXCEPT !.pc = "line", !.conn = c, !.pos = 0, !.size = 0,
                    !.line = <<>>, !.uri = "", !.length = 0, !.body = <<>>]
  BY DEF HttpFresh
<1> HIDE DEF r
<1>6. s \in HttpLocals
  <2>1. /\ <<>> \in Seq(HttpBytes) /\ "line" \in {"none", "accept"} \cup HttpReading \cup HttpWriting
        /\ 0 \in Nat /\ c \in HttpConns \cup {"none"} /\ "" \in {"", "routed", "unrouted"}
    BY DEF HttpReading
  <2>2. QED
    BY <1>3, <1>5, <2>1 DEF HttpLocals
<1>7. /\ s.pc = "line" /\ s.conn = c /\ s.line = <<>> /\ s.body = <<>> /\ s.pos = 0 /\ s.size = 0
      /\ s.recv = r.recv /\ s.response = <<>> /\ s.send = <<>> /\ c # "none"
  BY <1>3, <1>4, <1>5, HttpAssumption DEF HttpLocals
<1> HIDE DEF s
<1>8. HttpReadOwn(s) /\ HttpWriteOwn(s)
  <2>1. Len(s.recv) \in Nat
    BY <1>3, <1>7
  <2>2. HttpReadOwn(s)
    BY <1>7, <2>1 DEF HttpReadOwn, HttpAllOf
  <2>3. HttpWriteOwn(s)
    BY <1>7 DEF HttpWriteOwn, HttpWriting
  <2>4. QED
    BY <2>2, <2>3
<1>9. /\ httpW'[w] = s /\ httpW' \in [HttpWorkers -> HttpLocals]
      /\ \A v \in HttpWorkers : v # w => httpW'[v] = httpW[v]
  BY <1>1, <1>6 DEF HttpIInv, HttpTypeOK
<1>10. /\ httpConn' \in [HttpConns -> {"none", "open", "closed"}]
       /\ httpConn'[c] = "open" /\ \A d \in HttpConns : d # c => httpConn'[d] = httpConn[d]
  BY <1>1 DEF HttpIInv, HttpTypeOK
<1>11. httpIn' \in [HttpConns -> Seq(HttpBytes)] /\ \A d \in HttpConns : HttpAllOf(httpIn'[d], d)
  BY <1>1, <1>2 DEF HttpIInv, HttpTypeOK, HttpServed
<1>12. HttpTypeOK'
  BY <1>1, <1>9, <1>10, <1>11 DEF HttpIInv, HttpTypeOK
<1>13. HttpResponseOnOwnConnection'
  BY <1>1 DEF HttpIInv, HttpResponseOnOwnConnection
<1>14. \A v \in HttpWorkers : HttpReadOwn(httpW'[v]) /\ HttpWriteOwn(httpW'[v])
  BY <1>8, <1>9 DEF HttpIInv
<1>15. HttpServed'
  <2>1. httpSent[c] = <<>> /\ \A v \in HttpWorkers : httpW[v].conn # c
    <3>1. httpSent[c] = <<>>
      BY <1>1 DEF HttpIInv, HttpServed
    <3>2. \A v \in HttpWorkers : httpW[v].conn # "none" => httpConn[httpW[v].conn] = "open"
      BY DEF HttpIInv, HttpServed
    <3>3. QED
      BY <1>1, <1>7, <3>1, <3>2
  <2>2. \A d \in HttpConns : HttpAllOf(httpIn'[d], d) /\ (httpConn'[d] = "none" => httpSent'[d] = <<>>)
    BY <1>1, <1>10, <1>11 DEF HttpIInv, HttpServed
  <2>3. \A v, u \in HttpWorkers : v # u /\ httpW'[v].conn # "none" => httpW'[v].conn # httpW'[u].conn
    BY <1>7, <1>9, <2>1 DEF HttpIInv, HttpServed
  <2>4. ASSUME NEW v \in HttpWorkers, httpW'[v].conn # "none"
        PROVE  /\ httpConn'[httpW'[v].conn] = "open"
               /\ httpW'[v].pc \in HttpReading => httpSent[httpW'[v].conn] = <<>>
               /\ \A i \in DOMAIN httpSent[httpW'[v].conn] :
                    httpSent[httpW'[v].conn][i][2] <= httpW'[v].written - Len(httpW'[v].send)
    <3>1. CASE v # w
      <4>1. httpW'[v] = httpW[v] /\ httpW[v].conn # c /\ httpW[v].conn # "none"
        BY <1>9, <2>1, <2>4, <3>1
      <4>2. httpW[v].conn \in HttpConns
        <5>1. httpW[v] \in HttpLocals
          BY DEF HttpIInv, HttpTypeOK
        <5>2. QED
          BY <4>1, <5>1, HttpFields
      <4>3. QED
        BY <1>10, <4>1, <4>2 DEF HttpIInv, HttpServed
    <3>2. CASE v = w
      BY <1>7, <1>9, <1>10, <2>1, <3>2
    <3>3. QED
      BY <3>1, <3>2
  <2>5. httpServer' # "listening" => \A v \in HttpWorkers : httpW'[v].pc = "none"
    <3>1. httpServer = "listening"
      BY <1>1 DEF HttpIInv, HttpServed, r
    <3>2. QED
      BY <1>1, <3>1
  <2>6. QED
    BY <1>1, <2>2, <2>3, <2>4, <2>5 DEF HttpServed
<1>16. QED
  BY <1>12, <1>13, <1>14, <1>15 DEF HttpIInv

\* What a client has got goes on with the next bytes of its response.
LEMMA HttpGoesOn ==
  ASSUME NEW c \in HttpConns, NEW s \in Seq(HttpReply), NEW t \in Seq(HttpReply), NEW base \in Nat,
         \A i \in DOMAIN s : s[i][1] = c /\ s[i][2] <= base,
         \A i, j \in DOMAIN s : i < j => s[i][2] < s[j][2],
         \A i \in DOMAIN t : t[i] = <<c, base + i>>
  PROVE  /\ s \o t \in Seq(HttpReply)
         /\ \A i \in DOMAIN (s \o t) : (s \o t)[i][1] = c /\ (s \o t)[i][2] <= base + Len(t)
         /\ \A i, j \in DOMAIN (s \o t) : i < j => (s \o t)[i][2] < (s \o t)[j][2]
<1> DEFINE st == s \o t
           m == Len(s)
           n == Len(t)
<1>1. /\ m \in Nat /\ n \in Nat /\ st \in Seq(HttpReply) /\ DOMAIN s = 1 .. m /\ DOMAIN t = 1 .. n
      /\ DOMAIN st = 1 .. m + n
  OBVIOUS
<1>2. \A i \in 1 .. m : st[i] = s[i]
  OBVIOUS
<1>3. \A i \in m + 1 .. m + n : st[i] = <<c, base + (i - m)>>
  <2>1. TAKE i \in m + 1 .. m + n
  <2>2. i - m \in 1 .. n /\ st[i] = t[i - m]
    OBVIOUS
  <2>3. QED
    BY <1>1, <2>2
<1>4. \A i \in 1 .. m : s[i][2] \in Nat
  BY <1>1 DEF HttpReply
<1> HIDE DEF st, m, n
<1>5. \A i \in 1 .. m : st[i][1] = c /\ st[i][2] \in Nat /\ st[i][2] <= base
  BY <1>1, <1>2, <1>4
<1>6. \A i \in m + 1 .. m + n : st[i][1] = c /\ st[i][2] = base + (i - m)
  BY <1>3
<1>7. \A i \in 1 .. m + n : i \in 1 .. m \/ i \in m + 1 .. m + n
  BY <1>1
<1>8. \A i \in 1 .. m + n : st[i][1] = c /\ st[i][2] <= base + n
  BY <1>1, <1>5, <1>6, <1>7
<1>9. ASSUME NEW i \in 1 .. m + n, NEW j \in 1 .. m + n, i < j
      PROVE  st[i][2] < st[j][2]
  <2>1. CASE j \in 1 .. m
    <3>1. i \in 1 .. m
      BY <1>1, <1>9, <2>1
    <3>2. QED
      BY <1>1, <1>2, <1>9, <2>1, <3>1
  <2>2. CASE i \in 1 .. m /\ j \in m + 1 .. m + n
    <3>1. st[i][2] \in Nat /\ st[i][2] <= base /\ st[j][2] = base + (j - m)
      BY <1>5, <1>6, <2>2
    <3>2. j - m \in Nat /\ 0 < j - m
      BY <1>1, <2>2
    <3>3. QED
      BY <3>1, <3>2
  <2>3. CASE i \in m + 1 .. m + n /\ j \in m + 1 .. m + n
    <3>1. st[i][2] = base + (i - m) /\ st[j][2] = base + (j - m)
      BY <1>6, <2>3
    <3>2. i - m \in Nat /\ j - m \in Nat /\ i - m < j - m
      BY <1>1, <1>9, <2>3
    <3>3. QED
      BY <3>1, <3>2
  <2>4. QED
    BY <1>1, <1>7, <1>9, <2>1, <2>2, <2>3
<1>10. QED
  BY <1>1, <1>8, <1>9 DEF st, n

\* flush
LEMMA HttpFlushStep ==
  ASSUME HttpIInv, NEW w \in HttpWorkers, HttpFlush(w)
  PROVE  HttpIInv'
<1> DEFINE r == httpW[w]
           c == r.conn
           base == r.written - Len(r.send)
           pc == IF r.written = Len(r.response) THEN "close" ELSE "write"
           s == [r EXCEPT !.send = <<>>, !.pc = pc]
<1>1. r.pc = "flush" /\ r.pc \in HttpWriting /\ r.pc # "none"
  BY DEF HttpFlush, HttpWriting
<1>2. /\ r \in HttpLocals /\ HttpReadOwn(r) /\ HttpWriteOwn(r) /\ c \in HttpConns
      /\ r.response \in Seq(HttpReply) /\ r.send \in Seq(HttpReply) /\ r.written \in Nat
      /\ \A i \in DOMAIN r.response : r.response[i] = <<c, i>>
      /\ r.written <= Len(r.response) /\ Len(r.send) <= r.written
      /\ \A i \in DOMAIN r.send : r.send[i] = <<c, base + i>>
  BY <1>1, HttpWriter
<1>3. /\ httpSent \in [HttpConns -> Seq(HttpReply)] /\ c # "none" /\ httpServer = "listening"
      /\ \A i \in DOMAIN httpSent[c] : httpSent[c][i][1] = c /\ httpSent[c][i][2] <= base
      /\ \A i, j \in DOMAIN httpSent[c] : i < j => httpSent[c][i][2] < httpSent[c][j][2]
  <2>1. c # "none"
    BY <1>2, HttpAssumption
  <2>2. /\ \A i \in DOMAIN httpSent[c] : httpSent[c][i][1] = c
        /\ \A i, j \in DOMAIN httpSent[c] : i < j => httpSent[c][i][2] < httpSent[c][j][2]
    BY <1>2 DEF HttpIInv, HttpResponseOnOwnConnection
  <2>3. \A i \in DOMAIN httpSent[c] : httpSent[c][i][2] <= base
    BY <2>1 DEF HttpIInv, HttpServed
  <2>4. httpServer = "listening"
    BY <1>1 DEF HttpIInv, HttpServed
  <2>5. QED
    BY <2>1, <2>2, <2>3, <2>4 DEF HttpIInv, HttpTypeOK
<1>4. PICK n \in 0 .. Len(r.send) : httpSent' = [httpSent EXCEPT ![c] = httpSent[c] \o SubSeq(r.send, 1, n)]
  BY DEF HttpFlush
<1>5. httpW' = [httpW EXCEPT ![w] = s] /\ UNCHANGED <<httpServer, httpConn, httpIn>>
  BY DEF HttpFlush, HttpIInv, HttpTypeOK
<1> DEFINE part == SubSeq(r.send, 1, n)
           sent == httpSent[c] \o part
<1>6. s \in HttpLocals /\ HttpReadOwn(s) /\ HttpWriteOwn(s) /\ s.conn = c /\ s.pc \notin HttpReading
      /\ s.written = r.written /\ s.send = <<>>
  <2> HIDE DEF r
  <2>1. /\ pc \in {"write", "close"} /\ pc \in {"none", "accept"} \cup HttpReading \cup HttpWriting
        /\ pc \in HttpWriting /\ pc \notin HttpReading /\ pc # "flush" /\ pc \notin {"none", "accept"}
    BY DEF HttpReading, HttpWriting
  <2> HIDE DEF pc
  <2>2. s \in HttpLocals
    <3>1. <<>> \in Seq(HttpReply)
      OBVIOUS
    <3>2. QED
      BY <1>2, <2>1, <3>1 DEF HttpLocals
  <2>3. /\ s.pc = pc /\ s.conn = c /\ s.line = r.line /\ s.pos = r.pos
        /\ s.size = r.size /\ s.recv = r.recv /\ s.body = r.body
        /\ s.response = r.response /\ s.written = r.written /\ s.send = <<>>
    BY <1>2 DEF HttpLocals
  <2> HIDE DEF s
  <2>4. HttpReadOwn(s)
    BY <1>1, <1>2, <2>3 DEF HttpReadOwn
  <2>5. Len(s.send) = 0 /\ DOMAIN s.send = {}
    BY <2>3
  <2>6. HttpWriteOwn(s)
    BY <1>2, <2>1, <2>3, <2>5 DEF HttpWriteOwn
  <2>7. QED
    BY <2>1, <2>2, <2>3, <2>4, <2>6
<1> HIDE DEF s, pc
<1>7. /\ sent \in Seq(HttpReply)
      /\ \A i \in DOMAIN sent : sent[i][1] = c /\ sent[i][2] <= r.written
      /\ \A i, j \in DOMAIN sent : i < j => sent[i][2] < sent[j][2]
  <2>1. httpSent[c] \in Seq(HttpReply)
    BY <1>2, <1>3
  <2> HIDE DEF r
  <2>2. part \in Seq(HttpReply) /\ Len(part) = n /\ n \in Nat /\ n <= Len(r.send) /\ Len(r.send) \in Nat
        /\ DOMAIN part = 1 .. n /\ DOMAIN r.send = 1 .. Len(r.send)
        /\ \A i \in 1 .. n : part[i] = r.send[i]
    BY <1>2, <1>4
  <2>3. base \in Nat /\ base + n <= r.written
    BY <1>2, <2>2
  <2>4. \A i \in 1 .. n : i \in 1 .. Len(r.send)
    BY <2>2
  <2> HIDE DEF part, base, c
  <2>5. \A i \in DOMAIN part : part[i] = <<c, base + i>>
    BY <1>2, <2>2, <2>4
  <2>6. /\ sent \in Seq(HttpReply)
        /\ \A i \in DOMAIN sent : sent[i][1] = c /\ sent[i][2] <= base + n
        /\ \A i, j \in DOMAIN sent : i < j => sent[i][2] < sent[j][2]
    <3> DEFINE old == httpSent[c]
    <3>1. /\ \A i \in DOMAIN old : old[i][1] = c /\ old[i][2] <= base
          /\ \A i, j \in DOMAIN old : i < j => old[i][2] < old[j][2]
      BY <1>3
    <3>2. old \in Seq(HttpReply) /\ part \in Seq(HttpReply) /\ base \in Nat /\ c \in HttpConns
      BY <1>2, <2>1, <2>2, <2>3
    <3>3. sent = old \o part /\ Len(part) = n
      BY <2>2
    <3> HIDE DEF old, sent
    <3>4. /\ old \o part \in Seq(HttpReply)
          /\ \A i \in DOMAIN (old \o part) : (old \o part)[i][1] = c /\ (old \o part)[i][2] <= base + Len(part)
          /\ \A i, j \in DOMAIN (old \o part) : i < j => (old \o part)[i][2] < (old \o part)[j][2]
      BY <2>5, <3>1, <3>2, HttpGoesOn
    <3>5. QED
      BY <3>3, <3>4
  <2>7. \A i \in DOMAIN sent : sent[i][2] \in Nat
    <3> HIDE DEF sent
    <3>1. QED
      BY <2>6 DEF HttpReply
  <2> HIDE DEF sent
  <2>8. \A i \in DOMAIN sent : sent[i][2] <= r.written
    BY <1>2, <2>2, <2>3, <2>6, <2>7
  <2>9. QED
    BY <2>6, <2>8
<1> HIDE DEF sent, part
<1>8. /\ httpSent' \in [HttpConns -> Seq(HttpReply)] /\ httpSent'[c] = sent
      /\ \A d \in HttpConns : d # c => httpSent'[d] = httpSent[d]
  <2>1. httpSent' = [httpSent EXCEPT ![c] = sent]
    BY <1>4 DEF sent, part
  <2>2. QED
    BY <1>2, <1>3, <1>7, <2>1
<1>9. /\ httpW'[w] = s /\ httpW' \in [HttpWorkers -> HttpLocals]
      /\ \A v \in HttpWorkers : v # w => httpW'[v] = httpW[v]
  BY <1>5, <1>6 DEF HttpIInv, HttpTypeOK
<1>10. HttpTypeOK'
  BY <1>5, <1>8, <1>9 DEF HttpIInv, HttpTypeOK
<1>11. HttpResponseOnOwnConnection'
  BY <1>7, <1>8 DEF HttpIInv, HttpResponseOnOwnConnection
<1>12. \A v \in HttpWorkers : HttpReadOwn(httpW'[v]) /\ HttpWriteOwn(httpW'[v])
  BY <1>6, <1>9 DEF HttpIInv
<1>13. HttpServed'
  <2>1. \A v \in HttpWorkers : v # w => httpW[v].conn # c
    BY <1>3 DEF HttpIInv, HttpServed
  <2>2. httpConn[c] = "open"
    BY <1>3 DEF HttpIInv, HttpServed
  <2>3. \A d \in HttpConns : HttpAllOf(httpIn'[d], d) /\ (httpConn'[d] = "none" => httpSent'[d] = <<>>)
    BY <1>5, <1>8, <2>2 DEF HttpIInv, HttpServed
  <2>4. \A v, u \in HttpWorkers : v # u /\ httpW'[v].conn # "none" => httpW'[v].conn # httpW'[u].conn
    BY <1>6, <1>9, <2>1 DEF HttpIInv, HttpServed
  <2>5. ASSUME NEW v \in HttpWorkers, httpW'[v].conn # "none"
        PROVE  /\ httpConn[httpW'[v].conn] = "open"
               /\ httpW'[v].pc \in HttpReading => httpSent'[httpW'[v].conn] = <<>>
               /\ \A i \in DOMAIN httpSent'[httpW'[v].conn] :
                    httpSent'[httpW'[v].conn][i][2] <= httpW'[v].written - Len(httpW'[v].send)
    <3>1. CASE v # w
      <4>1. httpW'[v] = httpW[v] /\ httpW[v].conn # c /\ httpW[v].conn # "none"
        BY <1>9, <2>1, <2>5, <3>1
      <4>2. httpW[v].conn \in HttpConns
        <5>1. httpW[v] \in HttpLocals
          BY DEF HttpIInv, HttpTypeOK
        <5>2. QED
          BY <4>1, <5>1, HttpFields
      <4>3. httpSent'[httpW[v].conn] = httpSent[httpW[v].conn]
        BY <1>8, <4>1, <4>2
      <4>4. QED
        BY <4>1, <4>3 DEF HttpIInv, HttpServed
    <3>2. CASE v = w
      <4>1. httpW'[v] = s /\ httpSent'[c] = sent /\ Len(s.send) = 0
        BY <1>6, <1>8, <1>9, <3>2
      <4>2. s.written - Len(s.send) = r.written
        BY <1>2, <1>6, <4>1
      <4>3. QED
        BY <1>6, <1>7, <2>2, <4>1, <4>2
    <3>3. QED
      BY <3>1, <3>2
  <2>6. httpServer' # "listening" => \A v \in HttpWorkers : httpW'[v].pc = "none"
    BY <1>3, <1>5
  <2>7. QED
    BY <1>5, <2>3, <2>4, <2>5, <2>6 DEF HttpServed
<1>14. QED
  BY <1>10, <1>11, <1>12, <1>13 DEF HttpIInv

\* The descriptor is closed and the Response reset.
LEMMA HttpCloseStep ==
  ASSUME HttpIInv, NEW w \in HttpWorkers, HttpClose(w)
  PROVE  HttpIInv'
<1> DEFINE r == httpW[w]
           c == r.conn
           s == [HttpRefuse(r) EXCEPT !.response = <<>>, !.written = 0]
<1>1. r.pc = "close" /\ r.pc \in HttpWriting /\ r.pc # "none"
  BY DEF HttpClose, HttpWriting
<1>2. r \in HttpLocals /\ c \in HttpConns /\ r.send = <<>>
  BY <1>1, HttpWriter
<1>3. c # "none" /\ httpServer = "listening"
  BY <1>1, <1>2, HttpAssumption DEF HttpIInv, HttpServed
<1>4. /\ httpConn' = [httpConn EXCEPT ![c] = "closed"] /\ httpW' = [httpW EXCEPT ![w] = s]
      /\ UNCHANGED <<httpServer, httpIn, httpSent>>
  BY DEF HttpClose
<1>5. s \in HttpLocals /\ s.pc = "accept" /\ s.conn = "none" /\ s.response = <<>> /\ s.send = <<>>
  <2> HIDE DEF r
  <2>1. <<>> \in Seq(HttpBytes) /\ <<>> \in Seq(HttpReply)
    OBVIOUS
  <2>2. s = [r EXCEPT !.pc = "accept", !.conn = "none", !.line = <<>>, !.uri = "", !.length = 0,
                      !.response = <<>>, !.written = 0]
    BY <1>2 DEF HttpRefuse, HttpLocals
  <2> HIDE DEF s
  <2>3. s \in HttpLocals
    BY <1>2, <2>1, <2>2 DEF HttpLocals
  <2>4. QED
    BY <1>2, <2>2, <2>3 DEF HttpLocals
<1> HIDE DEF s
<1>6. HttpReadOwn(s) /\ HttpWriteOwn(s)
  BY <1>5 DEF HttpReadOwn, HttpWriteOwn, HttpReading, HttpWriting
<1>7. /\ httpW'[w] = s /\ httpW' \in [HttpWorkers -> HttpLocals]
      /\ \A v \in HttpWorkers : v # w => httpW'[v] = httpW[v]
  BY <1>4, <1>5 DEF HttpIInv, HttpTypeOK
<1>8. /\ httpConn' \in [HttpConns -> {"none", "open", "closed"}]
      /\ httpConn'[c] = "closed" /\ \A d \in HttpConns : d # c => httpConn'[d] = httpConn[d]
  <2> HIDE DEF c
  <2>1. QED
    BY <1>2, <1>4 DEF HttpIInv, HttpTypeOK
<1>9. HttpTypeOK'
  BY <1>4, <1>7, <1>8 DEF HttpIInv, HttpTypeOK
<1>10. HttpResponseOnOwnConnection'
  BY <1>4 DEF HttpIInv, HttpResponseOnOwnConnection
<1>11. \A v \in HttpWorkers : HttpReadOwn(httpW'[v]) /\ HttpWriteOwn(httpW'[v])
  BY <1>6, <1>7 DEF HttpIInv
<1>12. HttpServed'
  <2>1. \A v \in HttpWorkers : v # w => httpW[v].conn # c
    BY <1>3 DEF HttpIInv, HttpServed
  <2>2. \A d \in HttpConns : HttpAllOf(httpIn'[d], d) /\ (httpConn'[d] = "none" => httpSent'[d] = <<>>)
    BY <1>4, <1>8 DEF HttpIInv, HttpServed
  <2>3. \A v, u \in HttpWorkers : v # u /\ httpW'[v].conn # "none" => httpW'[v].conn # httpW'[u].conn
    BY <1>5, <1>7 DEF HttpIInv, HttpServed
  <2>4. ASSUME NEW v \in HttpWorkers, httpW'[v].conn # "none"
        PROVE  /\ httpConn'[httpW'[v].conn] = "open"
               /\ httpW'[v].pc \in HttpReading => httpSent[httpW'[v].conn] = <<>>
               /\ \A i \in DOMAIN httpSent[httpW'[v].conn] :
                    httpSent[httpW'[v].conn][i][2] <= httpW'[v].written - Len(httpW'[v].send)
    <3>1. v # w
      BY <1>5, <1>7, <2>4
    <3>2. httpW'[v] = httpW[v] /\ httpW[v].conn # c /\ httpW[v].conn # "none"
      BY <1>7, <2>1, <2>4, <3>1
    <3>3. httpW[v].conn \in HttpConns
      <4>1. httpW[v] \in HttpLocals
        BY DEF HttpIInv, HttpTypeOK
      <4>2. QED
        BY <3>2, <4>1, HttpFields
    <3>4. QED
      BY <1>8, <3>2, <3>3 DEF HttpIInv, HttpServed
  <2>5. httpServer' # "listening" => \A v \in HttpWorkers : httpW'[v].pc = "none"
    BY <1>3, <1>4
  <2>6. QED
    BY <1>4, <2>2, <2>3, <2>4, <2>5 DEF HttpServed
<1>13. QED
  BY <1>9, <1>10, <1>11, <1>12 DEF HttpIInv

\* listen_to and listen: no worker runs before.
LEMMA HttpListenStep ==
  ASSUME HttpIInv, HttpCreateSocket \/ HttpBindAddr \/ HttpListen
  PROVE  HttpIInv'
<1>1. /\ httpServer # "listening" /\ \A w \in HttpWorkers : httpW[w].pc = "none"
      /\ httpServer' \in {"none", "made", "bound", "listening"} /\ UNCHANGED <<httpConn, httpIn, httpSent>>
  BY DEF HttpIInv, HttpServed, HttpCreateSocket, HttpBindAddr, HttpListen, HttpStart
<1>2. CASE httpW' = httpW /\ httpServer' # "listening"
  BY <1>1, <1>2
  DEF HttpIInv, HttpTypeOK, HttpServed, HttpResponseOnOwnConnection
<1>3. CASE httpW' = [w \in HttpWorkers |-> [httpW[w] EXCEPT !.pc = "accept"]] /\ httpServer' = "listening"
  <2>1. ASSUME NEW w \in HttpWorkers
        PROVE  /\ httpW'[w] \in HttpLocals /\ HttpReadOwn(httpW'[w]) /\ HttpWriteOwn(httpW'[w])
               /\ httpW'[w].conn = "none"
    <3> DEFINE r == httpW[w]
               s == [r EXCEPT !.pc = "accept"]
    <3>1. r \in HttpLocals /\ HttpWriteOwn(r) /\ r.pc = "none"
      BY <1>1 DEF HttpIInv, HttpTypeOK
    <3>2. httpW'[w] = s
      BY <1>3
    <3> HIDE DEF r
    <3>3. s \in HttpLocals
      BY <3>1 DEF HttpLocals
    <3>4. s.pc = "accept" /\ s.conn = r.conn /\ s.response = r.response /\ s.send = r.send
      BY <3>1 DEF HttpLocals
    <3> HIDE DEF s
    <3>5. QED
      BY <3>1, <3>2, <3>3, <3>4 DEF HttpReadOwn, HttpWriteOwn, HttpReading, HttpWriting
  <2>2. httpW' \in [HttpWorkers -> HttpLocals]
    <3>1. httpW' = [w \in HttpWorkers |-> httpW'[w]]
      BY <1>3
    <3>2. QED
      BY <2>1, <3>1
  <2>3. HttpTypeOK'
    BY <1>1, <2>2 DEF HttpIInv, HttpTypeOK
  <2>4. HttpServed' /\ HttpResponseOnOwnConnection'
    BY <1>1, <1>3, <2>1 DEF HttpIInv, HttpServed, HttpResponseOnOwnConnection
  <2>5. QED
    BY <2>1, <2>3, <2>4 DEF HttpIInv
<1>4. QED
  BY <1>1, <1>2, <1>3 DEF HttpCreateSocket, HttpBindAddr, HttpListen, HttpStart

(* For any number of worker threads and connections and any size of the    *)
(* buffers: what a worker reads, and what a handler is given, is of the    *)
(* worker's own connection, and what a client gets is of the response to   *)
(* its own request, in order (assign_socket, Request::reset, flush,        *)
(* Response::reset).                                                       *)
THEOREM HttpBytesStayApart == HttpSpec => []HttpOwnConnectionOnly
<1>1. HttpInit => HttpIInv
  <2> SUFFICES ASSUME HttpInit PROVE HttpIInv
    OBVIOUS
  <2> DEFINE r == [pc |-> "none", conn |-> "none", recv |-> <<>>, pos |-> 0, size |-> 0,
                   line |-> <<>>, uri |-> "", length |-> 0, body |-> <<>>,
                   response |-> <<>>, written |-> 0, send |-> <<>>]
  <2>1. \A w \in HttpWorkers : httpW[w] = r
    BY DEF HttpInit
  <2>2. r \in HttpLocals /\ r.pc = "none" /\ r.conn = "none" /\ r.response = <<>> /\ r.send = <<>>
    BY DEF HttpLocals
  <2> HIDE DEF r
  <2>3. HttpTypeOK
    <3>1. httpW = [w \in HttpWorkers |-> r]
      BY DEF HttpInit, r
    <3>2. QED
      <4>1. httpW \in [HttpWorkers -> HttpLocals]
        BY <2>2, <3>1
      <4>2. httpIn \in [HttpConns -> Seq(HttpBytes)] /\ httpSent \in [HttpConns -> Seq(HttpReply)]
        <5>1. <<>> \in Seq(HttpBytes) /\ <<>> \in Seq(HttpReply)
          OBVIOUS
        <5>2. QED
          BY <5>1 DEF HttpInit
      <4>3. QED
        BY <4>1, <4>2 DEF HttpInit, HttpTypeOK
  <2>4. HttpServed /\ HttpResponseOnOwnConnection
    <3>1. /\ \A c \in HttpConns : httpIn[c] = <<>> /\ httpSent[c] = <<>>
          /\ \A w \in HttpWorkers : httpW[w].conn = "none" /\ httpW[w].pc = "none"
      BY <2>1, <2>2 DEF HttpInit
    <3>2. HttpServed
      BY <3>1 DEF HttpServed, HttpAllOf
    <3>3. HttpResponseOnOwnConnection
      BY <3>1 DEF HttpResponseOnOwnConnection
    <3>4. QED
      BY <3>2, <3>3
  <2>5. HttpReadOwn(r) /\ HttpWriteOwn(r)
    BY <2>2 DEF HttpReadOwn, HttpWriteOwn, HttpReading, HttpWriting
  <2>6. QED
    BY <2>1, <2>3, <2>4, <2>5 DEF HttpIInv
<1>2. HttpIInv /\ [HttpNext]_httpVars => HttpIInv'
  <2>1. ASSUME HttpIInv, HttpNext PROVE HttpIInv'
    BY <2>1, HttpListenStep, HttpAcceptStep, HttpReadLineStep, HttpReadBodyStep, HttpRefillStep,
       HttpRouteStep, HttpWriteStep, HttpFlushStep, HttpCloseStep DEF HttpNext, HttpWorker
  <2>2. ASSUME HttpIInv, UNCHANGED httpVars PROVE HttpIInv'
    BY <2>2 DEF HttpIInv, HttpTypeOK, HttpServed, HttpResponseOnOwnConnection, httpVars
  <2>3. QED
    BY <2>1, <2>2
<1>3. HttpIInv => HttpOwnConnectionOnly
  <2> SUFFICES ASSUME HttpIInv PROVE HttpRequestFromOwnConnection
    BY DEF HttpIInv, HttpOwnConnectionOnly
  <2>1. ASSUME NEW w \in HttpWorkers, httpW[w].conn # "none"
        PROVE  httpW[w].pc \in HttpReading \cup HttpWriting
    <3>1. httpW[w] \in HttpLocals /\ HttpWriteOwn(httpW[w])
      BY DEF HttpIInv, HttpTypeOK
    <3>2. QED
      BY <2>1, <3>1, HttpFields DEF HttpWriteOwn
  <2>2. QED
    BY <2>1 DEF HttpIInv, HttpReadOwn, HttpAllOf, HttpRequestFromOwnConnection
<1>4. QED
  BY <1>1, <1>2, <1>3, PTL DEF HttpSpec

-----------------------------------------------------------------------------
(***************************************************************************)
(* The buffered socket                                                     *)
(***************************************************************************)

\* The numbers from 1 on, and the numbers that follow them.
LEMMA NetCounting ==
  ASSUME NEW s \in Seq(Nat), s = [i \in 1 .. Len(s) |-> i],
         NEW t \in Seq(Nat), \A k \in 1 .. Len(t) : t[k] = Len(s) + k
  PROVE  /\ s \o t \in Seq(Nat) /\ Len(s \o t) = Len(s) + Len(t)
         /\ s \o t = [i \in 1 .. Len(s \o t) |-> i]
<1> DEFINE st == s \o t
           m == Len(s)
           n == Len(t)
<1>1. m \in Nat /\ n \in Nat /\ st \in Seq(Nat) /\ Len(st) = m + n /\ DOMAIN st = 1 .. m + n
  OBVIOUS
<1>2. ASSUME NEW i \in 1 .. m + n PROVE st[i] = i
  <2>1. CASE i <= m
    <3>1. i \in 1 .. m /\ st[i] = s[i]
      BY <1>1, <2>1
    <3>2. QED
      BY <3>1
  <2>2. CASE ~(i <= m)
    <3>1. i - m \in 1 .. n /\ st[i] = t[i - m]
      BY <1>1, <2>2
    <3>2. t[i - m] = m + (i - m)
      BY <3>1
    <3>3. QED
      BY <1>1, <3>1, <3>2
  <2>3. QED
    BY <2>1, <2>2
<1> HIDE DEF st, m, n
<1>3. st = [i \in 1 .. m + n |-> i]
  <2>1. st = [i \in DOMAIN st |-> st[i]]
    BY <1>1
  <2>2. QED
    BY <1>1, <1>2, <2>1
<1>4. QED
  BY <1>1, <1>3 DEF st, m, n

\* A part of an array.
LEMMA NetPart ==
  ASSUME NEW n \in Nat, NEW f \in [1 .. n -> Nat], NEW a \in Nat, NEW b \in Nat, a <= b, b <= n
  PROVE  /\ SubSeq(f, a + 1, b) \in Seq(Nat) /\ Len(SubSeq(f, a + 1, b)) = b - a
         /\ \A k \in 1 .. b - a : SubSeq(f, a + 1, b)[k] = f[a + k]
<1> DEFINE c == a + 1
<1>1. c \in Int /\ b \in Int /\ \A i \in c .. b : f[i] \in Nat
  OBVIOUS
<1>2. c = a + 1
  OBVIOUS
<1> HIDE DEF c
<1>3. /\ SubSeq(f, c, b) \in Seq(Nat) /\ Len(SubSeq(f, c, b)) = (IF c <= b THEN b - c + 1 ELSE 0)
      /\ \A i \in 1 .. b - c + 1 : SubSeq(f, c, b)[i] = f[c + i - 1]
  BY <1>1, SubSeqProperties
<1>4. b - c + 1 = b - a /\ (IF c <= b THEN b - c + 1 ELSE 0) = b - a
  BY <1>2
<1>5. \A k \in 1 .. b - a : c + k - 1 = a + k
  BY <1>2
<1>6. QED
  BY <1>2, <1>3, <1>4, <1>5

\* The first elements of a sequence.
LEMMA NetPrefix ==
  ASSUME NEW S, NEW s \in Seq(S), NEW m \in Nat, m <= Len(s)
  PROVE  /\ SubSeq(s, 1, m) \in Seq(S) /\ Len(SubSeq(s, 1, m)) = m
         /\ \A k \in 1 .. m : SubSeq(s, 1, m)[k] = s[k]
OBVIOUS

-----------------------------------------------------------------------------
\* The numbers of a reader, apart from its bytes.
LEMMA NetReadNumbers ==
  ASSUME NetReads
  PROVE  /\ netPeer \in Nat /\ netWant \in Nat /\ netInHead \in Nat /\ netInSize \in Nat /\ Len(netRead) \in Nat
         /\ netInHead + netInSize <= NetBuffer /\ Len(netRead) + netInSize = netPeer
BY DEF NetReads

LEMMA NetReadBufferedStep ==
  ASSUME NetReads, NetReadBuffered
  PROVE  NetReads'
<1> DEFINE n == NetMin(netWant, netInSize)
           part == SubSeq(netIn, netInHead + 1, netInHead + n)
<1>1. /\ netRead' = netRead \o part /\ netInSize' = netInSize - n /\ netInHead' = netInHead + n
      /\ netWant' = netWant - n /\ netPeer' = netPeer /\ netIn' = netIn
  BY DEF NetReadBuffered
<1>2. n \in Nat /\ n <= netInSize /\ n <= netWant
  BY DEF NetReads, NetMin
<1> HIDE DEF n
<1>3. /\ part \in Seq(Nat) /\ Len(part) = n
      /\ \A k \in 1 .. n : part[k] = netIn[netInHead + k]
  <2>1. netInHead + n \in Nat /\ netInHead <= netInHead + n /\ netInHead + n <= NetBuffer /\ (netInHead + n) - netInHead = n
    BY <1>2, NetAssumption DEF NetReads
  <2> DEFINE b == netInHead + n
  <2>2. b \in Nat /\ netInHead <= b /\ b <= NetBuffer /\ b - netInHead = n
    BY <2>1
  <2> HIDE DEF b
  <2>3. /\ SubSeq(netIn, netInHead + 1, b) \in Seq(Nat) /\ Len(SubSeq(netIn, netInHead + 1, b)) = b - netInHead
        /\ \A k \in 1 .. b - netInHead : SubSeq(netIn, netInHead + 1, b)[k] = netIn[netInHead + k]
    BY <2>2, NetPart, NetAssumption DEF NetReads
  <2>4. QED
    BY <2>2, <2>3 DEF b
<1>4. \A k \in 1 .. Len(part) : part[k] = Len(netRead) + k
  <2>1. \A k \in 1 .. n : k \in 1 .. netInSize
    BY <1>2 DEF NetReads
  <2>2. QED
    BY <1>3, <2>1 DEF NetReads
<1> HIDE DEF part
<1>5. netRead' \in Seq(Nat) /\ Len(netRead') = Len(netRead) + n /\ netRead' = [i \in 1 .. Len(netRead') |-> i]
  BY <1>1, <1>3, <1>4, NetCounting DEF NetReads
<1>6. /\ netInHead' \in Nat /\ netInSize' \in Nat /\ netWant' \in Nat /\ netInHead' + netInSize' <= NetBuffer
      /\ Len(netRead') + netInSize' = netPeer'
  <2>1. /\ netInSize' = netInSize - n /\ netInHead' = netInHead + n /\ netWant' = netWant - n /\ netPeer' = netPeer
        /\ Len(netRead') = Len(netRead) + n
    BY <1>1, <1>5
  <2>2. NetBuffer \in Nat
    BY NetAssumption
  <2>3. /\ netInSize \in Nat /\ netInHead \in Nat /\ netWant \in Nat /\ Len(netRead) \in Nat
        /\ netInHead + netInSize <= NetBuffer /\ Len(netRead) + netInSize = netPeer
    BY NetReadNumbers
  <2>4. netInHead' \in Nat /\ netInSize' \in Nat /\ netWant' \in Nat
    BY <1>2, <2>1, <2>3
  <2>5. netInHead' + netInSize' <= NetBuffer
    BY <1>2, <2>1, <2>2, <2>3
  <2>6. Len(netRead') + netInSize' = netPeer'
    BY <1>2, <2>1, <2>3
  <2>7. QED
    BY <2>4, <2>5, <2>6
<1>7. ASSUME NEW i \in 1 .. netInSize' PROVE netIn'[netInHead' + i] = Len(netRead') + i
  <2>1. n + i \in 1 .. netInSize /\ netInHead' + i = netInHead + (n + i) /\ Len(netRead') + i = Len(netRead) + (n + i)
    BY <1>1, <1>2, <1>5 DEF NetReads
  <2>2. QED
    BY <1>1, <2>1 DEF NetReads
<1>8. QED
  BY <1>1, <1>5, <1>6, <1>7 DEF NetReads

LEMMA NetReceiveStep ==
  ASSUME NetReads, NEW n \in 0 .. NetBuffer, NetReceive(n)
  PROVE  NetReads'
<1> DEFINE bytes == [i \in 1 .. n |-> netPeer + i]
<1>1. /\ netRead' = netRead \o bytes /\ netPeer' = netPeer + n /\ netIn' = netIn
      /\ netInHead' = netInHead /\ netInSize' = netInSize /\ netInSize = 0
      /\ netWant' = (IF n = 0 THEN 0 ELSE netWant - n) /\ n <= netWant /\ n \in Nat
  BY NetAssumption DEF NetReceive, NetRecv
<1>2. bytes \in Seq(Nat) /\ Len(bytes) = n
  <2>1. bytes \in [1 .. n -> Nat]
    BY <1>1 DEF NetReads
  <2>2. QED
    BY <1>1, <2>1, LenProperties
<1>3. \A k \in 1 .. Len(bytes) : bytes[k] = Len(netRead) + k
  <2>1. netPeer = Len(netRead)
    BY <1>1, NetReadNumbers
  <2>2. QED
    BY <1>2, <2>1
<1> HIDE DEF bytes
<1>4. netRead' \in Seq(Nat) /\ Len(netRead') = Len(netRead) + n /\ netRead' = [i \in 1 .. Len(netRead') |-> i]
  BY <1>1, <1>2, <1>3, NetCounting DEF NetReads
<1>5. netPeer' \in Nat /\ netWant' \in Nat /\ Len(netRead') + netInSize' = netPeer'
  BY <1>1, <1>4, NetReadNumbers
<1>6. QED
  BY <1>1, <1>4, <1>5 DEF NetReads

LEMMA NetFillStep ==
  ASSUME NetReads, NEW n \in 0 .. NetBuffer, NetFill(n), n = NetBuffer
  PROVE  NetReads'
<1>1. /\ netRead' = netRead /\ netPeer' = netPeer + n /\ netInHead' = 0 /\ netInSize' = NetBuffer
      /\ netInSize = 0 /\ netWant' = netWant /\ n \in Nat
      /\ netIn' = [p \in 1 .. NetBuffer |-> IF p <= n THEN netPeer + p ELSE netIn[p]]
  BY NetAssumption DEF NetFill, NetRecv
<1>2. \A p \in 1 .. NetBuffer : netIn'[p] = netPeer + p
  BY <1>1, NetAssumption
<1>3. netIn' \in [1 .. NetBuffer -> Nat]
  BY <1>1, NetAssumption DEF NetReads
<1>4. /\ netPeer' \in Nat /\ netWant' \in Nat /\ netInHead' \in Nat /\ netInSize' \in Nat
      /\ netInHead' + netInSize' <= NetBuffer /\ Len(netRead') + netInSize' = netPeer' /\ Len(netRead') = netPeer
      /\ \A i \in 1 .. NetBuffer : netInHead' + i = i
  <2>1. /\ Len(netRead') = Len(netRead) /\ netPeer' = netPeer + NetBuffer /\ netInHead' = 0 /\ netInSize' = NetBuffer
        /\ netInSize = 0 /\ netWant' = netWant
    BY <1>1
  <2>2. QED
    BY <2>1, NetReadNumbers, NetAssumption
<1>5. \A i \in 1 .. netInSize' : netIn'[netInHead' + i] = Len(netRead') + i
  BY <1>1, <1>2, <1>4
<1>6. QED
  BY <1>1, <1>3, <1>4, <1>5 DEF NetReads

-----------------------------------------------------------------------------
NetSteps == [do : {"send", "reset", "copy"}, bytes : Seq(Nat)]

\* What is left to do, step by step.
LEMMA NetTodo ==
  ASSUME NetPlan
  PROVE  /\ Len(netTodo) \in Nat /\ Len(netTodo) <= 3 /\ netTodo \in Seq(NetSteps)
         /\ DOMAIN netTodo = 1 .. Len(netTodo) /\ (netTodo # <<>> => Len(netTodo) > 0)
         /\ \A i \in 1 .. Len(netTodo) :
              /\ netTodo[i].do \in {"send", "reset", "copy"} /\ netTodo[i].bytes \in Seq(Nat)
              /\ NetLen(i) = Len(netTodo[i].bytes) /\ DOMAIN netTodo[i].bytes = 1 .. NetLen(i)
         /\ NetLen(1) \in Nat /\ NetLen(2) \in Nat /\ NetLen(3) \in Nat /\ NetLen(4) \in Nat
<1>1. netTodo \in Seq(NetSteps) /\ Len(netTodo) <= 3
  BY DEF NetPlan, NetSteps
<1>2. /\ Len(netTodo) \in Nat /\ DOMAIN netTodo = 1 .. Len(netTodo) /\ (netTodo # <<>> => Len(netTodo) > 0)
      /\ \A i \in 1 .. Len(netTodo) : netTodo[i] \in NetSteps
  BY <1>1
<1>3. \A i \in 1 .. Len(netTodo) : netTodo[i].do \in {"send", "reset", "copy"} /\ netTodo[i].bytes \in Seq(Nat)
  BY <1>2 DEF NetSteps
<1>4. \A i \in 1 .. Len(netTodo) : NetLen(i) = Len(netTodo[i].bytes)
  BY <1>2 DEF NetLen
<1>5. \A i \in 1 .. 4 : NetLen(i) \in Nat
  <2>1. TAKE i \in 1 .. 4
  <2>2. CASE i <= Len(netTodo)
    <3>1. i \in 1 .. Len(netTodo)
      BY <1>2, <2>2
    <3>2. QED
      BY <1>3, <1>4, <3>1
  <2>3. CASE ~(i <= Len(netTodo))
    BY <2>3 DEF NetLen
  <2>4. QED
    BY <2>2, <2>3
<1>6. QED
  BY <1>1, <1>2, <1>3, <1>4, <1>5

\* A step with nothing left to send is done.
LEMMA NetDoneStep ==
  ASSUME NetWrites, netTodo # <<>>, NetLen(1) = 0, netTodo[1].do # "copy", netTodo' = Tail(netTodo),
         netWire' = netWire, netWritten' = netWritten, netOut' = netOut, netHead' = netHead, netUse' = netUse,
         netSize' = IF netTodo[1].do = "reset" THEN 0 ELSE netSize
  PROVE  NetWrites'
<1> DEFINE n == Len(netTodo)
<1>1. NetPlan
  BY DEF NetWrites
<1>2. /\ n \in 1 .. 3 /\ netTodo \in Seq(NetSteps)
      /\ NetLen(1) \in Nat /\ NetLen(2) \in Nat /\ NetLen(3) \in Nat /\ NetLen(4) \in Nat
      /\ Len(netWire) \in Nat
  <2>1. Len(netWire) \in Nat
    BY DEF NetWrites
  <2>2. QED
    BY <1>1, <2>1, NetTodo
<1>3. netTodo' \in Seq(NetSteps) /\ Len(netTodo') = n - 1 /\ \A i \in 1 .. n - 1 : netTodo'[i] = netTodo[i + 1]
  BY <1>2
<1>4. \A i \in 1 .. 3 : NetLen(i)' = NetLen(i + 1)
  <2>1. TAKE i \in 1 .. 3
  <2>2. CASE i <= n - 1
    BY <1>2, <1>3, <2>2 DEF NetLen
  <2>3. CASE ~(i <= n - 1)
    BY <1>2, <1>3, <2>3 DEF NetLen
  <2>4. QED
    BY <2>2, <2>3
<1>5. \A i \in 1 .. 3 : NetBefore(i)' = NetBefore(i + 1)
  <2>1. NetLen(1)' = NetLen(2) /\ NetLen(2)' = NetLen(3) /\ NetLen(3)' = NetLen(4)
    BY <1>4
  <2>2. NetBefore(1)' = NetBefore(2) /\ NetBefore(2)' = NetBefore(3) /\ NetBefore(3)' = NetBefore(4)
    BY <1>2, <2>1 DEF NetBefore
  <2>3. QED
    BY <2>2
<1>6. NetPlan'
  <2>1. netTodo' \in Seq([do : {"send", "reset", "copy"}, bytes : Seq(Nat)]) /\ Len(netTodo') <= 3
    <3>1. Len(netTodo') <= 3
      BY <1>2, <1>3
    <3>2. QED
      BY <1>3, <3>1 DEF NetSteps
  <2>2. ASSUME NEW i \in 1 .. Len(netTodo')
        PROVE  /\ \A k \in DOMAIN netTodo'[i].bytes : netTodo'[i].bytes[k] = NetBefore(i)' + k
               /\ netTodo'[i].do = "copy" => i = Len(netTodo') /\ NetLen(i)' < NetBuffer
               /\ netTodo'[i].do = "reset" => NetLen(i)' = 0
               /\ netTodo'[i].do \in {"copy", "reset"} => netUse'[2] = TRUE
    <3>1. /\ i \in 1 .. 3 /\ i + 1 \in 1 .. n /\ netTodo'[i] = netTodo[i + 1]
          /\ NetLen(i)' = NetLen(i + 1) /\ NetBefore(i)' = NetBefore(i + 1)
          /\ (i + 1 = n => i = Len(netTodo'))
      <4>1. n \in 1 .. 3 /\ Len(netTodo') = n - 1
        BY <1>2, <1>3
      <4> HIDE DEF n
      <4>2. i \in 1 .. n - 1 /\ i \in 1 .. 3 /\ i + 1 \in 1 .. n /\ (i + 1 = n => i = n - 1)
        BY <4>1
      <4>3. QED
        BY <1>3, <1>4, <1>5, <4>1, <4>2
    <3>2. QED
      BY <1>1, <3>1 DEF NetPlan
  <2>3. ASSUME netTodo' # <<>>
        PROVE  /\ NetBefore(4)' = netWritten'
               /\ (\A i \in 1 .. Len(netTodo') : netTodo'[i].do # "reset") => netSize' = 0
    <3>2. NetLen(1)' = NetLen(2) /\ NetLen(2)' = NetLen(3) /\ NetLen(3)' = NetLen(4)
      BY <1>4
    <3>3. NetLen(4) = 0
      BY <1>2 DEF NetLen
    <3>5. NetBefore(4)' = NetBefore(4)
      BY <1>2, <3>2, <3>3 DEF NetBefore
    <3>4. ASSUME \A i \in 1 .. Len(netTodo') : netTodo'[i].do # "reset" PROVE netSize' = 0
      <4>1. CASE netTodo[1].do = "reset"
        BY <4>1
      <4>2. CASE netTodo[1].do # "reset"
        <5>1. \A i \in 1 .. n : netTodo[i].do # "reset"
          <6>1. TAKE i \in 1 .. n
          <6>2. CASE i = 1
            BY <4>2, <6>2
          <6>3. CASE i # 1
            <7>1. i - 1 \in 1 .. n - 1 /\ (i - 1) + 1 = i
              BY <1>2, <6>3
            <7>2. netTodo'[i - 1] = netTodo[i]
              BY <1>3, <7>1
            <7>3. QED
              BY <1>3, <3>4, <7>1, <7>2
          <6>4. QED
            BY <6>2, <6>3
        <5>2. QED
          BY <1>1, <4>2, <5>1 DEF NetPlan
      <4>3. QED
        BY <4>1, <4>2
    <3>6. QED
      BY <1>1, <3>4, <3>5 DEF NetPlan
  <2>4. QED
    BY <2>1, <2>2, <2>3 DEF NetPlan
<1>7. NetBuffered'
  <2> SUFFICES ASSUME netTodo' = <<>>
               PROVE  Len(netWire') + netSize' = netWritten' /\ netSize' = 0
    BY DEF NetBuffered
  <2>1. n = 1
    BY <1>2, <1>3
  <2>2. NetBefore(4) = netWritten
    BY <1>1, <2>1 DEF NetPlan
  <2>3. netSize' = 0
    <3>1. CASE netTodo[1].do = "reset"
      BY <3>1
    <3>2. CASE netTodo[1].do # "reset"
      BY <1>1, <2>1, <3>2 DEF NetPlan
    <3>3. QED
      BY <3>1, <3>2
  <2>4. NetBefore(4) = Len(netWire)
    <3>1. NetLen(2) = 0 /\ NetLen(3) = 0
      BY <2>1 DEF NetLen
    <3>2. QED
      BY <1>2, <3>1 DEF NetBefore
  <2>5. QED
    BY <1>2, <2>2, <2>3, <2>4
<1>8. netSize' \in Nat /\ netSize' < NetBuffer /\ (netUse'[2] = FALSE => netSize' = 0)
  BY NetAssumption DEF NetWrites
<1>9. QED
  BY <1>6, <1>7, <1>8 DEF NetWrites

\* The kernel takes the first m bytes of what is to be sent.
NetTakes(m) ==
    /\ netTodo # <<>> /\ netTodo[1].do = "send" /\ m \in 1 .. Len(netTodo[1].bytes)
    /\ netWire' = netWire \o SubSeq(netTodo[1].bytes, 1, m)
    /\ netTodo' = [netTodo EXCEPT ![1].bytes = SubSeq(netTodo[1].bytes, m + 1, Len(netTodo[1].bytes))]
    /\ UNCHANGED <<netWritten, netOut, netHead, netUse, netSize>>

\* A short or a whole send leaves the rest where the wire ends.
LEMMA NetSentStep ==
  ASSUME NetWrites, NEW m, NetTakes(m)
  PROVE  NetWrites'
<1> DEFINE n == Len(netTodo)
           left == netTodo[1].bytes
           sent == SubSeq(left, 1, m)
           rest == SubSeq(left, m + 1, Len(left))
           first == [netTodo[1] EXCEPT !.bytes = rest]
<1>1. NetPlan
  BY DEF NetWrites
<1>2. /\ n \in 1 .. 3 /\ netTodo \in Seq(NetSteps) /\ 1 \in 1 .. n /\ netTodo[1] \in NetSteps
      /\ left \in Seq(Nat) /\ Len(left) \in Nat /\ NetLen(1) = Len(left) /\ m \in Nat /\ 1 <= m /\ m <= Len(left)
      /\ NetLen(1) \in Nat /\ NetLen(2) \in Nat /\ NetLen(3) \in Nat /\ Len(netWire) \in Nat /\ netWire \in Seq(Nat)
      /\ DOMAIN left = 1 .. Len(left)
  <2>1. Len(netWire) \in Nat /\ netWire \in Seq(Nat)
    BY DEF NetWrites
  <2>2. n \in 1 .. 3 /\ netTodo \in Seq(NetSteps) /\ 1 \in 1 .. n
    <3>1. netTodo # <<>>
      BY DEF NetTakes
    <3>2. n \in Nat /\ n <= 3 /\ n > 0 /\ netTodo \in Seq(NetSteps)
      BY <1>1, <3>1, NetTodo
    <3> HIDE DEF n
    <3>3. n \in 1 .. 3 /\ 1 \in 1 .. n
      <4>1. n \in Nat /\ n <= 3 /\ n > 0
        BY <3>2
      <4>2. QED
        BY <4>1
    <3>4. QED
      BY <3>2, <3>3
  <2>3. netTodo[1] \in NetSteps /\ left \in Seq(Nat) /\ NetLen(1) = Len(left)
    BY <1>1, <2>2, NetTodo
  <2>4. Len(left) \in Nat /\ DOMAIN left = 1 .. Len(left)
    BY <2>3
  <2>5. m \in Nat /\ 1 <= m /\ m <= Len(left)
    BY <2>4 DEF NetTakes
  <2>6. QED
    BY <1>1, <2>1, <2>2, <2>3, <2>4, <2>5, NetTodo
<1>n. /\ n \in 1 .. 3 /\ m \in Nat /\ 1 <= m /\ m <= NetLen(1) /\ NetLen(1) = Len(left)
      /\ NetLen(1) \in Nat /\ NetLen(2) \in Nat /\ NetLen(3) \in Nat /\ Len(netWire) \in Nat
  BY <1>2
<1>3. \A k \in 1 .. Len(left) : left[k] = Len(netWire) + k
  <2>1. NetBefore(1) = Len(netWire)
    BY <1>2 DEF NetBefore
  <2>2. \A k \in DOMAIN left : left[k] = NetBefore(1) + k
    BY <1>1, <1>2 DEF NetPlan
  <2>3. QED
    BY <1>2, <2>1, <2>2
<1>4. sent \in Seq(Nat) /\ Len(sent) = m /\ \A k \in 1 .. m : sent[k] = left[k]
  <2>1. left \in Seq(Nat) /\ m \in Nat /\ m <= Len(left)
    BY <1>2
  <2> HIDE DEF left
  <2>2. QED
    BY <2>1, NetPrefix
<1>5. /\ rest \in Seq(Nat) /\ Len(rest) = Len(left) - m
      /\ \A k \in 1 .. Len(left) - m : rest[k] = left[m + k]
  <2>0. left \in Seq(Nat) /\ Len(left) \in Nat /\ m \in Nat /\ m <= Len(left)
    BY <1>2
  <2> HIDE DEF left
  <2>1. left \in [1 .. Len(left) -> Nat]
    BY <2>0, LenProperties
  <2> DEFINE q == Len(left)
  <2>2. q \in Nat /\ left \in [1 .. q -> Nat] /\ m \in Nat /\ m <= q /\ q <= q
    BY <2>0, <2>1
  <2> HIDE DEF q
  <2>3. /\ SubSeq(left, m + 1, q) \in Seq(Nat) /\ Len(SubSeq(left, m + 1, q)) = q - m
        /\ \A k \in 1 .. q - m : SubSeq(left, m + 1, q)[k] = left[m + k]
    BY <2>2, NetPart
  <2>4. QED
    BY <2>3 DEF q
<1>6. netTodo' = [netTodo EXCEPT ![1] = first]
  BY DEF NetTakes
<1>0. netTodo[1].do = "send" /\ UNCHANGED <<netWritten, netOut, netHead, netUse, netSize>>
  BY DEF NetTakes
<1>7. first \in NetSteps /\ first.do = "send" /\ first.bytes = rest
  <2> HIDE DEF rest
  <2>1. QED
    BY <1>0, <1>2, <1>5 DEF NetSteps
<1> HIDE DEF first
<1>8. /\ netTodo' \in Seq(NetSteps) /\ Len(netTodo') = n /\ netTodo'[1] = first
      /\ \A i \in 1 .. n : i # 1 => netTodo'[i] = netTodo[i]
  BY <1>2, <1>6, <1>7
<1>9. netWire' \in Seq(Nat) /\ Len(netWire') = Len(netWire) + m /\ netWire' = [i \in 1 .. Len(netWire') |-> i]
  <2>1. \A k \in 1 .. Len(sent) : sent[k] = Len(netWire) + k
    <3> HIDE DEF sent, left
    <3>1. \A k \in 1 .. m : k \in 1 .. Len(left)
      BY <1>2
    <3>2. QED
      BY <1>3, <1>4, <3>1
  <2>2. netWire = [i \in 1 .. Len(netWire) |-> i] /\ netWire' = netWire \o sent
    BY DEF NetWrites, NetTakes
  <2> HIDE DEF sent
  <2>3. QED
    BY <1>2, <1>4, <2>1, <2>2, NetCounting
<1>10. NetLen(1)' = NetLen(1) - m /\ NetLen(2)' = NetLen(2) /\ NetLen(3)' = NetLen(3)
  <2> HIDE DEF left, rest
  <2>1. NetLen(1)' = NetLen(1) - m
    <3>1. 1 <= n /\ Len(netTodo') = n /\ netTodo'[1] = first
      BY <1>2, <1>8
    <3>2. NetLen(1)' = Len(first.bytes)
      BY <3>1 DEF NetLen
    <3>3. QED
      BY <1>2, <1>5, <1>7, <3>2
  <2>2. NetLen(2)' = NetLen(2)
    BY <1>2, <1>8 DEF NetLen
  <2>3. NetLen(3)' = NetLen(3)
    BY <1>2, <1>8 DEF NetLen
  <2>4. QED
    BY <2>1, <2>2, <2>3
<1>11. /\ NetBefore(1)' = NetBefore(1) + m /\ NetBefore(1) = Len(netWire)
       /\ NetBefore(2)' = NetBefore(2) /\ NetBefore(3)' = NetBefore(3) /\ NetBefore(4)' = NetBefore(4)
  <2>1. Len(netWire') = Len(netWire) + m
    BY <1>9
  <2> HIDE DEF left
  <2>2. QED
    BY <1>n, <1>10, <2>1 DEF NetBefore
<1>12. NetPlan'
  <2>1. netTodo' \in Seq([do : {"send", "reset", "copy"}, bytes : Seq(Nat)]) /\ Len(netTodo') <= 3
    <3>1. Len(netTodo') <= 3
      BY <1>n, <1>8
    <3>2. QED
      BY <1>8, <3>1 DEF NetSteps
  <2>2. ASSUME NEW i \in 1 .. Len(netTodo')
        PROVE  /\ \A k \in DOMAIN netTodo'[i].bytes : netTodo'[i].bytes[k] = NetBefore(i)' + k
               /\ netTodo'[i].do = "copy" => i = Len(netTodo') /\ NetLen(i)' < NetBuffer
               /\ netTodo'[i].do = "reset" => NetLen(i)' = 0
               /\ netTodo'[i].do \in {"copy", "reset"} => netUse'[2] = TRUE
    <3>1. CASE i = 1
      <4>1. netTodo'[i].do = "send" /\ netTodo'[i].bytes = rest
        BY <1>7, <1>8, <3>1
      <4>2. DOMAIN rest = 1 .. Len(left) - m
        BY <1>5
      <4> HIDE DEF left, rest
      <4>3. ASSUME NEW k \in 1 .. Len(left) - m PROVE rest[k] = NetBefore(1)' + k
        <5>1. m + k \in 1 .. Len(left) /\ rest[k] = left[m + k]
          BY <1>2, <1>5
        <5>2. left[m + k] = Len(netWire) + (m + k)
          BY <1>3, <5>1
        <5>3. NetBefore(1)' + k = Len(netWire) + (m + k)
          <6>1. Len(left) \in Nat /\ m \in Nat /\ Len(netWire) \in Nat /\ NetBefore(1)' = Len(netWire) + m
            BY <1>n, <1>11
          <6>2. QED
            BY <6>1
        <5>4. QED
          BY <5>1, <5>2, <5>3
      <4>4. QED
        BY <3>1, <4>1, <4>2, <4>3
    <3>2. CASE i # 1
      <4>0. i \in 1 .. n
        BY <1>8
      <4>1. i \in {2, 3} /\ netTodo'[i] = netTodo[i]
        BY <1>n, <1>8, <3>2, <4>0
      <4>2. NetLen(i)' = NetLen(i) /\ NetBefore(i)' = NetBefore(i)
        BY <1>10, <1>11, <4>1
      <4>3. QED
        BY <1>0, <1>1, <1>8, <4>0, <4>1, <4>2 DEF NetPlan
    <3>3. QED
      BY <3>1, <3>2
  <2>3. NetBefore(4)' = netWritten'
    BY <1>0, <1>1, <1>2, <1>11 DEF NetPlan
  <2>4. ASSUME \A i \in 1 .. Len(netTodo') : netTodo'[i].do # "reset" PROVE netSize' = 0
    <3>1. \A i \in 1 .. n : netTodo[i].do # "reset"
      <4>1. TAKE i \in 1 .. n
      <4>2. netTodo'[i].do # "reset"
        BY <1>8, <2>4
      <4>3. CASE i = 1
        BY <1>0, <4>3
      <4>4. CASE i # 1
        BY <1>8, <4>2, <4>4
      <4>5. QED
        BY <4>3, <4>4
    <3>2. QED
      BY <1>0, <1>1, <1>2, <3>1 DEF NetPlan
  <2>5. QED
    BY <2>1, <2>2, <2>3, <2>4 DEF NetPlan
<1>13. netTodo' # <<>>
  BY <1>2, <1>8
<1>14. QED
  BY <1>0, <1>9, <1>12, <1>13 DEF NetWrites, NetBuffered

\* write_some copies what is not sent to an empty buffer.
LEMMA NetCopyStep ==
  ASSUME NetWrites, NetCopy, netClean
  PROVE  NetWrites'
<1> DEFINE bytes == netTodo[1].bytes
           m == Len(bytes)
<1>1. NetPlan /\ netTodo # <<>> /\ netTodo[1].do = "copy"
  BY DEF NetWrites, NetCopy
<1>2. /\ 1 \in 1 .. Len(netTodo) /\ bytes \in Seq(Nat) /\ m = NetLen(1) /\ m \in Nat /\ DOMAIN bytes = 1 .. m
      /\ netTodo \in Seq(NetSteps)
  <2>1. 1 \in 1 .. Len(netTodo) /\ netTodo \in Seq(NetSteps)
    BY <1>1, NetTodo
  <2>2. bytes \in Seq(Nat) /\ m = NetLen(1)
    BY <1>1, <2>1, NetTodo
  <2>3. QED
    BY <2>1, <2>2
<1>3. Len(netTodo) = 1 /\ NetLen(1) < NetBuffer /\ netUse[2] = TRUE /\ NetBefore(4) = netWritten
  BY <1>1, <1>2 DEF NetPlan
<1>4. netSize = 0 /\ netHead = 0
  BY <1>1, <1>3 DEF NetPlan, NetWrites
<1>5. Len(netWire) \in Nat /\ netWritten = Len(netWire) + m /\ \A k \in 1 .. m : bytes[k] = Len(netWire) + k
  <2>1. Len(netWire) \in Nat
    BY DEF NetWrites
  <2>2. NetLen(2) = 0 /\ NetLen(3) = 0
    BY <1>3 DEF NetLen
  <2>3. NetBefore(1) = Len(netWire) /\ NetBefore(4) = Len(netWire) + m
    <3> HIDE DEF bytes, m
    <3>1. QED
      BY <1>2, <2>1, <2>2 DEF NetBefore
  <2>4. \A k \in 1 .. m : bytes[k] = NetBefore(1) + k
    BY <1>1, <1>2 DEF NetPlan
  <2>5. QED
    BY <1>3, <2>1, <2>3, <2>4
<1>6. /\ netSize' = netSize + m /\ netTodo' = Tail(netTodo)
      /\ netUse' = netUse /\ netWritten' = netWritten /\ netWire' = netWire
  BY <1>1 DEF NetCopy
<1>7. netTodo' = <<>>
  BY <1>2, <1>3, <1>6
<1>8. /\ netHead' = 0 /\ netOut' = [p \in 1 .. NetBuffer |->
                                     LET i == (p - 1 - 0) % NetBuffer IN IF i < m THEN bytes[i + 1] ELSE netOut[p]]
  <2>1. NetBuffer \in Nat /\ NetBuffer > 0 /\ 0 + 0 = 0 /\ ~(0 >= NetBuffer)
    BY NetAssumption
  <2>2. netHead + netSize = 0
    BY <1>4
  <2>3. QED
    BY <1>1, <1>4, <2>1, <2>2 DEF NetCopy
<1> HIDE DEF bytes, m
<1>9. \A p \in 1 .. NetBuffer : (p - 1 - 0) % NetBuffer = p - 1
  <2>1. TAKE p \in 1 .. NetBuffer
  <2>2. p - 1 \in 0 .. NetBuffer - 1 /\ p - 1 - 0 = p - 1 /\ NetBuffer \in Nat \ {0}
    BY NetAssumption
  <2>3. QED
    BY <2>2
<1>10. \A p \in 1 .. NetBuffer : netOut'[p] = IF p <= m THEN bytes[p] ELSE netOut[p]
  <2>1. TAKE p \in 1 .. NetBuffer
  <2>2. netOut'[p] = IF p - 1 < m THEN bytes[(p - 1) + 1] ELSE netOut[p]
    BY <1>8, <1>9
  <2>3. (p - 1) + 1 = p /\ (p - 1 < m <=> p <= m)
    BY <1>2, NetAssumption
  <2>4. QED
    BY <2>2, <2>3
<1>11. netOut' \in [1 .. NetBuffer -> Nat]
  <2>1. \A p \in 1 .. NetBuffer : netOut'[p] \in Nat
    <3>1. TAKE p \in 1 .. NetBuffer
    <3>2. CASE p <= m
      <4>1. p \in 1 .. m
        BY <1>2, <3>2, NetAssumption
      <4>2. QED
        BY <1>2, <1>10, <3>2, <4>1
    <3>3. CASE ~(p <= m)
      BY <1>10, <3>3 DEF NetWrites
    <3>4. QED
      BY <3>2, <3>3
  <2>2. netOut' = [p \in 1 .. NetBuffer |-> netOut'[p]]
    BY <1>8
  <2>3. QED
    BY <2>1, <2>2
<1>12. netSize' = m /\ m < NetBuffer
  BY <1>2, <1>3, <1>4, <1>6
<1>13. NetPlan'
  BY <1>7 DEF NetPlan
<1>14. NetBuffered'
  <2>1. ASSUME NEW p \in 1 .. m PROVE netOut'[p] = Len(netWire) + p
    <3>1. p \in 1 .. NetBuffer /\ p <= m
      BY <1>2, <1>12, NetAssumption
    <3>2. QED
      BY <1>5, <1>10, <3>1
  <2>2. QED
    BY <1>5, <1>6, <1>12, <2>1 DEF NetBuffered
<1>15. netUse'[2] # FALSE
  BY <1>3, <1>6
<1>16. QED
  BY <1>2, <1>6, <1>8, <1>11, <1>12, <1>13, <1>14, <1>15 DEF NetWrites

\* Sequences of one, two and three elements.
LEMMA NetJoin ==
  ASSUME NEW a, NEW b
  PROVE  /\ <<a>> \o <<>> = <<a>> /\ <<>> \o <<a>> = <<a>> /\ <<a>> \o <<b>> = <<a, b>>
         /\ \A c : <<a, b>> \o <<c>> = <<a, b, c>>
<1>1. <<a>> \in Seq({a}) /\ <<b>> \in Seq({b})
  OBVIOUS
<1>2. <<a>> \o <<>> = <<a>> /\ <<>> \o <<a>> = <<a>>
  BY <1>1, ConcatEmptySeq
<1>3. <<a>> \o <<b>> = <<a, b>>
  <2> DEFINE s == <<a>>
             t == <<b>>
             st == <<a, b>>
  <2>1. s \in Seq({a, b}) /\ t \in Seq({a, b}) /\ st \in Seq({a, b})
    OBVIOUS
  <2>2. Len(s) = 1 /\ Len(t) = 1 /\ Len(st) = 2 /\ s[1] = a /\ t[1] = b /\ st[1] = a /\ st[2] = b
    OBVIOUS
  <2> HIDE DEF s, t, st
  <2>3. s \o t \in Seq({a, b}) /\ Len(s \o t) = 2 /\ (s \o t)[1] = a /\ (s \o t)[2] = b
    BY <2>1, <2>2, ConcatProperties
  <2>4. \A i \in 1 .. 2 : i = 1 \/ i = 2
    OBVIOUS
  <2>5. s \o t = st
    BY <2>1, <2>2, <2>3, <2>4, SeqEqual
  <2>6. QED
    BY <2>5 DEF s, t, st
<1>4. ASSUME NEW c PROVE <<a, b>> \o <<c>> = <<a, b, c>>
  <2> DEFINE s == <<a, b>>
             t == <<c>>
             st == <<a, b, c>>
  <2>1. s \in Seq({a, b, c}) /\ t \in Seq({a, b, c}) /\ st \in Seq({a, b, c})
    OBVIOUS
  <2>2. /\ Len(s) = 2 /\ Len(t) = 1 /\ Len(st) = 3 /\ s[1] = a /\ s[2] = b /\ t[1] = c
        /\ st[1] = a /\ st[2] = b /\ st[3] = c
    OBVIOUS
  <2> HIDE DEF s, t, st
  <2>3. s \o t \in Seq({a, b, c}) /\ Len(s \o t) = 3 /\ (s \o t)[1] = a /\ (s \o t)[2] = b /\ (s \o t)[3] = c
    BY <2>1, <2>2, ConcatProperties
  <2>4. \A i \in 1 .. 3 : i = 1 \/ i = 2 \/ i = 3
    OBVIOUS
  <2>5. s \o t = st
    BY <2>1, <2>2, <2>3, <2>4, SeqEqual
  <2>6. QED
    BY <2>5 DEF s, t, st
<1>5. QED
  BY <1>2, <1>3, <1>4

\* Between two calls what a flush has to do is to send the buffer.
LEMMA NetFlushIs ==
  ASSUME NetWrites, netTodo = <<>>
  PROVE  /\ NetFlushSteps = <<NetSend(SubSeq(netOut, 1, netSize)), [do |-> "reset", bytes |-> <<>>]>>
         /\ SubSeq(netOut, 1, netSize) \in Seq(Nat) /\ Len(SubSeq(netOut, 1, netSize)) = netSize
         /\ \A k \in 1 .. netSize : SubSeq(netOut, 1, netSize)[k] = Len(netWire) + k
         /\ netSize \in Nat /\ Len(netWire) \in Nat /\ Len(netWire) + netSize = netWritten
<1>1. /\ netHead = 0 /\ netSize \in Nat /\ netSize < NetBuffer /\ NetBuffer \in Nat /\ netOut \in [1 .. NetBuffer -> Nat]
      /\ Len(netWire) \in Nat /\ Len(netWire) + netSize = netWritten
      /\ \A p \in 1 .. netSize : netOut[p] = Len(netWire) + p
  BY NetAssumption DEF NetWrites, NetBuffered
<1>2. /\ SubSeq(netOut, 0 + 1, netSize) \in Seq(Nat) /\ Len(SubSeq(netOut, 0 + 1, netSize)) = netSize - 0
      /\ \A k \in 1 .. netSize - 0 : SubSeq(netOut, 0 + 1, netSize)[k] = netOut[0 + k]
  <2>1. 0 \in Nat /\ 0 <= netSize /\ netSize <= NetBuffer
    BY <1>1
  <2>2. QED
    BY <1>1, <2>1, NetPart
<1>3. NetFlushSteps = <<NetSend(SubSeq(netOut, 1, netSize)), [do |-> "reset", bytes |-> <<>>]>>
  <2>1. netHead + netSize = netSize /\ netHead + 1 = 1 /\ netSize < NetBuffer /\ ~(netSize >= NetBuffer)
    BY <1>1
  <2> DEFINE a == NetSend(SubSeq(netOut, 1, netSize))
             b == [do |-> "reset", bytes |-> <<>>]
  <2>2. NetFlushSteps = <<a>> \o <<>> \o <<b>>
    BY <2>1 DEF NetFlushSteps, NetSegment
  <2> HIDE DEF a, b
  <2>3. <<a>> \o <<>> \o <<b>> = <<a, b>>
    BY NetJoin
  <2>4. QED
    BY <2>2, <2>3 DEF a, b
<1>4. QED
  <2>1. 0 + 1 = 1 /\ netSize - 0 = netSize /\ \A k \in 1 .. netSize : 0 + k = k
    BY <1>1
  <2>2. QED
    BY <1>1, <1>2, <1>3, <2>1

\* What a call of write, or of flush, has to do; its steps have a, b and c bytes.
NetBegins(steps, a, b, c) ==
    /\ netTodo' = steps /\ steps \in Seq(NetSteps) /\ Len(steps) \in 1 .. 3
    /\ a = Len(steps[1].bytes)
    /\ b = (IF Len(steps) > 1 THEN Len(steps[2].bytes) ELSE 0)
    /\ c = (IF Len(steps) > 2 THEN Len(steps[3].bytes) ELSE 0)

\* They go on where the wire ends.
NetFollow(steps, a, b, c) ==
    /\ Len(netWire) \in Nat /\ netWire' = netWire /\ Len(netWire) + a + b + c = netWritten'
    /\ \A k \in 1 .. a : steps[1].bytes[k] = Len(netWire) + k
    /\ Len(steps) > 1 => \A k \in 1 .. b : steps[2].bytes[k] = Len(netWire) + a + k
    /\ Len(steps) > 2 => \A k \in 1 .. c : steps[3].bytes[k] = Len(netWire) + a + b + k

\* Their kinds.
NetInTurn(steps) ==
    /\ \A i \in 1 .. Len(steps) :
         /\ steps[i].do = "copy" => i = Len(steps) /\ Len(steps[i].bytes) < NetBuffer
         /\ steps[i].do = "reset" => Len(steps[i].bytes) = 0
         /\ steps[i].do \in {"copy", "reset"} => netUse'[2] = TRUE
    /\ (\A i \in 1 .. Len(steps) : steps[i].do # "reset") => netSize' = 0

LEMMA NetPlanned ==
  ASSUME NEW steps, NEW a, NEW b, NEW c,
         NetBegins(steps, a, b, c), NetFollow(steps, a, b, c), NetInTurn(steps)
  PROVE  NetPlan' /\ NetBuffered'
<1> DEFINE n == Len(steps)
<1>1. n \in 1 .. 3 /\ \A i \in 1 .. n : steps[i].bytes \in Seq(Nat)
  <2>1. n \in 1 .. 3 /\ \A i \in 1 .. n : steps[i] \in NetSteps
    BY DEF NetBegins
  <2>2. QED
    BY <2>1 DEF NetSteps
<1>2. \A i \in 1 .. n : NetLen(i)' = Len(steps[i].bytes) /\ DOMAIN steps[i].bytes = 1 .. Len(steps[i].bytes)
  BY <1>1 DEF NetLen, NetBegins
<1>3. NetLen(1)' = a /\ NetLen(2)' = b /\ NetLen(3)' = c
  BY DEF NetLen, NetBegins
<1>4. a \in Nat /\ b \in Nat /\ c \in Nat
  <2>1. a \in Nat
    BY <1>1 DEF NetBegins
  <2>2. b \in Nat
    BY <1>1 DEF NetBegins
  <2>3. c \in Nat
    BY <1>1 DEF NetBegins
  <2>4. QED
    BY <2>1, <2>2, <2>3
<1>5. /\ NetBefore(1)' = Len(netWire) /\ NetBefore(2)' = Len(netWire) + a /\ NetBefore(3)' = Len(netWire) + a + b
      /\ NetBefore(4)' = netWritten'
  <2>1. /\ Len(netWire) \in Nat /\ Len(netWire') = Len(netWire) /\ Len(netWire) + a + b + c = netWritten'
    BY DEF NetFollow
  <2>2. QED
    BY <1>3, <1>4, <2>1 DEF NetBefore
<1>6. ASSUME NEW i \in 1 .. n, NEW k \in DOMAIN steps[i].bytes
      PROVE  steps[i].bytes[k] = NetBefore(i)' + k
  <2>0. k \in 1 .. Len(steps[i].bytes)
    BY <1>2
  <2>1. CASE i = 1
    <3>1. k \in 1 .. a
      BY <2>0, <2>1 DEF NetBegins
    <3>2. QED
      BY <1>5, <2>1, <3>1 DEF NetFollow
  <2>2. CASE i = 2
    <3>1. n > 1
      BY <1>1, <2>2
    <3>2. k \in 1 .. b
      BY <2>0, <2>2, <3>1 DEF NetBegins
    <3>3. QED
      BY <1>5, <2>2, <3>1, <3>2 DEF NetFollow
  <2>3. CASE i = 3
    <3>1. n > 2
      BY <1>1, <2>3
    <3>2. k \in 1 .. c
      BY <2>0, <2>3, <3>1 DEF NetBegins
    <3>3. QED
      BY <1>5, <2>3, <3>1, <3>2 DEF NetFollow
  <2>4. i = 1 \/ i = 2 \/ i = 3
    <3>1. n \in 1 .. 3
      BY <1>1
    <3> HIDE DEF n
    <3>2. QED
      BY <3>1
  <2>5. QED
    BY <2>1, <2>2, <2>3, <2>4
<1>7. /\ netTodo' = steps /\ steps # <<>> /\ n <= 3
      /\ steps \in Seq([do : {"send", "reset", "copy"}, bytes : Seq(Nat)])
  <2>1. netTodo' = steps /\ steps \in Seq(NetSteps)
    BY DEF NetBegins
  <2>2. n <= 3 /\ n # 0
    <3>1. n \in 1 .. 3
      BY <1>1
    <3> HIDE DEF n
    <3>2. QED
      BY <3>1
  <2>3. steps # <<>>
    BY <2>2
  <2>4. QED
    BY <2>1, <2>2, <2>3 DEF NetSteps
<1>8. NetPlan'
  BY <1>2, <1>5, <1>6, <1>7 DEF NetPlan, NetInTurn
<1>9. NetBuffered'
  BY <1>7 DEF NetBuffered
<1>10. QED
  BY <1>8, <1>9

\* A call begins.
NetCalls == netTodo = <<>> /\ netWire' = netWire /\ netSize' = netSize

\* The last step of a write of m bytes: a send or a copy.
NetLast(more, m) ==
    /\ more \in NetSteps /\ more.do # "reset" /\ m = Len(more.bytes) /\ m \in Nat
    /\ netWritten' = netWritten + m
    /\ \A k \in 1 .. m : more.bytes[k] = netWritten + k
    /\ more.do = "copy" => m < NetBuffer

\* A flush.
LEMMA NetBufferOnly ==
  ASSUME NetWrites, NetCalls, netUse'[2] = TRUE, netTodo' = NetFlushSteps, netWritten' = netWritten
  PROVE  NetPlan' /\ NetBuffered'
<1> DEFINE buffer == SubSeq(netOut, 1, netSize)
           send == NetSend(buffer)
           reset == [do |-> "reset", bytes |-> <<>>]
           steps == <<send, reset>>
<1>1. /\ NetFlushSteps = steps /\ buffer \in Seq(Nat) /\ Len(buffer) = netSize
      /\ \A k \in 1 .. netSize : buffer[k] = Len(netWire) + k
      /\ netSize \in Nat /\ Len(netWire) \in Nat /\ Len(netWire) + netSize = netWritten
  BY NetFlushIs DEF NetCalls
<1> HIDE DEF buffer
<1>2. /\ send \in NetSteps /\ reset \in NetSteps /\ send.do = "send" /\ send.bytes = buffer
      /\ reset.do = "reset" /\ reset.bytes = <<>> /\ Len(reset.bytes) = 0
  BY <1>1 DEF NetSteps, NetSend
<1> HIDE DEF send, reset
<1>3. steps \in Seq(NetSteps) /\ Len(steps) = 2 /\ steps[1] = send /\ steps[2] = reset /\ netTodo' = steps
  BY <1>1, <1>2
<1> HIDE DEF steps
<1>4. NetBegins(steps, netSize, 0, 0)
  <2>1. Len(steps) \in 1 .. 3 /\ Len(steps) > 1 /\ ~(Len(steps) > 2)
    BY <1>3
  <2>2. Len(steps[1].bytes) = netSize /\ Len(steps[2].bytes) = 0
    BY <1>1, <1>2, <1>3
  <2>3. QED
    BY <1>3, <2>1, <2>2 DEF NetBegins
<1>5. NetFollow(steps, netSize, 0, 0)
  <2>1. Len(netWire) + netSize + 0 + 0 = netWritten'
    BY <1>1
  <2>2. ~(Len(steps) > 2) /\ steps[1].bytes = buffer
    BY <1>2, <1>3
  <2>3. \A k \in 1 .. 0 : FALSE
    OBVIOUS
  <2>4. QED
    BY <1>1, <2>1, <2>2, <2>3 DEF NetFollow, NetCalls
<1>6. NetInTurn(steps)
  <2>1. \A i \in 1 .. 2 : i = 1 \/ i = 2
    OBVIOUS
  <2>2. 2 \in 1 .. 2
    OBVIOUS
  <2>3. QED
    BY <1>2, <1>3, <2>1, <2>2 DEF NetInTurn
<1>7. QED
  BY <1>4, <1>5, <1>6, NetPlanned

\* A write that flushes first.
LEMMA NetBufferFirst ==
  ASSUME NetWrites, NetCalls, netUse'[2] = TRUE, NEW more, NEW m, NetLast(more, m),
         netTodo' = NetFlushSteps \o <<more>>
  PROVE  NetPlan' /\ NetBuffered'
<1> DEFINE buffer == SubSeq(netOut, 1, netSize)
           send == NetSend(buffer)
           reset == [do |-> "reset", bytes |-> <<>>]
           steps == <<send, reset, more>>
<1>1. /\ NetFlushSteps = <<send, reset>> /\ buffer \in Seq(Nat) /\ Len(buffer) = netSize
      /\ \A k \in 1 .. netSize : buffer[k] = Len(netWire) + k
      /\ netSize \in Nat /\ Len(netWire) \in Nat /\ Len(netWire) + netSize = netWritten
  BY NetFlushIs DEF NetCalls
<1> HIDE DEF buffer
<1>2. /\ send \in NetSteps /\ reset \in NetSteps /\ send.do = "send" /\ send.bytes = buffer
      /\ reset.do = "reset" /\ reset.bytes = <<>> /\ Len(reset.bytes) = 0
  BY <1>1 DEF NetSteps, NetSend
<1> HIDE DEF send, reset
<1>3. netTodo' = steps
  BY <1>1, NetJoin
<1>4. steps \in Seq(NetSteps) /\ Len(steps) = 3 /\ steps[1] = send /\ steps[2] = reset /\ steps[3] = more
  BY <1>2 DEF NetLast
<1> HIDE DEF steps
<1>5. NetBegins(steps, netSize, 0, m)
  <2>1. Len(steps) \in 1 .. 3 /\ Len(steps) > 1 /\ Len(steps) > 2
    BY <1>4
  <2>2. Len(steps[1].bytes) = netSize /\ Len(steps[2].bytes) = 0 /\ Len(steps[3].bytes) = m
    BY <1>1, <1>2, <1>4 DEF NetLast
  <2>3. QED
    BY <1>3, <1>4, <2>1, <2>2 DEF NetBegins
<1>6. NetFollow(steps, netSize, 0, m)
  <2>0. m \in Nat /\ netWritten' = netWritten + m
    BY DEF NetLast
  <2>1. Len(netWire) + netSize + 0 + m = netWritten'
    <3>1. netSize \in Nat /\ Len(netWire) \in Nat /\ Len(netWire) + netSize = netWritten
      BY <1>1
    <3>2. QED
      BY <2>0, <3>1
  <2>2. \A k \in 1 .. m : more.bytes[k] = Len(netWire) + netSize + 0 + k
    <3>1. netSize \in Nat /\ Len(netWire) \in Nat /\ Len(netWire) + netSize = netWritten
      BY <1>1
    <3>2. \A k \in 1 .. m : Len(netWire) + netSize + 0 + k = netWritten + k
      BY <2>0, <3>1
    <3>3. QED
      BY <3>2 DEF NetLast
  <2>3. \A k \in 1 .. 0 : FALSE
    OBVIOUS
  <2>4. steps[1].bytes = buffer /\ steps[3].bytes = more.bytes
    BY <1>2, <1>4
  <2>5. QED
    BY <1>1, <2>1, <2>2, <2>3, <2>4 DEF NetFollow, NetCalls
<1>7. NetInTurn(steps)
  <2>1. \A i \in 1 .. 3 : i = 1 \/ i = 2 \/ i = 3
    OBVIOUS
  <2>2. 2 \in 1 .. 3
    OBVIOUS
  <2>3. QED
    BY <1>2, <1>4, <2>1, <2>2 DEF NetInTurn, NetLast
<1>8. QED
  BY <1>5, <1>6, <1>7, NetPlanned

\* The only step of a write when nothing is in the buffer.
LEMMA NetAlone ==
  ASSUME NetWrites, NetCalls, netSize = 0, NEW more, NEW m, NetLast(more, m),
         more.do = "copy" => netUse'[2] = TRUE, netTodo' = <<more>>
  PROVE  NetPlan' /\ NetBuffered'
<1> DEFINE steps == <<more>>
<1>1. Len(netWire) \in Nat /\ Len(netWire) = netWritten
  <2>1. netSize \in Nat /\ Len(netWire) \in Nat /\ Len(netWire) + netSize = netWritten
    BY NetFlushIs DEF NetCalls
  <2>2. QED
    BY <2>1
<1>2. steps \in Seq(NetSteps) /\ Len(steps) = 1 /\ steps[1] = more /\ netTodo' = steps
  BY DEF NetLast
<1> HIDE DEF steps
<1>3. NetBegins(steps, m, 0, 0)
  BY <1>2 DEF NetBegins, NetLast
<1>4. NetFollow(steps, m, 0, 0)
  <2>1. Len(netWire) + m + 0 + 0 = netWritten'
    BY <1>1 DEF NetLast
  <2>2. ~(Len(steps) > 1) /\ ~(Len(steps) > 2)
    BY <1>2
  <2>3. QED
    BY <1>1, <1>2, <2>1, <2>2 DEF NetFollow, NetLast, NetCalls
<1>5. NetInTurn(steps)
  <2>1. \A i \in 1 .. 1 : i = 1
    OBVIOUS
  <2>2. QED
    BY <1>2, <2>1 DEF NetInTurn, NetLast, NetCalls
<1>6. QED
  BY <1>3, <1>4, <1>5, NetPlanned

\* What a call leaves alone, and the plan it makes.
LEMMA NetCalled ==
  ASSUME NetWrites, NetCalls, NetPlan', NetBuffered', netWritten' \in Nat,
         netUse' = netUse, netOut' = netOut, netHead' = netHead
  PROVE  NetWrites'
BY DEF NetWrites, NetCalls

LEMMA NetWriteStep ==
  ASSUME NetWrites, netUse[2] \in BOOLEAN, NEW n \in 1 .. NetBytes, NetWrite(n), netClean'
  PROVE  NetWrites'
<1> DEFINE bytes == [i \in 1 .. n |-> netWritten + i]
           send == NetSend(bytes)
           copy == [do |-> "copy", bytes |-> bytes]
<1>1. /\ NetCalls /\ netWritten' = netWritten + n /\ netUse' = netUse /\ netOut' = netOut /\ netHead' = netHead
      /\ netTodo' = (IF netUse[2] THEN NetWriteSteps(bytes) ELSE <<send>>)
      /\ (netSize > 0 => netSize + n >= NetBuffer \/ n >= NetHighWater)
  <2>1. netClean' = (netSize > 0 => netSize + n >= NetBuffer \/ n >= NetHighWater)
    BY DEF NetWrite
  <2>2. netSize > 0 => netSize + n >= NetBuffer \/ n >= NetHighWater
    BY <2>1, Zenon
  <2>3. QED
    BY <2>2 DEF NetWrite, NetIdle, NetCalls
<1>2. n \in Nat /\ netWritten \in Nat /\ netSize \in Nat /\ NetBuffer \in Nat /\ NetHighWater \in Nat /\ NetHighWater <= NetBuffer
  BY NetAssumption DEF NetWrites
<1>3. bytes \in Seq(Nat) /\ Len(bytes) = n /\ \A k \in 1 .. n : bytes[k] = netWritten + k
  <2>1. bytes \in [1 .. n -> Nat]
    BY <1>2
  <2>2. QED
    BY <1>2, <2>1, LenProperties
<1> HIDE DEF bytes
<1>4. NetLast(send, n)
  BY <1>1, <1>2, <1>3 DEF NetLast, NetSend, NetSteps
<1>5. n < NetBuffer => NetLast(copy, n)
  BY <1>1, <1>2, <1>3 DEF NetLast, NetSteps
<1>6. NetPlan' /\ NetBuffered'
  <2>1. CASE netUse[2] = FALSE
    <3>1. netTodo' = <<send>> /\ netSize = 0
      BY <1>1, <2>1 DEF NetWrites
    <3>2. send.do # "copy"
      BY DEF NetSend
    <3>3. QED
      BY <1>1, <1>4, <3>1, <3>2, NetAlone
  <2>2. CASE netUse[2] = TRUE
    <3>1. netTodo' = (IF netSize + n >= NetBuffer \/ n >= NetHighWater THEN NetFlushSteps ELSE <<>>)
                       \o <<IF n >= NetHighWater THEN send ELSE copy>>
      BY <1>1, <1>3, <2>2 DEF NetWriteSteps
    <3>2. netUse'[2] = TRUE
      BY <1>1, <2>2
    <3>3. CASE n >= NetHighWater
      <4>1. netTodo' = NetFlushSteps \o <<send>>
        BY <3>1, <3>3
      <4>2. QED
        BY <1>1, <1>4, <3>2, <4>1, NetBufferFirst
    <3>4. CASE ~(n >= NetHighWater)
      <4>1. n < NetBuffer
        BY <1>2, <3>4
      <4>2. CASE netSize + n >= NetBuffer
        <5>1. netTodo' = NetFlushSteps \o <<copy>>
          BY <3>1, <3>4, <4>2
        <5>2. QED
          BY <1>1, <1>5, <3>2, <4>1, <5>1, NetBufferFirst
      <4>3. CASE ~(netSize + n >= NetBuffer)
        <5>1. netSize = 0
          BY <1>1, <1>2, <3>4, <4>3
        <5>2. netTodo' = <<>> \o <<copy>>
          BY <3>1, <3>4, <4>3
        <5>3. netTodo' = <<copy>>
          BY <5>2, NetJoin
        <5>4. QED
          BY <1>1, <1>5, <3>2, <4>1, <5>1, <5>3, NetAlone
      <4>4. QED
        BY <4>2, <4>3
    <3>5. QED
      BY <3>3, <3>4
  <2>3. QED
    BY <2>1, <2>2
<1>7. netWritten' \in Nat
  BY <1>1, <1>2
<1>8. QED
  BY <1>1, <1>6, <1>7, NetCalled

LEMMA NetFlushStep ==
  ASSUME NetWrites, netUse[2] \in BOOLEAN, NetFlush
  PROVE  NetWrites'
<1>1. /\ NetCalls /\ netUse'[2] = TRUE /\ netTodo' = NetFlushSteps /\ netWritten' = netWritten
      /\ netUse' = netUse /\ netOut' = netOut /\ netHead' = netHead
  BY DEF NetFlush, NetIdle, NetCalls
<1>2. NetPlan' /\ NetBuffered'
  BY <1>1, NetBufferOnly
<1>3. netWritten' \in Nat
  BY <1>1 DEF NetWrites
<1>4. QED
  BY <1>1, <1>2, <1>3, NetCalled

LEMMA NetSendSomeStep ==
  ASSUME NetWrites, NetSendSome, netClean'
  PROVE  NetWrites'
<1> DEFINE left == netTodo[1].bytes
<1>1. /\ netTodo # <<>> /\ netTodo[1].do = "send"
      /\ netUse' = netUse /\ netWritten' = netWritten /\ netOut' = netOut /\ netHead' = netHead /\ netSize' = netSize
  BY DEF NetSendSome
<1>2. CASE left = <<>> /\ netTodo' = Tail(netTodo) /\ netWire' = netWire
  <2>1. NetLen(1) = 0
    BY <1>1, <1>2 DEF NetLen
  <2>2. netTodo[1].do # "copy" /\ netTodo[1].do # "reset"
    BY <1>1
  <2>3. QED
    BY <1>1, <1>2, <2>1, <2>2, NetDoneStep
<1>3. CASE \E m \in 1 .. Len(left) :
             /\ netWire' = netWire \o SubSeq(left, 1, m)
             /\ netTodo' = [netTodo EXCEPT ![1].bytes = SubSeq(left, m + 1, Len(left))]
  <2>1. PICK m \in 1 .. Len(left) :
             /\ netWire' = netWire \o SubSeq(left, 1, m)
             /\ netTodo' = [netTodo EXCEPT ![1].bytes = SubSeq(left, m + 1, Len(left))]
    BY <1>3
  <2>2. NetTakes(m)
    BY <1>1, <2>1 DEF NetTakes
  <2>3. QED
    BY <2>2, NetSentStep
<1>4. QED
  BY <1>2, <1>3, Zenon DEF NetSendSome

LEMMA NetFlushedStep ==
  ASSUME NetWrites, NetFlushed
  PROVE  NetWrites'
<1>1. /\ netTodo # <<>> /\ netTodo[1].do = "reset" /\ netHead' = 0 /\ netSize' = 0 /\ netTodo' = Tail(netTodo)
      /\ netUse' = netUse /\ netWritten' = netWritten /\ netWire' = netWire /\ netOut' = netOut
  BY DEF NetFlushed
<1>2. netHead' = netHead
  BY <1>1 DEF NetWrites
<1>3. NetPlan
  BY DEF NetWrites
<1>4. NetLen(1) = 0
  <2>1. 1 \in 1 .. Len(netTodo)
    <3>1. Len(netTodo) \in Nat /\ Len(netTodo) > 0
      BY <1>1, <1>3, NetTodo
    <3>2. QED
      BY <3>1
  <2>2. QED
    BY <1>1, <1>3, <2>1 DEF NetPlan
<1>5. netTodo[1].do # "copy"
  BY <1>1
<1>6. QED
  BY <1>1, <1>2, <1>4, <1>5, NetDoneStep

\* The direction and the buffering are chosen before anything is written.
LEMMA NetStartStep ==
  ASSUME NetWrites, NEW d \in {"read", "write"}, NEW b \in BOOLEAN, NetStart(d, b), netUse = <<"none", FALSE>>
  PROVE  NetWrites'
<1>1. /\ netTodo' = netTodo /\ netWritten' = netWritten /\ netWire' = netWire /\ netOut' = netOut
      /\ netHead' = netHead /\ netSize' = netSize
  BY DEF NetStart, netOutVars
<1>2. netUse[2] = FALSE
  OBVIOUS
<1>3. netSize = 0
  BY <1>2 DEF NetWrites
<1>4. \A i \in 1 .. Len(netTodo) : netTodo[i].do \notin {"copy", "reset"}
  BY <1>2 DEF NetWrites, NetPlan
<1>5. /\ NetLen(1)' = NetLen(1) /\ NetLen(2)' = NetLen(2) /\ NetLen(3)' = NetLen(3)
      /\ \A i : NetLen(i)' = NetLen(i) /\ NetBefore(i)' = NetBefore(i)
  BY <1>1 DEF NetLen, NetBefore
<1>6. NetPlan'
  BY <1>1, <1>4, <1>5 DEF NetWrites, NetPlan
<1>7. NetBuffered'
  BY <1>1 DEF NetWrites, NetBuffered
<1>8. QED
  BY <1>1, <1>3, <1>6, <1>7 DEF NetWrites

\* A reader leaves what is written alone, a writer what is read.
LEMMA NetWritesAlone ==
  ASSUME NetWrites, UNCHANGED <<netUse, netOutVars>>
  PROVE  NetWrites'
<1>1. /\ netUse' = netUse /\ netTodo' = netTodo /\ netWritten' = netWritten /\ netWire' = netWire /\ netOut' = netOut
      /\ netHead' = netHead /\ netSize' = netSize
  BY DEF netOutVars
<1>2. QED
  BY <1>1 DEF NetWrites, NetPlan, NetBuffered, NetLen, NetBefore

LEMMA NetReadsAlone ==
  ASSUME NetReads, UNCHANGED netInVars
  PROVE  NetReads'
<1>1. /\ netPeer' = netPeer /\ netIn' = netIn /\ netInHead' = netInHead /\ netInSize' = netInSize
      /\ netWant' = netWant /\ netRead' = netRead
  BY DEF netInVars
<1>2. QED
  BY <1>1 DEF NetReads

LEMMA NetReadCallStep ==
  ASSUME NetReads, NEW n \in 1 .. NetBytes, NetReadCall(n)
  PROVE  NetReads'
<1>1. /\ netPeer' = netPeer /\ netIn' = netIn /\ netInHead' = netInHead /\ netInSize' = netInSize
      /\ netWant' = n /\ netRead' = netRead /\ n \in Nat
  BY NetAssumption DEF NetReadCall
<1>2. QED
  BY <1>1 DEF NetReads

\* The socket is in one of its uses.
NetUses == {<<"none", FALSE>>} \union ({"read", "write"} \X BOOLEAN)

LEMMA NetUseParts ==
  ASSUME netUse \in NetUses
  PROVE  netUse[2] \in BOOLEAN /\ (netUse[1] = "none" => netUse = <<"none", FALSE>>)
<1>1. CASE netUse = <<"none", FALSE>>
  BY <1>1
<1>2. CASE netUse \in {"read", "write"} \X BOOLEAN
  <2>1. PICK d \in {"read", "write"}, b \in BOOLEAN : netUse = <<d, b>>
    BY <1>2
  <2>2. netUse[1] = d /\ netUse[2] = b
    BY <2>1
  <2>3. QED
    BY <2>2
<1>3. QED
  BY <1>1, <1>2 DEF NetUses

LEMMA NetInitially == NetInit => NetIInv
<1> SUFFICES ASSUME NetInit PROVE NetIInv
  OBVIOUS
<1>1. <<>> \in Seq(Nat) /\ Len(<<>>) = 0 /\ <<>> = [i \in 1 .. 0 |-> i] /\ \A i \in 1 .. 0 : FALSE
  OBVIOUS
<1>2. NetZeros \in [1 .. NetBuffer -> Nat] /\ NetBuffer \in Nat /\ 0 < NetBuffer /\ 0 + 0 = 0 /\ 0 + 0 <= NetBuffer
  BY NetAssumption DEF NetZeros
<1>3. NetReads
  <2>1. /\ netPeer = 0 /\ netIn = NetZeros /\ netInHead = 0 /\ netInSize = 0 /\ netWant = 0 /\ netRead = <<>>
    BY DEF NetInit
  <2>2. QED
    BY <1>1, <1>2, <2>1 DEF NetReads
<1>4. NetPlan /\ NetBuffered
  <2>1. netTodo = <<>> /\ netWritten = 0 /\ netWire = <<>> /\ netSize = 0
    BY DEF NetInit
  <2>2. <<>> \in Seq([do : {"send", "reset", "copy"}, bytes : Seq(Nat)]) /\ Len(<<>>) <= 3
    BY <1>1
  <2>3. QED
    BY <1>1, <2>1, <2>2 DEF NetPlan, NetBuffered
<1>5. NetWrites
  <2>1. netWritten = 0 /\ netWire = <<>> /\ netSize = 0 /\ netHead = 0 /\ netOut = NetZeros
    BY DEF NetInit
  <2>2. QED
    BY <1>1, <1>2, <1>4, <2>1 DEF NetWrites
<1>6. QED
  BY <1>3, <1>5 DEF NetInit, NetIInv

\* What is written goes on where the wire ends, and what is received is delivered or buffered: this is kept by every step.
LEMMA NetStep == NetIInv /\ [NetNext]_netVars => NetIInv'
<1> SUFFICES ASSUME NetIInv, [NetNext]_netVars PROVE NetIInv'
  OBVIOUS
<1>1. netUse \in NetUses /\ netClean \in BOOLEAN /\ netFilled \in BOOLEAN /\ (netClean => NetWrites) /\ (netFilled => NetReads)
  BY DEF NetIInv, NetUses
<1> DEFINE Kept == /\ netUse' \in NetUses /\ netClean' \in BOOLEAN /\ netFilled' \in BOOLEAN
                   /\ (netClean' => NetWrites') /\ (netFilled' => NetReads')
<1>2. ASSUME Kept PROVE NetIInv'
  BY <1>2 DEF NetIInv, NetUses
<1>3. ASSUME UNCHANGED <<netUse, netOutVars>>, netFilled' \in BOOLEAN, netFilled' => NetReads' PROVE NetIInv'
  <2>1. netClean' = netClean /\ netUse' = netUse
    BY <1>3 DEF netOutVars
  <2>2. netClean => NetWrites'
    BY <1>1, <1>3, NetWritesAlone
  <2>3. QED
    BY <1>1, <1>2, <1>3, <2>1, <2>2, Zenon
<1>4. ASSUME UNCHANGED netInVars, netUse' \in NetUses, netClean' \in BOOLEAN, netClean' => NetWrites' PROVE NetIInv'
  <2>1. netFilled' = netFilled
    BY <1>4 DEF netInVars
  <2>2. netFilled => NetReads'
    BY <1>1, <1>4, NetReadsAlone
  <2>3. QED
    BY <1>1, <1>2, <1>4, <2>1, <2>2, Zenon
<1>5. ASSUME NEW d \in {"read", "write"}, NEW b \in BOOLEAN, NetStart(d, b) PROVE NetIInv'
  <2>1. UNCHANGED netInVars /\ netUse' = <<d, b>> /\ netUse[1] = "none" /\ netClean' = netClean
    BY <1>5 DEF NetStart, netOutVars
  <2>2. netUse' \in NetUses
    BY <2>1 DEF NetUses
  <2>3. netUse = <<"none", FALSE>>
    BY <1>1, <2>1, NetUseParts
  <2>4. netClean => NetWrites'
    BY <1>1, <1>5, <2>3, NetStartStep
  <2>5. QED
    BY <1>1, <1>4, <2>1, <2>2, <2>4, Zenon
<1>6. ASSUME NEW n \in 1 .. NetBytes, NetWrite(n) PROVE NetIInv'
  <2>1. UNCHANGED netInVars /\ netUse' = netUse /\ netClean
    BY <1>6 DEF NetWrite
  <2>2. netClean' \in BOOLEAN
    <3>1. netClean' = (netSize > 0 => netSize + n >= NetBuffer \/ n >= NetHighWater)
      BY <1>6 DEF NetWrite
    <3>2. QED
      BY <3>1, Zenon
  <2>3. netClean' => NetWrites'
    BY <1>1, <1>6, <2>1, NetWriteStep, NetUseParts
  <2>4. QED
    BY <1>1, <1>4, <2>1, <2>2, <2>3, Zenon
<1>7. ASSUME NEW n \in 1 .. NetBytes, NetReadCall(n) PROVE NetIInv'
  <2>1. UNCHANGED <<netUse, netOutVars>> /\ netFilled' = netFilled
    BY <1>7 DEF NetReadCall
  <2>2. netFilled => NetReads'
    BY <1>1, <1>7, NetReadCallStep
  <2>3. QED
    BY <1>1, <1>3, <2>1, <2>2, Zenon
<1>8. CASE NetFlush
  <2>1. UNCHANGED netInVars /\ netUse' = netUse /\ netClean' = netClean /\ netClean
    BY <1>8 DEF NetFlush
  <2>2. NetWrites'
    BY <1>1, <1>8, <2>1, NetFlushStep, NetUseParts
  <2>3. QED
    BY <1>1, <1>4, <2>1, <2>2, Zenon
<1>9. CASE NetSendSome
  <2>1. UNCHANGED netInVars /\ netUse' = netUse
    BY <1>9 DEF NetSendSome
  <2>2. netClean' = netClean \/ netClean' = FALSE
    BY <1>9, Zenon DEF NetSendSome
  <2>3. netClean' \in BOOLEAN
    BY <1>1, <2>2, Zenon
  <2>4. netClean' => netClean
    BY <2>2, Zenon
  <2>5. netClean' => NetWrites'
    BY <1>1, <1>9, <2>4, NetSendSomeStep
  <2>6. QED
    BY <1>1, <1>4, <2>1, <2>3, <2>5, Zenon
<1>10. CASE NetFlushed
  <2>1. UNCHANGED netInVars /\ netUse' = netUse /\ netClean' = netClean
    BY <1>10 DEF NetFlushed
  <2>2. netClean => NetWrites'
    BY <1>1, <1>10, NetFlushedStep
  <2>3. QED
    BY <1>1, <1>4, <2>1, <2>2, Zenon
<1>11. CASE NetCopy
  <2>1. UNCHANGED netInVars /\ netUse' = netUse /\ netClean' = netClean
    BY <1>11 DEF NetCopy
  <2>2. netClean => NetWrites'
    BY <1>1, <1>11, NetCopyStep
  <2>3. QED
    BY <1>1, <1>4, <2>1, <2>2, Zenon
<1>12. CASE NetReadBuffered
  <2>1. UNCHANGED <<netUse, netOutVars>> /\ netFilled' = netFilled
    BY <1>12 DEF NetReadBuffered
  <2>2. netFilled => NetReads'
    BY <1>1, <1>12, NetReadBufferedStep
  <2>3. QED
    BY <1>1, <1>3, <2>1, <2>2, Zenon
<1>13. ASSUME NEW n \in 0 .. NetBuffer, NetFill(n) PROVE NetIInv'
  <2>1. UNCHANGED <<netUse, netOutVars>>
    BY <1>13 DEF NetFill
  <2>2. netFilled' = (netFilled /\ n = NetBuffer)
    BY <1>13 DEF NetFill
  <2>3. netFilled' \in BOOLEAN /\ (netFilled' => netFilled) /\ (netFilled' => n = NetBuffer)
    BY <2>2, Zenon
  <2>4. netFilled' => NetReads'
    BY <1>1, <1>13, <2>3, NetFillStep
  <2>5. QED
    BY <1>3, <2>1, <2>3, <2>4, Zenon
<1>14. ASSUME NEW n \in 0 .. NetBuffer, NetReceive(n) PROVE NetIInv'
  <2>1. UNCHANGED <<netUse, netOutVars>> /\ netFilled' = netFilled
    BY <1>14 DEF NetReceive
  <2>2. netFilled => NetReads'
    BY <1>1, <1>14, NetReceiveStep
  <2>3. QED
    BY <1>1, <1>3, <2>1, <2>2, Zenon
<1>15. CASE UNCHANGED netVars
  <2>1. UNCHANGED <<netUse, netOutVars>> /\ UNCHANGED netInVars /\ netFilled' = netFilled
    BY <1>15 DEF netVars, netOutVars, netInVars
  <2>2. netFilled => NetReads'
    BY <1>1, <2>1, NetReadsAlone
  <2>3. QED
    BY <1>1, <1>3, <2>1, <2>2, Zenon
<1>16. QED
  BY <1>5, <1>6, <1>7, <1>8, <1>9, <1>10, <1>11, <1>12, <1>13, <1>14, <1>15, Zenon DEF NetNext

(* In both directions the socket is a stream of bytes, for every size of   *)
(* the buffer, every high watermark within it and every pattern of short   *)
(* sends and receives (buffered_socket::write_some, flush, read_some).     *)
THEOREM SocketIsStream == NetSpec => []NetIsStream
<1>1. NetIInv => NetIsStream
  <2>1. ASSUME NetWrites, netTodo = <<>> PROVE Len(netWire) + netSize = netWritten
    BY <2>1 DEF NetWrites, NetBuffered
  <2>2. ASSUME NetWrites PROVE netWire = [i \in 1 .. Len(netWire) |-> i]
    BY <2>2 DEF NetWrites
  <2>3. ASSUME NetReads PROVE netRead = [i \in 1 .. Len(netRead) |-> i]
    BY <2>3 DEF NetReads
  <2>4. QED
    BY <2>1, <2>2, <2>3, Zenon DEF NetIInv, NetIsStream, NetWireInOrder, NetReadInOrder
<1>2. QED
  BY <1>1, NetInitially, NetStep, PTL DEF NetSpec

-----------------------------------------------------------------------------
(***************************************************************************)
(* The asynchronous file                                                   *)
(***************************************************************************)

\* What read gives from the kernel are the bytes that follow the read position.
LEMMA FileBytesFollow ==
  ASSUME NEW from \in Nat, NEW n \in Nat
  PROVE  FileFollows(FileBytes(from, n), from) /\ Len(FileBytes(from, n)) = n
<1>1. \A i \in 1 .. n : from + i \in Nat
  OBVIOUS
<1>2. FileBytes(from, n) \in Seq(Nat) /\ Len(FileBytes(from, n)) = n
  BY <1>1, IsASeq DEF FileBytes
<1>3. QED
  BY <1>2 DEF FileBytes, FileFollows

\* There is one sequence of the bytes that follow from, for each length.
LEMMA FileFollowsIs ==
  ASSUME NEW from \in Nat, NEW s, FileFollows(s, from)
  PROVE  s = FileBytes(from, Len(s)) /\ Len(s) \in Nat /\ s # FileNotRunning
<1>1. s \in Seq(Nat) /\ \A i \in 1 .. Len(s) : s[i] = from + i
  BY DEF FileFollows
<1>2. Len(s) \in Nat /\ DOMAIN s = 1 .. Len(s) /\ s = [i \in 1 .. Len(s) |-> s[i]]
  BY <1>1
<1>3. s = FileBytes(from, Len(s))
  BY <1>1, <1>2 DEF FileBytes
<1>4. s # FileNotRunning
  <2>1. SUFFICES ASSUME s = <<-1>> PROVE FALSE
    BY DEF FileNotRunning
  <2>2. Len(s) = 1 /\ s[1] = -1
    BY <2>1
  <2>3. QED
    BY <1>1, <2>2
<1>5. QED
  BY <1>2, <1>3, <1>4

\* The bytes that follow, and the bytes that follow those.
LEMMA FileFollowsOn ==
  ASSUME NEW from \in Nat, NEW a, FileFollows(a, from), NEW b, FileFollows(b, from + Len(a))
  PROVE  FileFollows(a \o b, from) /\ Len(a \o b) = Len(a) + Len(b)
<1> DEFINE ab == a \o b
           m == Len(a)
           n == Len(b)
<1>1. /\ a \in Seq(Nat) /\ b \in Seq(Nat) /\ \A i \in 1 .. m : a[i] = from + i
      /\ \A i \in 1 .. n : b[i] = from + m + i
  BY DEF FileFollows
<1>2. m \in Nat /\ n \in Nat /\ ab \in Seq(Nat) /\ Len(ab) = m + n
  BY <1>1
<1>3. ASSUME NEW i \in 1 .. m + n PROVE ab[i] = from + i
  <2>1. CASE i <= m
    BY <1>1, <1>2, <2>1
  <2>2. CASE ~(i <= m)
    <3>1. i - m \in 1 .. n /\ ab[i] = b[i - m]
      BY <1>1, <1>2, <2>2
    <3>2. b[i - m] = from + m + (i - m)
      BY <1>1, <3>1
    <3>3. QED
      BY <1>2, <3>1, <3>2
  <2>3. QED
    BY <2>1, <2>2
<1> HIDE DEF ab, m, n
<1>4. FileFollows(ab, from)
  BY <1>2, <1>3 DEF FileFollows
<1>5. QED
  BY <1>2, <1>4 DEF ab, m, n

\* A sequence cut in two.
LEMMA FileCut ==
  ASSUME NEW S, NEW s \in Seq(S), NEW k \in 0 .. Len(s)
  PROVE  /\ SubSeq(s, 1, k) \in Seq(S) /\ Len(SubSeq(s, 1, k)) = k
         /\ \A i \in 1 .. k : SubSeq(s, 1, k)[i] = s[i]
         /\ SubSeq(s, k + 1, Len(s)) \in Seq(S) /\ Len(SubSeq(s, k + 1, Len(s))) = Len(s) - k
         /\ \A i \in 1 .. Len(s) - k : SubSeq(s, k + 1, Len(s))[i] = s[k + i]
         /\ SubSeq(s, 1, k) \o SubSeq(s, k + 1, Len(s)) = s
<1> DEFINE n == Len(s)
           a == SubSeq(s, 1, k)
           b == SubSeq(s, k + 1, n)
<1>1. n \in Nat /\ k \in Nat /\ k <= n
  OBVIOUS
<1>2. a \in Seq(S) /\ Len(a) = k /\ \A i \in 1 .. k : a[i] = s[i]
  BY <1>1
<1>3. b \in Seq(S) /\ Len(b) = n - k
  BY <1>1
<1>4. \A i \in 1 .. n - k : b[i] = s[k + i]
  BY <1>1
<1> HIDE DEF a, b, n
<1>5. a \o b = s
  <2>1. a \o b \in Seq(S) /\ Len(a \o b) = n
    BY <1>1, <1>2, <1>3
  <2>2. ASSUME NEW i \in 1 .. n PROVE (a \o b)[i] = s[i]
    <3>1. CASE i <= k
      BY <1>1, <1>2, <1>3, <3>1
    <3>2. CASE ~(i <= k)
      <4>1. i - k \in 1 .. n - k /\ (a \o b)[i] = b[i - k]
        BY <1>1, <1>2, <1>3, <3>2
      <4>2. b[i - k] = s[k + (i - k)]
        BY <1>4, <4>1
      <4>3. k + (i - k) = i
        BY <1>1
      <4>4. QED
        BY <4>1, <4>2, <4>3
    <3>3. QED
      BY <3>1, <3>2
  <2>3. QED
    BY <2>1, <2>2, SeqEqual DEF n
<1>6. QED
  BY <1>2, <1>3, <1>4, <1>5 DEF a, b, n

\* The parts of the bytes that follow.
LEMMA FileFollowsCut ==
  ASSUME NEW from \in Nat, NEW s, FileFollows(s, from), NEW k \in 0 .. Len(s)
  PROVE  /\ FileFollows(SubSeq(s, 1, k), from) /\ Len(SubSeq(s, 1, k)) = k
         /\ FileFollows(SubSeq(s, k + 1, Len(s)), from + k)
         /\ Len(SubSeq(s, k + 1, Len(s))) = Len(s) - k
<1> DEFINE n == Len(s)
           a == SubSeq(s, 1, k)
           b == SubSeq(s, k + 1, n)
<1>1. s \in Seq(Nat) /\ \A i \in 1 .. n : s[i] = from + i
  BY DEF FileFollows
<1>2. /\ a \in Seq(Nat) /\ Len(a) = k /\ \A i \in 1 .. k : a[i] = s[i]
      /\ b \in Seq(Nat) /\ Len(b) = n - k /\ \A i \in 1 .. n - k : b[i] = s[k + i]
  BY <1>1, FileCut
<1>3. n \in Nat /\ k \in Nat /\ k <= n
  BY <1>1
<1> HIDE DEF n, a, b
<1>4. FileFollows(a, from)
  <2>1. \A i \in 1 .. k : i \in 1 .. n
    BY <1>3
  <2>2. \A i \in 1 .. k : a[i] = from + i
    BY <1>1, <1>2, <2>1
  <2>3. QED
    BY <1>2, <2>2 DEF FileFollows
<1>5. ASSUME NEW i \in 1 .. n - k PROVE b[i] = from + k + i
  <2>1. k + i \in 1 .. n
    BY <1>3
  <2>2. b[i] = from + (k + i)
    BY <1>1, <1>2, <2>1
  <2>3. QED
    BY <1>3, <2>2
<1>6. FileFollows(b, from + k)
  BY <1>2, <1>5 DEF FileFollows
<1>7. QED
  BY <1>2, <1>4, <1>6 DEF n, a, b

-----------------------------------------------------------------------------
\* A coroutine that can read: rdbuf has the bytes from what is to be delivered next to read_head.
LEMMA FileReader ==
  ASSUME FileReadInv, FileCanRead
  PROVE  /\ fileInOrder = TRUE /\ fileRun = FileNotRunning /\ fileMode = "in"
         /\ fileNext \in Nat \ {0} /\ fileNext - 1 \in Nat /\ fileHead \in Nat
         /\ FileFollows(fileRdbuf, fileNext - 1) /\ Len(fileRdbuf) \in Nat
         /\ fileNext - 1 + Len(fileRdbuf) = fileHead
<1>1. fileMode = "in" /\ fileRun = FileNotRunning
  BY DEF FileCanRead
<1>2. /\ fileInOrder = TRUE /\ fileNext \in Nat \ {0} /\ fileHead \in Nat
      /\ FileFollows(fileRdbuf, fileNext - 1) /\ fileNext - 1 + Len(fileRdbuf) = fileHead
  BY <1>1 DEF FileReadInv
<1>3. fileNext - 1 \in Nat
  BY <1>2
<1>4. Len(fileRdbuf) \in Nat
  BY <1>2, <1>3, FileFollowsIs
<1>5. QED
  BY <1>1, <1>2, <1>3, <1>4

\* resize(n) of n bytes does nothing.
LEMMA FileResizedSame ==
  ASSUME NEW r \in Seq(Nat)
  PROVE  r = FileResized(r, Len(r))
BY DEF FileResized

LEMMA FileResizedLen ==
  ASSUME NEW r \in Seq(Nat), NEW n \in Nat
  PROVE  Len(FileResized(r, n)) = n
<1>1. \A i \in 1 .. n : (IF i <= Len(r) THEN r[i] ELSE 0) \in Nat
  BY LenProperties
<1>2. FileResized(r, n) \in Seq(Nat) /\ Len(FileResized(r, n)) = n
  BY <1>1, IsASeq DEF FileResized
<1>3. QED
  BY <1>2

\* Delivering the bytes that follow, and perhaps zeros after them.
LEMMA FileDelivered ==
  ASSUME fileInOrder = TRUE, fileNext \in Nat \ {0}, NEW p \in Nat, p = fileNext - 1,
         NEW r, FileFollows(r, p), NEW q, q = FileResized(r, Len(q)), NEW c, c = Len(r), FileDeliver(q, c)
  PROVE  fileInOrder' = TRUE /\ fileNext' \in Nat \ {0} /\ fileNext' - 1 = p + Len(r)
<1>1. r = FileBytes(p, Len(r)) /\ Len(r) \in Nat
  BY FileFollowsIs
<1>2. q = FileResized(FileBytes(fileNext - 1, c), Len(q))
  BY <1>1
<1>3. /\ fileInOrder' = (fileInOrder /\ q = FileResized(FileBytes(fileNext - 1, c), Len(q)))
      /\ fileNext' = fileNext + c
  BY DEF FileDeliver
<1>4. fileInOrder' = TRUE
  BY <1>2, <1>3, Zenon
<1>5. fileNext' \in Nat \ {0} /\ fileNext' - 1 = p + Len(r)
  BY <1>1, <1>3
<1>6. QED
  BY <1>4, <1>5

\* As they are.
LEMMA FileDeliveredAll ==
  ASSUME fileInOrder = TRUE, fileNext \in Nat \ {0}, NEW p \in Nat, p = fileNext - 1,
         NEW r, FileFollows(r, p), NEW c, c = Len(r), FileDeliver(r, c)
  PROVE  fileInOrder' = TRUE /\ fileNext' \in Nat \ {0} /\ fileNext' - 1 = p + Len(r)
<1>1. r = FileResized(r, Len(r))
  BY FileResizedSame DEF FileFollows
<1>2. QED
  BY <1>1, FileDelivered

\* After a read that is not read(-1).
LEMMA FileReadDone ==
  ASSUME fileInOrder' = TRUE, fileNext' \in Nat \ {0}, fileHead' \in Nat, fileRun' = FileNotRunning,
         NEW q, q = fileNext' - 1, FileFollows(fileRdbuf', q), q + Len(fileRdbuf') = fileHead'
  PROVE  FileReadInv'
BY DEF FileReadInv, FileNotRunning

\* The kernel returns a count.
LEMMA FileCountsNat ==
  ASSUME NEW from \in Nat, NEW n \in Int, NEW k \in FileCounts(from, n)
  PROVE  k \in Nat
BY FileAssumption DEF FileCounts, FileMin

\* Nothing follows at the end.
LEMMA FileFollowsNone ==
  ASSUME NEW from \in Nat
  PROVE  FileFollows(<<>>, from) /\ Len(<<>>) = 0
BY DEF FileFollows

LEMMA FileReadBufferedStep ==
  ASSUME FileReadInv, NEW n \in Nat, FileReadBuffered(n)
  PROVE  FileReadInv'
<1>1. /\ fileInOrder = TRUE /\ fileRun = FileNotRunning
      /\ fileNext \in Nat \ {0} /\ fileNext - 1 \in Nat /\ fileHead \in Nat
      /\ FileFollows(fileRdbuf, fileNext - 1) /\ Len(fileRdbuf) \in Nat
      /\ fileNext - 1 + Len(fileRdbuf) = fileHead
  BY FileReader DEF FileReadBuffered
<1> DEFINE p == fileNext - 1
           r == SubSeq(fileRdbuf, 1, n)
           b == SubSeq(fileRdbuf, n + 1, Len(fileRdbuf))
<1>2. n \in 0 .. Len(fileRdbuf) /\ FileDeliver(r, n) /\ fileRdbuf' = b /\ fileHead' = fileHead /\ fileRun' = fileRun
  BY <1>1 DEF FileReadBuffered
<1>3. /\ FileFollows(r, p) /\ Len(r) = n
      /\ FileFollows(b, p + n) /\ Len(b) = Len(fileRdbuf) - n
  BY <1>1, <1>2, FileFollowsCut
<1> HIDE DEF r, b
<1>4. fileInOrder' = TRUE /\ fileNext' \in Nat \ {0} /\ fileNext' - 1 = p + n
  BY <1>1, <1>2, <1>3, FileDeliveredAll
<1>5. p + n + Len(b) = fileHead
  BY <1>1, <1>3
<1> HIDE DEF p
<1>6. QED
  BY <1>1, <1>2, <1>3, <1>4, <1>5, FileReadDone

\* All of rdbuf, and k bytes from the kernel.
LEMMA FileTakeAll ==
  ASSUME FileReadInv, FileCanRead, NEW k \in Nat
  PROVE  /\ FileFollows(fileRdbuf \o FileBytes(fileHead, k), fileNext - 1)
         /\ Len(fileRdbuf \o FileBytes(fileHead, k)) = Len(fileRdbuf) + k
<1>1. FileFollows(FileBytes(fileHead, k), fileHead) /\ Len(FileBytes(fileHead, k)) = k
  BY FileReader, FileBytesFollow
<1>2. QED
  BY <1>1, FileReader, FileFollowsOn

\* rdbuf and k bytes from the kernel are delivered, and rdbuf is empty.
LEMMA FileTookAll ==
  ASSUME FileReadInv, FileCanRead, NEW k \in Nat,
         NEW z, z = FileResized(fileRdbuf \o FileBytes(fileHead, k), Len(z)), NEW c, c = Len(fileRdbuf) + k,
         FileDeliver(z, c),
         fileHead' = fileHead + k, fileRdbuf' = <<>>, fileRun' = fileRun
  PROVE  FileReadInv'
<1> DEFINE r == fileRdbuf \o FileBytes(fileHead, k)
           p == fileNext - 1
<1>1. FileFollows(r, p) /\ Len(r) = Len(fileRdbuf) + k
  BY FileTakeAll
<1>2. /\ fileInOrder = TRUE /\ fileRun = FileNotRunning
      /\ fileNext \in Nat \ {0} /\ p \in Nat /\ fileHead \in Nat
      /\ Len(fileRdbuf) \in Nat /\ p + Len(fileRdbuf) = fileHead
  BY FileReader
<1> HIDE DEF r
<1>3. fileInOrder' = TRUE /\ fileNext' \in Nat \ {0} /\ fileNext' - 1 = p + Len(r)
  BY <1>1, <1>2, FileDelivered DEF r
<1>4. p + Len(r) = fileHead' /\ fileHead' \in Nat
  BY <1>1, <1>2
<1>5. FileFollows(fileRdbuf', fileHead') /\ Len(fileRdbuf') = 0
  BY <1>4, FileFollowsNone
<1>6. fileHead' = fileNext' - 1 /\ fileHead' + Len(fileRdbuf') = fileHead'
  BY <1>3, <1>4, <1>5
<1>7. QED
  BY <1>2, <1>3, <1>4, <1>5, <1>6, FileReadDone

LEMMA FileTookJust ==
  ASSUME FileReadInv, FileCanRead, NEW k \in Nat, NEW c, c = Len(fileRdbuf) + k,
         FileDeliver(fileRdbuf \o FileBytes(fileHead, k), c),
         fileHead' = fileHead + k, fileRdbuf' = <<>>, fileRun' = fileRun
  PROVE  FileReadInv'
<1> DEFINE r == fileRdbuf \o FileBytes(fileHead, k)
<1>1. r \in Seq(Nat)
  BY FileTakeAll DEF FileFollows
<1> HIDE DEF r
<1>2. r = FileResized(r, Len(r))
  BY <1>1, FileResizedSame
<1>3. QED
  BY <1>2, FileTookAll DEF r

LEMMA FileReadLargeStep ==
  ASSUME FileReadInv, NEW n \in Nat, FileReadLarge(n)
  PROVE  FileReadInv'
<1>1. FileCanRead /\ fileRdbuf' = <<>> /\ fileRun' = fileRun
  BY DEF FileReadLarge
<1>2. PICK k \in FileCounts(fileHead, n - Len(fileRdbuf)) :
        FileDeliver(fileRdbuf \o FileBytes(fileHead, k), Len(fileRdbuf) + k) /\ fileHead' = fileHead + k
  BY DEF FileReadLarge
<1>3. k \in Nat
  <2>1. fileHead \in Nat /\ n - Len(fileRdbuf) \in Int
    BY <1>1, FileReader
  <2>2. QED
    BY <2>1, FileCountsNat
<1>4. QED
  BY <1>1, <1>2, <1>3, FileTookJust

LEMMA FileReadBatchStep ==
  ASSUME FileReadInv, NEW n \in Nat, FileReadBatch(n)
  PROVE  FileReadInv'
<1> DEFINE more == n - Len(fileRdbuf)
           got(k) == FileBytes(fileHead, k)
           p == fileNext - 1
<1>1. FileCanRead /\ fileRun' = fileRun /\ Len(fileRdbuf) <= n
  BY DEF FileReadBatch, FileIsBatch
<1>2. PICK k \in FileCounts(fileHead, FileBatch) :
        /\ IF more > k
           THEN FileDeliver(FileResized(fileRdbuf \o got(k), n), Len(fileRdbuf) + k) /\ fileRdbuf' = <<>>
           ELSE FileDeliver(fileRdbuf \o SubSeq(got(k), 1, more), n) /\ fileRdbuf' = SubSeq(got(k), more + 1, k)
        /\ fileHead' = fileHead + k
  BY DEF FileReadBatch
<1>3. /\ fileInOrder = TRUE /\ fileRun = FileNotRunning
      /\ fileNext \in Nat \ {0} /\ p \in Nat /\ fileHead \in Nat
      /\ FileFollows(fileRdbuf, p) /\ Len(fileRdbuf) \in Nat /\ p + Len(fileRdbuf) = fileHead
  BY <1>1, FileReader
<1>4. k \in Nat
  BY <1>3, FileAssumption, FileCountsNat
<1>5. CASE more > k
  <2> DEFINE r == fileRdbuf \o got(k)
             z == FileResized(r, n)
  <2>1. FileDeliver(z, Len(fileRdbuf) + k) /\ fileRdbuf' = <<>> /\ fileHead' = fileHead + k
    BY <1>2, <1>5
  <2>2. r \in Seq(Nat)
    BY <1>1, <1>4, FileTakeAll DEF FileFollows
  <2> HIDE DEF r
  <2>3. Len(z) = n
    BY <2>2, FileResizedLen
  <2>4. z = FileResized(r, Len(z))
    BY <2>3
  <2> HIDE DEF z
  <2>5. QED
    BY <1>1, <1>4, <2>1, <2>4, FileTookAll DEF r
<1>6. CASE ~(more > k)
  <2> DEFINE a == SubSeq(got(k), 1, more)
             b == SubSeq(got(k), more + 1, k)
             r == fileRdbuf \o a
  <2>1. FileFollows(got(k), fileHead) /\ Len(got(k)) = k
    BY <1>3, <1>4, FileBytesFollow
  <2>2. more \in Nat /\ more \in 0 .. k
    BY <1>1, <1>3, <1>4, <1>6
  <2>3. FileFollows(a, fileHead) /\ Len(a) = more /\ FileFollows(b, fileHead + more) /\ Len(b) = k - more
    BY <1>3, <2>1, <2>2, FileFollowsCut
  <2>4. FileDeliver(r, n) /\ fileRdbuf' = b /\ fileHead' = fileHead + k
    BY <1>2, <1>6
  <2> HIDE DEF a, b
  <2>5. FileFollows(r, p) /\ Len(r) = Len(fileRdbuf) + more
    BY <1>3, <2>3, FileFollowsOn
  <2> HIDE DEF r, got
  <2>6. fileInOrder' = TRUE /\ fileNext' \in Nat \ {0} /\ fileNext' - 1 = p + Len(r)
    <3>1. n = Len(r)
      BY <1>3, <2>5
    <3>2. QED
      BY <1>3, <2>4, <2>5, <3>1, FileDeliveredAll
  <2>7. p + Len(r) = fileHead + more /\ fileHead + more + (k - more) = fileHead' /\ fileHead' \in Nat
    BY <1>3, <1>4, <2>2, <2>4, <2>5
  <2> HIDE DEF p, more
  <2>8. QED
    BY <1>1, <1>3, <2>3, <2>4, <2>6, <2>7, FileReadDone
<1>7. QED
  BY <1>5, <1>6

LEMMA FileReadAllStartStep ==
  ASSUME FileReadInv, FileReadAllStart
  PROVE  FileReadInv'
<1>1. /\ fileInOrder = TRUE /\ fileMode = "in"
      /\ fileNext \in Nat \ {0} /\ fileNext - 1 \in Nat /\ fileHead \in Nat
      /\ FileFollows(fileRdbuf, fileNext - 1) /\ fileNext - 1 + Len(fileRdbuf) = fileHead
  BY FileReader DEF FileReadAllStart
<1>2. /\ fileRun' = fileRdbuf /\ fileRdbuf' = <<>> /\ fileMode' = fileMode /\ fileHead' = fileHead
      /\ fileNext' = fileNext /\ fileInOrder' = fileInOrder
  BY DEF FileReadAllStart
<1>3. fileRun' # FileNotRunning /\ FileFollows(<<>>, fileNext - 1)
  BY <1>1, <1>2, FileFollowsIs, FileFollowsNone
<1>4. QED
  BY <1>1, <1>2, <1>3 DEF FileReadInv, FileNotRunning

LEMMA FileReadAllStepStep ==
  ASSUME FileReadInv, FileReadAllStep
  PROVE  FileReadInv'
<1> DEFINE p == fileNext - 1
<1>1. fileRun # FileNotRunning /\ fileMode' = fileMode /\ fileRdbuf' = fileRdbuf
  BY DEF FileReadAllStep
<1>2. /\ fileInOrder = TRUE /\ fileMode # "thrown" /\ fileNext \in Nat \ {0} /\ fileHead \in Nat
      /\ fileRdbuf = <<>> /\ FileFollows(fileRun, p) /\ p + Len(fileRun) = fileHead
  BY <1>1 DEF FileReadInv
<1>3. p \in Nat
  BY <1>2
<1>4. Len(fileRun) \in Nat
  BY <1>2, <1>3, FileFollowsIs
<1>5. PICK k \in FileCounts(fileHead, FileLength) :
        IF k = 0
        THEN FileDeliver(fileRun, Len(fileRun)) /\ fileRun' = FileNotRunning /\ fileHead' = fileHead
        ELSE /\ fileRun' = fileRun \o FileBytes(fileHead, k) /\ fileHead' = fileHead + k
             /\ fileNext' = fileNext /\ fileInOrder' = fileInOrder
  BY DEF FileReadAllStep
<1>6. k \in Nat
  BY <1>2, FileAssumption, FileCountsNat
<1>7. CASE k = 0
  <2>1. FileDeliver(fileRun, Len(fileRun)) /\ fileRun' = FileNotRunning /\ fileHead' = fileHead
    BY <1>5, <1>7
  <2>2. fileInOrder' = TRUE /\ fileNext' \in Nat \ {0} /\ fileNext' - 1 = p + Len(fileRun)
    BY <1>2, <1>3, <2>1, FileDeliveredAll
  <2>3. FileFollows(fileRdbuf', fileHead) /\ Len(fileRdbuf') = 0
    BY <1>1, <1>2, FileFollowsNone
  <2>4. fileHead = fileNext' - 1 /\ fileHead + Len(fileRdbuf') = fileHead'
    <3>1. PICK x : x = Len(fileRdbuf')
      OBVIOUS
    <3>2. PICK q : q = p + Len(fileRun)
      OBVIOUS
    <3>3. x = 0 /\ q = fileHead /\ q = fileNext' - 1 /\ fileHead' = fileHead
      BY <1>2, <2>1, <2>2, <2>3, <3>1, <3>2
    <3>4. fileHead = fileNext' - 1
      BY <3>3
    <3>5. fileHead + 0 = fileHead
      BY <1>2
    <3>6. QED
      BY <3>1, <3>3, <3>4, <3>5
  <2>5. QED
    BY <1>2, <2>1, <2>2, <2>3, <2>4, FileReadDone
<1>8. CASE k # 0
  <2> DEFINE more == FileBytes(fileHead, k)
  <2>1. /\ fileRun' = fileRun \o more /\ fileHead' = fileHead + k
        /\ fileNext' = fileNext /\ fileInOrder' = fileInOrder
    BY <1>5, <1>8
  <2>2. FileFollows(more, fileHead) /\ Len(more) = k
    BY <1>2, <1>6, FileBytesFollow
  <2> HIDE DEF more
  <2>3. FileFollows(fileRun', p) /\ Len(fileRun') = Len(fileRun) + k
    BY <1>2, <1>3, <2>1, <2>2, FileFollowsOn
  <2>4. fileRun' # FileNotRunning
    BY <1>3, <2>3, FileFollowsIs
  <2>5. p + Len(fileRun') = fileHead' /\ fileHead' \in Nat
    <3>1. PICK x : x = Len(fileRun')
      OBVIOUS
    <3>2. PICK y : y = Len(fileRun)
      OBVIOUS
    <3>3. x = y + k /\ p + y = fileHead /\ fileHead' = fileHead + k /\ y \in Nat /\ fileHead \in Nat
      BY <1>2, <1>4, <2>1, <2>3, <3>1, <3>2
    <3>4. p + x = fileHead' /\ fileHead' \in Nat
      BY <1>3, <1>6, <3>3
    <3>5. QED
      BY <3>1, <3>4
  <2>6. FileFollows(<<>>, p)
    BY <1>3, FileFollowsNone
  <2>7. QED
    BY <1>1, <1>2, <2>1, <2>3, <2>4, <2>5, <2>6 DEF FileReadInv, FileNotRunning
<1>9. QED
  BY <1>7, <1>8

LEMMA FileReadExactlyStep ==
  ASSUME FileReadInv, NEW n \in Nat, FileReadExactly(n)
  PROVE  FileReadInv'
<1>1. FileCanRead /\ fileRdbuf' = <<>> /\ fileRun' = fileRun
  BY DEF FileReadExactly
<1>2. PICK k \in FileCounts(fileHead, n - Len(fileRdbuf)) :
        /\ fileHead' = fileHead + k
        /\ IF k = n - Len(fileRdbuf)
           THEN FileDeliver(fileRdbuf \o FileBytes(fileHead, k), n) /\ UNCHANGED fileMode
           ELSE fileMode' = "thrown" /\ UNCHANGED <<fileNext, fileInOrder>>
  BY DEF FileReadExactly
<1>3. fileHead \in Nat /\ n - Len(fileRdbuf) \in Int /\ fileInOrder = TRUE /\ fileRun = FileNotRunning
  BY <1>1, FileReader
<1>4. k \in Nat
  BY <1>3, FileCountsNat
<1>5. CASE k = n - Len(fileRdbuf)
  <2>1. n = Len(fileRdbuf) + k
    BY <1>1, <1>5, FileReader
  <2>2. QED
    BY <1>1, <1>2, <1>4, <1>5, <2>1, FileTookJust
<1>6. CASE k # n - Len(fileRdbuf)
  BY <1>1, <1>2, <1>3, <1>6 DEF FileReadInv, FileNotRunning
<1>7. QED
  BY <1>5, <1>6

LEMMA FileSeekgStep ==
  ASSUME FileReadInv, NEW head \in Nat, FileSeekg(head)
  PROVE  FileReadInv'
<1>1. /\ FileCanRead /\ fileRdbuf = <<>> /\ fileHead' = head /\ fileNext' = head + 1
      /\ fileRdbuf' = fileRdbuf /\ fileRun' = fileRun /\ fileInOrder' = fileInOrder
  BY DEF FileSeekg
<1>2. fileInOrder = TRUE /\ fileRun = FileNotRunning
  BY <1>1, FileReader
<1>3. FileFollows(fileRdbuf', head) /\ Len(fileRdbuf') = 0
  BY <1>1, FileFollowsNone
<1>4. fileNext' \in Nat \ {0} /\ head = fileNext' - 1 /\ head + Len(fileRdbuf') = fileHead' /\ fileHead' \in Nat
  BY <1>1, <1>3
<1>5. QED
  BY <1>1, <1>2, <1>3, <1>4, FileReadDone

-----------------------------------------------------------------------------
\* What is put on a disk, and what is put after it.
LEMMA FilePutTwice ==
  ASSUME NEW L \in Nat, NEW d \in [1 .. L -> Nat], NEW h \in Nat, NEW a \in Seq(Nat), NEW b \in Seq(Nat)
  PROVE  /\ FilePut(d, h, a) \in [1 .. L -> Nat]
         /\ FilePut(FilePut(d, h, a), h + Len(a), b) = FilePut(d, h, a \o b)
<1> DEFINE ab == a \o b
           m == Len(a)
           n == Len(b)
           d1 == FilePut(d, h, a)
           d2 == FilePut(d1, h + m, b)
           d3 == FilePut(d, h, ab)
<1>1. m \in Nat /\ n \in Nat /\ ab \in Seq(Nat) /\ Len(ab) = m + n
  OBVIOUS
<1>2. ASSUME NEW i \in 1 .. m PROVE ab[i] = a[i] /\ a[i] \in Nat
  BY <1>1
<1>3. ASSUME NEW i \in 1 .. n PROVE ab[m + i] = b[i]
  BY <1>1
<1>4. DOMAIN d = 1 .. L
  OBVIOUS
<1>5. d1 = [i \in 1 .. L |-> IF i > h /\ i <= h + m THEN a[i - h] ELSE d[i]]
  BY <1>4 DEF FilePut
<1>6. d3 = [i \in 1 .. L |-> IF i > h /\ i <= h + (m + n) THEN ab[i - h] ELSE d[i]]
  BY <1>1, <1>4 DEF FilePut
<1>7. DOMAIN d1 = 1 .. L
  BY <1>5
<1>8. d2 = [i \in 1 .. L |-> IF i > h + m /\ i <= h + m + n THEN b[i - (h + m)] ELSE d1[i]]
  BY <1>7 DEF FilePut
<1> HIDE DEF ab, m, n, d1, d2, d3
<1>9. d1 \in [1 .. L -> Nat]
  <2>1. ASSUME NEW i \in 1 .. L PROVE d1[i] \in Nat
    <3>1. CASE i > h /\ i <= h + m
      <4>1. i - h \in 1 .. m
        BY <1>1, <3>1
      <4>2. d1[i] = a[i - h]
        BY <1>5, <3>1
      <4>3. QED
        BY <1>2, <4>1, <4>2
    <3>2. CASE ~(i > h /\ i <= h + m)
      BY <1>5, <3>2
    <3>3. QED
      BY <3>1, <3>2
  <2>2. QED
    BY <1>5, <2>1
<1>10. ASSUME NEW i \in 1 .. L PROVE d2[i] = d3[i]
  <2>1. CASE i > h + m /\ i <= h + m + n
    <3>1. i - (h + m) \in 1 .. n /\ m + (i - (h + m)) = i - h /\ i > h /\ i <= h + (m + n)
      BY <1>1, <2>1
    <3>2. d2[i] = b[i - (h + m)] /\ d3[i] = ab[i - h]
      BY <1>6, <1>8, <2>1, <3>1
    <3>3. QED
      BY <1>3, <3>1, <3>2
  <2>2. CASE ~(i > h + m /\ i <= h + m + n) /\ i > h /\ i <= h + m
    <3>1. i - h \in 1 .. m /\ i <= h + (m + n)
      BY <1>1, <2>2
    <3>2. d2[i] = a[i - h] /\ d3[i] = ab[i - h]
      BY <1>5, <1>6, <1>8, <2>2, <3>1
    <3>3. QED
      BY <1>2, <3>1, <3>2
  <2>3. CASE ~(i > h + m /\ i <= h + m + n) /\ ~(i > h /\ i <= h + m)
    <3>1. ~(i > h /\ i <= h + (m + n))
      BY <1>1, <2>3
    <3>2. QED
      BY <1>5, <1>6, <1>8, <2>3, <3>1
  <2>4. QED
    BY <2>1, <2>2, <2>3
<1>11. d2 = d3
  BY <1>6, <1>8, <1>10
<1>12. QED
  BY <1>9, <1>11 DEF ab, m, n, d1, d2, d3

\* A number that is at least as large as every other is found.
LEMMA FileLastNat ==
  ASSUME fileWanted \in [1 .. FileLength -> Nat], FileLength >= 1
  PROVE  FileLast \in Nat
<1> DEFINE M(j) == \E m \in 1 .. FileLength : m <= j /\ \A i \in 1 .. j : fileWanted[i] <= fileWanted[m]
           T == {j \in 1 .. FileLength : ~M(j)}
<1>1. FileLength \in Nat
  BY FileAssumption
<1>2. M(1)
  BY <1>1
<1>3. ASSUME NEW j \in 1 .. FileLength, j - 1 \in 1 .. FileLength, M(j - 1) PROVE M(j)
  <2>1. PICK m \in 1 .. FileLength : m <= j - 1 /\ \A i \in 1 .. j - 1 : fileWanted[i] <= fileWanted[m]
    BY <1>3
  <2>2. \A i \in 1 .. j : i \in 1 .. j - 1 \/ i = j
    BY <1>1
  <2>3. fileWanted[j] \in Nat /\ fileWanted[m] \in Nat /\ \A i \in 1 .. j : fileWanted[i] \in Nat
    BY <1>1
  <2>4. CASE fileWanted[j] <= fileWanted[m]
    BY <1>1, <2>1, <2>2, <2>4
  <2>5. CASE ~(fileWanted[j] <= fileWanted[m])
    <3>1. \A i \in 1 .. j : fileWanted[i] <= fileWanted[j]
      BY <2>1, <2>2, <2>3, <2>5
    <3>2. QED
      BY <3>1, <1>1
  <2>6. QED
    BY <2>4, <2>5
<1>4. T = {}
  <2>1. SUFFICES ASSUME T # {} PROVE FALSE
    OBVIOUS
  <2>2. T \in SUBSET Nat
    BY <1>1
  <2>3. PICK j \in T : \A l \in T : j <= l
    BY <2>1, <2>2, LeastNumber
  <2>4. j # 1 /\ j \in 1 .. FileLength /\ ~M(j)
    BY <1>2, <2>3
  <2>5. j - 1 \in 1 .. FileLength /\ ~(j <= j - 1)
    BY <1>1, <2>4
  <2>6. M(j - 1)
    BY <2>3, <2>5
  <2>7. QED
    BY <1>3, <2>4, <2>5, <2>6
<1>5. FileLength \in 1 .. FileLength
  BY <1>1
<1>6. M(FileLength)
  BY <1>4, <1>5
<1>7. PICK m \in 1 .. FileLength : \A i \in 1 .. FileLength : fileWanted[i] <= fileWanted[m]
  BY <1>6
<1>8. FileWrittenSoFar = {fileWanted[i] : i \in 1 .. FileLength}
  BY DEF FileWrittenSoFar
<1>9. \E w \in FileWrittenSoFar : \A b \in FileWrittenSoFar : b <= w
  BY <1>7, <1>8
<1>10. FileLast \in FileWrittenSoFar
  BY <1>9 DEF FileLast
<1>11. QED
  BY <1>8, <1>10

-----------------------------------------------------------------------------
\* The call in progress: what it is, and the bytes it has still to write.
LEMMA FileCall ==
  ASSUME FileWriteInv
  PROVE  /\ fileDo = <<>> \/ fileDo = <<"drain">> => FileRest = <<>>
         /\ fileDo # <<>> /\ fileDo[1] \in {"write", "direct"} =>
              /\ FileRest = fileDo[2] /\ fileDo = <<fileDo[1], fileDo[2]>>
         /\ fileDo # <<>> /\ fileDo[1] = "drain" => FileRest = <<>> /\ fileDo = <<"drain">>
         /\ FileRest \in Seq(Nat)
<1>1. fileDo = <<>> \/ fileDo = <<"drain">> \/ \E o \in {"write", "direct"}, b \in Seq(Nat) : fileDo = <<o, b>>
  BY DEF FileWriteInv
<1>2. CASE fileDo = <<>>
  BY <1>2 DEF FileRest
<1>3. CASE fileDo = <<"drain">>
  <2>1. fileDo[1] = "drain"
    BY <1>3
  <2>2. QED
    BY <1>3, <2>1 DEF FileRest
<1>4. CASE \E o \in {"write", "direct"}, b \in Seq(Nat) : fileDo = <<o, b>>
  <2>1. PICK o \in {"write", "direct"}, b \in Seq(Nat) : fileDo = <<o, b>>
    BY <1>4
  <2>2. fileDo[1] = o /\ fileDo[2] = b /\ fileDo # <<>> /\ fileDo # <<"drain">>
    BY <2>1
  <2>3. FileRest = b
    BY <2>1, <2>2 DEF FileRest
  <2>4. QED
    BY <2>1, <2>2, <2>3
<1>5. QED
  BY <1>1, <1>2, <1>3, <1>4

\* What is in the write buffer and the call, in one.
LEMMA FileWriter ==
  ASSUME FileWriteInv
  PROVE  /\ fileWrbuf \in Seq(Nat) /\ FileRest \in Seq(Nat) /\ fileWriteHead \in Nat
         /\ fileDisk \in [1 .. FileLength -> Nat] /\ fileWanted \in [1 .. FileLength -> Nat]
         /\ fileWanted = FilePut(fileDisk, fileWriteHead, fileWrbuf \o FileRest)
<1>1. FileRest \in Seq(Nat)
  BY FileCall
<1>2. QED
  BY <1>1 DEF FileWriteInv, FilePending

LEMMA FileConcat ==
  ASSUME NEW a \in Seq(Nat), NEW b \in Seq(Nat), NEW c \in Seq(Nat)
  PROVE  b \o c \in Seq(Nat) /\ (a \o b) \o c = a \o (b \o c)
<1>1. (a \o b) \o c = a \o (b \o c)
  BY ConcatAssociative
<1>2. QED
  BY <1>1

\* What is put on the disk in two steps.
LEMMA FilePutOn ==
  ASSUME NEW d \in [1 .. FileLength -> Nat], NEW h \in Nat,
         NEW a \in Seq(Nat), NEW b \in Seq(Nat), NEW c \in Seq(Nat)
  PROVE  /\ FilePut(d, h, a) \in [1 .. FileLength -> Nat]
         /\ FilePut(FilePut(d, h, a), h + Len(a), b \o c) = FilePut(d, h, (a \o b) \o c)
<1>1. FileLength \in Nat
  BY FileAssumption
<1>2. PICK bc \in Seq(Nat) : bc = b \o c
  BY FileConcat
<1>3. /\ FilePut(d, h, a) \in [1 .. FileLength -> Nat]
      /\ FilePut(FilePut(d, h, a), h + Len(a), bc) = FilePut(d, h, a \o bc)
  BY <1>1, FilePutTwice
<1>4. (a \o b) \o c = a \o bc
  <2>1. (a \o b) \o c = a \o (b \o c)
    BY FileConcat
  <2>2. QED
    BY <1>2, <2>1, Zenon
<1>5. QED
  BY <1>2, <1>3, <1>4

\* The kernel takes the first bytes of s, which is to be written, and s2 after it.
LEMMA FileTaken ==
  ASSUME FileWriteInv, NEW s \in Seq(Nat), NEW s2 \in Seq(Nat), fileWrbuf \o FileRest = s \o s2,
         NEW k \in 0 .. Len(s),
         fileDisk' = FilePut(fileDisk, fileWriteHead, SubSeq(s, 1, k)),
         fileWriteHead' = fileWriteHead + k, fileWanted' = fileWanted
  PROVE  /\ fileDisk' \in [1 .. FileLength -> Nat] /\ fileWriteHead' \in Nat
         /\ SubSeq(s, k + 1, Len(s)) \in Seq(Nat)
         /\ fileWanted' = FilePut(fileDisk', fileWriteHead', SubSeq(s, k + 1, Len(s)) \o s2)
<1> DEFINE a == SubSeq(s, 1, k)
           b == SubSeq(s, k + 1, Len(s))
<1>1. a \in Seq(Nat) /\ Len(a) = k /\ b \in Seq(Nat) /\ a \o b = s
  BY FileCut
<1>2. /\ fileWriteHead \in Nat /\ fileDisk \in [1 .. FileLength -> Nat]
      /\ fileWanted = FilePut(fileDisk, fileWriteHead, fileWrbuf \o FileRest)
  BY FileWriter
<1>3. fileDisk' = FilePut(fileDisk, fileWriteHead, a)
  OBVIOUS
<1> HIDE DEF a, b
<1>4. fileWanted' = FilePut(fileDisk, fileWriteHead, (a \o b) \o s2)
  BY <1>1, <1>2
<1>5. /\ fileDisk' \in [1 .. FileLength -> Nat]
      /\ FilePut(fileDisk', fileWriteHead + Len(a), b \o s2) = fileWanted'
  <2>1. /\ FilePut(fileDisk, fileWriteHead, a) \in [1 .. FileLength -> Nat]
        /\ FilePut(FilePut(fileDisk, fileWriteHead, a), fileWriteHead + Len(a), b \o s2)
             = FilePut(fileDisk, fileWriteHead, (a \o b) \o s2)
    <3>1. a \in Seq(Nat) /\ b \in Seq(Nat) /\ fileWriteHead \in Nat /\ fileDisk \in [1 .. FileLength -> Nat]
      BY <1>1, <1>2
    <3>2. \A d \in [1 .. FileLength -> Nat], h \in Nat, x \in Seq(Nat), y \in Seq(Nat), z \in Seq(Nat) :
            /\ FilePut(d, h, x) \in [1 .. FileLength -> Nat]
            /\ FilePut(FilePut(d, h, x), h + Len(x), y \o z) = FilePut(d, h, (x \o y) \o z)
      BY FilePutOn
    <3>3. QED
      BY <3>1, <3>2, Zenon
  <2>2. QED
    BY <1>3, <1>4, <2>1, Zenon
<1>6. FilePut(fileDisk', fileWriteHead', b \o s2) = fileWanted'
  BY <1>1, <1>5
<1>7. fileWriteHead' \in Nat
  BY <1>2
<1>8. QED
  BY <1>1, <1>5, <1>6, <1>7, Zenon DEF b

\* A call that has nothing left to write.
LEMMA FileIdle ==
  ASSUME NEW s \in Seq(Nat)
  PROVE  s \o <<>> = s /\ <<>> \o s = s
BY ConcatEmptySeq

LEMMA FileWriteStep ==
  ASSUME FileWriteInv, NEW n \in 1 .. FileLength, FileWrite(n)
  PROVE  FileWriteInv'
<1> DEFINE bytes == FileBytes(FileLast, n)
           at == fileWriteHead + Len(fileWrbuf)
<1>1. /\ fileDo = <<>> /\ fileDo' = <<"write", bytes>> /\ fileWanted' = FilePut(fileWanted, at, bytes)
      /\ fileWriteHead' = fileWriteHead /\ fileWrbuf' = fileWrbuf /\ fileDisk' = fileDisk
  BY DEF FileWrite
<1>2. /\ fileWrbuf \in Seq(Nat) /\ fileWriteHead \in Nat
      /\ fileDisk \in [1 .. FileLength -> Nat] /\ fileWanted \in [1 .. FileLength -> Nat]
      /\ fileWanted = FilePut(fileDisk, fileWriteHead, fileWrbuf \o FileRest)
  BY FileWriter
<1>3. FileRest = <<>>
  BY <1>1, FileCall
<1>4. fileWanted = FilePut(fileDisk, fileWriteHead, fileWrbuf)
  BY <1>2, <1>3, FileIdle
<1>5. bytes \in Seq(Nat)
  <2>1. FileLength \in Nat /\ FileLength >= 1 /\ n \in Nat
    BY FileAssumption
  <2>2. FileLast \in Nat
    BY <1>2, <2>1, FileLastNat
  <2>3. QED
    BY <2>1, <2>2, FileBytesFollow DEF FileFollows
<1> HIDE DEF bytes
<1>6. at \in Nat
  BY <1>2
<1>7. fileWanted' = FilePut(fileDisk, fileWriteHead, fileWrbuf \o bytes)
  <2>1. FileLength \in Nat
    BY FileAssumption
  <2>2. FilePut(FilePut(fileDisk, fileWriteHead, fileWrbuf), fileWriteHead + Len(fileWrbuf), bytes)
          = FilePut(fileDisk, fileWriteHead, fileWrbuf \o bytes)
    BY <1>2, <1>5, <2>1, FilePutTwice
  <2>3. QED
    BY <1>1, <1>4, <2>2
<1>8. fileWanted' \in [1 .. FileLength -> Nat]
  BY <1>1, <1>2, <1>5, <1>6, FileAssumption, FilePutTwice
<1> HIDE DEF at
<1>9. fileDo'[1] = "write" /\ fileDo'[2] = bytes /\ fileDo' # <<>>
  BY <1>1
<1>10. FileRest' = bytes
  BY <1>9 DEF FileRest
<1>11. QED
  BY <1>1, <1>2, <1>5, <1>7, <1>8, <1>9, <1>10 DEF FileWriteInv, FilePending

LEMMA FileDrainStep ==
  ASSUME FileWriteInv, FileDrain
  PROVE  FileWriteInv'
<1>1. /\ fileDo = <<>> /\ fileDo' = <<"drain">> /\ fileWanted' = fileWanted
      /\ fileWriteHead' = fileWriteHead /\ fileWrbuf' = fileWrbuf /\ fileDisk' = fileDisk
  BY DEF FileDrain
<1>2. FileRest = <<>>
  BY <1>1, FileCall
<1>3. fileDo'[1] = "drain" /\ fileDo' # <<>>
  BY <1>1
<1>4. FileRest' = <<>>
  BY <1>3 DEF FileRest
<1>5. QED
  BY <1>1, <1>2, <1>3, <1>4 DEF FileWriteInv, FilePending

LEMMA FileFlushStep ==
  ASSUME FileWriteInv, FileFlush
  PROVE  FileWriteInv'
<1>1. fileDo # <<>> /\ fileDo[1] \in {"drain", "write"} /\ fileWanted' = fileWanted
  BY DEF FileFlush, FileFlushes
<1>2. PICK k \in 0 .. Len(fileWrbuf) :
        /\ fileDisk' = FilePut(fileDisk, fileWriteHead, SubSeq(fileWrbuf, 1, k))
        /\ fileWriteHead' = fileWriteHead + k
        /\ FileAfterFlush(SubSeq(fileWrbuf, k + 1, Len(fileWrbuf)))
  BY DEF FileFlush, FileWriteCounts
<1> DEFINE b == SubSeq(fileWrbuf, k + 1, Len(fileWrbuf))
<1>3. /\ fileWrbuf \in Seq(Nat) /\ FileRest \in Seq(Nat) /\ fileWanted \in [1 .. FileLength -> Nat]
  BY FileWriter
<1>4. /\ fileDisk' \in [1 .. FileLength -> Nat] /\ fileWriteHead' \in Nat /\ b \in Seq(Nat)
      /\ fileWanted' = FilePut(fileDisk', fileWriteHead', b \o FileRest)
  BY <1>1, <1>2, <1>3, FileTaken
<1>5. FileAfterFlush(b)
  BY <1>2
<1> HIDE DEF b
<1>6. /\ fileDo' \in {<<>>, <<"drain">>} \union ({"write", "direct"} \X Seq(Nat))
      /\ fileWrbuf' \in Seq(Nat) /\ fileWrbuf' \o FileRest' = b \o FileRest
      /\ fileDo' # <<>> /\ fileDo'[1] = "direct" => fileWrbuf' = <<>>
  <2>1. CASE fileDo[1] = "drain" /\ b = <<>>
    <3>1. fileDo' = <<>> /\ fileWrbuf' = b
      BY <1>5, <2>1 DEF FileAfterFlush
    <3>2. FileRest' = <<>> /\ FileRest = <<>>
      BY <1>1, <2>1, <3>1, FileCall DEF FileRest
    <3>3. QED
      BY <1>4, <3>1, <3>2
  <2>2. CASE fileDo[1] = "drain" /\ b # <<>>
    <3>1. fileDo' = fileDo /\ fileWrbuf' = b /\ fileDo = <<"drain">>
      BY <1>1, <1>5, <2>2, FileCall DEF FileAfterFlush
    <3>2. FileRest' = FileRest
      BY <3>1 DEF FileRest
    <3>3. fileDo'[1] = "drain"
      BY <3>1
    <3>4. QED
      BY <1>4, <3>1, <3>2, <3>3
  <2>3. CASE fileDo[1] = "write" /\ b = <<>>
    <3>1. fileDo' = <<"direct", fileDo[2]>> /\ fileWrbuf' = b
      BY <1>5, <2>3 DEF FileAfterFlush
    <3>2. FileRest = fileDo[2]
      BY <1>1, <2>3, FileCall
    <3>3. fileDo'[1] = "direct" /\ fileDo'[2] = FileRest /\ fileDo' # <<>>
      BY <3>1, <3>2
    <3>4. FileRest' = FileRest
      BY <3>3 DEF FileRest
    <3>5. QED
      BY <1>3, <1>4, <2>3, <3>1, <3>2, <3>4
  <2>4. CASE fileDo[1] = "write" /\ b # <<>>
    <3>1. fileDo' = <<>> /\ fileWrbuf' = b \o fileDo[2]
      BY <1>5, <2>4 DEF FileAfterFlush
    <3>2. FileRest = fileDo[2] /\ FileRest' = <<>>
      BY <1>1, <2>4, <3>1, FileCall DEF FileRest
    <3>3. b \o FileRest \in Seq(Nat) /\ fileWrbuf' = b \o FileRest
      BY <1>3, <1>4, <3>1, <3>2
    <3>4. fileWrbuf' \o FileRest' = b \o FileRest
      BY <3>2, <3>3, FileIdle
    <3>5. QED
      BY <3>1, <3>3, <3>4
  <2>5. QED
    BY <1>1, <2>1, <2>2, <2>3, <2>4
<1>7. QED
  BY <1>1, <1>3, <1>4, <1>6 DEF FileWriteInv, FilePending

LEMMA FileWriteDirectStep ==
  ASSUME FileWriteInv, FileWriteDirect
  PROVE  FileWriteInv'
<1>1. fileDo # <<>> /\ fileDo[1] = "direct" /\ fileDo' = <<>> /\ fileWanted' = fileWanted
  BY DEF FileWriteDirect, FileDirect
<1>2. PICK k \in 1 .. Len(fileDo[2]) :
        /\ fileDisk' = FilePut(fileDisk, fileWriteHead, SubSeq(fileDo[2], 1, k))
        /\ fileWriteHead' = fileWriteHead + k
        /\ fileWrbuf' = SubSeq(fileDo[2], k + 1, Len(fileDo[2]))
  BY DEF FileWriteDirect
<1> DEFINE s == fileDo[2]
           b == SubSeq(s, k + 1, Len(s))
<1>3. fileWrbuf = <<>> /\ fileWanted \in [1 .. FileLength -> Nat]
  BY <1>1 DEF FileWriteInv
<1>4. FileRest = s /\ s \in Seq(Nat)
  BY <1>1, FileCall
<1>5. k \in 0 .. Len(s)
  BY <1>4
<1>6. fileWrbuf \o FileRest = s \o <<>>
  BY <1>3, <1>4, FileIdle
<1>7. /\ fileDisk' = FilePut(fileDisk, fileWriteHead, SubSeq(s, 1, k))
      /\ fileWriteHead' = fileWriteHead + k /\ fileWrbuf' = b
  BY <1>2
<1> HIDE DEF s
<1>8. /\ fileDisk' \in [1 .. FileLength -> Nat] /\ fileWriteHead' \in Nat /\ b \in Seq(Nat)
      /\ fileWanted' = FilePut(fileDisk', fileWriteHead', b \o <<>>)
  <2>1. <<>> \in Seq(Nat)
    OBVIOUS
  <2>2. QED
    BY <1>1, <1>4, <1>5, <1>6, <1>7, <2>1, FileTaken
<1> HIDE DEF b
<1>9. FileRest' = <<>>
  BY <1>1 DEF FileRest
<1>10. QED
  BY <1>1, <1>3, <1>7, <1>8, <1>9 DEF FileWriteInv, FilePending

LEMMA FileSeekpStep ==
  ASSUME FileWriteInv, NEW head \in Nat, FileSeekp(head)
  PROVE  FileWriteInv'
<1>1. /\ fileDo = <<>> /\ fileWrbuf = <<>> /\ fileWriteHead' = head
      /\ fileDo' = fileDo /\ fileWrbuf' = fileWrbuf /\ fileDisk' = fileDisk /\ fileWanted' = fileWanted
  BY DEF FileSeekp
<1>2. /\ fileDisk \in [1 .. FileLength -> Nat] /\ fileWanted \in [1 .. FileLength -> Nat]
      /\ fileWriteHead \in Nat /\ fileWanted = FilePut(fileDisk, fileWriteHead, <<>> \o FileRest)
  BY <1>1, FileWriter
<1>3. FileRest = <<>> /\ FileRest' = <<>>
  BY <1>1, FileCall DEF FileRest
<1>4. ASSUME NEW h \in Nat PROVE FilePut(fileDisk, h, <<>>) = fileDisk
  <2>1. FilePut(fileDisk, h, <<>>) = [i \in 1 .. FileLength |-> fileDisk[i]]
    BY <1>2, FileAssumption DEF FilePut
  <2>2. QED
    BY <1>2, <2>1
<1>5. <<>> \o <<>> = <<>>
  BY FileIdle
<1>6. fileWanted' = FilePut(fileDisk', fileWriteHead', <<>>)
  BY <1>1, <1>2, <1>3, <1>4, <1>5
<1>7. QED
  BY <1>1, <1>2, <1>3, <1>5, <1>6 DEF FileWriteInv, FilePending

-----------------------------------------------------------------------------
LEMMA FileInitially == FileInit => FileIInv
<1> SUFFICES ASSUME FileInit PROVE FileIInv
  OBVIOUS
<1>1. FileReadInv
  <2>1. FileFollows(<<>>, 0) /\ Len(<<>>) = 0
    BY FileFollowsNone
  <2>2. /\ fileInOrder = TRUE /\ fileNext = 1 /\ fileHead = 0 /\ fileRdbuf = <<>>
        /\ fileRun = FileNotRunning /\ fileMode = "none"
    BY DEF FileInit
  <2>3. fileNext - 1 = 0 /\ fileNext - 1 + Len(fileRdbuf) = fileHead
    BY <2>1, <2>2
  <2>4. QED
    BY <2>1, <2>2, <2>3 DEF FileReadInv
<1>2. FileWriteInv
  <2>1. FileBlank \in [1 .. FileLength -> Nat]
    BY DEF FileBlank
  <2>2. fileWriteHead = 0 /\ fileWrbuf = <<>> /\ fileDo = <<>> /\ fileDisk = FileBlank /\ fileWanted = FileBlank
    BY DEF FileInit
  <2>3. FileRest = <<>> /\ FilePending = <<>>
    BY <2>2, FileIdle DEF FileRest, FilePending
  <2>4. FilePut(FileBlank, 0, <<>>) = FileBlank
    <3>1. FilePut(FileBlank, 0, <<>>) = [i \in 1 .. FileLength |-> FileBlank[i]]
      BY <2>1, FileAssumption DEF FilePut
    <3>2. QED
      BY <2>1, <3>1
  <2>5. QED
    BY <2>1, <2>2, <2>3, <2>4 DEF FileWriteInv
<1>3. QED
  BY <1>1, <1>2 DEF FileIInv

\* The two halves of the state do not touch each other.
LEMMA FileHalves ==
  /\ FileWriteInv /\ UNCHANGED fileWriteVars => FileWriteInv'
  /\ FileReadInv /\ UNCHANGED <<fileMode, fileReadVars>> => FileReadInv'
<1>1. ASSUME FileWriteInv, UNCHANGED fileWriteVars PROVE FileWriteInv'
  <2>1. UNCHANGED <<fileWriteHead, fileWrbuf, fileDo, fileDisk, fileWanted>>
    BY <1>1 DEF fileWriteVars
  <2>2. QED
    BY <1>1, <2>1 DEF FileWriteInv, FilePending, FileRest
<1>2. ASSUME FileReadInv, UNCHANGED <<fileMode, fileReadVars>> PROVE FileReadInv'
  <2>1. UNCHANGED <<fileMode, fileHead, fileRdbuf, fileEof, fileRun, fileNext, fileInOrder>>
    BY <1>2 DEF fileReadVars
  <2>2. QED
    BY <1>2, <2>1 DEF FileReadInv, FileNotRunning
<1>3. QED
  BY <1>1, <1>2

LEMMA FileStep == FileIInv /\ [FileNextStep]_fileVars => FileIInv'
<1> SUFFICES ASSUME FileReadInv, FileWriteInv, [FileNextStep]_fileVars PROVE FileReadInv' /\ FileWriteInv'
  BY DEF FileIInv
<1>1. ASSUME NEW mode \in {"in", "out"}, FileOpen(mode) PROVE FileReadInv' /\ FileWriteInv'
  <2>1. UNCHANGED fileReadVars /\ UNCHANGED fileWriteVars /\ fileMode = "none" /\ fileMode' = mode
    BY <1>1 DEF FileOpen
  <2>2. UNCHANGED <<fileHead, fileRdbuf, fileEof, fileRun, fileNext, fileInOrder>>
    BY <2>1 DEF fileReadVars
  <2>3. FileReadInv'
    BY <2>1, <2>2 DEF FileReadInv, FileNotRunning
  <2>4. QED
    BY <2>1, <2>3, FileHalves
<1>2. ASSUME NEW n \in 1 .. FileLength,
             FileReadBuffered(n) \/ FileReadLarge(n) \/ FileReadBatch(n) \/ FileReadExactly(n)
      PROVE  FileReadInv' /\ FileWriteInv'
  <2>1. n \in Nat
    BY FileAssumption
  <2>2. UNCHANGED fileWriteVars
    BY <1>2 DEF FileReadBuffered, FileReadLarge, FileReadBatch, FileReadExactly
  <2>3. QED
    BY <1>2, <2>1, <2>2, FileHalves, FileReadBufferedStep, FileReadLargeStep, FileReadBatchStep, FileReadExactlyStep
<1>3. ASSUME NEW n \in 1 .. FileLength, FileWrite(n) PROVE FileReadInv' /\ FileWriteInv'
  <2>1. UNCHANGED <<fileMode, fileReadVars>>
    BY <1>3 DEF FileWrite
  <2>2. QED
    BY <1>3, <2>1, FileHalves, FileWriteStep
<1>4. ASSUME FileReadAllStart \/ FileReadAllStep PROVE FileReadInv' /\ FileWriteInv'
  <2>1. UNCHANGED fileWriteVars
    BY <1>4 DEF FileReadAllStart, FileReadAllStep
  <2>2. QED
    BY <1>4, <2>1, FileHalves, FileReadAllStartStep, FileReadAllStepStep
<1>5. ASSUME FileDrain \/ FileFlush \/ FileWriteDirect PROVE FileReadInv' /\ FileWriteInv'
  <2>1. UNCHANGED <<fileMode, fileReadVars>>
    BY <1>5 DEF FileDrain, FileFlush, FileWriteDirect
  <2>2. QED
    BY <1>5, <2>1, FileHalves, FileDrainStep, FileFlushStep, FileWriteDirectStep
<1>6. ASSUME NEW head \in 0 .. (FileLength - 1), FileSeekg(head) \/ FileSeekp(head)
      PROVE  FileReadInv' /\ FileWriteInv'
  <2>1. head \in Nat
    OBVIOUS
  <2>2. CASE FileSeekg(head)
    <3>1. UNCHANGED fileWriteVars
      BY <2>2 DEF FileSeekg
    <3>2. QED
      BY <2>1, <2>2, <3>1, FileHalves, FileSeekgStep
  <2>3. CASE FileSeekp(head)
    <3>1. UNCHANGED <<fileMode, fileReadVars>>
      BY <2>3 DEF FileSeekp
    <3>2. QED
      BY <2>1, <2>3, <3>1, FileHalves, FileSeekpStep
  <2>4. QED
    BY <1>6, <2>2, <2>3
<1>7. CASE UNCHANGED fileVars
  BY <1>7, FileHalves DEF fileVars
<1>9. ASSUME FileWriteAstray \/ \E n \in 1 .. FileLength : FileReadAstray(n) PROVE FileReadInv' /\ FileWriteInv'
  <2>1. /\ fileMode' = "astray" /\ UNCHANGED fileReadVars /\ UNCHANGED fileWriteVars
        /\ fileMode # "thrown" \/ FileDirect \/ FileFlushes
    BY <1>9 DEF FileReadAstray, FileWriteAstray, FileIsBatch, FileCanRead
  <2>2. fileMode # "thrown"
    BY <2>1 DEF FileDirect, FileFlushes
  <2>3. UNCHANGED <<fileHead, fileRdbuf, fileEof, fileRun, fileNext, fileInOrder>>
    BY <2>1 DEF fileReadVars
  <2>4. FileReadInv'
    BY <2>1, <2>2, <2>3 DEF FileReadInv, FileNotRunning
  <2>5. QED
    BY <2>1, <2>4, FileHalves
<1>8. QED
  BY <1>1, <1>2, <1>3, <1>4, <1>5, <1>6, <1>7, <1>9, Zenon DEF FileNextStep

(***************************************************************************)
(* For files, batches and rings of every size, every sequence of reads,    *)
(* writes and seeks, and every count the kernel may return, up to where    *)
(* the program goes astray (a ring that grows, or a full one that is       *)
(* written, with its first byte elsewhere than in its first cell;          *)
(* readexactly of less than rdbuf holds): what read returns are the bytes  *)
(* of the file from the read position on, with zeros after them when a     *)
(* batch is short, and what is on the disk together with the write buffer  *)
(* is what was written.  A reader has                                      *)
(* the bytes between the next byte and read_head in rdbuf, or in what      *)
(* read(-1) puts together; a writer has what is to come at write_head in   *)
(* wrbuf, followed by the bytes of the write in progress.                  *)
(***************************************************************************)
THEOREM FileBuffersDoNotShow == FileSpec => []FileBuffersTransparent
<1>1. FileIInv => FileBuffersTransparent
  <2>1. ASSUME FileReadInv PROVE FileReadInOrder
    BY <2>1 DEF FileReadInv, FileReadInOrder
  <2>2. ASSUME FileWriteInv, fileDo = <<>> PROVE fileWanted = FilePut(fileDisk, fileWriteHead, fileWrbuf)
    <3>1. FileRest = <<>>
      BY <2>2, FileCall
    <3>2. QED
      BY <2>2, <3>1, FileIdle, FileWriter
  <2>3. QED
    BY <2>1, <2>2 DEF FileIInv, FileBuffersTransparent, FileWrittenInOrder
<1>2. QED
  BY <1>1, FileInitially, FileStep, PTL DEF FileSpec

-----------------------------------------------------------------------------
(***************************************************************************)
(* The resolver                                                            *)
(***************************************************************************)

\* What a reply is made of.
LEMMA ResReplyFields ==
  ASSUME NEW reply \in ResReplies \union {ResEmptyReply}
  PROVE  /\ \A i \in DOMAIN reply.answers : reply.answers[i] \in ResRecord /\ reply.answers[i].to \notin ResNoAddress
         /\ ResGlue(reply) \in SUBSET [ns : Int, ad : Int, to : STRING]
<1> DEFINE Replies == [aa : BOOLEAN, tc : BOOLEAN, answers : Seq(ResRecord),
                       authorities : Seq(ResRecord), additionals : Seq(ResRecord)]
<1>1. reply \in Replies
  <2>1. ResEmptyReply \in Replies
    BY DEF ResEmptyReply
  <2>2. ResReplies \subseteq Replies
    BY ResAssumption
  <2>3. QED
    BY <2>1, <2>2
<1>2. /\ reply.answers \in Seq(ResRecord) /\ reply.authorities \in Seq(ResRecord)
      /\ reply.additionals \in Seq(ResRecord)
  BY <1>1
<1>3. \A i \in DOMAIN reply.answers : reply.answers[i].to \notin ResNoAddress
  <2>1. CASE reply = ResEmptyReply
    <3>1. reply.answers = <<>>
      BY <2>1 DEF ResEmptyReply
    <3>2. QED
      BY <3>1
  <2>2. CASE reply \in ResReplies
    BY <2>2, ResAssumption
  <2>3. QED
    BY <2>1, <2>2
<1>4. \A i \in DOMAIN reply.answers : reply.answers[i] \in ResRecord
  BY <1>2
<1>5. ASSUME NEW g \in ResGlue(reply) PROVE g \in [ns : Int, ad : Int, to : STRING]
  <2>1. PICK i \in DOMAIN reply.authorities, j \in DOMAIN reply.additionals :
          g = [ns |-> i, ad |-> j, to |-> reply.additionals[j].to]
    BY DEF ResGlue
  <2>2. i \in Int /\ j \in Int /\ reply.additionals[j] \in ResRecord
    BY <1>2
  <2>3. reply.additionals[j].to \in STRING
    BY <2>2 DEF ResRecord
  <2>4. QED
    BY <2>1, <2>2, <2>3
<1>6. QED
  BY <1>3, <1>4, <1>5

\* The names that stand for ResName: it does, and so does what a CNAME leads to.
LEMMA ResAliasFirst ==
  ASSUME NEW reply
  PROVE  ResName \in ResAliases(reply)
BY DEF ResAliases, ResNames

LEMMA ResAliasNext ==
  ASSUME NEW reply, NEW i \in DOMAIN reply.answers, reply.answers[i].type = "CNAME",
         reply.answers[i].name \in ResAliases(reply)
  PROVE  reply.answers[i].to \in ResAliases(reply)
<1>1. i \in ResCnames(reply)
  BY DEF ResCnames
<1>2. reply.answers[i].to \in ResNames(reply)
  BY <1>1 DEF ResNames
<1>3. ASSUME NEW S \in SUBSET ResNames(reply), ResName \in S, ResClosed(reply, S)
      PROVE  reply.answers[i].to \in S
  <2>1. reply.answers[i].name \in S
    BY <1>3 DEF ResAliases
  <2>2. QED
    BY <1>1, <1>3, <2>1 DEF ResClosed
<1>4. QED
  BY <1>2, <1>3 DEF ResAliases

-----------------------------------------------------------------------------
\* The innermost call.
LEMMA ResInnermost ==
  ASSUME ResCalls, resStack # <<>>
  PROVE  /\ Len(resStack) \in Nat \ {0} /\ ResTop = resStack[Len(resStack)] /\ ResTop \in ResFrames
         /\ ResCallOk(ResTop) /\ resResult = "none"
<1>1. resStack \in Seq(ResFrames) /\ resResult = "none"
  BY DEF ResCalls
<1>2. Len(resStack) \in Nat \ {0} /\ Len(resStack) \in 1 .. Len(resStack)
  BY <1>1
<1>3. ResTop = resStack[Len(resStack)]
  BY DEF ResTop, Last
<1>4. ResTop \in ResFrames
  BY <1>1, <1>2, <1>3
<1>5. ResCallOk(ResTop)
  BY <1>2, <1>3 DEF ResCalls
<1>6. QED
  BY <1>1, <1>2, <1>3, <1>4, <1>5

\* The innermost call goes on, with what c says.
LEMMA ResSetTopStep ==
  ASSUME ResIInv, resStack # <<>>, NEW c \in ResFrames, resStack' = ResSetTop(c),
         resResult' = resResult, resAsked' = resAsked, resRoot' = resRoot, resSockets' = {},
         resReferred' = resReferred \union ResServers(c.todo),
         ResTop.todo = {}, ResTop.server \in resAsked, c.server = ResTop.server,
         c.at # "refer" => c.todo = {}, c.at # "answer" => c.name = ResName,
         \A i \in DOMAIN resReply'.answers : resReply'.answers[i] \in ResRecord /\ resReply'.answers[i].to \notin ResNoAddress,
         c.at = "answer" => resReply'.aa /\ c.name \in ResAliases(resReply)'
  PROVE  ResIInv'
<1> DEFINE n == Len(resStack)
           s == resStack'
<1>1. /\ n \in Nat \ {0} /\ ResTop = resStack[n] /\ ResTop \in ResFrames
      /\ ResCallOk(ResTop) /\ resResult = "none" /\ resStack \in Seq(ResFrames)
  BY ResInnermost DEF ResIInv, ResCalls
<1>2. /\ s \in Seq(ResFrames) /\ Len(s) = n /\ s[n] = c
      /\ \A k \in 1 .. n : k # n => s[k] = resStack[k]
  BY <1>1 DEF ResSetTop
<1>3. s # <<>> /\ ResTop' = c
  BY <1>1, <1>2 DEF ResTop, Last
<1>4. ASSUME NEW k \in 1 .. n PROVE ResCallOk(resStack[k])' /\ (k < n => resStack'[k].at = "refer")
  <2>1. CASE k = n
    <3>1. s[k] = c
      BY <1>2, <2>1
    <3>2. /\ c.at # "refer" => c.todo = {}
          /\ c.at # "answer" => c.name = ResName
          /\ c.server \in resAsked' /\ c.server \in ToSet(ResRoots) \union resReferred'
          /\ ResServers(c.todo) \subseteq resReferred'
      BY <1>1 DEF ResCallOk
    <3>3. resStack'[k] = c
      BY <3>1
    <3>4. ResCallOk(resStack[k])'
      BY <3>2, <3>3 DEF ResCallOk
    <3>5. ~(k < n)
      BY <1>1, <2>1
    <3>6. QED
      BY <3>4, <3>5
  <2>2. CASE k # n
    <3>1. s[k] = resStack[k] /\ k < n
      BY <1>1, <1>2, <2>2
    <3>2. ResCallOk(resStack[k]) /\ resStack[k].at = "refer"
      BY <3>1 DEF ResIInv, ResCalls
    <3>3. QED
      BY <3>1, <3>2 DEF ResCallOk, s
  <2>3. QED
    BY <2>1, <2>2
<1> HIDE DEF s
<1>5. ResCalls'
  BY <1>1, <1>2, <1>3, <1>4 DEF ResCalls, s
<1>6. ResLookup'
  BY <1>3 DEF ResLookup
<1>7. ResAllPending'
  <2>1. ASSUME NEW x \in {ResRoots[k] : k \in 1 .. resRoot} \union resReferred, x \notin resAsked PROVE ResPending(x)'
    <3>1. PICK k \in 1 .. n : x = resStack[k].server \/ x \in ResServers(resStack[k].todo)
      BY <1>1, <2>1 DEF ResIInv, ResAllPending, ResPending
    <3>2. k # n
      BY <1>1, <2>1, <3>1 DEF ResServers
    <3>3. s[k] = resStack[k]
      BY <1>2, <3>2
    <3>4. QED
      BY <1>2, <3>1, <3>3 DEF ResPending, s
  <2>2. ASSUME NEW x \in ResServers(c.todo) PROVE ResPending(x)'
    BY <1>1, <1>2 DEF ResPending, s
  <2>3. QED
    BY <1>1, <2>1, <2>2 DEF ResIInv, ResAllPending
<1>8. ResAddressIsAnswer'
  BY <1>1, <1>3 DEF ResIInv, ResAddressIsAnswer, ResNoAddress
<1>9. QED
  BY <1>5, <1>6, <1>7, <1>8 DEF ResIInv

\* The innermost call returns nullopt, having asked its server and all it was referred to.
LEMMA ResPopStep ==
  ASSUME ResIInv, resStack # <<>>, resStack' = Front(resStack), ResTop.todo = {}, ResTop.server \in resAsked,
         ResTop.at \in {"answer", "refer"},
         UNCHANGED <<resResult, resAsked, resRoot, resSockets, resReferred, resReply>>
  PROVE  ResIInv'
<1> DEFINE n == Len(resStack)
           s == resStack'
<1>1. /\ n \in Nat \ {0} /\ ResTop = resStack[n]
      /\ resResult = "none" /\ resStack \in Seq(ResFrames)
  BY ResInnermost DEF ResIInv, ResCalls
<1>2. resSockets = {}
  BY DEF ResIInv, ResCalls
<1>3. s = SubSeq(resStack, 1, n - 1)
  BY DEF Front
<1>4. s \in Seq(ResFrames) /\ Len(s) = n - 1 /\ \A k \in 1 .. n - 1 : s[k] = resStack[k]
  <2>0. n - 1 \in Nat /\ n - 1 <= n
    BY <1>1
  <2>1. PICK m \in Nat : m = n - 1 /\ m <= n
    BY <2>0
  <2>2. SubSeq(resStack, 1, m) \in Seq(ResFrames) /\ Len(SubSeq(resStack, 1, m)) = m
    BY <1>1, <2>1
  <2>3. \A k \in 1 .. m : SubSeq(resStack, 1, m)[k] = resStack[k]
    BY <1>1, <2>1
  <2>4. QED
    BY <1>3, <2>1, <2>2, <2>3
<1> HIDE DEF s
<1>5. ASSUME NEW k \in 1 .. n - 1 PROVE ResCallOk(resStack[k])' /\ resStack'[k].at = "refer" /\ k \in 1 .. n
  <2>1. k \in 1 .. n /\ k < n
    BY <1>1
  <2>2. ResCallOk(resStack[k]) /\ resStack[k].at = "refer"
    BY <2>1 DEF ResIInv, ResCalls
  <2>3. resStack'[k] = resStack[k]
    BY <1>4 DEF s
  <2>4. QED
    BY <2>1, <2>2, <2>3 DEF ResCallOk
<1>6. ASSUME resStack' # <<>> PROVE ResTop'.at = "refer"
  <2>1. Len(s) \in 1 .. n - 1 /\ ResTop' = resStack'[Len(s)]
    BY <1>1, <1>4, <1>6 DEF ResTop, Last, s
  <2>2. QED
    BY <1>5, <2>1
<1>7. ResCalls'
  BY <1>1, <1>2, <1>4, <1>5 DEF ResCalls, s
<1>8. ResLookup'
  BY <1>6 DEF ResIInv, ResLookup
<1>9. ResAllPending'
  <2>1. ASSUME NEW x \in {ResRoots[k] : k \in 1 .. resRoot} \union resReferred, x \notin resAsked PROVE ResPending(x)'
    <3>1. PICK k \in 1 .. n : x = resStack[k].server \/ x \in ResServers(resStack[k].todo)
      BY <1>1, <2>1 DEF ResIInv, ResAllPending, ResPending
    <3>2. k # n
      BY <1>1, <2>1, <3>1 DEF ResServers
    <3>3. k \in 1 .. n - 1
      BY <1>1, <3>2
    <3>4. QED
      BY <1>4, <3>1, <3>3 DEF ResPending, s
  <2>2. QED
    BY <1>1, <2>1 DEF ResIInv, ResAllPending
<1>10. ResAddressIsAnswer'
  BY <1>1, <1>2 DEF ResIInv, ResAddressIsAnswer, ResNoAddress
<1>11. QED
  BY <1>7, <1>8, <1>9, <1>10 DEF ResIInv

\* The next server is asked, by a call within the innermost one.
LEMMA ResPushStep ==
  ASSUME ResIInv, ResFirstOk, resStack # <<>>, ResTop.at = "refer", NEW g \in ResTop.todo,
         resStack' = Append(ResSetTop([ResTop EXCEPT !.todo = @ \ {g}]), ResCall(g.to)),
         UNCHANGED <<resResult, resAsked, resRoot, resSockets, resReferred, resReply>>
  PROVE  ResIInv'
<1> DEFINE n == Len(resStack)
           c == [ResTop EXCEPT !.todo = @ \ {g}]
           d == ResCall(g.to)
           s == resStack'
<1>1. /\ n \in Nat \ {0} /\ ResTop = resStack[n] /\ ResTop \in ResFrames /\ ResCallOk(ResTop)
      /\ resResult = "none" /\ resStack \in Seq(ResFrames)
  BY ResInnermost DEF ResIInv, ResCalls
<1>2. resSockets = {}
  BY DEF ResIInv, ResCalls
<1>3. c \in ResFrames /\ c.at = "refer" /\ c.name = ResTop.name /\ c.server = ResTop.server /\ c.todo = ResTop.todo \ {g}
  BY <1>1 DEF ResFrames
<1>4. g.to \in STRING
  BY <1>1 DEF ResFrames
<1>5. d \in ResFrames /\ d.at \in {"udp", "tcp"} /\ d.name = ResName /\ d.server = g.to /\ d.todo = {}
  BY <1>4, ResAssumption DEF ResCall, ResFrames, ResFirstOk
<1>6. s = Append(ResSetTop(c), d)
  OBVIOUS
<1> HIDE DEF c, d, s
<1>7. /\ ResSetTop(c) \in Seq(ResFrames) /\ Len(ResSetTop(c)) = n /\ ResSetTop(c)[n] = c
      /\ \A k \in 1 .. n : k # n => ResSetTop(c)[k] = resStack[k]
  BY <1>1, <1>3 DEF ResSetTop
<1>8. /\ s \in Seq(ResFrames) /\ Len(s) = n + 1 /\ s[n + 1] = d /\ s[n] = c
      /\ \A k \in 1 .. n : k # n => s[k] = resStack[k]
  <2> DEFINE u == ResSetTop(c)
  <2>1. u \in Seq(ResFrames) /\ Len(u) = n /\ d \in ResFrames /\ n \in Nat /\ n \in 1 .. n /\ s = Append(u, d)
    BY <1>1, <1>5, <1>6, <1>7
  <2>2. u[n] = c /\ \A k \in 1 .. n : k # n => u[k] = resStack[k]
    BY <1>7
  <2> HIDE DEF u
  <2>3. s \in Seq(ResFrames) /\ Len(s) = n + 1 /\ s[n + 1] = d /\ \A k \in 1 .. n : s[k] = u[k]
    BY <2>1
  <2>4. QED
    BY <2>1, <2>2, <2>3
<1>9. g.to \in ResServers(ResTop.todo) /\ ResServers(c.todo) \subseteq ResServers(ResTop.todo)
  BY <1>3 DEF ResServers
<1>10. ASSUME NEW k \in 1 .. n + 1 PROVE ResCallOk(resStack[k])' /\ (k < n + 1 => resStack'[k].at = "refer")
  <2>1. CASE k = n + 1
    <3>1. resStack'[k] = d
      BY <1>8, <2>1 DEF s
    <3>2. g.to \in resReferred /\ ResServers(d.todo) = {}
      BY <1>1, <1>5, <1>9 DEF ResCallOk, ResServers
    <3>3. ResCallOk(resStack[k])'
      BY <1>5, <3>1, <3>2 DEF ResCallOk
    <3>4. ~(k < n + 1)
      BY <1>1, <2>1
    <3>5. QED
      BY <3>3, <3>4
  <2>2. CASE k = n
    <3>1. resStack'[k] = c
      BY <1>8, <2>2 DEF s
    <3>2. QED
      BY <1>1, <1>3, <1>9, <3>1 DEF ResCallOk
  <2>3. CASE k # n /\ k # n + 1
    <3>1. k \in 1 .. n /\ k < n
      BY <1>1, <2>3
    <3>2. resStack'[k] = resStack[k]
      BY <1>8, <3>1, <2>3 DEF s
    <3>3. ResCallOk(resStack[k]) /\ resStack[k].at = "refer"
      BY <3>1 DEF ResIInv, ResCalls
    <3>4. QED
      BY <3>2, <3>3 DEF ResCallOk
  <2>4. QED
    BY <2>1, <2>2, <2>3
<1>11. s # <<>> /\ ResTop' = d
  BY <1>1, <1>8 DEF ResTop, Last, s
<1>12. ResCalls'
  BY <1>1, <1>2, <1>8, <1>10 DEF ResCalls, s
<1>13. ResLookup'
  BY <1>5, <1>11 DEF ResIInv, ResLookup
<1>14. ResAllPending'
  <2>1. ASSUME NEW x \in {ResRoots[k] : k \in 1 .. resRoot} \union resReferred, x \notin resAsked PROVE ResPending(x)'
    <3>1. PICK k \in 1 .. n : x = resStack[k].server \/ x \in ResServers(resStack[k].todo)
      BY <1>1, <2>1 DEF ResIInv, ResAllPending, ResPending
    <3>2. CASE k # n
      <4>1. k \in 1 .. n + 1 /\ s[k] = resStack[k]
        BY <1>1, <1>8, <3>2
      <4>2. QED
        BY <1>8, <3>1, <4>1 DEF ResPending, s
    <3>3. CASE k = n
      <4>1. CASE x = g.to
        <5>1. n + 1 \in 1 .. Len(s) /\ x = s[n + 1].server
          BY <1>1, <1>5, <1>8, <4>1
        <5>2. QED
          BY <5>1 DEF ResPending, s
      <4>2. CASE x # g.to
        <5>1. x = c.server \/ x \in ResServers(c.todo)
          BY <1>1, <1>3, <3>1, <3>3, <4>2 DEF ResServers
        <5>2. n \in 1 .. Len(s) /\ s[n] = c
          BY <1>1, <1>8
        <5>3. QED
          BY <5>1, <5>2 DEF ResPending, s
      <4>3. QED
        BY <4>1, <4>2
    <3>4. QED
      BY <3>2, <3>3
  <2>2. QED
    BY <1>1, <2>1 DEF ResIInv, ResAllPending
<1>15. ResAddressIsAnswer'
  BY <1>1, <1>2 DEF ResIInv, ResAddressIsAnswer, ResNoAddress
<1>16. QED
  BY <1>12, <1>13, <1>14, <1>15 DEF ResIInv

\* A result other than nullopt, or an exception, ends all calls.
LEMMA ResEndStep ==
  ASSUME ResIInv, resStack' = <<>>, resResult' \notin {"none", "nullopt"}, resSockets' = {},
         UNCHANGED <<resAsked, resRoot, resReferred, resReply>>,
         resResult' \in {"thrown", "astray"} \/ (/\ resReply.aa
                                   /\ \E i \in DOMAIN resReply.answers :
                                        LET an == resReply.answers[i] IN
                                        an.type = "A" /\ an.to = resResult' /\ an.name \in ResAliases(resReply))
  PROVE  ResIInv'
<1>1. ResCalls'
  BY DEF ResCalls
<1>2. ResLookup'
  BY DEF ResIInv, ResLookup
<1>3. ResAllPending'
  BY DEF ResIInv, ResAllPending
<1>4. ResAliases(resReply)' = ResAliases(resReply)
  BY DEF ResAliases, ResNames, ResClosed, ResCnames
<1>5. ResAddressIsAnswer'
  BY <1>4 DEF ResIInv, ResAddressIsAnswer, ResNoAddress
<1>6. QED
  BY <1>1, <1>2, <1>3, <1>5 DEF ResIInv

LEMMA ResNextRootStep ==
  ASSUME ResIInv, ResFirstOk, ResNextRoot
  PROVE  ResIInv'
<1> DEFINE c == ResCall(ResRoots[resRoot + 1])
<1>1. /\ resStack = <<>> /\ resResult = "none" /\ resRoot < Len(ResRoots) /\ resStack' = <<c>>
      /\ resRoot' = resRoot + 1 /\ UNCHANGED <<resSockets, resResult, resReply, resAsked, resReferred>>
  BY DEF ResNextRoot
<1>2. resRoot \in Nat /\ resRoot + 1 \in 1 .. Len(ResRoots) /\ resRoot' \in 0 .. Len(ResRoots)
  BY <1>1, ResAssumption DEF ResIInv, ResAllPending
<1>3. ResRoots[resRoot + 1] \in STRING /\ ResRoots[resRoot + 1] \in ToSet(ResRoots)
  BY <1>2, ResAssumption DEF ToSet
<1>4. /\ c \in ResFrames /\ c.at \in {"udp", "tcp"} /\ c.name = ResName /\ c.server = ResRoots[resRoot + 1] /\ c.todo = {}
  BY <1>3, ResAssumption DEF ResCall, ResFrames, ResFirstOk
<1> HIDE DEF c
<1>5. resStack' \in Seq(ResFrames) /\ Len(resStack') = 1 /\ resStack'[1] = c /\ resStack' # <<>>
  BY <1>1, <1>4
<1>6. ResTop' = c /\ resSockets = {}
  BY <1>1, <1>5 DEF ResTop, Last, ResIInv, ResCalls
<1>7. ResCallOk(resStack[1])'
  BY <1>3, <1>4, <1>5 DEF ResCallOk, ResServers
<1>8. ResCalls'
  <2>1. \A k \in 1 .. 1 : k = 1 /\ ~(k < 1)
    OBVIOUS
  <2>2. QED
    BY <1>1, <1>5, <1>6, <1>7, <2>1 DEF ResCalls
<1>9. ResLookup'
  BY <1>1, <1>4, <1>6 DEF ResIInv, ResLookup
<1>10. ResAllPending'
  <2>1. ASSUME NEW x \in {ResRoots[k] : k \in 1 .. resRoot} \union resReferred PROVE x \in resAsked
    BY <1>1, <2>1 DEF ResIInv, ResAllPending, ResPending
  <2>2. ASSUME NEW x, x = ResRoots[resRoot + 1] PROVE ResPending(x)'
    BY <2>2, <1>4, <1>5 DEF ResPending
  <2>3. ASSUME NEW k \in 1 .. resRoot' PROVE k \in 1 .. resRoot \/ k = resRoot + 1
    BY <1>1, <1>2
  <2>4. ASSUME NEW x \in {ResRoots[k] : k \in 1 .. resRoot'} \union resReferred' PROVE x \in resAsked' \/ ResPending(x)'
    <3>1. CASE x \in resReferred
      BY <1>1, <2>1, <3>1
    <3>2. CASE x \in {ResRoots[k] : k \in 1 .. resRoot'}
      <4>1. PICK k \in 1 .. resRoot' : x = ResRoots[k]
        BY <3>2
      <4>2. QED
        BY <1>1, <2>1, <2>2, <2>3, <4>1
    <3>3. QED
      BY <1>1, <2>4, <3>1, <3>2
  <2>5. QED
    BY <1>1, <1>2, <2>4 DEF ResAllPending
<1>11. ResAddressIsAnswer'
  BY <1>1, <1>6 DEF ResIInv, ResAddressIsAnswer, ResNoAddress
<1>12. QED
  BY <1>8, <1>9, <1>10, <1>11 DEF ResIInv

LEMMA ResGiveUpStep ==
  ASSUME ResIInv, ResGiveUp
  PROVE  ResIInv'
<1>1. /\ resStack = <<>> /\ resResult = "none" /\ resRoot = Len(ResRoots) /\ resResult' = "nullopt"
      /\ UNCHANGED <<resRoot, resStack, resSockets, resReply, resAsked, resReferred>>
  BY DEF ResGiveUp
<1>2. ResCalls'
  BY <1>1 DEF ResIInv, ResCalls
<1>3. ResLookup'
  BY <1>1 DEF ResIInv, ResLookup
<1>4. ResAllPending'
  BY <1>1 DEF ResIInv, ResAllPending, ResPending
<1>5. ResAddressIsAnswer'
  BY <1>1 DEF ResIInv, ResAddressIsAnswer, ResNoAddress, ResCalls
<1>6. QED
  BY <1>2, <1>3, <1>4, <1>5 DEF ResIInv

LEMMA ResOpenSocketStep ==
  ASSUME ResIInv, ResOpenSocket
  PROVE  ResIInv'
<1>1. /\ resStack # <<>> /\ ResTop.at \in {"udp", "tcp"} /\ resSockets = {}
      /\ UNCHANGED <<resRoot, resReply, resReferred>>
  BY DEF ResOpenSocket
<1>2. CASE /\ resSockets' = {<<ResTop.at, ResTop.server>>}
           /\ resAsked' = resAsked \union {ResTop.server}
           /\ UNCHANGED <<resStack, resResult>>
  <2>1. /\ ResTop' = ResTop /\ ResTop.server \in ToSet(ResRoots) \union resReferred /\ resResult = "none"
        /\ resStack \in Seq(ResFrames)
    BY <1>1, <1>2, ResInnermost DEF ResIInv, ResTop, Last, ResCallOk, ResCalls
  <2>2. ASSUME NEW k \in 1 .. Len(resStack) PROVE ResCallOk(resStack[k])'
    <3>1. ResCallOk(resStack[k])
      BY DEF ResIInv, ResCalls
    <3>2. QED
      BY <1>1, <1>2, <3>1 DEF ResCallOk
  <2>3. ResCalls'
    BY <1>1, <1>2, <2>1, <2>2 DEF ResIInv, ResCalls
  <2>4. ResLookup'
    BY <1>1, <1>2, <2>1 DEF ResIInv, ResLookup
  <2>5. ResAllPending'
    BY <1>1, <1>2 DEF ResIInv, ResAllPending, ResPending
  <2>6. ResAddressIsAnswer'
    BY <1>1, <1>2, <2>1 DEF ResIInv, ResAddressIsAnswer, ResNoAddress
  <2>7. QED
    BY <2>3, <2>4, <2>5, <2>6 DEF ResIInv
<1>3. CASE resResult' = "thrown" /\ resStack' = <<>> /\ UNCHANGED <<resSockets, resAsked>>
  BY <1>1, <1>3, ResEndStep
<1>4. QED
  BY <1>2, <1>3 DEF ResOpenSocket

\* What query_dns does with a complete reply.
LEMMA ResUseStep ==
  ASSUME ResIInv, resStack # <<>>, ResTop.at \in {"udp", "tcp"}, resSockets # {},
         NEW reply \in ResReplies \union {ResEmptyReply}, ResUse(reply),
         resSockets' = {}, resReply' = reply, UNCHANGED <<resRoot, resAsked>>
  PROVE  ResIInv'
<1>1. /\ ResTop \in ResFrames /\ ResTop.todo = {} /\ ResTop.server \in resAsked
      /\ ResTop.name = ResName
  BY ResInnermost DEF ResIInv, ResCalls, ResCallOk, ResFrames
<1>2. /\ \A i \in DOMAIN resReply'.answers : resReply'.answers[i] \in ResRecord /\ resReply'.answers[i].to \notin ResNoAddress
      /\ ResGlue(reply) \in SUBSET [ns : Int, ad : Int, to : STRING]
  BY ResReplyFields
<1>3. CASE reply.aa
  <2> DEFINE c == [ResTop EXCEPT !.at = "answer"]
  <2>1. resStack' = ResSetTop(c) /\ UNCHANGED <<resResult, resReferred>>
    BY <1>3 DEF ResUse
  <2>2. c \in ResFrames /\ c.server = ResTop.server /\ c.at = "answer" /\ c.todo = {} /\ c.name = ResTop.name
    BY <1>1 DEF ResFrames
  <2>3. ResServers(c.todo) = {}
    BY <2>2 DEF ResServers
  <2>4. c.name = ResName
    BY <1>1, <2>2
  <2> HIDE DEF c
  <2>5. QED
    BY <1>1, <1>2, <1>3, <2>1, <2>2, <2>3, <2>4, ResSetTopStep, ResAliasFirst
<1>4. CASE ~reply.aa
  <2> DEFINE c == [ResTop EXCEPT !.at = "refer", !.todo = ResGlue(reply)]
  <2>1. /\ resStack' = ResSetTop(c) /\ UNCHANGED resResult
        /\ resReferred' = resReferred \union ResServers(ResGlue(reply))
    BY <1>4 DEF ResUse
  <2>2. /\ c \in ResFrames /\ c.server = ResTop.server /\ c.at = "refer" /\ c.todo = ResGlue(reply)
        /\ c.name = ResName
    BY <1>1, <1>2 DEF ResFrames
  <2> HIDE DEF c
  <2>3. QED
    BY <1>1, <1>2, <2>1, <2>2, ResSetTopStep
<1>5. QED
  BY <1>3, <1>4

LEMMA ResRecvUdpStep ==
  ASSUME ResIInv, NEW reply \in ResReplies \union {ResEmptyReply}, ResRecvUdp(reply)
  PROVE  ResIInv'
<1>1. /\ resStack # <<>> /\ ResTop.at = "udp" /\ resSockets # {} /\ resSockets' = {} /\ resReply' = reply
      /\ UNCHANGED <<resRoot, resAsked>>
  BY DEF ResRecvUdp
<1>2. CASE reply.tc
  <2> DEFINE c == [ResTop EXCEPT !.at = "tcp"]
  <2>1. resStack' = ResSetTop(c) /\ UNCHANGED <<resResult, resReferred>>
    BY <1>2 DEF ResRecvUdp
  <2>2. /\ ResTop \in ResFrames /\ ResTop.todo = {} /\ ResTop.server \in resAsked
        /\ ResTop.name = ResName
    BY <1>1, ResInnermost DEF ResIInv, ResCalls, ResCallOk
  <2>3. /\ c \in ResFrames /\ c.server = ResTop.server /\ c.at = "tcp" /\ c.todo = {}
        /\ c.name = ResName
    BY <2>2 DEF ResFrames
  <2>4. ResServers(c.todo) = {}
    BY <2>3 DEF ResServers
  <2> HIDE DEF c
  <2>5. \A i \in DOMAIN reply.answers : reply.answers[i] \in ResRecord /\ reply.answers[i].to \notin ResNoAddress
    BY ResReplyFields
  <2>6. QED
    BY <1>1, <2>1, <2>2, <2>3, <2>4, <2>5, ResSetTopStep
<1>3. CASE ~reply.tc
  <2>1. ResUse(reply)
    BY <1>3 DEF ResRecvUdp
  <2>2. QED
    BY <1>1, <2>1, ResUseStep
<1>4. QED
  BY <1>2, <1>3

LEMMA ResRecvTcpStep ==
  ASSUME ResIInv, NEW reply \in ResReplies \union {ResEmptyReply}, ResRecvTcp(reply)
  PROVE  ResIInv'
<1>1. /\ resStack # <<>> /\ ResTop.at = "tcp" /\ resSockets # {} /\ resSockets' = {} /\ resReply' = reply
      /\ UNCHANGED <<resRoot, resAsked>> /\ ResUse(reply)
  BY DEF ResRecvTcp
<1>2. QED
  BY <1>1, ResUseStep

\* The ends without a result.
LEMMA ResRecvFailsStep ==
  ASSUME ResIInv, ResUdpError \/ ResTcpShort
  PROVE  ResIInv'
BY ResEndStep DEF ResUdpError, ResTcpShort

\* One call of get_from_msg: what it finds belongs to an alias of the name.
LEMMA ResFromMsgStep ==
  ASSUME ResIInv, ResFromMsg
  PROVE  ResIInv'
<1> DEFINE hits == ResHits(ResTop.name)
<1>1. /\ resStack # <<>> /\ ResTop.at = "answer"
      /\ UNCHANGED <<resRoot, resSockets, resReply, resAsked, resReferred>>
  BY DEF ResFromMsg
<1>2. /\ ResTop \in ResFrames /\ ResTop.todo = {} /\ ResTop.server \in resAsked /\ resSockets = {}
  BY <1>1, ResInnermost DEF ResIInv, ResCalls, ResCallOk
<1>3. /\ \A i \in DOMAIN resReply.answers : resReply.answers[i] \in ResRecord /\ resReply.answers[i].to \notin ResNoAddress
      /\ resReply.aa /\ ResTop.name \in ResAliases(resReply)
  BY <1>1 DEF ResIInv, ResLookup
<1>4. CASE hits = {} /\ ResReturn("nullopt")
  <2>1. resStack' = Front(resStack) /\ UNCHANGED resResult
    BY <1>4 DEF ResReturn
  <2>2. QED
    BY <1>1, <1>2, <2>1, ResPopStep
<1>5. ASSUME NEW i \in hits, resReply.answers[i].type = "A", ResReturn(resReply.answers[i].to)
      PROVE  ResIInv'
  <2>1. i \in DOMAIN resReply.answers /\ resReply.answers[i].name = ResTop.name
    BY DEF ResHits
  <2>2. resReply.answers[i].to \notin ResNoAddress
    BY <1>3, <2>1
  <2>3. resStack' = <<>> /\ resResult' = resReply.answers[i].to
    BY <1>5, <2>2 DEF ResReturn, ResNoAddress
  <2>4. resResult' \notin {"none", "nullopt"}
    BY <2>2, <2>3 DEF ResNoAddress
  <2>5. \E j \in DOMAIN resReply.answers :
          LET an == resReply.answers[j] IN an.type = "A" /\ an.to = resResult' /\ an.name \in ResAliases(resReply)
    BY <1>3, <1>5, <2>1, <2>3
  <2>6. QED
    BY <1>1, <1>2, <1>3, <2>3, <2>4, <2>5, ResEndStep
<1>6. ASSUME NEW i \in hits, resReply.answers[i].type = "CNAME", UNCHANGED resResult,
             resStack' = ResSetTop([ResTop EXCEPT !.name = resReply.answers[i].to])
      PROVE  ResIInv'
  <2> DEFINE c == [ResTop EXCEPT !.name = resReply.answers[i].to]
  <2>1. i \in DOMAIN resReply.answers /\ resReply.answers[i].name = ResTop.name
    BY DEF ResHits
  <2>2. resReply.answers[i].to \in STRING
    BY <1>3, <2>1 DEF ResRecord
  <2>3. /\ c \in ResFrames /\ c.server = ResTop.server /\ c.at = "answer" /\ c.todo = {}
        /\ c.name = resReply.answers[i].to
    BY <1>1, <1>2, <2>2 DEF ResFrames
  <2>4. resStack' = ResSetTop(c)
    BY <1>6
  <2> HIDE DEF c
  <2>5. resReply.answers[i].to \in ResAliases(resReply)
    BY <1>3, <1>6, <2>1, ResAliasNext
  <2>6. c.name \in ResAliases(resReply)'
    BY <1>1, <2>3, <2>5 DEF ResAliases, ResNames, ResClosed, ResCnames
  <2>7. ResServers(c.todo) = {}
    BY <2>3 DEF ResServers
  <2>8. QED
    BY <1>1, <1>2, <1>3, <1>6, <2>3, <2>4, <2>6, <2>7, ResSetTopStep
<1>7. QED
  BY <1>4, <1>5, <1>6 DEF ResFromMsg

LEMMA ResReferStep ==
  ASSUME ResIInv, ResFirstOk, ResRefer
  PROVE  ResIInv'
<1>1. /\ resStack # <<>> /\ ResTop.at = "refer"
      /\ UNCHANGED <<resRoot, resSockets, resReply, resAsked, resReferred>>
  BY DEF ResRefer
<1>2. ResTop.server \in resAsked
  BY <1>1, ResInnermost DEF ResIInv, ResCallOk
<1>3. CASE ResTop.todo = {} /\ ResReturn("nullopt")
  <2>1. resStack' = Front(resStack) /\ UNCHANGED resResult
    BY <1>3 DEF ResReturn
  <2>2. QED
    BY <1>1, <1>2, <1>3, <2>1, ResPopStep
<1>4. ASSUME NEW g \in ResTop.todo, UNCHANGED resResult,
             resStack' = Append(ResSetTop([ResTop EXCEPT !.todo = @ \ {g}]), ResCall(g.to))
      PROVE  ResIInv'
  BY <1>1, <1>4, ResPushStep
<1>5. QED
  BY <1>3, <1>4 DEF ResRefer

LEMMA ResInitInv == ResInit => ResIInv /\ ResFirstOk
<1> SUFFICES ASSUME ResInit PROVE ResIInv
  BY DEF ResInit, ResFirstOk
<1>1. ResCalls
  BY DEF ResInit, ResCalls
<1>2. ResLookup
  BY DEF ResInit, ResLookup, ResEmptyReply
<1>3. ResAllPending
  BY ResAssumption DEF ResInit, ResAllPending
<1>4. ResAddressIsAnswer
  BY DEF ResInit, ResAddressIsAnswer, ResNoAddress
<1>5. QED
  BY <1>1, <1>2, <1>3, <1>4 DEF ResIInv

LEMMA ResStutter == ResIInv /\ UNCHANGED resVars => ResIInv'
<1> SUFFICES ASSUME ResIInv, UNCHANGED resVars PROVE ResIInv'
  OBVIOUS
<1>1. ResCalls'
  BY DEF ResIInv, resVars, ResCalls, ResTop, ResCallOk
<1>2. ResLookup'
  BY DEF ResIInv, resVars, ResLookup, ResTop, ResAliases, ResNames, ResClosed, ResCnames
<1>3. ResAllPending'
  BY DEF ResIInv, resVars, ResAllPending, ResPending
<1>4. ResAddressIsAnswer'
  <2>1. ResAliases(resReply)' = ResAliases(resReply) /\ ResTop' = ResTop
    BY DEF resVars, ResTop, ResAliases, ResNames, ResClosed, ResCnames
  <2>2. QED
    BY <2>1 DEF ResIInv, resVars, ResAddressIsAnswer
<1>5. QED
  BY <1>1, <1>2, <1>3, <1>4 DEF ResIInv

LEMMA ResStepInv == ResIInv /\ ResFirstOk /\ [ResNext]_resVars => ResIInv' /\ ResFirstOk'
<1>1. ResFirstOk /\ [ResNext]_resVars => ResFirstOk'
  BY DEF ResFirstOk, ResNext, resVars
<1>2. QED
  BY <1>1, ResNextRootStep, ResGiveUpStep, ResOpenSocketStep, ResFromMsgStep, ResReferStep, ResRecvUdpStep,
     ResRecvTcpStep, ResRecvFailsStep, ResStutter DEF ResNext

\* When all calls have ended without an address nobody is left to ask.
LEMMA ResInvJustified == ResIInv => ResResultJustified
<1> SUFFICES ASSUME ResIInv, resResult = "nullopt" PROVE ToSet(ResRoots) \union resReferred \subseteq resAsked
  BY DEF ResIInv, ResResultJustified, ResNulloptMeansAllAsked
<1>1. resRoot = Len(ResRoots) /\ resStack = <<>>
  BY DEF ResIInv, ResAllPending
<1>2. \A x : ~ResPending(x)
  BY <1>1 DEF ResPending
<1>3. ToSet(ResRoots) = {ResRoots[k] : k \in 1 .. resRoot}
  BY <1>1, ResAssumption DEF ToSet
<1>4. QED
  BY <1>2, <1>3 DEF ResIInv, ResAllPending

(* resolve returns an address only from an authoritative reply, of a       *)
(* server reached from the roots, about the name or an alias of it; it     *)
(* returns nullopt only when all servers that were named have been asked;  *)
(* and it leaves no socket open (query_dns, get_from_msg): whatever the    *)
(* servers reply, and however deep the referrals go.  A recv that fails    *)
(* ends all calls with neither (ResUdpError, ResTcpShort).                 *)
THEOREM ResResultIsJustified == ResSpec => []ResResultJustified
<1>1. ResIInv => ResResultJustified
  BY ResInvJustified
<1>2. QED
  BY ResInitInv, ResStepInv, <1>1, PTL DEF ResSpec

-----------------------------------------------------------------------------
(***************************************************************************)
(* The HTTP client                                                         *)
(***************************************************************************)

\* The sequences of bytes: joining them is associative, and a read takes a front part.
LEMMA CliAssociative ==
  ASSUME NEW s \in Seq(CliBytes), NEW t \in Seq(CliBytes), NEW u \in Seq(CliBytes)
  PROVE  (s \o t) \o u = s \o (t \o u)
BY ConcatAssociative, SMT

LEMMA CliJoin ==
  ASSUME NEW s \in Seq(CliBytes), NEW t \in Seq(CliBytes), NEW u \in Seq(CliBytes)
  PROVE  /\ s \o (t \o u) \in Seq(CliBytes) /\ (s \o t) \o u = s \o (t \o u)
         /\ Len(s \o (t \o u)) = Len(s) + Len(t) + Len(u)
         /\ Len(s) \in Nat /\ Len(t) \in Nat /\ Len(u) \in Nat
         /\ <<>> \o s = s /\ <<>> \in Seq(CliBytes)
<1>1. s \o t \in Seq(CliBytes) /\ t \o u \in Seq(CliBytes)
  OBVIOUS
<1>2. (s \o t) \o u = s \o (t \o u)
  BY CliAssociative
<1>3. QED
  BY <1>1, <1>2

LEMMA CliCut ==
  ASSUME NEW t \in Seq(CliBytes), NEW n \in 1 .. Len(t)
  PROVE  /\ SubSeq(t, 1, n) \in Seq(CliBytes) /\ SubSeq(t, n + 1, Len(t)) \in Seq(CliBytes)
         /\ Len(SubSeq(t, 1, n)) = n /\ Len(SubSeq(t, n + 1, Len(t))) = Len(t) - n
         /\ SubSeq(t, 1, n)[n] = t[n]
         /\ SubSeq(t, 1, n) \o SubSeq(t, n + 1, Len(t)) = t
<1>1. /\ SubSeq(t, 1, n) \in Seq(CliBytes) /\ Len(SubSeq(t, 1, n)) = n
      /\ \A i \in 1 .. n : SubSeq(t, 1, n)[i] = t[i]
  OBVIOUS
<1>2. /\ SubSeq(t, n + 1, Len(t)) \in Seq(CliBytes) /\ Len(SubSeq(t, n + 1, Len(t))) = Len(t) - n
      /\ \A i \in 1 .. Len(t) - n : SubSeq(t, n + 1, Len(t))[i] = t[i + n]
  OBVIOUS
<1>3. SubSeq(t, 1, n) \o SubSeq(t, n + 1, Len(t)) = t
  BY <1>1, <1>2
<1>4. SubSeq(t, 1, n)[n] = t[n]
  <2>1. n \in 1 .. n
    OBVIOUS
  <2>2. QED
    BY <1>1, <2>1
<1>5. QED
  BY <1>1, <1>2, <1>3, <1>4

LEMMA CliThenSeq ==
  ASSUME NEW x \in CliBytes, NEW rest \in Seq(CliBytes)
  PROVE  /\ CliThen(x, rest) \in Seq(CliBytes) /\ Len(CliThen(x, rest)) = Len(rest) + 1 /\ Len(rest) \in Nat
         /\ CliThen(x, rest)[1] = x /\ Tail(CliThen(x, rest)) = rest
         /\ \A i \in 1 .. Len(rest) : CliThen(x, rest)[i + 1] = rest[i]
<1>1. <<x>> \in Seq(CliBytes) /\ Len(<<x>>) = 1 /\ <<x>>[1] = x
  OBVIOUS
<1>2. /\ <<x>> \o rest \in Seq(CliBytes) /\ Len(<<x>> \o rest) = Len(rest) + 1 /\ Len(rest) \in Nat
      /\ (<<x>> \o rest)[1] = x
  BY <1>1
<1>3. \A i \in 1 .. Len(rest) : (<<x>> \o rest)[i + 1] = rest[i]
  BY <1>1
<1>4. Tail(<<x>> \o rest) = rest
  BY <1>2, <1>3
<1>5. QED
  BY <1>2, <1>3, <1>4 DEF CliThen

LEMMA CliThenLen ==
  ASSUME NEW x \in CliBytes, NEW rest \in Seq(CliBytes)
  PROVE  /\ CliThen(x, rest) \in Seq(CliBytes) /\ Len(CliThen(x, rest)) = Len(rest) + 1
         /\ Len(rest) \in Nat /\ Len(CliThen(x, rest)) \in Nat
BY CliThenSeq

LEMMA CliEmpty ==
  ASSUME NEW b \in Seq(CliBytes), Len(b) = 0
  PROVE  b = <<>>
OBVIOUS

LEMMA CliTail ==
  ASSUME NEW b \in Seq(CliBytes), b # <<>>
  PROVE  /\ Len(b) \in Nat /\ Len(b) > 0 /\ Len(Tail(b)) = Len(b) - 1 /\ Len(Tail(b)) \in Nat
         /\ Tail(b) \in Seq(CliBytes) /\ \A i \in 1 .. Len(b) - 1 : Tail(b)[i] = b[i + 1]
OBVIOUS

\* Taking the first byte of the buffer takes the first byte of what is to come.
CliBegins(b, z, x, rest) == b # <<>> /\ b \o z = CliThen(x, rest)
LEMMA CliTakes ==
  ASSUME NEW x \in CliBytes, NEW rest \in Seq(CliBytes), NEW b \in Seq(CliBytes), NEW z \in Seq(CliBytes),
         CliBegins(b, z, x, rest)
  PROVE  b[1] = x /\ Tail(b) \in Seq(CliBytes) /\ Tail(b) \o z = rest
<1>1. /\ Len(b) \in Nat /\ Len(b) > 0 /\ Tail(b) \in Seq(CliBytes)
      /\ Len(Tail(b)) = Len(b) - 1 /\ Len(Tail(b)) \in Nat
      /\ \A i \in 1 .. Len(b) - 1 : Tail(b)[i] = b[i + 1]
  BY CliTail DEF CliBegins
<1>2. Len(b \o z) = Len(b) + Len(z) /\ (b \o z)[1] = b[1] /\ Len(z) \in Nat
  BY <1>1
<1>3. Tail(b) \o z = Tail(b \o z)
  BY <1>1, <1>2
<1>4. CliThen(x, rest)[1] = x /\ Tail(CliThen(x, rest)) = rest
  BY CliThenSeq
<1>5. QED
  BY <1>1, <1>2, <1>3, <1>4 DEF CliBegins

-----------------------------------------------------------------------------
\* The digits and the bytes.
LEMMA CliDigitFacts ==
  /\ DOMAIN CliDigits = {"0", "1", "2", "3", "4", "5", "6", "7", "8", "9"}
  /\ CliDigits["0"] = 0 /\ CliDigits["1"] = 1
  /\ "." \notin DOMAIN CliDigits /\ " " \notin DOMAIN CliDigits
  /\ \A d \in DOMAIN CliDigits : CliDigits[d] \in Nat
<1>1. {CliDigitSeq[n] : n \in 1 .. 10} = {"0", "1", "2", "3", "4", "5", "6", "7", "8", "9"}
  <2>1. \A n \in 1 .. 10 : n = 1 \/ n = 2 \/ n = 3 \/ n = 4 \/ n = 5 \/ n = 6 \/ n = 7 \/ n = 8 \/ n = 9 \/ n = 10
    OBVIOUS
  <2>2. /\ CliDigitSeq[1] = "0" /\ CliDigitSeq[2] = "1" /\ CliDigitSeq[3] = "2" /\ CliDigitSeq[4] = "3"
        /\ CliDigitSeq[5] = "4" /\ CliDigitSeq[6] = "5" /\ CliDigitSeq[7] = "6" /\ CliDigitSeq[8] = "7"
        /\ CliDigitSeq[9] = "8" /\ CliDigitSeq[10] = "9"
    BY DEF CliDigitSeq
  <2>3. QED
    BY <2>1, <2>2
<1>2. \A d \in {"0", "1", "2", "3", "4", "5", "6", "7", "8", "9"} :
          \E n \in 0 .. 9 : CliDigitSeq[n + 1] = d
  BY DEF CliDigitSeq
<1>3. \A n \in 0 .. 9 : (CliDigitSeq[n + 1] = "0" => n = 0) /\ (CliDigitSeq[n + 1] = "1" => n = 1)
  BY DEF CliDigitSeq
<1>4. /\ (CHOOSE n \in 0 .. 9 : CliDigitSeq[n + 1] = "0") = 0
      /\ (CHOOSE n \in 0 .. 9 : CliDigitSeq[n + 1] = "1") = 1
  BY <1>2, <1>3
<1>5. \A d \in {"0", "1", "2", "3", "4", "5", "6", "7", "8", "9"} :
          (CHOOSE n \in 0 .. 9 : CliDigitSeq[n + 1] = d) \in 0 .. 9
  BY <1>2
<1>6. CliDigits = [d \in {"0", "1", "2", "3", "4", "5", "6", "7", "8", "9"} |->
                     CHOOSE n \in 0 .. 9 : CliDigitSeq[n + 1] = d]
  BY <1>1 DEF CliDigits
<1>7. \A d \in DOMAIN CliDigits : CliDigits[d] \in 0 .. 9
  BY <1>5, <1>6
<1>8. DOMAIN CliDigits = {"0", "1", "2", "3", "4", "5", "6", "7", "8", "9"}
  BY <1>6
<1>9. CliDigits["0"] = 0 /\ CliDigits["1"] = 1
  BY <1>4, <1>6
<1>10. "." \notin DOMAIN CliDigits /\ " " \notin DOMAIN CliDigits
  BY <1>8
<1>11. QED
  BY <1>7, <1>8, <1>9, <1>10

LEMMA CliByteFacts ==
  /\ "HTTP/" \in CliBytes /\ "." \in CliBytes /\ " " \in CliBytes /\ "info" \in CliBytes /\ ":" \in CliBytes
  /\ "CR" \in CliBytes /\ "LF" \in CliBytes /\ "0" \in CliBytes /\ "1" \in CliBytes
  /\ \A d \in DOMAIN CliDigits : d \in CliBytes
BY CliDigitFacts DEF CliBytes

\* What a response is.
LEMMA CliResponse ==
  ASSUME NEW r \in CliResponses
  PROVE  /\ r.code \in [1 .. 3 -> DOMAIN CliDigits] /\ r.headers \in Seq(CliHeader) /\ r.body \in Seq(CliBytes)
         /\ Len(r.headers) \in Nat /\ Len(r.body) \in Nat
<1>1. r \in [code : [1 .. 3 -> DOMAIN CliDigits], headers : Seq(CliHeader), body : Seq(CliBytes)]
  BY CliAssumption
<1>2. r.code \in [1 .. 3 -> DOMAIN CliDigits] /\ r.headers \in Seq(CliHeader) /\ r.body \in Seq(CliBytes)
  BY <1>1
<1>3. QED
  BY <1>2

LEMMA CliHeaderFacts ==
  ASSUME NEW h \in CliHeader
  PROVE  /\ h.key \in CliBytes /\ h.line \in CliBytes /\ h.folded \in CliBytes
         /\ h.key \notin {"CR", "LF", ":", " "} /\ h.line \notin {"CR", "LF"} /\ h.folded \notin {"CR", "LF"}
<1>1. h.key \in CliValues \ {":", " "} /\ h.line \in CliValues /\ h.folded \in CliValues
  BY DEF CliHeader
<1>2. QED
  BY <1>1 DEF CliValues, CliBytes

\* The parts of a response.
LEMMA CliLineSeq ==
  ASSUME NEW rest \in Seq(CliBytes)
  PROVE  /\ CliLine(rest) \in Seq(CliBytes) /\ Len(CliLine(rest)) = Len(rest) + 2 /\ Len(rest) \in Nat
         /\ CliThen("LF", rest) \in Seq(CliBytes)
<1>1. CliThen("LF", rest) \in Seq(CliBytes) /\ Len(CliThen("LF", rest)) = Len(rest) + 1 /\ Len(rest) \in Nat
  BY CliThenLen, CliByteFacts
<1>2. /\ CliThen("CR", CliThen("LF", rest)) \in Seq(CliBytes)
      /\ Len(CliThen("CR", CliThen("LF", rest))) = Len(CliThen("LF", rest)) + 1
  BY <1>1, CliThenLen, CliByteFacts
<1>3. QED
  BY <1>1, <1>2 DEF CliLine

LEMMA CliFieldSeq ==
  ASSUME NEW h \in CliHeader, NEW rest \in Seq(CliBytes)
  PROVE  /\ CliThen(h.folded, CliLine(rest)) \in Seq(CliBytes)
         /\ CliFolded(h, rest) \in Seq(CliBytes) /\ Len(CliFolded(h, rest)) >= Len(rest)
         /\ CliText(h, rest) \in Seq(CliBytes)
         /\ CliThen(":", CliText(h, rest)) \in Seq(CliBytes)
         /\ CliField(h, rest) \in Seq(CliBytes) /\ Len(CliField(h, rest)) >= Len(rest)
<1>1. h.key \in CliBytes /\ h.line \in CliBytes /\ h.folded \in CliBytes /\ " " \in CliBytes /\ ":" \in CliBytes
  BY CliHeaderFacts, CliByteFacts
<1>2. CliLine(rest) \in Seq(CliBytes) /\ Len(CliLine(rest)) = Len(rest) + 2 /\ Len(rest) \in Nat
  BY CliLineSeq
<1> DEFINE a == CliThen(h.folded, CliLine(rest))
           b == CliThen(" ", a)
           m == CliFolded(h, rest)
           t == CliText(h, rest)
           c == CliThen(":", t)
<1>3. a \in Seq(CliBytes) /\ Len(a) >= Len(rest) /\ Len(a) \in Nat
  <2>1. /\ CliThen(h.folded, CliLine(rest)) \in Seq(CliBytes)
        /\ Len(CliThen(h.folded, CliLine(rest))) = Len(CliLine(rest)) + 1 /\ Len(CliLine(rest)) \in Nat
    BY <1>1, <1>2, CliThenLen
  <2>2. QED
    BY <1>2, <2>1
<1> HIDE DEF a
<1>4. b \in Seq(CliBytes) /\ Len(b) = Len(a) + 1
  BY <1>1, <1>3, CliThenLen
<1>5. m \in Seq(CliBytes) /\ Len(m) >= Len(rest) /\ Len(m) \in Nat
  <2>1. m = IF h.folded = "" THEN rest ELSE b
    BY DEF CliFolded, a
  <2> HIDE DEF b, m
  <2>2. Len(b) >= Len(rest) /\ Len(b) \in Nat
    BY <1>2, <1>3, <1>4
  <2>3. CASE h.folded = ""
    <3>1. m = rest
      BY <2>1, <2>3
    <3>2. Len(rest) >= Len(rest)
      BY <1>2
    <3>3. QED
      BY <1>2, <3>1, <3>2
  <2>4. CASE h.folded # ""
    BY <1>4, <2>1, <2>2, <2>4
  <2>5. QED
    BY <2>3, <2>4
<1> HIDE DEF m
<1>6. t \in Seq(CliBytes) /\ Len(t) = Len(CliLine(m)) + 1 /\ Len(CliLine(m)) = Len(m) + 2
  <2>1. CliLine(m) \in Seq(CliBytes) /\ Len(CliLine(m)) = Len(m) + 2
    BY <1>5, CliLineSeq
  <2>2. t = CliThen(h.line, CliLine(m))
    BY DEF CliText, m
  <2>3. QED
    BY <1>1, <2>1, <2>2, CliThenLen
<1> HIDE DEF t
<1>7. c \in Seq(CliBytes) /\ Len(c) = Len(t) + 1
  BY <1>1, <1>6, CliThenLen
<1>8. CliField(h, rest) = CliThen(h.key, c)
  BY DEF CliField, t
<1> HIDE DEF c
<1>9. CliField(h, rest) \in Seq(CliBytes) /\ Len(CliField(h, rest)) = Len(c) + 1
  <2>1. CliThen(h.key, c) \in Seq(CliBytes) /\ Len(CliThen(h.key, c)) = Len(c) + 1
    BY <1>1, <1>7, CliThenLen
  <2>2. QED
    BY <1>8, <2>1
<1>10. Len(CliField(h, rest)) >= Len(rest)
  BY <1>2, <1>5, <1>6, <1>7, <1>9
<1>11. QED
  BY <1>3, <1>5, <1>6, <1>7, <1>9, <1>10 DEF a, m, t, c


\* CliSends is what its recursive definition says it is: by induction there is such a function.
CliSendsTo(r, m, s) ==
    /\ s \in [0 .. m -> Seq(CliBytes)]
    /\ \A k \in 0 .. m : s[k] = IF k = 0 THEN CliLine(r.body)
                                ELSE CliField(r.headers[Len(r.headers) + 1 - k], s[k - 1])
LEMMA CliSendsExist ==
  ASSUME NEW r \in CliResponses, NEW m \in Nat, m <= Len(r.headers)
  PROVE  \E s : CliSendsTo(r, m, s)
<1> DEFINE n == Len(r.headers)
           T == {m1 \in Nat : m1 <= n => \E s : CliSendsTo(r, m1, s)}
<1>0. n \in Nat /\ r.headers \in Seq(CliHeader) /\ CliLine(r.body) \in Seq(CliBytes)
  BY CliResponse, CliLineSeq
<1>1. 0 \in T
  <2> DEFINE s == [k \in 0 .. 0 |-> CliLine(r.body)]
  <2>1. CliSendsTo(r, 0, s)
    BY <1>0 DEF CliSendsTo
  <2>2. QED
    BY <2>1
<1>2. ASSUME NEW m1 \in Nat, m1 \in T PROVE m1 + 1 \in T
  <2> SUFFICES ASSUME m1 + 1 <= n PROVE \E s : CliSendsTo(r, m1 + 1, s)
    OBVIOUS
  <2>1. PICK s : CliSendsTo(r, m1, s)
    BY <1>0, <1>2
  <2> DEFINE f == CliField(r.headers[n + 1 - (m1 + 1)], s[m1])
             u == [k \in 0 .. m1 + 1 |-> IF k = m1 + 1 THEN f ELSE s[k]]
  <2>2. s[m1] \in Seq(CliBytes) /\ r.headers[n + 1 - (m1 + 1)] \in CliHeader
    BY <1>0, <2>1 DEF CliSendsTo
  <2>3. f \in Seq(CliBytes)
    BY <2>2, CliFieldSeq
  <2> HIDE DEF f
  <2>4. u \in [0 .. m1 + 1 -> Seq(CliBytes)]
    BY <2>1, <2>3 DEF CliSendsTo
  <2>5. ASSUME NEW k \in 0 .. m1 + 1
        PROVE  u[k] = IF k = 0 THEN CliLine(r.body) ELSE CliField(r.headers[n + 1 - k], u[k - 1])
    <3>1. CASE k = m1 + 1
      <4>1. u[k] = f /\ u[k - 1] = s[m1] /\ k # 0 /\ n + 1 - k = n + 1 - (m1 + 1)
        BY <3>1
      <4>2. QED
        BY <4>1 DEF f
    <3>2. CASE k # m1 + 1
      <4>1. k \in 0 .. m1 /\ u[k] = s[k] /\ (k # 0 => k - 1 \in 0 .. m1 /\ u[k - 1] = s[k - 1])
        BY <3>2
      <4>2. QED
        BY <2>1, <4>1 DEF CliSendsTo
    <3>3. QED
      BY <3>1, <3>2
  <2> HIDE DEF u
  <2>6. QED
    BY <2>4, <2>5 DEF CliSendsTo
<1> HIDE DEF T
<1>3. Nat \subseteq T
  BY <1>1, <1>2, NatSetInduction
<1>4. QED
  BY <1>3 DEF T

LEMMA CliSendsUnfold ==
  ASSUME NEW r \in CliResponses
  PROVE  CliSends(r) = [k \in 0 .. Len(r.headers) |->
                          IF k = 0 THEN CliLine(r.body)
                          ELSE CliField(r.headers[Len(r.headers) + 1 - k], CliSends(r)[k - 1])]
<1> DEFINE n == Len(r.headers)
           D(s) == s = [k \in 0 .. n |-> IF k = 0 THEN CliLine(r.body) ELSE CliField(r.headers[n + 1 - k], s[k - 1])]
<1>1. PICK s : CliSendsTo(r, n, s)
  BY CliSendsExist, CliResponse
<1>2. D(s)
  BY <1>1 DEF CliSendsTo
<1>3. CliSends(r) = CHOOSE f : D(f)
  BY DEF CliSends
<1>4. D(CliSends(r))
  BY <1>2, <1>3
<1>5. QED
  BY <1>4

\* What is sent from a header on, and that it is longer than the body.
LEMMA CliSendsAll ==
  ASSUME NEW r \in CliResponses, NEW m \in 0 .. Len(r.headers)
  PROVE  CliSends(r)[m] \in Seq(CliBytes) /\ Len(CliSends(r)[m]) > Len(r.body)
<1> DEFINE n == Len(r.headers)
           T == {k \in Nat : k <= n => CliSends(r)[k] \in Seq(CliBytes) /\ Len(CliSends(r)[k]) > Len(r.body)}
<1>0. n \in Nat /\ r.headers \in Seq(CliHeader) /\ r.body \in Seq(CliBytes) /\ Len(r.body) \in Nat
  BY CliResponse
<1>1. 0 \in T
  <2>1. CliSends(r)[0] = CliLine(r.body)
    BY <1>0, CliSendsUnfold
  <2>2. CliLine(r.body) \in Seq(CliBytes) /\ Len(CliLine(r.body)) = Len(r.body) + 2
    BY <1>0, CliLineSeq
  <2>3. QED
    BY <1>0, <2>1, <2>2
<1>2. ASSUME NEW k \in Nat, k \in T PROVE k + 1 \in T
  <2> SUFFICES ASSUME k + 1 <= n
               PROVE  CliSends(r)[k + 1] \in Seq(CliBytes) /\ Len(CliSends(r)[k + 1]) > Len(r.body)
    OBVIOUS
  <2>1. CliSends(r)[k] \in Seq(CliBytes) /\ Len(CliSends(r)[k]) > Len(r.body)
    BY <1>0, <1>2
  <2>2. CliSends(r)[k + 1] = CliField(r.headers[n + 1 - (k + 1)], CliSends(r)[k])
    <3>1. k + 1 \in 0 .. n /\ k + 1 # 0 /\ (k + 1) - 1 = k
      BY <1>0
    <3>2. QED
      BY <3>1, CliSendsUnfold
  <2>3. r.headers[n + 1 - (k + 1)] \in CliHeader
    BY <1>0
  <2>4. /\ CliSends(r)[k + 1] \in Seq(CliBytes)
        /\ Len(CliSends(r)[k + 1]) >= Len(CliSends(r)[k])
    BY <2>1, <2>2, <2>3, CliFieldSeq
  <2>5. Len(CliSends(r)[k + 1]) \in Nat /\ Len(CliSends(r)[k]) \in Nat
    BY <2>1, <2>4
  <2>6. QED
    BY <1>0, <2>1, <2>4, <2>5
<1> HIDE DEF T
<1>3. Nat \subseteq T
  BY <1>1, <1>2, NatSetInduction
<1>4. QED
  BY <1>0, <1>3 DEF T

LEMMA CliSendsHeader ==
  ASSUME NEW r \in CliResponses, NEW k \in 1 .. Len(r.headers)
  PROVE  /\ k - 1 \in 0 .. Len(r.headers) /\ k \in 0 .. Len(r.headers)
         /\ Len(r.headers) + 1 - k \in 1 .. Len(r.headers)
         /\ r.headers[Len(r.headers) + 1 - k] \in CliHeader
         /\ CliSends(r)[k] = CliField(r.headers[Len(r.headers) + 1 - k], CliSends(r)[k - 1])
<1>1. Len(r.headers) \in Nat /\ r.headers \in Seq(CliHeader)
  BY CliResponse
<1>2. k \in 0 .. Len(r.headers) /\ k # 0 /\ k - 1 \in 0 .. Len(r.headers)
  BY <1>1
<1>3. Len(r.headers) + 1 - k \in 1 .. Len(r.headers)
  BY <1>1
<1>4. r.headers[Len(r.headers) + 1 - k] \in CliHeader
  BY <1>1, <1>3
<1>5. CliSends(r)[k] = CliField(r.headers[Len(r.headers) + 1 - k], CliSends(r)[k - 1])
  BY <1>2, CliSendsUnfold
<1>6. QED
  BY <1>2, <1>3, <1>4, <1>5

LEMMA CliSendsLast ==
  ASSUME NEW r \in CliResponses
  PROVE  CliSends(r)[0] = CliLine(r.body)
BY CliSendsUnfold, CliResponse


-----------------------------------------------------------------------------
\* The status line.
LEMMA CliStatusSeq ==
  ASSUME NEW r \in CliResponses
  PROVE  /\ CliInfoLine(r) \in Seq(CliBytes) /\ CliThen(" ", CliInfoLine(r)) \in Seq(CliBytes)
         /\ CliThen(r.code[3], CliThen(" ", CliInfoLine(r))) \in Seq(CliBytes)
         /\ CliThen(r.code[2], CliThen(r.code[3], CliThen(" ", CliInfoLine(r)))) \in Seq(CliBytes)
         /\ CliCode(r) \in Seq(CliBytes) /\ CliThen(" ", CliCode(r)) \in Seq(CliBytes)
         /\ CliThen("0", CliThen(" ", CliCode(r))) \in Seq(CliBytes)
         /\ CliThen(".", CliThen("0", CliThen(" ", CliCode(r)))) \in Seq(CliBytes)
         /\ CliVersion(r) \in Seq(CliBytes) /\ CliEncode(r) \in Seq(CliBytes)
         /\ \A i \in 1 .. 3 : r.code[i] \in DOMAIN CliDigits /\ r.code[i] \in CliBytes /\ CliDigits[r.code[i]] \in Nat
<1>1. \A i \in 1 .. 3 : r.code[i] \in DOMAIN CliDigits
  BY CliResponse
<1>2. \A i \in 1 .. 3 : r.code[i] \in CliBytes /\ CliDigits[r.code[i]] \in Nat
  BY <1>1, CliByteFacts, CliDigitFacts
<1>3. r.code[1] \in CliBytes /\ r.code[2] \in CliBytes /\ r.code[3] \in CliBytes
  BY <1>2
<1>4. ASSUME NEW x \in CliBytes, NEW rest \in Seq(CliBytes) PROVE CliThen(x, rest) \in Seq(CliBytes)
  BY CliThenLen
<1>5. CliLine(CliSends(r)[Len(r.headers)]) \in Seq(CliBytes)
  <2>1. Len(r.headers) \in 0 .. Len(r.headers)
    BY CliResponse
  <2>2. QED
    BY <2>1, CliSendsAll, CliLineSeq
<1>6. CliInfoLine(r) \in Seq(CliBytes)
  BY <1>4, <1>5, CliByteFacts DEF CliInfoLine
<1>7. CliThen(" ", CliInfoLine(r)) \in Seq(CliBytes)
  BY <1>4, <1>6, CliByteFacts
<1>8. CliThen(r.code[3], CliThen(" ", CliInfoLine(r))) \in Seq(CliBytes)
  BY <1>3, <1>4, <1>7
<1>9. CliThen(r.code[2], CliThen(r.code[3], CliThen(" ", CliInfoLine(r)))) \in Seq(CliBytes)
  BY <1>3, <1>4, <1>8
<1>10. CliCode(r) \in Seq(CliBytes)
  BY <1>3, <1>4, <1>9 DEF CliCode
<1>11. CliThen(" ", CliCode(r)) \in Seq(CliBytes)
  BY <1>4, <1>10, CliByteFacts
<1>12. CliThen("0", CliThen(" ", CliCode(r))) \in Seq(CliBytes)
  BY <1>4, <1>11, CliByteFacts
<1>13. CliThen(".", CliThen("0", CliThen(" ", CliCode(r)))) \in Seq(CliBytes)
  BY <1>4, <1>12, CliByteFacts
<1>14. CliVersion(r) \in Seq(CliBytes)
  BY <1>4, <1>13, CliByteFacts DEF CliVersion
<1>15. CliEncode(r) \in Seq(CliBytes)
  BY <1>4, <1>14, CliByteFacts DEF CliEncode
<1>16. QED
  BY <1>1, <1>2, <1>6, <1>7, <1>8, <1>9, <1>10, <1>11, <1>12, <1>13, <1>14, <1>15

\* What is to come, as a sequence behind the buffer.
LEMMA CliLeftParts ==
  ASSUME NEW r \in CliResponses, CliGood(r)
  PROVE  /\ cliBuf \in Seq(CliBytes) /\ cliNet \in Seq(CliBytes) /\ cliLost \in Seq(CliBytes)
         /\ cliNet \o cliLost \in Seq(CliBytes) /\ Len(cliNet \o cliLost) = Len(cliNet) + Len(cliLost)
         /\ CliLeft = cliBuf \o (cliNet \o cliLost)
         /\ CliLeft \in Seq(CliBytes) /\ Len(CliLeft) = Len(cliBuf) + Len(cliNet) + Len(cliLost)
         /\ Len(cliBuf) \in Nat /\ Len(cliNet) \in Nat /\ Len(cliLost) \in Nat /\ Len(r.body) \in Nat
<1>1. cliBuf \in Seq(CliBytes) /\ cliNet \in Seq(CliBytes) /\ cliLost \in Seq(CliBytes)
  BY DEF CliGood
<1>2. /\ cliBuf \o (cliNet \o cliLost) \in Seq(CliBytes)
      /\ Len(cliBuf \o (cliNet \o cliLost)) = Len(cliBuf) + Len(cliNet) + Len(cliLost)
      /\ Len(cliBuf) \in Nat /\ Len(cliNet) \in Nat /\ Len(cliLost) \in Nat
  BY <1>1, CliJoin
<1>3. cliNet \o cliLost \in Seq(CliBytes) /\ Len(cliNet \o cliLost) = Len(cliNet) + Len(cliLost)
  BY <1>1
<1>4. QED
  BY <1>1, <1>2, <1>3, CliResponse DEF CliLeft

\* A byte is taken.
LEMMA CliTake ==
  ASSUME NEW r \in CliResponses, CliGood(r), NEW x \in CliBytes, NEW rest \in Seq(CliBytes),
         CliLeft = CliThen(x, rest), cliBuf # <<>>
  PROVE  /\ CliFirst = x
         /\ cliBuf' = Tail(cliBuf) /\ CliKeepOthers => CliGood(r)' /\ CliLeft' = rest
<1> DEFINE z == cliNet \o cliLost
<1>1. cliBuf \in Seq(CliBytes) /\ z \in Seq(CliBytes) /\ CliBegins(cliBuf, z, x, rest)
  BY CliLeftParts DEF CliBegins
<1> HIDE DEF z
<1>2. cliBuf[1] = x /\ Tail(cliBuf) \in Seq(CliBytes) /\ Tail(cliBuf) \o z = rest
  BY <1>1, CliTakes
<1>3. ASSUME cliBuf' = Tail(cliBuf), CliKeepOthers PROVE CliGood(r)' /\ CliLeft' = rest
  <2>1. /\ cliAnswer' = cliAnswer /\ cliNet' = cliNet /\ cliLost' = cliLost
    BY <1>3 DEF CliKeepOthers
  <2>2. CliLeft' = rest
    BY <1>2, <1>3, <2>1 DEF CliLeft, z
  <2>3. Tail(cliBuf) # <<>> => Tail(cliBuf)[Len(Tail(cliBuf))] = cliBuf[Len(cliBuf)]
    <3>1. Tail(cliBuf) # <<>> => Len(Tail(cliBuf)) # 0
      BY <1>2
    <3>2. QED
      BY <1>1, <3>1, CliTail
  <2>4. CliGood(r)'
    BY <1>2, <1>3, <2>1, <2>3 DEF CliGood
  <2>5. QED
    BY <2>2, <2>4
<1>4. QED
  BY <1>2, <1>3 DEF CliFirst

\* A line end of the head is in the buffer, and so is the byte behind it.
CliWholeLine(b, z, rest, n) ==
    /\ b # <<>> /\ b \o z = CliLine(rest) /\ Len(rest) > n
    /\ Len(z) > n => b[Len(b)] \notin {"CR", "LF"}
LEMMA CliLineWhole ==
  ASSUME NEW b \in Seq(CliBytes), NEW z \in Seq(CliBytes), NEW rest \in Seq(CliBytes), NEW n \in Nat,
         CliWholeLine(b, z, rest, n)
  PROVE  /\ Len(b) \in Nat /\ Len(b) > 2 /\ b[1] = "CR" /\ b[2] = "LF" /\ b[3] = rest[1]
         /\ SubSeq(b, 3, Len(b)) \in Seq(CliBytes) /\ SubSeq(b, 3, Len(b)) # <<>>
         /\ SubSeq(b, 3, Len(b)) \o z = rest
         /\ SubSeq(b, 3, Len(b))[Len(SubSeq(b, 3, Len(b)))] = b[Len(b)]
<1> DEFINE l == CliThen("LF", rest)
           t == Tail(b)
           u == SubSeq(b, 3, Len(b))
<1>1. b # <<>> /\ CliBegins(b, z, "CR", l)
  BY DEF CliWholeLine, CliLine, CliBegins
<1>2. l \in Seq(CliBytes)
  BY CliLineSeq
<1>3. Len(b) + Len(z) = Len(rest) + 2 /\ Len(rest) \in Nat /\ Len(z) \in Nat /\ Len(b) \in Nat
  <2>1. Len(b \o z) = Len(b) + Len(z) /\ Len(z) \in Nat /\ Len(b) \in Nat
    OBVIOUS
  <2>2. Len(CliLine(rest)) = Len(rest) + 2 /\ Len(rest) \in Nat
    BY CliLineSeq
  <2>3. QED
    BY <2>1, <2>2 DEF CliWholeLine
<1>4. (Len(z) > n => b[Len(b)] \notin {"CR", "LF"}) /\ Len(rest) > n
  BY DEF CliWholeLine
<1> HIDE DEF l
<1>5. b[1] = "CR" /\ t \in Seq(CliBytes) /\ t \o z = l
  BY <1>1, <1>2, CliTakes, CliByteFacts
<1>6. Len(b) > 0 /\ Len(t) = Len(b) - 1 /\ Len(t) \in Nat /\ \A i \in 1 .. Len(b) - 1 : t[i] = b[i + 1]
  BY <1>1, CliTail
<1>7. Len(b) # 1
  <2>1. SUFFICES ASSUME Len(b) = 1 PROVE FALSE
    OBVIOUS
  <2>2. b[Len(b)] = "CR"
    BY <1>5, <2>1
  <2>3. Len(z) > n
    BY <1>3, <1>4, <2>1
  <2>4. QED
    BY <1>4, <2>2, <2>3
<1> HIDE DEF t
<1>8. t # <<>>
  <2>1. Len(t) # 0
    BY <1>3, <1>6, <1>7
  <2>2. QED
    BY <1>5, <2>1
<1>9. t[1] = b[2]
  <2>1. 1 \in 1 .. Len(b) - 1
    BY <1>3, <1>6, <1>7
  <2>2. QED
    BY <1>6, <2>1
<1>10. t[1] = "LF" /\ Tail(t) \in Seq(CliBytes) /\ Tail(t) \o z = rest
  <2>1. CliBegins(t, z, "LF", rest)
    BY <1>5, <1>8 DEF l, CliBegins
  <2>2. QED
    BY <1>5, <2>1, CliTakes, CliByteFacts
<1>11. Len(b) # 2
  <2>1. SUFFICES ASSUME Len(b) = 2 PROVE FALSE
    OBVIOUS
  <2>2. b[Len(b)] = "LF"
    BY <1>9, <1>10, <2>1
  <2>3. Len(z) > n
    BY <1>3, <1>4, <2>1
  <2>4. QED
    BY <1>4, <2>2, <2>3
<1>12. Len(b) > 2
  BY <1>3, <1>6, <1>7, <1>11
<1>13. u \in Seq(CliBytes) /\ Len(u) = Len(b) - 2 /\ u[Len(u)] = b[Len(b)] /\ u[1] = b[3] /\ u # <<>>
  <2>1. /\ u \in Seq(CliBytes) /\ Len(u) = Len(b) - 2
        /\ \A i \in 1 .. Len(b) - 2 : u[i] = b[i + 2]
    BY <1>3, <1>12
  <2> HIDE DEF u
  <2>2. 1 \in 1 .. Len(b) - 2 /\ Len(b) - 2 \in 1 .. Len(b) - 2 /\ Len(b) - 2 # 0
    <3>1. \A m \in Nat : m > 2 => 1 \in 1 .. m - 2 /\ m - 2 \in 1 .. m - 2 /\ m - 2 # 0
      OBVIOUS
    <3>2. QED
      BY <1>3, <1>12, <3>1
  <2>3. u[1] = b[3] /\ u[Len(u)] = b[Len(b)]
    BY <1>3, <2>1, <2>2
  <2>4. QED
    BY <2>1, <2>2, <2>3
<1>14. u = Tail(t)
  BY <1>3, <1>12, <1>13, SMTT(30) DEF t
<1> HIDE DEF u
<1>15. u[1] = rest[1]
  <2>1. (u \o z)[1] = u[1]
    BY <1>3, <1>12, <1>13
  <2>2. QED
    BY <1>10, <1>14, <2>1
<1>16. QED
  BY <1>3, <1>5, <1>9, <1>10, <1>12, <1>13, <1>14, <1>15 DEF u

LEMMA CliEolThere ==
  ASSUME NEW r \in CliResponses, CliGood(r), NEW rest \in Seq(CliBytes), Len(rest) > Len(r.body),
         CliLeft = CliLine(rest), cliBuf # <<>>
  PROVE  /\ CliAtEol /\ CliPeek(2) = rest[1] /\ CliPeek(0) = "CR"
         /\ cliBuf' = SubSeq(cliBuf, 3, Len(cliBuf)) /\ CliKeepOthers =>
              CliGood(r)' /\ CliLeft' = rest /\ cliBuf' # <<>>
<1> DEFINE z == cliNet \o cliLost
           u == SubSeq(cliBuf, 3, Len(cliBuf))
<1>1. cliBuf \in Seq(CliBytes) /\ z \in Seq(CliBytes) /\ cliBuf \o z = CliLeft /\ Len(r.body) \in Nat
  BY CliLeftParts
<1>2. Len(z) = Len(cliNet) + Len(cliLost)
  BY CliLeftParts
<1>3. Len(z) > Len(r.body) => cliBuf[Len(cliBuf)] \notin {"CR", "LF"}
  BY <1>2 DEF CliGood
<1> HIDE DEF z
<1>4. CliWholeLine(cliBuf, z, rest, Len(r.body))
  BY <1>1, <1>3 DEF CliWholeLine
<1>5. Len(cliBuf) \in Nat /\ Len(cliBuf) > 2 /\ cliBuf[1] = "CR" /\ cliBuf[2] = "LF" /\ cliBuf[3] = rest[1]
  BY <1>1, <1>4, CliLineWhole
<1>6. u \in Seq(CliBytes) /\ u # <<>> /\ u \o z = rest /\ u[Len(u)] = cliBuf[Len(cliBuf)]
  BY <1>1, <1>4, CliLineWhole
<1>7. CliAtEol /\ CliPeek(2) = rest[1] /\ CliPeek(0) = "CR"
  BY <1>5 DEF CliAtEol, CliPeek, CliFirst
<1> HIDE DEF u
<1>8. ASSUME cliBuf' = u, CliKeepOthers PROVE CliGood(r)' /\ CliLeft' = rest /\ cliBuf' # <<>>
  <2>1. /\ cliAnswer' = cliAnswer /\ cliNet' = cliNet /\ cliLost' = cliLost
    BY <1>8 DEF CliKeepOthers
  <2>2. CliLeft' = rest
    BY <1>6, <1>8, <2>1 DEF CliLeft, z
  <2>3. CliGood(r)'
    BY <1>6, <1>8, <2>1 DEF CliGood
  <2>4. QED
    BY <1>6, <1>8, <2>2, <2>3
<1>9. QED
  BY <1>7, <1>8 DEF u

\* The blank line is in the buffer; what is behind it may not be.
CliBlankLine(b, z, rest, n) ==
    /\ b # <<>> /\ b \o z = CliLine(rest) /\ Len(rest) = n
    /\ Len(z) > n => b[Len(b)] \notin {"CR", "LF"}
LEMMA CliBlankWhole ==
  ASSUME NEW b \in Seq(CliBytes), NEW z \in Seq(CliBytes), NEW rest \in Seq(CliBytes), NEW n \in Nat,
         CliBlankLine(b, z, rest, n)
  PROVE  /\ Len(b) \in Nat /\ Len(b) >= 2 /\ b[1] = "CR"
         /\ SubSeq(b, 3, Len(b)) \in Seq(CliBytes) /\ SubSeq(b, 3, Len(b)) \o z = rest
         /\ SubSeq(b, 3, Len(b)) # <<>> => SubSeq(b, 3, Len(b))[Len(SubSeq(b, 3, Len(b)))] = b[Len(b)]
<1> DEFINE l == CliThen("LF", rest)
           t == Tail(b)
           u == SubSeq(b, 3, Len(b))
<1>1. b # <<>> /\ CliBegins(b, z, "CR", l)
  BY DEF CliBlankLine, CliLine, CliBegins
<1>2. l \in Seq(CliBytes)
  BY CliLineSeq
<1>3. Len(b) + Len(z) = Len(rest) + 2 /\ Len(rest) \in Nat /\ Len(z) \in Nat /\ Len(b) \in Nat
  <2>1. Len(b \o z) = Len(b) + Len(z) /\ Len(z) \in Nat /\ Len(b) \in Nat
    OBVIOUS
  <2>2. Len(CliLine(rest)) = Len(rest) + 2 /\ Len(rest) \in Nat
    BY CliLineSeq
  <2>3. QED
    BY <2>1, <2>2 DEF CliBlankLine
<1>4. (Len(z) > n => b[Len(b)] \notin {"CR", "LF"}) /\ Len(rest) = n
  BY DEF CliBlankLine
<1> HIDE DEF l
<1>5. b[1] = "CR" /\ t \in Seq(CliBytes) /\ t \o z = l
  BY <1>1, <1>2, CliTakes, CliByteFacts
<1>6. Len(b) > 0 /\ Len(t) = Len(b) - 1 /\ Len(t) \in Nat /\ \A i \in 1 .. Len(b) - 1 : t[i] = b[i + 1]
  BY <1>1, CliTail
<1>7. Len(b) # 1
  <2>1. SUFFICES ASSUME Len(b) = 1 PROVE FALSE
    OBVIOUS
  <2>2. b[Len(b)] = "CR"
    BY <1>5, <2>1
  <2>3. Len(z) > n
    BY <1>3, <1>4, <2>1
  <2>4. QED
    BY <1>4, <2>2, <2>3
<1>8. Len(b) >= 2
  <2>1. \A m \in Nat : m > 0 /\ m # 1 => m >= 2
    OBVIOUS
  <2>2. QED
    BY <1>3, <1>6, <1>7, <2>1
<1> HIDE DEF t
<1>9. t # <<>>
  <2>1. Len(t) # 0
    BY <1>3, <1>6, <1>7
  <2>2. QED
    BY <1>5, <2>1
<1>10. t[1] = "LF" /\ Tail(t) \in Seq(CliBytes) /\ Tail(t) \o z = rest
  <2>1. CliBegins(t, z, "LF", rest)
    BY <1>5, <1>9 DEF l, CliBegins
  <2>2. QED
    BY <1>5, <2>1, CliTakes, CliByteFacts
<1>11. CASE Len(b) = 2
  <2>1. u = <<>>
    BY <1>11, SubSeqEmpty
  <2>2. Tail(t) = <<>>
    <3>1. Len(t) = 1
      BY <1>6, <1>11
    <3>2. Len(Tail(t)) = 0
      BY <1>5, <1>9, <3>1, CliTail
    <3>3. QED
      BY <1>10, <3>2, CliEmpty
  <2>3. QED
    BY <1>3, <1>5, <1>8, <1>10, <2>1, <2>2
<1>12. CASE Len(b) > 2
  <2>1. /\ u \in Seq(CliBytes) /\ Len(u) = Len(b) - 2
        /\ \A i \in 1 .. Len(b) - 2 : u[i] = b[i + 2]
    BY <1>3, <1>12
  <2>2. u = Tail(t)
    BY <1>3, <1>12, <2>1 DEF t
  <2> HIDE DEF u
  <2>3. Len(b) - 2 \in 1 .. Len(b) - 2
    <3>1. \A m \in Nat : m > 2 => m - 2 \in 1 .. m - 2
      OBVIOUS
    <3>2. QED
      BY <1>3, <1>12, <3>1
  <2>4. u[Len(u)] = b[Len(b)]
    BY <1>3, <2>1, <2>3
  <2>5. QED
    BY <1>3, <1>5, <1>8, <1>10, <2>1, <2>2, <2>4 DEF u
<1>13. Len(b) = 2 \/ Len(b) > 2
  <2>1. \A m \in Nat : m >= 2 => m = 2 \/ m > 2
    OBVIOUS
  <2>2. QED
    BY <1>3, <1>8, <2>1
<1>14. QED
  BY <1>11, <1>12, <1>13

LEMMA CliBlankThere ==
  ASSUME NEW r \in CliResponses, CliGood(r), CliLeft = CliLine(r.body), cliBuf # <<>>
  PROVE  /\ CliPeek(0) = "CR" /\ ~(Len(cliBuf) < 2)
         /\ cliBuf' = SubSeq(cliBuf, 3, Len(cliBuf)) /\ CliKeepOthers => CliGood(r)' /\ CliLeft' = r.body
<1> DEFINE z == cliNet \o cliLost
           u == SubSeq(cliBuf, 3, Len(cliBuf))
<1>1. cliBuf \in Seq(CliBytes) /\ z \in Seq(CliBytes) /\ cliBuf \o z = CliLeft /\ Len(r.body) \in Nat
  BY CliLeftParts
<1>2. Len(z) = Len(cliNet) + Len(cliLost) /\ r.body \in Seq(CliBytes)
  BY CliLeftParts, CliResponse
<1>3. Len(z) > Len(r.body) => cliBuf[Len(cliBuf)] \notin {"CR", "LF"}
  BY <1>2 DEF CliGood
<1> HIDE DEF z
<1>4. CliBlankLine(cliBuf, z, r.body, Len(r.body))
  BY <1>1, <1>3 DEF CliBlankLine
<1>5. Len(cliBuf) \in Nat /\ Len(cliBuf) >= 2 /\ cliBuf[1] = "CR"
  BY <1>1, <1>2, <1>4, CliBlankWhole
<1>6. u \in Seq(CliBytes) /\ u \o z = r.body /\ (u # <<>> => u[Len(u)] = cliBuf[Len(cliBuf)])
  BY <1>1, <1>2, <1>4, CliBlankWhole
<1>7. CliPeek(0) = "CR" /\ ~(Len(cliBuf) < 2)
  BY <1>5 DEF CliPeek
<1> HIDE DEF u
<1>8. ASSUME cliBuf' = u, CliKeepOthers PROVE CliGood(r)' /\ CliLeft' = r.body
  <2>1. /\ cliAnswer' = cliAnswer /\ cliNet' = cliNet /\ cliLost' = cliLost
    BY <1>8 DEF CliKeepOthers
  <2>2. CliLeft' = r.body
    BY <1>6, <1>8, <2>1 DEF CliLeft, z
  <2>3. CliGood(r)'
    BY <1>6, <1>8, <2>1 DEF CliGood
  <2>4. QED
    BY <2>2, <2>3
<1>9. QED
  BY <1>7, <1>8 DEF u

\* A refill moves what is to come, and leaves it as it is.
LEMMA CliRefilled ==
  ASSUME NEW r \in CliResponses, CliGood(r), CliRefill, ~cliSplit', cliPc' # "astray"
  PROVE  CliGood(r)' /\ CliLeft' = CliLeft /\ UNCHANGED cliLocals
<1>1. /\ cliBuf \in Seq(CliBytes) /\ cliNet \in Seq(CliBytes) /\ cliLost \in Seq(CliBytes)
      /\ Len(cliBuf) \in Nat /\ Len(cliNet) \in Nat /\ Len(cliLost) \in Nat /\ Len(r.body) \in Nat
  BY CliLeftParts
<1>2. UNCHANGED cliLocals /\ cliAnswer' = cliAnswer /\ cliAnswer = r
  BY DEF CliRefill, CliGood
<1>3. CASE \E n \in 1 .. Len(cliNet) :
             /\ cliBuf' = cliBuf \o SubSeq(cliNet, 1, n)
             /\ cliNet' = SubSeq(cliNet, n + 1, Len(cliNet))
             /\ cliSplit' = (cliSplit \/ (cliNet[n] \in {"CR", "LF"} /\ Len(cliNet) - n > Len(cliAnswer.body)))
             /\ UNCHANGED cliLost
  <2>1. PICK n \in 1 .. Len(cliNet) :
             /\ cliBuf' = cliBuf \o SubSeq(cliNet, 1, n)
             /\ cliNet' = SubSeq(cliNet, n + 1, Len(cliNet))
             /\ cliSplit' = (cliSplit \/ (cliNet[n] \in {"CR", "LF"} /\ Len(cliNet) - n > Len(cliAnswer.body)))
             /\ UNCHANGED cliLost
    BY <1>3
  <2> DEFINE p == SubSeq(cliNet, 1, n)
             q == SubSeq(cliNet, n + 1, Len(cliNet))
  <2>2. p \in Seq(CliBytes) /\ q \in Seq(CliBytes) /\ p \o q = cliNet
    BY <1>1, CliCut
  <2>3. Len(p) = n /\ Len(q) = Len(cliNet) - n /\ p[n] = cliNet[n]
    BY <1>1, CliCut
  <2> HIDE DEF p, q
  <2>4. cliBuf' = cliBuf \o p /\ cliNet' = q /\ cliLost' = cliLost
    BY <2>1 DEF p, q
  <2>5. (cliBuf \o p) \o (q \o cliLost) = cliBuf \o (cliNet \o cliLost)
    <3> DEFINE w == q \o cliLost
    <3>1. w \in Seq(CliBytes)
      BY <1>1, <2>2
    <3>2. (p \o q) \o cliLost = p \o w
      <4>1. p \in Seq(CliBytes) /\ q \in Seq(CliBytes) /\ cliLost \in Seq(CliBytes)
        BY <1>1, <2>2
      <4>2. QED
        BY <4>1, CliAssociative
    <3> HIDE DEF w
    <3>3. (cliBuf \o p) \o w = cliBuf \o (p \o w)
      <4>1. cliBuf \in Seq(CliBytes) /\ p \in Seq(CliBytes)
        BY <1>1, <2>2
      <4>2. QED
        BY <3>1, <4>1, CliAssociative
    <3>4. QED
      BY <2>2, <3>2, <3>3 DEF w
  <2>6. cliLost = <<>> /\ Len(cliLost) = 0
    <3>1. cliNet # <<>>
      BY <1>1
    <3>2. QED
      BY <3>1 DEF CliGood
  <2>7. Len(q) + Len(cliLost) > Len(r.body) => cliNet[n] \notin {"CR", "LF"}
    <3>1. ~(cliNet[n] \in {"CR", "LF"} /\ Len(cliNet) - n > Len(r.body))
      BY <1>2, <2>1
    <3>2. Len(q) + Len(cliLost) = Len(cliNet) - n
      BY <1>1, <2>3, <2>6
    <3>3. QED
      BY <3>1, <3>2
  <2>8. cliBuf \o p \in Seq(CliBytes) /\ (cliBuf \o p)[Len(cliBuf \o p)] = cliNet[n]
    BY <1>1, <2>2, <2>3
  <2>9. CliGood(r)'
    BY <1>1, <1>2, <2>2, <2>4, <2>6, <2>7, <2>8 DEF CliGood
  <2>10. QED
    BY <1>2, <2>4, <2>5, <2>9 DEF CliLeft
<1>4. CASE cliLost' = cliNet \o cliLost /\ cliNet' = <<>> /\ cliBuf' = cliBuf
  <2>1. /\ cliNet \o cliLost \in Seq(CliBytes) /\ Len(cliNet \o cliLost) = Len(cliNet) + Len(cliLost)
        /\ <<>> \o (cliNet \o cliLost) = cliNet \o cliLost /\ <<>> \in Seq(CliBytes) /\ Len(<<>>) = 0
    BY <1>1
  <2>2. CliLeft' = CliLeft
    BY <1>4, <2>1 DEF CliLeft
  <2>3. Len(cliNet') + Len(cliLost') = Len(cliNet) + Len(cliLost)
    BY <1>1, <1>4, <2>1
  <2>4. CliGood(r)'
    BY <1>1, <1>2, <1>4, <2>1, <2>3 DEF CliGood
  <2>5. QED
    BY <1>2, <2>2, <2>4
<1>5. QED
  BY <1>3, <1>4 DEF CliRefill

\* The answer is put together field by field.
LEMMA CliSoField ==
  ASSUME NEW major, NEW code, NEW info, NEW body, CliSo(major, code, info, body)
  PROVE  /\ cliResp.major = major /\ cliResp.minor = 0 /\ cliResp.code = code
         /\ cliResp.info = info /\ cliResp.body = body
         /\ cliResp' = cliResp => CliSo(major, code, info, body)' /\ cliResp'.headers = cliResp.headers
         /\ \A v : cliResp' = [cliResp EXCEPT !["major"] = v]
              => CliSo(v, code, info, body)' /\ cliResp'.headers = cliResp.headers
         /\ cliResp' = [cliResp EXCEPT !["minor"] = 0]
              => CliSo(major, code, info, body)' /\ cliResp'.headers = cliResp.headers
         /\ \A v : cliResp' = [cliResp EXCEPT !["code"] = v]
              => CliSo(major, v, info, body)' /\ cliResp'.headers = cliResp.headers
         /\ \A v : cliResp' = [cliResp EXCEPT !["info"] = v]
              => CliSo(major, code, v, body)' /\ cliResp'.headers = cliResp.headers
         /\ \A v : cliResp' = [cliResp EXCEPT !["body"] = v]
              => CliSo(major, code, info, v)' /\ cliResp'.headers = cliResp.headers
         /\ \A v : cliResp' = [cliResp EXCEPT !["headers"] = v]
              => CliSo(major, code, info, body)' /\ cliResp'.headers = v
BY DEF CliSo

LEMMA CliSoCode ==
  ASSUME NEW major, NEW code, NEW info, NEW body, CliSo(major, code, info, body),
         NEW v, cliResp' = [cliResp EXCEPT !["code"] = v]
  PROVE  CliSo(major, v, info, body)' /\ cliResp'.headers = cliResp.headers
BY CliSoField

-----------------------------------------------------------------------------
\* What may run where make_request is.
LEMMA CliActs ==
  ASSUME CliNext, cliPc' # "astray"
  PROVE  /\ cliPc = "request" => CliRequest
         /\ cliPc = "HTTP/" => CliRefill \/ CliExpect("HTTP/", "major")
         /\ cliPc = "major" => CliRefill \/ CliNumber("major", -1, ".")
         /\ cliPc = "." => CliRefill \/ CliExpect(".", "minor")
         /\ cliPc = "minor" => CliRefill \/ CliNumber("minor", -1, "space1")
         /\ cliPc = "space1" => CliRefill \/ CliSpace("space1", "code")
         /\ cliPc = "code" => CliRefill \/ CliNumber("code", 3, "space2")
         /\ cliPc = "space2" => CliRefill \/ CliSpace("space2", "info")
         /\ cliPc = "info" => CliRefill \/ CliInfo
         /\ cliPc = "headers" => CliHeaders
         /\ cliPc = "refill" => CliRefill
         /\ cliPc = "key" => CliRefill \/ CliReadKey
         /\ cliPc \in {"value", "fold"} => CliRefill \/ CliReadValue
         /\ cliPc = "blank" => CliBlank
         /\ cliPc = "body" => CliRefill
         /\ cliPc = "take" => CliBody
         /\ cliPc \notin {"returned", "nullopt", "escaped", "astray"}
BY DEF CliNext, CliAstray, CliRequest, CliRefill, CliChecked, CliExpect, CliNumber, CliSpace, CliByte, CliInfo, CliHeaders,
       CliReadKey, CliReadValue, CliBlank, CliBody

LEMMA CliRefillAt ==
  ASSUME CliRefill, cliPc' # "astray"
  PROVE  /\ cliPc \in CliChecked => cliPc' = cliPc \/ cliPc' = "nullopt"
         /\ cliPc = "refill" => cliPc' = "key"
         /\ cliPc = "body" => cliPc' = "take"
<1>1. "refill" \notin CliChecked /\ "body" \notin CliChecked
  BY DEF CliChecked
<1>2. QED
  BY <1>1 DEF CliRefill

\* A buffer that is left alone.
LEMMA CliStay ==
  ASSUME NEW r \in CliResponses, CliGood(r), CliKeepOthers, cliBuf' = cliBuf
  PROVE  CliGood(r)' /\ CliLeft' = CliLeft
BY DEF CliGood, CliLeft, CliKeepOthers

\* The status line: a refill, a byte, a byte that is left.
LEMMA CliStRefill ==
  ASSUME NEW r \in CliResponses, CliGood(r), CliRefill, ~cliSplit', cliPc' # "astray",
         NEW pc \in CliChecked, NEW left, NEW count, NEW word, NEW major, NEW code,
         CliSt(r, pc, left, count, word, major, code)
  PROVE  CliGood(r)' /\ (CliSt(r, pc, left, count, word, major, code)' \/ cliPc' \in {"nullopt", "escaped"})
<1>1. CliGood(r)' /\ CliLeft' = CliLeft /\ UNCHANGED cliLocals
  BY CliRefilled
<1>2. cliPc' = pc \/ cliPc' = "nullopt"
  BY CliRefillAt DEF CliSt, CliAt
<1>3. cliResp' = cliResp /\ cliCount' = cliCount /\ cliWord' = cliWord /\ cliKey' = cliKey
  BY <1>1 DEF cliLocals
<1>4. CASE cliPc' = pc
  <2>1. CliAt(r, pc, left, count, word, <<>>, Len(r.headers))'
    BY <1>1, <1>3, <1>4 DEF CliSt, CliAt
  <2>2. CliSo(major, code, <<>>, <<>>)'
    BY <1>3 DEF CliSt, CliSo
  <2>3. QED
    BY <1>1, <2>1, <2>2 DEF CliSt
<1>5. QED
  BY <1>1, <1>2, <1>4

CliGoes(pc, count, word, major, code) ==
    /\ cliPc' = pc /\ cliCount' = count /\ cliWord' = word /\ cliKey' = cliKey
    /\ CliSo(major, code, <<>>, <<>>)' /\ cliResp'.headers = cliResp.headers
LEMMA CliStTake ==
  ASSUME NEW r \in CliResponses, CliGood(r), NEW x \in CliBytes, NEW rest \in Seq(CliBytes),
         NEW pc, NEW count, NEW word, NEW major, NEW code,
         CliSt(r, pc, CliThen(x, rest), count, word, major, code), cliBuf # <<>>,
         NEW pc2, NEW count2, NEW word2, NEW major2, NEW code2
  PROVE  /\ CliFirst = x
         /\ cliBuf' = Tail(cliBuf) /\ CliKeepOthers /\ CliGoes(pc2, count2, word2, major2, code2)
             => CliGood(r)' /\ CliSt(r, pc2, rest, count2, word2, major2, code2)'
         /\ cliBuf' = cliBuf /\ CliKeepOthers /\ CliGoes(pc2, count2, word2, major2, code2)
             => CliGood(r)' /\ CliSt(r, pc2, CliThen(x, rest), count2, word2, major2, code2)'
<1>1. CliLeft = CliThen(x, rest)
  BY DEF CliSt, CliAt
<1>2. CliFirst = x /\ (cliBuf' = Tail(cliBuf) /\ CliKeepOthers => CliGood(r)' /\ CliLeft' = rest)
  BY <1>1, CliTake
<1>3. cliBuf' = cliBuf /\ CliKeepOthers => CliGood(r)' /\ CliLeft' = CliThen(x, rest)
  BY <1>1, CliStay
<1>4. ASSUME CliGoes(pc2, count2, word2, major2, code2), NEW left, CliLeft' = left
      PROVE  CliSt(r, pc2, left, count2, word2, major2, code2)'
  <2>1. CliAt(r, pc2, left, count2, word2, <<>>, Len(r.headers))'
    BY <1>4 DEF CliGoes, CliSt, CliAt
  <2>2. QED
    BY <1>4, <2>1 DEF CliGoes, CliSt
<1>5. QED
  BY <1>2, <1>3, <1>4

\* Each step within the status line.
LEMMA CliStatusStep ==
  ASSUME NEW r \in CliResponses, CliGood(r), CliInStatus(r), CliNext, ~cliSplit', cliPc' # "astray"
  PROVE  CliGood(r)' /\ (CliInStatus(r)' \/ CliInHeaders(r)' \/ cliPc' \in {"nullopt", "escaped"})
<1> DEFINE d1 == CliDigits[r.code[1]]
           d2 == CliDigits[r.code[2]]
           d3 == CliDigits[r.code[3]]
           I == CliInfoLine(r)
           V == CliThen("0", CliThen(" ", CliCode(r)))
           S == CliThen(r.code[3], CliThen(" ", I))
           H == CliSends(r)[Len(r.headers)]
           N == CliCodeOf(r.code)
           Goal == CliGood(r)' /\ (CliInStatus(r)' \/ CliInHeaders(r)' \/ cliPc' \in {"nullopt", "escaped"})
<1>1. /\ I \in Seq(CliBytes) /\ CliThen(" ", I) \in Seq(CliBytes) /\ S \in Seq(CliBytes)
      /\ CliThen(r.code[2], S) \in Seq(CliBytes) /\ CliCode(r) \in Seq(CliBytes)
      /\ CliThen(" ", CliCode(r)) \in Seq(CliBytes) /\ V \in Seq(CliBytes) /\ CliThen(".", V) \in Seq(CliBytes)
      /\ CliVersion(r) \in Seq(CliBytes) /\ CliEncode(r) \in Seq(CliBytes)
  BY CliStatusSeq
<1>2. /\ r.code[1] \in DOMAIN CliDigits /\ r.code[2] \in DOMAIN CliDigits /\ r.code[3] \in DOMAIN CliDigits
      /\ r.code[1] \in CliBytes /\ r.code[2] \in CliBytes /\ r.code[3] \in CliBytes
      /\ d1 \in Nat /\ d2 \in Nat /\ d3 \in Nat
  <2>1. \A i \in 1 .. 3 : r.code[i] \in DOMAIN CliDigits /\ r.code[i] \in CliBytes /\ CliDigits[r.code[i]] \in Nat
    BY CliStatusSeq
  <2>2. 1 \in 1 .. 3 /\ 2 \in 1 .. 3 /\ 3 \in 1 .. 3
    OBVIOUS
  <2>3. QED
    BY <2>1, <2>2
<1>3. H \in Seq(CliBytes) /\ Len(H) > Len(r.body) /\ CliLine(H) \in Seq(CliBytes)
  <2>1. Len(r.headers) \in 0 .. Len(r.headers)
    BY CliResponse
  <2>2. QED
    BY <2>1, CliSendsAll, CliLineSeq
<1>4. /\ CliEncode(r) = CliThen("HTTP/", CliVersion(r)) /\ CliVersion(r) = CliThen("1", CliThen(".", V))
      /\ CliCode(r) = CliThen(r.code[1], CliThen(r.code[2], S)) /\ I = CliThen("info", CliLine(H))
  BY DEF CliEncode, CliVersion, CliCode, CliInfoLine
<1>5. \A pc \in {"HTTP/", "major", ".", "minor", "space1", "code", "space2", "info"} : pc \in CliChecked
  BY DEF CliChecked
<1>6. CliGood(r)' /\ (\/ CliSt(r, "request", CliEncode(r), 0, <<>>, 0, 0)'
                       \/ CliSt(r, "HTTP/", CliEncode(r), 0, <<>>, 0, 0)'
                       \/ CliSt(r, "major", CliVersion(r), 0, <<>>, 0, 0)'
                       \/ CliSt(r, "major", CliThen(".", V), 1, <<>>, 1, 0)'
                       \/ CliSt(r, ".", CliThen(".", V), 0, <<>>, 1, 0)'
                       \/ CliSt(r, "minor", V, 0, <<>>, 1, 0)'
                       \/ CliSt(r, "minor", CliThen(" ", CliCode(r)), 1, <<>>, 1, 0)'
                       \/ CliSt(r, "space1", CliThen(" ", CliCode(r)), 0, <<>>, 1, 0)'
                       \/ CliSt(r, "code", CliCode(r), 0, <<>>, 1, 0)'
                       \/ CliSt(r, "code", CliThen(r.code[2], S), 1, <<>>, 1, d1)'
                       \/ CliSt(r, "code", S, 2, <<>>, 1, d1 * 10 + d2)'
                       \/ CliSt(r, "space2", CliThen(" ", I), 0, <<>>, 1, N)'
                       \/ CliSt(r, "info", I, 0, <<>>, 1, N)'
                       \/ CliSt(r, "info", CliLine(H), 0, <<"info">>, 1, N)')
      => Goal
  BY DEF CliInStatus
<1> SUFFICES Goal
  OBVIOUS
<1> HIDE DEF d1, d2, d3, I, V, S, H, N, Goal
<1>7. CASE CliSt(r, "request", CliEncode(r), 0, <<>>, 0, 0)
  <2>1. CliRequest
    BY <1>7, CliActs DEF CliSt, CliAt
  <2>2. CliGood(r)' /\ CliLeft' = CliLeft /\ cliPc' = "HTTP/" /\ UNCHANGED cliLocals
    BY <2>1 DEF CliRequest, CliGood, CliLeft
  <2>3. cliResp' = cliResp /\ cliCount' = cliCount /\ cliWord' = cliWord /\ cliKey' = cliKey
    BY <2>2 DEF cliLocals
  <2>4. CliAt(r, "HTTP/", CliEncode(r), 0, <<>>, <<>>, Len(r.headers))'
    BY <1>7, <2>2, <2>3 DEF CliSt, CliAt
  <2>5. CliSo(0, 0, <<>>, <<>>)'
    BY <1>7, <2>3 DEF CliSt, CliSo
  <2>6. QED
    BY <1>6, <2>2, <2>4, <2>5 DEF CliSt
<1>8. CASE CliSt(r, "HTTP/", CliEncode(r), 0, <<>>, 0, 0)
  <2>1. CASE CliRefill
    <3>1. CliGood(r)' /\ (CliSt(r, "HTTP/", CliEncode(r), 0, <<>>, 0, 0)' \/ cliPc' \in {"nullopt", "escaped"})
      BY <1>5, <1>8, <2>1, CliStRefill
    <3>2. QED
      BY <1>6, <3>1 DEF Goal
  <2>2. CASE CliExpect("HTTP/", "major")
    <3>1. cliBuf # <<>> /\ cliCount = 0 /\ cliWord = <<>> /\ CliSo(0, 0, <<>>, <<>>) /\ cliPc = "HTTP/"
      BY <1>8, <2>2 DEF CliExpect, CliNumber, CliSpace, CliInfo, CliByte, CliSt, CliAt
    <3>2. CliSt(r, "HTTP/", CliThen("HTTP/", CliVersion(r)), 0, <<>>, 0, 0)
      BY <1>4, <1>8 DEF V, S
    <3>3. /\ CliFirst = "HTTP/"
          /\ cliBuf' = Tail(cliBuf) /\ CliKeepOthers /\ CliGoes("major", 0, <<>>, 0, 0)
               => CliGood(r)' /\ CliSt(r, "major", CliVersion(r), 0, <<>>, 0, 0)'
      BY <1>1, <1>2, <1>3, <3>1, <3>2, CliStTake, CliByteFacts
    <3>4. /\ cliBuf' = Tail(cliBuf) /\ CliKeepOthers /\ cliPc' = "major" /\ cliCount' = cliCount
          /\ cliWord' = cliWord /\ cliKey' = cliKey /\ cliResp' = cliResp
      BY <2>2, <3>3 DEF CliExpect, CliSpace, CliAccept, cliLocals
    <3>5. CliSo(0, 0, <<>>, <<>>)' /\ cliResp'.headers = cliResp.headers
      BY <3>1, <3>4, CliSoField
    <3>6. CliGoes("major", 0, <<>>, 0, 0)
      BY <3>1, <3>4, <3>5 DEF CliGoes
    <3>7. QED
      BY <1>6, <3>3, <3>4, <3>6
  <2>3. QED
    BY <1>8, <2>1, <2>2, CliActs DEF CliSt, CliAt
<1>9. CASE CliSt(r, "major", CliVersion(r), 0, <<>>, 0, 0)
  <2>1. CASE CliRefill
    <3>1. CliGood(r)' /\ (CliSt(r, "major", CliVersion(r), 0, <<>>, 0, 0)' \/ cliPc' \in {"nullopt", "escaped"})
      BY <1>5, <1>9, <2>1, CliStRefill
    <3>2. QED
      BY <1>6, <3>1 DEF Goal
  <2>2. CASE CliNumber("major", -1, ".")
    <3>1. cliBuf # <<>> /\ cliCount = 0 /\ cliWord = <<>> /\ CliSo(0, 0, <<>>, <<>>) /\ cliPc = "major"
      BY <1>9, <2>2 DEF CliExpect, CliNumber, CliSpace, CliInfo, CliByte, CliSt, CliAt
    <3>2. CliSt(r, "major", CliThen("1", CliThen(".", V)), 0, <<>>, 0, 0)
      BY <1>4, <1>9 DEF V, S
    <3>3. /\ CliFirst = "1"
          /\ cliBuf' = Tail(cliBuf) /\ CliKeepOthers /\ CliGoes("major", 1, <<>>, 1, 0)
               => CliGood(r)' /\ CliSt(r, "major", CliThen(".", V), 1, <<>>, 1, 0)'
      BY <1>1, <1>2, <1>3, <3>1, <3>2, CliStTake, CliByteFacts
    <3>4. /\ cliBuf' = Tail(cliBuf) /\ CliKeepOthers /\ cliPc' = "major" /\ cliCount' = 1
          /\ cliWord' = cliWord /\ cliKey' = cliKey
          /\ cliResp' = [cliResp EXCEPT !["major"] = @ * 10 + CliDigits["1"]]
      <4>1. CliFirst \in DOMAIN CliDigits
        BY <1>2, <3>3, CliDigitFacts
      <4>2. cliCount + 1 # -1 /\ cliCount + 1 = 1
        BY <3>1
      <4>3. QED
        BY <2>2, <3>1, <3>3, <4>1, <4>2 DEF CliNumber, CliAccept
    <3>5. CliSo(1, 0, <<>>, <<>>)' /\ cliResp'.headers = cliResp.headers
      <4>1. cliResp.major = 0
        BY <3>1, CliSoField
      <4>2. cliResp.major * 10 + CliDigits["1"] = 1
        BY <1>2, <4>1, CliDigitFacts
      <4>3. cliResp' = [cliResp EXCEPT !["major"] = 1]
        BY <3>4, <4>2
      <4>4. QED
        BY <3>1, <4>3, CliSoField
    <3>6. CliGoes("major", 1, <<>>, 1, 0)
      BY <3>1, <3>4, <3>5 DEF CliGoes
    <3>7. QED
      BY <1>6, <3>3, <3>4, <3>6
  <2>3. QED
    BY <1>9, <2>1, <2>2, CliActs DEF CliSt, CliAt
<1>10. CASE CliSt(r, "major", CliThen(".", V), 1, <<>>, 1, 0)
  <2>1. CASE CliRefill
    <3>1. CliGood(r)' /\ (CliSt(r, "major", CliThen(".", V), 1, <<>>, 1, 0)' \/ cliPc' \in {"nullopt", "escaped"})
      BY <1>5, <1>10, <2>1, CliStRefill
    <3>2. QED
      BY <1>6, <3>1 DEF Goal
  <2>2. CASE CliNumber("major", -1, ".")
    <3>1. cliBuf # <<>> /\ cliCount = 1 /\ cliWord = <<>> /\ CliSo(1, 0, <<>>, <<>>) /\ cliPc = "major"
      BY <1>10, <2>2 DEF CliExpect, CliNumber, CliSpace, CliInfo, CliByte, CliSt, CliAt
    <3>2. CliSt(r, "major", CliThen(".", V), 1, <<>>, 1, 0)
      BY <1>4, <1>10 DEF V, S
    <3>3. /\ CliFirst = "."
          /\ cliBuf' = cliBuf /\ CliKeepOthers /\ CliGoes(".", 0, <<>>, 1, 0)
               => CliGood(r)' /\ CliSt(r, ".", CliThen(".", V), 0, <<>>, 1, 0)'
      BY <1>1, <1>2, <1>3, <3>1, <3>2, CliStTake, CliByteFacts
    <3>4. /\ cliBuf' = cliBuf /\ CliKeepOthers /\ cliPc' = "." /\ cliCount' = 0
          /\ cliWord' = cliWord /\ cliKey' = cliKey /\ cliResp' = cliResp
      BY <2>2, <3>3, CliDigitFacts DEF CliNumber
    <3>5. CliSo(1, 0, <<>>, <<>>)' /\ cliResp'.headers = cliResp.headers
      BY <3>1, <3>4, CliSoField
    <3>6. CliGoes(".", 0, <<>>, 1, 0)
      BY <3>1, <3>4, <3>5 DEF CliGoes
    <3>7. QED
      BY <1>6, <3>3, <3>4, <3>6
  <2>3. QED
    BY <1>10, <2>1, <2>2, CliActs DEF CliSt, CliAt
<1>11. CASE CliSt(r, ".", CliThen(".", V), 0, <<>>, 1, 0)
  <2>1. CASE CliRefill
    <3>1. CliGood(r)' /\ (CliSt(r, ".", CliThen(".", V), 0, <<>>, 1, 0)' \/ cliPc' \in {"nullopt", "escaped"})
      BY <1>5, <1>11, <2>1, CliStRefill
    <3>2. QED
      BY <1>6, <3>1 DEF Goal
  <2>2. CASE CliExpect(".", "minor")
    <3>1. cliBuf # <<>> /\ cliCount = 0 /\ cliWord = <<>> /\ CliSo(1, 0, <<>>, <<>>) /\ cliPc = "."
      BY <1>11, <2>2 DEF CliExpect, CliNumber, CliSpace, CliInfo, CliByte, CliSt, CliAt
    <3>2. CliSt(r, ".", CliThen(".", V), 0, <<>>, 1, 0)
      BY <1>4, <1>11 DEF V, S
    <3>3. /\ CliFirst = "."
          /\ cliBuf' = Tail(cliBuf) /\ CliKeepOthers /\ CliGoes("minor", 0, <<>>, 1, 0)
               => CliGood(r)' /\ CliSt(r, "minor", V, 0, <<>>, 1, 0)'
      BY <1>1, <1>2, <1>3, <3>1, <3>2, CliStTake, CliByteFacts
    <3>4. /\ cliBuf' = Tail(cliBuf) /\ CliKeepOthers /\ cliPc' = "minor" /\ cliCount' = cliCount
          /\ cliWord' = cliWord /\ cliKey' = cliKey /\ cliResp' = cliResp
      BY <2>2, <3>3 DEF CliExpect, CliSpace, CliAccept, cliLocals
    <3>5. CliSo(1, 0, <<>>, <<>>)' /\ cliResp'.headers = cliResp.headers
      BY <3>1, <3>4, CliSoField
    <3>6. CliGoes("minor", 0, <<>>, 1, 0)
      BY <3>1, <3>4, <3>5 DEF CliGoes
    <3>7. QED
      BY <1>6, <3>3, <3>4, <3>6
  <2>3. QED
    BY <1>11, <2>1, <2>2, CliActs DEF CliSt, CliAt
<1>12. CASE CliSt(r, "minor", V, 0, <<>>, 1, 0)
  <2>1. CASE CliRefill
    <3>1. CliGood(r)' /\ (CliSt(r, "minor", V, 0, <<>>, 1, 0)' \/ cliPc' \in {"nullopt", "escaped"})
      BY <1>5, <1>12, <2>1, CliStRefill
    <3>2. QED
      BY <1>6, <3>1 DEF Goal
  <2>2. CASE CliNumber("minor", -1, "space1")
    <3>1. cliBuf # <<>> /\ cliCount = 0 /\ cliWord = <<>> /\ CliSo(1, 0, <<>>, <<>>) /\ cliPc = "minor"
      BY <1>12, <2>2 DEF CliExpect, CliNumber, CliSpace, CliInfo, CliByte, CliSt, CliAt
    <3>2. CliSt(r, "minor", CliThen("0", CliThen(" ", CliCode(r))), 0, <<>>, 1, 0)
      BY <1>4, <1>12 DEF V, S
    <3>3. /\ CliFirst = "0"
          /\ cliBuf' = Tail(cliBuf) /\ CliKeepOthers /\ CliGoes("minor", 1, <<>>, 1, 0)
               => CliGood(r)' /\ CliSt(r, "minor", CliThen(" ", CliCode(r)), 1, <<>>, 1, 0)'
      BY <1>1, <1>2, <1>3, <3>1, <3>2, CliStTake, CliByteFacts
    <3>4. /\ cliBuf' = Tail(cliBuf) /\ CliKeepOthers /\ cliPc' = "minor" /\ cliCount' = 1
          /\ cliWord' = cliWord /\ cliKey' = cliKey
          /\ cliResp' = [cliResp EXCEPT !["minor"] = @ * 10 + CliDigits["0"]]
      <4>1. CliFirst \in DOMAIN CliDigits
        BY <1>2, <3>3, CliDigitFacts
      <4>2. cliCount + 1 # -1 /\ cliCount + 1 = 1
        BY <3>1
      <4>3. QED
        BY <2>2, <3>1, <3>3, <4>1, <4>2 DEF CliNumber, CliAccept
    <3>5. CliSo(1, 0, <<>>, <<>>)' /\ cliResp'.headers = cliResp.headers
      <4>1. cliResp.minor = 0
        BY <3>1, CliSoField
      <4>2. cliResp.minor * 10 + CliDigits["0"] = 0
        BY <1>2, <4>1, CliDigitFacts
      <4>3. cliResp' = [cliResp EXCEPT !["minor"] = 0]
        BY <3>4, <4>2
      <4>4. QED
        BY <3>1, <4>3, CliSoField
    <3>6. CliGoes("minor", 1, <<>>, 1, 0)
      BY <3>1, <3>4, <3>5 DEF CliGoes
    <3>7. QED
      BY <1>6, <3>3, <3>4, <3>6
  <2>3. QED
    BY <1>12, <2>1, <2>2, CliActs DEF CliSt, CliAt
<1>13. CASE CliSt(r, "minor", CliThen(" ", CliCode(r)), 1, <<>>, 1, 0)
  <2>1. CASE CliRefill
    <3>1. CliGood(r)' /\ (CliSt(r, "minor", CliThen(" ", CliCode(r)), 1, <<>>, 1, 0)' \/ cliPc' \in {"nullopt", "escaped"})
      BY <1>5, <1>13, <2>1, CliStRefill
    <3>2. QED
      BY <1>6, <3>1 DEF Goal
  <2>2. CASE CliNumber("minor", -1, "space1")
    <3>1. cliBuf # <<>> /\ cliCount = 1 /\ cliWord = <<>> /\ CliSo(1, 0, <<>>, <<>>) /\ cliPc = "minor"
      BY <1>13, <2>2 DEF CliExpect, CliNumber, CliSpace, CliInfo, CliByte, CliSt, CliAt
    <3>2. CliSt(r, "minor", CliThen(" ", CliCode(r)), 1, <<>>, 1, 0)
      BY <1>4, <1>13 DEF V, S
    <3>3. /\ CliFirst = " "
          /\ cliBuf' = cliBuf /\ CliKeepOthers /\ CliGoes("space1", 0, <<>>, 1, 0)
               => CliGood(r)' /\ CliSt(r, "space1", CliThen(" ", CliCode(r)), 0, <<>>, 1, 0)'
      BY <1>1, <1>2, <1>3, <3>1, <3>2, CliStTake, CliByteFacts
    <3>4. /\ cliBuf' = cliBuf /\ CliKeepOthers /\ cliPc' = "space1" /\ cliCount' = 0
          /\ cliWord' = cliWord /\ cliKey' = cliKey /\ cliResp' = cliResp
      BY <2>2, <3>3, CliDigitFacts DEF CliNumber
    <3>5. CliSo(1, 0, <<>>, <<>>)' /\ cliResp'.headers = cliResp.headers
      BY <3>1, <3>4, CliSoField
    <3>6. CliGoes("space1", 0, <<>>, 1, 0)
      BY <3>1, <3>4, <3>5 DEF CliGoes
    <3>7. QED
      BY <1>6, <3>3, <3>4, <3>6
  <2>3. QED
    BY <1>13, <2>1, <2>2, CliActs DEF CliSt, CliAt
<1>14. CASE CliSt(r, "space1", CliThen(" ", CliCode(r)), 0, <<>>, 1, 0)
  <2>1. CASE CliRefill
    <3>1. CliGood(r)' /\ (CliSt(r, "space1", CliThen(" ", CliCode(r)), 0, <<>>, 1, 0)' \/ cliPc' \in {"nullopt", "escaped"})
      BY <1>5, <1>14, <2>1, CliStRefill
    <3>2. QED
      BY <1>6, <3>1 DEF Goal
  <2>2. CASE CliSpace("space1", "code")
    <3>1. cliBuf # <<>> /\ cliCount = 0 /\ cliWord = <<>> /\ CliSo(1, 0, <<>>, <<>>) /\ cliPc = "space1"
      BY <1>14, <2>2 DEF CliExpect, CliNumber, CliSpace, CliInfo, CliByte, CliSt, CliAt
    <3>2. CliSt(r, "space1", CliThen(" ", CliCode(r)), 0, <<>>, 1, 0)
      BY <1>4, <1>14 DEF V, S
    <3>3. /\ CliFirst = " "
          /\ cliBuf' = Tail(cliBuf) /\ CliKeepOthers /\ CliGoes("code", 0, <<>>, 1, 0)
               => CliGood(r)' /\ CliSt(r, "code", CliCode(r), 0, <<>>, 1, 0)'
      BY <1>1, <1>2, <1>3, <3>1, <3>2, CliStTake, CliByteFacts
    <3>4. /\ cliBuf' = Tail(cliBuf) /\ CliKeepOthers /\ cliPc' = "code" /\ cliCount' = cliCount
          /\ cliWord' = cliWord /\ cliKey' = cliKey /\ cliResp' = cliResp
      BY <2>2, <3>3 DEF CliExpect, CliSpace, CliAccept, cliLocals
    <3>5. CliSo(1, 0, <<>>, <<>>)' /\ cliResp'.headers = cliResp.headers
      BY <3>1, <3>4, CliSoField
    <3>6. CliGoes("code", 0, <<>>, 1, 0)
      BY <3>1, <3>4, <3>5 DEF CliGoes
    <3>7. QED
      BY <1>6, <3>3, <3>4, <3>6
  <2>3. QED
    BY <1>14, <2>1, <2>2, CliActs DEF CliSt, CliAt
<1>15. CASE CliSt(r, "code", CliCode(r), 0, <<>>, 1, 0)
  <2>1. CASE CliRefill
    <3>1. CliGood(r)' /\ (CliSt(r, "code", CliCode(r), 0, <<>>, 1, 0)' \/ cliPc' \in {"nullopt", "escaped"})
      BY <1>5, <1>15, <2>1, CliStRefill
    <3>2. QED
      BY <1>6, <3>1 DEF Goal
  <2>2. CASE CliNumber("code", 3, "space2")
    <3>1. cliBuf # <<>> /\ cliCount = 0 /\ cliWord = <<>> /\ CliSo(1, 0, <<>>, <<>>) /\ cliPc = "code"
      BY <1>15, <2>2 DEF CliExpect, CliNumber, CliSpace, CliInfo, CliByte, CliSt, CliAt
    <3>2. CliSt(r, "code", CliThen(r.code[1], CliThen(r.code[2], S)), 0, <<>>, 1, 0)
      BY <1>4, <1>15 DEF V, S
    <3>3. /\ CliFirst = r.code[1]
          /\ cliBuf' = Tail(cliBuf) /\ CliKeepOthers /\ CliGoes("code", 1, <<>>, 1, d1)
               => CliGood(r)' /\ CliSt(r, "code", CliThen(r.code[2], S), 1, <<>>, 1, d1)'
      BY <1>1, <1>2, <1>3, <3>1, <3>2, CliStTake, CliByteFacts
    <3>4. /\ cliBuf' = Tail(cliBuf) /\ CliKeepOthers /\ cliPc' = "code" /\ cliCount' = 1
          /\ cliWord' = cliWord /\ cliKey' = cliKey
          /\ cliResp' = [cliResp EXCEPT !["code"] = @ * 10 + CliDigits[r.code[1]]]
      <4>1. CliFirst \in DOMAIN CliDigits
        BY <1>2, <3>3, CliDigitFacts
      <4>2. cliCount < 3 /\ cliCount + 1 # 3 /\ cliCount + 1 = 1
        BY <3>1
      <4>3. QED
        BY <2>2, <3>1, <3>3, <4>1, <4>2 DEF CliNumber, CliAccept
    <3>5. CliSo(1, d1, <<>>, <<>>)' /\ cliResp'.headers = cliResp.headers
      <4>1. cliResp.code = 0
        BY <3>1, CliSoField
      <4>2. cliResp.code * 10 + d1 = d1
        BY <1>2, <4>1, CliDigitFacts
      <4>3. cliResp' = [cliResp EXCEPT !["code"] = d1]
        BY <3>4, <4>2 DEF d1
      <4>4. QED
        BY <3>1, <4>3, CliSoField
    <3>6. CliGoes("code", 1, <<>>, 1, d1)
      BY <3>1, <3>4, <3>5 DEF CliGoes
    <3>7. QED
      BY <1>6, <3>3, <3>4, <3>6
  <2>3. QED
    BY <1>15, <2>1, <2>2, CliActs DEF CliSt, CliAt
<1>16. CASE CliSt(r, "code", CliThen(r.code[2], S), 1, <<>>, 1, d1)
  <2>1. CASE CliRefill
    <3>1. CliGood(r)' /\ (CliSt(r, "code", CliThen(r.code[2], S), 1, <<>>, 1, d1)' \/ cliPc' \in {"nullopt", "escaped"})
      BY <1>5, <1>16, <2>1, CliStRefill
    <3>2. QED
      BY <1>6, <3>1 DEF Goal
  <2>2. CASE CliNumber("code", 3, "space2")
    <3>1. cliBuf # <<>> /\ cliCount = 1 /\ cliWord = <<>> /\ CliSo(1, d1, <<>>, <<>>) /\ cliPc = "code"
      BY <1>16, <2>2 DEF CliExpect, CliNumber, CliSpace, CliInfo, CliByte, CliSt, CliAt
    <3>2. CliSt(r, "code", CliThen(r.code[2], S), 1, <<>>, 1, d1)
      BY <1>4, <1>16 DEF V, S
    <3>3. /\ CliFirst = r.code[2]
          /\ cliBuf' = Tail(cliBuf) /\ CliKeepOthers /\ CliGoes("code", 2, <<>>, 1, d1 * 10 + d2)
               => CliGood(r)' /\ CliSt(r, "code", S, 2, <<>>, 1, d1 * 10 + d2)'
      BY <1>1, <1>2, <1>3, <3>1, <3>2, CliStTake, CliByteFacts
    <3>4. /\ cliBuf' = Tail(cliBuf) /\ CliKeepOthers /\ cliPc' = "code" /\ cliCount' = 2
          /\ cliWord' = cliWord /\ cliKey' = cliKey
          /\ cliResp' = [cliResp EXCEPT !["code"] = @ * 10 + CliDigits[r.code[2]]]
      <4>1. CliFirst \in DOMAIN CliDigits
        BY <1>2, <3>3, CliDigitFacts
      <4>2. cliCount < 3 /\ cliCount + 1 # 3 /\ cliCount + 1 = 2
        BY <3>1
      <4>3. QED
        BY <2>2, <3>1, <3>3, <4>1, <4>2 DEF CliNumber, CliAccept
    <3>5. CliSo(1, d1 * 10 + d2, <<>>, <<>>)' /\ cliResp'.headers = cliResp.headers
      <4>1. cliResp.code = d1
        BY <3>1, CliSoField
      <4>2. cliResp.code * 10 + d2 = d1 * 10 + d2
        BY <1>2, <4>1, CliDigitFacts
      <4>3. cliResp' = [cliResp EXCEPT !["code"] = d1 * 10 + d2]
        BY <3>4, <4>2 DEF d2
      <4>4. PICK v : v = d1 * 10 + d2
        OBVIOUS
      <4>5. CliSo(1, v, <<>>, <<>>)' /\ cliResp'.headers = cliResp.headers
        BY <3>1, <4>3, <4>4, CliSoCode
      <4>6. QED
        BY <4>4, <4>5
    <3>6. CliGoes("code", 2, <<>>, 1, d1 * 10 + d2)
      BY <3>1, <3>4, <3>5 DEF CliGoes
    <3>7. QED
      BY <1>6, <3>3, <3>4, <3>6
  <2>3. QED
    BY <1>16, <2>1, <2>2, CliActs DEF CliSt, CliAt
<1>17. CASE CliSt(r, "code", S, 2, <<>>, 1, d1 * 10 + d2)
  <2>1. CASE CliRefill
    <3>1. CliGood(r)' /\ (CliSt(r, "code", S, 2, <<>>, 1, d1 * 10 + d2)' \/ cliPc' \in {"nullopt", "escaped"})
      BY <1>5, <1>17, <2>1, CliStRefill
    <3>2. QED
      BY <1>6, <3>1 DEF Goal
  <2>2. CASE CliNumber("code", 3, "space2")
    <3>1. cliBuf # <<>> /\ cliCount = 2 /\ cliWord = <<>> /\ CliSo(1, d1 * 10 + d2, <<>>, <<>>) /\ cliPc = "code"
      BY <1>17, <2>2 DEF CliExpect, CliNumber, CliSpace, CliInfo, CliByte, CliSt, CliAt
    <3>2. CliSt(r, "code", CliThen(r.code[3], CliThen(" ", I)), 2, <<>>, 1, d1 * 10 + d2)
      BY <1>4, <1>17 DEF V, S
    <3>3. /\ CliFirst = r.code[3]
          /\ cliBuf' = Tail(cliBuf) /\ CliKeepOthers /\ CliGoes("space2", 0, <<>>, 1, N)
               => CliGood(r)' /\ CliSt(r, "space2", CliThen(" ", I), 0, <<>>, 1, N)'
      BY <1>1, <1>2, <1>3, <3>1, <3>2, CliStTake, CliByteFacts
    <3>4. /\ cliBuf' = Tail(cliBuf) /\ CliKeepOthers /\ cliPc' = "space2" /\ cliCount' = 0
          /\ cliWord' = cliWord /\ cliKey' = cliKey
          /\ cliResp' = [cliResp EXCEPT !["code"] = @ * 10 + CliDigits[r.code[3]]]
      <4>1. CliFirst \in DOMAIN CliDigits
        BY <1>2, <3>3, CliDigitFacts
      <4>2. cliCount < 3 /\ cliCount + 1 = 3 /\ cliCount + 1 = 3
        BY <3>1
      <4>3. QED
        BY <2>2, <3>1, <3>3, <4>1, <4>2 DEF CliNumber, CliAccept
    <3>5. CliSo(1, N, <<>>, <<>>)' /\ cliResp'.headers = cliResp.headers
      <4>1. cliResp.code = d1 * 10 + d2
        BY <3>1, CliSoField
      <4>2. cliResp.code * 10 + d3 = N
        BY <1>2, <4>1, CliDigitFacts DEF N, CliCodeOf, d1, d2, d3
      <4>3. cliResp' = [cliResp EXCEPT !["code"] = N]
        BY <3>4, <4>2 DEF d3
      <4>4. QED
        BY <3>1, <4>3, CliSoField
    <3>6. CliGoes("space2", 0, <<>>, 1, N)
      BY <3>1, <3>4, <3>5 DEF CliGoes
    <3>7. QED
      BY <1>6, <3>3, <3>4, <3>6
  <2>3. QED
    BY <1>17, <2>1, <2>2, CliActs DEF CliSt, CliAt
<1>18. CASE CliSt(r, "space2", CliThen(" ", I), 0, <<>>, 1, N)
  <2>1. CASE CliRefill
    <3>1. CliGood(r)' /\ (CliSt(r, "space2", CliThen(" ", I), 0, <<>>, 1, N)' \/ cliPc' \in {"nullopt", "escaped"})
      BY <1>5, <1>18, <2>1, CliStRefill
    <3>2. QED
      BY <1>6, <3>1 DEF Goal
  <2>2. CASE CliSpace("space2", "info")
    <3>1. cliBuf # <<>> /\ cliCount = 0 /\ cliWord = <<>> /\ CliSo(1, N, <<>>, <<>>) /\ cliPc = "space2"
      BY <1>18, <2>2 DEF CliExpect, CliNumber, CliSpace, CliInfo, CliByte, CliSt, CliAt
    <3>2. CliSt(r, "space2", CliThen(" ", I), 0, <<>>, 1, N)
      BY <1>4, <1>18 DEF V, S
    <3>3. /\ CliFirst = " "
          /\ cliBuf' = Tail(cliBuf) /\ CliKeepOthers /\ CliGoes("info", 0, <<>>, 1, N)
               => CliGood(r)' /\ CliSt(r, "info", I, 0, <<>>, 1, N)'
      BY <1>1, <1>2, <1>3, <3>1, <3>2, CliStTake, CliByteFacts
    <3>4. /\ cliBuf' = Tail(cliBuf) /\ CliKeepOthers /\ cliPc' = "info" /\ cliCount' = cliCount
          /\ cliWord' = cliWord /\ cliKey' = cliKey /\ cliResp' = cliResp
      BY <2>2, <3>3 DEF CliExpect, CliSpace, CliAccept, cliLocals
    <3>5. CliSo(1, N, <<>>, <<>>)' /\ cliResp'.headers = cliResp.headers
      BY <3>1, <3>4, CliSoField
    <3>6. CliGoes("info", 0, <<>>, 1, N)
      BY <3>1, <3>4, <3>5 DEF CliGoes
    <3>7. QED
      BY <1>6, <3>3, <3>4, <3>6
  <2>3. QED
    BY <1>18, <2>1, <2>2, CliActs DEF CliSt, CliAt
<1>19. CASE CliSt(r, "info", I, 0, <<>>, 1, N)
  <2>1. CASE CliRefill
    <3>1. CliGood(r)' /\ (CliSt(r, "info", I, 0, <<>>, 1, N)' \/ cliPc' \in {"nullopt", "escaped"})
      BY <1>5, <1>19, <2>1, CliStRefill
    <3>2. QED
      BY <1>6, <3>1 DEF Goal
  <2>2. CASE CliInfo
    <3>1. cliBuf # <<>> /\ cliCount = 0 /\ cliWord = <<>> /\ CliSo(1, N, <<>>, <<>>) /\ cliPc = "info"
      BY <1>19, <2>2 DEF CliExpect, CliNumber, CliSpace, CliInfo, CliByte, CliSt, CliAt
    <3>2. CliSt(r, "info", CliThen("info", CliLine(H)), 0, <<>>, 1, N)
      BY <1>4, <1>19 DEF V, S
    <3>3. /\ CliFirst = "info"
          /\ cliBuf' = Tail(cliBuf) /\ CliKeepOthers /\ CliGoes("info", 0, <<"info">>, 1, N)
               => CliGood(r)' /\ CliSt(r, "info", CliLine(H), 0, <<"info">>, 1, N)'
      BY <1>1, <1>2, <1>3, <3>1, <3>2, CliStTake, CliByteFacts
    <3>4. /\ cliBuf' = Tail(cliBuf) /\ CliKeepOthers /\ cliPc' = "info" /\ cliCount' = cliCount
          /\ cliWord' = Append(cliWord, "info") /\ cliKey' = cliKey /\ cliResp' = cliResp
      BY <2>2, <3>1, <3>3 DEF CliInfo, CliAtEol, CliCollect, CliAccept
    <3>5. CliSo(1, N, <<>>, <<>>)' /\ cliResp'.headers = cliResp.headers
      BY <3>1, <3>4, CliSoField
    <3>6. cliWord' = <<"info">>
      BY <3>1, <3>4
    <3>7. CliGoes("info", 0, <<"info">>, 1, N)
      BY <3>1, <3>4, <3>5, <3>6 DEF CliGoes
    <3>8. QED
      BY <1>6, <3>3, <3>4, <3>7
  <2>3. QED
    BY <1>19, <2>1, <2>2, CliActs DEF CliSt, CliAt
<1>20. CASE CliSt(r, "info", CliLine(H), 0, <<"info">>, 1, N)
  <2>1. CASE CliRefill
    <3>1. CliGood(r)' /\ (CliSt(r, "info", CliLine(H), 0, <<"info">>, 1, N)' \/ cliPc' \in {"nullopt", "escaped"})
      BY <1>5, <1>20, <2>1, CliStRefill
    <3>2. QED
      BY <1>6, <3>1 DEF Goal
  <2>2. CASE CliInfo
    <3>1. cliBuf # <<>> /\ CliLeft = CliLine(H)
      BY <1>20, <2>2 DEF CliInfo, CliByte, CliSt, CliAt
    <3>2. /\ CliAtEol
          /\ cliBuf' = SubSeq(cliBuf, 3, Len(cliBuf)) /\ CliKeepOthers =>
               CliGood(r)' /\ CliLeft' = H /\ cliBuf' # <<>>
      BY <1>3, <3>1, CliEolThere
    <3>3. /\ cliBuf' = SubSeq(cliBuf, 3, Len(cliBuf)) /\ CliKeepOthers /\ cliPc' = "headers"
          /\ cliCount' = cliCount /\ cliWord' = <<>> /\ cliKey' = cliKey
          /\ cliResp' = [cliResp EXCEPT !["info"] = cliWord]
      BY <2>2, <3>2 DEF CliInfo, CliEol
    <3>4. cliWord = <<"info">> /\ cliKey = <<>> /\ cliCount = 0 /\ CliSo(1, N, <<>>, <<>>)
      BY <1>20 DEF CliSt, CliAt
    <3>5. CliSo(1, N, <<"info">>, <<>>)' /\ cliResp'.headers = cliResp.headers
      BY <3>3, <3>4, CliSoField
    <3>6. CliAt(r, "headers", H, 0, <<>>, <<>>, Len(r.headers))'
      BY <1>20, <3>2, <3>3, <3>4, <3>5 DEF CliSt, CliAt
    <3>7. Len(r.headers) \in 0 .. Len(r.headers)
      BY CliResponse
    <3>8. CliInHeaders(r)'
      BY <3>2, <3>3, <3>5, <3>6, <3>7 DEF CliInHeaders, H, N
    <3>9. QED
      BY <3>2, <3>3, <3>8 DEF Goal
  <2>3. QED
    BY <1>20, <2>1, <2>2, CliActs DEF CliSt, CliAt
<1>21. QED
  BY <1>7, <1>8, <1>9, <1>10, <1>11, <1>12, <1>13, <1>14, <1>15, <1>16, <1>17, <1>18, <1>19, <1>20 DEF CliInStatus, Goal, d1, d2, I, V, S, H, N

\* The headers: a refill, a byte.
CliHd(r, k, pc, left, word, key) ==
    CliAt(r, pc, left, 0, word, key, k) /\ CliSo(1, CliCodeOf(r.code), <<"info">>, <<>>)
CliHdGoes(pc, word, key) ==
    cliPc' = pc /\ cliCount' = cliCount /\ cliWord' = word /\ cliKey' = key /\ cliResp' = cliResp

LEMMA CliHdKeeps ==
  ASSUME NEW r \in CliResponses, NEW k, NEW pc, NEW left, NEW word, NEW key, CliHd(r, k, pc, left, word, key),
         NEW pc2, NEW left2, NEW word2, NEW key2, CliLeft' = left2, CliHdGoes(pc2, word2, key2)
  PROVE  CliHd(r, k, pc2, left2, word2, key2)'
<1>1. CliAt(r, pc2, left2, 0, word2, key2, k)'
  BY DEF CliHd, CliAt, CliHdGoes
<1>2. CliSo(1, CliCodeOf(r.code), <<"info">>, <<>>)'
  BY DEF CliHd, CliSo, CliHdGoes
<1>3. QED
  BY <1>1, <1>2 DEF CliHd

LEMMA CliHdRefill ==
  ASSUME NEW r \in CliResponses, CliGood(r), CliRefill, ~cliSplit', cliPc' # "astray",
         NEW k, NEW pc \in CliChecked, NEW left, NEW word, NEW key, CliHd(r, k, pc, left, word, key)
  PROVE  CliGood(r)' /\ (CliHd(r, k, pc, left, word, key)' \/ cliPc' \in {"nullopt", "escaped"})
<1>1. CliGood(r)' /\ CliLeft' = left /\ UNCHANGED cliLocals
  BY CliRefilled DEF CliHd, CliAt
<1>2. cliPc' = pc \/ cliPc' = "nullopt"
  BY CliRefillAt DEF CliHd, CliAt
<1>3. CASE cliPc' = pc
  <2>1. CliHdGoes(pc, word, key)
    BY <1>1, <1>3 DEF CliHd, CliAt, CliHdGoes, cliLocals
  <2>2. QED
    BY <1>1, <2>1, CliHdKeeps
<1>4. QED
  BY <1>1, <1>2, <1>3

LEMMA CliHdTake ==
  ASSUME NEW r \in CliResponses, CliGood(r), NEW x \in CliBytes, NEW rest \in Seq(CliBytes),
         NEW k, NEW pc, NEW word, NEW key, CliHd(r, k, pc, CliThen(x, rest), word, key), cliBuf # <<>>,
         NEW pc2, NEW word2, NEW key2
  PROVE  /\ CliFirst = x
         /\ cliBuf' = Tail(cliBuf) /\ CliKeepOthers /\ CliHdGoes(pc2, word2, key2)
             => CliGood(r)' /\ CliHd(r, k, pc2, rest, word2, key2)'
<1>1. CliLeft = CliThen(x, rest)
  BY DEF CliHd, CliAt
<1>2. CliFirst = x /\ (cliBuf' = Tail(cliBuf) /\ CliKeepOthers => CliGood(r)' /\ CliLeft' = rest)
  BY <1>1, CliTake
<1>3. QED
  BY <1>2, CliHdKeeps

\* The words that are put together byte by byte.
LEMMA CliWord1 ==
  ASSUME NEW a
  PROVE  Append(<<>>, a) = <<a>>
OBVIOUS

LEMMA CliWord2 ==
  ASSUME NEW a \in CliBytes, NEW b \in CliBytes
  PROVE  Append(<<a>>, b) = <<a, b>>
<1>1. <<a>> \in Seq(CliBytes) /\ <<a, b>> \in Seq(CliBytes)
  OBVIOUS
<1>2. /\ Append(<<a>>, b) \in Seq(CliBytes) /\ Len(Append(<<a>>, b)) = 2
      /\ Append(<<a>>, b)[1] = a /\ Append(<<a>>, b)[2] = b
  BY <1>1
<1>3. Len(<<a, b>>) = 2 /\ <<a, b>>[1] = a /\ <<a, b>>[2] = b
  OBVIOUS
<1>4. \A i \in 1 .. 2 : i = 1 \/ i = 2
  OBVIOUS
<1>5. \A i \in 1 .. 2 : Append(<<a>>, b)[i] = <<a, b>>[i]
  BY <1>2, <1>3, <1>4
<1>6. QED
  BY <1>1, <1>2, <1>3, <1>5, SeqEqual

LEMMA CliWord3 ==
  ASSUME NEW a \in CliBytes, NEW b \in CliBytes, NEW c \in CliBytes
  PROVE  Append(<<a, b>>, c) = <<a, b, c>>
<1>1. <<a, b>> \in Seq(CliBytes) /\ <<a, b, c>> \in Seq(CliBytes)
  OBVIOUS
<1>2. /\ Append(<<a, b>>, c) \in Seq(CliBytes) /\ Len(Append(<<a, b>>, c)) = 3
      /\ Append(<<a, b>>, c)[1] = a /\ Append(<<a, b>>, c)[2] = b /\ Append(<<a, b>>, c)[3] = c
  BY <1>1
<1>3. Len(<<a, b, c>>) = 3 /\ <<a, b, c>>[1] = a /\ <<a, b, c>>[2] = b /\ <<a, b, c>>[3] = c
  OBVIOUS
<1>4. \A i \in 1 .. 3 : i = 1 \/ i = 2 \/ i = 3
  OBVIOUS
<1>5. \A i \in 1 .. 3 : Append(<<a, b>>, c)[i] = <<a, b, c>>[i]
  BY <1>2, <1>3, <1>4
<1>6. QED
  BY <1>1, <1>2, <1>3, <1>5, SeqEqual

\* The first byte from a header on is not a space, and the second one no line feed.
LEMMA CliSendsFirst ==
  ASSUME NEW r \in CliResponses, NEW k \in 0 .. Len(r.headers)
  PROVE  CliSends(r)[k][1] # " "
<1>1. CASE k = 0
  <2>1. CliSends(r)[0] = CliThen("CR", CliThen("LF", r.body))
    BY CliSendsLast DEF CliLine
  <2>2. r.body \in Seq(CliBytes)
    BY CliResponse
  <2>3. CliThen("LF", r.body) \in Seq(CliBytes)
    BY <2>2, CliLineSeq
  <2>4. CliThen("CR", CliThen("LF", r.body))[1] = "CR"
    BY <2>3, CliThenSeq, CliByteFacts
  <2>5. QED
    BY <1>1, <2>1, <2>4
<1>2. CASE k # 0
  <2>1. k \in 1 .. Len(r.headers)
    BY <1>2, CliResponse
  <2> DEFINE h == r.headers[Len(r.headers) + 1 - k]
             rest == CliSends(r)[k - 1]
             c == CliThen(":", CliText(h, rest))
  <2>2. h \in CliHeader /\ CliSends(r)[k] = CliField(h, rest) /\ k - 1 \in 0 .. Len(r.headers)
    BY <2>1, CliSendsHeader
  <2>3. rest \in Seq(CliBytes)
    BY <2>2, CliSendsAll
  <2> HIDE DEF h, rest
  <2>4. c \in Seq(CliBytes) /\ h.key \in CliBytes /\ h.key # " "
    BY <2>2, <2>3, CliFieldSeq, CliHeaderFacts
  <2>5. CliSends(r)[k] = CliThen(h.key, c)
    BY <2>2 DEF CliField
  <2> HIDE DEF c
  <2>6. CliThen(h.key, c)[1] = h.key
    BY <2>4, CliThenSeq
  <2>7. QED
    BY <2>4, <2>5, <2>6
<1>3. QED
  BY <1>1, <1>2

LEMMA CliSecond ==
  ASSUME NEW r \in CliResponses, CliGood(r), NEW x \in CliBytes, NEW y \in CliBytes, NEW rest \in Seq(CliBytes),
         CliLeft = CliThen(x, CliThen(y, rest)), cliBuf # <<>>
  PROVE  CliPeek(0) = x /\ CliPeek(1) \in {y, "nul"}
<1> DEFINE z == cliNet \o cliLost
           l == CliThen(y, rest)
           t == Tail(cliBuf)
<1>1. cliBuf \in Seq(CliBytes) /\ z \in Seq(CliBytes) /\ CliBegins(cliBuf, z, x, l)
  BY CliLeftParts DEF CliBegins
<1>2. l \in Seq(CliBytes)
  BY CliThenLen
<1> HIDE DEF z, l
<1>3. cliBuf[1] = x /\ t \in Seq(CliBytes) /\ t \o z = l
  BY <1>1, <1>2, CliTakes
<1>4. /\ Len(cliBuf) \in Nat /\ Len(cliBuf) > 0 /\ Len(t) = Len(cliBuf) - 1
      /\ \A i \in 1 .. Len(cliBuf) - 1 : t[i] = cliBuf[i + 1]
  BY <1>1, CliTail
<1> HIDE DEF t
<1>5. CliPeek(0) = x
  BY <1>3, <1>4 DEF CliPeek
<1>6. CASE 1 < Len(cliBuf)
  <2>1. CliPeek(1) = cliBuf[2]
    BY <1>6 DEF CliPeek
  <2>2. 1 \in 1 .. Len(cliBuf) - 1 /\ Len(t) # 0
    BY <1>4, <1>6
  <2>3. t[1] = cliBuf[2] /\ t # <<>>
    BY <1>3, <1>4, <2>2
  <2>4. CliBegins(t, z, y, rest)
    BY <1>3, <2>3 DEF CliBegins, l
  <2>5. t[1] = y
    BY <1>1, <1>3, <2>4, CliTakes
  <2>6. QED
    BY <1>5, <2>1, <2>3, <2>5
<1>7. CASE ~(1 < Len(cliBuf))
  BY <1>5, <1>7 DEF CliPeek
<1>8. QED
  BY <1>6, <1>7

\* One more header.
LEMMA CliMeansMore ==
  ASSUME NEW hs \in Seq(CliHeader), NEW i \in 1 .. Len(hs), NEW got, CliMeans(got, hs, i - 1)
  PROVE  CliMeans([w \in DOMAIN got \union {<<hs[i].key>>} |-> IF w = <<hs[i].key>> THEN CliValue(hs[i]) ELSE got[w]],
                  hs, i)
<1> DEFINE more == [w \in DOMAIN got \union {<<hs[i].key>>} |->
                      IF w = <<hs[i].key>> THEN CliValue(hs[i]) ELSE got[w]]
<1>1. i \in Nat /\ i > 0 /\ \A j : j \in 1 .. i <=> j \in 1 .. i - 1 \/ j = i
  OBVIOUS
<1>2. DOMAIN got = {<<hs[j].key>> : j \in 1 .. i - 1}
  BY DEF CliMeans
<1>3. DOMAIN more = {<<hs[j].key>> : j \in 1 .. i}
  BY <1>1, <1>2
<1>4. ASSUME NEW j \in 1 .. i, \A j2 \in 1 .. i : hs[j2].key = hs[j].key => j2 <= j
      PROVE  more[<<hs[j].key>>] = CliValue(hs[j])
  <2>1. CASE j = i
    BY <1>3, <2>1
  <2>2. CASE j # i
    <3>1. j \in 1 .. i - 1 /\ ~(i <= j)
      BY <2>2
    <3>2. hs[i].key # hs[j].key
      BY <1>1, <1>4, <3>1
    <3>3. <<hs[j].key>> # <<hs[i].key>> /\ <<hs[j].key>> \in DOMAIN got
      BY <1>2, <3>1, <3>2
    <3>4. more[<<hs[j].key>>] = got[<<hs[j].key>>]
      BY <3>3
    <3>5. got[<<hs[j].key>>] = CliValue(hs[j])
      BY <1>1, <1>4, <3>1 DEF CliMeans
    <3>6. QED
      BY <3>4, <3>5
  <2>3. QED
    BY <2>1, <2>2
<1> HIDE DEF more
<1>5. CliMeans(more, hs, i)
  BY <1>3, <1>4 DEF CliMeans
<1>6. QED
  BY <1>5 DEF more

\* The end of a header.
LEMMA CliHeaderEnds ==
  ASSUME NEW r \in CliResponses, CliGood(r), NEW k \in 1 .. Len(r.headers), NEW pc, NEW word,
         CliHd(r, k, pc, CliLine(CliSends(r)[k - 1]), word, <<r.headers[Len(r.headers) + 1 - k].key>>),
         word = CliValue(r.headers[Len(r.headers) + 1 - k]), CliReadValue
  PROVE  CliGood(r)' /\ CliInHeaders(r)'
<1> DEFINE n == Len(r.headers)
           h == r.headers[n + 1 - k]
           rest == CliSends(r)[k - 1]
           got == cliResp.headers
           N == CliCodeOf(r.code)
<1>1. /\ k - 1 \in 0 .. n /\ n + 1 - k \in 1 .. n /\ r.headers \in Seq(CliHeader) /\ n \in Nat
      /\ n - k = (n + 1 - k) - 1 /\ n - (k - 1) = n + 1 - k
  BY CliResponse, CliSendsHeader
<1>2. rest \in Seq(CliBytes) /\ Len(rest) > Len(r.body) /\ rest[1] # " "
  BY <1>1, CliSendsAll, CliSendsFirst
<1>3. /\ cliBuf # <<>> /\ CliLeft = CliLine(rest) /\ cliWord = word /\ cliKey = <<h.key>> /\ cliCount = 0
      /\ CliMeans(got, r.headers, n - k) /\ CliSo(1, N, <<"info">>, <<>>)
  BY DEF CliHd, CliAt, CliReadValue, CliByte
<1> HIDE DEF rest
<1>4. /\ CliAtEol /\ CliPeek(2) # " "
      /\ cliBuf' = SubSeq(cliBuf, 3, Len(cliBuf)) /\ CliKeepOthers => CliGood(r)' /\ CliLeft' = rest /\ cliBuf' # <<>>
  BY <1>2, <1>3, CliEolThere
<1>5. /\ cliBuf' = SubSeq(cliBuf, 3, Len(cliBuf)) /\ CliKeepOthers /\ cliPc' = "headers" /\ cliCount' = cliCount
      /\ cliWord' = <<>> /\ cliKey' = <<>>
  BY <1>4 DEF CliReadValue, CliEol
<1> DEFINE more == [w \in DOMAIN got \union {<<h.key>>} |-> IF w = <<h.key>> THEN CliValue(h) ELSE got[w]]
<1>6. cliResp' = [cliResp EXCEPT !["headers"] = more]
  BY <1>3, <1>4 DEF CliReadValue
<1>7. CliMeans(more, r.headers, n + 1 - k)
  <2>1. CliMeans(got, r.headers, (n + 1 - k) - 1)
    BY <1>1, <1>3
  <2> HIDE DEF got
  <2>2. QED
    BY <1>1, <2>1, CliMeansMore
<1> HIDE DEF more
<1>8. CliSo(1, N, <<"info">>, <<>>)' /\ cliResp'.headers = more
  BY <1>3, <1>6, CliSoField
<1>9. CliAt(r, "headers", rest, 0, <<>>, <<>>, k - 1)'
  BY <1>1, <1>3, <1>4, <1>5, <1>7, <1>8 DEF CliAt
<1>10. CliInHeaders(r)'
  BY <1>1, <1>4, <1>5, <1>8, <1>9 DEF CliInHeaders, rest
<1>11. QED
  BY <1>4, <1>5, <1>10

\* Each step within a header.
LEMMA CliHeaderStep ==
  ASSUME NEW r \in CliResponses, CliGood(r), NEW k \in 1 .. Len(r.headers), CliInHeader(r, k),
         CliSo(1, CliCodeOf(r.code), <<"info">>, <<>>), CliNext, ~cliSplit', cliPc' # "astray"
  PROVE  CliGood(r)' /\ (CliInHeaders(r)' \/ cliPc' \in {"nullopt", "escaped"})
<1> DEFINE h == r.headers[Len(r.headers) + 1 - k]
           rest == CliSends(r)[k - 1]
           F == CliFolded(h, rest)
           T == CliText(h, rest)
           In(pc, left, word, key) == CliHd(r, k, pc, left, word, key)
           Goal == CliGood(r)' /\ (CliInHeaders(r)' \/ cliPc' \in {"nullopt", "escaped"})
<1>1. /\ h \in CliHeader /\ CliSends(r)[k] = CliField(h, rest) /\ rest \in Seq(CliBytes)
      /\ Len(rest) > Len(r.body) /\ Len(r.body) \in Nat
  BY CliSendsHeader, CliSendsAll, CliResponse
<1>2. /\ \/ In("key", CliSends(r)[k], <<>>, <<>>)' \/ In("key", CliThen(":", T), <<h.key>>, <<>>)'
         \/ In("value", T, <<>>, <<h.key>>)' \/ In("value", CliLine(F), <<h.line>>, <<h.key>>)'
         \/ (h.folded # "" /\ (\/ In("fold", F, <<h.line>>, <<h.key>>)'
                               \/ In("fold", CliThen(h.folded, CliLine(rest)), <<h.line, " ">>, <<h.key>>)'
                               \/ In("fold", CliLine(rest), <<h.line, " ", h.folded>>, <<h.key>>)'))
      /\ CliGood(r)'
      => Goal
  BY DEF CliInHeaders, CliInHeader, CliHd
<1>3. \/ In("refill", CliSends(r)[k], <<>>, <<>>)
      \/ In("key", CliSends(r)[k], <<>>, <<>>) \/ In("key", CliThen(":", T), <<h.key>>, <<>>)
      \/ In("value", T, <<>>, <<h.key>>) \/ In("value", CliLine(F), <<h.line>>, <<h.key>>)
      \/ (h.folded # "" /\ (\/ In("fold", F, <<h.line>>, <<h.key>>)
                            \/ In("fold", CliThen(h.folded, CliLine(rest)), <<h.line, " ">>, <<h.key>>)
                            \/ In("fold", CliLine(rest), <<h.line, " ", h.folded>>, <<h.key>>)))
  BY DEF CliInHeader, CliHd
<1>4. CliValue(h) = IF h.folded = "" THEN <<h.line>> ELSE <<h.line, " ", h.folded>>
  BY DEF CliValue
<1>5. ASSUME NEW pc, NEW word, CliHd(r, k, pc, CliLine(rest), word, <<h.key>>), word = CliValue(h), CliReadValue
      PROVE  Goal
  BY <1>5, CliHeaderEnds
<1> SUFFICES Goal
  OBVIOUS
<1> HIDE DEF h, rest, Goal
<1>6. /\ h.key \in CliBytes /\ h.line \in CliBytes /\ h.folded \in CliBytes
      /\ h.key # ":" /\ h.line # "CR" /\ h.folded # "CR"
  BY <1>1, CliHeaderFacts
<1>7. /\ F \in Seq(CliBytes) /\ T \in Seq(CliBytes) /\ CliThen(":", T) \in Seq(CliBytes)
      /\ CliThen(h.folded, CliLine(rest)) \in Seq(CliBytes)
  BY <1>1, CliFieldSeq
<1>8. CliLine(F) \in Seq(CliBytes) /\ CliLine(rest) \in Seq(CliBytes)
  BY <1>1, <1>7, CliLineSeq
<1>9. /\ CliSends(r)[k] = CliThen(h.key, CliThen(":", T)) /\ T = CliThen(h.line, CliLine(F))
      /\ F = IF h.folded = "" THEN rest ELSE CliThen(" ", CliThen(h.folded, CliLine(rest)))
  BY <1>1 DEF CliField, CliText, CliFolded
<1>10. Len(F) > Len(r.body)
  <2>1. Len(F) >= Len(rest)
    BY <1>1, CliFieldSeq
  <2>2. Len(F) \in Nat /\ Len(rest) \in Nat
    BY <1>1, <1>7
  <2> HIDE DEF F
  <2>3. QED
    BY <1>1, <2>1, <2>2
<1> HIDE DEF F, T
<1>11. "key" \in CliChecked /\ "value" \in CliChecked /\ "fold" \in CliChecked
  BY DEF CliChecked
<1>12. CASE In("refill", CliSends(r)[k], <<>>, <<>>)
  <2>1. CliRefill /\ cliPc = "refill"
    BY <1>12, CliActs DEF CliHd, CliAt
  <2>2. CliGood(r)' /\ CliLeft' = CliLeft /\ UNCHANGED cliLocals /\ cliPc' = "key"
    BY <2>1, CliRefilled, CliRefillAt
  <2>3. CliHdGoes("key", <<>>, <<>>) /\ CliLeft' = CliSends(r)[k]
    BY <1>12, <2>2 DEF CliHd, CliAt, CliHdGoes, cliLocals
  <2>4. In("key", CliSends(r)[k], <<>>, <<>>)'
    BY <1>12, <2>3, CliHdKeeps
  <2>5. QED
    BY <1>2, <2>2, <2>4
<1>13. CASE In("key", CliSends(r)[k], <<>>, <<>>)
  <2>1. CASE CliRefill
    <3>1. CliGood(r)' /\ (In("key", CliSends(r)[k], <<>>, <<>>)' \/ cliPc' \in {"nullopt", "escaped"})
      BY <1>11, <1>13, <2>1, CliHdRefill
    <3>2. QED
      BY <1>2, <1>13, <3>1 DEF Goal
  <2>2. CASE CliReadKey
    <3>1. cliBuf # <<>> /\ cliWord = <<>> /\ cliKey = <<>> /\ cliPc = "key"
      BY <1>13, <2>2 DEF CliReadKey, CliReadValue, CliByte, CliHd, CliAt
    <3>2. CliHd(r, k, "key", CliThen(h.key, CliThen(":", T)), <<>>, <<>>)
      BY <1>9, <1>13
    <3>3. /\ CliFirst = h.key
          /\ cliBuf' = Tail(cliBuf) /\ CliKeepOthers /\ CliHdGoes("key", <<h.key>>, <<>>)
               => CliGood(r)' /\ CliHd(r, k, "key", CliThen(":", T), <<h.key>>, <<>>)'
      BY <1>6, <1>7, <1>8, <3>1, <3>2, CliHdTake, CliByteFacts
    <3>4. /\ cliBuf' = Tail(cliBuf) /\ CliKeepOthers /\ cliPc' = "key" /\ cliCount' = cliCount
          /\ cliWord' = Append(cliWord, h.key) /\ cliKey' = cliKey /\ cliResp' = cliResp
      BY <1>6, <2>2, <3>1, <3>3 DEF CliReadKey, CliAtEol, CliCollect, CliAccept
    <3>5. cliWord' = <<h.key>>
      BY <1>6, <3>1, <3>4, CliWord1, CliByteFacts
    <3>6. CliHdGoes("key", <<h.key>>, <<>>)
      BY <3>1, <3>4, <3>5 DEF CliHdGoes
    <3>7. QED
      BY <1>2, <1>13, <3>3, <3>4, <3>6
  <2>3. QED
    BY <1>13, <2>1, <2>2, CliActs DEF CliHd, CliAt
<1>14. CASE In("key", CliThen(":", T), <<h.key>>, <<>>)
  <2>1. CASE CliRefill
    <3>1. CliGood(r)' /\ (In("key", CliThen(":", T), <<h.key>>, <<>>)' \/ cliPc' \in {"nullopt", "escaped"})
      BY <1>11, <1>14, <2>1, CliHdRefill
    <3>2. QED
      BY <1>2, <1>14, <3>1 DEF Goal
  <2>2. CASE CliReadKey
    <3>1. cliBuf # <<>> /\ cliWord = <<h.key>> /\ cliKey = <<>> /\ cliPc = "key"
      BY <1>14, <2>2 DEF CliReadKey, CliReadValue, CliByte, CliHd, CliAt
    <3>2. CliHd(r, k, "key", CliThen(":", T), <<h.key>>, <<>>)
      BY <1>9, <1>14
    <3>3. /\ CliFirst = ":"
          /\ cliBuf' = Tail(cliBuf) /\ CliKeepOthers /\ CliHdGoes("value", <<>>, <<h.key>>)
               => CliGood(r)' /\ CliHd(r, k, "value", T, <<>>, <<h.key>>)'
      BY <1>6, <1>7, <1>8, <3>1, <3>2, CliHdTake, CliByteFacts
    <3>4. /\ cliBuf' = Tail(cliBuf) /\ CliKeepOthers /\ cliPc' = "value" /\ cliCount' = cliCount
          /\ cliWord' = <<>> /\ cliKey' = cliWord /\ cliResp' = cliResp
      BY <2>2, <3>3 DEF CliReadKey, CliAccept
    <3>5. cliWord' = <<>>
      BY <3>4
    <3>6. CliHdGoes("value", <<>>, <<h.key>>)
      BY <3>1, <3>4, <3>5 DEF CliHdGoes
    <3>7. QED
      BY <1>2, <1>14, <3>3, <3>4, <3>6
  <2>3. QED
    BY <1>14, <2>1, <2>2, CliActs DEF CliHd, CliAt
<1>15. CASE In("value", T, <<>>, <<h.key>>)
  <2>1. CASE CliRefill
    <3>1. CliGood(r)' /\ (In("value", T, <<>>, <<h.key>>)' \/ cliPc' \in {"nullopt", "escaped"})
      BY <1>11, <1>15, <2>1, CliHdRefill
    <3>2. QED
      BY <1>2, <1>15, <3>1 DEF Goal
  <2>2. CASE CliReadValue
    <3>1. cliBuf # <<>> /\ cliWord = <<>> /\ cliKey = <<h.key>> /\ cliPc = "value"
      BY <1>15, <2>2 DEF CliReadKey, CliReadValue, CliByte, CliHd, CliAt
    <3>2. CliHd(r, k, "value", CliThen(h.line, CliLine(F)), <<>>, <<h.key>>)
      BY <1>9, <1>15
    <3>3. /\ CliFirst = h.line
          /\ cliBuf' = Tail(cliBuf) /\ CliKeepOthers /\ CliHdGoes("value", <<h.line>>, <<h.key>>)
               => CliGood(r)' /\ CliHd(r, k, "value", CliLine(F), <<h.line>>, <<h.key>>)'
      BY <1>6, <1>7, <1>8, <3>1, <3>2, CliHdTake, CliByteFacts
    <3>4. /\ cliBuf' = Tail(cliBuf) /\ CliKeepOthers /\ cliPc' = "value" /\ cliCount' = cliCount
          /\ cliWord' = Append(cliWord, h.line) /\ cliKey' = cliKey /\ cliResp' = cliResp
      BY <1>6, <2>2, <3>1, <3>3 DEF CliReadValue, CliAtEol, CliCollect, CliAccept
    <3>5. cliWord' = <<h.line>>
      BY <1>6, <3>1, <3>4, CliWord1, CliByteFacts
    <3>6. CliHdGoes("value", <<h.line>>, <<h.key>>)
      BY <3>1, <3>4, <3>5 DEF CliHdGoes
    <3>7. QED
      BY <1>2, <1>15, <3>3, <3>4, <3>6
  <2>3. QED
    BY <1>15, <2>1, <2>2, CliActs DEF CliHd, CliAt
<1>16. CASE h.folded # "" /\ In("fold", F, <<h.line>>, <<h.key>>)
  <2>1. CASE CliRefill
    <3>1. CliGood(r)' /\ (In("fold", F, <<h.line>>, <<h.key>>)' \/ cliPc' \in {"nullopt", "escaped"})
      BY <1>11, <1>16, <2>1, CliHdRefill
    <3>2. QED
      BY <1>2, <1>16, <3>1 DEF Goal
  <2>2. CASE CliReadValue
    <3>1. cliBuf # <<>> /\ cliWord = <<h.line>> /\ cliKey = <<h.key>> /\ cliPc = "fold"
      BY <1>16, <2>2 DEF CliReadKey, CliReadValue, CliByte, CliHd, CliAt
    <3>2. CliHd(r, k, "fold", CliThen(" ", CliThen(h.folded, CliLine(rest))), <<h.line>>, <<h.key>>)
      BY <1>9, <1>16
    <3>3. /\ CliFirst = " "
          /\ cliBuf' = Tail(cliBuf) /\ CliKeepOthers /\ CliHdGoes("fold", <<h.line, " ">>, <<h.key>>)
               => CliGood(r)' /\ CliHd(r, k, "fold", CliThen(h.folded, CliLine(rest)), <<h.line, " ">>, <<h.key>>)'
      BY <1>6, <1>7, <1>8, <3>1, <3>2, CliHdTake, CliByteFacts
    <3>4. /\ cliBuf' = Tail(cliBuf) /\ CliKeepOthers /\ cliPc' = "fold" /\ cliCount' = cliCount
          /\ cliWord' = Append(cliWord, " ") /\ cliKey' = cliKey /\ cliResp' = cliResp
      BY <1>6, <2>2, <3>1, <3>3 DEF CliReadValue, CliAtEol, CliCollect, CliAccept
    <3>5. cliWord' = <<h.line, " ">>
      BY <1>6, <3>1, <3>4, CliWord2, CliByteFacts
    <3>6. CliHdGoes("fold", <<h.line, " ">>, <<h.key>>)
      BY <3>1, <3>4, <3>5 DEF CliHdGoes
    <3>7. QED
      BY <1>2, <1>16, <3>3, <3>4, <3>6
  <2>3. QED
    BY <1>16, <2>1, <2>2, CliActs DEF CliHd, CliAt
<1>17. CASE h.folded # "" /\ In("fold", CliThen(h.folded, CliLine(rest)), <<h.line, " ">>, <<h.key>>)
  <2>1. CASE CliRefill
    <3>1. CliGood(r)' /\ (In("fold", CliThen(h.folded, CliLine(rest)), <<h.line, " ">>, <<h.key>>)' \/ cliPc' \in {"nullopt", "escaped"})
      BY <1>11, <1>17, <2>1, CliHdRefill
    <3>2. QED
      BY <1>2, <1>17, <3>1 DEF Goal
  <2>2. CASE CliReadValue
    <3>1. cliBuf # <<>> /\ cliWord = <<h.line, " ">> /\ cliKey = <<h.key>> /\ cliPc = "fold"
      BY <1>17, <2>2 DEF CliReadKey, CliReadValue, CliByte, CliHd, CliAt
    <3>2. CliHd(r, k, "fold", CliThen(h.folded, CliLine(rest)), <<h.line, " ">>, <<h.key>>)
      BY <1>9, <1>17
    <3>3. /\ CliFirst = h.folded
          /\ cliBuf' = Tail(cliBuf) /\ CliKeepOthers /\ CliHdGoes("fold", <<h.line, " ", h.folded>>, <<h.key>>)
               => CliGood(r)' /\ CliHd(r, k, "fold", CliLine(rest), <<h.line, " ", h.folded>>, <<h.key>>)'
      BY <1>6, <1>7, <1>8, <3>1, <3>2, CliHdTake, CliByteFacts
    <3>4. /\ cliBuf' = Tail(cliBuf) /\ CliKeepOthers /\ cliPc' = "fold" /\ cliCount' = cliCount
          /\ cliWord' = Append(cliWord, h.folded) /\ cliKey' = cliKey /\ cliResp' = cliResp
      BY <1>6, <2>2, <3>1, <3>3 DEF CliReadValue, CliAtEol, CliCollect, CliAccept
    <3>5. cliWord' = <<h.line, " ", h.folded>>
      BY <1>6, <3>1, <3>4, CliWord3, CliByteFacts
    <3>6. CliHdGoes("fold", <<h.line, " ", h.folded>>, <<h.key>>)
      BY <3>1, <3>4, <3>5 DEF CliHdGoes
    <3>7. QED
      BY <1>2, <1>17, <3>3, <3>4, <3>6
  <2>3. QED
    BY <1>17, <2>1, <2>2, CliActs DEF CliHd, CliAt
<1>18. CASE In("value", CliLine(F), <<h.line>>, <<h.key>>)
  <2>1. CASE CliRefill
    <3>1. CliGood(r)' /\ (In("value", CliLine(F), <<h.line>>, <<h.key>>)' \/ cliPc' \in {"nullopt", "escaped"})
      BY <1>11, <1>18, <2>1, CliHdRefill
    <3>2. QED
      BY <1>2, <1>18, <3>1 DEF Goal
  <2>2. CASE CliReadValue
    <3>1. CASE h.folded = ""
      <4>1. F = rest /\ CliValue(h) = <<h.line>>
        BY <1>4, <1>9, <3>1
      <4>2. QED
        BY <1>5, <1>18, <2>2, <4>1
    <3>2. CASE h.folded # ""
      <4>1. F = CliThen(" ", CliThen(h.folded, CliLine(rest)))
        BY <1>9, <3>2
      <4>2. F[1] = " "
        BY <1>7, <4>1, CliThenSeq, CliByteFacts
      <4>3. cliBuf # <<>> /\ CliLeft = CliLine(F) /\ cliWord = <<h.line>> /\ cliKey = <<h.key>>
        BY <1>18, <2>2 DEF CliReadValue, CliByte, CliHd, CliAt
      <4>4. /\ CliAtEol /\ CliPeek(2) = " "
            /\ cliBuf' = SubSeq(cliBuf, 3, Len(cliBuf)) /\ CliKeepOthers => CliGood(r)' /\ CliLeft' = F
        BY <1>7, <1>10, <4>2, <4>3, CliEolThere
      <4>5. /\ cliBuf' = SubSeq(cliBuf, 3, Len(cliBuf)) /\ CliKeepOthers
            /\ CliHdGoes("fold", <<h.line>>, <<h.key>>)
        BY <2>2, <4>3, <4>4 DEF CliReadValue, CliEol, CliHdGoes
      <4>6. In("fold", F, <<h.line>>, <<h.key>>)'
        BY <1>18, <4>4, <4>5, CliHdKeeps
      <4>7. QED
        BY <1>2, <3>2, <4>4, <4>5, <4>6
    <3>3. QED
      BY <3>1, <3>2
  <2>3. QED
    BY <1>18, <2>1, <2>2, CliActs DEF CliHd, CliAt
<1>19. CASE h.folded # "" /\ In("fold", CliLine(rest), <<h.line, " ", h.folded>>, <<h.key>>)
  <2>1. CASE CliRefill
    <3>1. CliGood(r)' /\ (In("fold", CliLine(rest), <<h.line, " ", h.folded>>, <<h.key>>)' \/ cliPc' \in {"nullopt", "escaped"})
      BY <1>11, <1>19, <2>1, CliHdRefill
    <3>2. QED
      BY <1>2, <1>19, <3>1 DEF Goal
  <2>2. CASE CliReadValue
    BY <1>4, <1>5, <1>19, <2>2
  <2>3. QED
    BY <1>19, <2>1, <2>2, CliActs DEF CliHd, CliAt
<1>20. QED
  BY <1>3, <1>12, <1>13, <1>14, <1>15, <1>16, <1>17, <1>18, <1>19

\* The loop over the headers, and the blank line.
LEMMA CliHeadersStep ==
  ASSUME NEW r \in CliResponses, CliGood(r), CliInHeaders(r), CliNext, ~cliSplit', cliPc' # "astray"
  PROVE  CliGood(r)' /\ (CliInHeaders(r)' \/ CliInBody(r)' \/ cliPc' \in {"nullopt", "escaped"})
<1> DEFINE N == CliCodeOf(r.code)
           n == Len(r.headers)
<1>1. n \in Nat /\ r.body \in Seq(CliBytes) /\ CliSo(1, N, <<"info">>, <<>>)
  BY CliResponse DEF CliInHeaders
<1>2. ASSUME NEW k \in 0 .. n, cliBuf # <<>>, CliAt(r, "headers", CliSends(r)[k], 0, <<>>, <<>>, k)
      PROVE  CliGood(r)' /\ CliInHeaders(r)'
  <2>1. CliHeaders
    BY <1>2, CliActs DEF CliAt
  <2>2. /\ CliKeepOthers /\ cliBuf' = cliBuf /\ cliCount' = cliCount /\ cliWord' = cliWord /\ cliKey' = cliKey
        /\ cliResp' = cliResp /\ cliPc' = IF CliPeek(0) # "CR" /\ CliPeek(1) # "LF" THEN "refill" ELSE "blank"
    BY <2>1 DEF CliHeaders, cliLocals
  <2>3. CliGood(r)' /\ CliLeft' = CliSends(r)[k]
    BY <1>2, <2>2, CliStay DEF CliAt
  <2>4. CliSo(1, N, <<"info">>, <<>>)'
    BY <1>1, <2>2, CliSoField
  <2>5. ASSUME NEW pc, cliPc' = pc PROVE CliAt(r, pc, CliSends(r)[k], 0, <<>>, <<>>, k)'
    BY <1>2, <2>2, <2>3, <2>5 DEF CliAt
  <2>6. CASE k = 0
    <3>1. CliLeft = CliLine(r.body)
      BY <1>2, <2>6, CliSendsLast DEF CliAt
    <3>2. CliPeek(0) = "CR"
      BY <1>2, <3>1, CliBlankThere
    <3>3. CliAt(r, "blank", CliSends(r)[0], 0, <<>>, <<>>, 0)'
      BY <2>2, <2>5, <2>6, <3>2
    <3>4. QED
      BY <1>2, <2>2, <2>3, <2>4, <3>3 DEF CliInHeaders
  <2>7. CASE k # 0
    <3>1. k \in 1 .. n
      BY <1>1, <2>7
    <3> DEFINE h == r.headers[n + 1 - k]
               rest == CliSends(r)[k - 1]
               T == CliText(h, rest)
    <3>2. h \in CliHeader /\ CliSends(r)[k] = CliField(h, rest) /\ rest \in Seq(CliBytes)
      BY <3>1, CliSendsHeader, CliSendsAll
    <3> HIDE DEF h, rest
    <3>3. h.key \in CliBytes /\ h.key # "CR" /\ T \in Seq(CliBytes)
      BY <3>2, CliHeaderFacts, CliFieldSeq
    <3>4. CliLeft = CliThen(h.key, CliThen(":", T))
      BY <1>2, <3>2 DEF CliAt, CliField
    <3> HIDE DEF T
    <3>5. CliPeek(0) # "CR" /\ CliPeek(1) # "LF"
      <4>1. CliPeek(0) = h.key /\ CliPeek(1) \in {":", "nul"}
        BY <1>2, <3>3, <3>4, CliSecond, CliByteFacts
      <4>2. QED
        BY <3>3, <4>1
    <3>6. CliAt(r, "refill", CliSends(r)[k], 0, <<>>, <<>>, k)'
      BY <2>2, <2>5, <3>5
    <3>7. QED
      BY <2>3, <2>4, <3>1, <3>6 DEF CliInHeaders, CliInHeader
  <2>8. QED
    BY <2>6, <2>7
<1>3. ASSUME cliBuf # <<>>, CliAt(r, "blank", CliSends(r)[0], 0, <<>>, <<>>, 0)
      PROVE  CliGood(r)' /\ CliInBody(r)'
  <2>1. CliBlank
    BY <1>3, CliActs DEF CliAt
  <2>2. CliLeft = CliLine(r.body) /\ CliMeans(cliResp.headers, r.headers, n)
    BY <1>1, <1>3, CliSendsLast DEF CliAt
  <2>3. /\ ~(Len(cliBuf) < 2)
        /\ cliBuf' = SubSeq(cliBuf, 3, Len(cliBuf)) /\ CliKeepOthers => CliGood(r)' /\ CliLeft' = r.body
    BY <1>3, <2>2, CliBlankThere
  <2>4. /\ cliBuf' = SubSeq(cliBuf, 3, Len(cliBuf)) /\ CliKeepOthers /\ cliResp' = cliResp /\ cliPc' = "body"
    BY <2>1, <2>3 DEF CliBlank, cliLocals
  <2>5. CliSo(1, N, <<"info">>, <<>>)' /\ cliResp.body = <<>>
    BY <1>1, <2>4, CliSoField
  <2>6. CliSo(1, N, <<"info">>, cliResp.body)'
    BY <2>4, <2>5 DEF CliSo
  <2>7. <<>> \in Seq(CliBytes) /\ <<>> \o r.body = r.body
    BY <1>1
  <2>8. CliInBody(r)'
    BY <2>2, <2>3, <2>4, <2>5, <2>6, <2>7 DEF CliInBody
  <2>9. QED
    BY <2>3, <2>4, <2>8
<1>4. ASSUME NEW k \in 1 .. n, CliInHeader(r, k)
      PROVE  CliGood(r)' /\ (CliInHeaders(r)' \/ cliPc' \in {"nullopt", "escaped"})
  BY <1>1, <1>4, CliHeaderStep
<1>5. QED
  BY <1>2, <1>3, <1>4 DEF CliInHeaders

\* The body.
LEMMA CliBodyStep ==
  ASSUME NEW r \in CliResponses, CliGood(r), CliInBody(r), CliNext, ~cliSplit', cliPc' # "astray"
  PROVE  CliGood(r)' /\ CliInBody(r)'
<1> DEFINE N == CliCodeOf(r.code)
<1>1. /\ CliSo(1, N, <<"info">>, cliResp.body) /\ CliMeans(cliResp.headers, r.headers, Len(r.headers))
      /\ cliResp.body \in Seq(CliBytes) /\ cliResp.body \o CliLeft = r.body
      /\ cliPc = "body" \/ cliPc = "take"
  BY CliActs DEF CliInBody
<1>2. CASE cliPc = "body"
  <2>1. CliRefill
    BY <1>2, CliActs
  <2>2. CliGood(r)' /\ CliLeft' = CliLeft /\ cliResp' = cliResp /\ cliPc' = "take"
    BY <1>2, <2>1, CliRefilled, CliRefillAt DEF cliLocals
  <2>3. cliBuf' = <<>> => cliNet' = <<>>
    <3>1. ASSUME NEW m \in 1 .. Len(cliNet), cliBuf' = cliBuf \o SubSeq(cliNet, 1, m) PROVE cliBuf' # <<>>
      <4> DEFINE p == SubSeq(cliNet, 1, m)
      <4>1. cliNet \in Seq(CliBytes) /\ cliBuf \in Seq(CliBytes)
        BY CliLeftParts
      <4>2. p \in Seq(CliBytes) /\ Len(p) = m
        BY <4>1, CliCut
      <4> HIDE DEF p
      <4>3. Len(cliBuf \o p) # 0
        BY <4>1, <4>2
      <4>4. QED
        BY <3>1, <4>3 DEF p
    <3>2. QED
      BY <2>1, <3>1 DEF CliRefill
  <2>4. QED
    BY <1>1, <2>2, <2>3 DEF CliInBody, CliSo
<1>3. CASE cliPc = "take"
  <2>1. CliBody
    BY <1>3, CliActs
  <2>2. /\ cliPc' = IF cliBuf = <<>> THEN "returned" ELSE "body"
        /\ cliBuf' = <<>> /\ CliKeepOthers /\ cliResp' = [cliResp EXCEPT !["body"] = cliResp.body \o cliBuf]
    BY <2>1 DEF CliBody
  <2>3. cliAnswer' = cliAnswer /\ cliNet' = cliNet /\ cliLost' = cliLost
    BY <2>2 DEF CliKeepOthers
  <2>4. CliGood(r)'
    BY <2>2, <2>3 DEF CliGood
  <2> DEFINE b == cliResp.body
             z == cliNet \o cliLost
  <2>5. cliBuf \in Seq(CliBytes) /\ z \in Seq(CliBytes) /\ CliLeft = cliBuf \o z
    BY CliLeftParts
  <2>6. b \in Seq(CliBytes) /\ b \o CliLeft = r.body
    BY <1>1
  <2>7. CliLeft' = z
    <3>1. <<>> \o z = z
      BY <2>5
    <3>2. QED
      BY <2>2, <2>3, <3>1 DEF CliLeft
  <2> HIDE DEF b, z
  <2>8. (b \o cliBuf) \o z = r.body /\ b \o cliBuf \in Seq(CliBytes)
    <3>1. (b \o cliBuf) \o z = b \o (cliBuf \o z)
      BY <2>5, <2>6, CliAssociative
    <3>2. QED
      BY <2>5, <2>6, <3>1
  <2>9. /\ CliSo(1, N, <<"info">>, cliResp.body)' /\ cliResp'.headers = cliResp.headers
        /\ cliResp'.body = b \o cliBuf
    <3>1. PICK b0 : b0 = b
      OBVIOUS
    <3>2. PICK w : w = b0 \o cliBuf
      OBVIOUS
    <3>3. CliSo(1, N, <<"info">>, b0) /\ cliResp' = [cliResp EXCEPT !["body"] = w]
      BY <1>1, <2>2, <3>1, <3>2 DEF b
    <3>4. CliSo(1, N, <<"info">>, w)' /\ cliResp'.headers = cliResp.headers
      BY <3>3, CliSoField
    <3>5. cliResp'.body = w
      BY <3>4 DEF CliSo
    <3>6. QED
      BY <3>1, <3>2, <3>4, <3>5 DEF CliSo
  <2>10. cliResp'.body \o CliLeft' = r.body /\ cliResp'.body \in Seq(CliBytes)
    BY <2>7, <2>8, <2>9
  <2>11. cliPc' \in {"body", "returned"} /\ (cliPc' = "returned" => cliNet' = <<>>)
    BY <1>3, <2>2, <2>3 DEF CliInBody
  <2>12. CliInBody(r)'
    BY <1>1, <2>2, <2>9, <2>10, <2>11 DEF CliInBody
  <2>13. QED
    BY <2>4, <2>12
<1>4. QED
  BY <1>1, <1>2, <1>3

-----------------------------------------------------------------------------
(* What the server sent is what make_request returns.                      *)
LEMMA CliInitially ==
  ASSUME CliInit PROVE CliIInv
<1>1. PICK r \in CliResponses : cliAnswer = r
  BY DEF CliInit
<1>2. CliEncode(r) \in Seq(CliBytes) /\ Len(r.headers) \in Nat
  BY CliStatusSeq, CliResponse
<1>3. /\ cliBuf = <<>> /\ cliNet = CliEncode(r) /\ cliLost = <<>> /\ cliPc = "request" /\ cliCount = 0
      /\ cliWord = <<>> /\ cliKey = <<>>
      /\ cliResp = [major |-> 0, minor |-> 0, code |-> 0, info |-> <<>>, headers |-> CliNoHeader, body |-> <<>>]
  BY <1>1 DEF CliInit
<1>4. CliGood(r)
  BY <1>1, <1>2, <1>3 DEF CliGood
<1>5. CliLeft = CliEncode(r)
  BY <1>2, <1>3 DEF CliLeft
<1>6. cliResp.headers = CliNoHeader /\ CliSo(0, 0, <<>>, <<>>)
  BY <1>3 DEF CliSo
<1>7. CliMeans(CliNoHeader, r.headers, Len(r.headers) - Len(r.headers))
  <2>1. Len(r.headers) - Len(r.headers) = 0 /\ 1 .. 0 = {}
    BY <1>2
  <2>2. DOMAIN CliNoHeader = {}
    BY DEF CliNoHeader
  <2>3. QED
    BY <2>1, <2>2 DEF CliMeans
<1>8. CliInStatus(r)
  BY <1>3, <1>5, <1>6, <1>7 DEF CliInStatus, CliSt, CliAt
<1>9. QED
  BY <1>4, <1>8 DEF CliIInv

\* Nothing but where make_request is changes when it goes astray.
LEMMA CliGoesAstray ==
  ASSUME CliNext, cliPc' = "astray"
  PROVE  cliAnswer' = cliAnswer /\ cliBuf' = cliBuf /\ cliNet' = cliNet /\ cliLost' = cliLost
<1>1. CliRefill \/ CliAstray
  BY DEF CliNext, CliRequest, CliExpect, CliNumber, CliSpace, CliByte, CliInfo, CliHeaders, CliReadKey, CliReadValue,
         CliBlank, CliBody, CliAccept, CliCollect, CliEol
<1>2. CASE CliRefill
  BY <1>2 DEF CliRefill, CliChecked
<1>3. CASE CliAstray
  BY <1>3 DEF CliAstray, CliKeepOthers
<1>4. QED
  BY <1>1, <1>2, <1>3

LEMMA CliStep ==
  ASSUME CliIInv, CliNext PROVE CliIInv'
<1>1. CASE cliSplit
  <2>1. cliSplit'
    BY <1>1 DEF CliNext, CliRequest, CliRefill, CliExpect, CliNumber, CliSpace, CliInfo, CliHeaders, CliReadKey,
              CliReadValue, CliAstray, CliBlank, CliBody, CliAccept, CliCollect, CliEol, CliKeepOthers
  <2>2. QED
    BY <2>1 DEF CliIInv
<1>2. CASE ~cliSplit /\ ~cliSplit'
  <2>1. PICK r \in CliResponses :
          /\ CliGood(r)
          /\ CliInStatus(r) \/ CliInHeaders(r) \/ CliInBody(r) \/ cliPc \in {"nullopt", "escaped", "astray"}
    BY <1>2 DEF CliIInv
  <2>2. CASE cliPc' = "astray"
    <3>1. cliAnswer' = cliAnswer /\ cliBuf' = cliBuf /\ cliNet' = cliNet /\ cliLost' = cliLost
      BY <2>2, CliGoesAstray
    <3>2. CliGood(r)'
      BY <2>1, <3>1 DEF CliGood
    <3>3. QED
      BY <2>2, <3>2 DEF CliIInv
  <2>3. CASE cliPc' # "astray"
    <3> SUFFICES CliGood(r)' /\ (CliInStatus(r)' \/ CliInHeaders(r)' \/ CliInBody(r)' \/ cliPc' \in {"nullopt", "escaped"})
      BY DEF CliIInv
    <3>1. CASE CliInStatus(r)
      BY <1>2, <2>1, <2>3, <3>1, CliStatusStep
    <3>2. CASE CliInHeaders(r)
      BY <1>2, <2>1, <2>3, <3>2, CliHeadersStep
    <3>3. CASE CliInBody(r)
      BY <1>2, <2>1, <2>3, <3>3, CliBodyStep
    <3>4. CASE cliPc \in {"nullopt", "escaped", "astray"}
      BY <2>3, <3>4, CliActs
    <3>5. QED
      BY <2>1, <3>1, <3>2, <3>3, <3>4
  <2>4. QED
    BY <2>2, <2>3
<1>3. CASE cliSplit'
  BY <1>3 DEF CliIInv
<1>4. QED
  BY <1>1, <1>2, <1>3

LEMMA CliStutter ==
  ASSUME CliIInv, UNCHANGED cliVars PROVE CliIInv'
<1>1. /\ cliAnswer' = cliAnswer /\ cliNet' = cliNet /\ cliLost' = cliLost /\ cliSplit' = cliSplit
      /\ cliBuf' = cliBuf /\ cliPc' = cliPc /\ cliWord' = cliWord /\ cliKey' = cliKey
      /\ cliCount' = cliCount /\ cliResp' = cliResp
  BY DEF cliVars
<1>2. CASE cliSplit
  BY <1>1, <1>2 DEF CliIInv
<1>3. CASE ~cliSplit
  <2>1. PICK r \in CliResponses :
          /\ CliGood(r)
          /\ CliInStatus(r) \/ CliInHeaders(r) \/ CliInBody(r) \/ cliPc \in {"nullopt", "escaped", "astray"}
    BY <1>3 DEF CliIInv
  <2>2. ASSUME NEW pc, NEW left, NEW count, NEW word, NEW key, NEW k, CliAt(r, pc, left, count, word, key, k)
        PROVE  CliAt(r, pc, left, count, word, key, k)'
    BY <1>1, <2>2 DEF CliAt, CliLeft
  <2>3. ASSUME NEW major, NEW code, NEW info, NEW body, CliSo(major, code, info, body)
        PROVE  CliSo(major, code, info, body)'
    BY <1>1, <2>3 DEF CliSo
  <2>4. ASSUME NEW pc, NEW left, NEW count, NEW word, NEW major, NEW code, CliSt(r, pc, left, count, word, major, code)
        PROVE  CliSt(r, pc, left, count, word, major, code)'
    BY <2>2, <2>3, <2>4 DEF CliSt
  <2>5. CliInStatus(r) => CliInStatus(r)'
    BY <2>4 DEF CliInStatus
  <2>6. CliInHeaders(r) => CliInHeaders(r)'
    <3>1. ASSUME NEW k \in 1 .. Len(r.headers), CliInHeader(r, k) PROVE CliInHeader(r, k)'
      BY <2>2, <3>1 DEF CliInHeader
    <3>2. QED
      BY <1>1, <2>2, <2>3, <3>1 DEF CliInHeaders
  <2>7. CliInBody(r) => CliInBody(r)'
    BY <1>1 DEF CliInBody, CliSo, CliLeft
  <2>8. CliGood(r)'
    BY <1>1, <2>1 DEF CliGood
  <2>9. QED
    BY <1>1, <2>1, <2>5, <2>6, <2>7, <2>8 DEF CliIInv
<1>4. QED
  BY <1>2, <1>3

LEMMA CliImplies ==
  ASSUME CliIInv PROVE CliAsSent
<1> SUFFICES ASSUME cliPc = "returned", ~cliSplit
             PROVE  /\ cliResp.major = 1 /\ cliResp.minor = 0 /\ cliResp.code = CliCodeOf(cliAnswer.code)
                    /\ cliResp.info = <<"info">>
                    /\ CliMeans(cliResp.headers, cliAnswer.headers, Len(cliAnswer.headers))
                    /\ cliResp.body \o cliLost = cliAnswer.body
  BY DEF CliAsSent
<1>1. PICK r \in CliResponses :
        /\ CliGood(r)
        /\ CliInStatus(r) \/ CliInHeaders(r) \/ CliInBody(r) \/ cliPc \in {"nullopt", "escaped", "astray"}
  BY DEF CliIInv
<1>2. CliInBody(r)
  BY <1>1 DEF CliInStatus, CliSt, CliInHeaders, CliInHeader, CliAt
<1>3. /\ cliAnswer = r /\ CliSo(1, CliCodeOf(r.code), <<"info">>, cliResp.body)
      /\ CliMeans(cliResp.headers, r.headers, Len(r.headers))
      /\ cliResp.body \o CliLeft = r.body /\ cliBuf = <<>> /\ cliNet = <<>>
  BY <1>1, <1>2 DEF CliInBody, CliGood
<1>4. CliLeft = cliLost
  <2>1. cliLost \in Seq(CliBytes)
    BY <1>1 DEF CliGood
  <2>2. QED
    BY <1>3, <2>1 DEF CliLeft
<1>5. cliResp.major = 1 /\ cliResp.minor = 0 /\ cliResp.code = CliCodeOf(r.code) /\ cliResp.info = <<"info">>
  BY <1>3 DEF CliSo
<1>6. QED
  BY <1>3, <1>4, <1>5

(* Wherever the connection breaks, the status, the headers and the body    *)
(* that make_request returns are the ones that were sent, with any number  *)
(* of headers, continued or repeated, and any body, for a ring of any      *)
(* size, unless a piece of the head ends within a line end or make_request *)
(* went astray (CliAsSent): the ring would have grown with its first byte  *)
(* not in cell 0, or a look ahead met a byte of an earlier lap.            *)
THEOREM CliReturnsAsSent == CliSpec => []CliAsSent
<1>1. CliInit => CliIInv
  BY CliInitially
<1>2. CliIInv /\ [CliNext]_cliVars => CliIInv'
  BY CliStep, CliStutter
<1>3. CliIInv => CliAsSent
  BY CliImplies
<1>4. QED
  BY <1>1, <1>2, <1>3, PTL DEF CliSpec

-----------------------------------------------------------------------------
(***************************************************************************)
(* The readers of streams                                                  *)
(***************************************************************************)

(***************************************************************************)
(* The inductive invariant: a file is where pos_ says it is, no position   *)
(* of a buffer is behind the end, and the cache is no longer than a chunk. *)
(***************************************************************************)
BufferOk(b) ==
  /\ b \in [pos : 0 .. Size, off : Nat]
  /\ kind = "file" => b.off = b.pos
ReaderOk(c) ==
  /\ c \in [pos : Nat, start : 0 .. Size, cache : Seq(Bytes), src : [pos : 0 .. Size, off : Nat]]
  /\ BufferOk(c.src) /\ Len(c.cache) <= chunk
StreamsInv ==
  /\ kind \in {"memory", "file"} /\ chunk \in ChunkSizes
  /\ content \in Seq(Bytes) /\ Size <= MaxSize
  /\ BufferOk(stream) /\ ReaderOk(cached)

\* the part of StreamsInv that does not depend on the readers
StrEnv ==
  /\ kind \in {"memory", "file"} /\ chunk \in ChunkSizes
  /\ content \in Seq(Bytes) /\ Size <= MaxSize

LEMMA StrEnvFacts ==
  ASSUME StrEnv
  PROVE  /\ Size \in Nat /\ chunk \in Nat \ {0} /\ Rounds \in Nat /\ Rounds > Size
         /\ \A i \in 1 .. Size : content[i] \in Bytes
<1>1. Size \in Nat /\ chunk \in Nat \ {0}
  BY ChunkAssumption DEF StrEnv, Size
<1>2. Rounds \in Nat /\ Rounds > Size
  BY <1>1 DEF Rounds
<1>3. \A i \in 1 .. Size : content[i] \in Bytes
  BY DEF StrEnv, Size
<1>4. QED
  BY <1>1, <1>2, <1>3

\* The bytes between two positions, and how far n bytes from p on reach.
Part(p, q) == SubSeq(content, p + 1, q)
Upto(p, n) == Least(p + n, Size)

LEMMA StrUpto ==
  ASSUME StrEnv, NEW p \in 0 .. Size, NEW n \in Nat
  PROVE  /\ Upto(p, n) \in 0 .. Size /\ Upto(p, n) >= p /\ Upto(p, n) <= p + n
         /\ Upto(p, n) = p + Least(n, Size - p)
         /\ n = 0 => Upto(p, n) = p
         /\ p = Size => Upto(p, n) = p
         /\ n # 0 /\ p # Size => Upto(p, n) # p
         /\ n = 1 /\ p # Size => Upto(p, n) = p + 1
         /\ n >= Size - p => Upto(p, n) = Size
<1>1. Size \in Nat /\ p \in Nat /\ p <= Size
  BY StrEnvFacts
<1>2. QED
  BY <1>1 DEF Upto, Least

LEMMA StrPart ==
  ASSUME StrEnv, NEW p \in 0 .. Size, NEW q \in 0 .. Size, p <= q
  PROVE  /\ Part(p, q) \in Seq(Bytes) /\ Len(Part(p, q)) = q - p
         /\ \A i \in 1 .. q - p : Part(p, q)[i] = content[p + i]
         /\ Part(p, q) = << >> <=> p = q
<1>1. p + 1 \in Int /\ q \in Int /\ p \in Nat /\ q \in Nat /\ Size \in Nat
  BY StrEnvFacts
<1>2. \A i \in p + 1 .. q : content[i] \in Bytes
  <2> SUFFICES ASSUME NEW i \in p + 1 .. q PROVE content[i] \in Bytes
    OBVIOUS
  <2>1. i \in 1 .. Size
    BY <1>1
  <2>2. QED
    BY <2>1, StrEnvFacts
<1>3. /\ SubSeq(content, p + 1, q) \in Seq(Bytes)
      /\ Len(SubSeq(content, p + 1, q)) = IF p + 1 <= q THEN q - (p + 1) + 1 ELSE 0
      /\ \A i \in 1 .. q - (p + 1) + 1 : SubSeq(content, p + 1, q)[i] = content[p + 1 + i - 1]
  BY <1>1, <1>2, SubSeqProperties
<1>4. q - (p + 1) + 1 = q - p /\ (p + 1 <= q <=> p # q) /\ \A i \in 1 .. q - p : p + 1 + i - 1 = p + i
  BY <1>1
<1>5. Part(p, q) \in Seq(Bytes) /\ Len(Part(p, q)) = q - p
  BY <1>1, <1>3, <1>4 DEF Part
<1>6. \A i \in 1 .. q - p : Part(p, q)[i] = content[p + i]
  BY <1>3, <1>4 DEF Part
<1>7. Part(p, q) = << >> <=> p = q
  <2>1. Part(p, q) = << >> <=> Len(Part(p, q)) = 0
    BY <1>5
  <2>2. QED
    BY <1>1, <1>5, <2>1
<1>8. QED
  BY <1>5, <1>6, <1>7

\* Two sequences with the same elements are the same.
LEMMA StrSame ==
  ASSUME NEW s \in Seq(Bytes), NEW t \in Seq(Bytes), NEW n \in Nat, Len(s) = n, Len(t) = n,
         \A i \in 1 .. n : s[i] = t[i]
  PROVE  s = t
BY SeqEqual

LEMMA StrPartJoin ==
  ASSUME StrEnv, NEW p \in 0 .. Size, NEW q \in 0 .. Size, NEW r \in 0 .. Size, p <= q, q <= r
  PROVE  Part(p, q) \o Part(q, r) = Part(p, r)
<1>1. p \in Nat /\ q \in Nat /\ r \in Nat /\ p <= r
  BY StrEnvFacts
<1>2. PICK s : s = Part(p, q) /\ s \in Seq(Bytes) /\ Len(s) = q - p /\ \A i \in 1 .. q - p : s[i] = content[p + i]
  BY StrPart
<1>3. PICK t : t = Part(q, r) /\ t \in Seq(Bytes) /\ Len(t) = r - q /\ \A i \in 1 .. r - q : t[i] = content[q + i]
  BY StrPart
<1>4. PICK u : u = Part(p, r) /\ u \in Seq(Bytes) /\ Len(u) = r - p /\ \A i \in 1 .. r - p : u[i] = content[p + i]
  BY <1>1, StrPart
<1>5. PICK v : /\ v = s \o t /\ v \in Seq(Bytes) /\ Len(v) = Len(s) + Len(t)
               /\ \A i \in 1 .. Len(s) + Len(t) : v[i] = IF i <= Len(s) THEN s[i] ELSE t[i - Len(s)]
  <2>1. /\ s \o t \in Seq(Bytes) /\ Len(s \o t) = Len(s) + Len(t)
        /\ \A i \in 1 .. Len(s) + Len(t) : (s \o t)[i] = IF i <= Len(s) THEN s[i] ELSE t[i - Len(s)]
    <3>1. s \in Seq(Bytes) /\ t \in Seq(Bytes)
      BY <1>2, <1>3
    <3>2. QED
      BY <3>1, ConcatProperties
  <2>2. QED
    BY <2>1
<1>6. Len(v) = r - p /\ r - p \in Nat
  <2>1. Len(v) = (q - p) + (r - q)
    BY <1>2, <1>3, <1>5
  <2>2. (q - p) + (r - q) = r - p /\ r - p \in Nat
    BY <1>1
  <2>3. QED
    BY <2>1, <2>2
<1>7. ASSUME NEW i \in 1 .. r - p PROVE v[i] = u[i]
  <2>1. v[i] = IF i <= Len(s) THEN s[i] ELSE t[i - Len(s)]
    <3>1. i \in 1 .. Len(s) + Len(t)
      BY <1>5, <1>6
    <3>2. QED
      BY <1>5, <3>1
  <2>2. u[i] = content[p + i]
    BY <1>4
  <2>3. CASE i <= q - p
    <3>1. i \in 1 .. q - p
      BY <1>1, <2>3
    <3>2. QED
      BY <1>2, <2>1, <2>2, <2>3, <3>1
  <2>4. CASE ~(i <= q - p)
    <3>1. i - (q - p) \in 1 .. r - q /\ q + (i - (q - p)) = p + i
      BY <1>1, <2>4
    <3>2. t[i - (q - p)] = content[q + (i - (q - p))]
      BY <1>3, <3>1
    <3>3. QED
      BY <1>2, <2>1, <2>2, <2>4, <3>1, <3>2
  <2>5. QED
    BY <2>3, <2>4
<1>8. v = u
  BY <1>4, <1>5, <1>6, <1>7, StrSame
<1>9. QED
  BY <1>2, <1>3, <1>4, <1>5, <1>8

LEMMA StrPartOne ==
  ASSUME StrEnv, NEW p \in 0 .. Size, p # Size
  PROVE  Part(p, p + 1) = <<content[p + 1]>> /\ p + 1 \in 0 .. Size /\ content[p + 1] \in Bytes
<1>1. p + 1 \in 0 .. Size /\ p + 1 \in 1 .. Size /\ p <= p + 1 /\ p + 1 - p = 1 /\ 1 \in 1 .. 1
  BY StrEnvFacts
<1>2. content[p + 1] \in Bytes
  BY <1>1, StrEnvFacts
<1>3. Part(p, p + 1) \in Seq(Bytes) /\ Len(Part(p, p + 1)) = 1 /\ Part(p, p + 1)[1] = content[p + 1]
  <2>1. PICK q \in 0 .. Size : q = p + 1 /\ p <= q /\ q - p = 1
    BY <1>1
  <2>2. Part(p, q) \in Seq(Bytes) /\ Len(Part(p, q)) = q - p /\ \A i \in 1 .. q - p : Part(p, q)[i] = content[p + i]
    BY <2>1, StrPart
  <2>3. QED
    BY <1>1, <2>1, <2>2
<1>4. PICK s : s = Part(p, p + 1) /\ s \in Seq(Bytes) /\ Len(s) = 1 /\ s[1] = content[p + 1]
  BY <1>3
<1>5. PICK b : b = content[p + 1] /\ b \in Bytes
  BY <1>2
<1>6. s = <<b>>
  BY <1>4, <1>5
<1>7. QED
  BY <1>1, <1>2, <1>4, <1>5, <1>6, Zenon

\* n bytes of what lies between s and e, behind the first o of them
LEMMA StrPartSub ==
  ASSUME StrEnv, NEW s \in 0 .. Size, NEW e \in 0 .. Size, NEW o \in Nat, NEW n \in Nat, s + o + n <= e
  PROVE  SubSeq(Part(s, e), o + 1, o + n) = Part(s + o, s + o + n)
<1>1. /\ s \in Nat /\ e \in Nat /\ s <= e /\ s + o \in 0 .. Size /\ s + o + n \in 0 .. Size /\ s + o <= s + o + n
      /\ (s + o + n) - (s + o) = n
  BY StrEnvFacts
<1>2. PICK t : t = Part(s, e) /\ t \in Seq(Bytes) /\ Len(t) = e - s /\ \A i \in 1 .. e - s : t[i] = content[s + i]
  BY <1>1, StrPart
<1>3. PICK u : u = Part(s + o, s + o + n) /\ u \in Seq(Bytes) /\ Len(u) = n /\ \A i \in 1 .. n : u[i] = content[s + o + i]
  <2>1. PICK a \in 0 .. Size, z \in 0 .. Size : a = s + o /\ z = s + o + n /\ a <= z /\ z - a = n
    BY <1>1
  <2>2. Part(a, z) \in Seq(Bytes) /\ Len(Part(a, z)) = z - a /\ \A i \in 1 .. z - a : Part(a, z)[i] = content[a + i]
    BY <2>1, StrPart
  <2>3. QED
    BY <2>1, <2>2
<1>4. \A i \in o + 1 .. o + n : i \in 1 .. e - s /\ t[i] \in Bytes
  <2> SUFFICES ASSUME NEW i \in o + 1 .. o + n PROVE i \in 1 .. e - s /\ t[i] \in Bytes
    OBVIOUS
  <2>1. i \in 1 .. e - s
    BY <1>1
  <2>2. QED
    BY <1>2, <2>1
<1>5. /\ SubSeq(t, o + 1, o + n) \in Seq(Bytes)
      /\ Len(SubSeq(t, o + 1, o + n)) = IF o + 1 <= o + n THEN o + n - (o + 1) + 1 ELSE 0
      /\ \A i \in 1 .. o + n - (o + 1) + 1 : SubSeq(t, o + 1, o + n)[i] = t[o + 1 + i - 1]
  <2>1. o + 1 \in Int /\ o + n \in Int /\ \A i \in o + 1 .. o + n : t[i] \in Bytes
    BY <1>4
  <2>2. QED
    BY <2>1, SubSeqProperties
<1>6. o + n - (o + 1) + 1 = n /\ (o + 1 <= o + n <=> n # 0)
  OBVIOUS
<1>7. PICK v : v = SubSeq(t, o + 1, o + n) /\ v \in Seq(Bytes) /\ Len(v) = n /\ \A i \in 1 .. n : v[i] = t[o + 1 + i - 1]
  BY <1>5, <1>6
<1>8. ASSUME NEW i \in 1 .. n PROVE v[i] = u[i]
  <2>1. o + i \in 1 .. e - s /\ o + 1 + i - 1 = o + i /\ s + (o + i) = s + o + i
    BY <1>1
  <2>2. t[o + i] = content[s + (o + i)]
    BY <1>2, <2>1
  <2>3. QED
    BY <1>3, <1>7, <2>1, <2>2
<1>9. v = u
  BY <1>3, <1>7, <1>8, StrSame
<1>10. QED
  BY <1>2, <1>3, <1>7, <1>9

-----------------------------------------------------------------------------
(***************************************************************************)
(* The buffers: a file is read where a vector is                           *)
(***************************************************************************)

LEMMA StrBuffer ==
  ASSUME StrEnv, NEW b, BufferOk(b)
  PROVE  /\ b.pos \in 0 .. Size /\ b.off \in Nat /\ b = [pos |-> b.pos, off |-> b.off]
         /\ kind = "file" => b.off = b.pos
BY DEF BufferOk

\* Both positions move on together.
LEMMA StrAdvance ==
  ASSUME NEW p \in Int, NEW k \in Int, NEW b, b = [pos |-> p, off |-> p]
  PROVE  [b EXCEPT !.pos = @ + k, !.off = @ + k] = [pos |-> p + k, off |-> p + k]
<1>1. PICK c : c = [b EXCEPT !.pos = @ + k]
  OBVIOUS
<1>2. c = [pos |-> p + k, off |-> p]
  BY <1>1
<1>3. [c EXCEPT !.off = p + k] = [pos |-> p + k, off |-> p + k]
  BY <1>2
<1>4. [b EXCEPT !.pos = @ + k, !.off = @ + k] = [c EXCEPT !.off = p + k]
  BY <1>1, <1>2
<1>5. QED
  BY <1>3, <1>4

LEMMA StrRead ==
  ASSUME StrEnv, NEW b, BufferOk(b), NEW n \in Nat \ {0}
  PROVE  /\ BufferOk(read_raw_bytes(b, n).st)
         /\ read_raw_bytes(b, n).st.pos = Upto(b.pos, n)
         /\ read_raw_bytes(b, n).res = Ok(Part(b.pos, Upto(b.pos, n)))
<1> DEFINE p == b.pos
           q == Upto(p, n)
           k == Least(n, Size - p)
<1>1. p \in 0 .. Size /\ b.off \in Nat /\ b = [pos |-> p, off |-> b.off]
  BY StrBuffer
<1>2. q \in 0 .. Size /\ q >= p /\ q = p + k
  BY <1>1, StrUpto
<1>3. CASE kind = "memory"
  <2>1. read_raw_bytes(b, n) = Return([b EXCEPT !.pos = p + k], Ok(Part(p, p + k)))
    BY <1>3 DEF read_raw_bytes, MemoryRead, Part
  <2>2. [b EXCEPT !.pos = p + k] = [pos |-> q, off |-> b.off]
    BY <1>1, <1>2
  <2>3. read_raw_bytes(b, n) = [st |-> [pos |-> q, off |-> b.off], res |-> Ok(Part(p, q))]
    BY <1>2, <2>1, <2>2 DEF Return
  <2>4. BufferOk([pos |-> q, off |-> b.off])
    BY <1>1, <1>2, <1>3 DEF BufferOk
  <2>5. QED
    BY <2>3, <2>4
<1>4. CASE kind = "file"
  <2>1. b.off = p
    BY <1>4, StrBuffer
  <2>2. FromFile(b, k) = Part(p, q)
    <3>1. Least(p + k, Size) = q
      BY <1>2, StrEnvFacts DEF Least
    <3>2. QED
      BY <2>1, <3>1 DEF FromFile, Part
  <2>3. Len(FromFile(b, k)) = q - p
    BY <1>1, <1>2, <2>2, StrPart
  <2>4. p + (q - p) = q
    BY <1>1, <1>2, StrEnvFacts
  <2>5. read_raw_bytes(b, n) = Return([b EXCEPT !.pos = @ + Len(FromFile(b, k)), !.off = @ + Len(FromFile(b, k))], Ok(FromFile(b, k)))
    BY <1>4 DEF read_raw_bytes, FileRead
  <2>6. [b EXCEPT !.pos = @ + Len(FromFile(b, k)), !.off = @ + Len(FromFile(b, k))] = [pos |-> q, off |-> q]
    <3>1. PICK l : l = Len(FromFile(b, k)) /\ p + l = q
      BY <2>3, <2>4
    <3>2. b = [pos |-> p, off |-> p]
      BY <1>1, <2>1
    <3>3. [b EXCEPT !.pos = @ + l, !.off = @ + l] = [pos |-> p + l, off |-> p + l]
      <4>1. p \in Int /\ l \in Int
        BY <1>1, <1>2, <2>3, <3>1, StrEnvFacts
      <4>2. QED
        BY <3>2, <4>1, StrAdvance
    <3>4. QED
      BY <3>1, <3>3
  <2>7. read_raw_bytes(b, n) = [st |-> [pos |-> q, off |-> q], res |-> Ok(Part(p, q))]
    BY <2>2, <2>5, <2>6 DEF Return
  <2>8. BufferOk([pos |-> q, off |-> q])
    BY <1>2, StrEnvFacts DEF BufferOk
  <2>9. QED
    BY <2>7, <2>8
<1>5. QED
  BY <1>3, <1>4 DEF StrEnv

LEMMA StrPeek ==
  ASSUME StrEnv, NEW b, BufferOk(b), NEW n \in Nat \ {0}
  PROVE  /\ BufferOk(peek_raw_bytes(b, n).st)
         /\ peek_raw_bytes(b, n).st.pos = b.pos
         /\ peek_raw_bytes(b, n).res = Ok(Part(b.pos, Upto(b.pos, n)))
<1> DEFINE p == b.pos
           q == Upto(p, n)
           k == Least(n, Size - p)
<1>1. p \in 0 .. Size /\ b.off \in Nat /\ b = [pos |-> p, off |-> b.off]
  BY StrBuffer
<1>2. q \in 0 .. Size /\ q >= p /\ q = p + k
  BY <1>1, StrUpto
<1>3. CASE kind = "memory"
  <2>1. peek_raw_bytes(b, n) = [st |-> b, res |-> Ok(Part(p, p + k))]
    BY <1>3 DEF peek_raw_bytes, MemoryPeek, Part, Return
  <2>2. QED
    BY <1>2, <2>1
<1>4. CASE kind = "file"
  <2>1. b.off = p
    BY <1>4, StrBuffer
  <2>2. FromFile(b, k) = Part(p, q)
    <3>1. Least(p + k, Size) = q
      BY <1>2, StrEnvFacts DEF Least
    <3>2. QED
      BY <2>1, <3>1 DEF FromFile, Part
  <2>3. peek_raw_bytes(b, n) = Return([b EXCEPT !.off = p], Ok(FromFile(b, k)))
    BY <1>4 DEF peek_raw_bytes, FilePeek
  <2>4. [b EXCEPT !.off = p] = b
    BY <1>1, <2>1
  <2>5. peek_raw_bytes(b, n) = [st |-> b, res |-> Ok(Part(p, q))]
    BY <2>2, <2>3, <2>4 DEF Return
  <2>6. QED
    BY <2>5
<1>5. QED
  BY <1>3, <1>4 DEF StrEnv

LEMMA StrSeek ==
  ASSUME StrEnv, NEW b, BufferOk(b), NEW p \in Nat
  PROVE  /\ BufferOk(buffer_seek(b, p).st)
         /\ p > Size => buffer_seek(b, p).st = b /\ buffer_seek(b, p).res = Failed("InvalidPositionError")
         /\ p <= Size => buffer_seek(b, p).st.pos = p /\ buffer_seek(b, p).res = Ok(<< >>)
<1>1. b.pos \in 0 .. Size /\ b.off \in Nat /\ b = [pos |-> b.pos, off |-> b.off]
  BY StrBuffer
<1>2. CASE p > Size
  <2>1. buffer_seek(b, p) = [st |-> b, res |-> Failed("InvalidPositionError")]
    BY <1>2 DEF buffer_seek, FileSeek, MemorySeek, Return
  <2>2. QED
    BY <1>2, <2>1, StrEnvFacts
<1>3. CASE p <= Size
  <2>1. PICK s : s = IF kind = "file" THEN [pos |-> p, off |-> p] ELSE [pos |-> p, off |-> b.off]
    OBVIOUS
  <2>2. buffer_seek(b, p) = [st |-> s, res |-> Ok(<< >>)]
    <3>1. [b EXCEPT !.pos = p] = [pos |-> p, off |-> b.off]
      BY <1>1
    <3>2. ~(p > Size)
      BY <1>3, StrEnvFacts
    <3>3. QED
      BY <2>1, <3>1, <3>2 DEF buffer_seek, FileSeek, MemorySeek, Return
  <2>3. BufferOk(s) /\ s.pos = p
    BY <1>1, <1>3, <2>1, StrEnvFacts DEF BufferOk
  <2>4. QED
    BY <1>3, <2>2, <2>3, StrEnvFacts
<1>4. QED
  BY <1>2, <1>3, StrEnvFacts

\* how far a skip leads, modulo the size of a word
LEMMA StrSkipSum ==
  ASSUME StrEnv, NEW p \in 0 .. Size, NEW n \in Counts \union {WordSize - 1}
  PROVE  /\ n \in Nat /\ n <= WordSize /\ WordSize \in Nat /\ WordSize > 0
         /\ (p + n) % WordSize = IF p + n < WordSize THEN p + n ELSE p + n - WordSize
<1>1. Size \in Nat /\ Size <= MaxSize /\ MaxSize \in Nat /\ WordSize \in Nat /\ 2 * MaxSize < WordSize
  BY SizeAssumption, StrEnvFacts DEF StrEnv
<1>2. n \in Nat /\ n <= WordSize /\ WordSize > 0 /\ p \in Nat /\ p < WordSize
  BY <1>1 DEF Counts
<1>3. CASE p + n < WordSize
  BY <1>1, <1>2, <1>3
<1>4. CASE ~(p + n < WordSize)
  <2>1. p + n - WordSize \in 0 .. WordSize - 1
    BY <1>1, <1>2, <1>4
  <2>2. p + n = WordSize * 1 + (p + n - WordSize)
    BY <1>1, <1>2
  <2>3. QED
    BY <1>1, <1>2, <1>4, <2>1, <2>2, ModUnique
<1>5. QED
  BY <1>1, <1>2, <1>3, <1>4

LEMMA StrSkip ==
  ASSUME StrEnv, NEW b, BufferOk(b), NEW n \in Counts \union {WordSize - 1}
  PROVE  LET new == (b.pos + n) % WordSize IN
         /\ BufferOk(buffer_skip(b, n).st)
         /\ new > Size => buffer_skip(b, n).st = b /\ buffer_skip(b, n).res = Failed("InvalidPositionError")
         /\ new <= Size => buffer_skip(b, n).st.pos = new /\ buffer_skip(b, n).res = Ok(<< >>)
         /\ new \in Nat
<1> DEFINE p == b.pos
           new == (p + n) % WordSize
           signed == IF 2 * n >= WordSize THEN n - WordSize ELSE n
<1>1. p \in 0 .. Size /\ b.off \in Nat /\ b = [pos |-> p, off |-> b.off]
  BY StrBuffer
<1>2. /\ n \in Nat /\ n <= WordSize /\ WordSize \in Nat /\ WordSize > 0
      /\ new = IF p + n < WordSize THEN p + n ELSE p + n - WordSize
  BY <1>1, StrSkipSum
<1>3. Size \in Nat /\ Size <= MaxSize /\ MaxSize \in Nat /\ 2 * MaxSize < WordSize
  BY SizeAssumption, StrEnvFacts DEF StrEnv
<1>4. new \in Nat
  BY <1>1, <1>2, <1>3
<1>5. new <= Size => p + signed = new
  <2> HIDE DEF new
  <2>1. p \in Nat
    BY <1>1
  <2>2. QED
    BY <1>1, <1>2, <1>3, <2>1
<1> HIDE DEF new
<1>6. CASE new > Size
  <2>1. buffer_skip(b, n) = [st |-> b, res |-> Failed("InvalidPositionError")]
    BY <1>6 DEF buffer_skip, FileSkip, MemorySkip, Return, new
  <2>2. QED
    BY <1>3, <1>4, <1>6, <2>1 DEF new
<1>7. CASE new <= Size
  <2>1. PICK s : s = IF kind = "file" THEN [pos |-> new, off |-> new] ELSE [pos |-> new, off |-> b.off]
    OBVIOUS
  <2>2. ~(new > Size) /\ p + signed = new /\ ~(p + signed < 0)
    BY <1>3, <1>4, <1>5, <1>7
  <2>3. buffer_skip(b, n) = [st |-> s, res |-> Ok(<< >>)]
    <3>1. CASE kind = "file"
      <4>1. b.off = p
        BY <3>1, StrBuffer
      <4>2. buffer_skip(b, n) = FileSkip(b, n)
        BY <3>1 DEF buffer_skip
      <4>3. FileSkip(b, n) = [st |-> [pos |-> new, off |-> p + signed], res |-> Ok(<< >>)]
        BY <2>2, <4>1 DEF FileSkip, Return, new
      <4>4. QED
        BY <2>1, <2>2, <3>1, <4>2, <4>3
    <3>2. CASE kind # "file"
      <4>1. [b EXCEPT !.pos = new] = [pos |-> new, off |-> b.off]
        BY <1>1
      <4>2. buffer_skip(b, n) = MemorySkip(b, n)
        BY <3>2 DEF buffer_skip
      <4>3. MemorySkip(b, n) = [st |-> [b EXCEPT !.pos = new], res |-> Ok(<< >>)]
        BY <2>2 DEF MemorySkip, Return, new
      <4>4. QED
        BY <2>1, <3>2, <4>1, <4>2, <4>3
    <3>3. QED
      BY <3>1, <3>2
  <2>4. BufferOk(s) /\ s.pos = new
    BY <1>1, <1>3, <1>4, <1>7, <2>1 DEF BufferOk
  <2>5. QED
    BY <1>3, <1>4, <1>7, <2>3, <2>4 DEF new
<1>8. QED
  BY <1>3, <1>4, <1>6, <1>7 DEF new

-----------------------------------------------------------------------------
(***************************************************************************)
(* StreamReader                                                            *)
(***************************************************************************)

\* what read_bytes(n) at p returns, of either reader
ReadResult(p, n) ==
  IF n = 0 THEN Ok(<< >>) ELSE IF p = Size THEN Failed("EndOfData") ELSE Ok(Part(p, Upto(p, n)))

LEMMA StrOk ==
  /\ \A v : Ok(v).error = "NoError" /\ Ok(v).value = v
  /\ \A e : Failed(e).error = e /\ Failed(e).value = << >>
  /\ \A u, v : Ok(u) = Ok(v) <=> u = v
  /\ Going.error = "Going"
BY DEF Ok, Failed, Going

LEMMA StrReturn ==
  ASSUME NEW st, NEW res
  PROVE  Return(st, res).st = st /\ Return(st, res).res = res
BY DEF Return

LEMMA StrLoop ==
  ASSUME NEW st, NEW got, NEW res
  PROVE  Loop(st, got, res).st = st /\ Loop(st, got, res).got = got /\ Loop(st, got, res).res = res
BY DEF Loop

LEMMA StrReadBytes ==
  ASSUME StrEnv, NEW b, BufferOk(b), NEW n \in Nat
  PROVE  /\ BufferOk(StreamReadBytes(b, n).st)
         /\ StreamReadBytes(b, n).st.pos = Upto(b.pos, n)
         /\ StreamReadBytes(b, n).res = ReadResult(b.pos, n)
<1> DEFINE p == b.pos
           q == Upto(p, n)
           r == read_raw_bytes(b, n)
<1>1. p \in 0 .. Size
  BY StrBuffer
<1>2. /\ q \in 0 .. Size /\ q >= p /\ (n = 0 => q = p) /\ (p = Size => q = p) /\ (n # 0 /\ p # Size => q # p)
  BY <1>1, StrUpto
<1>3. CASE n = 0
  <2>1. StreamReadBytes(b, n) = Return(b, Ok(<< >>))
    BY <1>3 DEF StreamReadBytes
  <2>2. QED
    BY <1>2, <1>3, <2>1, StrReturn DEF ReadResult
<1>4. CASE n # 0
  <2>1. BufferOk(r.st) /\ r.st.pos = q /\ r.res = Ok(Part(p, q))
    BY <1>4, StrRead
  <2>2. Part(p, q) = << >> <=> p = q
    BY <1>1, <1>2, StrPart
  <2>3. r.res = Ok(<< >>) <=> p = Size
    BY <1>2, <1>4, <2>1, <2>2, StrOk
  <2>4. CASE p = Size
    <3>1. StreamReadBytes(b, n) = Return(r.st, Failed("EndOfData"))
      BY <1>4, <2>3, <2>4 DEF StreamReadBytes
    <3>2. QED
      BY <1>4, <2>1, <2>4, <3>1, StrReturn DEF ReadResult
  <2>5. CASE p # Size
    <3>1. StreamReadBytes(b, n) = r
      BY <1>4, <2>3, <2>5 DEF StreamReadBytes
    <3>2. QED
      BY <1>4, <2>1, <2>5, <3>1 DEF ReadResult
  <2>6. QED
    BY <2>4, <2>5
<1>5. QED
  BY <1>3, <1>4

\* One byte.
LEMMA StrReadOne ==
  ASSUME StrEnv, NEW b, BufferOk(b)
  PROVE  /\ BufferOk(StreamReadBytes(b, 1).st)
         /\ b.pos = Size => StreamReadBytes(b, 1).st.pos = Size /\ StreamReadBytes(b, 1).res = Failed("EndOfData")
         /\ b.pos # Size => /\ StreamReadBytes(b, 1).st.pos = b.pos + 1
                            /\ StreamReadBytes(b, 1).res = Ok(<<content[b.pos + 1]>>)
<1>1. b.pos \in 0 .. Size
  BY StrBuffer
<1>2. /\ BufferOk(StreamReadBytes(b, 1).st) /\ StreamReadBytes(b, 1).st.pos = Upto(b.pos, 1)
      /\ StreamReadBytes(b, 1).res = ReadResult(b.pos, 1)
  BY StrReadBytes
<1>3. (b.pos = Size => Upto(b.pos, 1) = b.pos) /\ (b.pos # Size => Upto(b.pos, 1) = b.pos + 1)
  BY <1>1, StrUpto
<1>4. b.pos # Size => Part(b.pos, b.pos + 1) = <<content[b.pos + 1]>>
  BY <1>1, StrPartOne
<1>5. QED
  BY <1>2, <1>3, <1>4 DEF ReadResult

\* how a read_until from p ends: at q, the end of the data or the first delimiter
UntilEnds(p, delimiter, consume, to, res) ==
  \E q \in 0 .. Size :
    /\ p <= q
    /\ \A i \in p + 1 .. q : content[i] # delimiter
    /\ q = Size => /\ to = Size
                   /\ res = IF p = Size THEN Failed("EndOfData") ELSE Ok(Part(p, q))
    /\ q # Size => /\ content[q + 1] = delimiter
                   /\ to = IF consume THEN q + 1 ELSE q
                   /\ res = Ok(Part(p, q))

\* There is only one way.
LEMMA StrUntilUnique ==
  ASSUME StrEnv, NEW p \in 0 .. Size, NEW d, NEW consume,
         NEW to1, NEW res1, UntilEnds(p, d, consume, to1, res1),
         NEW to2, NEW res2, UntilEnds(p, d, consume, to2, res2)
  PROVE  to1 = to2 /\ res1 = res2
<1> DEFINE E(q, to, res) ==
             /\ p <= q
             /\ \A i \in p + 1 .. q : content[i] # d
             /\ q = Size => to = Size /\ res = IF p = Size THEN Failed("EndOfData") ELSE Ok(Part(p, q))
             /\ q # Size => content[q + 1] = d /\ to = (IF consume THEN q + 1 ELSE q) /\ res = Ok(Part(p, q))
<1>1. PICK q1 \in 0 .. Size : E(q1, to1, res1)
  BY DEF UntilEnds
<1>2. PICK q2 \in 0 .. Size : E(q2, to2, res2)
  BY DEF UntilEnds
<1>3. Size \in Nat
  BY StrEnvFacts
<1>4. q1 = q2
  <2>1. ~(q1 < q2)
    <3> SUFFICES ASSUME q1 < q2 PROVE FALSE
      OBVIOUS
    <3>1. q1 # Size /\ q1 + 1 \in p + 1 .. q2
      BY <1>1, <1>3
    <3>2. QED
      BY <1>1, <1>2, <3>1
  <2>2. ~(q2 < q1)
    <3> SUFFICES ASSUME q2 < q1 PROVE FALSE
      OBVIOUS
    <3>1. q2 # Size /\ q2 + 1 \in p + 1 .. q1
      BY <1>2, <1>3
    <3>2. QED
      BY <1>1, <1>2, <3>1
  <2>3. QED
    BY <1>3, <2>1, <2>2
<1>5. QED
  BY <1>1, <1>2, <1>4

\* What the loop has got so far, and that it has ended well.
UntilGot(p, d, k, x) ==
  /\ x.res = Going /\ p + k \in 0 .. Size /\ x.st.pos = p + k /\ x.got = Part(p, p + k)
  /\ \A i \in p + 1 .. p + k : content[i] # d
UntilIs(p, d, consume, k, x) ==
  IF x.res.error = "Going" THEN UntilGot(p, d, k, x) ELSE UntilEnds(p, d, consume, x.st.pos, x.res)

\* One more byte that is not the delimiter, and the three ways to end.
LEMMA StrUntilMore ==
  ASSUME StrEnv, NEW p \in 0 .. Size, NEW d, NEW k \in Nat, NEW x, UntilGot(p, d, k, x),
         x.st.pos # Size, content[x.st.pos + 1] # d, NEW st, st.pos = x.st.pos + 1
  PROVE  UntilGot(p, d, k + 1, Loop(st, x.got \o <<content[x.st.pos + 1]>>, Going))
<1>1. p \in Nat /\ Size \in Nat /\ p + k \in 0 .. Size /\ x.st.pos = p + k /\ x.got = Part(p, p + k)
  BY StrEnvFacts DEF UntilGot
<1>2. /\ p + k # Size /\ p + (k + 1) \in 0 .. Size /\ p <= p + k /\ p + k <= p + (k + 1) /\ p + k + 1 = p + (k + 1)
  BY <1>1
<1>3. Part(p + k, p + (k + 1)) = <<content[p + k + 1]>>
  BY <1>1, <1>2, StrPartOne
<1>4. Part(p, p + k) \o Part(p + k, p + (k + 1)) = Part(p, p + (k + 1))
  BY <1>1, <1>2, StrPartJoin
<1>5. x.got \o <<content[x.st.pos + 1]>> = Part(p, p + (k + 1))
  BY <1>1, <1>3, <1>4
<1>6. \A i \in p + 1 .. p + (k + 1) : content[i] # d
  <2> SUFFICES ASSUME NEW i \in p + 1 .. p + (k + 1) PROVE content[i] # d
    OBVIOUS
  <2>1. i \in p + 1 .. p + k \/ i = p + k + 1
    BY <1>1
  <2>2. QED
    BY <1>1, <2>1 DEF UntilGot
<1>7. st.pos = p + (k + 1)
  BY <1>1, <1>2
<1>8. QED
  <2>1. PICK g : g = x.got \o <<content[x.st.pos + 1]>> /\ g = Part(p, p + (k + 1))
    BY <1>5
  <2>2. PICK y : y = Loop(st, g, Going)
    OBVIOUS
  <2>3. y.st = st /\ y.got = g /\ y.res = Going
    BY <2>2, StrLoop
  <2>4. UntilGot(p, d, k + 1, y)
    BY <1>2, <1>6, <1>7, <2>1, <2>3 DEF UntilGot
  <2>5. QED
    BY <2>1, <2>2, <2>4

LEMMA StrUntilEnd ==
  ASSUME StrEnv, NEW p \in 0 .. Size, NEW d, NEW consume, NEW k \in Nat, NEW x, UntilGot(p, d, k, x), x.st.pos = Size
  PROVE  /\ x.got # << >> <=> p # Size
         /\ x.got # << >> => UntilEnds(p, d, consume, Size, Ok(x.got))
         /\ x.got = << >> => UntilEnds(p, d, consume, Size, Failed("EndOfData"))
<1>1. p + k = Size /\ x.got = Part(p, Size) /\ Size \in 0 .. Size /\ p <= Size
  BY StrEnvFacts DEF UntilGot
<1>2. \A i \in p + 1 .. Size : content[i] # d
  BY <1>1 DEF UntilGot
<1>3. x.got = << >> <=> p = Size
  <2>1. Part(p, Size) = << >> <=> p = Size
    BY <1>1, StrPart
  <2>2. QED
    BY <1>1, <2>1
<1>4. UntilEnds(p, d, consume, Size, IF p = Size THEN Failed("EndOfData") ELSE Ok(Part(p, Size)))
  BY <1>1, <1>2 DEF UntilEnds
<1>5. QED
  BY <1>1, <1>3, <1>4

LEMMA StrUntilFound ==
  ASSUME StrEnv, NEW p \in 0 .. Size, NEW d, NEW consume, NEW k \in Nat, NEW x, UntilGot(p, d, k, x),
         x.st.pos # Size, content[x.st.pos + 1] = d
  PROVE  UntilEnds(p, d, consume, IF consume THEN x.st.pos + 1 ELSE x.st.pos, Ok(x.got))
<1>1. p \in Nat /\ Size \in Nat /\ p + k \in 0 .. Size /\ x.st.pos = p + k /\ x.got = Part(p, p + k) /\ p <= p + k
  BY StrEnvFacts DEF UntilGot
<1>2. \A i \in p + 1 .. p + k : content[i] # d
  BY DEF UntilGot
<1>3. PICK q \in 0 .. Size : q = p + k
  BY <1>1
<1>4. p <= q /\ q # Size /\ content[q + 1] = d /\ \A i \in p + 1 .. q : content[i] # d
  BY <1>1, <1>2, <1>3
<1>5. UntilEnds(p, d, consume, IF consume THEN q + 1 ELSE q, Ok(Part(p, q)))
  BY <1>4 DEF UntilEnds
<1>6. QED
  BY <1>1, <1>3, <1>5

\* Two bytes are the same when the sequences of them are.
LEMMA StrOneByte ==
  ASSUME NEW a, NEW b
  PROVE  <<a>> = <<b>> <=> a = b
OBVIOUS

StreamUntilIs(b, d, consume, k, x) == BufferOk(x.st) /\ UntilIs(b.pos, d, consume, k, x)

LEMMA StrStreamRound ==
  ASSUME StrEnv, NEW b, BufferOk(b), NEW d, NEW consume \in BOOLEAN, NEW k \in Nat, NEW x,
         StreamUntilIs(b, d, consume, k, x)
  PROVE  StreamUntilIs(b, d, consume, k + 1, StreamUntilRound(x, d, consume))
<1> DEFINE r == StreamReadBytes(x.st, 1)
           y == StreamUntilRound(x, d, consume)
           p == b.pos
<1>1. p \in 0 .. Size
  BY StrBuffer
<1>2. CASE x.res.error # "Going"
  <2>1. y = x
    BY <1>2 DEF StreamUntilRound
  <2>2. QED
    BY <1>2, <2>1 DEF StreamUntilIs, UntilIs
<1>3. CASE x.res.error = "Going"
  <2>1. UntilGot(p, d, k, x) /\ BufferOk(x.st)
    BY <1>3 DEF StreamUntilIs, UntilIs
  <2>2. x.st.pos \in 0 .. Size
    BY <2>1, StrBuffer
  <2>3. CASE x.st.pos = Size
    <3>1. BufferOk(r.st) /\ r.st.pos = Size /\ r.res = Failed("EndOfData") /\ r.res.error = "EndOfData"
      <4>1. BufferOk(r.st) /\ r.st.pos = Size /\ r.res = Failed("EndOfData")
        BY <2>1, <2>3, StrReadOne
      <4>2. QED
        BY <4>1, StrOk
    <3>2. CASE x.got # << >>
      <4>1. y = Loop(r.st, x.got, Ok(x.got))
        BY <1>3, <3>1, <3>2 DEF StreamUntilRound
      <4>2. UntilEnds(p, d, consume, Size, Ok(x.got))
        BY <1>1, <2>1, <2>3, <3>2, StrUntilEnd
      <4>3. y.st = r.st /\ y.res = Ok(x.got) /\ y.res.error = "NoError"
        BY <4>1, StrLoop, StrOk
      <4>4. QED
        BY <3>1, <4>2, <4>3 DEF StreamUntilIs, UntilIs
    <3>3. CASE x.got = << >>
      <4>1. y = Loop(r.st, x.got, r.res)
        BY <1>3, <3>1, <3>3 DEF StreamUntilRound
      <4>2. UntilEnds(p, d, consume, Size, Failed("EndOfData"))
        BY <1>1, <2>1, <2>3, <3>3, StrUntilEnd
      <4>3. y.st = r.st /\ y.res = Failed("EndOfData") /\ y.res.error = "EndOfData"
        BY <3>1, <4>1, StrLoop
      <4>4. QED
        BY <3>1, <4>2, <4>3 DEF StreamUntilIs, UntilIs
    <3>4. QED
      BY <3>2, <3>3
  <2>4. CASE x.st.pos # Size
    <3>1. /\ BufferOk(r.st) /\ r.st.pos = x.st.pos + 1
          /\ r.res.value = <<content[x.st.pos + 1]>> /\ r.res.error = "NoError"
      <4>1. BufferOk(r.st) /\ r.st.pos = x.st.pos + 1 /\ r.res = Ok(<<content[x.st.pos + 1]>>)
        BY <2>1, <2>4, StrReadOne
      <4>2. QED
        BY <4>1, StrOk
    <3>2. CASE content[x.st.pos + 1] # d
      <4>1. y = Loop(r.st, x.got \o <<content[x.st.pos + 1]>>, Going)
        <5>1. r.res.value # <<d>>
          BY <3>1, <3>2, StrOneByte
        <5>2. QED
          BY <1>3, <3>1, <5>1 DEF StreamUntilRound
      <4>2. UntilGot(p, d, k + 1, y)
        BY <1>1, <2>1, <2>4, <3>1, <3>2, <4>1, StrUntilMore
      <4>3. y.st = r.st /\ y.res.error = "Going"
        BY <4>1, StrLoop, StrOk
      <4>4. QED
        BY <3>1, <4>2, <4>3 DEF StreamUntilIs, UntilIs
    <3>3. CASE content[x.st.pos + 1] = d
      <4>1. r.res.value = <<d>>
        BY <3>1, <3>3
      <4>2. UntilEnds(p, d, consume, IF consume THEN x.st.pos + 1 ELSE x.st.pos, Ok(x.got))
        BY <1>1, <2>1, <2>4, <3>3, StrUntilFound
      <4>3. CASE consume
        <5>1. y = Loop(r.st, x.got, Ok(x.got))
          BY <1>3, <3>1, <4>1, <4>3 DEF StreamUntilRound
        <5>2. y.st = r.st /\ y.res = Ok(x.got) /\ y.res.error = "NoError"
          BY <5>1, StrLoop, StrOk
        <5>3. QED
          BY <3>1, <4>2, <4>3, <5>2 DEF StreamUntilIs, UntilIs
      <4>4. CASE ~consume
        <5> DEFINE s == buffer_seek(r.st, r.st.pos - 1)
        <5>1. r.st.pos - 1 = x.st.pos /\ x.st.pos \in Nat /\ x.st.pos <= Size
          BY <2>2, <3>1, StrEnvFacts
        <5>2. BufferOk(s.st) /\ s.st.pos = x.st.pos /\ s.res.error = "NoError"
          <6>1. PICK t \in Nat : t = r.st.pos - 1 /\ t = x.st.pos /\ t <= Size
            BY <5>1
          <6>2. BufferOk(buffer_seek(r.st, t).st) /\ buffer_seek(r.st, t).st.pos = t /\ buffer_seek(r.st, t).res = Ok(<< >>)
            <7>1. PICK w : w = r.st /\ BufferOk(w)
              BY <3>1
            <7>2. BufferOk(buffer_seek(w, t).st) /\ buffer_seek(w, t).st.pos = t /\ buffer_seek(w, t).res = Ok(<< >>)
              BY <6>1, <7>1, StrSeek
            <7>3. QED
              BY <7>1, <7>2
          <6>3. QED
            BY <6>1, <6>2, StrOk
        <5>3. y = Loop(s.st, x.got, Ok(x.got))
          BY <1>3, <3>1, <4>1, <4>4, <5>2 DEF StreamUntilRound
        <5>4. y.st = s.st /\ y.res = Ok(x.got) /\ y.res.error = "NoError"
          BY <5>3, StrLoop, StrOk
        <5>5. QED
          BY <4>2, <4>4, <5>2, <5>4 DEF StreamUntilIs, UntilIs
      <4>5. QED
        BY <4>3, <4>4
    <3>4. QED
      BY <3>2, <3>3
  <2>5. QED
    BY <2>3, <2>4
<1>4. QED
  BY <1>2, <1>3

\* StreamUntilRounds is what its recursive definition says it is: by induction there is such a function.
StreamUntilTo(b, d, consume, m, s) ==
  s = [k \in 0 .. m |-> IF k = 0 THEN Loop(b, << >>, Going) ELSE StreamUntilRound(s[k - 1], d, consume)]
LEMMA StreamUntilToExists ==
  ASSUME NEW b, NEW d, NEW consume, NEW m \in Nat
  PROVE  \E s : StreamUntilTo(b, d, consume, m, s)
<1> DEFINE T == {j \in Nat : \E s : StreamUntilTo(b, d, consume, j, s)}
           a == Loop(b, << >>, Going)
<1>1. 0 \in T
  <2> DEFINE s == [k \in 0 .. 0 |-> a]
  <2> HIDE DEF a
  <2>1. s = [k \in 0 .. 0 |-> IF k = 0 THEN a ELSE StreamUntilRound(s[k - 1], d, consume)]
    OBVIOUS
  <2>2. StreamUntilTo(b, d, consume, 0, s)
    BY <2>1 DEF StreamUntilTo, a
  <2> HIDE DEF s
  <2>3. QED
    BY <2>2
<1>2. ASSUME NEW j \in Nat, j \in T PROVE j + 1 \in T
  <2>1. PICK s : StreamUntilTo(b, d, consume, j, s)
    BY <1>2
  <2> DEFINE f == StreamUntilRound(s[j], d, consume)
             u == [k \in 0 .. j + 1 |-> IF k = j + 1 THEN f ELSE s[k]]
  <2>2. DOMAIN s = 0 .. j /\ \A k \in 0 .. j : s[k] = IF k = 0 THEN a ELSE StreamUntilRound(s[k - 1], d, consume)
    BY <2>1 DEF StreamUntilTo
  <2> HIDE DEF a
  <2>3. ASSUME NEW k \in 0 .. j + 1 PROVE u[k] = IF k = 0 THEN a ELSE StreamUntilRound(u[k - 1], d, consume)
    <3>1. CASE k = j + 1
      <4>1. u[k] = f /\ u[k - 1] = s[j] /\ k # 0
        <5> HIDE DEF f
        <5>1. QED
          BY <3>1
      <4> HIDE DEF u
      <4>2. QED
        BY <4>1
    <3>2. CASE k # j + 1
      <4>1. k \in 0 .. j /\ u[k] = s[k] /\ (k # 0 => k - 1 \in 0 .. j /\ u[k - 1] = s[k - 1])
        <5> HIDE DEF f
        <5>1. QED
          BY <3>2
      <4> HIDE DEF u
      <4>2. QED
        BY <2>2, <4>1
    <3>3. QED
      BY <3>1, <3>2
  <2>4. u = [k \in 0 .. j + 1 |-> u[k]]
    <3> HIDE DEF f
    <3>1. QED
      OBVIOUS
  <2> HIDE DEF u
  <2>5. StreamUntilTo(b, d, consume, j + 1, u)
    BY <2>3, <2>4 DEF StreamUntilTo, a
  <2>6. QED
    BY <2>5
<1> HIDE DEF T
<1>3. Nat \subseteq T
  BY <1>1, <1>2, NatSetInduction
<1>4. QED
  BY <1>3 DEF T

LEMMA StreamUntilUnfold ==
  ASSUME StrEnv, NEW b, NEW d, NEW consume
  PROVE  /\ StreamUntilRounds(b, d, consume)[0] = Loop(b, << >>, Going)
         /\ \A k \in Nat : k + 1 <= Rounds =>
              StreamUntilRounds(b, d, consume)[k + 1] = StreamUntilRound(StreamUntilRounds(b, d, consume)[k], d, consume)
<1> DEFINE D(s) == StreamUntilTo(b, d, consume, Rounds, s)
<1>1. Rounds \in Nat
  BY StrEnvFacts
<1>2. PICK s : D(s)
  BY <1>1, StreamUntilToExists
<1>3. StreamUntilRounds(b, d, consume) = CHOOSE f : D(f)
  BY DEF StreamUntilRounds, StreamUntilTo
<1>4. PICK r : r = StreamUntilRounds(b, d, consume) /\ D(r)
  BY <1>2, <1>3
<1>5. r[0] = Loop(b, << >>, Going)
  BY <1>1, <1>4 DEF StreamUntilTo
<1>6. ASSUME NEW k \in Nat, k + 1 <= Rounds PROVE r[k + 1] = StreamUntilRound(r[k], d, consume)
  <2>1. k + 1 \in 0 .. Rounds /\ k + 1 # 0 /\ (k + 1) - 1 = k
    BY <1>1, <1>6
  <2>2. QED
    BY <1>4, <2>1 DEF StreamUntilTo
<1>7. QED
  BY <1>4, <1>5, <1>6

LEMMA StrStreamStart ==
  ASSUME StrEnv, NEW b, BufferOk(b), NEW d, NEW consume \in BOOLEAN
  PROVE  StreamUntilIs(b, d, consume, 0, Loop(b, << >>, Going))
<1>1. b.pos \in 0 .. Size /\ b.pos \in Nat /\ b.pos + 0 = b.pos
  BY StrBuffer, StrEnvFacts
<1>2. PICK y : y = Loop(b, << >>, Going) /\ y.st = b /\ y.got = << >> /\ y.res = Going /\ y.res.error = "Going"
  BY StrLoop, StrOk
<1>3. Part(b.pos, b.pos) = << >>
  <2>1. b.pos <= b.pos
    BY <1>1
  <2>2. QED
    BY <1>1, <2>1, StrPart
<1>4. UntilGot(b.pos, d, 0, y)
  BY <1>1, <1>2, <1>3 DEF UntilGot
<1>5. QED
  BY <1>2, <1>4 DEF StreamUntilIs, UntilIs

LEMMA StrStreamRounds ==
  ASSUME StrEnv, NEW b, BufferOk(b), NEW d, NEW consume \in BOOLEAN
  PROVE  StreamUntilIs(b, d, consume, Rounds, StreamUntilRounds(b, d, consume)[Rounds])
<1> DEFINE T == {k \in Nat : k <= Rounds => StreamUntilIs(b, d, consume, k, StreamUntilRounds(b, d, consume)[k])}
<1>1. Rounds \in Nat
  BY StrEnvFacts
<1>2. 0 \in T
  BY StreamUntilUnfold, StrStreamStart
<1>3. ASSUME NEW k \in Nat, k \in T PROVE k + 1 \in T
  <2> SUFFICES ASSUME k + 1 <= Rounds PROVE StreamUntilIs(b, d, consume, k + 1, StreamUntilRounds(b, d, consume)[k + 1])
    OBVIOUS
  <2>1. PICK x : x = StreamUntilRounds(b, d, consume)[k] /\ StreamUntilIs(b, d, consume, k, x)
    BY <1>1, <1>3
  <2>2. StreamUntilRounds(b, d, consume)[k + 1] = StreamUntilRound(x, d, consume)
    BY <2>1, StreamUntilUnfold
  <2>3. StreamUntilIs(b, d, consume, k + 1, StreamUntilRound(x, d, consume))
    BY <2>1, StrStreamRound
  <2>4. QED
    BY <2>2, <2>3
<1> HIDE DEF T
<1>4. Nat \subseteq T
  BY <1>2, <1>3, NatSetInduction
<1>5. QED
  BY <1>1, <1>4 DEF T

\* read_until ends, and as it should: before Rounds rounds the data is at its end.
LEMMA StrStreamUntil ==
  ASSUME StrEnv, NEW b, BufferOk(b), NEW d, NEW consume \in BOOLEAN
  PROVE  /\ BufferOk(StreamUntil(b, d, consume).st)
         /\ UntilEnds(b.pos, d, consume, StreamUntil(b, d, consume).st.pos, StreamUntil(b, d, consume).res)
<1>1. PICK x : x = StreamUntilRounds(b, d, consume)[Rounds] /\ StreamUntilIs(b, d, consume, Rounds, x)
  BY StrStreamRounds
<1>2. b.pos \in Nat /\ Rounds \in Nat /\ Size \in Nat /\ Rounds > Size
  BY StrBuffer, StrEnvFacts
<1>3. ~(b.pos + Rounds \in 0 .. Size)
  BY <1>2
<1>4. BufferOk(x.st) /\ UntilEnds(b.pos, d, consume, x.st.pos, x.res)
  BY <1>1, <1>3 DEF StreamUntilIs, UntilIs, UntilGot
<1>5. StreamUntil(b, d, consume) = Return(x.st, x.res)
  BY <1>1 DEF StreamUntil
<1>6. QED
  BY <1>4, <1>5, StrReturn

-----------------------------------------------------------------------------
(***************************************************************************)
(* CachedReader                                                            *)
(***************************************************************************)

LEMMA StrReader ==
  ASSUME StrEnv, NEW c, ReaderOk(c)
  PROVE  /\ c.pos \in Nat /\ c.start \in 0 .. Size /\ c.cache \in Seq(Bytes) /\ BufferOk(c.src)
         /\ Len(c.cache) \in Nat /\ Len(c.cache) <= chunk
         /\ c = [pos |-> c.pos, start |-> c.start, cache |-> c.cache, src |-> c.src]
BY DEF ReaderOk

LEMMA StrNewReader ==
  ASSUME StrEnv, NEW p \in Nat, NEW start \in 0 .. Size, NEW cache \in Seq(Bytes), Len(cache) <= chunk,
         NEW src, BufferOk(src), NEW c, c = [pos |-> p, start |-> start, cache |-> cache, src |-> src]
  PROVE  /\ ReaderOk(c) /\ c.pos = p /\ c.start = start /\ c.cache = cache /\ c.src = src
<1>1. src \in [pos : 0 .. Size, off : Nat]
  BY DEF BufferOk
<1>2. c.pos = p /\ c.start = start /\ c.cache = cache /\ c.src = src
  OBVIOUS
<1>3. c \in [pos : Nat, start : 0 .. Size, cache : Seq(Bytes), src : [pos : 0 .. Size, off : Nat]]
  BY <1>1
<1>4. QED
  BY <1>2, <1>3 DEF ReaderOk

\* A reader at another position.
LEMMA StrMoved ==
  ASSUME StrEnv, NEW c, ReaderOk(c), NEW p \in Nat, NEW d, d = [c EXCEPT !.pos = p]
  PROVE  ReaderOk(d) /\ d.pos = p /\ d.src = c.src /\ (Sound(d) <=> Sound(c))
<1>1. PICK src : src = c.src
  OBVIOUS
<1>2. PICK start \in 0 .. Size, cache \in Seq(Bytes), p0 \in Nat :
        /\ start = c.start /\ cache = c.cache /\ BufferOk(src) /\ Len(cache) <= chunk
        /\ c = [pos |-> p0, start |-> start, cache |-> cache, src |-> src]
  BY <1>1, StrReader
<1>3. d = [pos |-> p, start |-> start, cache |-> cache, src |-> src]
  BY <1>2
<1>4. ReaderOk(d) /\ d.pos = p /\ d.start = start /\ d.cache = cache /\ d.src = src
  BY <1>2, <1>3, StrNewReader
<1>5. QED
  BY <1>1, <1>2, <1>4 DEF Sound

\* What is in the cache of a sound reader.
LEMMA StrSound ==
  ASSUME StrEnv, NEW c, ReaderOk(c), Sound(c)
  PROVE  /\ c.start + Len(c.cache) \in 0 .. Size
         /\ c.cache = Part(c.start, c.start + Len(c.cache))
<1>1. c.start \in 0 .. Size /\ Len(c.cache) \in Nat /\ Size \in Nat
  BY StrReader, StrEnvFacts
<1>2. QED
  BY <1>1 DEF Sound, Part

LEMMA StrResized ==
  ASSUME StrEnv, NEW s \in Seq(Bytes)
  PROVE  Resized(s, chunk) \in Seq(Bytes) /\ Len(Resized(s, chunk)) = chunk
<1>1. chunk \in Nat /\ Zero \in Bytes
  BY StrEnvFacts, BytesAssumption
<1>2. \A i \in 1 .. chunk : (IF i <= Len(s) THEN s[i] ELSE Zero) \in Bytes
  BY <1>1
<1>3. QED
  BY <1>1, <1>2 DEF Resized

\* What update_cache does.
Updated(c, u) ==
  /\ ReaderOk(u.st) /\ u.st.pos = c.pos
  /\ u.res \in {Ok(<< >>), Failed("EndOfData"), Failed("InvalidPositionError")}
  /\ u.res = Ok(<< >>) => InCache(u.st)
  /\ Sound(c) => /\ c.pos < Size => u.res = Ok(<< >>) /\ Sound(u.st)
                 /\ c.pos = Size => u.res = Failed("EndOfData") /\ u.st.src.pos = Size
                 /\ c.pos > Size => u.res = Failed("InvalidPositionError") /\ u.st = c
LEMMA StrUpdate ==
  ASSUME StrEnv, NEW c, ReaderOk(c)
  PROVE  Updated(c, update_cache(c))
<1> DEFINE s == buffer_seek(c.src, c.pos)
           r == read_raw_bytes(s.st, chunk)
           u == update_cache(c)
<1>1. Size \in Nat /\ chunk \in Nat \ {0} /\ chunk >= 1
  BY StrEnvFacts
<1>2. PICK src : src = c.src
  OBVIOUS
<1>3. PICK p \in Nat, start \in 0 .. Size, cache \in Seq(Bytes) :
        /\ p = c.pos /\ start = c.start /\ cache = c.cache /\ src = c.src /\ BufferOk(src) /\ Len(cache) <= chunk
        /\ Len(cache) \in Nat
        /\ c = [pos |-> p, start |-> start, cache |-> cache, src |-> src]
  BY <1>2, StrReader
<1>4. CASE InCache(c)
  <2>1. u = Return(c, Ok(<< >>))
    BY <1>4 DEF update_cache
  <2>2. u.st = c /\ u.res = Ok(<< >>)
    BY <2>1, StrReturn
  <2>3. Sound(c) => c.pos < Size
    <3> SUFFICES ASSUME Sound(c) PROVE c.pos < Size
      OBVIOUS
    <3>1. c.start + Len(c.cache) \in 0 .. Size
      BY StrSound
    <3>2. QED
      BY <1>1, <1>3, <1>4, <3>1 DEF InCache
  <2>4. QED
    BY <1>1, <1>3, <1>4, <2>2, <2>3 DEF Updated
<1>5. CASE ~InCache(c) /\ p > Size
  <2>1. buffer_seek(src, p).res = Failed("InvalidPositionError")
    BY <1>3, <1>5, StrSeek
  <2>2. s.res = Failed("InvalidPositionError") /\ s.res.error # "NoError"
    BY <1>3, <2>1, StrOk
  <2>3. u = Return(c, s.res)
    BY <1>5, <2>2 DEF update_cache
  <2>4. u.st = c /\ u.res = Failed("InvalidPositionError")
    BY <2>2, <2>3, StrReturn
  <2>5. u.res # Ok(<< >>)
    BY <2>4, StrOk
  <2>6. QED
    BY <1>1, <1>3, <1>5, <2>4, <2>5 DEF Updated
<1>6. CASE ~InCache(c) /\ p <= Size
  <2>1. BufferOk(buffer_seek(src, p).st) /\ buffer_seek(src, p).st.pos = p /\ buffer_seek(src, p).res = Ok(<< >>)
    <3>1. BufferOk(src)
      BY <1>3
    <3>2. QED
      BY <1>6, <3>1, StrSeek
  <2>2. PICK t : t = s.st /\ BufferOk(t) /\ t.pos = p /\ s.res.error = "NoError"
    BY <1>3, <2>1, StrOk
  <2>3. BufferOk(r.st) /\ r.st.pos = Upto(p, chunk) /\ r.res = Ok(Part(p, Upto(p, chunk)))
    BY <1>1, <2>2, StrRead
  <2>4. PICK new : new = r.st
    OBVIOUS
  <2>5. PICK q \in 0 .. Size : /\ q = Upto(p, chunk) /\ p <= q /\ q <= p + chunk /\ new = r.st
                               /\ BufferOk(new) /\ new.pos = q /\ p \in 0 .. Size
                               /\ (p = Size => q = p) /\ (p # Size => q # p)
    <3>1. p \in 0 .. Size /\ chunk \in Nat /\ chunk # 0
      BY <1>1, <1>6
    <3>2. /\ Upto(p, chunk) \in 0 .. Size /\ Upto(p, chunk) >= p /\ Upto(p, chunk) <= p + chunk
          /\ (p = Size => Upto(p, chunk) = p) /\ (p # Size => Upto(p, chunk) # p)
      BY <3>1, StrUpto
    <3>3. PICK q \in 0 .. Size : q = Upto(p, chunk)
      BY <3>2
    <3>4. p <= q /\ q <= p + chunk /\ (p = Size => q = p) /\ (p # Size => q # p)
      BY <1>1, <3>2, <3>3
    <3>5. BufferOk(new) /\ new.pos = q
      BY <2>3, <2>4, <3>3
    <3> HIDE DEF r
    <3>6. QED
      BY <2>4, <3>1, <3>3, <3>4, <3>5
  <2>6. PICK got \in Seq(Bytes) : got = Part(p, q) /\ Len(got) = q - p /\ (got = << >> <=> p = q)
    BY <2>5, StrPart
  <2>7. r.res.error = "NoError" /\ r.res.value = got
    BY <2>3, <2>5, <2>6, StrOk
  <2>8. PICK large \in Seq(Bytes) : large = Resized(cache, chunk) /\ Len(large) = chunk
    BY StrResized
  <2>9. PICK resized : resized = [c EXCEPT !.src = r.st, !.cache = Resized(@, chunk)]
    OBVIOUS
  <2>10. resized = [pos |-> p, start |-> start, cache |-> large, src |-> new]
    BY <1>3, <2>5, <2>8, <2>9
  <2>11. CASE got = << >>
    <3>1. u = Return(resized, Failed("EndOfData"))
      BY <1>6, <2>2, <2>7, <2>9, <2>11 DEF update_cache
    <3>2. u.st = resized /\ u.res = Failed("EndOfData") /\ u.res # Ok(<< >>)
      BY <3>1, StrReturn, StrOk
    <3>3. ReaderOk(resized) /\ resized.pos = p /\ resized.src = new
      BY <1>1, <2>5, <2>8, <2>10, StrNewReader
    <3>4. p = Size
      BY <2>5, <2>6, <2>11
    <3>5. QED
      BY <1>1, <1>3, <2>5, <3>2, <3>3, <3>4 DEF Updated
  <2>12. CASE got # << >>
    <3>1. PICK full : full = [resized EXCEPT !.cache = r.res.value, !.start = c.pos]
      OBVIOUS
    <3>2. u = Return(full, Ok(<< >>))
      BY <1>6, <2>2, <2>7, <2>9, <2>12, <3>1 DEF update_cache
    <3>3. u.st = full /\ u.res = Ok(<< >>)
      BY <3>2, StrReturn
    <3>4. full = [pos |-> p, start |-> p, cache |-> got, src |-> new]
      BY <1>3, <2>7, <2>10, <3>1
    <3>5. p \in 0 .. Size /\ Len(got) <= chunk /\ Len(got) > 0 /\ p < Size
      BY <1>1, <2>5, <2>6, <2>12
    <3>6. ReaderOk(full) /\ full.pos = p /\ full.start = p /\ full.cache = got
      BY <2>5, <3>4, <3>5, StrNewReader
    <3>7. InCache(full)
      BY <3>5, <3>6, <2>6, <2>5 DEF InCache
    <3>8. p + Len(got) = q /\ q <= Size
      BY <1>1, <2>5, <2>6
    <3>9. Sound(full)
      BY <2>6, <3>6, <3>8 DEF Sound, Part
    <3>10. QED
      BY <1>1, <1>3, <3>3, <3>5, <3>6, <3>7, <3>9 DEF Updated
  <2>13. QED
    BY <2>11, <2>12
<1>7. QED
  BY <1>1, <1>3, <1>4, <1>5, <1>6

\* The place of the position in the cache, and the n bytes from there on.
LEMMA StrCached ==
  ASSUME StrEnv, NEW c, ReaderOk(c), InCache(c)
  PROVE  /\ c.pos - c.start \in Nat /\ c.pos - c.start < Len(c.cache)
         /\ c.cache[c.pos - c.start + 1] \in Bytes
         /\ Sound(c) => c.pos < Size
<1>1. c.pos \in Nat /\ c.start \in 0 .. Size /\ Size \in Nat /\ Len(c.cache) \in Nat /\ c.cache \in Seq(Bytes)
  BY StrReader, StrEnvFacts
<1>2. c.pos - c.start \in Nat /\ c.pos - c.start < Len(c.cache)
  BY <1>1 DEF InCache
<1>3. c.cache[c.pos - c.start + 1] \in Bytes
  <2>1. PICK i \in 1 .. Len(c.cache) : i = c.pos - c.start + 1
    BY <1>1, <1>2
  <2>2. c.cache[i] \in Bytes
    BY <1>1
  <2>3. QED
    BY <2>1, <2>2
<1>4. Sound(c) => c.pos < Size
  BY <1>1, <1>2 DEF Sound
<1>5. QED
  BY <1>2, <1>3, <1>4

LEMMA StrCachedPart ==
  ASSUME StrEnv, NEW c, ReaderOk(c), InCache(c), NEW n \in Nat, c.pos - c.start + n <= Len(c.cache)
  PROVE  /\ SubSeq(c.cache, c.pos - c.start + 1, c.pos - c.start + n) \in Seq(Bytes)
         /\ Len(SubSeq(c.cache, c.pos - c.start + 1, c.pos - c.start + n)) = n
         /\ Sound(c) => /\ c.pos + n <= Size
                        /\ SubSeq(c.cache, c.pos - c.start + 1, c.pos - c.start + n) = Part(c.pos, c.pos + n)
<1>1. PICK s \in 0 .. Size, cache \in Seq(Bytes), p \in Nat : s = c.start /\ cache = c.cache /\ p = c.pos
  BY StrReader
<1>2. PICK o \in Nat : o = p - s /\ o < Len(cache) /\ o + n <= Len(cache) /\ Size \in Nat /\ s + o = p
  <2>1. p - s \in Nat /\ p - s < Len(cache) /\ p - s + n <= Len(cache) /\ Size \in Nat
    BY <1>1, StrCached, StrEnvFacts
  <2>2. s + (p - s) = p
    BY <2>1
  <2>3. QED
    BY <2>1, <2>2
<1>3. SubSeq(cache, o + 1, o + n) \in Seq(Bytes) /\ Len(SubSeq(cache, o + 1, o + n)) = n
  <2>1. \A i \in o + 1 .. o + n : cache[i] \in Bytes
    <3> SUFFICES ASSUME NEW i \in o + 1 .. o + n PROVE cache[i] \in Bytes
      OBVIOUS
    <3>1. i \in 1 .. Len(cache)
      BY <1>2
    <3>2. QED
      BY <3>1
  <2>2. /\ SubSeq(cache, o + 1, o + n) \in Seq(Bytes)
        /\ Len(SubSeq(cache, o + 1, o + n)) = IF o + 1 <= o + n THEN o + n - (o + 1) + 1 ELSE 0
    BY <1>2, <2>1, SubSeqProperties
  <2>3. QED
    BY <1>2, <2>2
<1>4. ASSUME Sound(c) PROVE p + n <= Size /\ SubSeq(cache, o + 1, o + n) = Part(p, p + n)
  <2>1. s + Len(cache) \in 0 .. Size /\ cache = Part(s, s + Len(cache))
    BY <1>1, <1>4, StrSound
  <2>2. PICK e \in 0 .. Size : e = s + Len(cache) /\ cache = Part(s, e) /\ s + o + n <= e
    BY <1>1, <1>2, <2>1
  <2>3. SubSeq(Part(s, e), o + 1, o + n) = Part(s + o, s + o + n)
    BY <2>2, StrPartSub
  <2>4. QED
    BY <1>2, <2>2, <2>3
<1>5. QED
  BY <1>1, <1>2, <1>3, <1>4

\* What read_byte does.
ByteRead(c, r) ==
  /\ ReaderOk(r.st)
  /\ \/ r.res \in {Failed("EndOfData"), Failed("InvalidPositionError")} /\ r.st.pos = c.pos
     \/ r.st.pos = c.pos + 1 /\ \E y \in Bytes : r.res = Ok(<<y>>)
  /\ Sound(c) =>
       /\ c.pos < Size => r.res = Ok(<<content[c.pos + 1]>>) /\ r.st.pos = c.pos + 1 /\ Sound(r.st)
       /\ c.pos = Size => r.res = Failed("EndOfData") /\ r.st.pos = c.pos /\ r.st.src.pos = Size
       /\ c.pos > Size => r.res = Failed("InvalidPositionError") /\ r.st = c
LEMMA StrReadByte ==
  ASSUME StrEnv, NEW c, ReaderOk(c)
  PROVE  ByteRead(c, CachedReadByte(c))
<1> SUFFICES ASSUME NEW r, r = CachedReadByte(c)
             PROVE  ByteRead(c, r)
  OBVIOUS
<1>1. Size \in Nat /\ c.pos \in Nat
  BY StrEnvFacts, StrReader
<1>2. PICK u : u = update_cache(c) /\ Updated(c, u)
  BY StrUpdate
<1>3. u.res = Ok(<< >>) <=> u.res.error = "NoError"
  BY <1>2, StrOk DEF Updated
<1>4. CASE u.res # Ok(<< >>)
  <2>1. r = u
    BY <1>2, <1>3, <1>4 DEF CachedReadByte
  <2>2. r.res \in {Failed("EndOfData"), Failed("InvalidPositionError")} /\ r.st.pos = c.pos /\ ReaderOk(r.st)
    BY <1>2, <1>4, <2>1 DEF Updated
  <2>3. Sound(c) => ~(c.pos < Size)
    BY <1>2, <1>4 DEF Updated
  <2>4. Sound(c) => /\ c.pos = Size => r.res = Failed("EndOfData") /\ r.st.src.pos = Size
                    /\ c.pos > Size => r.res = Failed("InvalidPositionError") /\ r.st = c
    BY <1>2, <2>1 DEF Updated
  <2>5. QED
    BY <2>2, <2>3, <2>4 DEF ByteRead
<1>5. CASE u.res = Ok(<< >>)
  <2>1. PICK e : e = u.st /\ ReaderOk(e) /\ e.pos = c.pos /\ InCache(e)
    BY <1>2, <1>5 DEF Updated
  <2>2. e.pos - e.start \in Nat /\ e.pos - e.start < Len(e.cache) /\ e.cache[e.pos - e.start + 1] \in Bytes
    BY <2>1, StrCached
  <2>3. Len(e.cache) \in Nat
    BY <2>1, StrReader
  <2>4. PICK m : m = [e EXCEPT !.pos = c.pos + 1]
    OBVIOUS
  <2>5. r = Return(m, Ok(<<e.cache[e.pos - e.start + 1]>>))
    <3>1. u.res.error = "NoError" /\ ~(e.pos - e.start >= Len(e.cache))
      BY <1>3, <1>5, <2>2, <2>3
    <3>2. QED
      BY <1>2, <2>1, <2>4, <3>1 DEF CachedReadByte
  <2>6. PICK y \in Bytes : y = e.cache[e.pos - e.start + 1]
    BY <2>2
  <2>7. r.st = m /\ r.res = Ok(<<y>>)
    BY <2>5, <2>6, StrReturn
  <2>8. ReaderOk(m) /\ m.pos = c.pos + 1 /\ (Sound(m) <=> Sound(e))
    <3>1. c.pos + 1 \in Nat
      BY <1>1
    <3>2. QED
      BY <2>1, <2>4, <3>1, StrMoved
  <2>9. ASSUME Sound(c) PROVE c.pos < Size /\ Sound(e) /\ y = content[c.pos + 1]
    <3>1. c.pos < Size /\ Sound(e)
      <4>1. c.pos < Size \/ c.pos = Size \/ c.pos > Size
        BY <1>1
      <4>2. QED
        BY <1>2, <1>5, <2>1, <2>9, <4>1, StrOk DEF Updated
    <3>2. e.start \in 0 .. Size /\ e.start + Len(e.cache) \in 0 .. Size /\ e.cache = Part(e.start, e.start + Len(e.cache))
      BY <2>1, <3>1, StrSound, StrReader
    <3>3. PICK z \in 0 .. Size : /\ z = e.start + Len(e.cache) /\ e.start <= z /\ Len(e.cache) = z - e.start
                                 /\ e.cache = Part(e.start, z)
      BY <1>1, <2>3, <3>2
    <3>4. \A i \in 1 .. z - e.start : Part(e.start, z)[i] = content[e.start + i]
      BY <3>2, <3>3, StrPart
    <3>5. PICK i \in 1 .. z - e.start : i = e.pos - e.start + 1 /\ e.start + i = c.pos + 1
      <4>1. PICK o \in Nat : o = e.pos - e.start /\ o < Len(e.cache)
        BY <2>2
      <4>2. e.pos \in Nat /\ e.start \in Nat /\ z \in Nat
        BY <1>1, <2>1, <3>2
      <4>3. e.start + (o + 1) = c.pos + 1 /\ o + 1 \in 1 .. z - e.start /\ o + 1 = e.pos - e.start + 1
        <5>1. e.pos = c.pos /\ e.start + o = e.pos /\ o < z - e.start
          BY <2>1, <3>3, <4>1, <4>2
        <5>2. o \in Nat /\ e.start \in Nat /\ z \in Nat /\ e.pos \in Nat
          BY <4>2
        <5>3. PICK a \in Nat, b \in Nat : a = e.start /\ b = e.pos
          BY <5>2
        <5>4. a + (o + 1) = b + 1 /\ o + 1 \in 1 .. z - a /\ o + 1 = b - a + 1
          BY <5>1, <5>2, <5>3
        <5>5. QED
          BY <5>1, <5>3, <5>4
      <4>4. QED
        BY <4>3
    <3>6. y = Part(e.start, z)[i]
      BY <2>6, <3>3, <3>5
    <3>7. QED
      BY <3>1, <3>4, <3>5, <3>6
  <2>10. Sound(c) => c.pos < Size /\ Sound(m) /\ r.res = Ok(<<content[c.pos + 1]>>)
    BY <2>7, <2>8, <2>9
  <2>11. c.pos < Size => ~(c.pos = Size) /\ ~(c.pos > Size)
    BY <1>1
  <2>12. QED
    BY <2>7, <2>8, <2>10, <2>11 DEF ByteRead
<1>6. QED
  BY <1>4, <1>5

\* As long as it goes on a loop keeps a sound cache sound; it ends so or at the end of the data.
LoopSound(c, x) ==
  /\ ReaderOk(x.st)
  /\ Sound(c) => Sound(x.st) \/ (x.res.error # "Going" /\ x.st.src.pos = Size)

\* The loop of read_bytes after k rounds, and how it ends.
ReadGot(p, n, k, x) ==
  /\ x.res = Going /\ x.st.pos \in 0 .. Size /\ p <= x.st.pos /\ x.got = Part(p, x.st.pos)
  /\ x.st.pos - p >= k /\ x.st.pos - p <= n
ReadEnds(p, n, to, res) == to = Upto(p, n) /\ res = ReadResult(p, n)
ReadIs(c, n, k, x) ==
  /\ LoopSound(c, x) /\ x.got \in Seq(Bytes) /\ Len(x.got) <= n
  /\ Sound(c) /\ c.pos <= Size =>
       IF x.res.error = "Going" THEN ReadGot(c.pos, n, k, x) ELSE ReadEnds(c.pos, n, x.st.pos, x.res)

\* It has got all, or is at the end.
LEMMA StrReadFull ==
  ASSUME StrEnv, NEW p \in 0 .. Size, NEW n \in Nat, NEW k \in Nat, NEW x, ReadGot(p, n, k, x), Len(x.got) = n
  PROVE  ReadEnds(p, n, x.st.pos, Ok(x.got))
<1>1. PICK q \in 0 .. Size : q = x.st.pos /\ p <= q /\ x.got = Part(p, q)
  BY DEF ReadGot
<1>2. Len(x.got) = q - p /\ (Part(p, q) = << >> <=> p = q)
  BY <1>1, StrPart
<1>3. Size \in Nat /\ p \in Nat /\ q = p + n /\ q <= Size
  <2>1. Size \in Nat
    BY StrEnvFacts
  <2>2. q - p = n
    BY <1>2
  <2>3. QED
    BY <2>1, <2>2
<1>4. Upto(p, n) = q
  BY <1>3 DEF Upto, Least
<1>5. n # 0 => p # Size
  BY <1>3
<1>6. n = 0 => Part(p, q) = << >>
  BY <1>2, <1>3
<1>7. Ok(x.got) = ReadResult(p, n)
  BY <1>1, <1>4, <1>5, <1>6 DEF ReadResult
<1>8. QED
  BY <1>1, <1>4, <1>7 DEF ReadEnds

LEMMA StrReadEnd ==
  ASSUME StrEnv, NEW p \in 0 .. Size, NEW n \in Nat, NEW k \in Nat, NEW x, ReadGot(p, n, k, x),
         Len(x.got) # n, x.st.pos = Size
  PROVE  ReadEnds(p, n, Size, IF x.got # << >> THEN Ok(x.got) ELSE Failed("EndOfData"))
<1>1. x.got = Part(p, Size) /\ Size \in 0 .. Size /\ p <= Size /\ Size \in Nat /\ p \in Nat /\ Size - p <= n
  BY StrEnvFacts DEF ReadGot
<1>2. Len(Part(p, Size)) = Size - p /\ (Part(p, Size) = << >> <=> p = Size)
  BY <1>1, StrPart
<1>3. Upto(p, n) = Size /\ n # 0
  BY <1>1, <1>2 DEF Upto, Least
<1>4. QED
  BY <1>1, <1>2, <1>3 DEF ReadEnds, ReadResult

LEMMA StrReadMore ==
  ASSUME StrEnv, NEW p \in 0 .. Size, NEW n \in Nat, NEW k \in Nat, NEW x, ReadGot(p, n, k, x),
         NEW m \in Nat \ {0}, m <= n - Len(x.got), x.st.pos + m <= Size, NEW st, st.pos = x.st.pos + m,
         NEW g, g = x.got \o Part(x.st.pos, x.st.pos + m)
  PROVE  ReadGot(p, n, k + 1, Loop(st, g, Going))
<1>1. PICK q \in 0 .. Size : q = x.st.pos /\ p <= q /\ x.got = Part(p, q) /\ q - p >= k
  BY DEF ReadGot
<1>2. Len(x.got) = q - p
  BY <1>1, StrPart
<1>3. PICK z \in 0 .. Size : z = q + m /\ q <= z /\ p <= z /\ z - p >= k + 1 /\ z - p <= n
  <2>1. Size \in Nat /\ p \in Nat /\ q \in Nat /\ q + m <= Size /\ m <= n - (q - p)
    BY <1>1, <1>2, StrEnvFacts
  <2>2. q + m \in 0 .. Size /\ q <= q + m /\ p <= q + m /\ q + m - p >= k + 1 /\ q + m - p <= n
    <3>1. m \in Nat /\ m >= 1 /\ q - p >= k
      BY <1>1
    <3>2. p <= q
      BY <1>1
    <3>3. q + m \in 0 .. Size /\ q <= q + m
      BY <2>1, <3>1
    <3>4. p <= q + m /\ q + m - p >= k + 1
      BY <2>1, <3>1, <3>2
    <3>5. q + m - p <= n
      BY <2>1, <3>1
    <3>6. QED
      BY <3>3, <3>4, <3>5
  <2>3. QED
    BY <2>2
<1>4. g = Part(p, z)
  <2>1. Part(p, q) \o Part(q, z) = Part(p, z)
    BY <1>1, <1>3, StrPartJoin
  <2>2. QED
    BY <1>1, <1>3, <2>1
<1>5. PICK y : y = Loop(st, g, Going)
  OBVIOUS
<1>6. y = Loop(st, g, Going) /\ y.st = st /\ y.got = g /\ y.res = Going
  BY <1>5 DEF Loop
<1>7. st.pos = z
  BY <1>1, <1>3
<1>8. ReadGot(p, n, k + 1, y)
  BY <1>3, <1>4, <1>6, <1>7 DEF ReadGot
<1>9. QED
  BY <1>6, <1>8

LEMMA StrReadRound ==
  ASSUME StrEnv, NEW c, ReaderOk(c), NEW n \in Nat, NEW k \in Nat, NEW x, ReadIs(c, n, k, x)
  PROVE  ReadIs(c, n, k + 1, CachedReadRound(x, n))
<1> SUFFICES ASSUME NEW y, y = CachedReadRound(x, n)
             PROVE  ReadIs(c, n, k + 1, y)
  OBVIOUS
<1>1. c.pos \in Nat /\ Size \in Nat /\ (c.pos <= Size => c.pos \in 0 .. Size)
  BY StrReader, StrEnvFacts
<1>2. CASE x.res.error # "Going"
  <2>1. y = x
    BY <1>2 DEF CachedReadRound, CachedReadStep
  <2>2. QED
    BY <1>2, <2>1 DEF ReadIs
<1>3. CASE x.res.error = "Going"
  <2>1. /\ ReaderOk(x.st) /\ (Sound(c) => Sound(x.st)) /\ x.got \in Seq(Bytes) /\ Len(x.got) \in Nat /\ Len(x.got) <= n
        /\ Sound(c) /\ c.pos <= Size => ReadGot(c.pos, n, k, x)
    BY <1>3 DEF ReadIs, LoopSound
  <2>2. PICK u : u = update_cache(x.st) /\ Updated(x.st, u)
    BY <2>1, StrUpdate
  <2>3. ReaderOk(u.st) /\ u.st.pos = x.st.pos /\ x.st.pos \in Nat
    BY <2>1, <2>2, StrReader DEF Updated
  <2>4. CASE n - Len(x.got) = 0
    <3>1. y = Loop(x.st, x.got, Ok(x.got))
      BY <1>3, <2>4 DEF CachedReadRound, CachedReadStep
    <3>2. y.st = x.st /\ y.got = x.got /\ y.res = Ok(x.got) /\ y.res.error = "NoError"
      BY <3>1, StrLoop, StrOk
    <3>3. Len(x.got) = n
      BY <2>1, <2>4
    <3>4. Sound(c) /\ c.pos <= Size => ReadEnds(c.pos, n, y.st.pos, y.res)
      BY <1>1, <2>1, <3>2, <3>3, StrReadFull
    <3>5. LoopSound(c, y)
      BY <2>1, <3>2 DEF LoopSound
    <3>6. QED
      BY <2>1, <3>2, <3>4, <3>5 DEF ReadIs
  <2>5. CASE n - Len(x.got) # 0 /\ u.res = Failed("EndOfData")
    <3>1. PICK e : e = IF x.got # << >> THEN Ok(x.got) ELSE Failed("EndOfData")
      OBVIOUS
    <3>2. y = Loop(u.st, x.got, e)
      <4>1. u.res.error = "EndOfData"
        BY <2>5, StrOk
      <4>2. QED
        BY <1>3, <2>2, <2>5, <3>1, <4>1 DEF CachedReadRound, CachedReadStep
    <3>3. y.st = u.st /\ y.got = x.got /\ y.res = e /\ y.res.error # "Going"
      BY <3>1, <3>2, StrLoop, StrOk
    <3>4. Sound(c) => x.st.pos = Size /\ u.st.src.pos = Size
      <4>1. u.res # Ok(<< >>) /\ u.res # Failed("InvalidPositionError")
        BY <2>5, StrOk
      <4>2. x.st.pos < Size \/ x.st.pos = Size \/ x.st.pos > Size
        BY <1>1, <2>3
      <4>3. QED
        BY <2>1, <2>2, <4>1, <4>2 DEF Updated
    <3>5. Len(x.got) # n
      BY <2>1, <2>5
    <3>6. Sound(c) /\ c.pos <= Size => ReadEnds(c.pos, n, Size, e)
      BY <1>1, <2>1, <3>1, <3>4, <3>5, StrReadEnd
    <3>7. LoopSound(c, y)
      BY <2>3, <3>3, <3>4 DEF LoopSound
    <3>8. QED
      BY <2>1, <2>3, <3>3, <3>4, <3>6, <3>7 DEF ReadIs
  <2>6. CASE n - Len(x.got) # 0 /\ u.res = Failed("InvalidPositionError")
    <3>1. u.res.error = "InvalidPositionError" /\ u.res # Ok(<< >>) /\ u.res # Failed("EndOfData")
      BY <2>6, StrOk
    <3>2. y = Loop(u.st, x.got, u.res)
      BY <1>3, <2>2, <2>6, <3>1 DEF CachedReadRound, CachedReadStep
    <3>3. y.st = u.st /\ y.got = x.got /\ y.res.error # "Going"
      BY <3>1, <3>2, StrLoop
    <3>4. Sound(c) => x.st.pos > Size /\ u.st = x.st
      <4>1. x.st.pos < Size \/ x.st.pos = Size \/ x.st.pos > Size
        BY <1>1, <2>3
      <4>2. QED
        BY <2>1, <2>2, <3>1, <4>1 DEF Updated
    <3>5. ~(Sound(c) /\ c.pos <= Size)
      <4>1. Sound(c) /\ c.pos <= Size => x.st.pos \in 0 .. Size
        BY <2>1 DEF ReadGot
      <4>2. QED
        BY <1>1, <2>3, <3>4, <4>1
    <3>6. LoopSound(c, y)
      BY <2>1, <2>3, <3>3, <3>4 DEF LoopSound
    <3>7. QED
      BY <2>1, <3>3, <3>5, <3>6 DEF ReadIs
  <2>7. CASE n - Len(x.got) # 0 /\ u.res = Ok(<< >>)
    <3>1. PICK e : e = u.st /\ ReaderOk(e) /\ InCache(e) /\ e.pos = x.st.pos
      BY <2>2, <2>3, <2>7 DEF Updated
    <3>2. PICK o \in Nat : o = e.pos - e.start /\ o < Len(e.cache)
      BY <3>1, StrCached
    <3>3. Len(e.cache) \in Nat
      BY <3>1, StrReader
    <3>4. PICK m \in Nat \ {0} : /\ m = Least(Len(e.cache) - o, n - Len(x.got))
                                 /\ m <= n - Len(x.got) /\ o + m <= Len(e.cache)
      <4>1. n - Len(x.got) \in Nat \ {0} /\ Len(e.cache) - o \in Nat \ {0}
        BY <2>1, <2>7, <3>2, <3>3
      <4>2. PICK a \in Nat \ {0}, b \in Nat \ {0} : a = Len(e.cache) - o /\ b = n - Len(x.got)
        BY <4>1
      <4>3. Least(a, b) \in Nat \ {0} /\ Least(a, b) <= b /\ Least(a, b) <= a
        BY DEF Least
      <4>4. PICK m \in Nat \ {0} : m = Least(a, b) /\ m <= b /\ m <= a
        BY <4>3
      <4>5. o + m <= Len(e.cache)
        BY <3>3, <4>2, <4>4
      <4>6. QED
        BY <4>2, <4>4, <4>5
    <3>5. PICK d : d = [e EXCEPT !.pos = x.st.pos + m]
      OBVIOUS
    <3>6. PICK t : t = SubSeq(e.cache, o + 1, o + m)
      OBVIOUS
    <3>7. y = Loop(d, x.got \o t, Going)
      <4>1. u.res.error = "NoError" /\ m # 0
        BY <2>7, StrOk
      <4>2. QED
        BY <1>3, <2>2, <2>7, <3>1, <3>2, <3>4, <3>5, <3>6, <4>1 DEF CachedReadRound, CachedReadStep
    <3>8. t \in Seq(Bytes) /\ Len(t) = m /\ (Sound(e) => e.pos + m <= Size /\ t = Part(e.pos, e.pos + m))
      BY <3>1, <3>2, <3>4, <3>6, StrCachedPart
    <3>9. PICK g : g = x.got \o t
      OBVIOUS
    <3>10. g = x.got \o t /\ g \in Seq(Bytes) /\ Len(g) <= n
      <4>1. x.got \o t \in Seq(Bytes) /\ Len(x.got \o t) = Len(x.got) + Len(t)
        BY <2>1, <3>8, ConcatProperties
      <4>2. Len(g) = Len(x.got) + m /\ g \in Seq(Bytes)
        BY <3>8, <3>9, <4>1
      <4>3. Len(x.got) + m <= n
        BY <2>1, <3>4
      <4>4. QED
        BY <3>9, <4>2, <4>3
    <3>11. ReaderOk(d) /\ d.pos = x.st.pos + m /\ (Sound(d) <=> Sound(e))
      <4>1. x.st.pos + m \in Nat
        BY <2>3
      <4>2. QED
        BY <3>1, <3>5, <4>1, StrMoved
    <3>12. y.st = d /\ y.got = g /\ y.res = Going /\ y.res.error = "Going" /\ y = Loop(d, g, Going)
      <4>1. y = Loop(d, g, Going)
        BY <3>7, <3>10
      <4>2. QED
        BY <4>1, StrLoop, StrOk
    <3>13. Sound(c) => Sound(e)
      <4>1. u.res # Failed("EndOfData") /\ u.res # Failed("InvalidPositionError")
        BY <2>7, StrOk
      <4>2. x.st.pos < Size \/ x.st.pos = Size \/ x.st.pos > Size
        BY <1>1, <2>3
      <4>3. QED
        BY <2>1, <2>2, <3>1, <4>1, <4>2 DEF Updated
    <3>14. ASSUME Sound(c), c.pos <= Size PROVE ReadGot(c.pos, n, k + 1, y)
      <4>1. ReadGot(c.pos, n, k, x) /\ c.pos \in 0 .. Size
        BY <1>1, <2>1, <3>14
      <4>2. x.st.pos + m <= Size /\ g = x.got \o Part(x.st.pos, x.st.pos + m)
        BY <3>1, <3>8, <3>10, <3>13, <3>14
      <4>3. ReadGot(c.pos, n, k + 1, Loop(d, g, Going))
        BY <3>4, <3>11, <4>1, <4>2, StrReadMore
      <4>4. QED
        BY <3>12, <4>3
    <3>15. LoopSound(c, y)
      BY <3>11, <3>12, <3>13 DEF LoopSound
    <3>16. QED
      BY <3>10, <3>12, <3>14, <3>15 DEF ReadIs
  <2>8. QED
    BY <2>2, <2>4, <2>5, <2>6, <2>7 DEF Updated
<1>4. QED
  BY <1>2, <1>3

\* CachedReadRounds is what its recursive definition says it is: by induction there is such a function.
CachedReadTo(c, n, m, s) ==
  s = [k \in 0 .. m |-> IF k = 0 THEN Loop(c, << >>, Going) ELSE CachedReadRound(s[k - 1], n)]
LEMMA CachedReadToExists ==
  ASSUME NEW c, NEW n, NEW m \in Nat
  PROVE  \E s : CachedReadTo(c, n, m, s)
<1> DEFINE T == {j \in Nat : \E s : CachedReadTo(c, n, j, s)}
           a == Loop(c, << >>, Going)
<1>1. 0 \in T
  <2> DEFINE s == [k \in 0 .. 0 |-> a]
  <2> HIDE DEF a
  <2>1. s = [k \in 0 .. 0 |-> IF k = 0 THEN a ELSE CachedReadRound(s[k - 1], n)]
    OBVIOUS
  <2>2. CachedReadTo(c, n, 0, s)
    BY <2>1 DEF CachedReadTo, a
  <2> HIDE DEF s
  <2>3. QED
    BY <2>2
<1>2. ASSUME NEW j \in Nat, j \in T PROVE j + 1 \in T
  <2>1. PICK s : CachedReadTo(c, n, j, s)
    BY <1>2
  <2> DEFINE f == CachedReadRound(s[j], n)
             u == [k \in 0 .. j + 1 |-> IF k = j + 1 THEN f ELSE s[k]]
  <2>2. DOMAIN s = 0 .. j /\ \A k \in 0 .. j : s[k] = IF k = 0 THEN a ELSE CachedReadRound(s[k - 1], n)
    BY <2>1 DEF CachedReadTo
  <2> HIDE DEF a
  <2>3. ASSUME NEW k \in 0 .. j + 1 PROVE u[k] = IF k = 0 THEN a ELSE CachedReadRound(u[k - 1], n)
    <3>1. CASE k = j + 1
      <4>1. u[k] = f /\ u[k - 1] = s[j] /\ k # 0
        <5> HIDE DEF f
        <5>1. QED
          BY <3>1
      <4> HIDE DEF u
      <4>2. QED
        BY <4>1
    <3>2. CASE k # j + 1
      <4>1. k \in 0 .. j /\ u[k] = s[k] /\ (k # 0 => k - 1 \in 0 .. j /\ u[k - 1] = s[k - 1])
        <5> HIDE DEF f
        <5>1. QED
          BY <3>2
      <4> HIDE DEF u
      <4>2. QED
        BY <2>2, <4>1
    <3>3. QED
      BY <3>1, <3>2
  <2>4. u = [k \in 0 .. j + 1 |-> u[k]]
    <3> HIDE DEF f
    <3>1. QED
      OBVIOUS
  <2> HIDE DEF u
  <2>5. CachedReadTo(c, n, j + 1, u)
    BY <2>3, <2>4 DEF CachedReadTo, a
  <2>6. QED
    BY <2>5
<1> HIDE DEF T
<1>3. Nat \subseteq T
  BY <1>1, <1>2, NatSetInduction
<1>4. QED
  BY <1>3 DEF T

LEMMA CachedReadUnfold ==
  ASSUME StrEnv, NEW c, NEW n
  PROVE  /\ CachedReadRounds(c, n)[0] = Loop(c, << >>, Going)
         /\ \A k \in Nat : k + 1 <= Rounds =>
              CachedReadRounds(c, n)[k + 1] = CachedReadRound(CachedReadRounds(c, n)[k], n)
<1> DEFINE D(s) == CachedReadTo(c, n, Rounds, s)
<1>1. Rounds \in Nat
  BY StrEnvFacts
<1>2. PICK s : D(s)
  BY <1>1, CachedReadToExists
<1>3. CachedReadRounds(c, n) = CHOOSE f : D(f)
  BY DEF CachedReadRounds, CachedReadTo
<1>4. PICK r : r = CachedReadRounds(c, n) /\ D(r)
  BY <1>2, <1>3
<1>5. r[0] = Loop(c, << >>, Going)
  BY <1>1, <1>4 DEF CachedReadTo
<1>6. ASSUME NEW k \in Nat, k + 1 <= Rounds PROVE r[k + 1] = CachedReadRound(r[k], n)
  <2>1. k + 1 \in 0 .. Rounds /\ k + 1 # 0 /\ (k + 1) - 1 = k
    BY <1>1, <1>6
  <2>2. QED
    BY <1>4, <2>1 DEF CachedReadTo
<1>7. QED
  BY <1>4, <1>5, <1>6

LEMMA StrReadStart ==
  ASSUME StrEnv, NEW c, ReaderOk(c), NEW n \in Nat
  PROVE  ReadIs(c, n, 0, Loop(c, << >>, Going))
<1>1. PICK y : y = Loop(c, << >>, Going) /\ y.st = c /\ y.got = << >> /\ y.res = Going /\ y.res.error = "Going"
  BY StrLoop, StrOk
<1>2. LoopSound(c, y) /\ y.got \in Seq(Bytes) /\ Len(y.got) <= n
  <2>1. << >> \in Seq(Bytes) /\ Len(<< >>) <= n
    OBVIOUS
  <2>2. LoopSound(c, y)
    BY <1>1 DEF LoopSound
  <2>3. QED
    BY <1>1, <2>1, <2>2
<1>3. ASSUME c.pos <= Size PROVE ReadGot(c.pos, n, 0, y)
  <2>1. PICK p \in 0 .. Size : p = c.pos /\ p <= p /\ p - p = 0
    BY <1>3, StrReader, StrEnvFacts
  <2>2. Part(p, p) = << >>
    BY <2>1, StrPart
  <2>3. QED
    BY <1>1, <2>1, <2>2 DEF ReadGot
<1>4. QED
  BY <1>1, <1>2, <1>3 DEF ReadIs

LEMMA StrReadRounds ==
  ASSUME StrEnv, NEW c, ReaderOk(c), NEW n \in Nat
  PROVE  ReadIs(c, n, Rounds, CachedReadRounds(c, n)[Rounds])
<1> DEFINE T == {k \in Nat : k <= Rounds => ReadIs(c, n, k, CachedReadRounds(c, n)[k])}
<1>1. Rounds \in Nat
  BY StrEnvFacts
<1>2. 0 \in T
  BY CachedReadUnfold, StrReadStart
<1>3. ASSUME NEW k \in Nat, k \in T PROVE k + 1 \in T
  <2> SUFFICES ASSUME k + 1 <= Rounds PROVE ReadIs(c, n, k + 1, CachedReadRounds(c, n)[k + 1])
    OBVIOUS
  <2>1. PICK x : x = CachedReadRounds(c, n)[k] /\ ReadIs(c, n, k, x)
    BY <1>1, <1>3
  <2>2. CachedReadRounds(c, n)[k + 1] = CachedReadRound(x, n)
    BY <2>1, CachedReadUnfold
  <2>3. ReadIs(c, n, k + 1, CachedReadRound(x, n))
    BY <2>1, StrReadRound
  <2>4. QED
    BY <2>2, <2>3
<1> HIDE DEF T
<1>4. Nat \subseteq T
  BY <1>2, <1>3, NatSetInduction
<1>5. QED
  BY <1>1, <1>4 DEF T

\* What a call of CachedReader leaves of the cache.
CacheKept(c, r) == ReaderOk(r.st) /\ (Sound(c) => Sound(r.st) \/ r.st.src.pos = Size)

LEMMA StrCachedRead ==
  ASSUME StrEnv, NEW c, ReaderOk(c), NEW n \in Nat
  PROVE  /\ CacheKept(c, CachedReadBytes(c, n))
         /\ Sound(c) /\ c.pos <= Size => ReadEnds(c.pos, n, CachedReadBytes(c, n).st.pos, CachedReadBytes(c, n).res)
<1>1. PICK x : x = CachedReadRounds(c, n)[Rounds] /\ ReadIs(c, n, Rounds, x)
  BY StrReadRounds
<1>2. PICK r : r = CachedReadBytes(c, n) /\ r.st = x.st /\ r.res = x.res
  BY <1>1, StrReturn DEF CachedReadBytes
<1>3. CacheKept(c, r)
  BY <1>1, <1>2 DEF ReadIs, LoopSound, CacheKept
<1>4. ASSUME Sound(c), c.pos <= Size PROVE ReadEnds(c.pos, n, x.st.pos, x.res)
  <2>1. c.pos \in Nat /\ Rounds \in Nat /\ Size \in Nat /\ Rounds > Size
    BY StrReader, StrEnvFacts
  <2>2. ~ReadGot(c.pos, n, Rounds, x)
    BY <2>1 DEF ReadGot
  <2>3. QED
    BY <1>1, <1>4, <2>2 DEF ReadIs
<1>5. QED
  BY <1>2, <1>3, <1>4

\* The loop of CachedReader's read_until after k rounds.
CachedUntilIs(c, d, consume, k, x) ==
  LoopSound(c, x) /\ (Sound(c) /\ c.pos <= Size => UntilIs(c.pos, d, consume, k, x))

LEMMA StrCachedRound ==
  ASSUME StrEnv, NEW c, ReaderOk(c), NEW d, NEW consume \in BOOLEAN, NEW k \in Nat, NEW x,
         CachedUntilIs(c, d, consume, k, x)
  PROVE  CachedUntilIs(c, d, consume, k + 1, CachedUntilRound(x, d, consume))
<1> SUFFICES ASSUME NEW y, y = CachedUntilRound(x, d, consume)
             PROVE  CachedUntilIs(c, d, consume, k + 1, y)
  OBVIOUS
<1>1. c.pos \in Nat /\ Size \in Nat /\ (c.pos <= Size => c.pos \in 0 .. Size)
  BY StrReader, StrEnvFacts
<1>2. CASE x.res.error # "Going"
  <2>1. y = x
    BY <1>2 DEF CachedUntilRound, CachedUntilStep
  <2>2. QED
    BY <1>2, <2>1 DEF CachedUntilIs, UntilIs
<1>3. CASE x.res.error = "Going"
  <2>1. /\ ReaderOk(x.st) /\ (Sound(c) => Sound(x.st)) /\ x.st.pos \in Nat
        /\ Sound(c) /\ c.pos <= Size => UntilGot(c.pos, d, k, x) /\ x.st.pos <= Size
    <3>1. /\ ReaderOk(x.st) /\ (Sound(c) => Sound(x.st))
          /\ Sound(c) /\ c.pos <= Size => UntilGot(c.pos, d, k, x)
      BY <1>3 DEF CachedUntilIs, UntilIs, LoopSound
    <3>2. UntilGot(c.pos, d, k, x) => x.st.pos <= Size
      BY <1>1 DEF UntilGot
    <3>3. x.st.pos \in Nat
      BY <3>1, StrReader
    <3>4. QED
      BY <3>1, <3>2, <3>3
  <2>2. PICK r : r = CachedReadByte(x.st) /\ ByteRead(x.st, r)
    BY <2>1, StrReadByte
  <2>3. ReaderOk(r.st) /\ (x.st.pos < Size \/ x.st.pos = Size \/ x.st.pos > Size)
    BY <1>1, <2>1, <2>2 DEF ByteRead
  <2>4. CASE r.res \in {Failed("EndOfData"), Failed("InvalidPositionError")}
    <3>1. /\ r.res.error # "NoError" /\ r.res.error # "Going" /\ (r.res.error = "EndOfData" <=> r.res = Failed("EndOfData"))
          /\ r.res # Ok(<<content[x.st.pos + 1]>>)
      BY <2>4, StrOk
    <3>2. PICK e : /\ e = IF r.res.error = "EndOfData" /\ x.got # << >> THEN Ok(x.got) ELSE r.res
                   /\ e.error # "Going"
      BY <3>1, StrOk
    <3>3. y = Loop(r.st, x.got, e)
      BY <1>3, <2>2, <3>1, <3>2 DEF CachedUntilRound, CachedUntilStep
    <3>4. y.st = r.st /\ y.res = e
      BY <3>3, StrLoop
    <3>5. Sound(c) => \/ x.st.pos = Size /\ r.res = Failed("EndOfData") /\ r.st.pos = x.st.pos /\ r.st.src.pos = Size
                      \/ x.st.pos > Size /\ r.st = x.st
      BY <2>1, <2>2, <2>3, <3>1 DEF ByteRead
    <3>6. LoopSound(c, y)
      BY <2>1, <2>3, <3>2, <3>4, <3>5 DEF LoopSound
    <3>7. ASSUME Sound(c), c.pos <= Size PROVE UntilEnds(c.pos, d, consume, y.st.pos, y.res)
      <4>1. x.st.pos = Size /\ r.res = Failed("EndOfData") /\ r.st.pos = Size
        <5>1. ~(x.st.pos > Size)
          BY <1>1, <2>1, <3>7
        <5>2. QED
          BY <3>5, <3>7, <5>1
      <4>2. UntilGot(c.pos, d, k, x) /\ c.pos \in 0 .. Size
        BY <1>1, <2>1, <3>7
      <4>3. /\ x.got # << >> => UntilEnds(c.pos, d, consume, Size, Ok(x.got))
            /\ x.got = << >> => UntilEnds(c.pos, d, consume, Size, Failed("EndOfData"))
        BY <4>1, <4>2, StrUntilEnd
      <4>4. QED
        BY <3>1, <3>2, <3>4, <4>1, <4>3
    <3>8. QED
      BY <3>2, <3>4, <3>6, <3>7 DEF CachedUntilIs, UntilIs
  <2>5. CASE r.res \notin {Failed("EndOfData"), Failed("InvalidPositionError")}
    <3>1. PICK z \in Bytes : r.res = Ok(<<z>>) /\ r.st.pos = x.st.pos + 1
      BY <2>2, <2>5 DEF ByteRead
    <3>2. r.res.error = "NoError" /\ r.res.value = <<z>> /\ (<<z>> = <<d>> <=> z = d)
      BY <3>1, StrOk, StrOneByte
    <3>3. Sound(c) => x.st.pos < Size /\ r.res = Ok(<<content[x.st.pos + 1]>>) /\ Sound(r.st)
      BY <2>1, <2>2, <2>3, <2>5 DEF ByteRead
    <3>4. Sound(c) => x.st.pos # Size /\ z = content[x.st.pos + 1]
      <4>1. x.st.pos < Size => x.st.pos # Size
        BY <1>1, <2>1
      <4>2. PICK z2 : z2 = content[x.st.pos + 1]
        OBVIOUS
      <4>3. r.res = Ok(<<z2>>) => z = z2
        BY <3>1, StrOk, StrOneByte
      <4>4. QED
        BY <3>3, <4>1, <4>2, <4>3
    <3>5. CASE z # d
      <4>1. y = Loop(r.st, x.got \o <<z>>, Going)
        BY <1>3, <2>2, <3>2, <3>5 DEF CachedUntilRound, CachedUntilStep
      <4>2. y.st = r.st /\ y.res = Going /\ y.res.error = "Going"
        <5>1. PICK g : g = x.got \o <<z>>
          OBVIOUS
        <5>2. QED
          BY <4>1, <5>1, StrLoop, StrOk
      <4>3. ASSUME Sound(c), c.pos <= Size PROVE UntilGot(c.pos, d, k + 1, y)
        <5>1. UntilGot(c.pos, d, k, x) /\ c.pos \in 0 .. Size /\ x.st.pos # Size /\ content[x.st.pos + 1] # d
          BY <1>1, <2>1, <3>4, <3>5, <4>3
        <5>2. UntilGot(c.pos, d, k + 1, Loop(r.st, x.got \o <<content[x.st.pos + 1]>>, Going))
          BY <3>1, <5>1, StrUntilMore
        <5>3. QED
          BY <3>4, <4>1, <4>3, <5>2
      <4>4. LoopSound(c, y)
        BY <2>3, <3>3, <4>2 DEF LoopSound
      <4>5. QED
        BY <4>2, <4>3, <4>4 DEF CachedUntilIs, UntilIs
    <3>6. CASE z = d
      <4>1. PICK f : f = IF consume THEN r.st ELSE [r.st EXCEPT !.pos = @ - 1]
        OBVIOUS
      <4>2. y = Loop(f, x.got, Ok(x.got))
        BY <1>3, <2>2, <3>2, <3>6, <4>1 DEF CachedUntilRound, CachedUntilStep
      <4>3. y.st = f /\ y.res = Ok(x.got) /\ y.res.error = "NoError"
        BY <4>2, StrLoop, StrOk
      <4>4. /\ ReaderOk(f) /\ (Sound(r.st) => Sound(f))
            /\ f.pos = IF consume THEN x.st.pos + 1 ELSE x.st.pos
        <5>1. CASE consume
          BY <2>3, <3>1, <4>1, <5>1
        <5>2. CASE ~consume
          <6>1. r.st.pos - 1 = x.st.pos
            BY <2>1, <3>1
          <6>2. f = [r.st EXCEPT !.pos = x.st.pos]
            BY <4>1, <5>2, <6>1
          <6>3. ReaderOk(f) /\ f.pos = x.st.pos /\ (Sound(f) <=> Sound(r.st))
            BY <2>1, <2>3, <6>2, StrMoved
          <6>4. QED
            BY <5>2, <6>3
        <5>3. QED
          BY <5>1, <5>2
      <4>5. LoopSound(c, y)
        BY <3>3, <4>3, <4>4 DEF LoopSound
      <4>6. ASSUME Sound(c), c.pos <= Size PROVE UntilEnds(c.pos, d, consume, y.st.pos, y.res)
        <5>1. UntilGot(c.pos, d, k, x) /\ c.pos \in 0 .. Size /\ x.st.pos # Size /\ content[x.st.pos + 1] = d
          BY <1>1, <2>1, <3>4, <3>6, <4>6
        <5>2. UntilEnds(c.pos, d, consume, IF consume THEN x.st.pos + 1 ELSE x.st.pos, Ok(x.got))
          BY <5>1, StrUntilFound
        <5>3. QED
          BY <4>3, <4>4, <5>2
      <4>7. QED
        BY <4>3, <4>5, <4>6 DEF CachedUntilIs, UntilIs
    <3>7. QED
      BY <3>5, <3>6
  <2>6. QED
    BY <2>4, <2>5
<1>4. QED
  BY <1>2, <1>3

\* CachedUntilRounds is what its recursive definition says it is: by induction there is such a function.
CachedUntilTo(c, d, consume, m, s) ==
  s = [k \in 0 .. m |-> IF k = 0 THEN Loop(c, << >>, Going) ELSE CachedUntilRound(s[k - 1], d, consume)]
LEMMA CachedUntilToExists ==
  ASSUME NEW c, NEW d, NEW consume, NEW m \in Nat
  PROVE  \E s : CachedUntilTo(c, d, consume, m, s)
<1> DEFINE T == {j \in Nat : \E s : CachedUntilTo(c, d, consume, j, s)}
           a == Loop(c, << >>, Going)
<1>1. 0 \in T
  <2> DEFINE s == [k \in 0 .. 0 |-> a]
  <2> HIDE DEF a
  <2>1. s = [k \in 0 .. 0 |-> IF k = 0 THEN a ELSE CachedUntilRound(s[k - 1], d, consume)]
    OBVIOUS
  <2>2. CachedUntilTo(c, d, consume, 0, s)
    BY <2>1 DEF CachedUntilTo, a
  <2> HIDE DEF s
  <2>3. QED
    BY <2>2
<1>2. ASSUME NEW j \in Nat, j \in T PROVE j + 1 \in T
  <2>1. PICK s : CachedUntilTo(c, d, consume, j, s)
    BY <1>2
  <2> DEFINE f == CachedUntilRound(s[j], d, consume)
             u == [k \in 0 .. j + 1 |-> IF k = j + 1 THEN f ELSE s[k]]
  <2>2. DOMAIN s = 0 .. j /\ \A k \in 0 .. j : s[k] = IF k = 0 THEN a ELSE CachedUntilRound(s[k - 1], d, consume)
    BY <2>1 DEF CachedUntilTo
  <2> HIDE DEF a
  <2>3. ASSUME NEW k \in 0 .. j + 1 PROVE u[k] = IF k = 0 THEN a ELSE CachedUntilRound(u[k - 1], d, consume)
    <3>1. CASE k = j + 1
      <4>1. u[k] = f /\ u[k - 1] = s[j] /\ k # 0
        <5> HIDE DEF f
        <5>1. QED
          BY <3>1
      <4> HIDE DEF u
      <4>2. QED
        BY <4>1
    <3>2. CASE k # j + 1
      <4>1. k \in 0 .. j /\ u[k] = s[k] /\ (k # 0 => k - 1 \in 0 .. j /\ u[k - 1] = s[k - 1])
        <5> HIDE DEF f
        <5>1. QED
          BY <3>2
      <4> HIDE DEF u
      <4>2. QED
        BY <2>2, <4>1
    <3>3. QED
      BY <3>1, <3>2
  <2>4. u = [k \in 0 .. j + 1 |-> u[k]]
    <3> HIDE DEF f
    <3>1. QED
      OBVIOUS
  <2> HIDE DEF u
  <2>5. CachedUntilTo(c, d, consume, j + 1, u)
    BY <2>3, <2>4 DEF CachedUntilTo, a
  <2>6. QED
    BY <2>5
<1> HIDE DEF T
<1>3. Nat \subseteq T
  BY <1>1, <1>2, NatSetInduction
<1>4. QED
  BY <1>3 DEF T

LEMMA CachedUntilUnfold ==
  ASSUME StrEnv, NEW c, NEW d, NEW consume
  PROVE  /\ CachedUntilRounds(c, d, consume)[0] = Loop(c, << >>, Going)
         /\ \A k \in Nat : k + 1 <= Rounds =>
              CachedUntilRounds(c, d, consume)[k + 1] = CachedUntilRound(CachedUntilRounds(c, d, consume)[k], d, consume)
<1> DEFINE D(s) == CachedUntilTo(c, d, consume, Rounds, s)
<1>1. Rounds \in Nat
  BY StrEnvFacts
<1>2. PICK s : D(s)
  BY <1>1, CachedUntilToExists
<1>3. CachedUntilRounds(c, d, consume) = CHOOSE f : D(f)
  BY DEF CachedUntilRounds, CachedUntilTo
<1>4. PICK r : r = CachedUntilRounds(c, d, consume) /\ D(r)
  BY <1>2, <1>3
<1>5. r[0] = Loop(c, << >>, Going)
  BY <1>1, <1>4 DEF CachedUntilTo
<1>6. ASSUME NEW k \in Nat, k + 1 <= Rounds PROVE r[k + 1] = CachedUntilRound(r[k], d, consume)
  <2>1. k + 1 \in 0 .. Rounds /\ k + 1 # 0 /\ (k + 1) - 1 = k
    BY <1>1, <1>6
  <2>2. QED
    BY <1>4, <2>1 DEF CachedUntilTo
<1>7. QED
  BY <1>4, <1>5, <1>6

LEMMA StrCachedStart ==
  ASSUME StrEnv, NEW c, ReaderOk(c), NEW d, NEW consume \in BOOLEAN
  PROVE  CachedUntilIs(c, d, consume, 0, Loop(c, << >>, Going))
<1>1. PICK y : y = Loop(c, << >>, Going) /\ y.st = c /\ y.got = << >> /\ y.res = Going /\ y.res.error = "Going"
  BY StrLoop, StrOk
<1>2. LoopSound(c, y)
  BY <1>1 DEF LoopSound
<1>3. ASSUME c.pos <= Size PROVE UntilGot(c.pos, d, 0, y)
  <2>1. PICK p \in 0 .. Size : p = c.pos /\ p <= p /\ p + 0 = p /\ p \in Nat
    BY <1>3, StrReader, StrEnvFacts
  <2>2. Part(p, p) = << >>
    BY <2>1, StrPart
  <2>3. QED
    BY <1>1, <2>1, <2>2 DEF UntilGot
<1>4. QED
  BY <1>1, <1>2, <1>3 DEF CachedUntilIs, UntilIs

LEMMA StrCachedRounds ==
  ASSUME StrEnv, NEW c, ReaderOk(c), NEW d, NEW consume \in BOOLEAN
  PROVE  CachedUntilIs(c, d, consume, Rounds, CachedUntilRounds(c, d, consume)[Rounds])
<1> DEFINE T == {k \in Nat : k <= Rounds => CachedUntilIs(c, d, consume, k, CachedUntilRounds(c, d, consume)[k])}
<1>1. Rounds \in Nat
  BY StrEnvFacts
<1>2. 0 \in T
  BY CachedUntilUnfold, StrCachedStart
<1>3. ASSUME NEW k \in Nat, k \in T PROVE k + 1 \in T
  <2> SUFFICES ASSUME k + 1 <= Rounds PROVE CachedUntilIs(c, d, consume, k + 1, CachedUntilRounds(c, d, consume)[k + 1])
    OBVIOUS
  <2>1. PICK x : x = CachedUntilRounds(c, d, consume)[k] /\ CachedUntilIs(c, d, consume, k, x)
    BY <1>1, <1>3
  <2>2. CachedUntilRounds(c, d, consume)[k + 1] = CachedUntilRound(x, d, consume)
    BY <2>1, CachedUntilUnfold
  <2>3. CachedUntilIs(c, d, consume, k + 1, CachedUntilRound(x, d, consume))
    BY <2>1, StrCachedRound
  <2>4. QED
    BY <2>2, <2>3
<1> HIDE DEF T
<1>4. Nat \subseteq T
  BY <1>2, <1>3, NatSetInduction
<1>5. QED
  BY <1>1, <1>4 DEF T

LEMMA StrCachedUntil ==
  ASSUME StrEnv, NEW c, ReaderOk(c), NEW d, NEW consume \in BOOLEAN
  PROVE  /\ CacheKept(c, CachedUntil(c, d, consume))
         /\ Sound(c) /\ c.pos <= Size =>
              UntilEnds(c.pos, d, consume, CachedUntil(c, d, consume).st.pos, CachedUntil(c, d, consume).res)
<1>1. PICK x : x = CachedUntilRounds(c, d, consume)[Rounds] /\ CachedUntilIs(c, d, consume, Rounds, x)
  BY StrCachedRounds
<1>2. PICK r : r = CachedUntil(c, d, consume) /\ r.st = x.st /\ r.res = x.res
  BY <1>1, StrReturn DEF CachedUntil
<1>3. CacheKept(c, r)
  BY <1>1, <1>2 DEF CachedUntilIs, LoopSound, CacheKept
<1>4. ASSUME Sound(c), c.pos <= Size PROVE UntilEnds(c.pos, d, consume, x.st.pos, x.res)
  <2>1. c.pos \in Nat /\ Rounds \in Nat /\ Size \in Nat /\ Rounds > Size
    BY StrReader, StrEnvFacts
  <2>2. ~(c.pos + Rounds \in 0 .. Size)
    BY <2>1
  <2>3. QED
    BY <1>1, <1>4, <2>2 DEF CachedUntilIs, UntilIs, UntilGot
<1>5. QED
  BY <1>2, <1>3, <1>4

-----------------------------------------------------------------------------
(***************************************************************************)
(* What the calls consume, and on what the two readers agree               *)
(***************************************************************************)

LEMMA StrConsumesRead ==
  ASSUME StrEnv, NEW op \in {"read_byte", "read_bytes"}, NEW p \in 0 .. Size, NEW n \in Nat,
         NEW res, NEW to, ReadEnds(p, n, to, res)
  PROVE  Consumes(op, n, res, p, to)
<1>1. PICK q \in 0 .. Size : q = Upto(p, n) /\ p <= q /\ (n = 0 => q = p) /\ (p = Size => q = p)
  <2>1. Upto(p, n) \in 0 .. Size /\ Upto(p, n) >= p /\ (n = 0 => Upto(p, n) = p) /\ (p = Size => Upto(p, n) = p)
    BY StrUpto
  <2>2. QED
    BY <2>1, StrEnvFacts
<1>2. Part(p, q) = << >> <=> p = q
  BY <1>1, StrPart
<1>3. to = q /\ \/ res = Ok(Part(p, q))
                \/ p = Size /\ q = p /\ res = Failed("EndOfData")
  BY <1>1, <1>2 DEF ReadEnds, ReadResult
<1>4. CASE res = Ok(Part(p, q))
  <2>1. res.error = "NoError" /\ res.value = Part(p, q)
    BY <1>4, StrOk
  <2>2. res.value = SubSeq(content, p + 1, to) /\ res.value = SubSeq(content, p + 1, Least(p + n, Size))
    BY <1>1, <1>3, <2>1 DEF Part, Upto
  <2>3. QED
    BY <2>1, <2>2 DEF Consumes
<1>5. CASE p = Size /\ q = p /\ res = Failed("EndOfData")
  <2>1. res.error = "EndOfData" /\ to = p
    BY <1>3, <1>5, StrOk
  <2>2. QED
    BY <1>5, <2>1 DEF Consumes
<1>6. QED
  BY <1>3, <1>4, <1>5

LEMMA StrConsumesUntil ==
  ASSUME StrEnv, NEW op \in {"read_until", "read_string"}, NEW arg, NEW consume \in BOOLEAN,
         consume = ~(op = "read_until" /\ arg = FALSE),
         NEW d, d = IF op = "read_string" THEN Zero ELSE Delimiter,
         NEW p \in 0 .. Size, NEW res, NEW to, UntilEnds(p, d, consume, to, res)
  PROVE  Consumes(op, arg, res, p, to)
<1>1. PICK q \in 0 .. Size :
        /\ p <= q
        /\ \A i \in p + 1 .. q : content[i] # d
        /\ q = Size => to = Size /\ res = IF p = Size THEN Failed("EndOfData") ELSE Ok(Part(p, q))
        /\ q # Size => content[q + 1] = d /\ to = (IF consume THEN q + 1 ELSE q) /\ res = Ok(Part(p, q))
  BY DEF UntilEnds
<1>2. Part(p, q) \in Seq(Bytes) /\ Len(Part(p, q)) = q - p /\ \A i \in 1 .. q - p : Part(p, q)[i] = content[p + i]
  BY <1>1, StrPart
<1>3. Size \in Nat /\ p \in Nat /\ q \in Nat
  BY StrEnvFacts
<1>4. CASE q = Size /\ p = Size
  <2>1. res.error = "EndOfData" /\ to = p
    BY <1>1, <1>4, StrOk
  <2>2. QED
    BY <1>4, <2>1 DEF Consumes
<1>5. CASE ~(q = Size /\ p = Size)
  <2>1. res.error = "NoError" /\ res.value = Part(p, q)
    <3>1. res = Ok(Part(p, q))
      BY <1>1, <1>3, <1>5
    <3>2. QED
      BY <3>1, StrOk
  <2>2. ~Contains(Part(p, q), d)
    <3> SUFFICES ASSUME NEW i \in 1 .. q - p PROVE Part(p, q)[i] # d
      BY <1>2 DEF Contains
    <3>1. p + i \in p + 1 .. q
      BY <1>3
    <3>2. QED
      BY <1>1, <1>2, <3>1
  <2>3. CASE q = Size
    <3>1. to = Size /\ SubSeq(content, p + 1, to) = Part(p, q)
      BY <1>1, <2>3 DEF Part
    <3>2. QED
      BY <2>1, <2>2, <3>1 DEF Consumes
  <2>4. CASE q # Size /\ consume
    <3>1. to = q + 1 /\ content[q + 1] = d
      BY <1>1, <2>4
    <3>2. Part(q, q + 1) = <<d>> /\ q + 1 \in 0 .. Size /\ d \in Bytes
      BY <2>4, <3>1, StrPartOne
    <3>3. PICK z \in 0 .. Size : z = q + 1 /\ q <= z
      BY <1>3, <3>2
    <3>4. Part(p, q) \o Part(q, z) = Part(p, z)
      BY <1>1, <3>3, StrPartJoin
    <3>5. Append(Part(p, q), d) = Part(p, q) \o <<d>>
      BY <1>2, <3>2, AppendIsConcat
    <3>6. SubSeq(content, p + 1, to) = Append(Part(p, q), d)
      BY <3>1, <3>2, <3>3, <3>4, <3>5 DEF Part
    <3>7. QED
      BY <2>1, <2>2, <2>4, <3>6 DEF Consumes
  <2>5. CASE q # Size /\ ~consume
    <3>1. to = q /\ content[to + 1] = d /\ SubSeq(content, p + 1, to) = Part(p, q)
      BY <1>1, <2>5 DEF Part
    <3>2. op = "read_until" /\ arg = FALSE
      BY <2>5
    <3>3. QED
      BY <2>1, <2>2, <3>1, <3>2 DEF Consumes
  <2>6. QED
    BY <2>3, <2>4, <2>5
<1>6. QED
  BY <1>4, <1>5

LEMMA StrConsumesPeek ==
  ASSUME StrEnv, NEW op \in {"peek_byte", "peek_bytes"}, NEW p \in 0 .. Size, NEW n \in Nat, NEW res,
         res = Ok(Part(p, Upto(p, n))) \/ (p = Size /\ res = Failed("EndOfData"))
  PROVE  Consumes(op, n, res, p, p)
<1>1. CASE res = Ok(Part(p, Upto(p, n)))
  <2>1. res.error = "NoError" /\ res.value = SubSeq(content, p + 1, Least(p + n, Size))
    BY <1>1, StrOk DEF Part, Upto
  <2>2. QED
    BY <2>1 DEF Consumes
<1>2. CASE p = Size /\ res = Failed("EndOfData")
  <2>1. res.error = "EndOfData"
    BY <1>2, StrOk
  <2>2. QED
    BY <1>2, <2>1 DEF Consumes
<1>3. QED
  BY <1>1, <1>2

LEMMA StrConsumesOther ==
  ASSUME NEW op \in {"seek", "skip", "remaining", "none"}, NEW arg, NEW p, NEW to, NEW res,
         res.error = "NoError" \/ (res.error = "InvalidPositionError" /\ to = p)
  PROVE  Consumes(op, arg, res, p, to)
BY DEF Consumes

\* What is to be shown of each call.
CallGood(op, arg, s, c) ==
  /\ BufferOk(s.st) /\ CacheKept(cached, c)
  /\ Consumes(op, arg, s.res, stream.pos, s.st.pos)
  /\ Sound(cached) /\ cached.pos = stream.pos => c.st.pos = s.st.pos /\ Agrees(op, s.res, c.res)

\* Both readers return the same.
LEMMA StrAgreed ==
  ASSUME NEW op, op # "read_all", NEW res
  PROVE  Agrees(op, res, res)
BY DEF Agrees

StrReaders == StrEnv /\ BufferOk(stream) /\ ReaderOk(cached)

LEMMA StrPositions ==
  ASSUME StrReaders
  PROVE  /\ StrEnv /\ BufferOk(stream) /\ ReaderOk(cached)
         /\ stream.pos \in 0 .. Size /\ stream.pos \in Nat /\ stream.pos <= Size /\ Size \in Nat /\ cached.pos \in Nat
         /\ Size < WordSize /\ WordSize \in Nat
<1>1. StrEnv /\ BufferOk(stream) /\ ReaderOk(cached)
  BY DEF StrReaders
<1>2. Size \in Nat /\ Size <= MaxSize
  BY <1>1, StrEnvFacts DEF StrEnv
<1>3. stream.pos \in 0 .. Size /\ cached.pos \in Nat
  BY <1>1, StrBuffer, StrReader
<1>4. QED
  BY <1>1, <1>2, <1>3, SizeAssumption

LEMMA StrCallReadBytes ==
  ASSUME StrReaders, NEW n \in Nat
  PROVE  CallGood("read_bytes", n, StreamReadBytes(stream, n), CachedReadBytes(cached, n))
<1>1. StrEnv /\ BufferOk(stream) /\ ReaderOk(cached) /\ stream.pos \in 0 .. Size /\ stream.pos <= Size
  BY StrPositions
<1>2. PICK s : s = StreamReadBytes(stream, n) /\ BufferOk(s.st) /\ ReadEnds(stream.pos, n, s.st.pos, s.res)
  BY <1>1, StrReadBytes DEF ReadEnds
<1>3. PICK c : /\ c = CachedReadBytes(cached, n) /\ CacheKept(cached, c)
               /\ Sound(cached) /\ cached.pos <= Size => ReadEnds(cached.pos, n, c.st.pos, c.res)
  BY <1>1, StrCachedRead
<1>4. Consumes("read_bytes", n, s.res, stream.pos, s.st.pos)
  BY <1>1, <1>2, StrConsumesRead
<1>5. Sound(cached) /\ cached.pos = stream.pos => c.st.pos = s.st.pos /\ c.res = s.res
  BY <1>1, <1>2, <1>3 DEF ReadEnds
<1>6. CallGood("read_bytes", n, s, c)
  BY <1>2, <1>3, <1>4, <1>5, StrAgreed DEF CallGood
<1>7. QED
  BY <1>2, <1>3, <1>6

LEMMA StrCallReadByte ==
  ASSUME StrReaders
  PROVE  CallGood("read_byte", 1, StreamReadBytes(stream, 1), CachedReadByte(cached))
<1>1. StrEnv /\ BufferOk(stream) /\ ReaderOk(cached) /\ stream.pos \in 0 .. Size /\ stream.pos <= Size /\ Size \in Nat
      /\ cached.pos \in Nat
  BY StrPositions
<1>2. PICK s : s = StreamReadBytes(stream, 1) /\ BufferOk(s.st) /\ ReadEnds(stream.pos, 1, s.st.pos, s.res)
  BY <1>1, StrReadBytes DEF ReadEnds
<1>3. /\ stream.pos = Size => s.st.pos = Size /\ s.res = Failed("EndOfData")
      /\ stream.pos # Size => s.st.pos = stream.pos + 1 /\ s.res = Ok(<<content[stream.pos + 1]>>)
  BY <1>1, <1>2, StrReadOne
<1>4. PICK c : c = CachedReadByte(cached) /\ ByteRead(cached, c)
  BY <1>1, StrReadByte
<1>5. CacheKept(cached, c)
  <2>1. cached.pos < Size \/ cached.pos = Size \/ cached.pos > Size
    BY <1>1
  <2>2. QED
    BY <1>4, <2>1 DEF ByteRead, CacheKept
<1>6. Consumes("read_byte", 1, s.res, stream.pos, s.st.pos)
  BY <1>1, <1>2, StrConsumesRead
<1>7. Sound(cached) /\ cached.pos = stream.pos => c.st.pos = s.st.pos /\ c.res = s.res
  <2>1. stream.pos = Size \/ (stream.pos < Size /\ stream.pos # Size)
    BY <1>1
  <2>2. QED
    BY <1>3, <1>4, <2>1 DEF ByteRead
<1>8. CallGood("read_byte", 1, s, c)
  BY <1>2, <1>5, <1>6, <1>7, StrAgreed DEF CallGood
<1>9. QED
  BY <1>2, <1>4, <1>8

LEMMA StrCallUntil ==
  ASSUME StrReaders, NEW op \in {"read_until", "read_string"}, NEW arg, NEW consume \in BOOLEAN,
         consume = ~(op = "read_until" /\ arg = FALSE),
         NEW d, d = IF op = "read_string" THEN Zero ELSE Delimiter
  PROVE  CallGood(op, arg, StreamUntil(stream, d, consume), CachedUntil(cached, d, consume))
<1>1. StrEnv /\ BufferOk(stream) /\ ReaderOk(cached) /\ stream.pos \in 0 .. Size /\ stream.pos <= Size
  BY StrPositions
<1>2. PICK s : /\ s = StreamUntil(stream, d, consume) /\ BufferOk(s.st)
               /\ UntilEnds(stream.pos, d, consume, s.st.pos, s.res)
  BY <1>1, StrStreamUntil
<1>3. PICK c : /\ c = CachedUntil(cached, d, consume) /\ CacheKept(cached, c)
               /\ Sound(cached) /\ cached.pos <= Size => UntilEnds(cached.pos, d, consume, c.st.pos, c.res)
  BY <1>1, StrCachedUntil
<1>4. Consumes(op, arg, s.res, stream.pos, s.st.pos)
  BY <1>1, <1>2, StrConsumesUntil
<1>5. ASSUME Sound(cached), cached.pos = stream.pos PROVE c.st.pos = s.st.pos /\ c.res = s.res
  <2>1. UntilEnds(stream.pos, d, consume, c.st.pos, c.res)
    BY <1>1, <1>3, <1>5
  <2>2. QED
    BY <1>1, <1>2, <2>1, StrUntilUnique
<1>6. CallGood(op, arg, s, c)
  BY <1>2, <1>3, <1>4, <1>5, StrAgreed DEF CallGood
<1>7. QED
  BY <1>2, <1>3, <1>6

\* read_all of CachedReader begins at 0.
LEMMA StrCallReadAll ==
  ASSUME StrReaders
  PROVE  CallGood("read_all", 0, StreamReadAll(stream), CachedReadAll(cached))
<1>1. /\ StrEnv /\ BufferOk(stream) /\ ReaderOk(cached) /\ stream.pos \in 0 .. Size /\ stream.pos <= Size
      /\ Size \in Nat /\ Size < WordSize /\ WordSize \in Nat /\ stream.pos \in Nat
  BY StrPositions
<1>2. PICK s : /\ s = StreamReadAll(stream) /\ BufferOk(s.st) /\ s.st.pos = Size
               /\ s.res = Ok(Part(stream.pos, Size))
  <2> DEFINE p == stream.pos
             n == Size - p
  <2>1. n \in Nat /\ (n = 0 <=> p = Size) /\ Size \in 0 .. Size
    BY <1>1
  <2>2. Part(p, Size) = << >> <=> p = Size
    BY <1>1, <2>1, StrPart
  <2>3. CASE n = 0
    <3>1. StreamReadAll(stream) = Return(stream, Ok(<< >>))
      BY <2>3 DEF StreamReadAll
    <3>2. PICK s : s = StreamReadAll(stream) /\ s.st = stream /\ s.res = Ok(<< >>)
      BY <3>1, StrReturn
    <3>3. QED
      BY <1>1, <2>1, <2>2, <2>3, <3>2
  <2>4. CASE n # 0
    <3>1. StreamReadAll(stream) = StreamReadBytes(stream, n)
      BY <2>4 DEF StreamReadAll
    <3>2. Upto(p, n) = Size
      BY <1>1, <2>1, StrUpto
    <3>3. ReadResult(p, n) = Ok(Part(p, Size))
      BY <2>1, <2>4, <3>2 DEF ReadResult
    <3>4. PICK m \in Nat : m = n
      BY <2>1
    <3>5. PICK s : s = StreamReadBytes(stream, m) /\ BufferOk(s.st) /\ s.st.pos = Upto(p, m) /\ s.res = ReadResult(p, m)
      BY <1>1, StrReadBytes
    <3>6. QED
      BY <3>1, <3>2, <3>3, <3>4, <3>5
  <2>5. QED
    BY <2>3, <2>4
<1>3. PICK z : z = [cached EXCEPT !.pos = 0] /\ ReaderOk(z) /\ z.pos = 0 /\ (Sound(z) <=> Sound(cached))
  <2>1. PICK z : z = [cached EXCEPT !.pos = 0]
    OBVIOUS
  <2>2. 0 \in Nat
    OBVIOUS
  <2>3. QED
    BY <1>1, <2>1, <2>2, StrMoved
<1>4. CachedReadAll(cached) = CachedReadBytes(z, Size)
  <2>1. CachedSeek(cached, 0) = Return(z, Ok(<< >>))
    <3>1. ~(0 > Size)
      BY <1>1
    <3>2. QED
      BY <1>3, <3>1 DEF CachedSeek
  <2>2. CachedSeek(cached, 0).st = z /\ CachedSeek(cached, 0).res.error = "NoError"
    BY <2>1, StrReturn, StrOk
  <2>3. CachedRemaining(z).value = Size
    <3>1. (Size - 0) % WordSize = Size
      BY <1>1
    <3>2. QED
      BY <1>3, <3>1, StrOk DEF CachedRemaining
  <2>4. QED
    BY <2>2, <2>3 DEF CachedReadAll
<1>5. PICK c : /\ c = CachedReadAll(cached) /\ CacheKept(z, c)
               /\ Sound(z) /\ z.pos <= Size => ReadEnds(z.pos, Size, c.st.pos, c.res)
  BY <1>1, <1>3, <1>4, StrCachedRead
<1>6. CacheKept(cached, c)
  BY <1>3, <1>5 DEF CacheKept
<1>7. ReadEnds(0, Size, c.st.pos, c.res) => c.st.pos = Size /\ c.res = Ok(content)
  <2>1. 0 \in 0 .. Size /\ Size \in 0 .. Size /\ 0 <= Size /\ Size >= Size - 0
    BY <1>1
  <2>2. Upto(0, Size) = Size
    BY <1>1, <2>1, StrUpto
  <2>3. PICK t : t = Part(0, Size) /\ t \in Seq(Bytes) /\ Len(t) = Size - 0 /\ \A i \in 1 .. Size - 0 : t[i] = content[0 + i]
    BY <1>1, <2>1, StrPart
  <2>4. content \in Seq(Bytes) /\ Len(content) = Size
    BY <1>1 DEF StrEnv, Size
  <2>5. Len(t) = Size /\ \A i \in 1 .. Size : t[i] = content[i]
    BY <1>1, <2>3
  <2>6. t = content
    BY <1>1, <2>3, <2>4, <2>5, StrSame
  <2>7. Size = 0 => content = << >>
    BY <2>4
  <2>8. ReadResult(0, Size) = Ok(content)
    BY <2>2, <2>3, <2>6, <2>7 DEF ReadResult
  <2>9. QED
    BY <2>2, <2>8 DEF ReadEnds
<1>8. Consumes("read_all", 0, s.res, stream.pos, s.st.pos)
  <2>1. s.res.error = "NoError" /\ s.res.value = SubSeq(content, stream.pos + 1, s.st.pos)
    <3>1. PICK t : t = Part(stream.pos, Size) /\ s.res = Ok(t)
      BY <1>2
    <3>2. s.res.error = "NoError" /\ s.res.value = t
      BY <3>1, StrOk
    <3>3. QED
      BY <1>2, <3>1, <3>2 DEF Part
  <2>2. QED
    BY <1>2, <2>1 DEF Consumes
<1>9. Sound(cached) => c.st.pos = s.st.pos /\ Agrees("read_all", s.res, c.res)
  <2>1. 0 <= Size
    BY <1>1
  <2>2. QED
    BY <1>2, <1>3, <1>5, <1>7, <2>1 DEF Agrees
<1>10. CallGood("read_all", 0, s, c)
  BY <1>2, <1>6, <1>8, <1>9 DEF CallGood
<1>11. QED
  BY <1>2, <1>5, <1>10

\* A call that only moves CachedReader keeps its cache.
LEMMA StrKept ==
  ASSUME StrEnv, NEW c, ReaderOk(c), NEW p \in Nat, NEW res, NEW r,
         r = Return(c, res) \/ r = Return([c EXCEPT !.pos = p], res)
  PROVE  CacheKept(c, r)
<1>1. CASE r = Return(c, res)
  BY <1>1, StrReturn DEF CacheKept
<1>2. CASE r = Return([c EXCEPT !.pos = p], res)
  <2>1. PICK d : d = [c EXCEPT !.pos = p]
    OBVIOUS
  <2>2. ReaderOk(d) /\ (Sound(d) <=> Sound(c))
    BY <2>1, StrMoved
  <2>3. r.st = d
    BY <1>2, <2>1, StrReturn
  <2>4. QED
    BY <2>2, <2>3 DEF CacheKept
<1>3. QED
  BY <1>1, <1>2

LEMMA StrCallSeek ==
  ASSUME StrReaders, NEW p \in Nat
  PROVE  CallGood("seek", p, buffer_seek(stream, p), CachedSeek(cached, p))
<1>1. StrEnv /\ BufferOk(stream) /\ ReaderOk(cached) /\ Size \in Nat
  BY StrPositions
<1>2. PICK s : /\ s = buffer_seek(stream, p) /\ BufferOk(s.st)
               /\ p > Size => s.st = stream /\ s.res = Failed("InvalidPositionError")
               /\ p <= Size => s.st.pos = p /\ s.res = Ok(<< >>)
  BY <1>1, StrSeek
<1>3. PICK d : d = [cached EXCEPT !.pos = p] /\ d.pos = p
  <2>1. PICK d : d = [cached EXCEPT !.pos = p]
    OBVIOUS
  <2>2. QED
    BY <1>1, <2>1, StrMoved
<1>4. PICK c : c = CachedSeek(cached, p)
  OBVIOUS
<1>5. CASE p > Size
  <2>1. c = Return(cached, Failed("InvalidPositionError"))
    BY <1>4, <1>5 DEF CachedSeek
  <2>2. c.st = cached /\ c.res = Failed("InvalidPositionError") /\ s.res.error = "InvalidPositionError"
    BY <1>2, <1>5, <2>1, StrReturn, StrOk
  <2>3. CacheKept(cached, c)
    BY <1>1, <2>1, StrKept
  <2>4. Consumes("seek", p, s.res, stream.pos, s.st.pos)
    BY <1>2, <1>5, <2>2, StrConsumesOther
  <2>5. CallGood("seek", p, s, c)
    BY <1>2, <1>5, <2>2, <2>3, <2>4, StrAgreed DEF CallGood
  <2>6. QED
    BY <1>2, <1>4, <2>5
<1>6. CASE p <= Size
  <2>1. c = Return(d, Ok(<< >>))
    <3>1. ~(p > Size)
      BY <1>1, <1>6
    <3>2. QED
      BY <1>3, <1>4, <3>1 DEF CachedSeek
  <2>2. c.st = d /\ c.res = Ok(<< >>) /\ s.res.error = "NoError"
    BY <1>2, <1>6, <2>1, StrReturn, StrOk
  <2>3. CacheKept(cached, c)
    BY <1>1, <1>3, <2>1, StrKept
  <2>4. Consumes("seek", p, s.res, stream.pos, s.st.pos)
    BY <2>2, StrConsumesOther
  <2>5. CallGood("seek", p, s, c)
    BY <1>2, <1>3, <1>6, <2>2, <2>3, <2>4, StrAgreed DEF CallGood
  <2>6. QED
    BY <1>2, <1>4, <2>5
<1>7. QED
  BY <1>1, <1>5, <1>6

LEMMA StrCallSkip ==
  ASSUME StrReaders, NEW n \in Counts \union {WordSize - 1}
  PROVE  CallGood("skip", n, buffer_skip(stream, n), CachedSkip(cached, n))
<1>1. StrEnv /\ BufferOk(stream) /\ ReaderOk(cached) /\ Size \in Nat /\ WordSize \in Nat /\ stream.pos \in 0 .. Size
      /\ cached.pos \in Nat
  BY StrPositions
<1>2. PICK a : a = (stream.pos + n) % WordSize
  OBVIOUS
<1>3. PICK s : /\ s = buffer_skip(stream, n) /\ BufferOk(s.st) /\ a \in Nat
               /\ a > Size => s.st = stream /\ s.res = Failed("InvalidPositionError")
               /\ a <= Size => s.st.pos = a /\ s.res = Ok(<< >>)
  BY <1>1, <1>2, StrSkip
<1>4. PICK b \in Nat : b = (cached.pos + n) % WordSize
  <2>1. n \in Nat /\ WordSize > 0
    BY <1>1, StrSkipSum
  <2>2. QED
    BY <1>1, <2>1
<1>5. PICK d : d = [cached EXCEPT !.pos = b] /\ d.pos = b
  <2>1. PICK d : d = [cached EXCEPT !.pos = b]
    OBVIOUS
  <2>2. QED
    BY <1>1, <2>1, StrMoved
<1>6. PICK c : c = CachedSkip(cached, n)
  OBVIOUS
<1>7. cached.pos = stream.pos => a = b
  BY <1>2, <1>4
<1>8. /\ b > Size => c = Return(cached, Failed("InvalidPositionError"))
      /\ b <= Size => c = Return(d, Ok(<< >>))
  <2>1. b <= Size => ~(b > Size)
    BY <1>1
  <2>2. QED
    BY <1>4, <1>5, <1>6, <2>1 DEF CachedSkip
<1>9. (a > Size \/ a <= Size) /\ (b > Size \/ b <= Size)
  BY <1>1, <1>3, <1>4
<1>10. CacheKept(cached, c)
  BY <1>1, <1>5, <1>8, <1>9, StrKept
<1>11. s.res.error = "NoError" \/ (s.res.error = "InvalidPositionError" /\ s.st.pos = stream.pos)
  BY <1>3, <1>9, StrOk
<1>12. Consumes("skip", n, s.res, stream.pos, s.st.pos)
  BY <1>11, StrConsumesOther
<1>13. ASSUME cached.pos = stream.pos PROVE c.st.pos = s.st.pos /\ c.res = s.res
  <2>1. CASE b > Size
    <3>1. c.st = cached /\ c.res = Failed("InvalidPositionError")
      BY <1>8, <2>1, StrReturn
    <3>2. s.st = stream /\ s.res = Failed("InvalidPositionError")
      BY <1>3, <1>7, <1>13, <2>1
    <3>3. QED
      BY <1>13, <3>1, <3>2
  <2>2. CASE b <= Size
    <3>1. c.st = d /\ c.res = Ok(<< >>)
      BY <1>8, <2>2, StrReturn
    <3>2. s.st.pos = b /\ s.res = Ok(<< >>)
      BY <1>3, <1>7, <1>13, <2>2
    <3>3. QED
      BY <1>5, <3>1, <3>2
  <2>3. QED
    BY <1>9, <2>1, <2>2
<1>14. CallGood("skip", n, s, c)
  BY <1>3, <1>10, <1>12, <1>13, StrAgreed DEF CallGood
<1>15. QED
  BY <1>3, <1>6, <1>14

LEMMA StrCallRemaining ==
  ASSUME StrReaders
  PROVE  CallGood("remaining", 0, Return(stream, StreamRemaining(stream)), Return(cached, CachedRemaining(cached)))
<1>1. /\ StrEnv /\ BufferOk(stream) /\ ReaderOk(cached) /\ Size \in Nat /\ WordSize \in Nat /\ Size < WordSize
      /\ stream.pos \in Nat /\ stream.pos <= Size
  BY StrPositions
<1>2. StreamRemaining(stream) = Ok(Size - stream.pos)
  <2>1. ~(stream.pos > Size)
    BY <1>1
  <2>2. QED
    BY <2>1 DEF StreamRemaining
<1>3. cached.pos = stream.pos => CachedRemaining(cached) = Ok(Size - stream.pos)
  <2>1. (Size - stream.pos) % WordSize = Size - stream.pos
    BY <1>1
  <2>2. QED
    BY <2>1 DEF CachedRemaining
<1>4. PICK s : s = Return(stream, StreamRemaining(stream)) /\ s.st = stream /\ s.res = Ok(Size - stream.pos)
  BY <1>2, StrReturn
<1>5. PICK c : c = Return(cached, CachedRemaining(cached)) /\ c.st = cached /\ c.res = CachedRemaining(cached)
  BY StrReturn
<1>6. CacheKept(cached, c)
  BY <1>1, <1>5 DEF CacheKept
<1>7. s.res.error = "NoError"
  BY <1>4, StrOk
<1>8. Consumes("remaining", 0, s.res, stream.pos, s.st.pos)
  BY <1>7, StrConsumesOther
<1>9. CallGood("remaining", 0, s, c)
  BY <1>1, <1>3, <1>4, <1>5, <1>6, <1>8, StrAgreed DEF CallGood
<1>10. QED
  BY <1>4, <1>5, <1>9

\* The peeks of CachedReader read and go back.
LEMMA StrBack ==
  ASSUME StrEnv, NEW c, ReaderOk(c), NEW r, CacheKept(c, r)
  PROVE  CacheKept(c, Back(c, r)) /\ Back(c, r).st.pos = c.pos /\ Back(c, r).res = r.res
<1>1. PICK d : d = [r.st EXCEPT !.pos = c.pos]
  OBVIOUS
<1>2. c.pos \in Nat /\ ReaderOk(r.st)
  BY StrReader DEF CacheKept
<1>3. ReaderOk(d) /\ d.pos = c.pos /\ d.src = r.st.src /\ (Sound(d) <=> Sound(r.st))
  BY <1>1, <1>2, StrMoved
<1>4. PICK b : b = Back(c, r) /\ b.st = d /\ b.res = r.res
  BY <1>1, StrReturn DEF Back
<1>5. CacheKept(c, b)
  BY <1>3, <1>4 DEF CacheKept
<1>6. QED
  BY <1>3, <1>4, <1>5

LEMMA StrCallPeekByte ==
  ASSUME StrReaders
  PROVE  CallGood("peek_byte", 1, StreamPeekByte(stream), CachedPeekByte(cached))
<1>1. /\ StrEnv /\ BufferOk(stream) /\ ReaderOk(cached) /\ stream.pos \in 0 .. Size /\ Size \in Nat /\ cached.pos \in Nat
      /\ stream.pos \in Nat /\ stream.pos <= Size
  BY StrPositions
<1>2. PICK p \in 0 .. Size : p = stream.pos
  BY <1>1
<1>3. PICK q \in 0 .. Size : q = Upto(p, 1) /\ p <= q /\ (p = Size => q = p) /\ (p # Size => q = p + 1)
  <2>1. Upto(p, 1) \in 0 .. Size /\ Upto(p, 1) >= p /\ (p = Size => Upto(p, 1) = p) /\ (p # Size => Upto(p, 1) = p + 1)
    BY <1>1, StrUpto
  <2>2. QED
    BY <1>1, <2>1
<1>4. Part(p, q) = << >> <=> p = Size
  <2>1. Part(p, q) = << >> <=> p = q
    BY <1>1, <1>3, StrPart
  <2>2. QED
    BY <1>1, <1>3, <2>1
<1>5. PICK t : t = peek_raw_bytes(stream, 1) /\ BufferOk(t.st) /\ t.st.pos = p /\ t.res = Ok(Part(p, q))
  BY <1>1, <1>2, <1>3, StrPeek
<1>6. t.res = Ok(<< >>) <=> p = Size
  BY <1>4, <1>5, StrOk
<1>7. PICK s : /\ s = StreamPeekByte(stream) /\ s.st = t.st
               /\ p = Size => s.res = Failed("EndOfData")
               /\ p # Size => s.res = Ok(Part(p, q))
  <2>1. CASE p = Size
    <3>1. StreamPeekByte(stream) = Return(t.st, Failed("EndOfData"))
      BY <1>5, <1>6, <2>1 DEF StreamPeekByte
    <3>2. PICK s : s = StreamPeekByte(stream) /\ s.st = t.st /\ s.res = Failed("EndOfData")
      BY <3>1, StrReturn
    <3>3. QED
      BY <2>1, <3>2
  <2>2. CASE p # Size
    <3>1. StreamPeekByte(stream) = t
      BY <1>5, <1>6, <2>2 DEF StreamPeekByte
    <3>2. QED
      BY <1>5, <2>2, <3>1
  <2>3. QED
    BY <2>1, <2>2
<1>8. PICK c0 : c0 = CachedReadByte(cached) /\ ByteRead(cached, c0)
  BY <1>1, StrReadByte
<1>9. CacheKept(cached, c0)
  <2>1. cached.pos < Size \/ cached.pos = Size \/ cached.pos > Size
    BY <1>1
  <2>2. QED
    BY <1>8, <2>1 DEF ByteRead, CacheKept
<1>10. PICK c : c = CachedPeekByte(cached) /\ CacheKept(cached, c) /\ c.st.pos = cached.pos /\ c.res = c0.res
  BY <1>1, <1>8, <1>9, StrBack DEF CachedPeekByte
<1>11. Consumes("peek_byte", 1, s.res, p, p)
  <2>1. s.res = Ok(Part(p, Upto(p, 1))) \/ (p = Size /\ s.res = Failed("EndOfData"))
    BY <1>3, <1>7
  <2>2. QED
    BY <1>1, <2>1, StrConsumesPeek
<1>12. ASSUME Sound(cached), cached.pos = stream.pos PROVE c.st.pos = s.st.pos /\ c.res = s.res
  <2>1. CASE p = Size
    BY <1>2, <1>5, <1>7, <1>8, <1>10, <1>12, <2>1 DEF ByteRead
  <2>2. CASE p # Size
    <3>1. Part(p, p + 1) = <<content[p + 1]>> /\ p < Size
      BY <1>1, <2>2, StrPartOne
    <3>2. c0.res = Ok(<<content[p + 1]>>)
      BY <1>2, <1>8, <1>12, <3>1 DEF ByteRead
    <3>3. QED
      BY <1>2, <1>3, <1>5, <1>7, <1>10, <1>12, <2>2, <3>1, <3>2
  <2>3. QED
    BY <2>1, <2>2
<1>13. CallGood("peek_byte", 1, s, c)
  BY <1>2, <1>5, <1>7, <1>10, <1>11, <1>12, StrAgreed DEF CallGood
<1>14. QED
  BY <1>7, <1>10, <1>13

LEMMA StrCallPeekBytes ==
  ASSUME StrReaders, NEW n \in Nat
  PROVE  CallGood("peek_bytes", n, StreamPeekBytes(stream, n), CachedPeekBytes(cached, n))
<1>1. /\ StrEnv /\ BufferOk(stream) /\ ReaderOk(cached) /\ stream.pos \in 0 .. Size /\ Size \in Nat
      /\ stream.pos \in Nat /\ stream.pos <= Size
  BY StrPositions
<1>2. PICK p \in 0 .. Size : p = stream.pos
  BY <1>1
<1>3. PICK q \in 0 .. Size : q = Upto(p, n) /\ p <= q /\ (p = Size => q = p) /\ (n = 0 => q = p)
  <2>1. Upto(p, n) \in 0 .. Size /\ Upto(p, n) >= p /\ (p = Size => Upto(p, n) = p) /\ (n = 0 => Upto(p, n) = p)
    BY <1>1, StrUpto
  <2>2. QED
    BY <1>1, <2>1
<1>4. p = q => Part(p, q) = << >>
  BY <1>1, <1>3, StrPart
<1>5. PICK s : s = StreamPeekBytes(stream, n) /\ BufferOk(s.st) /\ s.st.pos = p /\ s.res = Ok(Part(p, q))
  <2>1. CASE n = 0
    <3>1. StreamPeekBytes(stream, n) = Return(stream, Ok(<< >>))
      BY <2>1 DEF StreamPeekBytes
    <3>2. PICK s : s = StreamPeekBytes(stream, n) /\ s.st = stream /\ s.res = Ok(<< >>)
      BY <3>1, StrReturn
    <3>3. QED
      BY <1>1, <1>2, <1>3, <1>4, <2>1, <3>2
  <2>2. CASE n # 0
    <3>1. StreamPeekBytes(stream, n) = peek_raw_bytes(stream, n)
      BY <2>2 DEF StreamPeekBytes
    <3>2. /\ BufferOk(peek_raw_bytes(stream, n).st) /\ peek_raw_bytes(stream, n).st.pos = p
          /\ peek_raw_bytes(stream, n).res = Ok(Part(p, q))
      BY <1>1, <1>2, <1>3, <2>2, StrPeek
    <3>3. QED
      BY <3>1, <3>2
  <2>3. QED
    BY <2>1, <2>2
<1>6. PICK c0 : /\ c0 = CachedReadBytes(cached, n) /\ CacheKept(cached, c0)
                /\ Sound(cached) /\ cached.pos <= Size => ReadEnds(cached.pos, n, c0.st.pos, c0.res)
  BY <1>1, StrCachedRead
<1>7. PICK c : c = CachedPeekBytes(cached, n) /\ CacheKept(cached, c) /\ c.st.pos = cached.pos /\ c.res = c0.res
  BY <1>1, <1>6, StrBack DEF CachedPeekBytes
<1>8. Consumes("peek_bytes", n, s.res, p, p)
  BY <1>1, <1>3, <1>5, StrConsumesPeek
<1>9. ASSUME Sound(cached), cached.pos = stream.pos PROVE c.st.pos = s.st.pos /\ Agrees("peek_bytes", s.res, c.res)
  <2>1. c.res = ReadResult(p, n)
    BY <1>1, <1>2, <1>6, <1>7, <1>9 DEF ReadEnds
  <2>2. c.res = s.res \/ (s.res = Ok(<< >>) /\ c.res = Failed("EndOfData"))
    <3>1. CASE n = 0
      <4>1. c.res = Ok(<< >>) /\ s.res = Ok(<< >>)
        BY <1>3, <1>4, <1>5, <2>1, <3>1 DEF ReadResult
      <4>2. QED
        BY <4>1
    <3>2. CASE n # 0 /\ p = Size
      <4>1. c.res = Failed("EndOfData") /\ s.res = Ok(<< >>)
        BY <1>3, <1>4, <1>5, <2>1, <3>2 DEF ReadResult
      <4>2. QED
        BY <4>1
    <3>3. CASE n # 0 /\ p # Size
      BY <1>3, <1>5, <2>1, <3>3 DEF ReadResult
    <3>4. QED
      BY <3>1, <3>2, <3>3
  <2>3. Agrees("peek_bytes", s.res, c.res)
    BY <2>2 DEF Agrees
  <2>4. QED
    BY <1>2, <1>5, <1>7, <1>9, <2>3
<1>10. CallGood("peek_bytes", n, s, c)
  BY <1>2, <1>5, <1>7, <1>8, <1>9 DEF CallGood
<1>11. QED
  BY <1>5, <1>7, <1>10

-----------------------------------------------------------------------------
(***************************************************************************)
(* The steps, and the theorem                                              *)
(***************************************************************************)

StrAgree ==
  CacheSound => /\ cached.pos = stream.pos =>
                     cached'.pos = stream'.pos /\ Agrees(last'.op, last'.stream, last'.cached)
                /\ CacheSound' \/ cached'.src.pos = Size
StrStep ==
  /\ Consumes(last'.op, last'.arg, last'.stream, stream.pos, stream'.pos)
  /\ StrAgree

\* A call keeps the invariant and does as it should when it is good.
LEMMA StrCallStep ==
  ASSUME StreamsInv, NEW op, NEW arg, NEW s, NEW c, Call(op, arg, s, c), CallGood(op, arg, s, c)
  PROVE  StreamsInv' /\ StrStep
<1>1. /\ kind' = kind /\ chunk' = chunk /\ content' = content /\ stream' = s.st /\ cached' = c.st
      /\ last'.op = op /\ last'.arg = arg /\ last'.stream = s.res /\ last'.cached = c.res
  BY DEF Call
<1>2. Size' = Size
  BY <1>1 DEF Size
<1>3. BufferOk(s.st) /\ ReaderOk(c.st)
  BY DEF CallGood, CacheKept
<1>4. BufferOk(stream)' /\ ReaderOk(cached)'
  BY <1>1, <1>2, <1>3 DEF BufferOk, ReaderOk
<1>5. CacheSound' <=> Sound(c.st)
  BY <1>1, <1>2 DEF CacheSound, Sound
<1>6. StreamsInv'
  BY <1>1, <1>2, <1>4 DEF StreamsInv
<1>7. StrStep
  BY <1>1, <1>5 DEF StrStep, StrAgree, CallGood, CacheKept, CacheSound
<1>8. QED
  BY <1>6, <1>7

\* Bytes at the end of the file change nothing before it.
LEMMA StrAppendStep ==
  ASSUME StreamsInv, NEW b \in Bytes, Append_(b)
  PROVE  StreamsInv' /\ StrStep
<1>1. /\ kind' = kind /\ chunk' = chunk /\ stream' = stream /\ cached' = cached /\ content' = Append(content, b)
      /\ last' = NoCall /\ Size < MaxSize
  BY DEF Append_
<1>2. StrEnv /\ BufferOk(stream) /\ ReaderOk(cached) /\ content \in Seq(Bytes) /\ Len(content) = Size /\ Size \in Nat
  BY StrEnvFacts DEF StreamsInv, StrEnv, Size
<1>3. /\ content' \in Seq(Bytes) /\ Size' = Size + 1
      /\ \A i \in 1 .. Size : content'[i] = content[i]
  BY <1>1, <1>2, AppendProperties DEF Size
<1>4. 0 .. Size \subseteq 0 .. Size'
  BY <1>2, <1>3
<1>5. BufferOk(stream)' /\ BufferOk(cached.src)'
  BY <1>1, <1>2, <1>4 DEF BufferOk, ReaderOk
<1>6. ReaderOk(cached)'
  BY <1>1, <1>2, <1>4, <1>5 DEF ReaderOk
<1>7. Size' <= MaxSize
  BY <1>1, <1>2, <1>3, SizeAssumption
<1>8. StreamsInv'
  BY <1>1, <1>3, <1>5, <1>6, <1>7 DEF StreamsInv
<1>9. CacheSound => CacheSound'
  <2> SUFFICES ASSUME Sound(cached) PROVE CacheSound'
    BY DEF CacheSound
  <2>1. PICK p \in 0 .. Size, q \in 0 .. Size :
           p = cached.start /\ q = cached.start + Len(cached.cache) /\ p <= q /\ cached.cache = Part(p, q)
    <3>1. cached.start \in 0 .. Size /\ Len(cached.cache) \in Nat
      BY <1>2, StrReader
    <3>2. cached.start + Len(cached.cache) \in 0 .. Size /\ cached.cache = Part(cached.start, cached.start + Len(cached.cache))
      BY <1>2, StrSound
    <3>3. cached.start <= cached.start + Len(cached.cache)
      BY <1>2, <3>1
    <3>4. QED
      BY <3>1, <3>2, <3>3
  <2>2. PICK t : t = Part(p, q) /\ t \in Seq(Bytes) /\ Len(t) = q - p /\ \A i \in 1 .. q - p : t[i] = content[p + i]
    <3>1. Part(p, q) \in Seq(Bytes) /\ Len(Part(p, q)) = q - p /\ \A i \in 1 .. q - p : Part(p, q)[i] = content[p + i]
      BY <1>2, <2>1, StrPart
    <3>2. QED
      BY <3>1
  <2>3. PICK w : w = content'
    OBVIOUS
  <2>4. p \in Nat /\ q \in Nat /\ q - p \in Nat
    BY <1>2, <2>1
  <2>5. \A i \in p + 1 .. q : i \in 1 .. Size /\ w[i] \in Bytes
    <3> SUFFICES ASSUME NEW i \in p + 1 .. q PROVE i \in 1 .. Size /\ w[i] \in Bytes
      OBVIOUS
    <3>1. i \in 1 .. Size
      BY <1>2, <2>4
    <3>2. w[i] = content[i]
      BY <1>3, <2>3, <3>1
    <3>3. content[i] \in Bytes
      BY <1>2, <3>1
    <3>4. QED
      BY <3>1, <3>2, <3>3
  <2>6. /\ SubSeq(w, p + 1, q) \in Seq(Bytes)
        /\ Len(SubSeq(w, p + 1, q)) = IF p + 1 <= q THEN q - (p + 1) + 1 ELSE 0
        /\ \A i \in 1 .. q - (p + 1) + 1 : SubSeq(w, p + 1, q)[i] = w[p + 1 + i - 1]
    <3>1. p + 1 \in Int /\ q \in Int
      BY <2>4
    <3>2. QED
      BY <2>5, <3>1, SubSeqProperties
  <2>7. PICK u : u = SubSeq(w, p + 1, q) /\ u \in Seq(Bytes) /\ Len(u) = q - p
                 /\ \A i \in 1 .. q - p : u[i] = w[p + 1 + i - 1]
    <3>1. q - (p + 1) + 1 = q - p /\ (p + 1 <= q <=> q - p # 0)
      BY <2>1, <2>4
    <3>2. QED
      BY <2>6, <3>1
  <2>8. ASSUME NEW i \in 1 .. q - p PROVE u[i] = t[i]
    <3>1. p + 1 + i - 1 = p + i /\ p + i \in 1 .. Size
      BY <1>2, <2>4
    <3>2. w[p + i] = content[p + i]
      BY <1>3, <2>3, <3>1
    <3>3. QED
      BY <2>2, <2>7, <3>1, <3>2
  <2>9. u = t
    BY <2>2, <2>4, <2>7, <2>8, StrSame
  <2>10. q <= Size'
    BY <1>3, <1>2
  <2>11. cached'.start = p /\ cached'.start + Len(cached'.cache) = q /\ cached'.cache = SubSeq(content', p + 1, q)
    BY <1>1, <2>1, <2>2, <2>3, <2>7, <2>9
  <2>12. QED
    BY <2>10, <2>11 DEF CacheSound, Sound
<1>10. last'.op = "none" /\ last'.stream = Ok(<< >>) /\ last'.cached = Ok(<< >>) /\ last'.stream.error = "NoError"
  BY <1>1, StrOk DEF NoCall
<1>11. Consumes(last'.op, last'.arg, last'.stream, stream.pos, stream'.pos)
  BY <1>10, StrConsumesOther
<1>12. StrAgree
  BY <1>1, <1>9, <1>10, StrAgreed DEF StrAgree
<1>13. QED
  BY <1>8, <1>11, <1>12 DEF StrStep

LEMMA StrInit ==
  Init => StreamsInv
<1> SUFFICES ASSUME Init PROVE StreamsInv
  OBVIOUS
<1>1. content \in Seq(Bytes) /\ Len(content) <= MaxSize
  <2>1. PICK k \in 0 .. MaxSize : content \in [1 .. k -> Bytes]
    BY DEF Init, SmallSeq
  <2>2. QED
    BY <2>1, SizeAssumption
<1>2. Size \in Nat /\ Size <= MaxSize /\ 0 \in 0 .. Size /\ 0 \in Nat
  BY <1>1 DEF Size
<1>3. kind \in {"memory", "file"} /\ chunk \in ChunkSizes /\ chunk \in Nat
  BY ChunkAssumption DEF Init
<1>4. stream = [pos |-> 0, off |-> 0] /\ cached = [pos |-> 0, start |-> 0, cache |-> << >>, src |-> stream]
  BY DEF Init
<1>5. BufferOk(stream)
  BY <1>2, <1>4 DEF BufferOk
<1>6. StrEnv
  BY <1>1, <1>2, <1>3 DEF StrEnv
<1>7. ReaderOk(cached)
  <2>1. << >> \in Seq(Bytes) /\ Len(<< >>) <= chunk
    BY <1>3
  <2>2. QED
    <3>1. PICK p \in Nat, start \in 0 .. Size, cache \in Seq(Bytes) :
             p = 0 /\ start = 0 /\ cache = << >> /\ Len(cache) <= chunk
      BY <1>2, <2>1
    <3>2. cached = [pos |-> p, start |-> start, cache |-> cache, src |-> stream]
      BY <1>4, <3>1
    <3>3. QED
      <4>1. PICK src : src = stream /\ BufferOk(src)
        BY <1>5
      <4>2. PICK c : c = cached /\ c = [pos |-> p, start |-> start, cache |-> cache, src |-> src]
        BY <3>2, <4>1
      <4>3. BufferOk(src) /\ Len(cache) <= chunk /\ c = [pos |-> p, start |-> start, cache |-> cache, src |-> src]
        BY <3>1, <4>1, <4>2
      <4>4. ReaderOk(c)
        BY <1>6, <4>3, StrNewReader
      <4>5. QED
        BY <4>2, <4>4
<1>8. QED
  BY <1>1, <1>2, <1>3, <1>5, <1>7 DEF StreamsInv

LEMMA StrNext ==
  ASSUME StreamsInv, Next
  PROVE  StreamsInv' /\ StrStep
<1>1. StrReaders
  BY DEF StreamsInv, StrReaders, StrEnv
<1>2. Counts \subseteq Nat
  BY SizeAssumption DEF Counts
<1>3. CASE read_byte
  BY <1>1, <1>3, StrCallReadByte, StrCallStep DEF read_byte
<1>4. CASE read_string
  <2>1. TRUE \in BOOLEAN /\ TRUE = ~("read_string" = "read_until" /\ 0 = FALSE)
    OBVIOUS
  <2>2. CallGood("read_string", 0, StreamUntil(stream, Zero, TRUE), CachedUntil(cached, Zero, TRUE))
    BY <1>1, <2>1, StrCallUntil
  <2>3. QED
    BY <1>4, <2>2, StrCallStep DEF read_string
<1>5. CASE read_all
  BY <1>1, <1>5, StrCallReadAll, StrCallStep DEF read_all
<1>6. CASE remaining
  BY <1>1, <1>6, StrCallRemaining, StrCallStep DEF remaining
<1>7. CASE peek_byte
  BY <1>1, <1>7, StrCallPeekByte, StrCallStep DEF peek_byte
<1>8. CASE \E n \in Counts : read_bytes(n) \/ seek(n) \/ peek_bytes(n)
  <2>1. PICK n \in Nat : read_bytes(n) \/ seek(n) \/ peek_bytes(n)
    BY <1>2, <1>8
  <2>2. CASE read_bytes(n)
    BY <1>1, <2>2, StrCallReadBytes, StrCallStep DEF read_bytes
  <2>3. CASE seek(n)
    BY <1>1, <2>3, StrCallSeek, StrCallStep DEF seek
  <2>4. CASE peek_bytes(n)
    BY <1>1, <2>4, StrCallPeekBytes, StrCallStep DEF peek_bytes
  <2>5. QED
    BY <2>1, <2>2, <2>3, <2>4
<1>9. CASE \E n \in Counts \union {WordSize - 1} : skip(n)
  <2>1. PICK n \in Counts \union {WordSize - 1} : skip(n)
    BY <1>9
  <2>2. QED
    BY <1>1, <2>1, StrCallSkip, StrCallStep DEF skip
<1>10. CASE \E consume \in BOOLEAN : read_until(consume)
  <2>1. PICK consume \in BOOLEAN : read_until(consume)
    BY <1>10
  <2>2. consume = ~("read_until" = "read_until" /\ consume = FALSE)
    OBVIOUS
  <2>3. CallGood("read_until", consume, StreamUntil(stream, Delimiter, consume), CachedUntil(cached, Delimiter, consume))
    BY <1>1, <2>2, StrCallUntil
  <2>4. QED
    BY <2>1, <2>3, StrCallStep DEF read_until
<1>11. CASE \E b \in Bytes : Append_(b)
  BY <1>11, StrAppendStep
<1>12. QED
  BY <1>3, <1>4, <1>5, <1>6, <1>7, <1>8, <1>9, <1>10, <1>11 DEF Next

(***************************************************************************)
(* For buffers, chunks and arguments of every size, and any sequence of    *)
(* calls: what StreamReader returns is what it passes, of a vector as of a *)
(* file that grows, and CachedReader agrees with it as long as its cache   *)
(* holds bytes of the source (read_raw_bytes, peek_raw_bytes, read_until,  *)
(* update_cache, read_bytes).  The invariant is StreamsInv; of the loops,  *)
(* UntilIs and ReadIs say what has been read after k rounds.               *)
(***************************************************************************)
THEOREM ReadersAreFaithful == Spec => ReadersFaithful
<1>1. ASSUME StreamsInv, [Next]_vars
      PROVE  StreamsInv'
  <2>1. CASE Next
    BY <1>1, <2>1, StrNext
  <2>2. CASE UNCHANGED vars
    BY <1>1, <2>2 DEF StreamsInv, vars, BufferOk, ReaderOk, Size
  <2>3. QED
    BY <1>1, <2>1, <2>2
<1>2. ASSUME StreamsInv, [Next]_vars
      PROVE  [Consumes(last'.op, last'.arg, last'.stream, stream.pos, stream'.pos)]_vars /\ [StrAgree]_vars
  BY <1>2, StrNext DEF StrStep
<1>3. ReadersFaithful <=> /\ [][Consumes(last'.op, last'.arg, last'.stream, stream.pos, stream'.pos)]_vars
                          /\ [][StrAgree]_vars
  BY DEF ReadersFaithful, ReturnsWhatItConsumes, CachedMatchesStream, StrAgree
<1>4. QED
  BY <1>1, <1>2, <1>3, StrInit, PTL DEF Spec
=============================================================================
