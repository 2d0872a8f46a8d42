----------------------------- MODULE HttpClient -----------------------------
(***************************************************************************)
(* The HTTP client, network/http.cpp: make_request writes a request, then  *)
(* parses the response with the helpers of files/parse_utils.cpp, out of a *)
(* buffer that network/buffered_socket.cpp refills with what one read      *)
(* returns.                                                                *)
(*                                                                         *)
(* The response is a sequence of bytes (a word that is not taken apart     *)
(* counts as one).  It arrives in any pieces; the server may break off.    *)
(* The buffer is a Ring (collections/ring.h) of 1024 cells, here the bytes *)
(* it holds and where the first one is.  Its looks ahead are not checked   *)
(* against its size: one behind the last byte finds the "nul" the cells    *)
(* were made with, until bytes have wrapped around.  The model ends, with  *)
(* make_request "astray", where the ring would show or keep anything but   *)
(* the bytes of the response and that "nul" (CliRingBreaks, CliStray).     *)
(* One request is made of a connection that was not used before.           *)
(***************************************************************************)
EXTENDS Integers, Sequences, FiniteSets

CONSTANTS CliWords,      \* the words that a response may have
          CliRing,       \* cells of the ring, and the most that one read asks for: 1024 in the code
          CliResponses   \* what servers answer: see CliEncode

CliDigitSeq == <<"0", "1", "2", "3", "4", "5", "6", "7", "8", "9">>
CliDigits == [d \in {CliDigitSeq[n] : n \in 1..10} |-> CHOOSE n \in 0..9 : CliDigitSeq[n + 1] = d]

CliBytes == CliWords \union DOMAIN CliDigits \union {"HTTP/", ".", " ", "info", ":", "CR", "LF"}

\* a header has a key, a line, and a line that continues it unless that is ""
CliValues == CliWords \ {"CR", "LF"}
CliHeader == [key : CliValues \ {":", " "}, line : CliValues, folded : CliValues]

ASSUME CliAssumption ==
    /\ CliRing \in Nat \ {0}
    /\ CliResponses \subseteq [code : [1..3 -> DOMAIN CliDigits], headers : Seq(CliHeader), body : Seq(CliBytes)]

VARIABLES cliAnswer,   \* the response the server sends
          cliNet,      \* bytes of it that are not read yet
          cliLost,     \* bytes that never come, because the connection broke
          cliSplit,    \* a piece ended with a byte of a line end (see CliAsSent)
          cliBuf,      \* inbound
          cliHead, cliCells,   \* the cell of its first byte, and the number of cells
          cliFresh,    \* no byte was written to a cell for the second time
          cliSent,     \* bytes of the request that were sent
          cliPc, cliWord, cliKey, cliCount,   \* where make_request is, and its locals
          cliResp      \* resp

cliRing == <<cliHead, cliCells, cliFresh>>
cliVars == <<cliAnswer, cliNet, cliLost, cliSplit, cliBuf, cliRing, cliSent, cliPc, cliWord, cliKey, cliCount, cliResp>>
cliLocals == <<cliWord, cliKey, cliCount, cliResp>>

(* a response as the server writes it: to[k] is what it sends from the k-th *)
(* last header on                                                          *)
CliThen(x, rest) == <<x>> \o rest
CliLine(rest) == CliThen("CR", CliThen("LF", rest))
CliFolded(h, rest) == IF h.folded = "" THEN rest ELSE CliThen(" ", CliThen(h.folded, CliLine(rest)))
CliText(h, rest) == CliThen(h.line, CliLine(CliFolded(h, rest)))
CliField(h, rest) == CliThen(h.key, CliThen(":", CliText(h, rest)))
CliSends(r) ==
    LET to[k \in 0..Len(r.headers)] == IF k = 0 THEN CliLine(r.body)
                                       ELSE CliField(r.headers[Len(r.headers) + 1 - k], to[k - 1])
    IN to
CliInfoLine(r) == CliThen("info", CliLine(CliSends(r)[Len(r.headers)]))
CliCode(r) == CliThen(r.code[1], CliThen(r.code[2], CliThen(r.code[3], CliThen(" ", CliInfoLine(r)))))
CliVersion(r) == CliThen("1", CliThen(".", CliThen("0", CliThen(" ", CliCode(r)))))
CliEncode(r) == CliThen("HTTP/", CliVersion(r))

CliNoHeader == [k \in {} |-> <<>>]

CliInit ==
    /\ cliAnswer \in CliResponses /\ cliNet = CliEncode(cliAnswer) /\ cliLost = <<>> /\ cliSplit = FALSE
    /\ cliBuf = <<>> /\ cliHead = 0 /\ cliCells = CliRing /\ cliFresh = TRUE /\ cliSent = <<>>
    /\ cliPc = "request" /\ cliWord = <<>> /\ cliKey = <<>> /\ cliCount = 0
    /\ cliResp = [major |-> 0, minor |-> 0, code |-> 0, info |-> <<>>, headers |-> CliNoHeader, body |-> <<>>]

-----------------------------------------------------------------------------
(* the request: written to outbound, and sent by one send that may be short *)

CliRequestBytes == <<"request line", "header", "CR", "LF", "body">>
CliRequest ==
    /\ cliPc = "request"
    /\ \E n \in 0..Len(CliRequestBytes) : cliSent' = SubSeq(CliRequestBytes, 1, n)
    /\ cliPc' = "HTTP/"
    /\ UNCHANGED <<cliAnswer, cliNet, cliLost, cliSplit, cliBuf, cliRing, cliLocals>>

-----------------------------------------------------------------------------
(* refill_buffer *)

\* the parts of make_request that begin with check_refill, one byte each
CliChecked == {"HTTP/", "major", ".", "minor", "space1", "code", "space2", "info", "key", "value", "fold"}

\* n more bytes: resize() doubles the cells, and copies from past them unless the first byte is in cell 0
CliGrows(n) == Len(cliBuf) + n > cliCells
CliRingBreaks(n) == CliGrows(n) /\ cliHead # 0
CliPushes(n) ==
    /\ ~CliRingBreaks(n)
    /\ cliCells' = IF CliGrows(n) THEN 2 * cliCells ELSE cliCells
    /\ cliFresh' = (CliGrows(n) \/ (cliFresh /\ cliHead + Len(cliBuf) + n <= cliCells))
    /\ UNCHANGED cliHead

(* One read: some of what is to come, or nothing, at the end or after an   *)
(* error.  check_refill throws when there is nothing; the refills of       *)
(* parse_headers and parse_body go on.                                     *)
CliRefill ==
    /\ \/ cliPc \in CliChecked /\ cliBuf = <<>>
       \/ cliPc \in {"refill", "body"}
    /\ LET next == IF cliPc = "refill" THEN "key" ELSE IF cliPc = "body" THEN "take" ELSE cliPc IN
       \/ \E n \in 1..Len(cliNet) :
            /\ n <= CliRing /\ CliPushes(n)
            /\ cliBuf' = cliBuf \o SubSeq(cliNet, 1, n)
            /\ cliNet' = SubSeq(cliNet, n + 1, Len(cliNet))
            /\ cliSplit' = (cliSplit \/ /\ cliNet[n] \in {"CR", "LF"}
                                        /\ Len(cliNet) - n > Len(cliAnswer.body))
            /\ cliPc' = next
            /\ UNCHANGED cliLost
       \/ /\ \E n \in 1..Len(cliNet) : n <= CliRing /\ CliRingBreaks(n)
          /\ cliPc' = "astray"
          /\ UNCHANGED <<cliBuf, cliNet, cliSplit, cliLost, cliRing>>
       \/ /\ cliLost' = cliNet \o cliLost /\ cliNet' = <<>>
          /\ cliPc' = IF cliPc \in CliChecked THEN "nullopt" ELSE next
          /\ UNCHANGED <<cliBuf, cliSplit, cliRing>>
    /\ UNCHANGED <<cliAnswer, cliSent, cliLocals>>

-----------------------------------------------------------------------------
(* parse_status_line and parse_headers, byte by byte *)

CliFirst == cliBuf[1]
CliPeek(i) == IF i < Len(cliBuf) THEN cliBuf[i + 1] ELSE "nul"
CliKeepOthers == UNCHANGED <<cliAnswer, cliNet, cliLost, cliSplit, cliSent>>
CliPops(n) == cliHead' = (cliHead + n) % cliCells /\ UNCHANGED <<cliCells, cliFresh>>
CliAccept(pc) == cliBuf' = Tail(cliBuf) /\ CliPops(1) /\ cliPc' = pc /\ CliKeepOthers
CliByte(pc) == cliPc = pc /\ cliBuf # <<>>

\* expect
CliExpect(data, then) ==
    /\ CliByte(data)
    /\ CliAccept(IF CliFirst = data THEN then ELSE "nullopt")
    /\ UNCHANGED cliLocals

\* parse_u64: any number of digits, or at most three
CliNumber(pc, most, then) ==
    /\ CliByte(pc)
    /\ IF CliFirst \in DOMAIN CliDigits /\ (most = -1 \/ cliCount < most)
       THEN /\ CliAccept(IF cliCount + 1 = most THEN then ELSE pc)
            /\ cliCount' = (IF cliCount + 1 = most THEN 0 ELSE cliCount + 1)
            /\ cliResp' = [cliResp EXCEPT ![pc] = @ * 10 + CliDigits[CliFirst]]
       ELSE /\ cliPc' = then /\ cliCount' = 0
            /\ CliKeepOthers /\ UNCHANGED <<cliBuf, cliRing, cliResp>>
    /\ UNCHANGED <<cliWord, cliKey>>

\* consume_any_whitespace: one of them; it never returns when there is none
CliSpace(pc, then) ==
    /\ CliByte(pc) /\ CliFirst = " "
    /\ CliAccept(then)
    /\ UNCHANGED cliLocals

\* consume_until_eol(crlf): a CR at the end of the buffer is not seen as one
CliAtEol == CliFirst = "CR" /\ CliPeek(1) = "LF"
CliCollect == CliAccept(cliPc) /\ cliWord' = Append(cliWord, CliFirst) /\ UNCHANGED <<cliKey, cliCount, cliResp>>
CliEol(then) ==
    /\ cliBuf' = SubSeq(cliBuf, 3, Len(cliBuf)) /\ CliPops(2) /\ cliPc' = then
    /\ CliKeepOthers /\ UNCHANGED cliCount

(* Looks ahead that meet a byte of an earlier lap, or the one past the     *)
(* last cell: of consume_until_eol behind a CR, of parse_headers behind a  *)
(* line and, with peek_u8(1), behind the first byte of the next.           *)
CliSure(i) == i < Len(cliBuf) \/ (cliFresh /\ cliHead + i < cliCells)
CliStray ==
    \/ /\ CliByte("info") \/ CliByte("value") \/ CliByte("fold")
       /\ CliFirst = "CR"
       /\ ~CliSure(1) \/ (cliPc # "info" /\ CliAtEol /\ ~CliSure(2))
    \/ /\ cliPc = "headers"
       /\ ~CliSure(0) \/ (CliPeek(0) # "CR" /\ (cliHead + 1 = cliCells \/ ~CliSure(1)))

CliAstray ==
    /\ CliStray /\ cliPc' = "astray"
    /\ CliKeepOthers /\ UNCHANGED <<cliBuf, cliRing, cliLocals>>

CliInfo ==
    /\ CliByte("info") /\ ~CliStray
    /\ \/ ~CliAtEol /\ CliCollect
       \/ /\ CliAtEol /\ CliEol("headers")
          /\ cliResp' = [cliResp EXCEPT !.info = cliWord] /\ cliWord' = <<>> /\ UNCHANGED cliKey

\* the condition of the loop: looks at the buffer as it is, without a refill
CliHeaders ==
    /\ cliPc = "headers" /\ ~CliStray
    /\ cliPc' = IF CliPeek(0) # "CR" /\ CliPeek(1) # "LF" THEN "refill" ELSE "blank"
    /\ CliKeepOthers /\ UNCHANGED <<cliBuf, cliRing, cliLocals>>

CliReadKey ==
    /\ CliByte("key")
    /\ \/ CliFirst # ":" /\ CliCollect
       \/ /\ CliFirst = ":" /\ CliAccept("value")
          /\ cliKey' = cliWord /\ cliWord' = <<>> /\ UNCHANGED <<cliCount, cliResp>>

\* the value, and the lines that continue it; the look for one is without a refill, too
CliReadValue ==
    /\ (CliByte("value") \/ CliByte("fold")) /\ ~CliStray
    /\ \/ ~CliAtEol /\ CliCollect
       \/ /\ CliAtEol /\ CliEol(IF CliPeek(2) = " " THEN "fold" ELSE "headers")
          /\ IF CliPeek(2) = " " THEN UNCHANGED <<cliWord, cliKey, cliResp>>
             ELSE /\ cliWord' = <<>> /\ cliKey' = <<>>
                  /\ cliResp' = [cliResp EXCEPT !.headers =
                                   [k \in DOMAIN @ \union {cliKey} |-> IF k = cliKey THEN cliWord ELSE @[k]]]

\* read_u16: the CRLF; on less than two bytes the ring throws, which make_request does not catch
CliBlank ==
    /\ cliPc = "blank"
    /\ cliPc' = IF Len(cliBuf) < 2 THEN "escaped" ELSE "body"
    /\ cliBuf' = IF Len(cliBuf) < 2 THEN <<>> ELSE SubSeq(cliBuf, 3, Len(cliBuf))
    /\ CliPops(IF Len(cliBuf) < 2 THEN Len(cliBuf) ELSE 2)
    /\ CliKeepOthers /\ UNCHANGED cliLocals

\* Faulty variant: a read that brings nothing ends the body, whatever is in the buffer.
CliBodyStops ==
    /\ cliPc = "take"
    /\ cliPc' = IF cliNet = <<>> THEN "returned" ELSE "body"
    /\ cliBuf' = <<>> /\ CliPops(Len(cliBuf))
    /\ cliResp' = IF cliNet = <<>> THEN cliResp ELSE [cliResp EXCEPT !.body = @ \o cliBuf]
    /\ CliKeepOthers /\ UNCHANGED <<cliWord, cliKey, cliCount>>

\* parse_body, after its refill: done when the buffer is empty
CliBody ==
    /\ cliPc = "take"
    /\ cliPc' = IF cliBuf = <<>> THEN "returned" ELSE "body"
    /\ cliBuf' = <<>> /\ CliPops(Len(cliBuf))
    /\ cliResp' = [cliResp EXCEPT !.body = @ \o cliBuf]
    /\ CliKeepOthers /\ UNCHANGED <<cliWord, cliKey, cliCount>>

CliNext ==
    \/ CliRequest \/ CliRefill
    \/ CliExpect("HTTP/", "major") \/ CliNumber("major", -1, ".") \/ CliExpect(".", "minor")
    \/ CliNumber("minor", -1, "space1") \/ CliSpace("space1", "code") \/ CliNumber("code", 3, "space2")
    \/ CliSpace("space2", "info") \/ CliInfo
    \/ CliHeaders \/ CliReadKey \/ CliReadValue \/ CliAstray \/ CliBlank \/ CliBody

CliSpec == CliInit /\ [][CliNext]_cliVars

-----------------------------------------------------------------------------
\* got has what the first n headers stand for: the last one of a key that comes twice
CliValue(h) == IF h.folded = "" THEN <<h.line>> ELSE <<h.line, " ", h.folded>>
CliMeans(got, headers, n) ==
    /\ DOMAIN got = {<<headers[i].key>> : i \in 1..n}
    /\ \A i \in 1..n : (\A j \in 1..n : headers[j].key = headers[i].key => j <= i)
                        => got[<<headers[i].key>>] = CliValue(headers[i])
CliCodeOf(code) == CliDigits[code[1]] * 100 + CliDigits[code[2]] * 10 + CliDigits[code[3]]

(* What make_request returns is what the server sent, in whatever pieces   *)
(* it arrived: the status, all headers and their continuations, and the    *)
(* body, up to where the connection broke; with two exceptions, which are  *)
(* faults of the code.  The pieces of the head must not end with a byte of *)
(* a line end: the looks ahead of consume_until_eol and of parse_headers   *)
(* do not refill, so that such a line end, or the end of the head, is      *)
(* passed over.  And nothing is said of a request that went "astray": one  *)
(* whose refill, of a ring that is not empty, made the ring grow while its *)
(* first byte was not in cell 0 (few responses of more than 1024 bytes get *)
(* by without), or whose look ahead met a byte of an earlier lap.          *)
CliAsSent ==
    cliPc = "returned" /\ ~cliSplit =>
        /\ cliResp.major = 1 /\ cliResp.minor = 0 /\ cliResp.code = CliCodeOf(cliAnswer.code)
        /\ cliResp.info = <<"info">>
        /\ CliMeans(cliResp.headers, cliAnswer.headers, Len(cliAnswer.headers))
        /\ cliResp.body \o cliLost = cliAnswer.body

-----------------------------------------------------------------------------
(* The inductive invariant: what is to come, arrived or not, fits what was *)
(* parsed, and the buffer does not end within a line end of the head.      *)
CliLeft == cliBuf \o (cliNet \o cliLost)
CliGood(r) ==
    /\ cliAnswer = r /\ cliBuf \in Seq(CliBytes) /\ cliNet \in Seq(CliBytes) /\ cliLost \in Seq(CliBytes)
    /\ cliLost # <<>> => cliNet = <<>>
    /\ cliBuf # <<>> /\ Len(cliNet) + Len(cliLost) > Len(r.body) => cliBuf[Len(cliBuf)] \notin {"CR", "LF"}

\* make_request is at pc, with these locals, left is to come, and k headers are
CliAt(r, pc, left, count, word, key, k) ==
    /\ cliPc = pc /\ CliLeft = left /\ cliCount = count /\ cliWord = word /\ cliKey = key
    /\ CliMeans(cliResp.headers, r.headers, Len(r.headers) - k)
CliSo(major, code, info, body) ==
    cliResp = [major |-> major, minor |-> 0, code |-> code, info |-> info, headers |-> cliResp.headers, body |-> body]

\* ... within the status line
CliSt(r, pc, left, count, word, major, code) ==
    CliAt(r, pc, left, count, word, <<>>, Len(r.headers)) /\ CliSo(major, code, <<>>, <<>>)
CliInStatus(r) ==
    LET d1 == CliDigits[r.code[1]]
        d2 == CliDigits[r.code[2]]
        I == CliInfoLine(r)
        V == CliThen("0", CliThen(" ", CliCode(r)))
    IN \/ CliSt(r, "request", CliEncode(r), 0, <<>>, 0, 0)
       \/ CliSt(r, "HTTP/", CliEncode(r), 0, <<>>, 0, 0)
       \/ CliSt(r, "major", CliVersion(r), 0, <<>>, 0, 0)
       \/ CliSt(r, "major", CliThen(".", V), 1, <<>>, 1, 0)
       \/ CliSt(r, ".", CliThen(".", V), 0, <<>>, 1, 0)
       \/ CliSt(r, "minor", V, 0, <<>>, 1, 0)
       \/ CliSt(r, "minor", CliThen(" ", CliCode(r)), 1, <<>>, 1, 0)
       \/ CliSt(r, "space1", CliThen(" ", CliCode(r)), 0, <<>>, 1, 0)
       \/ CliSt(r, "code", CliCode(r), 0, <<>>, 1, 0)
       \/ CliSt(r, "code", CliThen(r.code[2], CliThen(r.code[3], CliThen(" ", I))), 1, <<>>, 1, d1)
       \/ CliSt(r, "code", CliThen(r.code[3], CliThen(" ", I)), 2, <<>>, 1, d1 * 10 + d2)
       \/ CliSt(r, "space2", CliThen(" ", I), 0, <<>>, 1, CliCodeOf(r.code))
       \/ CliSt(r, "info", I, 0, <<>>, 1, CliCodeOf(r.code))
       \/ CliSt(r, "info", CliLine(CliSends(r)[Len(r.headers)]), 0, <<"info">>, 1, CliCodeOf(r.code))

CliInHeader(r, k) ==
    LET h == r.headers[Len(r.headers) + 1 - k]
        At(pc, left, word, key) == CliAt(r, pc, left, 0, word, key, k)
        rest == CliSends(r)[k - 1]
    IN \/ At("refill", CliSends(r)[k], <<>>, <<>>)
       \/ At("key", CliSends(r)[k], <<>>, <<>>)
       \/ At("key", CliThen(":", CliText(h, rest)), <<h.key>>, <<>>)
       \/ At("value", CliText(h, rest), <<>>, <<h.key>>)
       \/ At("value", CliLine(CliFolded(h, rest)), <<h.line>>, <<h.key>>)
       \/ /\ h.folded # ""
          /\ \/ At("fold", CliFolded(h, rest), <<h.line>>, <<h.key>>)
             \/ At("fold", CliThen(h.folded, CliLine(rest)), <<h.line, " ">>, <<h.key>>)
             \/ At("fold", CliLine(rest), <<h.line, " ", h.folded>>, <<h.key>>)

CliInHeaders(r) ==
    /\ CliSo(1, CliCodeOf(r.code), <<"info">>, <<>>)
    /\ \/ cliBuf # <<>> /\ \E k \in 0..Len(r.headers) : CliAt(r, "headers", CliSends(r)[k], 0, <<>>, <<>>, k)
       \/ \E k \in 1..Len(r.headers) : CliInHeader(r, k)
       \/ cliBuf # <<>> /\ CliAt(r, "blank", CliSends(r)[0], 0, <<>>, <<>>, 0)

CliInBody(r) ==
    /\ cliPc \in {"body", "take", "returned"} /\ CliSo(1, CliCodeOf(r.code), <<"info">>, cliResp.body)
    /\ CliMeans(cliResp.headers, r.headers, Len(r.headers))
    /\ cliResp.body \in Seq(CliBytes) /\ cliResp.body \o CliLeft = r.body
    /\ (cliPc = "take" /\ cliBuf = <<>>) \/ cliPc = "returned" => cliBuf = <<>> /\ cliNet = <<>>

CliIInv ==
    \/ cliSplit
    \/ \E r \in CliResponses :
         /\ CliGood(r)
         /\ CliInStatus(r) \/ CliInHeaders(r) \/ CliInBody(r) \/ cliPc \in {"nullopt", "escaped", "astray"}
=============================================================================
