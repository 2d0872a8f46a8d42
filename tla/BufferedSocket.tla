--------------------------- MODULE BufferedSocket ---------------------------
(***************************************************************************)
(* async/net/buffered_socket.cpp over async/net/socket.cpp: one coroutine  *)
(* that writes to, or reads from, a socket, through buffered_socket or     *)
(* through socket itself.                                                  *)
(*                                                                         *)
(* Bytes are numbered in the order in which they are handed to write, or   *)
(* in which the peer sends them; 0 is the byte of an array that was never  *)
(* written.  A send or a receive of the kernel may be short, and may fail. *)
(***************************************************************************)
EXTENDS Integers, Sequences

CONSTANTS NetBuffer,      \* BUFFER_SIZE
          NetHighWater,   \* HIGH_WATERMARK
          NetBytes        \* bound: bytes handed to write, and bytes the peer sends

ASSUME NetAssumption ==
    NetBuffer \in Nat \ {0} /\ NetHighWater \in 0..NetBuffer /\ NetBytes \in Nat

VARIABLES netUse,      \* <<direction, buffered>>, chosen at the start
          netOpen,     \* has_socket
          netTodo,     \* what the write or flush in progress has still to do
          netWritten,  \* number of bytes handed to write
          netWire,     \* bytes the kernel took, in order
          netOut,      \* outbound_buffer
          netHead, netSize,
          netClean,    \* no write was appended to one that is not flushed, no send failed
          netPeer,     \* number of bytes of the peer that were received
          netIn,       \* inbound_buffer
          netInHead, netInSize,
          netWant,     \* bytes the read in progress has still to deliver
          netRead,     \* bytes delivered to the callers of read
          netFilled    \* every receive into inbound_buffer filled it

netVars == <<netUse, netOpen, netTodo, netWritten, netWire, netOut, netHead, netSize, netClean,
             netPeer, netIn, netInHead, netInSize, netWant, netRead, netFilled>>
netOutVars == <<netTodo, netWritten, netWire, netOut, netHead, netSize, netClean>>
netInVars == <<netPeer, netIn, netInHead, netInSize, netWant, netRead, netFilled>>

NetZeros == [i \in 1..NetBuffer |-> 0]

NetInit ==
    /\ netUse = <<"none", FALSE>> /\ netOpen = TRUE
    /\ netTodo = <<>> /\ netWritten = 0 /\ netWire = <<>>
    /\ netOut = NetZeros /\ netHead = 0 /\ netSize = 0 /\ netClean = TRUE
    /\ netPeer = 0 /\ netIn = NetZeros /\ netInHead = 0 /\ netInSize = 0
    /\ netWant = 0 /\ netRead = <<>> /\ netFilled = TRUE

NetStart(direction, buffered) ==
    /\ netUse[1] = "none"
    /\ netUse' = <<direction, buffered>>
    /\ UNCHANGED <<netOpen, netOutVars, netInVars>>

-----------------------------------------------------------------------------
(* write and flush *)

NetIdle(direction) == netUse[1] = direction /\ netOpen /\ netTodo = <<>> /\ netWant = 0

\* the bytes at positions from .. to - 1 of outbound_buffer
NetSegment(from, to) == SubSeq(netOut, from + 1, to)
NetSend(bytes) == [do |-> "send", bytes |-> bytes]

\* buffered_socket::flush: up to the end of the array, then what wrapped around
NetFlushSteps ==
    LET end == netHead + netSize IN
    <<NetSend(NetSegment(netHead, IF end < NetBuffer THEN end ELSE NetBuffer))>>
      \o (IF end >= NetBuffer THEN <<NetSend(NetSegment(0, end - NetBuffer))>> ELSE <<>>)
      \o <<[do |-> "reset", bytes |-> <<>>]>>

\* buffered_socket::write_some, up to the first send
NetWriteSteps(bytes) ==
    LET large == netSize + Len(bytes) >= NetBuffer
        high == Len(bytes) >= NetHighWater
    IN (IF large \/ high THEN NetFlushSteps ELSE <<>>)
         \o <<IF high THEN NetSend(bytes) ELSE [do |-> "copy", bytes |-> bytes]>>

NetWrite(n) ==
    LET bytes == [i \in 1..n |-> netWritten + i] IN
    /\ NetIdle("write") /\ netWritten + n <= NetBytes
    /\ netClean                     \* bound: the use ends where the property does
    /\ netWritten' = netWritten + n
    /\ netTodo' = IF netUse[2] THEN NetWriteSteps(bytes) ELSE <<NetSend(bytes)>>
    /\ netClean' = (netSize > 0 => netSize + n >= NetBuffer \/ n >= NetHighWater)
    /\ UNCHANGED <<netUse, netOpen, netWire, netOut, netHead, netSize, netInVars>>

NetFlush ==
    /\ NetIdle("write") /\ netUse[2] /\ netClean
    /\ netTodo' = NetFlushSteps
    /\ UNCHANGED <<netUse, netOpen, netWritten, netWire, netOut, netHead, netSize, netClean, netInVars>>

\* Faulty variant: one send, whatever it sent, is the whole write.
NetSendSomeOnce ==
    /\ netTodo # <<>> /\ netTodo[1].do = "send"
    /\ \E n \in 0..Len(netTodo[1].bytes) :
         /\ netWire' = netWire \o SubSeq(netTodo[1].bytes, 1, n)
         /\ netTodo' = Tail(netTodo)
    /\ UNCHANGED <<netUse, netOpen, netWritten, netOut, netHead, netSize, netClean, netInVars>>

(* socket::write: send what is left until nothing is left *)
NetSendSome ==
    /\ netTodo # <<>> /\ netTodo[1].do = "send"
    /\ LET left == netTodo[1].bytes IN
       \/ /\ left = <<>>
          /\ netTodo' = Tail(netTodo)
          /\ UNCHANGED <<netWire, netClean>>
       \/ \E n \in 1..Len(left) :
            /\ netWire' = netWire \o SubSeq(left, 1, n)
            /\ netTodo' = [netTodo EXCEPT ![1].bytes = SubSeq(left, n + 1, Len(left))]
            /\ UNCHANGED netClean
       \/ /\ left # <<>>          \* the send fails, and with it the write or the flush
          /\ netTodo' = <<>> /\ netClean' = FALSE
          /\ UNCHANGED netWire
    /\ UNCHANGED <<netUse, netOpen, netWritten, netOut, netHead, netSize, netInVars>>

NetFlushed ==
    /\ netTodo # <<>> /\ netTodo[1].do = "reset"
    /\ netHead' = 0 /\ netSize' = 0 /\ netTodo' = Tail(netTodo)
    /\ UNCHANGED <<netUse, netOpen, netWritten, netWire, netOut, netClean, netInVars>>

(* the rest of write_some: copy behind what is buffered, around the end of *)
(* the array if need be.  The head is advanced by the position of the copy. *)
NetCopy ==
    LET bytes == IF netTodo # <<>> THEN netTodo[1].bytes ELSE <<>>
        end == netHead + netSize
        at == IF end >= NetBuffer THEN end - NetBuffer ELSE end
        head == netHead + at
    IN /\ netTodo # <<>> /\ netTodo[1].do = "copy"
       /\ netOut' = [p \in 1..NetBuffer |->
                       LET i == (p - 1 - at) % NetBuffer IN
                       IF i < Len(bytes) THEN bytes[i + 1] ELSE netOut[p]]
       /\ netHead' = IF head >= NetBuffer THEN head - NetBuffer ELSE head
       /\ netSize' = netSize + Len(bytes)
       /\ netTodo' = Tail(netTodo)
       /\ UNCHANGED <<netUse, netOpen, netWritten, netWire, netClean, netInVars>>

-----------------------------------------------------------------------------
(* read *)

NetReadCall(n) ==
    /\ NetIdle("read") /\ Len(netRead) + n <= NetBytes
    /\ netWant' = n
    /\ UNCHANGED <<netUse, netOpen, netOutVars, netPeer, netIn, netInHead, netInSize, netRead, netFilled>>

NetMin(a, b) == IF a < b THEN a ELSE b

\* read_from_buffer
NetReadBuffered ==
    LET n == NetMin(netWant, netInSize) IN
    /\ netWant > 0 /\ netInSize > 0
    /\ netRead' = netRead \o SubSeq(netIn, netInHead + 1, netInHead + n)
    /\ netInSize' = netInSize - n /\ netInHead' = netInHead + n
    /\ netWant' = netWant - n
    /\ UNCHANGED <<netUse, netOpen, netOutVars, netPeer, netIn, netFilled>>

\* socket::read_some: n bytes from the kernel; 0 is the end of the stream, which closes, or an error
NetRecv(n) ==
    /\ netOpen /\ n <= NetBytes - netPeer
    /\ netPeer' = netPeer + n
    /\ netOpen' \in (IF n = 0 THEN BOOLEAN ELSE {TRUE})

(* read_some of a small read: the array is filled by one receive, whose    *)
(* result is not looked at; n = 0 is the end of the stream or an error     *)
NetFill(n) ==
    /\ netUse[2] /\ netWant > 0 /\ netInSize = 0 /\ netWant < NetBuffer
    /\ NetRecv(n)
    /\ netIn' = [p \in 1..NetBuffer |-> IF p <= n THEN netPeer + p ELSE netIn[p]]
    /\ netInHead' = 0 /\ netInSize' = NetBuffer
    /\ netFilled' = (netFilled /\ n = NetBuffer)
    /\ UNCHANGED <<netUse, netOutVars, netWant, netRead>>

\* a large read, or one of a plain socket: straight from the kernel
NetReceive(n) ==
    /\ netWant > 0 /\ netInSize = 0 /\ (netUse[2] => netWant >= NetBuffer)
    /\ n <= netWant /\ NetRecv(n)
    /\ netRead' = netRead \o [i \in 1..n |-> netPeer + i]
    /\ netWant' = IF n = 0 THEN 0 ELSE netWant - n
    /\ UNCHANGED <<netUse, netOutVars, netIn, netInHead, netInSize, netFilled>>

NetNext ==
    \/ \E d \in {"read", "write"}, b \in BOOLEAN : NetStart(d, b)
    \/ \E n \in 1..NetBytes : NetWrite(n) \/ NetReadCall(n)
    \/ NetFlush \/ NetSendSome \/ NetFlushed \/ NetCopy \/ NetReadBuffered
    \/ \E n \in 0..NetBuffer : NetFill(n) \/ NetReceive(n)

NetSpec == NetInit /\ [][NetNext]_netVars

-----------------------------------------------------------------------------
(* Short sends, the watermark and the two copies of flush: what goes out   *)
(* is what was written, nothing twice, nothing skipped, nothing out of     *)
(* order, and after a flush all of it.  Stated for callers of              *)
(* buffered_socket that flush before they append to what is buffered       *)
(* (write_some then advances outbound_head by the wrong amount) and do not *)
(* go on after an error (flush would send again what it had sent).         *)
NetWireInOrder ==
    netClean => /\ netWire = [i \in 1..Len(netWire) |-> i]
                /\ netTodo = <<>> => Len(netWire) + netSize = netWritten

(* Reads of every size, short receives included, deliver the peer's bytes  *)
(* in order, none lost between the buffer and the kernel.  For             *)
(* buffered_socket as long as each receive filled its array (read_some     *)
(* does not look at the count).                                            *)
NetReadInOrder == netFilled => netRead = [i \in 1..Len(netRead) |-> i]

(* In both directions the socket is a stream of bytes.                     *)
NetIsStream == NetWireInOrder /\ NetReadInOrder

\* the number of bytes that are handed to the kernel before step i of netTodo
NetLen(i) == IF i <= Len(netTodo) THEN Len(netTodo[i].bytes) ELSE 0
NetBefore(i) ==
    Len(netWire) + (IF i > 1 THEN NetLen(1) ELSE 0) + (IF i > 2 THEN NetLen(2) ELSE 0)
                 + (IF i > 3 THEN NetLen(3) ELSE 0)

\* what is left to do goes on where the wire ends, up to what was written; the buffer is empty
\* unless it is yet to be flushed, and a copy comes last
NetPlan ==
    /\ netTodo \in Seq([do : {"send", "reset", "copy"}, bytes : Seq(Nat)]) /\ Len(netTodo) <= 3
    /\ \A i \in 1..Len(netTodo) :
         /\ \A k \in DOMAIN netTodo[i].bytes : netTodo[i].bytes[k] = NetBefore(i) + k
         /\ netTodo[i].do = "copy" => i = Len(netTodo) /\ NetLen(i) < NetBuffer
         /\ netTodo[i].do = "reset" => NetLen(i) = 0
         /\ netTodo[i].do \in {"copy", "reset"} => netUse[2] = TRUE
    /\ netTodo # <<>> =>
         /\ NetBefore(4) = netWritten
         /\ (\A i \in 1..Len(netTodo) : netTodo[i].do # "reset") => netSize = 0

\* between two calls the buffer has what goes on where the wire ends
NetBuffered ==
    netTodo = <<>> =>
        /\ Len(netWire) + netSize = netWritten
        /\ \A p \in 1..netSize : netOut[p] = Len(netWire) + p

NetWrites ==
    /\ netWritten \in Nat /\ netWire \in Seq(Nat) /\ netOut \in [1..NetBuffer -> Nat]
    /\ netHead = 0 /\ netSize \in Nat /\ netSize < NetBuffer /\ (netUse[2] = FALSE => netSize = 0)
    /\ netWire = [i \in 1..Len(netWire) |-> i]
    /\ NetPlan /\ NetBuffered

\* what was received is delivered, or in the buffer
NetReads ==
    /\ netPeer \in Nat /\ netWant \in Nat /\ netInHead \in Nat /\ netInSize \in Nat
    /\ netRead \in Seq(Nat) /\ netIn \in [1..NetBuffer -> Nat]
    /\ netRead = [i \in 1..Len(netRead) |-> i]
    /\ netInHead + netInSize <= NetBuffer /\ Len(netRead) + netInSize = netPeer
    /\ \A i \in 1..netInSize : netIn[netInHead + i] = Len(netRead) + i

\* the inductive invariant
NetIInv ==
    /\ netUse \in {<<"none", FALSE>>} \union ({"read", "write"} \X BOOLEAN)
    /\ netClean \in BOOLEAN /\ netFilled \in BOOLEAN
    /\ netClean => NetWrites
    /\ netFilled => NetReads
=============================================================================
