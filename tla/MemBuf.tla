------------------------------- MODULE MemBuf -------------------------------
(***************************************************************************)
(* collections/memory_buffer.cpp: numbers of one, two, four and eight      *)
(* bytes, written to and read from a queue of bytes in either byte order.  *)
(* The queue is a Ring (collections/ring.h), here the bytes it holds, the  *)
(* place of the first one, its capacity and needsResize; module Ring has   *)
(* its cells.  A byte has the values 0 .. MemBase - 1.                     *)
(*                                                                         *)
(* Ring has two faults that show.  Where it grows while its first byte is  *)
(* not in cell 0 it copies from past its cells: undefined, the model ends. *)
(* And operator[] does not wrap the index that is equal to the capacity: a *)
(* peek reads whatever is past the last cell.                              *)
(***************************************************************************)
EXTENDS Integers, Sequences

CONSTANTS MemBase,      \* 256 in the code
          MemCapacity,  \* reserved_size, 1024 where none is given
          MemInputs,    \* width -> the numbers that are written
          MemLimit      \* bound: bytes in the buffer


VARIABLES memBig,       \* big_endian
          memBuffer,    \* the bytes in buffer, in their order
          memHead,      \* the cell of the first one
          memCells,     \* the number of cells
          memFull,      \* needsResize
          memUndefined, \* it grew with memHead # 0
          memLast       \* the last call: [op, width, index, value]

memVars == <<memBig, memBuffer, memHead, memCells, memFull, memUndefined, memLast>>

MemWidths == {1, 2, 4, 8}
\* how many numbers of two and of four bytes there are, and of w bytes
MemPairs == MemBase * MemBase
MemQuads == MemPairs * MemPairs
MemCount(w) ==
    CASE w = 1 -> MemBase [] w = 2 -> MemPairs [] w = 4 -> MemQuads [] w = 8 -> MemQuads * MemQuads

ASSUME MemAssumption ==
    /\ MemBase \in Nat \ {0} /\ MemCapacity \in Nat \ {0} /\ MemLimit \in Nat
    /\ \A w \in MemWidths : MemInputs[w] \subseteq 0..(MemCount(w) - 1)

MemNoCall == [op |-> "none", width |-> 1, index |-> 0, value |-> 0]

MemInit ==
    /\ memBig = FALSE /\ memBuffer = <<>> /\ memHead = 0 /\ memCells = MemCapacity
    /\ memFull = FALSE /\ memUndefined = FALSE /\ memLast = MemNoCall

\* two halves with count values each, in the order they are stored
MemJoin(a, b, count) == IF memBig THEN a * count + b ELSE b * count + a

\* of these bytes, the number from index i on
MemPeek1(bytes, i) == bytes[i + 1]
MemPeek2(bytes, i) == MemJoin(MemPeek1(bytes, i), MemPeek1(bytes, i + 1), MemBase)
\* Faulty variant: the second half is looked for one byte behind the first.
MemPeek4Near(bytes, i) == MemJoin(MemPeek2(bytes, i), MemPeek2(bytes, i + 1), MemPairs)
MemPeek4(bytes, i) == MemJoin(MemPeek2(bytes, i), MemPeek2(bytes, i + 2), MemPairs)
MemPeek8(bytes, i) == MemJoin(MemPeek4(bytes, i), MemPeek4(bytes, i + 4), MemQuads)

\* peek_u8, peek_u16, peek_u32, peek_u64 at index i
MemPeekAt(w, bytes, i) ==
    CASE w = 1 -> MemPeek1(bytes, i) [] w = 2 -> MemPeek2(bytes, i)
      [] w = 4 -> MemPeek4(bytes, i) [] w = 8 -> MemPeek8(bytes, i)

\* the bytes as operator[] shows them, with this byte past the last cell
MemIndexed(past) ==
    [k \in DOMAIN memBuffer |-> IF memHead + k - 1 = memCells THEN past ELSE memBuffer[k]]

\* the bytes that write_u8, write_u16, write_u32 and write_u64 append
MemSplit1(x) == <<x>>
MemSplit2(x) == IF memBig THEN MemSplit1(x \div MemBase) \o MemSplit1(x % MemBase)
                          ELSE MemSplit1(x % MemBase) \o MemSplit1(x \div MemBase)
MemSplit4(x) == IF memBig THEN MemSplit2(x \div MemPairs) \o MemSplit2(x % MemPairs)
                          ELSE MemSplit2(x % MemPairs) \o MemSplit2(x \div MemPairs)
MemSplit8(x) == IF memBig THEN MemSplit4(x \div MemQuads) \o MemSplit4(x % MemQuads)
                          ELSE MemSplit4(x % MemQuads) \o MemSplit4(x \div MemQuads)
MemSplit(w, x) ==
    CASE w = 1 -> MemSplit1(x) [] w = 2 -> MemSplit2(x) [] w = 4 -> MemSplit4(x) [] w = 8 -> MemSplit8(x)

-----------------------------------------------------------------------------
\* pop_front n times, which throws when there is nothing left
MemPop(n) ==
    LET popped == IF n <= Len(memBuffer) THEN n ELSE Len(memBuffer)
    IN /\ memBuffer' = SubSeq(memBuffer, popped + 1, Len(memBuffer))
       /\ memHead' = (memHead + popped) % memCells
       /\ memFull' = (memFull /\ popped = 0)
       /\ UNCHANGED <<memBig, memCells, memUndefined>>

\* the reads are of the front, byte by byte, in the order the peeks use
MemRead(w) ==
    /\ ~memUndefined
    /\ memLast' = IF w <= Len(memBuffer)
                  THEN [op |-> "read", width |-> w, index |-> 0, value |-> MemPeekAt(w, memBuffer, 0)]
                  ELSE MemNoCall
    /\ MemPop(w)

\* a peek of what the buffer has; the index is not checked
MemPeek(w, i) ==
    /\ ~memUndefined /\ Len(memBuffer) >= i + w
    /\ \E past \in 0..(MemBase - 1) :
         memLast' = [op |-> "peek", width |-> w, index |-> i, value |-> MemPeekAt(w, MemIndexed(past), i)]
    /\ UNCHANGED <<memBig, memBuffer, memHead, memCells, memFull, memUndefined>>

\* push_back of w bytes: resize() doubles the cells until they fit
MemGrows(w) == memFull \/ Len(memBuffer) + w > memCells
MemGrown(w) ==
    CHOOSE c \in {2 * memCells, 4 * memCells, 8 * memCells, 16 * memCells} :
        /\ Len(memBuffer) + w <= c
        /\ c = 2 * memCells \/ Len(memBuffer) + w > c \div 2

\* write_vector and write_string are a write of one byte after the other
MemWrite(w, x) ==
    /\ ~memUndefined /\ Len(memBuffer) + w <= MemLimit /\ ~(MemGrows(w) /\ memHead # 0)
    /\ memLast' = [op |-> "write", width |-> w, index |-> Len(memBuffer), value |-> x]
    /\ memBuffer' = memBuffer \o MemSplit(w, x)
    /\ memCells' = IF MemGrows(w) THEN MemGrown(w) ELSE memCells
    /\ memFull' = (Len(memBuffer) + w = memCells')
    /\ UNCHANGED <<memBig, memHead, memUndefined>>

MemWriteUndefined(w) ==
    /\ ~memUndefined /\ Len(memBuffer) + w <= MemLimit /\ MemGrows(w) /\ memHead # 0
    /\ memUndefined' = TRUE /\ memLast' = MemNoCall
    /\ UNCHANGED <<memBig, memBuffer, memHead, memCells, memFull>>

MemSkip(n) == ~memUndefined /\ MemPop(n) /\ memLast' = MemNoCall

\* needsResize stays as it is
MemClear ==
    /\ ~memUndefined /\ memBuffer' = <<>> /\ memHead' = 0 /\ memLast' = MemNoCall
    /\ UNCHANGED <<memBig, memCells, memFull, memUndefined>>

MemSetBigEndian(endian) ==
    /\ ~memUndefined /\ memBig' = endian /\ memLast' = MemNoCall
    /\ UNCHANGED <<memBuffer, memHead, memCells, memFull, memUndefined>>

MemNext ==
    \/ \E w \in MemWidths : MemRead(w) \/ \E i \in 0..MemLimit : MemPeek(w, i)
    \/ \E w \in MemWidths : MemWriteUndefined(w) \/ \E x \in MemInputs[w] : MemWrite(w, x)
    \/ \E n \in 1..MemLimit : MemSkip(n)
    \/ MemClear
    \/ \E endian \in BOOLEAN : MemSetBigEndian(endian)

MemSpec == MemInit /\ [][MemNext]_memVars

-----------------------------------------------------------------------------
\* The number that the w bytes from index i on stand for: its digits, the
\* most significant first, and the value of its first k digits.
MemDigits(bytes, w, i) == [k \in 1..w |-> bytes[IF memBig THEN i + k ELSE i + w + 1 - k]]
MemValues(digits, w) ==
    LET value[k \in 0..w] == IF k = 0 THEN 0 ELSE value[k - 1] * MemBase + digits[k]
    IN value
MemNumber(bytes, w, i) == MemValues(MemDigits(bytes, w, i), w)[w]

\* a peek of w bytes from index i on that reads past the last cell
MemPeeksPast(w, i) == memCells - memHead \in i .. (i + w - 1)

(* Numbers of all widths, mixed in one buffer and in both byte orders, in  *)
(* a ring that wraps around and grows: the halves that reads, peeks and    *)
(* writes are made of fit together, so that every call agrees with the     *)
(* positional value of the bytes it is about, and a number that was        *)
(* written is read back, also by reads of another width.  The exceptions   *)
(* are a peek over the byte in cell 0 of a ring that wraps around, which   *)
(* operator[] looks for past the last cell, and what follows a growth of   *)
(* a ring whose first byte is not in cell 0.                               *)
MemWordsArePositional ==
    [][LET c == memLast'
           bytes == IF c.op = "write" THEN memBuffer' ELSE memBuffer
       IN \/ c.op = "none"
          \/ c.op = "peek" /\ MemPeeksPast(c.width, c.index)
          \/ c.value = MemNumber(bytes, c.width, c.index)]_memVars

\* The inductive invariant: the bytes fit into the cells, and needsResize is set when they fill them
MemFits ==
    /\ memBuffer \in Seq(Nat) /\ memCells \in Nat \ {0} /\ memHead \in 0 .. (memCells - 1)
    /\ Len(memBuffer) <= memCells /\ memFull \in BOOLEAN
    /\ Len(memBuffer) = memCells => memFull
    /\ memFull => Len(memBuffer) = memCells \/ Len(memBuffer) = 0
=============================================================================
