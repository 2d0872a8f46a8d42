----------------------------- MODULE AsyncFile -----------------------------
(***************************************************************************)
(* The asynchronous file of concurrency/coroutine/wrappers/file.cpp, used  *)
(* by one coroutine: reads through rdbuf, writes through wrbuf.            *)
(*                                                                         *)
(* The reads are of a file with the bytes 1, 2, ..., FileLength, the       *)
(* writes go to another, which has the bytes 0 at first; the bytes written *)
(* are numbered in the order of the calls.  The kernel may transfer fewer  *)
(* bytes than it is asked for.  Its errors are not modelled: read and      *)
(* write take a negative result for a count.                               *)
(*                                                                         *)
(* rdbuf and wrbuf are rings of bytes.  A ring that grows while its first  *)
(* byte is not in its first cell copies from past the cells, and so does   *)
(* make_cont of a full one; readexactly of fewer bytes than rdbuf holds    *)
(* reads past its result.  What the program does then is not defined, and  *)
(* the model stops (mode "astray").                                        *)
(***************************************************************************)
EXTENDS Integers, Sequences

CONSTANTS FileBatch,    \* batch_read_count
          FileRing,     \* cells of a MemBuf that is new: 1024 in the code
          FileLength,   \* bound: bytes of a file
          FileCalls     \* bound: seeks

ASSUME FileAssumption ==
    FileBatch \in Nat /\ FileRing \in Nat \ {0} /\ FileLength \in Nat /\ FileCalls \in Nat

VARIABLES fileMode,     \* "in" or "out", chosen at the start; "thrown" or "astray" at the end
          fileSeeks,
          fileHead,     \* read_head
          fileRdbuf,
          fileEof,      \* eof_
          fileRun,      \* what read(-1) has put together; <<-1>> when it is not running
          fileNext,     \* the byte that is to be delivered next
          fileInOrder,  \* what was delivered was what was to be delivered
          fileFirst, fileCells,   \* of the ring of rdbuf or wrbuf: cell of the first byte, number of cells
          fileWriteHead, fileWrbuf,
          fileDo,       \* the call in progress: <<>>, <<"drain">> or <<"write", bytes>>
          fileDisk,     \* contents of the file that is written
          fileWanted    \* contents it would have if each write went straight to the disk

fileReadVars == <<fileHead, fileRdbuf, fileEof, fileRun, fileNext, fileInOrder>>
fileWriteVars == <<fileWriteHead, fileWrbuf, fileDo, fileDisk, fileWanted>>
fileRing == <<fileFirst, fileCells>>
fileVars == <<fileMode, fileSeeks, fileReadVars, fileWriteVars, fileRing>>

FileNotRunning == <<-1>>
FileBlank == [i \in 1..FileLength |-> 0]

FileInit ==
    /\ fileMode = "none" /\ fileSeeks = 0
    /\ fileHead = 0 /\ fileRdbuf = <<>> /\ fileEof = FALSE
    /\ fileRun = FileNotRunning /\ fileNext = 1 /\ fileInOrder = TRUE
    /\ fileWriteHead = 0 /\ fileWrbuf = <<>> /\ fileDo = <<>>
    /\ fileDisk = FileBlank /\ fileWanted = FileBlank
    /\ fileFirst = 0 /\ fileCells = FileRing

FileOpen(mode) ==
    /\ fileMode = "none" /\ fileMode' = mode
    /\ UNCHANGED <<fileSeeks, fileReadVars, fileWriteVars, fileRing>>

\* where the first byte is after n were taken
FilePopped(n) == (fileFirst + n) % fileCells

\* n bytes are pushed after the held ones; resize() doubles the cells until they fit
FileBreaks(first, held, n) == first # 0 /\ held + n > fileCells
FileCellsFor(n) ==
    LET sizes == {c \in {fileCells * 2^k : k \in 0..n} : c >= n}
    IN CHOOSE c \in sizes : \A d \in sizes : c <= d
FilePushes(first, held, n) ==
    /\ ~FileBreaks(first, held, n)
    /\ fileFirst' = first /\ fileCells' = FileCellsFor(held + n)

FileTakes(n) == fileFirst' = FilePopped(n) /\ UNCHANGED fileCells

-----------------------------------------------------------------------------
(* reads *)

FileMin(a, b) == IF a < b THEN a ELSE b
FileCanRead == fileMode = "in" /\ fileRun = FileNotRunning /\ ~fileEof
FileBytes(from, n) == [i \in 1..n |-> from + i]

\* the counts the kernel may return for a read of n bytes at from: 0 at the end only
FileCounts(from, n) ==
    LET left == FileMin(n, FileLength - from) IN IF left <= 0 THEN {0} ELSE 1..left

\* result.resize(n) of bytes that are not more: zeros after them
FileResized(bytes, n) == [i \in 1..n |-> IF i <= Len(bytes) THEN bytes[i] ELSE 0]

\* a call returns result, with count bytes of the file
FileDeliver(result, count) ==
    /\ fileNext' = fileNext + count
    /\ fileInOrder' =
         (fileInOrder /\ result = FileResized(FileBytes(fileNext - 1, count), Len(result)))

\* read(n), all of it from rdbuf
FileReadBuffered(n) ==
    /\ FileCanRead /\ Len(fileRdbuf) > n
    /\ FileDeliver(SubSeq(fileRdbuf, 1, n), n)
    /\ fileRdbuf' = SubSeq(fileRdbuf, n + 1, Len(fileRdbuf)) /\ FileTakes(n)
    /\ UNCHANGED <<fileMode, fileSeeks, fileHead, fileEof, fileRun, fileWriteVars>>

\* read(n) of more than batch_read_count bytes beyond rdbuf
FileReadLarge(n) ==
    /\ FileCanRead /\ Len(fileRdbuf) <= n /\ n - Len(fileRdbuf) > FileBatch
    /\ \E k \in FileCounts(fileHead, n - Len(fileRdbuf)) :
         /\ FileDeliver(fileRdbuf \o FileBytes(fileHead, k), Len(fileRdbuf) + k)
         /\ fileHead' = fileHead + k /\ fileEof' = (k = 0)
    /\ fileRdbuf' = <<>> /\ FileTakes(Len(fileRdbuf))
    /\ UNCHANGED <<fileMode, fileSeeks, fileRun, fileWriteVars>>

(* read(n) otherwise: a batch of k bytes is read, and what is too much     *)
(* goes to rdbuf.  When it is too little the result has n bytes all the    *)
(* same.                                                                   *)
FileIsBatch(n) == FileCanRead /\ Len(fileRdbuf) <= n /\ n - Len(fileRdbuf) <= FileBatch
FileTooMuch(n, k) == IF Len(fileRdbuf) + k < n THEN 0 ELSE Len(fileRdbuf) + k - n

FileReadBatch(n) ==
    /\ FileIsBatch(n)
    /\ \E k \in FileCounts(fileHead, FileBatch) :
         LET more == n - Len(fileRdbuf)
             got == FileBytes(fileHead, k)
         IN /\ IF more > k
               THEN /\ FileDeliver(FileResized(fileRdbuf \o got, n), Len(fileRdbuf) + k)
                    /\ fileRdbuf' = <<>>
               ELSE /\ FileDeliver(fileRdbuf \o SubSeq(got, 1, more), n)
                    /\ fileRdbuf' = SubSeq(got, more + 1, k)
            /\ fileHead' = fileHead + k /\ fileEof' = (k = 0)
            /\ FilePushes(FilePopped(Len(fileRdbuf)), 0, FileTooMuch(n, k))
    /\ UNCHANGED <<fileMode, fileSeeks, fileRun, fileWriteVars>>

\* read(-1): rdbuf, then to the end
FileReadAllStart ==
    /\ FileCanRead
    /\ fileRun' = fileRdbuf /\ fileRdbuf' = <<>> /\ FileTakes(Len(fileRdbuf))
    /\ UNCHANGED <<fileMode, fileSeeks, fileHead, fileEof, fileNext, fileInOrder, fileWriteVars>>

FileReadAllStep ==
    /\ fileRun # FileNotRunning
    /\ \E k \in FileCounts(fileHead, FileLength) :
         IF k = 0
         THEN /\ FileDeliver(fileRun, Len(fileRun))
              /\ fileRun' = FileNotRunning /\ fileEof' = TRUE /\ UNCHANGED fileHead
         ELSE /\ fileRun' = fileRun \o FileBytes(fileHead, k) /\ fileHead' = fileHead + k
              /\ UNCHANGED <<fileEof, fileNext, fileInOrder>>
    /\ UNCHANGED <<fileMode, fileSeeks, fileRdbuf, fileWriteVars, fileRing>>

(* readexactly(n).  When it throws, for one short read, what it took is    *)
(* lost, and the use ends here.  With fewer than rdbuf holds the count     *)
(* wraps around: it throws too, if the file has no more.                   *)
FileReadExactly(n) ==
    /\ FileCanRead
    /\ n < Len(fileRdbuf) => fileHead >= FileLength
    /\ \E k \in FileCounts(fileHead, n - Len(fileRdbuf)) :
         /\ fileHead' = fileHead + k
         /\ IF k = n - Len(fileRdbuf)
            THEN FileDeliver(fileRdbuf \o FileBytes(fileHead, k), n) /\ UNCHANGED fileMode
            ELSE fileMode' = "thrown" /\ UNCHANGED <<fileNext, fileInOrder>>
    /\ fileRdbuf' = <<>> /\ FileTakes(Len(fileRdbuf))
    /\ UNCHANGED <<fileSeeks, fileEof, fileRun, fileWriteVars>>

\* a batch that makes rdbuf grow, or readexactly(n) that reads past its result
FileReadAstray(n) ==
    /\ \/ /\ FileIsBatch(n)
          /\ \E k \in FileCounts(fileHead, FileBatch) :
               FileBreaks(FilePopped(Len(fileRdbuf)), 0, FileTooMuch(n, k))
       \/ FileCanRead /\ n < Len(fileRdbuf) /\ fileHead < FileLength
    /\ fileMode' = "astray"
    /\ UNCHANGED <<fileSeeks, fileReadVars, fileWriteVars, fileRing>>

(* seekg: neither rdbuf nor eof_ follows, so that it is used with rdbuf    *)
(* empty before the end was met                                            *)
FileSeekg(head) ==
    /\ FileCanRead /\ fileRdbuf = <<>> /\ fileSeeks < FileCalls
    /\ fileHead' = head /\ fileNext' = head + 1 /\ fileSeeks' = fileSeeks + 1
    /\ UNCHANGED <<fileMode, fileRdbuf, fileEof, fileRun, fileInOrder, fileWriteVars, fileRing>>

-----------------------------------------------------------------------------
(* writes *)

\* bytes, put at head
FilePut(disk, head, bytes) ==
    [i \in DOMAIN disk |-> IF i > head /\ i <= head + Len(bytes) THEN bytes[i - head] ELSE disk[i]]

FileWrittenSoFar == {fileWanted[i] : i \in DOMAIN fileWanted}
FileLast == CHOOSE m \in FileWrittenSoFar : \A b \in FileWrittenSoFar : b <= m

FileWrite(n) ==
    LET bytes == FileBytes(FileLast, n)
        at == fileWriteHead + Len(fileWrbuf)
    IN /\ fileMode = "out" /\ fileDo = <<>> /\ at + n <= FileLength
       /\ fileDo' = <<"write", bytes>>
       /\ fileWanted' = FilePut(fileWanted, at, bytes)
       /\ UNCHANGED <<fileMode, fileSeeks, fileReadVars, fileWriteHead, fileWrbuf, fileDisk, fileRing>>

FileDrain ==
    /\ fileMode = "out" /\ fileDo = <<>>
    /\ fileDo' = <<"drain">>
    /\ UNCHANGED <<fileMode, fileSeeks, fileReadVars, fileWriteHead, fileWrbuf, fileDisk, fileWanted, fileRing>>

\* what is left to do when try_flush_wrbuf leaves buf
FileAfterFlush(buf) ==
    CASE fileDo[1] = "drain" /\ buf = <<>> ->
           fileDo' = <<>> /\ fileWrbuf' = buf
      [] fileDo[1] = "drain" /\ buf # <<>> ->    \* poll, and once more
           fileDo' = fileDo /\ fileWrbuf' = buf
      [] fileDo[1] = "write" /\ buf = <<>> ->
           fileDo' = <<"direct", fileDo[2]>> /\ fileWrbuf' = buf
      [] fileDo[1] = "write" /\ buf # <<>> ->
           fileDo' = <<>> /\ fileWrbuf' = buf \o fileDo[2]

\* the counts the kernel may return for wrbuf, which is not written when it is empty
FileFlushes == fileMode = "out" /\ fileDo # <<>> /\ fileDo[1] \in {"drain", "write"}
FileWriteCounts == {k \in 0..Len(fileWrbuf) : k > 0 \/ fileWrbuf = <<>>}

\* make_cont has put the first byte into the first cell; write pushes its bytes when some are left
FileFlushed(k) == IF fileWrbuf = <<>> THEN fileFirst ELSE k % fileCells
FileKept(k) == IF fileDo[1] = "write" /\ k < Len(fileWrbuf) THEN Len(fileDo[2]) ELSE 0
FileIsFull == Len(fileWrbuf) = fileCells /\ fileFirst # 0

\* Faulty variant: the bytes that were written stay in wrbuf.
FileFlushKeeps ==
    /\ FileFlushes /\ ~FileIsFull
    /\ \E k \in FileWriteCounts :
         /\ fileDisk' = FilePut(fileDisk, fileWriteHead, SubSeq(fileWrbuf, 1, k))
         /\ fileWriteHead' = fileWriteHead + k
         /\ FileAfterFlush(IF k = Len(fileWrbuf) THEN <<>> ELSE fileWrbuf)
    /\ UNCHANGED <<fileMode, fileSeeks, fileReadVars, fileWanted, fileRing>>

\* try_flush_wrbuf
FileFlush ==
    /\ FileFlushes /\ ~FileIsFull
    /\ \E k \in FileWriteCounts :
         /\ fileDisk' = FilePut(fileDisk, fileWriteHead, SubSeq(fileWrbuf, 1, k))
         /\ fileWriteHead' = fileWriteHead + k
         /\ FileAfterFlush(SubSeq(fileWrbuf, k + 1, Len(fileWrbuf)))
         /\ FilePushes(FileFlushed(k), Len(fileWrbuf) - k, FileKept(k))
    /\ UNCHANGED <<fileMode, fileSeeks, fileReadVars, fileWanted>>

\* the rest of write: what the kernel does not take goes to wrbuf
FileDirect == fileMode = "out" /\ fileDo # <<>> /\ fileDo[1] = "direct"
FileWriteDirect ==
    /\ FileDirect
    /\ \E k \in 1..Len(fileDo[2]) :
         /\ fileDisk' = FilePut(fileDisk, fileWriteHead, SubSeq(fileDo[2], 1, k))
         /\ fileWriteHead' = fileWriteHead + k
         /\ fileWrbuf' = SubSeq(fileDo[2], k + 1, Len(fileDo[2]))
         /\ FilePushes(fileFirst, 0, Len(fileDo[2]) - k)
    /\ fileDo' = <<>>
    /\ UNCHANGED <<fileMode, fileSeeks, fileReadVars, fileWanted>>

\* make_cont of a wrbuf that is full, or a push that makes it grow
FileWriteAstray ==
    /\ \/ FileFlushes /\ FileIsFull
       \/ /\ FileFlushes
          /\ \E k \in FileWriteCounts : FileBreaks(FileFlushed(k), Len(fileWrbuf) - k, FileKept(k))
       \/ /\ FileDirect
          /\ \E k \in 1..Len(fileDo[2]) : FileBreaks(fileFirst, 0, Len(fileDo[2]) - k)
    /\ fileMode' = "astray"
    /\ UNCHANGED <<fileSeeks, fileReadVars, fileWriteVars, fileRing>>

(* seekp: what is in wrbuf would be written at the new place, so that it   *)
(* is used after drain                                                     *)
FileSeekp(head) ==
    /\ fileMode = "out" /\ fileDo = <<>> /\ fileWrbuf = <<>> /\ fileSeeks < FileCalls
    /\ fileWriteHead' = head /\ fileSeeks' = fileSeeks + 1
    /\ UNCHANGED <<fileMode, fileReadVars, fileWrbuf, fileDo, fileDisk, fileWanted, fileRing>>

FileNextStep ==
    \/ \E mode \in {"in", "out"} : FileOpen(mode)
    \/ \E n \in 1..FileLength :
         FileReadBuffered(n) \/ FileReadLarge(n) \/ FileReadBatch(n) \/ FileReadExactly(n)
    \/ \E n \in 1..FileLength : FileReadAstray(n) \/ FileWrite(n)
    \/ FileReadAllStart \/ FileReadAllStep
    \/ FileDrain \/ FileFlush \/ FileWriteDirect \/ FileWriteAstray
    \/ \E head \in 0..(FileLength - 1) : FileSeekg(head) \/ FileSeekp(head)

FileSpec == FileInit /\ [][FileNextStep]_fileVars

-----------------------------------------------------------------------------
(* Reads of every kind and size, short ones too, deliver the bytes of the  *)
(* file from the read position on: none is lost or given twice between     *)
(* rdbuf, a batch and the kernel, until a readexactly throws or the        *)
(* program goes astray.  A read of a batch that is short is the exception  *)
(* that the caller cannot see: zeros follow the bytes of the file up to    *)
(* the count that was asked for.                                           *)
FileReadInOrder == fileInOrder

(* Short writes, the part of a write that is kept in wrbuf, and drain: the *)
(* disk together with what wrbuf will put at write_head is what would be   *)
(* there had every write been done at once, and after a drain the disk is, *)
(* as long as wrbuf does not grow, and is not full, with its first byte    *)
(* elsewhere than in its first cell.                                       *)
FileWrittenInOrder ==
    fileDo = <<>> => fileWanted = FilePut(fileDisk, fileWriteHead, fileWrbuf)

(* The buffers of a file, for reading and for writing, do not show.        *)
FileBuffersTransparent == FileReadInOrder /\ FileWrittenInOrder

\* the bytes that follow from
FileFollows(bytes, from) == bytes \in Seq(Nat) /\ \A i \in 1..Len(bytes) : bytes[i] = from + i

(* What was read from the kernel and not delivered is in rdbuf, or in what *)
(* read(-1) has put together, and reaches up to read_head.                 *)
FileReadInv ==
    /\ fileInOrder = TRUE
    /\ fileMode # "thrown" =>
         /\ fileNext \in Nat \ {0} /\ fileHead \in Nat
         /\ FileFollows(fileRdbuf, fileNext - 1)
         /\ fileRun = FileNotRunning => fileNext - 1 + Len(fileRdbuf) = fileHead
         /\ fileRun # FileNotRunning =>
              /\ fileRdbuf = <<>> /\ FileFollows(fileRun, fileNext - 1)
              /\ fileNext - 1 + Len(fileRun) = fileHead
    /\ fileMode = "thrown" => fileRun = FileNotRunning

\* the bytes that are to be put at write_head: what is in wrbuf, and then the write in progress
FileRest == IF fileDo # <<>> /\ fileDo[1] \in {"write", "direct"} THEN fileDo[2] ELSE <<>>
FilePending == fileWrbuf \o FileRest

FileWriteInv ==
    /\ fileDo \in {<<>>, <<"drain">>} \union ({"write", "direct"} \X Seq(Nat))
    /\ fileWrbuf \in Seq(Nat) /\ fileWriteHead \in Nat
    /\ fileDisk \in [1..FileLength -> Nat] /\ fileWanted \in [1..FileLength -> Nat]
    /\ fileDo # <<>> /\ fileDo[1] = "direct" => fileWrbuf = <<>>
    /\ fileWanted = FilePut(fileDisk, fileWriteHead, FilePending)

\* the inductive invariant
FileIInv == FileReadInv /\ FileWriteInv
=============================================================================
