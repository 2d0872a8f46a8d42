------------------------------ MODULE Streams ------------------------------
(***************************************************************************)
(* collections/streams.hpp: the two buffers, MemoryBuffer and FileBuffer,  *)
(* and the two readers, StreamReader and CachedReader.  A program makes    *)
(* the same calls on a reader of either kind, each over a buffer of its    *)
(* own with the same contents.                                             *)
(*                                                                         *)
(* Operators that a call is made of take the state of a buffer or reader   *)
(* and give the state after it (st) and what is returned (res): a value,   *)
(* which is a sequence or a number, or an error.                           *)
(***************************************************************************)
EXTENDS Integers, SequencesExt

CONSTANTS
  Bytes,         \* the bytes that occur
  Zero,          \* the byte 0
  Delimiter,     \* the argument of read_until
  ChunkSizes,    \* the sizes of CachedReader's cache
  MaxSize,       \* the most bytes in a buffer
  WordSize       \* size_t has the values 0 .. WordSize - 1

ASSUME BytesAssumption == {Zero, Delimiter} \subseteq Bytes
ASSUME ChunkAssumption == ChunkSizes \subseteq Nat \ {0}
ASSUME SizeAssumption == MaxSize \in Nat /\ WordSize \in Nat /\ 2 * MaxSize < WordSize

VARIABLES
  kind,     \* which buffer: "memory" or "file"
  chunk,    \* cache_chunk_size_
  content,  \* what is in the vector or the file
  stream,   \* StreamReader: its buffer, with pos (pos_) and off, where file_ reads next
  cached,   \* CachedReader: pos, cache, start (cache_start_pos_) and its buffer src
  last      \* the last call: its name, argument and results

vars == <<kind, chunk, content, stream, cached, last>>

Size == Len(content)
Counts == 0 .. MaxSize + 1
SmallSeq(S, n) == UNION {[1 .. k -> S] : k \in 0 .. n}

Ok(v) == [error |-> "NoError", value |-> v]
Failed(e) == [error |-> e, value |-> << >>]
Return(st, res) == [st |-> st, res |-> res]

NoCall == [op |-> "none", arg |-> 0, stream |-> Ok(<< >>), cached |-> Ok(<< >>)]

Init ==
  /\ kind \in {"memory", "file"}
  /\ chunk \in ChunkSizes
  /\ content \in SmallSeq(Bytes, MaxSize)
  /\ stream = [pos |-> 0, off |-> 0]
  /\ cached = [pos |-> 0, start |-> 0, cache |-> << >>, src |-> [pos |-> 0, off |-> 0]]
  /\ last = NoCall

Least(m, n) == IF m < n THEN m ELSE n

-----------------------------------------------------------------------------
(***************************************************************************)
(* MemoryBuffer                                                            *)
(***************************************************************************)
MemoryRead(b, n) ==
  LET k == Least(n, Size - b.pos) IN
  IF n = 0 THEN Return(b, Failed("GenericError"))
  ELSE Return([b EXCEPT !.pos = @ + k], Ok(SubSeq(content, b.pos + 1, b.pos + k)))

MemoryPeek(b, n) ==
  IF n = 0 THEN Return(b, Failed("GenericError"))
  ELSE Return(b, Ok(SubSeq(content, b.pos + 1, b.pos + Least(n, Size - b.pos))))

MemorySeek(b, pos) ==
  IF pos > Size THEN Return(b, Failed("InvalidPositionError"))
  ELSE Return([b EXCEPT !.pos = pos], Ok(<< >>))

MemorySkip(b, count) ==
  LET new == (b.pos + count) % WordSize IN
  IF new > Size THEN Return(b, Failed("InvalidPositionError"))
  ELSE Return([b EXCEPT !.pos = new], Ok(<< >>))

(***************************************************************************)
(* FileBuffer.  No call reads past the end of the file, and so the stream  *)
(* has no error flag set, unless the file gets shorter.                    *)
(***************************************************************************)
\* file_.read: at most n bytes from where the file is
FromFile(b, n) == SubSeq(content, b.off + 1, Least(b.off + n, Size))

FileRead(b, n) ==
  LET got == FromFile(b, Least(n, Size - b.pos)) IN
  IF n = 0 THEN Return(b, Failed("GenericError"))
  ELSE Return([b EXCEPT !.pos = @ + Len(got), !.off = @ + Len(got)], Ok(got))

\* Faulty variant: the position of the file is not restored.
FilePeekMoves(b, n) ==
  LET got == FromFile(b, Least(n, Size - b.pos)) IN
  IF n = 0 THEN Return(b, Failed("GenericError"))
  ELSE Return([b EXCEPT !.off = @ + Len(got)], Ok(got))

FilePeek(b, n) ==
  LET got == FromFile(b, Least(n, Size - b.pos)) IN
  IF n = 0 THEN Return(b, Failed("GenericError"))
  ELSE Return([b EXCEPT !.off = b.pos], Ok(got))

FileSeek(b, pos) ==
  IF pos > Size THEN Return(b, Failed("InvalidPositionError"))
  ELSE Return([pos |-> pos, off |-> pos], Ok(<< >>))

\* seekg takes count as a signed number, relative to where the file is
FileSkip(b, count) ==
  LET new == (b.pos + count) % WordSize
      signed == IF 2 * count >= WordSize THEN count - WordSize ELSE count
  IN
  IF new > Size THEN Return(b, Failed("InvalidPositionError"))
  ELSE IF b.off + signed < 0 THEN Return(b, Failed("GenericError"))
  ELSE Return([pos |-> new, off |-> b.off + signed], Ok(<< >>))

(***************************************************************************)
(* Buffer: the virtual functions                                           *)
(***************************************************************************)
read_raw_bytes(b, n) == IF kind = "file" THEN FileRead(b, n) ELSE MemoryRead(b, n)
peek_raw_bytes(b, n) == IF kind = "file" THEN FilePeek(b, n) ELSE MemoryPeek(b, n)
buffer_seek(b, pos) == IF kind = "file" THEN FileSeek(b, pos) ELSE MemorySeek(b, pos)
buffer_skip(b, count) == IF kind = "file" THEN FileSkip(b, count) ELSE MemorySkip(b, count)

-----------------------------------------------------------------------------
(***************************************************************************)
(* StreamReader, whose state is that of its buffer                         *)
(***************************************************************************)
\* read_byte, as read_bytes(1); zero bytes are the end of the data
StreamReadBytes(b, count) ==
  LET r == read_raw_bytes(b, count) IN
  IF count = 0 THEN Return(b, Ok(<< >>))
  ELSE IF r.res = Ok(<< >>) THEN Return(r.st, Failed("EndOfData"))
  ELSE r

(***************************************************************************)
(* A loop: the state of the reader, the bytes it got so far and, when it   *)
(* has ended, the result.  Every round but the last one passes a byte of   *)
(* the source or of the cache, so that Rounds of them are enough.          *)
(***************************************************************************)
Going == [error |-> "Going", value |-> << >>]
Loop(st, got, res) == [st |-> st, got |-> got, res |-> res]
Rounds == Size + chunk + 1

\* the loop of read_until
StreamUntilRound(x, delimiter, consume) ==
  LET r == StreamReadBytes(x.st, 1)
      s == buffer_seek(r.st, r.st.pos - 1)
  IN
  IF x.res.error # "Going" THEN x
  ELSE IF r.res.error = "EndOfData" /\ x.got # << >> THEN Loop(r.st, x.got, Ok(x.got))
  ELSE IF r.res.error # "NoError" THEN Loop(r.st, x.got, r.res)
  ELSE IF r.res.value # <<delimiter>> THEN Loop(r.st, x.got \o r.res.value, Going)
  ELSE IF consume THEN Loop(r.st, x.got, Ok(x.got))
  ELSE Loop(s.st, x.got, IF s.res.error = "NoError" THEN Ok(x.got) ELSE s.res)

StreamUntilRounds(b, delimiter, consume) ==
  LET round[k \in 0 .. Rounds] == IF k = 0 THEN Loop(b, << >>, Going)
                                  ELSE StreamUntilRound(round[k - 1], delimiter, consume)
  IN round
StreamUntil(b, delimiter, consume) ==
  LET end == StreamUntilRounds(b, delimiter, consume)[Rounds] IN Return(end.st, end.res)

StreamReadAll(b) ==
  IF Size - b.pos = 0 THEN Return(b, Ok(<< >>))
  ELSE StreamReadBytes(b, Size - b.pos)

StreamPeekByte(b) ==
  LET r == peek_raw_bytes(b, 1) IN
  IF r.res = Ok(<< >>) THEN Return(r.st, Failed("EndOfData")) ELSE r

StreamPeekBytes(b, count) ==
  IF count = 0 THEN Return(b, Ok(<< >>)) ELSE peek_raw_bytes(b, count)

StreamRemaining(b) ==
  IF b.pos > Size THEN Failed("InvalidPositionError") ELSE Ok(Size - b.pos)

-----------------------------------------------------------------------------
(***************************************************************************)
(* CachedReader                                                            *)
(***************************************************************************)
\* std::vector::resize
Resized(s, n) == [i \in 1 .. n |-> IF i <= Len(s) THEN s[i] ELSE Zero]

InCache(c) == c.pos >= c.start /\ c.pos < c.start + Len(c.cache)

\* when nothing is read the resized cache stays, with its old start
update_cache(c) ==
  LET s == buffer_seek(c.src, c.pos)
      r == read_raw_bytes(s.st, chunk)
      resized == [c EXCEPT !.src = r.st, !.cache = Resized(@, chunk)]
  IN
  IF InCache(c) THEN Return(c, Ok(<< >>))
  ELSE IF s.res.error # "NoError" THEN Return(c, s.res)
  ELSE IF r.res.error # "NoError" THEN Return(resized, r.res)
  ELSE IF r.res.value = << >> THEN Return(resized, Failed("EndOfData"))
  ELSE Return([resized EXCEPT !.cache = r.res.value, !.start = c.pos], Ok(<< >>))

CachedReadByte(c) ==
  LET u == update_cache(c)
      offset == u.st.pos - u.st.start
  IN
  IF u.res.error # "NoError" THEN u
  ELSE IF offset >= Len(u.st.cache) THEN Return(u.st, Failed("EndOfData"))
  ELSE Return([u.st EXCEPT !.pos = @ + 1], Ok(<<u.st.cache[offset + 1]>>))

\* the loop of read_bytes; u is what update_cache gives
CachedReadStep(x, u, count) ==
  LET left == count - Len(x.got)
      offset == u.st.pos - u.st.start
      n == Least(Len(u.st.cache) - offset, left)
      end == IF x.got # << >> THEN Ok(x.got) ELSE Failed("EndOfData")
  IN
  IF x.res.error # "Going" THEN x
  ELSE IF left = 0 THEN Loop(x.st, x.got, Ok(x.got))
  ELSE IF u.res.error = "EndOfData" THEN Loop(u.st, x.got, end)
  ELSE IF u.res.error # "NoError" THEN Loop(u.st, x.got, u.res)
  ELSE IF n = 0 THEN Loop(u.st, x.got, end)
  ELSE Loop([u.st EXCEPT !.pos = @ + n], x.got \o SubSeq(u.st.cache, offset + 1, offset + n), Going)
CachedReadRound(x, count) == CachedReadStep(x, update_cache(x.st), count)

CachedReadRounds(c, count) ==
  LET round[k \in 0 .. Rounds] == IF k = 0 THEN Loop(c, << >>, Going) ELSE CachedReadRound(round[k - 1], count)
  IN round
CachedReadBytes(c, count) ==
  LET end == CachedReadRounds(c, count)[Rounds] IN Return(end.st, end.res)

\* the loop of read_until; r is what read_byte gives
CachedUntilStep(x, r, delimiter, consume) ==
  IF x.res.error # "Going" THEN x
  ELSE IF r.res.error = "EndOfData" /\ x.got # << >> THEN Loop(r.st, x.got, Ok(x.got))
  ELSE IF r.res.error # "NoError" THEN Loop(r.st, x.got, r.res)
  ELSE IF r.res.value # <<delimiter>> THEN Loop(r.st, x.got \o r.res.value, Going)
  ELSE Loop(IF consume THEN r.st ELSE [r.st EXCEPT !.pos = @ - 1], x.got, Ok(x.got))
CachedUntilRound(x, delimiter, consume) == CachedUntilStep(x, CachedReadByte(x.st), delimiter, consume)

CachedUntilRounds(c, delimiter, consume) ==
  LET round[k \in 0 .. Rounds] == IF k = 0 THEN Loop(c, << >>, Going)
                                  ELSE CachedUntilRound(round[k - 1], delimiter, consume)
  IN round
CachedUntil(c, delimiter, consume) ==
  LET end == CachedUntilRounds(c, delimiter, consume)[Rounds] IN Return(end.st, end.res)

CachedSeek(c, pos) ==
  IF pos > Size THEN Return(c, Failed("InvalidPositionError"))
  ELSE Return([c EXCEPT !.pos = pos], Ok(<< >>))

CachedSkip(c, count) ==
  LET new == (c.pos + count) % WordSize IN
  IF new > Size THEN Return(c, Failed("InvalidPositionError"))
  ELSE Return([c EXCEPT !.pos = new], Ok(<< >>))

CachedRemaining(c) == Ok((Size - c.pos) % WordSize)

\* from the beginning, wherever the reader is
CachedReadAll(c) ==
  LET s == CachedSeek(c, 0) IN
  IF s.res.error # "NoError" THEN s
  ELSE CachedReadBytes(s.st, CachedRemaining(s.st).value)

Back(c, r) == Return([r.st EXCEPT !.pos = c.pos], r.res)
CachedPeekByte(c) == Back(c, CachedReadByte(c))
CachedPeekBytes(c, count) == Back(c, CachedReadBytes(c, count))

-----------------------------------------------------------------------------
(***************************************************************************)
(* The calls                                                               *)
(***************************************************************************)
Call(op, arg, s, c) ==
  /\ stream' = s.st
  /\ cached' = c.st
  /\ last' = [op |-> op, arg |-> arg, stream |-> s.res, cached |-> c.res]
  /\ UNCHANGED <<kind, chunk, content>>

read_byte == Call("read_byte", 1, StreamReadBytes(stream, 1), CachedReadByte(cached))

read_bytes(n) ==
  Call("read_bytes", n, StreamReadBytes(stream, n), CachedReadBytes(cached, n))

read_until(consume) ==
  Call("read_until", consume, StreamUntil(stream, Delimiter, consume),
       CachedUntil(cached, Delimiter, consume))

\* read_string: up to a zero byte
read_string ==
  Call("read_string", 0, StreamUntil(stream, Zero, TRUE),
       CachedUntil(cached, Zero, TRUE))

read_all == Call("read_all", 0, StreamReadAll(stream), CachedReadAll(cached))

seek(pos) == Call("seek", pos, buffer_seek(stream, pos), CachedSeek(cached, pos))
skip(n) == Call("skip", n, buffer_skip(stream, n), CachedSkip(cached, n))

remaining ==
  Call("remaining", 0, Return(stream, StreamRemaining(stream)),
       Return(cached, CachedRemaining(cached)))

peek_byte == Call("peek_byte", 1, StreamPeekByte(stream), CachedPeekByte(cached))

peek_bytes(n) ==
  Call("peek_bytes", n, StreamPeekBytes(stream, n), CachedPeekBytes(cached, n))

\* another program appends to the file
Append_(b) ==
  /\ kind = "file"
  /\ Size < MaxSize
  /\ content' = Append(content, b)
  /\ last' = NoCall
  /\ UNCHANGED <<kind, chunk, stream, cached>>

Next ==
  \/ read_byte \/ read_string \/ read_all \/ remaining \/ peek_byte
  \/ \E n \in Counts : read_bytes(n) \/ seek(n) \/ peek_bytes(n)
  \/ \E n \in Counts \union {WordSize - 1} : skip(n)
  \/ \E consume \in BOOLEAN : read_until(consume)
  \/ \E b \in Bytes : Append_(b)

Spec == Init /\ [][Next]_vars

-----------------------------------------------------------------------------
(***************************************************************************)
(* Properties                                                              *)
(***************************************************************************)

(***************************************************************************)
(* What StreamReader returns is what lies between its positions before and *)
(* after the call: no byte is skipped, repeated or made up, whatever was   *)
(* peeked, sought or skipped before, in memory or in a file.  read_until   *)
(* and read_string stop at the first delimiter, the end of the data is an  *)
(* error only if nothing is left, and a call that fails leaves the         *)
(* position alone.                                                         *)
(***************************************************************************)
Consumes(op, arg, res, from, to) ==
  LET got == res.value
      passed == SubSeq(content, from + 1, to)
      ahead(n) == SubSeq(content, from + 1, Least(from + n, Size))
      stop == IF op = "read_string" THEN Zero ELSE Delimiter
  IN
  /\ res.error # "NoError" => to = from
  /\ res.error = "EndOfData" => from = Size
  /\ res.error = "NoError" =>
       /\ op \in {"read_byte", "read_bytes", "read_all"} => got = passed
       /\ op \in {"read_byte", "read_bytes", "peek_byte", "peek_bytes"} => got = ahead(arg)
       /\ op \in {"peek_byte", "peek_bytes"} => to = from
       /\ op = "read_all" => to = Size
       /\ op \in {"read_until", "read_string"} =>
            /\ ~Contains(got, stop)
            /\ IF op = "read_until" /\ arg = FALSE
                 THEN passed = got /\ (to = Size \/ content[to + 1] = stop)
                 ELSE passed = Append(got, stop) \/ (passed = got /\ to = Size)
ReturnsWhatItConsumes ==
  [][Consumes(last'.op, last'.arg, last'.stream, stream.pos, stream'.pos)]_vars

\* the cache holds bytes of the source
Sound(c) ==
  LET end == c.start + Len(c.cache) IN
  end <= Size /\ c.cache = SubSeq(content, c.start + 1, end)
CacheSound == Sound(cached)

(***************************************************************************)
(* CachedReader is a StreamReader with a cache: as long as its cache holds *)
(* bytes of the source, every call on it returns what StreamReader returns *)
(* and leaves it at the same position; and the cache holds bytes of the    *)
(* source until update_cache was called at the end of the data (after that *)
(* it has bytes that the source never had).  Two calls differ by intent or *)
(* by their errors: read_all starts from 0, and peek_bytes at the end      *)
(* returns EndOfData where StreamReader returns nothing.                   *)
(***************************************************************************)
Agrees(op, res, other) ==
  IF op = "read_all" THEN other = Ok(content)
  ELSE other = res \/ (op = "peek_bytes" /\ res = Ok(<< >>) /\ other = Failed("EndOfData"))
CachedMatchesStream ==
  [][ CacheSound =>
        /\ cached.pos = stream.pos =>
             cached'.pos = stream'.pos /\ Agrees(last'.op, last'.stream, last'.cached)
        /\ CacheSound' \/ cached'.src.pos = Size
    ]_vars

(***************************************************************************)
(* Both readers, given the same calls on the same data, are faithful to    *)
(* the data: the one reads what it passes, the other agrees with it.       *)
(***************************************************************************)
ReadersFaithful == ReturnsWhatItConsumes /\ CachedMatchesStream
=============================================================================
