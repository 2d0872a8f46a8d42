-------------------------------- MODULE Json --------------------------------
(***************************************************************************)
(* utils/json.cpp: a document is built, written (dump, format) and parsed, *)
(* the text perhaps cut short on the way, or from somewhere else.          *)
(*                                                                         *)
(* A text is a sequence of bytes.  A value is a record with one field that *)
(* says what it is: null, bool, number (an integer of at most two digits), *)
(* infinite (or not a number), string, items (an array) or members (an     *)
(* object: a function on its keys).                                        *)
(***************************************************************************)
EXTENDS Integers, SequencesExt

CONSTANTS JsonLeaves,    \* values without parts
          JsonKeys,      \* keys of members
          JsonTexts,     \* texts from somewhere else
          JsonDepth,     \* bound: values within values
          JsonSize       \* bound: parts of a value

VARIABLES jsonDoc,       \* the document
          jsonText,      \* a text
          jsonFrom,      \* what the text is: "nothing", "written", "cut" or "foreign"
          jsonResult     \* what parse made of it: [ok, value, at]

jsonVars == <<jsonDoc, jsonText, jsonFrom, jsonResult>>

JsonNull == [null |-> TRUE]
Is(value, what) == what \in DOMAIN value
JsonFail == [ok |-> FALSE, value |-> JsonNull, at |-> 0]
JsonNotYet == [ok |-> FALSE, value |-> JsonNull, at |-> -1]
JsonOk(value, at) == [ok |-> TRUE, value |-> value, at |-> at]

-----------------------------------------------------------------------------
(* dump and format *)

\* escape_string: the letter behind the backslash
JsonLetters == (34 :> 34) @@ (92 :> 92) @@ (8 :> 98) @@ (12 :> 102) @@ (10 :> 110) @@ (13 :> 114) @@ (9 :> 116)
JsonHexDigit(n) == IF n < 10 THEN 48 + n ELSE 87 + n

\* Faulty variant: a backslash is written as it is.
JsonEscapePlain(c) ==
    CASE c \in DOMAIN JsonLetters \ {92} -> <<92, JsonLetters[c]>>
      [] c \in (0..31) \ DOMAIN JsonLetters -> <<92, 117, 48, 48, JsonHexDigit(c \div 16), JsonHexDigit(c % 16)>>
      [] OTHER -> <<c>>

JsonEscape(c) ==
    CASE c \in DOMAIN JsonLetters -> <<92, JsonLetters[c]>>
      [] c \in (0..31) \ DOMAIN JsonLetters -> <<92, 117, 48, 48, JsonHexDigit(c \div 16), JsonHexDigit(c % 16)>>
      [] OTHER -> <<c>>

JsonQuoted(string) == <<34>> \o FlattenSeq([i \in DOMAIN string |-> JsonEscape(string[i])]) \o <<34>>

\* std::format of a number
JsonDigits(n) == IF n < 0 THEN <<45, 48 - n>> ELSE IF n > 9 THEN <<48 + n \div 10, 48 + (n % 10)>> ELSE <<48 + n>>

JsonLiteral(value) ==
    CASE Is(value, "string") -> JsonQuoted(value.string)
      [] Is(value, "number") -> JsonDigits(value.number)
      [] Is(value, "bool") -> IF value.bool THEN <<116, 114, 117, 101>> ELSE <<102, 97, 108, 115, 101>>
      [] Is(value, "null") \/ Is(value, "infinite") -> <<110, 117, 108, 108>>

\* the order of std::map
JsonBefore(s, t) ==
    \/ IsStrictPrefix(s, t)
    \/ \E i \in DOMAIN s \intersect DOMAIN t : s[i] < t[i] /\ SubSeq(s, 1, i - 1) = SubSeq(t, 1, i - 1)

\* between open and close: the parts, each on a line of its own when indentation is not negative
JsonBracket(open, parts, close, indentation, cur) ==
    LET Break(n) == IF indentation < 0 THEN <<>> ELSE <<10>> \o [i \in 1..n |-> 32]
        inner == cur + indentation
    IN IF parts = <<>> THEN <<open, close>>
       ELSE <<open>> \o FlattenSeq([i \in DOMAIN parts |->
                            (IF i = 1 THEN <<>> ELSE <<44>>) \o Break(inner) \o parts[i]])
                     \o Break(cur) \o <<close>>

RECURSIVE JsonFormat(_, _, _)
JsonFormat(value, indentation, cur) ==
    LET Inner(v) == JsonFormat(v, indentation, cur + indentation)
        colon == IF indentation < 0 THEN <<58>> ELSE <<58, 32>>
        Member(k) == JsonQuoted(k) \o colon \o Inner(value.members[k])
    IN CASE Is(value, "items") ->
              JsonBracket(91, [i \in DOMAIN value.items |-> Inner(value.items[i])], 93, indentation, cur)
         [] Is(value, "members") ->
              LET keys == SetToSortSeq(DOMAIN value.members, JsonBefore) IN
              JsonBracket(123, [i \in DOMAIN keys |-> Member(keys[i])], 125, indentation, cur)
         [] OTHER -> JsonLiteral(value)

-----------------------------------------------------------------------------
(* json_parser: every operator is given where it reads and returns where   *)
(* it stopped.                                                             *)

\* TRY
JsonTry(r, Then(_, _)) == IF r.ok THEN Then(r.value, r.at) ELSE JsonFail

\* peek; behind the text there is no byte
JsonPeek(text, at) == IF at <= Len(text) THEN text[at] ELSE -1

JsonMatch(text, at, bytes) ==
    IF \A i \in DOMAIN bytes : JsonPeek(text, at + i - 1) = bytes[i] THEN JsonOk(JsonNull, at + Len(bytes)) ELSE JsonFail

\* the first position from at on that holds none of these bytes
JsonPast(text, at, bytes) ==
    CHOOSE i \in at..(Len(text) + 1) : /\ JsonPeek(text, i) \notin bytes
                                       /\ \A j \in at..(i - 1) : text[j] \in bytes

JsonWs(text, at) == IF at > Len(text) THEN at ELSE JsonPast(text, at, {32, 10, 13, 9})

JsonEscaped == (34 :> 34) @@ (92 :> 92) @@ (47 :> 47) @@ (98 :> 8) @@ (102 :> 12) @@ (110 :> 10) @@ (114 :> 13) @@ (116 :> 9)

JsonHex(c) == CASE c \in 48..57 -> c - 48 [] c \in 97..102 -> c - 87 [] c \in 65..70 -> c - 55 [] OTHER -> -1

\* the bytes of a code point (of at most 16 bits)
JsonUtf8(cp) ==
    IF cp <= 127 THEN <<cp>>
    ELSE IF cp <= 2047 THEN <<192 + cp \div 64, 128 + (cp % 64)>>
    ELSE <<224 + cp \div 4096, 128 + ((cp \div 64) % 64), 128 + (cp % 64)>>

\* \u and four digits, which begin at the given position
JsonUnicode(text, at) ==
    LET hex == [i \in 1..4 |-> JsonHex(JsonPeek(text, at + i - 1))] IN
    IF \E i \in 1..4 : hex[i] = -1 THEN JsonFail
    ELSE JsonOk(JsonUtf8(FoldLeft(LAMBDA cp, h : cp * 16 + h, 0, hex)), at + 4)

\* one byte of a string, or an escape
JsonChar(text, at) ==
    LET c == JsonPeek(text, at + 1) IN
    CASE text[at] # 92 -> JsonOk(<<text[at]>>, at + 1)
      [] text[at] = 92 /\ c \in DOMAIN JsonEscaped -> JsonOk(<<JsonEscaped[c]>>, at + 2)
      [] text[at] = 92 /\ c = 117 -> JsonUnicode(text, at + 2)
      [] text[at] = 92 /\ c \notin DOMAIN JsonEscaped \union {117} -> JsonFail

RECURSIVE JsonChars(_, _, _)
JsonChars(text, at, string) ==
    CASE JsonPeek(text, at) = -1 -> JsonFail
      [] JsonPeek(text, at) = 34 -> JsonOk([string |-> string], at + 1)
      [] OTHER -> JsonTry(JsonChar(text, at), LAMBDA bytes, next : JsonChars(text, next, string \o bytes))

JsonString(text, at) == JsonTry(JsonMatch(text, at, <<34>>), LAMBDA n, next : JsonChars(text, next, <<>>))

\* from_chars, for integers, and the look at a leading zero
JsonNumber(text, at) ==
    LET digits == 48..57
        first == IF text[at] = 45 THEN at + 1 ELSE at
        last == JsonPast(text, first, digits) - 1
        size == FoldLeft(LAMBDA n, c : n * 10 + c - 48, 0, SubSeq(text, first, last))
    IN IF first > Len(text) \/ last < first \/ (text[at] = 48 /\ JsonPeek(text, at + 1) \in digits) THEN JsonFail
       ELSE JsonOk([number |-> IF first = at THEN size ELSE -size], last + 1)

RECURSIVE JsonElement(_, _), JsonMembers(_, _, _), JsonItems(_, _, _)

\* the loop of object; member is part of it
JsonMembers(text, at, members) ==
    LET Value(key, value, next) ==
            LET all == [members |-> (key :> value) @@ members] IN
            IF JsonPeek(text, next) = 125 THEN JsonOk(all, next + 1)
            ELSE JsonTry(JsonMatch(text, next, <<44>>), LAMBDA n, after : JsonMembers(text, after, all.members))
        Key(id, next) ==
            JsonTry(JsonMatch(text, JsonWs(text, next), <<58>>),
                    LAMBDA n, after : JsonTry(JsonElement(text, after),
                                              LAMBDA value, end : Value(id.string, value, JsonWs(text, end))))
    IN JsonTry(JsonString(text, JsonWs(text, at)), Key)

\* the loop of array
JsonItems(text, at, items) ==
    LET Value(value, next) ==
            IF JsonPeek(text, next) = 93 THEN JsonOk([items |-> Append(items, value)], next + 1)
            ELSE JsonTry(JsonMatch(text, next, <<44>>),
                         LAMBDA n, after : JsonItems(text, after, Append(items, value)))
    IN JsonTry(JsonElement(text, at), LAMBDA value, end : Value(value, JsonWs(text, end)))

JsonObject(text, at) ==
    LET first == JsonWs(text, at + 1) IN
    IF JsonPeek(text, first) = 125 THEN JsonOk([members |-> <<>>], first + 1) ELSE JsonMembers(text, first, <<>>)

JsonArray(text, at) ==
    LET first == JsonWs(text, at + 1) IN
    IF JsonPeek(text, first) = 93 THEN JsonOk([items |-> <<>>], first + 1) ELSE JsonItems(text, first, <<>>)

JsonWord(text, at, word, value) == JsonTry(JsonMatch(text, at, word), LAMBDA n, next : JsonOk(value, next))

JsonElement(text, start) ==
    LET at == JsonWs(text, start)
        c == JsonPeek(text, at)
        found == CASE c = 123 -> JsonObject(text, at)
                   [] c = 91 -> JsonArray(text, at)
                   [] c = 34 -> JsonString(text, at)
                   [] c \in {45} \union (48..57) -> JsonNumber(text, at)
                   [] c = 116 -> JsonWord(text, at, <<116, 114, 117, 101>>, [bool |-> TRUE])
                   [] c = 102 -> JsonWord(text, at, <<102, 97, 108, 115, 101>>, [bool |-> FALSE])
                   [] c = 110 -> JsonWord(text, at, <<110, 117, 108, 108>>, JsonNull)
                   [] OTHER -> JsonFail
    IN JsonTry(found, LAMBDA value, next : JsonOk(value, JsonWs(text, next)))

-----------------------------------------------------------------------------
(* A program builds a document, writes it and parses a text. *)

RECURSIVE JsonDepthOf(_)
JsonDepthOf(value) ==
    LET Deepest(parts) == IF parts = {} THEN 1 ELSE 1 + Max({JsonDepthOf(v) : v \in parts}) IN
    CASE Is(value, "items") -> Deepest({value.items[i] : i \in DOMAIN value.items})
      [] Is(value, "members") -> Deepest({value.members[k] : k \in DOMAIN value.members})
      [] OTHER -> 0

JsonInit == jsonDoc = JsonNull /\ jsonText = <<>> /\ jsonFrom = "nothing" /\ jsonResult = JsonNotYet

JsonBuild(value) ==
    /\ jsonFrom = "nothing"
    /\ jsonDoc' = value
    /\ UNCHANGED <<jsonText, jsonFrom, jsonResult>>

\* the constructors
JsonLeaf(value) == jsonDoc = JsonNull /\ JsonBuild(value)
JsonInArray == JsonDepthOf(jsonDoc) < JsonDepth /\ JsonBuild([items |-> <<jsonDoc>>])
JsonInObject(key) == JsonDepthOf(jsonDoc) < JsonDepth /\ JsonBuild([members |-> key :> jsonDoc])

\* operator[] and push_back of the array
JsonPush(value) ==
    /\ Is(jsonDoc, "items") /\ Len(jsonDoc.items) < JsonSize
    /\ JsonBuild([items |-> Append(jsonDoc.items, value)])
JsonSet(key, value) ==
    /\ Is(jsonDoc, "members") /\ Cardinality(DOMAIN jsonDoc.members \union {key}) <= JsonSize
    /\ JsonBuild([members |-> (key :> value) @@ jsonDoc.members])

JsonTextIs(from, text) == jsonFrom' = from /\ jsonText' = text /\ UNCHANGED <<jsonDoc, jsonResult>>

\* dump for -1, format otherwise
JsonWrite(indentation) == jsonFrom = "nothing" /\ JsonTextIs("written", JsonFormat(jsonDoc, indentation, 0))
JsonReceive(text) == jsonFrom = "nothing" /\ jsonDoc = JsonNull /\ JsonTextIs("foreign", text)
JsonCut(n) == jsonFrom = "written" /\ jsonResult = JsonNotYet /\ JsonTextIs("cut", SubSeq(jsonText, 1, n))

\* json::parse; a foreign value is then the document
JsonParse ==
    LET r == JsonElement(jsonText, 1) IN
    /\ jsonFrom # "nothing" /\ jsonResult = JsonNotYet
    /\ IF jsonFrom = "foreign" /\ r.ok
       THEN jsonDoc' = r.value /\ jsonText' = <<>> /\ jsonFrom' = "nothing" /\ UNCHANGED jsonResult
       ELSE jsonResult' = r /\ UNCHANGED <<jsonDoc, jsonText, jsonFrom>>

JsonNext ==
    \/ \E value \in JsonLeaves : JsonLeaf(value) \/ JsonPush(value) \/ \E key \in JsonKeys : JsonSet(key, value)
    \/ JsonInArray
    \/ \E key \in JsonKeys : JsonInObject(key)
    \/ \E indentation \in {-1, 2} : JsonWrite(indentation)
    \/ \E text \in JsonTexts : JsonReceive(text)
    \/ \E n \in 0..(Len(jsonText) - 1) : JsonCut(n)
    \/ JsonParse

-----------------------------------------------------------------------------
\* a number that is not finite is written as null
RECURSIVE JsonFinite(_)
JsonFinite(value) ==
    CASE Is(value, "items") -> [items |-> [i \in DOMAIN value.items |-> JsonFinite(value.items[i])]]
      [] Is(value, "members") -> [members |-> [k \in DOMAIN value.members |-> JsonFinite(value.members[k])]]
      [] Is(value, "infinite") -> JsonNull
      [] OTHER -> value

(* What is written, compact or indented, is read back as the same value,   *)
(* also when it was read from another text before: with every quote,       *)
(* backslash, control character and byte of UTF-8 in its strings and keys, *)
(* but null for numbers that are not finite.  And a text of more than a    *)
(* number that was cut short anywhere is refused, and not read as a        *)
(* shorter document (format_internal, escape_string, json_parser).         *)
JsonReadAsWritten ==
    jsonResult # JsonNotYet =>
        /\ jsonFrom = "written" =>
             jsonResult = JsonOk(JsonFinite(jsonDoc), Len(jsonText) + 1)
        /\ jsonFrom = "cut" /\ ~Is(jsonDoc, "number") => ~jsonResult.ok
=============================================================================
