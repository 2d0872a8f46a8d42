------------------------------- MODULE DnsWire -------------------------------
(***************************************************************************)
(* The wire format of network/dns/dns.cpp: a name is parsed and packed     *)
(* into a query, a server answers with the query and records behind it,    *)
(* and the answer is unpacked.                                             *)
(*                                                                         *)
(* A message is a sequence of bytes; positions (current_head) count from   *)
(* 0.  A label is a sequence of bytes, a Domain a sequence of labels.      *)
(* What the server does (names compressed or not) is written from the      *)
(* format, as the code has no packing of records.                          *)
(***************************************************************************)
EXTENDS Integers, SequencesExt

CONSTANTS DnsQueries,   \* [text, ones]: a domain, split at its dots, and the flags that are 1
          DnsOwners,    \* names that records have
          DnsTypes,     \* types of records
          DnsRecords    \* bound: records in an answer

VARIABLES dnsText,      \* what the query is about
          dnsBytes,     \* the message
          dnsNames,     \* names in it: {[name, at]}, for the server's compression
          dnsSent,      \* [flags, sections]: what it stands for
          dnsWhole      \* the query left as it was packed and is a message a server can read

dnsWireVars == <<dnsText, dnsBytes, dnsNames, dnsSent, dnsWhole>>

-----------------------------------------------------------------------------
(* MemoryStream *)

\* behind the message the buffer of a datagram holds zeros
DnsByte(bytes, head) == IF head < Len(bytes) THEN bytes[head + 1] ELSE 0
DnsSlice(bytes, head, end) == [i \in 1..(end - head) |-> DnsByte(bytes, head + i - 1)]

\* numbers of 32 bits are pairs of 16 bits
DnsGet16(bytes, head) == DnsByte(bytes, head) * 256 + DnsByte(bytes, head + 1)
DnsGet32(bytes, head) == <<DnsGet16(bytes, head), DnsGet16(bytes, head + 2)>>
DnsPut16(n) == <<n \div 256, n % 256>>
DnsPut32(n) == DnsPut16(n[1]) \o DnsPut16(n[2])

-----------------------------------------------------------------------------
(* Domain *)

DnsLetters == (65..90) \union (97..122)
DnsDigits == 48..57
DnsHyphen == 45

\* try_parse_label: the bytes up to the first that no label has, and whether it is an error
DnsLabel(bytes) ==
    LET wrong == {i \in DOMAIN bytes : bytes[i] \notin DnsLetters \union DnsDigits \union {DnsHyphen}}
    IN SubSeq(bytes, 1, Min(wrong \union {Len(bytes) + 1}) - 1)
DnsLabelOk(label) == label # <<>> => Head(label) \in DnsLetters /\ Last(label) # DnsHyphen

(* parse: labels up to the first one that is empty, is in error or is not  *)
(* followed by a dot; the empty label; and one more if the text does not   *)
(* end with a dot                                                          *)
DnsParse(text) ==
    LET root == <<<<>>>>
        labels == [i \in DOMAIN text |-> DnsLabel(text[i])]
        stop == Min({i \in DOMAIN text : \/ labels[i] = <<>> \/ ~DnsLabelOk(labels[i])
                                         \/ labels[i] # text[i] \/ i = Len(text)})
    IN IF text \in {root, <<<<32>>>>} THEN root
       ELSE SubSeq(labels, 1, IF DnsLabelOk(labels[stop]) THEN stop ELSE stop - 1)
              \o (IF Last(text) # <<>> THEN root ELSE <<>>)

DnsMaxLabel == 63

\* pack: up to the first empty label, if there is one; longer labels are cut
DnsPackName(name) ==
    LET end == Min({i \in DOMAIN name : name[i] = <<>>} \union {Len(name)})
        Cut(label) == SubSeq(label, 1, Min({Len(label), DnsMaxLabel}))
    IN FlattenSeq([i \in 1..end |-> <<Len(Cut(name[i]))>> \o Cut(name[i])])

\* Faulty variant: the stream goes on after the first byte of a pointer.
RECURSIVE DnsNameEndShort(_, _)
DnsNameEndShort(bytes, head) ==
    LET size == DnsByte(bytes, head) IN
    IF size = 0 \/ size >= 192 THEN head + 1 ELSE DnsNameEndShort(bytes, head + 1 + size)

\* unpack: where the stream goes on, behind the first pointer or the empty label
RECURSIVE DnsNameEnd(_, _)
DnsNameEnd(bytes, head) ==
    LET size == DnsByte(bytes, head) IN
    IF size = 0 THEN head + 1 ELSE IF size >= 192 THEN head + 2 ELSE DnsNameEnd(bytes, head + 1 + size)

\* unpack: the labels, through pointers
RECURSIVE DnsName(_, _)
DnsName(bytes, head) ==
    LET size == DnsByte(bytes, head) IN
    IF size = 0 THEN <<<<>>>>
    ELSE IF size >= 192 THEN DnsName(bytes, (size % 64) * 256 + DnsByte(bytes, head + 1))
    ELSE <<DnsSlice(bytes, head + 1, head + 1 + size)>> \o DnsName(bytes, head + 1 + size)

-----------------------------------------------------------------------------
(* unpack of records *)

\* what the fields of rdata are, for each type
DnsRdata(type) ==
    CASE type \in {2, 3, 4, 5, 7, 8, 9, 12} -> <<"name">>
      [] type = 1 -> <<"u32">>
      [] type = 6 -> <<"name", "name", "u32", "u32", "u32", "u32", "u32">>
      [] type = 13 -> <<"string", "string">>
      [] type = 14 -> <<"name", "name">>
      [] type = 15 -> <<"u16", "name">>
      [] type = 16 -> <<"txt">>
      [] type = 11 -> <<"u32", "u8", "map">>
      [] OTHER -> <<"raw">>      \* NUL, and types that are not known

(* TXT: strings until their bytes, without those of their lengths, are     *)
(* rdlength, or to the end of the message (beyond it there is no telling)  *)
RECURSIVE DnsTxtEnd(_, _, _)
DnsTxtEnd(bytes, head, left) ==
    IF left <= 0 \/ head >= Len(bytes) THEN head
    ELSE DnsTxtEnd(bytes, head + 1 + DnsByte(bytes, head), left - DnsByte(bytes, head))

\* the end of a field of some kind, in rdata of the given length
DnsFieldEnd(bytes, head, kind, rdlength) ==
    CASE kind = "name" -> DnsNameEnd(bytes, head)
      [] kind = "u8" -> head + 1
      [] kind = "u16" -> head + 2
      [] kind = "u32" -> head + 4
      [] kind = "string" -> head + 1 + DnsByte(bytes, head)
      [] kind \in {"raw", "map"} -> head + rdlength    \* WKS: as many bytes once more
      [] kind = "txt" -> DnsTxtEnd(bytes, head, rdlength)

DnsFieldValue(bytes, head, kind, rdlength) ==
    CASE kind = "name" -> DnsName(bytes, head)
      [] kind = "u16" -> DnsGet16(bytes, head)
      [] kind = "u32" -> DnsGet32(bytes, head)
      [] OTHER -> DnsSlice(bytes, head, DnsFieldEnd(bytes, head, kind, rdlength))

\* the fields of these kinds from head on: their values, and the end
DnsFields(bytes, head, kinds, rdlength) ==
    FoldLeft(LAMBDA got, kind :
                 [values |-> Append(got.values, DnsFieldValue(bytes, got.head, kind, rdlength)),
                  head |-> DnsFieldEnd(bytes, got.head, kind, rdlength)],
             [values |-> <<>>, head |-> head], kinds)

\* ResourceRecord::unpack
DnsRecord(bytes, head) ==
    LET Record(front, rdata) ==
            [name |-> front.values[1], type |-> front.values[2], rdata |-> rdata.values, head |-> rdata.head]
        WithRdata(front) ==
            Record(front, DnsFields(bytes, front.head, DnsRdata(front.values[2]), front.values[5]))
    IN WithRdata(DnsFields(bytes, head, <<"name", "u16", "u16", "u32", "u16">>, 0))

\* n records one after the other, as far as the message goes
DnsUnpackRecords(bytes, head, n) ==
    LET With(got, r) ==
            [values |-> Append(got.values, [name |-> r.name, type |-> r.type, rdata |-> r.rdata]),
             head |-> r.head]
    IN FoldLeft(LAMBDA got, i : IF got.head >= Len(bytes) THEN got ELSE With(got, DnsRecord(bytes, got.head)),
                [values |-> <<>>, head |-> head], [i \in 1..n |-> i])

-----------------------------------------------------------------------------
(* MessageHeader, MessageQuestion and Message *)

DnsFlagNames == <<"qr", "opcode", "aa", "tc", "rd", "ra", "z", "rcode">>
DnsFlagBits == [qr |-> 15, opcode |-> 11, aa |-> 10, tc |-> 9, rd |-> 8, ra |-> 7, z |-> 4, rcode |-> 0]
DnsFlagSize == [qr |-> 2, opcode |-> 16, aa |-> 2, tc |-> 2, rd |-> 2, ra |-> 2, z |-> 8, rcode |-> 16]

DnsPackFlags(flags) ==
    FoldLeft(LAMBDA sum, f : sum + flags[f] * 2^DnsFlagBits[f], 0, DnsFlagNames)
DnsUnpackFlags(b2) == [f \in DOMAIN DnsFlagBits |-> (b2 \div 2^DnsFlagBits[f]) % DnsFlagSize[f]]

\* header and question of a message without records (id 0 stands for all)
DnsPackQuery(flags, question) ==
    FlattenSeq(<<DnsPut16(0), DnsPut16(DnsPackFlags(flags)),
                 DnsPut16(1), DnsPut16(0), DnsPut16(0), DnsPut16(0),
                 DnsPackName(question), DnsPut16(1), DnsPut16(1)>>)

DnsUnpack(bytes) ==
    LET With(got, records) == [got EXCEPT !.sections = Append(@, records.values), !.head = records.head]
    IN FoldLeft(LAMBDA got, count : With(got, DnsUnpackRecords(bytes, got.head, DnsGet16(bytes, count))),
                [flags |-> DnsUnpackFlags(DnsGet16(bytes, 2)), question |-> DnsName(bytes, 12),
                 sections |-> <<>>, head |-> DnsNameEnd(bytes, 12) + 4],
                <<6, 8, 10>>)

-----------------------------------------------------------------------------
(* The server: records with names in full, or with pointers to names that  *)
(* are in the message already                                              *)

DnsTail(name, i) == SubSeq(name, i, Len(name))

DnsCompress(at, known, name) ==
    LET cuts == {i \in 1..(Len(name) - 1) : \E k \in known : k.name = DnsTail(name, i)}
        cut == CHOOSE i \in cuts : \A j \in cuts : i <= j
        to == (CHOOSE k \in known : k.name = DnsTail(name, cut)).at
    IN IF cuts = {} THEN DnsPackName(name)
       ELSE FlattenSeq([i \in 1..(cut - 1) |-> <<Len(name[i])>> \o name[i]]) \o <<192 + to \div 256, to % 256>>

\* values for the fields of rdata, among them the given name
DnsValues(type, name) ==
    [i \in DOMAIN DnsRdata(type) |->
        CASE DnsRdata(type)[i] = "name" -> name
          [] DnsRdata(type)[i] = "u8" -> <<6>>
          [] DnsRdata(type)[i] = "u16" -> 256 + i
          [] DnsRdata(type)[i] = "u32" -> <<258, 772 + i>>
          [] DnsRdata(type)[i] = "string" -> <<2, 192, i>>
          [] DnsRdata(type)[i] = "txt" -> <<1, 120, 1, 121>>
          [] OTHER -> <<192, 0, 7>>]

DnsEncodeField(at, known, kind, value) ==
    CASE kind = "name" -> DnsCompress(at, known, value)
      [] kind = "u16" -> DnsPut16(value)
      [] kind = "u32" -> DnsPut32(value)
      [] OTHER -> value

DnsEncode(at, known, kinds, values) ==
    FoldLeft(LAMBDA bytes, i : bytes \o DnsEncodeField(at + Len(bytes), known, kinds[i], values[i]),
             <<>>, [i \in DOMAIN kinds |-> i])

DnsWireInit ==
    /\ dnsText = <<<<>>>> /\ dnsBytes = <<>> /\ dnsNames = {} /\ dnsWhole = TRUE
    /\ dnsSent = [flags |-> [f \in DOMAIN DnsFlagBits |-> 0], sections |-> << <<>>, <<>>, <<>> >>]

(* The two bytes of the length are pushed to the front of a ring of 16     *)
(* cells, doubled as it grew to n bytes.  When they fill its last cells    *)
(* the ring is full with its head not at 0: push_front or make_cont copies *)
(* from the head on, beyond the cells, and what is sent is not the query.  *)
DnsCells(n) == Min({c \in {16 * 2^k : k \in 0..7} : c >= n})
DnsPrefixBreaks(n) == DnsCells(n) - n \in {1, 2}

\* query_dns packs the query; the server sends it back with flags of its own
DnsQuery(query) ==
    LET flags == [f \in DOMAIN DnsFlagBits |-> IF f \in query.ones THEN 1 ELSE 0]
        question == DnsParse(query.text)
        bytes == DnsPackQuery(flags, question)
    IN /\ dnsBytes = <<>>
       /\ dnsText' = query.text
       /\ dnsBytes' = bytes
       /\ dnsWhole' = (Contains(question, <<>>) /\ ~DnsPrefixBreaks(Len(bytes)))
       /\ dnsNames' = {[name |-> DnsName(bytes, 12), at |-> 12]}
       /\ dnsSent' = [dnsSent EXCEPT !.flags = flags]

\* the server appends a record to section s
DnsAppend(s, owner, type, target, compress) ==
    LET known == IF compress THEN dnsNames ELSE {}
        at == Len(dnsBytes)
        values == DnsValues(type, target)
        front == DnsEncode(at, known, <<"name", "u16", "u16", "u32">>, <<owner, type, 1, <<0, 60>>>>)
        rdata == DnsEncode(at + Len(front) + 2, known, DnsRdata(type), values)
        bytes == dnsBytes \o front \o DnsPut16(Len(rdata)) \o rdata
        count == 4 + 2 * s
    IN /\ dnsBytes # <<>> /\ dnsWhole
       /\ \A later \in (s + 1)..3 : dnsSent.sections[later] = <<>>
       /\ Len(FlattenSeq(dnsSent.sections)) < DnsRecords
       /\ dnsBytes' = [bytes EXCEPT ![count + 2] = @ + 1]
       /\ dnsNames' = dnsNames \union {[name |-> owner, at |-> at]}
       /\ dnsSent' = [dnsSent EXCEPT !.sections[s] =
                        Append(@, [name |-> owner, type |-> type, rdata |-> values])]
       /\ UNCHANGED <<dnsText, dnsWhole>>

DnsWireNext ==
    \/ \E query \in DnsQueries : DnsQuery(query)
    \/ \E s \in 1..3, owner, target \in DnsOwners, type \in DnsTypes, compress \in BOOLEAN :
         DnsAppend(s, owner, type, target, compress)

-----------------------------------------------------------------------------
(* The names whose labels are as RFC 1035 wants them, with or without the  *)
(* dot at the end                                                          *)
DnsRightLabel(bytes) ==
    /\ Len(bytes) \in 1..DnsMaxLabel
    /\ bytes[1] \in DnsLetters /\ bytes[Len(bytes)] # DnsHyphen
    /\ ToSet(bytes) \subseteq DnsLetters \union DnsDigits \union {DnsHyphen}
DnsRooted(text) == IF Last(text) = <<>> THEN text ELSE Append(text, <<>>)
DnsRightName(text) == \A i \in DOMAIN text : DnsRightLabel(text[i]) \/ (i = Len(text) /\ text[i] = <<>>)

(* From the text of a name to the answer and back: for names whose labels  *)
(* are right, a server reads the name that was given in the question,      *)
(* unless the bytes of the length break the ring they are pushed to; and   *)
(* the flags, the sections and each record with its names, compressed or   *)
(* not, are unpacked as they were sent, to the last byte.  Not for TXT and *)
(* WKS records, of which unpack reads more than rdlength bytes, and not    *)
(* for what parse leaves of other names: they are cut, or have no end.     *)
DnsUnpackedAsSent ==
    LET records == FlattenSeq(dnsSent.sections)
        AsSent(got) ==
            /\ DnsRightName(dnsText) => got.question = DnsRooted(dnsText)
            /\ got.flags = dnsSent.flags
            /\ (\A i \in DOMAIN records : records[i].type \notin {11, 16}) =>
                 got.sections = dnsSent.sections /\ got.head = Len(dnsBytes)
    IN dnsBytes # <<>> /\ dnsWhole => AsSent(DnsUnpack(dnsBytes))
=============================================================================
