--------------------------- MODULE MCInputOutput ---------------------------
(***************************************************************************)
(* One instance for TLC of the streams, of the components that deal with   *)
(* files, sockets and names, and of the tasks that wait for them.  They    *)
(* share no state: a behaviour is one of one of them, the part chosen at   *)
(* the start, and leaves the others as they are.                           *)
(***************************************************************************)
EXTENDS Streams, BufferedSocket, Descriptors, AsyncFile,
        DnsWire, DnsResolver, Tasks

CONSTANTS zero, newline, letter

VARIABLE part

Parts == {"streams", "socket", "fd", "file", "wire", "resolver", "tasks"}

AllBytes == {zero, newline, letter}
ChunkOfTwo == {2}

-----------------------------------------------------------------------------
(* what the components work on *)

(* names: two labels; one label with the root; one that is not a label     *)
(* (and leaves no end when a dot follows); a label that is too long before *)
(* one with a byte no label has; and queries of 30 and 31 bytes            *)
LabelA == <<97>>
LabelB == <<98, 45, 50>>
Root == <<>>
Long(n) == [i \in 1..n |-> 98 + (i % 2)]
Query(text, ones) == [text |-> text, ones |-> ones]
Queries == { Query(<<LabelB, LabelA>>, {"qr", "aa", "z"}),
             Query(<<LabelA, Root>>, {"qr", "tc", "ra", "opcode", "rcode"}),
             Query(<<LabelA, <<49>>>>, {"rd"}), Query(<<LabelA, <<49>>, Root>>, {}),
             Query(<<Long(64), <<97, 95, 98>>, LabelB>>, {"qr"}),
             Query(<<Long(12)>>, {"qr"}), Query(<<Long(13)>>, {"qr"}) }
Owners == { <<LabelA, Root>>, <<LabelB, LabelA, Root>> }

\* replies: truncated, referrals with and without glue, answers, aliases, a circle of them, neither
R(name, type, to) == [name |-> name, type |-> type, to |-> to]
Reply(aa, tc, answers, authorities, additionals) ==
    [aa |-> aa, tc |-> tc, answers |-> answers, authorities |-> authorities, additionals |-> additionals]
Roots == <<"r1", "r2">>
TwoServers == <<R("z", "NS", "n1"), R("z", "SOA", "x"), R("z", "NS", "n2")>>
Replies == { Reply(FALSE, TRUE, <<>>, <<>>, <<>>),
             Reply(FALSE, FALSE, <<R("d", "A", "other")>>, TwoServers,
                   <<R("n2", "A", "s2"), R("n1", "AAAA", "x"), R("n1", "A", "s1"), R("m", "A", "s3")>>),
             Reply(FALSE, FALSE, <<>>, TwoServers, <<R("n2", "A", "s3")>>),
             Reply(FALSE, FALSE, <<>>, TwoServers, <<>>),
             Reply(TRUE, FALSE, <<R("e", "A", "other"), R("d", "A", "a1")>>, <<>>, <<>>),
             Reply(TRUE, TRUE, <<R("e", "A", "a2"), R("d", "CNAME", "e"), R("d", "A", "a1")>>, <<>>, <<>>),
             Reply(TRUE, FALSE, <<R("d", "CNAME", "e"), R("d", "A", "a1")>>, <<>>, <<>>),
             Reply(TRUE, FALSE, <<R("d", "CNAME", "e"), R("e", "CNAME", "d")>>, <<>>, <<>>),
             Reply(TRUE, FALSE, <<R("d", "TXT", "x")>>, <<>>, <<>>) }

-----------------------------------------------------------------------------
allVars == <<part, vars, netVars, fdVars, fileVars, dnsWireVars, resVars, taskVars>>

\* the state a component that is not chosen keeps is the same in every behaviour
AllInit ==
    /\ part \in Parts
    /\ Init /\ NetInit /\ FdInit /\ FileInit /\ DnsWireInit /\ ResInit /\ TaskInit
    /\ part # "streams" => kind = "memory" /\ content = << >>
    /\ part # "resolver" => resFirst = "udp"

AllNext ==
    /\ UNCHANGED part
    /\ \/ part = "streams" /\ Next
          /\ UNCHANGED <<netVars, fdVars, fileVars, dnsWireVars, resVars, taskVars>>
       \/ part = "socket" /\ NetNext
          /\ UNCHANGED <<vars, fdVars, fileVars, dnsWireVars, resVars, taskVars>>
       \/ part = "fd" /\ FdNext
          /\ UNCHANGED <<vars, netVars, fileVars, dnsWireVars, resVars, taskVars>>
       \/ part = "file" /\ FileNextStep
          /\ UNCHANGED <<vars, netVars, fdVars, dnsWireVars, resVars, taskVars>>
       \/ part = "wire" /\ DnsWireNext
          /\ UNCHANGED <<vars, netVars, fdVars, fileVars, resVars, taskVars>>
       \/ part = "resolver" /\ ResNext
          /\ UNCHANGED <<vars, netVars, fdVars, fileVars, dnsWireVars, taskVars>>
       \/ part = "tasks" /\ TaskNext
          /\ UNCHANGED <<vars, netVars, fdVars, fileVars, dnsWireVars, resVars>>

AllSpec == AllInit /\ [][AllNext]_allVars

=============================================================================
