------------------------------ MODULE MCLocal ------------------------------
(***************************************************************************)
(* One instance for TLC of the collections, the semaphore, the subprocess, *)
(* JSON, and both ends of HTTP.  They share no state: a behaviour is one   *)
(* of one of them, the part chosen at the start, and leaves the others as  *)
(* they are.                                                               *)
(***************************************************************************)
EXTENDS MCRing, MemBuf, Cache, AsyncSemaphore, Subprocess, Json,
        HttpServer, HttpClient

VARIABLE part

\* children that read and write in turn, that fill one pipe, and that write before they read
Scripts == { <<"read", "out", "read", "err">>,
             <<"err", "err", "err", "out">>,
             <<"out", "out", "out", "err">>,
             <<"read", "read", "err", "err", "err", "out">>,
             <<"out", "out", "out", "read", "read", "read">> }
ProcSizes == {-1, 0, 1, 3}

(* with the bits 1, 1011 and 10110001; a write of two bytes is half of one  *)
(* of four                                                                 *)
Words == (1 :> {1}) @@ (2 :> {}) @@ (4 :> {11}) @@ (8 :> {177})

Leaves == { [string |-> <<34, 92, 10, 1, 200>>], [number |-> 10], [infinite |-> TRUE], [bool |-> FALSE] }
Keys == { <<>>, <<97, 92>> }
Texts == { \* {"a": [], "a" :"\u00e9\u20AC"}, with a space in front and behind
           <<32, 123, 34, 97, 34, 58, 32, 91, 93, 44, 32, 34, 97, 34, 32, 58, 34,
             92, 117, 48, 48, 101, 57, 92, 117, 50, 48, 65, 67, 34, 125, 32>>,
           \* [01]  [1,]  [{},-7]true  "\x"  "\u1
           <<91, 48, 49, 93>>, <<91, 49, 44, 93>>, <<91, 123, 125, 44, 45, 55, 93, 116, 114, 117, 101>>,
           <<34, 92, 120, 34>>, <<34, 92, 117, 49>> }

\* responses with a header that comes twice, a header of two lines, and a body like a line end
Field(key, line, folded) == [key |-> key, line |-> line, folded |-> folded]
Tokens == {"", "k", "l", "v", "w", "x", "b", "c"}
Responses == { [code |-> <<"2", "0", "0">>,
                headers |-> <<Field("k", "v", ""), Field("l", "v", "w"), Field("k", "x", "")>>,
                body |-> <<"b", "c">>],
               [code |-> <<"4", "0", "4">>, headers |-> <<>>, body |-> <<"CR", "LF", "b", ":">>] }

\* what the theorems about the ring ask of its uses
ASSUME RingUsesAssumption == UsesAreSound

allVars == <<part, vars, memVars, cacheVars, semVars, procVars, jsonVars, httpVars, cliVars>>

\* a ring or a client that is not chosen is the same in every behaviour
AllInit ==
    /\ part \in {"ring", "buffer", "cache", "semaphore", "process", "json", "server", "client"}
    /\ Init /\ MemInit /\ CacheInit /\ SemInit /\ ProcInit /\ JsonInit /\ HttpInit /\ CliInit
    /\ part # "ring" => use = Deque
    /\ part # "client" => cliAnswer.body = <<"b", "c">>

AllNext ==
    /\ UNCHANGED part
    /\ \/ part = "ring" /\ Next
          /\ UNCHANGED <<memVars, cacheVars, semVars, procVars, jsonVars, httpVars, cliVars>>
       \/ part = "buffer" /\ MemNext
          /\ UNCHANGED <<vars, cacheVars, semVars, procVars, jsonVars, httpVars, cliVars>>
       \/ part = "cache" /\ CacheNext
          /\ UNCHANGED <<vars, memVars, semVars, procVars, jsonVars, httpVars, cliVars>>
       \/ part = "semaphore" /\ SemNext
          /\ UNCHANGED <<vars, memVars, cacheVars, procVars, jsonVars, httpVars, cliVars>>
       \/ part = "process" /\ ProcNext
          /\ UNCHANGED <<vars, memVars, cacheVars, semVars, jsonVars, httpVars, cliVars>>
       \/ part = "json" /\ JsonNext
          /\ UNCHANGED <<vars, memVars, cacheVars, semVars, procVars, httpVars, cliVars>>
       \/ part = "server" /\ HttpNext
          /\ UNCHANGED <<vars, memVars, cacheVars, semVars, procVars, jsonVars, cliVars>>
       \/ part = "client" /\ CliNext
          /\ UNCHANGED <<vars, memVars, cacheVars, semVars, procVars, jsonVars, httpVars>>

\* parent and child are processes, which the system runs again and again
AllSpec ==
    /\ AllInit /\ [][AllNext]_allVars
    /\ WF_procVars(part = "process" /\ ProcParent)
    /\ WF_procVars(part = "process" /\ (ProcChildStep \/ ProcChildEnds))

=============================================================================
