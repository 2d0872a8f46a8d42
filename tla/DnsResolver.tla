----------------------------- MODULE DnsResolver -----------------------------
(***************************************************************************)
(* Resolver::query_dns of network/dns/dns.cpp, with the sockets it gets    *)
(* from SocketManager: each server is asked over UDP and, if the answer is *)
(* truncated or the query does not fit a datagram, over TCP; an answer     *)
(* without authority refers to other servers, which are asked one after    *)
(* the other, each by a recursive call.                                    *)
(*                                                                         *)
(* A record is [name, type, to]: to is an address or a name.  The name     *)
(* that is looked for is ResName.  A server may send any of ResReplies,    *)
(* and something else each time it is asked; recv may fail, and what a     *)
(* failure does to the buffers of the code is what it does here.           *)
(***************************************************************************)
EXTENDS Integers, SequencesExt

CONSTANTS ResName,
          ResRoots,      \* root_servers
          ResReplies,    \* [aa, tc, answers, authorities, additionals]
          ResDepth       \* bound: calls of query_dns within one another

(* what is no address: an optional without a value, and the ends without   *)
(* a result: an exception, and unpack of bytes that are not in the buffer  *)
ResNoAddress == {"none", "nullopt", "thrown", "astray"}

ResRecord == [name : STRING, type : STRING, to : STRING]

ASSUME ResAssumption ==
    /\ ResName \in STRING /\ ResRoots \in Seq(STRING)
    /\ ResReplies \subseteq [aa : BOOLEAN, tc : BOOLEAN, answers : Seq(ResRecord),
                             authorities : Seq(ResRecord), additionals : Seq(ResRecord)]
    /\ \A reply \in ResReplies : \A i \in DOMAIN reply.answers : reply.answers[i].to \notin ResNoAddress

VARIABLES resFirst,      \* how a server is asked first: "tcp" when the query has over 512 bytes
          resRoot,       \* how many root servers were asked
          resStack,      \* calls: [server, at, name, todo], at in "udp", "tcp", "answer" or "refer"
          resSockets,    \* sockets that are open
          resResult,     \* "none" while it runs, an address or one of ResNoAddress
          resReply,      \* the last reply that was unpacked
          resAsked,      \* the servers that were asked
          resReferred    \* the servers that replies without authority named with their address

resVars == <<resFirst, resRoot, resStack, resSockets, resResult, resReply, resAsked, resReferred>>

ResEmptyReply == [aa |-> FALSE, tc |-> FALSE, answers |-> <<>>, authorities |-> <<>>, additionals |-> <<>>]
ResCall(server) == [server |-> server, at |-> resFirst, name |-> ResName, todo |-> {}]

ResInit ==
    /\ resFirst \in {"udp", "tcp"}
    /\ resRoot = 0 /\ resStack = <<>> /\ resSockets = {} /\ resResult = "none"
    /\ resReply = ResEmptyReply /\ resAsked = {} /\ resReferred = {}

ResTop == Last(resStack)

\* the loop over root_servers
ResNextRoot ==
    /\ resStack = <<>> /\ resResult = "none" /\ resRoot < Len(ResRoots)
    /\ resStack' = <<ResCall(ResRoots[resRoot + 1])>>
    /\ resRoot' = resRoot + 1
    /\ UNCHANGED <<resSockets, resResult, resReply, resAsked, resReferred>>

ResGiveUp ==
    /\ resStack = <<>> /\ resResult = "none" /\ resRoot = Len(ResRoots)
    /\ resResult' = "nullopt"
    /\ UNCHANGED <<resRoot, resStack, resSockets, resReply, resAsked, resReferred>>

(* getIPv4UDPSocket, getIPv4TCPSocket: connect may fail, which throws out  *)
(* of all calls; the socket that was made is closed on the way             *)
ResOpenSocket ==
    /\ resStack # <<>> /\ ResTop.at \in {"udp", "tcp"} /\ resSockets = {}
    /\ \/ /\ resSockets' = {<<ResTop.at, ResTop.server>>}
          /\ resAsked' = resAsked \union {ResTop.server}
          /\ UNCHANGED <<resStack, resResult>>
       \/ /\ resResult' = "thrown" /\ resStack' = <<>> /\ UNCHANGED <<resSockets, resAsked>>
    /\ UNCHANGED <<resRoot, resReply, resReferred>>

-----------------------------------------------------------------------------
\* Faulty variant: the owner of a record is not compared.
ResHitsAny(name) == {i \in DOMAIN resReply.answers : resReply.answers[i].type \in {"A", "CNAME"}}

\* the records of the last reply that decide about name
ResHits(name) ==
    {i \in DOMAIN resReply.answers : /\ resReply.answers[i].name = name
                                     /\ resReply.answers[i].type \in {"A", "CNAME"}}

\* the servers a reply refers to, each with its place in the two loops
ResGlue(reply) ==
    {g \in {[ns |-> i, ad |-> j, to |-> reply.additionals[j].to] :
              i \in DOMAIN reply.authorities, j \in DOMAIN reply.additionals} :
       LET ns == reply.authorities[g.ns]
           ad == reply.additionals[g.ad]
       IN ns.type = "NS" /\ ad.type = "A" /\ ad.name = ns.to}
ResServers(glue) == {g.to : g \in glue}
ResBefore(g, h) == g.ns < h.ns \/ (g.ns = h.ns /\ g.ad < h.ad)

ResSetTop(call) == [resStack EXCEPT ![Len(resStack)] = call]

\* a call ends with result: its caller returns it too, or goes on when it is nullopt
ResReturn(result) ==
    IF result = "nullopt" THEN resStack' = Front(resStack) /\ UNCHANGED resResult
    ELSE resStack' = <<>> /\ resResult' = result

\* what query_dns does with a reply that is complete
ResUse(reply) ==
    IF reply.aa
    THEN /\ resStack' = ResSetTop([ResTop EXCEPT !.at = "answer"])
         /\ UNCHANGED <<resResult, resReferred>>
    ELSE /\ resStack' = ResSetTop([ResTop EXCEPT !.at = "refer", !.todo = ResGlue(reply)])
         /\ resReferred' = resReferred \union ResServers(ResGlue(reply))
         /\ UNCHANGED resResult

(* get_from_msg: the first A or CNAME record of the name decides; for a    *)
(* CNAME it calls itself with another name, and CNAMEs in a circle never   *)
(* end.                                                                    *)
ResFromMsg ==
    LET hits == ResHits(ResTop.name) IN
    /\ resStack # <<>> /\ ResTop.at = "answer"
    /\ \/ hits = {} /\ ResReturn("nullopt")
       \/ \E i \in hits :
            LET an == resReply.answers[i] IN
            /\ \A j \in hits : i <= j
            /\ \/ an.type = "A" /\ ResReturn(an.to)
               \/ /\ an.type = "CNAME" /\ resStack' = ResSetTop([ResTop EXCEPT !.name = an.to])
                  /\ UNCHANGED resResult
    /\ UNCHANGED <<resRoot, resSockets, resReply, resAsked, resReferred>>

(* the reply over UDP; the socket is closed at the end of its block.  A    *)
(* datagram is read into 512 zeros, so that an empty one is ResEmptyReply. *)
ResRecvUdp(reply) ==
    /\ resStack # <<>> /\ ResTop.at = "udp" /\ resSockets # {}
    /\ ResGlue(reply) # {} => Len(resStack) < ResDepth
    /\ resSockets' = {} /\ resReply' = reply
    /\ IF reply.tc
       THEN /\ resStack' = ResSetTop([ResTop EXCEPT !.at = "tcp"])
            /\ UNCHANGED <<resResult, resReferred>>
       ELSE ResUse(reply)
    /\ UNCHANGED <<resRoot, resAsked>>

(* recv of the datagram fails: -1 becomes the greatest size_t, and resize  *)
(* to it throws std::length_error out of all calls                         *)
ResUdpError ==
    /\ resStack # <<>> /\ ResTop.at = "udp" /\ resSockets # {}
    /\ resSockets' = {} /\ resStack' = <<>> /\ resResult' = "thrown"
    /\ UNCHANGED <<resRoot, resReply, resAsked, resReferred>>

(* over TCP: tc is not looked at again.  A reply that arrives in pieces is *)
(* cut at the first: the records behind are read from zeros, of which the  *)
(* buffer has as many as the length said.                                  *)
ResRecvTcp(reply) ==
    /\ resStack # <<>> /\ ResTop.at = "tcp" /\ resSockets # {}
    /\ ResGlue(reply) # {} => Len(resStack) < ResDepth
    /\ resSockets' = {} /\ resReply' = reply
    /\ ResUse(reply)
    /\ UNCHANGED <<resRoot, resAsked>>

(* over TCP the length is 0, as recv of it failed or the connection was    *)
(* closed, or less than unpack reads: it reads behind the buffer           *)
ResTcpShort ==
    /\ resStack # <<>> /\ ResTop.at = "tcp" /\ resSockets # {}
    /\ resSockets' = {} /\ resStack' = <<>> /\ resResult' = "astray"
    /\ UNCHANGED <<resRoot, resReply, resAsked, resReferred>>

\* the loops over authorities and additionals: ask the next server, or return nullopt
ResRefer ==
    /\ resStack # <<>> /\ ResTop.at = "refer"
    /\ \/ ResTop.todo = {} /\ ResReturn("nullopt")
       \/ \E g \in ResTop.todo :
            /\ \A h \in ResTop.todo \ {g} : ResBefore(g, h)
            /\ resStack' = Append(ResSetTop([ResTop EXCEPT !.todo = @ \ {g}]), ResCall(g.to))
            /\ UNCHANGED resResult
    /\ UNCHANGED <<resRoot, resSockets, resReply, resAsked, resReferred>>

ResNext ==
    /\ UNCHANGED resFirst
    /\ \/ ResNextRoot \/ ResGiveUp \/ ResOpenSocket \/ ResFromMsg \/ ResRefer \/ ResUdpError \/ ResTcpShort
       \/ \E reply \in ResReplies \union {ResEmptyReply} : ResRecvUdp(reply) \/ ResRecvTcp(reply)

ResSpec == ResInit /\ [][ResNext]_resVars

-----------------------------------------------------------------------------
(* The names that stand for ResName in a reply: those that are in every    *)
(* set that has ResName and, with the owner of a CNAME, what it leads to.  *)
ResCnames(reply) == {i \in DOMAIN reply.answers : reply.answers[i].type = "CNAME"}
ResNames(reply) == {ResName} \union {reply.answers[i].to : i \in ResCnames(reply)}
ResClosed(reply, S) == \A i \in ResCnames(reply) : reply.answers[i].name \in S => reply.answers[i].to \in S
ResAliases(reply) ==
    {n \in ResNames(reply) : \A S \in SUBSET ResNames(reply) : ResName \in S /\ ResClosed(reply, S) => n \in S}

(* Through referrals, truncation and retries over TCP: an address is       *)
(* returned only from a reply with authority of a server that was reached  *)
(* from a root server, and is the address of the name itself or of what it *)
(* is an alias for; and no socket is left open when the calls return or    *)
(* throw.  Nothing is said of the result once unpack went astray.          *)
ResAddressIsAnswer ==
    /\ resResult \notin ResNoAddress =>
         /\ resReply.aa
         /\ \E i \in DOMAIN resReply.answers :
              LET an == resReply.answers[i] IN
              an.type = "A" /\ an.to = resResult /\ an.name \in ResAliases(resReply)
    /\ resAsked \subseteq ToSet(ResRoots) \union resReferred
    /\ resStack = <<>> \/ ResTop.at \in {"answer", "refer"} => resSockets = {}

(* Giving up is the last resort: when there is no address, every root      *)
(* server was asked, and every server any of them referred to with its     *)
(* address, however deep.                                                  *)
ResNulloptMeansAllAsked ==
    resResult = "nullopt" => ToSet(ResRoots) \union resReferred \subseteq resAsked

(* What resolve returns is justified by what the servers said: an address  *)
(* by an answer, and no address by having asked everyone.  An exception    *)
(* and a reply that unpack reads beyond its end are neither.               *)
ResResultJustified == ResAddressIsAnswer /\ ResNulloptMeansAllAsked

-----------------------------------------------------------------------------
(* The inductive invariant.  Only the innermost call waits for an answer;  *)
(* the ones below are at their loop over the servers.                      *)
ResFrames == [server : STRING, at : {"udp", "tcp", "answer", "refer"}, name : STRING,
              todo : SUBSET [ns : Int, ad : Int, to : STRING]]
ResCallOk(f) ==
    /\ f.at # "refer" => f.todo = {}
    /\ f.at # "answer" => f.name = ResName
    /\ f.at \in {"answer", "refer"} => f.server \in resAsked
    /\ f.server \in ToSet(ResRoots) \union resReferred
    /\ ResServers(f.todo) \subseteq resReferred
ResCalls ==
    /\ resStack \in Seq(ResFrames)
    /\ \A k \in 1..Len(resStack) : ResCallOk(resStack[k]) /\ (k < Len(resStack) => resStack[k].at = "refer")
    /\ resStack # <<>> => resResult = "none"
    /\ resSockets # {} => resStack # <<>> /\ ResTop.at \in {"udp", "tcp"} /\ ResTop.server \in resAsked

\* the innermost call looks for an alias in a reply with authority
ResLookup ==
    /\ \A i \in DOMAIN resReply.answers : resReply.answers[i] \in ResRecord /\ resReply.answers[i].to \notin ResNoAddress
    /\ resStack # <<>> /\ ResTop.at = "answer" => resReply.aa /\ ResTop.name \in ResAliases(resReply)

\* who was named and not asked yet is the server of a call, or will be
ResPending(x) == \E k \in 1..Len(resStack) : x = resStack[k].server \/ x \in ResServers(resStack[k].todo)
ResAllPending ==
    /\ resRoot \in 0..Len(ResRoots)
    /\ resResult = "nullopt" => resRoot = Len(ResRoots) /\ resStack = <<>>
    /\ resResult \in {"none", "nullopt"} =>
         \A x \in {ResRoots[k] : k \in 1..resRoot} \union resReferred : x \in resAsked \/ ResPending(x)

ResFirstOk == resFirst \in {"udp", "tcp"}

ResIInv == ResCalls /\ ResLookup /\ ResAllPending /\ ResAddressIsAnswer
=============================================================================
