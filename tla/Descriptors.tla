---------------------------- MODULE Descriptors ----------------------------
(***************************************************************************)
(* The descriptors of async/net/socket.cpp, async/net/tcp_listener.cpp and *)
(* concurrency/coroutine/wrappers/file.cpp: which object owns which one.   *)
(*                                                                         *)
(* Objects are made, moved, closed and destroyed by coroutines; between    *)
(* the start and the end of an operation that suspends, the others run.    *)
(* The kernel hands out the lowest number that is free, so a number that   *)
(* is closed soon names something else.  An operation that fails with      *)
(* nothing opened or closed changes nothing and is left out.               *)
(*                                                                         *)
(* Two things in this code leave an object with a number that is closed    *)
(* already: a close of a file that the kernel answers with an error throws *)
(* before fd is set to -1, and a tcp_listener is copied with its fd_.      *)
(* Such an object is stale; when it closes its number after the kernel     *)
(* has given it out again, it closes what belongs to another (fdAstray),   *)
(* and the model stops there.                                              *)
(***************************************************************************)
EXTENDS Naturals, FiniteSets

CONSTANTS FdSockets, FdFiles,   \* storage for socket and file objects
          FdListeners,          \* tcp_listener objects
          FdTasks,              \* coroutines that connect, accept or open
          FdLimit               \* bound: descriptors 1 .. FdLimit

ASSUME FdAssumption ==
    /\ FdLimit \in Nat /\ FdSockets \intersect FdFiles = {}
    /\ FdTasks \intersect (FdSockets \union FdFiles) = {}
    /\ FdListeners \intersect (FdSockets \union FdFiles) = {}

VARIABLES fdOpen,       \* the descriptors that are open
          fdObj,        \* object -> [state, fd]; fd 0 stands for -1
          fdListener,   \* tcp_listener -> fd_
          fdTask,       \* coroutine -> [op, fd]: what it awaits
          fdStale,      \* history: objects that keep a number closed before
          fdAstray      \* history: a stale object closed what is another's

fdVars == <<fdOpen, fdObj, fdListener, fdTask, fdStale, fdAstray>>
fdPast == <<fdStale, fdAstray>>

FdNone == 0
FdFree == (1 .. FdLimit) \ fdOpen
FdLowest == CHOOSE f \in FdFree : \A g \in FdFree : f <= g
FdObjects == FdSockets \union FdFiles
FdObject(state, fd) == [state |-> state, fd |-> fd]
FdIdle == [op |-> "idle", fd |-> FdNone]
FdHits(x, fd) == x \in fdStale /\ fd \in fdOpen
FdSame(o, p) == o # p /\ ({o, p} \subseteq FdSockets \/ {o, p} \subseteq FdFiles)

FdInit ==
    /\ fdOpen = {}
    /\ fdObj = [o \in FdObjects |-> FdObject("none", FdNone)]
    /\ fdListener = [l \in FdListeners |-> FdNone]
    /\ fdStale = {} /\ fdAstray = FALSE
    /\ fdTask = [t \in FdTasks |-> FdIdle]

-----------------------------------------------------------------------------
(* operations that give a descriptor to a new object *)

FdConnectStart(t) ==
    /\ fdTask[t] = FdIdle /\ FdFree # {}
    /\ fdOpen' = fdOpen \union {FdLowest}
    /\ fdTask' = [fdTask EXCEPT ![t] = [op |-> "connect", fd |-> FdLowest]]
    /\ UNCHANGED <<fdObj, fdListener, fdPast>>

(* the descriptor of a connect that fails stays open and is forgotten *)
FdConnectEnd(t, o) ==
    /\ fdTask[t].op = "connect" /\ o \in FdSockets /\ fdObj[o].state = "none"
    /\ fdTask' = [fdTask EXCEPT ![t] = FdIdle]
    /\ \/ fdObj' = [fdObj EXCEPT ![o] = FdObject("live", fdTask[t].fd)]
       \/ UNCHANGED fdObj
    /\ UNCHANGED <<fdOpen, fdListener, fdPast>>

(* so does the one of a listen that fails after socket(), and of a former listen *)
FdListen(l) ==
    /\ FdFree # {}
    /\ fdOpen' = fdOpen \union {FdLowest}
    /\ \/ /\ fdListener' = [fdListener EXCEPT ![l] = FdLowest]
          /\ fdStale' = fdStale \ {l}
       \/ UNCHANGED <<fdListener, fdStale>>
    /\ UNCHANGED <<fdObj, fdTask, fdAstray>>

\* copy or move of a tcp_listener, implicit: both have the number (its TODO)
FdCopy(l, m) ==
    /\ l # m
    /\ fdListener' = [fdListener EXCEPT ![m] = fdListener[l]]
    /\ fdStale' = (fdStale \ {m}) \union {x \in {m} : l \in fdStale}
    /\ UNCHANGED <<fdOpen, fdObj, fdTask, fdAstray>>

FdAcceptStart(t, l) ==
    /\ fdTask[t] = FdIdle /\ fdListener[l] # FdNone
    /\ fdTask' = [fdTask EXCEPT ![t] = [op |-> "accept", fd |-> fdListener[l]]]
    /\ UNCHANGED <<fdOpen, fdObj, fdListener, fdPast>>

FdOpenStart(t) ==
    /\ fdTask[t] = FdIdle
    /\ fdTask' = [fdTask EXCEPT ![t] = [op |-> "open", fd |-> FdNone]]
    /\ UNCHANGED <<fdOpen, fdObj, fdListener, fdPast>>

\* accept and open: the kernel makes the descriptor, or fails
FdOpened(t, o) ==
    /\ fdTask[t].op \in {"accept", "open"} /\ fdObj[o].state = "none"
    /\ o \in (IF fdTask[t].op = "accept" THEN FdSockets ELSE FdFiles)
    /\ fdTask' = [fdTask EXCEPT ![t] = FdIdle]
    /\ \/ /\ FdFree # {}
          /\ fdOpen' = fdOpen \union {FdLowest}
          /\ fdObj' = [fdObj EXCEPT ![o] = FdObject("live", FdLowest)]
       \/ UNCHANGED <<fdOpen, fdObj>>
    /\ UNCHANGED <<fdListener, fdPast>>

-----------------------------------------------------------------------------
(* moves and closes *)

\* move construction of p from o
FdMove(o, p) ==
    /\ FdSame(o, p) /\ fdObj[o].state = "live" /\ fdObj[p].state = "none"
    /\ fdObj' = [fdObj EXCEPT ![p] = fdObj[o], ![o].fd = FdNone]
    /\ fdStale' = (fdStale \ {o, p}) \union {x \in {p} : o \in fdStale}
    /\ UNCHANGED <<fdOpen, fdListener, fdTask, fdAstray>>

\* operator=: the descriptor p had is forgotten
FdAssign(o, p) ==
    /\ FdSame(o, p) /\ fdObj[o].state = "live" /\ fdObj[p].state = "live"
    /\ fdObj' = [fdObj EXCEPT ![p].fd = fdObj[o].fd, ![o].fd = FdNone]
    /\ fdStale' = (fdStale \ {o, p}) \union {x \in {p} : o \in fdStale}
    /\ UNCHANGED <<fdOpen, fdListener, fdTask, fdAstray>>

\* Faulty variant: fd is not set to -1.
FdCloseKeeps(o) ==
    /\ o \in FdSockets /\ fdObj[o].state = "live" /\ fdObj[o].fd # FdNone
    /\ fdOpen' = fdOpen \ {fdObj[o].fd}
    /\ UNCHANGED <<fdObj, fdListener, fdTask, fdPast>>

\* socket::close
FdClose(o) ==
    /\ o \in FdSockets /\ fdObj[o].state = "live" /\ fdObj[o].fd # FdNone
    /\ fdOpen' = fdOpen \ {fdObj[o].fd}
    /\ fdObj' = [fdObj EXCEPT ![o].fd = FdNone]
    /\ UNCHANGED <<fdListener, fdTask, fdPast>>

(* file::close: the kernel closes the descriptor some time before the      *)
(* coroutine goes on; a number that is not open fails and changes nothing  *)
FdFileClose(o) ==
    /\ o \in FdFiles /\ fdObj[o].state = "live" /\ fdObj[o].fd \in fdOpen
    /\ fdOpen' = fdOpen \ {fdObj[o].fd}
    /\ fdObj' = [fdObj EXCEPT ![o].state = "closing"]
    /\ fdStale' = fdStale \ {o}
    /\ fdAstray' = FdHits(o, fdObj[o].fd)
    /\ UNCHANGED <<fdListener, fdTask>>

FdFileClosed(o) ==
    /\ o \in FdFiles /\ fdObj[o].state = "closing"
    /\ fdObj' = [fdObj EXCEPT ![o] = FdObject("live", FdNone)]
    /\ UNCHANGED <<fdOpen, fdListener, fdTask, fdPast>>

\* the kernel has closed it and reports an error: close throws, fd stays
FdFileCloseThrows(o) ==
    /\ o \in FdFiles /\ fdObj[o].state = "closing"
    /\ fdObj' = [fdObj EXCEPT ![o].state = "live"]
    /\ fdStale' = fdStale \union {o}
    /\ UNCHANGED <<fdOpen, fdListener, fdTask, fdAstray>>

\* ~socket and ~file
FdDestroy(o) ==
    /\ fdObj[o].state = "live"
    /\ fdOpen' = fdOpen \ {fdObj[o].fd}
    /\ fdObj' = [fdObj EXCEPT ![o] = FdObject("none", FdNone)]
    /\ fdStale' = fdStale \ {o}
    /\ fdAstray' = FdHits(o, fdObj[o].fd)
    /\ UNCHANGED <<fdListener, fdTask>>

\* tcp_listener::close, and its destructor; the copies keep the number
FdListenerClose(l) ==
    /\ fdOpen' = fdOpen \ {fdListener[l]}
    /\ fdListener' = [fdListener EXCEPT ![l] = FdNone]
    /\ fdStale' = (fdStale \union {m \in FdListeners : FdNone # fdListener[m] /\ fdListener[m] = fdListener[l]})
                  \ {l}
    /\ fdAstray' = FdHits(l, fdListener[l])
    /\ UNCHANGED <<fdObj, fdTask>>

FdStep ==
    \/ \E t \in FdTasks : FdConnectStart(t) \/ FdOpenStart(t)
    \/ \E t \in FdTasks, l \in FdListeners : FdAcceptStart(t, l)
    \/ \E t \in FdTasks, o \in FdObjects : FdConnectEnd(t, o) \/ FdOpened(t, o)
    \/ \E o, p \in FdObjects : FdMove(o, p) \/ FdAssign(o, p)
    \/ \E o \in FdObjects : FdClose(o) \/ FdDestroy(o)
    \/ \E o \in FdObjects : FdFileClose(o) \/ FdFileClosed(o) \/ FdFileCloseThrows(o)
    \/ \E l \in FdListeners : FdListen(l) \/ FdListenerClose(l)
    \/ \E l, m \in FdListeners : FdCopy(l, m)

FdNext == ~fdAstray /\ FdStep

FdSpec == FdInit /\ [][FdNext]_fdVars

-----------------------------------------------------------------------------
(* Who may use and close a descriptor: the objects outside file::close     *)
(* that are not stale, the listeners that are not, and the coroutines      *)
(* between socket() and the end of a connect.                              *)
FdOwners ==
    {o \in FdObjects \ fdStale : fdObj[o].state = "live" /\ fdObj[o].fd # FdNone}
      \union {t \in FdTasks : fdTask[t].op = "connect"}

FdListening == {l \in FdListeners \ fdStale : fdListener[l] # FdNone}

FdOf(x) == IF x \in FdTasks THEN fdTask[x].fd ELSE fdObj[x].fd

(* Whatever is moved, copied, closed twice, destroyed or fails half way,   *)
(* while the kernel gives numbers out again, and until the first time that *)
(* a stale object closes what is another's: what an owner holds is open,   *)
(* and nobody else owns it, so that the only closes that can hit the       *)
(* descriptor of another object are those of a file whose close has        *)
(* thrown and of a listener whose copy is closed (the -1 that the closes   *)
(* and the moves leave behind).  Listeners share with listeners only.      *)
FdOwnedOnce ==
    ~fdAstray =>
      /\ \A x \in FdOwners : FdOf(x) \in fdOpen /\ \A l \in FdListening : FdOf(x) # fdListener[l]
      /\ \A x, y \in FdOwners : x # y => FdOf(x) # FdOf(y)
      /\ \A l \in FdListening : fdListener[l] \in fdOpen

FdTypeOK ==
    /\ fdOpen \subseteq 1 .. FdLimit
    /\ fdObj \in [FdObjects -> [state : {"none", "live", "closing"}, fd : 0 .. FdLimit]]
    /\ fdListener \in [FdListeners -> 0 .. FdLimit]
    /\ fdTask \in [FdTasks -> [op : {"idle", "connect", "accept", "open"}, fd : 0 .. FdLimit]]
    /\ fdStale \subseteq FdFiles \union FdListeners /\ fdAstray \in BOOLEAN

\* the inductive invariant
FdIInv == FdTypeOK /\ FdOwnedOnce
=============================================================================
