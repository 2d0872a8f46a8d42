----------------------------- MODULE Subprocess -----------------------------
(***************************************************************************)
(* subprocess/process.cpp over pipe_wrapper.cpp: a parent that calls       *)
(* communicate, wait_done, poll or wait, and its child, which reads its    *)
(* input and writes to two pipes of limited size until it exits.           *)
(*                                                                         *)
(* Bytes are numbered per pipe.  The pipes are non-blocking: a call that   *)
(* can not go on returns at once and is made again.                        *)
(***************************************************************************)
EXTENDS Integers, Sequences, FiniteSets

CONSTANTS ProcPipe,      \* bytes a pipe holds
          ProcScripts,   \* what children do: sequences of ProcSteps
          ProcInputs     \* sizes of the input of communicate

ProcSteps == {"read", "out", "err"}
ASSUME ProcAssumption == ProcScripts \subseteq Seq(ProcSteps) /\ ProcInputs \subseteq Int /\ ProcPipe \in Int

VARIABLES procScript,    \* what the child has still to do
          procAll,       \* all it does, from the start
          procState,     \* the child: "none", "runs", "closed" (its pipes), "zombie" or "reaped"
          procIn, procOut, procErr,   \* bytes in the pipes
          procInOpen,    \* the parent has not closed its end of stdin
          procChildGot,  \* number of bytes the child has read
          procPc,        \* where the parent is
          procUse,       \* [call, input, limit]; input -1 is std::nullopt
          procSent,      \* bytes of the input that were written
          procDone,      \* which of "out" and "err" met the end of its pipe
          procGot,       \* [out, err]: what communicate has read
          procExit       \* exit_code: "unset", "real", or "any" for a status nobody wrote

procVars == <<procScript, procAll, procState, procIn, procOut, procErr, procInOpen, procChildGot,
              procPc, procUse, procSent, procDone, procGot, procExit>>
procPipes == <<procIn, procOut, procErr, procInOpen>>
procChild == <<procScript, procAll, procState, procChildGot>>
procLocals == <<procUse, procSent, procDone, procGot>>

ProcNoCall == [call |-> "none", input |-> -1, limit |-> FALSE]
ProcNothing == [name \in {"out", "err"} |-> <<>>]

ProcInit ==
    /\ procScript = <<>> /\ procAll = <<>> /\ procState = "none"
    /\ procIn = <<>> /\ procOut = <<>> /\ procErr = <<>>
    /\ procInOpen = TRUE /\ procChildGot = 0
    /\ procPc = "start" /\ procUse = ProcNoCall /\ procSent = 0
    /\ procDone = {} /\ procGot = ProcNothing /\ procExit = "unset"

ProcCount(script, step) == Cardinality({i \in DOMAIN script : script[i] = step})

\* how many bytes the child has written to the pipe called name
ProcWritten(name) == ProcCount(procAll, name) - ProcCount(procScript, name)

\* the constructor: pipes, fork, exec
ProcFork(script) ==
    /\ procPc = "start"
    /\ procScript' = script /\ procAll' = script /\ procState' = "runs" /\ procPc' = "idle"
    /\ UNCHANGED <<procPipes, procChildGot, procLocals, procExit>>

-----------------------------------------------------------------------------
(* the child *)

ProcChildStep ==
    /\ procState = "runs" /\ procScript # <<>>
    /\ \/ /\ Head(procScript) = "read" /\ (procIn # <<>> \/ ~procInOpen)
          /\ procIn' = IF procIn = <<>> THEN <<>> ELSE Tail(procIn)
          /\ procChildGot' = procChildGot + (IF procIn = <<>> THEN 0 ELSE 1)
          /\ UNCHANGED <<procOut, procErr>>
       \/ /\ Head(procScript) = "out" /\ Len(procOut) < ProcPipe
          /\ procOut' = Append(procOut, ProcWritten("out") + 1)
          /\ UNCHANGED <<procIn, procErr, procChildGot>>
       \/ /\ Head(procScript) = "err" /\ Len(procErr) < ProcPipe
          /\ procErr' = Append(procErr, ProcWritten("err") + 1)
          /\ UNCHANGED <<procIn, procOut, procChildGot>>
    /\ procScript' = Tail(procScript)
    /\ UNCHANGED <<procAll, procState, procInOpen, procPc, procLocals, procExit>>

\* exit: the kernel closes the pipes, then the parent can wait for it
ProcChildEnds ==
    /\ \/ procState = "runs" /\ procScript = <<>> /\ procState' = "closed"
       \/ procState = "closed" /\ procState' = "zombie"
    /\ UNCHANGED <<procScript, procAll, procChildGot, procPipes, procPc, procLocals, procExit>>

-----------------------------------------------------------------------------
(* communicate *)

ProcCommunicate(input, limit) ==
    /\ procPc = "idle" /\ procUse = ProcNoCall
    /\ procUse' = [call |-> "communicate", input |-> input, limit |-> limit]
    /\ procInOpen' = (input >= 0)
    /\ procPc' = IF input >= 0 THEN "in" ELSE "out"
    /\ UNCHANGED <<procChild, procIn, procOut, procErr, procSent, procDone, procGot, procExit>>

\* Faulty variant: the write blocks until the whole input is in the pipe.
ProcWriteInBlocks ==
    /\ procPc = "in"
    /\ \E n \in 0..(procUse.input - procSent) :
         /\ n > 0 \/ procSent = procUse.input
         /\ Len(procIn) + n <= ProcPipe
         /\ procIn' = procIn \o [i \in 1..n |-> procSent + i]
         /\ procSent' = procSent + n
         /\ procInOpen' = (procSent + n < procUse.input)
         /\ procPc' = IF procSent + n < procUse.input THEN "in" ELSE "out"
    /\ UNCHANGED <<procChild, procOut, procErr, procUse, procDone, procGot, procExit>>

\* ll_write of size bytes: it writes n of them, all or as many as the pipe has room for
ProcLlWrite(size, n) ==
    /\ n <= size /\ Len(procIn) + n <= ProcPipe
    /\ n = size \/ Len(procIn) + n = ProcPipe
    /\ procIn' = procIn \o [i \in 1..n |-> procSent + i]

(* what is left of the input is written; when the child has closed its end *)
(* the parent gets SIGPIPE                                                 *)
ProcWriteIn ==
    /\ procPc = "in"
    /\ IF procSent < procUse.input /\ procState # "runs"
       THEN procPc' = "killed" /\ UNCHANGED <<procIn, procSent, procInOpen>>
       ELSE /\ \E n \in 0..(procUse.input - procSent) :
                 /\ ProcLlWrite(procUse.input - procSent, n)
                 /\ procSent' = procSent + n
                 /\ procInOpen' = (procSent + n < procUse.input)
            /\ procPc' = "out"
    /\ UNCHANGED <<procChild, procOut, procErr, procUse, procDone, procGot, procExit>>

\* where the loop goes after its part pc, with done
ProcLoop(pc, done) ==
    LET next == CASE pc = "out" -> "err"
                  [] pc = "err" /\ procInOpen -> "in"
                  [] pc = "err" /\ ~procInOpen -> "out"
    IN IF pc = "err" /\ done = {"out", "err"} /\ ~procInOpen THEN "reap" ELSE next

\* Faulty variant: no data for the moment is taken for the end.
ProcReadPipeEager(name, pipe) ==
    /\ procPc = name
    /\ LET done == IF pipe = <<>> THEN procDone \union {name} ELSE procDone IN
       /\ procDone' = done
       /\ procGot' = [procGot EXCEPT ![name] = @ \o pipe]
       /\ procPc' = ProcLoop(name, done)
    /\ UNCHANGED <<procChild, procIn, procInOpen, procUse, procSent, procExit>>

\* ll_read: all there is, nothing (EAGAIN), or the end
ProcReadPipe(name, pipe) ==
    /\ procPc = name
    /\ LET done == IF pipe = <<>> /\ procState # "runs" THEN procDone \union {name} ELSE procDone IN
       /\ procDone' = done
       /\ procGot' = [procGot EXCEPT ![name] = @ \o pipe]
       /\ procPc' = ProcLoop(name, done)
    /\ UNCHANGED <<procChild, procIn, procInOpen, procUse, procSent, procExit>>

ProcReadOut == ProcReadPipe("out", procOut) /\ procOut' = <<>> /\ UNCHANGED procErr
ProcReadErr == ProcReadPipe("err", procErr) /\ procErr' = <<>> /\ UNCHANGED procOut

\* waitpid: the status is the child's, or, when it was reaped before, not set
ProcReap ==
    /\ procState' = "reaped"
    /\ procExit' = IF procState = "reaped" THEN "any" ELSE "real"
    /\ UNCHANGED <<procScript, procAll, procChildGot>>

\* the end of communicate, and wait
ProcWaitpid ==
    /\ procPc = "reap"
    /\ \/ procState \in {"zombie", "reaped"} /\ ProcReap /\ procPc' = "idle"
       \/ procState \in {"runs", "closed"} /\ procUse.limit /\ procPc' = "thrown" /\ UNCHANGED <<procChild, procExit>>
    /\ UNCHANGED <<procPipes, procLocals>>

ProcWait(limit) ==
    /\ procPc = "idle" /\ procUse.call \in {"none", "poll"}
    /\ procUse' = [call |-> "wait", input |-> -1, limit |-> limit]
    /\ procPc' = "reap"
    /\ UNCHANGED <<procChild, procPipes, procSent, procDone, procGot, procExit>>

ProcPoll ==
    /\ procPc = "idle" /\ procUse.call \in {"none", "poll"}
    /\ procUse' = [ProcNoCall EXCEPT !.call = "poll"]
    /\ IF procState \in {"zombie", "reaped"} THEN ProcReap ELSE UNCHANGED <<procChild, procExit>>
    /\ UNCHANGED <<procPipes, procPc, procSent, procDone, procGot>>

-----------------------------------------------------------------------------
(* wait_done: available_to_null goes on to the end of its pipe, for stdout *)
(* and then for stderr                                                     *)
ProcWaitDone ==
    /\ procPc = "idle" /\ procUse = ProcNoCall
    /\ procUse' = [ProcNoCall EXCEPT !.call = "wait_done"]
    /\ procPc' = "null_wait"
    /\ UNCHANGED <<procChild, procPipes, procSent, procDone, procGot, procExit>>

ProcNullWait ==
    /\ procPc = "null_wait"
    /\ IF procState = "zombie" THEN ProcReap /\ procPc' = "idle"
                               ELSE procPc' = "null_out" /\ UNCHANGED <<procChild, procExit>>
    /\ UNCHANGED <<procPipes, procLocals>>

ProcToNull ==
    /\ procPc \in {"null_out", "null_err"}
    /\ LET pipe == IF procPc = "null_out" THEN procOut ELSE procErr
           next == IF procPc = "null_out" THEN "null_err" ELSE "null_wait"
       IN procPc' = IF pipe = <<>> /\ procState # "runs" THEN next ELSE procPc
    /\ procOut' = IF procPc = "null_out" THEN <<>> ELSE procOut
    /\ procErr' = IF procPc = "null_err" THEN <<>> ELSE procErr
    /\ UNCHANGED <<procChild, procIn, procInOpen, procLocals, procExit>>

ProcParent ==
    \/ ProcWriteIn \/ ProcReadOut \/ ProcReadErr \/ ProcWaitpid \/ ProcNullWait \/ ProcToNull
ProcCalls ==
    \/ \E script \in ProcScripts : ProcFork(script)
    \/ \E input \in ProcInputs, limit \in BOOLEAN : ProcCommunicate(input, limit)
    \/ \E limit \in BOOLEAN : ProcWait(limit)
    \/ ProcPoll \/ ProcWaitDone

ProcNext == ProcParent \/ ProcCalls \/ ProcChildStep \/ ProcChildEnds

ProcSpec == ProcInit /\ [][ProcNext]_procVars

-----------------------------------------------------------------------------
(* communicate takes turns with three pipes, none of which may block the   *)
(* others: when it returns it has all that the child wrote, in order, each *)
(* byte once, and the child was sent the whole input.                      *)
ProcOutputComplete ==
    procUse.call = "communicate" /\ procPc = "idle" =>
        /\ \A name \in {"out", "err"} :
             procGot[name] = [i \in 1..ProcCount(procAll, name) |-> i]
        /\ procUse.input >= 0 => procSent = procUse.input
        /\ procExit = "real"

ProcTypeOK ==
    /\ procScript \in Seq(ProcSteps) /\ procAll \in Seq(ProcSteps)
    /\ procState \in {"none", "runs", "closed", "zombie", "reaped"}
    /\ procIn \in Seq(Int) /\ procOut \in Seq(Int) /\ procErr \in Seq(Int)
    /\ procInOpen \in BOOLEAN /\ procChildGot \in Int
    /\ procPc \in {"start", "idle", "in", "out", "err", "reap", "killed", "thrown",
                   "null_wait", "null_out", "null_err"}
    /\ procUse \in [call : {"none", "communicate", "wait_done", "poll", "wait"}, input : Int, limit : BOOLEAN]
    /\ procSent \in Int /\ procDone \subseteq {"out", "err"}
    /\ procGot \in [{"out", "err"} -> Seq(Int)]
    /\ procExit \in {"unset", "real", "any"}

\* which calls go with which places of the parent and which states of the child
ProcControl ==
    /\ procPc = "start" <=> procState = "none"
    /\ procPc = "start" => procUse.call = "none" /\ procOut = <<>> /\ procErr = <<>>
    /\ procUse.call = "none" => /\ procPc \in {"start", "idle"} /\ procState # "reaped"
                               /\ procSent = 0 /\ procDone = {} /\ procGot = ProcNothing
    /\ procPc \in {"in", "out", "err"} => procUse.call = "communicate"
    /\ procPc \in {"null_wait", "null_out", "null_err"} => procUse.call = "wait_done"
    /\ procState \in {"closed", "zombie", "reaped"} => procScript = <<>>
    /\ procUse.call = "communicate" /\ procPc # "idle" => procState # "reaped"

\* the input is closed when all of it was written
ProcInputSent ==
    procUse.call = "communicate" =>
        /\ procInOpen => procSent <= procUse.input
        /\ ~procInOpen => procUse.input < 0 \/ procSent = procUse.input
        /\ procPc = "in" => procInOpen

ProcPipeOf(name) == IF name = "out" THEN procOut ELSE procErr

\* what was read and what is in the pipe are the bytes the child has written, in order
ProcStream ==
    \A name \in {"out", "err"} :
        /\ ProcWritten(name) \in Nat
        /\ procUse.call # "wait_done" =>
             procGot[name] \o ProcPipeOf(name) = [i \in 1..ProcWritten(name) |-> i]

\* a pipe whose end was met stays empty, and communicate goes on when both are
ProcEndsMet ==
    procUse.call = "communicate" =>
        /\ \A name \in procDone : ProcPipeOf(name) = <<>> /\ procState # "runs"
        /\ procPc \in {"reap", "idle"} => procDone = {"out", "err"} /\ ~procInOpen
        /\ procPc = "idle" => procExit = "real"

\* the inductive invariant
ProcIInv == ProcTypeOK /\ ProcControl /\ ProcInputSent /\ ProcStream /\ ProcEndsMet

\* communicate of a child that reads its whole input, wait, or wait_done with little on stderr
ProcWellUsed ==
    CASE procUse.call = "communicate" -> procUse.input <= ProcCount(procAll, "read")
      [] procUse.call = "wait_done" -> /\ ProcCount(procAll, "read") = 0
                                       /\ ProcCount(procAll, "err") <= ProcPipe
      [] OTHER -> FALSE

(* However much goes through the three pipes, whatever their size, parent  *)
(* and child never wait for one another for ever: communicate, and         *)
(* wait_done for a child that does not wait for input and writes no more   *)
(* to stderr than its pipe holds, come to an end.                          *)
ProcCallReturns == ProcWellUsed ~> procPc \in {"idle", "thrown"}
=============================================================================
