------------------------------- MODULE Logger --------------------------------
(* The logger of src/torrentsync/utils/log as threads use it: LOG fetches the *)
(* singleton under a mutex, collects the message in a buffer of its own, and  *)
(* at logend writes the line to each sink in turn, under the mutex of that    *)
(* sink.                                                                      *)
(*                                                                            *)
(* A line is the thread and the number of its call; writing it takes two      *)
(* steps. Sinks are added without a lock, so they are added before threads    *)
(* log, as main() does; the log level and the flush flag change at any time.  *)
EXTENDS Integers, Sequences, FiniteSets

CONSTANTS
  Threads,
  Configured,  \* the sinks main() adds: streams with levels, in order
  MaxLines,    \* calls of LOG by one thread
  None         \* no thread

ERROR == 3
Levels == 0 .. ERROR   \* DEBUG, INFO, WARN, ERROR
WARN == 2

ASSUME LoggerAssumption ==
  /\ MaxLines \in Nat
  /\ None \notin Threads
  /\ Configured \in Seq([level : Levels])

VARIABLES
  level, forceFlush,  \* Logger::_level, _forceFlush
  made,        \* Logger objects constructed; the singleton exists if it is not 0
  instanceMutex,   \* the thread inside getInstance
  sinks,       \* _sinks, each with the thread that holds its mutex
  streams,     \* for each sink, what was written to its stream
  pc,          \* of each thread: where in LOG it is
  line,        \* its line: the number of the call and the level
  at           \* the sink it is at

vars == <<level, forceFlush, made, instanceMutex, sinks, streams, pc, line, at>>

(* What a stream is made of: the parts of lines.                              *)
Pieces == [thread : Threads, call : 1 .. MaxLines, part : {"first", "last"}]

Steps == {"idle", "get", "inside", "leave", "stream", "sinks", "write", "flush"}

TypeOK ==
  /\ level \in Levels /\ forceFlush \in BOOLEAN
  /\ made \in 0 .. 1
  /\ instanceMutex \in Threads \cup {None}
  /\ sinks \in Seq([level : Levels, mutex : Threads \cup {None}])
  /\ Len(sinks) <= Len(Configured)
  /\ streams \in Seq(Seq(Pieces)) /\ Len(streams) = Len(sinks)
  /\ pc \in [Threads -> Steps]
  /\ line \in [Threads -> [call : 0 .. MaxLines, level : Levels]]
  /\ at \in [Threads -> 1 .. Len(Configured) + 1]

-----------------------------------------------------------------------------

Init ==
  /\ level = WARN /\ forceFlush = FALSE
  /\ made = 0 /\ instanceMutex = None
  /\ sinks = <<>> /\ streams = <<>>
  /\ pc = [t \in Threads |-> "idle"]
  /\ line = [t \in Threads |-> [call |-> 0, level |-> 0]]
  /\ at = [t \in Threads |-> 1]

(* main() before any thread logs: Logger::getInstance().addSink.              *)
AddSink ==
  /\ Len(sinks) < Len(Configured) /\ \A t \in Threads : line[t].call = 0
  /\ made' = 1
  /\ sinks' = Append(sinks, [level |-> Configured[Len(sinks) + 1].level, mutex |-> None])
  /\ streams' = Append(streams, <<>>)
  /\ UNCHANGED <<level, forceFlush, instanceMutex, pc, line, at>>

SetLogLevel ==
  /\ level' \in Levels
  /\ UNCHANGED <<forceFlush, made, instanceMutex, sinks, streams, pc, line, at>>

SetForceFlush ==
  /\ forceFlush' \in BOOLEAN
  /\ UNCHANGED <<level, made, instanceMutex, sinks, streams, pc, line, at>>

(* A thread comes to LOG(l, ...).                                             *)
Log(t, l) ==
  /\ pc[t] = "idle" /\ line[t].call < MaxLines
  /\ line' = [line EXCEPT ![t] = [call |-> @.call + 1, level |-> l]]
  /\ pc' = [pc EXCEPT ![t] = "get"]
  /\ UNCHANGED <<level, forceFlush, made, instanceMutex, sinks, streams, at>>

(* getInstance: with the mutex, the logger is made if there is none.          *)
EnterInstance(t) ==
  /\ pc[t] = "get" /\ instanceMutex = None
  /\ instanceMutex' = t
  /\ pc' = [pc EXCEPT ![t] = IF made = 0 THEN "inside" ELSE "leave"]
  /\ UNCHANGED <<level, forceFlush, made, sinks, streams, line, at>>

MakeInstance(t) ==
  /\ pc[t] = "inside"
  /\ made' = made + 1
  /\ pc' = [pc EXCEPT ![t] = "leave"]
  /\ UNCHANGED <<level, forceFlush, instanceMutex, sinks, streams, line, at>>

(* getInstance returns and gives its mutex back.                              *)
LeaveInstance(t) ==
  /\ pc[t] = "leave"
  /\ instanceMutex' = IF instanceMutex = t THEN None ELSE instanceMutex
  /\ pc' = [pc EXCEPT ![t] = "stream"]
  /\ UNCHANGED <<level, forceFlush, made, sinks, streams, line, at>>

(* The LogStream raises the level of a message that is below the level of the *)
(* logger.                                                                    *)
OpenStream(t) ==
  /\ pc[t] = "stream"
  /\ line' = [line EXCEPT ![t].level = IF @ < level THEN level ELSE @]
  /\ at' = [at EXCEPT ![t] = 1]
  /\ pc' = [pc EXCEPT ![t] = "sinks"]
  /\ UNCHANGED <<level, forceFlush, made, instanceMutex, sinks, streams>>

Piece(t, part) == [thread |-> t, call |-> line[t].call, part |-> part]

SkipSink(t) ==
  /\ pc[t] = "sinks" /\ at[t] <= Len(sinks)
  /\ sinks[at[t]].level > line[t].level
  /\ at' = [at EXCEPT ![t] = @ + 1]
  /\ UNCHANGED <<level, forceFlush, made, instanceMutex, sinks, streams, pc, line>>

MutantWriteUnlocked(t) ==
  /\ pc[t] = "sinks" /\ at[t] <= Len(sinks)
  /\ sinks[at[t]].level <= line[t].level
  /\ streams' = [streams EXCEPT ![at[t]] = Append(@, Piece(t, "first"))]
  /\ pc' = [pc EXCEPT ![t] = "write"]
  /\ UNCHANGED <<level, forceFlush, made, instanceMutex, sinks, line, at>>

MutantIgnoresLevel(t) ==
  /\ pc[t] = "sinks" /\ at[t] <= Len(sinks)
  /\ sinks[at[t]].mutex = None
  /\ sinks' = [sinks EXCEPT ![at[t]].mutex = t]
  /\ streams' = [streams EXCEPT ![at[t]] = Append(@, Piece(t, "first"))]
  /\ pc' = [pc EXCEPT ![t] = "write"]
  /\ UNCHANGED <<level, forceFlush, made, instanceMutex, line, at>>

WriteLine(t) ==
  /\ pc[t] = "sinks" /\ at[t] <= Len(sinks)
  /\ sinks[at[t]].level <= line[t].level /\ sinks[at[t]].mutex = None
  /\ sinks' = [sinks EXCEPT ![at[t]].mutex = t]
  /\ streams' = [streams EXCEPT ![at[t]] = Append(@, Piece(t, "first"))]
  /\ pc' = [pc EXCEPT ![t] = "write"]
  /\ UNCHANGED <<level, forceFlush, made, instanceMutex, line, at>>

MutantKeepsSink(t) ==
  /\ pc[t] = "write"
  /\ streams' = [streams EXCEPT ![at[t]] = Append(@, Piece(t, "last"))]
  /\ at' = [at EXCEPT ![t] = @ + 1]
  /\ pc' = [pc EXCEPT ![t] = "sinks"]
  /\ UNCHANGED <<level, forceFlush, made, instanceMutex, sinks, line>>

EndLine(t) ==
  /\ pc[t] = "write"
  /\ streams' = [streams EXCEPT ![at[t]] = Append(@, Piece(t, "last"))]
  /\ sinks' = [sinks EXCEPT ![at[t]].mutex = IF @ = t THEN None ELSE @]
  /\ at' = [at EXCEPT ![t] = @ + 1]
  /\ pc' = [pc EXCEPT ![t] = "sinks"]
  /\ UNCHANGED <<level, forceFlush, made, instanceMutex, line>>

(* The buffer is given up, so a second logend writes nothing; the streams are *)
(* flushed, without their mutexes, if the flag says so.                       *)
EndLog(t) ==
  /\ pc[t] = "sinks" /\ at[t] = Len(sinks) + 1
  /\ pc' = [pc EXCEPT ![t] = IF forceFlush THEN "flush" ELSE "idle"]
  /\ UNCHANGED <<level, forceFlush, made, instanceMutex, sinks, streams, line, at>>

Flush(t) ==
  /\ pc[t] = "flush"
  /\ pc' = [pc EXCEPT ![t] = "idle"]
  /\ UNCHANGED <<level, forceFlush, made, instanceMutex, sinks, streams, line, at>>

Step(t) ==
  \/ EnterInstance(t) \/ MakeInstance(t) \/ LeaveInstance(t) \/ OpenStream(t)
  \/ SkipSink(t) \/ WriteLine(t) \/ EndLine(t) \/ EndLog(t) \/ Flush(t)

Next ==
  \/ AddSink \/ SetLogLevel \/ SetForceFlush
  \/ \E t \in Threads : Step(t) \/ \E l \in Levels : Log(t, l)

Spec == Init /\ [][Next]_vars

(* A thread inside LOG runs on; nothing obliges one to log.                   *)
FairSpec == Spec /\ \A t \in Threads : WF_vars(Step(t))

-----------------------------------------------------------------------------

(* Lines of different threads do not mix on a stream: the two parts of a line *)
(* are next to each other, however the threads interleave.                    *)
WholeLines ==
  \A k \in DOMAIN streams : \A i \in DOMAIN streams[k] :
    LET piece == streams[k][i]
    IN  /\ piece.part = "first" /\ i < Len(streams[k]) =>
             streams[k][i + 1] = [piece EXCEPT !.part = "last"]
        /\ piece.part = "last" =>
             i > 1 /\ streams[k][i - 1] = [piece EXCEPT !.part = "first"]

(* One logger, and whole lines on every stream.                               *)
LinesIntact == TypeOK /\ WholeLines

(* When LOG returns, the line is once in each sink whose level admits the     *)
(* raised level of the message, and in no other, although the level of the    *)
(* logger may have changed meanwhile.                                         *)
WrittenOnce ==
  [][\A t \in Threads : pc[t] # "idle" /\ pc'[t] = "idle" =>
       \A k \in DOMAIN sinks :
         Cardinality({i \in DOMAIN streams[k] : streams[k][i] = Piece(t, "last")})
           = IF sinks[k].level <= line[t].level THEN 1 ELSE 0]_vars

(* Every call of LOG returns: no mutex is left locked.                        *)
LogReturns == \A t \in Threads : pc[t] # "idle" ~> pc[t] = "idle"

=============================================================================
