---------------------------- MODULE LoggerProofs ----------------------------
(* What holds of the logger for any number of threads, sinks and lines.       *)
EXTENDS Logger, TLAPS, SequenceTheorems, FiniteSetTheorems

(* The mutex of getInstance is held by a thread that is inside, so only one   *)
(* of them can find that no logger was made; and only threads that log are    *)
(* inside, so main() adds its sinks while nobody is.                          *)
InstanceInv ==
  /\ \A t \in Threads : pc[t] \in {"inside", "leave"} => instanceMutex = t
  /\ \A t \in Threads : pc[t] = "inside" => made = 0
  /\ \A t \in Threads : pc[t] # "idle" => line[t].call > 0

(* A thread that has written the first part of its line holds the mutex of    *)
(* the sink, and that part is the end of the stream.                          *)
WriterHolds ==
  \A t \in Threads : pc[t] = "write" =>
    /\ at[t] \in DOMAIN sinks
    /\ sinks[at[t]].mutex = t
    /\ streams[at[t]] # <<>>
    /\ streams[at[t]][Len(streams[at[t]])] = Piece(t, "first")

(* A stream whose mutex is free ends with a whole line, or is empty.          *)
FreeIsWhole ==
  \A k \in DOMAIN sinks :
    sinks[k].mutex = None /\ streams[k] # <<>> => streams[k][Len(streams[k])].part = "last"

LoggerInv == TypeOK /\ InstanceInv /\ WriterHolds /\ FreeIsWhole /\ WholeLines

(* One stream on its own: parts of a line are neighbours.                     *)
Whole(stream) ==
  \A i \in DOMAIN stream :
    /\ stream[i].part = "first" /\ i < Len(stream) =>
         stream[i + 1] = [stream[i] EXCEPT !.part = "last"]
    /\ stream[i].part = "last" =>
         i > 1 /\ stream[i - 1] = [stream[i] EXCEPT !.part = "first"]

-----------------------------------------------------------------------------

LEMMA WholeLinesByStream == WholeLines <=> \A k \in DOMAIN streams : Whole(streams[k])
  BY DEF WholeLines, Whole

(* The first part of a line may follow a whole line.                          *)
LEMMA AppendFirst ==
  ASSUME NEW stream \in Seq(Pieces), NEW piece \in Pieces, Whole(stream),
         piece.part = "first",
         stream # <<>> => stream[Len(stream)].part = "last"
  PROVE  Whole(Append(stream, piece))
<1> DEFINE longer == Append(stream, piece)
<1>1. /\ longer \in Seq(Pieces) /\ Len(longer) = Len(stream) + 1 /\ Len(stream) \in Nat
      /\ longer[Len(stream) + 1] = piece
      /\ \A i \in 1 .. Len(stream) : longer[i] = stream[i]
  BY AppendProperties, LenProperties
<1> SUFFICES ASSUME NEW i \in 1 .. Len(stream) + 1
             PROVE  /\ longer[i].part = "first" /\ i < Len(longer) =>
                         longer[i + 1] = [longer[i] EXCEPT !.part = "last"]
                    /\ longer[i].part = "last" =>
                         i > 1 /\ longer[i - 1] = [longer[i] EXCEPT !.part = "first"]
  BY <1>1 DEF Whole
<1> HIDE DEF longer
<1>2. CASE i = Len(stream) + 1
  BY <1>1, <1>2
<1>3. CASE i = Len(stream)
  <2>1. i \in DOMAIN stream /\ stream # <<>>
    BY <1>1, <1>3, EmptySeq, LenProperties
  <2>2. longer[i] = stream[i] /\ stream[i].part = "last"
    BY <1>1, <1>3, <2>1
  <2>3. i > 1 /\ stream[i - 1] = [stream[i] EXCEPT !.part = "first"]
    BY <2>1, <2>2 DEF Whole
  <2>4. longer[i - 1] = stream[i - 1]
    BY <1>1, <1>3, <2>3
  <2> QED
    BY <2>2, <2>3, <2>4
<1>4. CASE i < Len(stream)
  <2>1. i \in DOMAIN stream /\ longer[i] = stream[i] /\ longer[i + 1] = stream[i + 1]
    BY <1>1, <1>4, LenProperties
  <2>2. i > 1 => longer[i - 1] = stream[i - 1]
    BY <1>1, <1>4
  <2> QED
    BY <2>1, <2>2, <1>4 DEF Whole
<1> QED
  BY <1>1, <1>2, <1>3, <1>4

(* The last part of a line may follow its first.                              *)
LEMMA AppendLast ==
  ASSUME NEW stream \in Seq(Pieces), NEW piece \in Pieces, Whole(stream),
         piece.part = "last", stream # <<>>,
         stream[Len(stream)] = [piece EXCEPT !.part = "first"]
  PROVE  Whole(Append(stream, piece))
<1> DEFINE longer == Append(stream, piece)
<1>1. /\ longer \in Seq(Pieces) /\ Len(longer) = Len(stream) + 1 /\ Len(stream) \in Nat \ {0}
      /\ longer[Len(stream) + 1] = piece
      /\ \A i \in 1 .. Len(stream) : longer[i] = stream[i]
  BY AppendProperties, LenProperties, EmptySeq
<1>2. piece = [stream[Len(stream)] EXCEPT !.part = "last"]
  BY DEF Pieces
<1> SUFFICES ASSUME NEW i \in 1 .. Len(stream) + 1
             PROVE  /\ longer[i].part = "first" /\ i < Len(longer) =>
                         longer[i + 1] = [longer[i] EXCEPT !.part = "last"]
                    /\ longer[i].part = "last" =>
                         i > 1 /\ longer[i - 1] = [longer[i] EXCEPT !.part = "first"]
  BY <1>1 DEF Whole
<1> HIDE DEF longer
<1>3. CASE i = Len(stream) + 1
  BY <1>1, <1>3
<1>4. CASE i = Len(stream)
  <2>1. longer[i] = stream[i] /\ longer[i + 1] = piece /\ stream[i].part = "first"
    BY <1>1, <1>4 DEF Pieces
  <2> QED
    BY <1>2, <1>4, <2>1
<1>5. CASE i < Len(stream)
  BY <1>1, <1>5 DEF Whole
<1> QED
  BY <1>1, <1>3, <1>4, <1>5

(* A piece of the line a thread is at.                                        *)
LEMMA PieceType ==
  ASSUME LoggerInv, NEW t \in Threads, pc[t] # "idle", NEW part \in {"first", "last"}
  PROVE  Piece(t, part) \in Pieces
<1>1. line[t].call \in 0 .. MaxLines /\ line[t].call > 0
  BY DEF LoggerInv, TypeOK, InstanceInv
<1> QED
  BY <1>1, LoggerAssumption DEF Piece, Pieces

(* Where a thread may be in its line, it may write: the sink exists.          *)
LEMMA SinkFacts ==
  ASSUME LoggerInv, NEW k \in Nat, k >= 1, k <= Len(sinks)
  PROVE  /\ k \in DOMAIN sinks /\ k \in DOMAIN streams
         /\ sinks[k] \in [level : Levels, mutex : Threads \cup {None}]
         /\ streams[k] \in Seq(Pieces)
<1>1. /\ sinks \in Seq([level : Levels, mutex : Threads \cup {None}])
      /\ streams \in Seq(Seq(Pieces)) /\ Len(streams) = Len(sinks)
  BY DEF LoggerInv, TypeOK
<1>2. k \in 1 .. Len(sinks) /\ k \in 1 .. Len(streams)
  BY <1>1, LenProperties
<1> QED
  BY <1>1, <1>2, ElementOfSeq, LenProperties

(* A step that writes nothing and starts no write keeps the lines whole.      *)
LEMMA NothingWritten ==
  ASSUME LoggerInv, UNCHANGED <<sinks, streams>>,
         \A u \in Threads : pc'[u] = "write" =>
           pc[u] = "write" /\ at'[u] = at[u] /\ line'[u].call = line[u].call
  PROVE  WriterHolds' /\ FreeIsWhole' /\ WholeLines'
<1>1. WriterHolds'
  BY DEF LoggerInv, WriterHolds, Piece
<1>2. FreeIsWhole'
  BY DEF LoggerInv, FreeIsWhole
<1>3. WholeLines'
  BY DEF LoggerInv, WholeLines
<1> QED
  BY <1>1, <1>2, <1>3

LEMMA AddSinkKeepsInv == ASSUME LoggerInv, AddSink PROVE LoggerInv'
<1> DEFINE sink == [level |-> Configured[Len(sinks) + 1].level, mutex |-> None]
<1>1. /\ sinks \in Seq([level : Levels, mutex : Threads \cup {None}])
      /\ streams \in Seq(Seq(Pieces)) /\ Len(streams) = Len(sinks)
      /\ Len(sinks) \in Nat /\ Len(sinks) < Len(Configured) /\ Len(Configured) \in Nat
      /\ Configured \in Seq([level : Levels])
  BY LoggerAssumption, LenProperties DEF LoggerInv, TypeOK, AddSink
<1>2. \A t \in Threads : pc[t] = "idle"
  <2> SUFFICES ASSUME NEW t \in Threads PROVE pc[t] = "idle"
    OBVIOUS
  <2>1. line[t].call = 0 /\ (pc[t] # "idle" => line[t].call > 0)
    BY DEF AddSink, LoggerInv, InstanceInv
  <2> QED
    BY <2>1
<1>3. sink \in [level : Levels, mutex : Threads \cup {None}]
  <2>1. Len(sinks) + 1 \in 1 .. Len(Configured)
    BY <1>1
  <2>2. Configured[Len(sinks) + 1] \in [level : Levels]
    BY <1>1, <2>1, ElementOfSeq
  <2> QED
    BY <2>2
<1>4. sinks' = Append(sinks, sink) /\ streams' = Append(streams, <<>>) /\ made' = 1
      /\ UNCHANGED <<level, forceFlush, instanceMutex, pc, line, at>>
  BY DEF AddSink
<1> HIDE DEF sink
<1>5. /\ sinks' \in Seq([level : Levels, mutex : Threads \cup {None}])
      /\ Len(sinks') = Len(sinks) + 1
      /\ \A k \in 1 .. Len(sinks) : sinks'[k] = sinks[k]
      /\ DOMAIN sinks' = 1 .. Len(sinks) + 1 /\ DOMAIN sinks = 1 .. Len(sinks)
  BY <1>1, <1>3, <1>4, AppendProperties, LenProperties
<1>6. /\ streams' \in Seq(Seq(Pieces)) /\ Len(streams') = Len(sinks')
      /\ \A k \in 1 .. Len(sinks) : streams'[k] = streams[k]
      /\ streams'[Len(sinks) + 1] = <<>>
      /\ DOMAIN streams' = 1 .. Len(sinks) + 1 /\ DOMAIN streams = 1 .. Len(sinks)
  <2>1. <<>> \in Seq(Pieces)
    BY EmptySeq
  <2> QED
    BY <2>1, <1>1, <1>4, <1>5, AppendProperties, LenProperties
<1>7. TypeOK'
  BY <1>1, <1>4, <1>5, <1>6 DEF LoggerInv, TypeOK
<1>8. InstanceInv' /\ WriterHolds'
  BY <1>2, <1>4 DEF InstanceInv, WriterHolds
<1>9. FreeIsWhole'
  <2> SUFFICES ASSUME NEW k \in 1 .. Len(sinks) + 1,
                      sinks'[k].mutex = None, streams'[k] # <<>>
               PROVE  streams'[k][Len(streams'[k])].part = "last"
    BY <1>5 DEF FreeIsWhole
  <2>1. k \in 1 .. Len(sinks)
    BY <1>1, <1>6
  <2> QED
    BY <2>1, <1>5, <1>6 DEF LoggerInv, FreeIsWhole
<1>10. WholeLines'
  <2> SUFFICES ASSUME NEW k \in 1 .. Len(sinks) + 1 PROVE Whole(streams'[k])
    BY <1>6 DEF WholeLines, Whole
  <2>1. CASE k \in 1 .. Len(sinks)
    BY <2>1, <1>6, WholeLinesByStream DEF LoggerInv
  <2>2. CASE k = Len(sinks) + 1
    BY <2>2, <1>6, EmptySeq DEF Whole
  <2> QED
    BY <1>1, <2>1, <2>2
<1> QED
  BY <1>7, <1>8, <1>9, <1>10 DEF LoggerInv

LEMMA SettingsKeepInv == ASSUME LoggerInv, SetLogLevel \/ SetForceFlush PROVE LoggerInv'
<1>1. level' \in Levels /\ forceFlush' \in BOOLEAN
      /\ UNCHANGED <<made, instanceMutex, sinks, streams, pc, line, at>>
  BY DEF SetLogLevel, SetForceFlush, LoggerInv, TypeOK
<1>2. WriterHolds' /\ FreeIsWhole' /\ WholeLines'
  BY <1>1, NothingWritten
<1> QED
  BY <1>1, <1>2 DEF LoggerInv, TypeOK, InstanceInv

LEMMA LogKeepsInv ==
  ASSUME LoggerInv, NEW t \in Threads, NEW l \in Levels, Log(t, l) PROVE LoggerInv'
<1>1. /\ line' = [line EXCEPT ![t] = [call |-> @.call + 1, level |-> l]]
      /\ pc' = [pc EXCEPT ![t] = "get"]
      /\ pc[t] = "idle" /\ line[t].call < MaxLines
      /\ UNCHANGED <<level, forceFlush, made, instanceMutex, sinks, streams, at>>
  BY DEF Log
<1>2. /\ line \in [Threads -> [call : 0 .. MaxLines, level : Levels]]
      /\ pc \in [Threads -> Steps]
  BY DEF LoggerInv, TypeOK
<1>3. line[t].call + 1 \in 1 .. MaxLines
  BY <1>1, <1>2, LoggerAssumption
<1>4. TypeOK'
  BY <1>1, <1>2, <1>3 DEF LoggerInv, TypeOK, Steps
<1>5. InstanceInv'
  BY <1>1, <1>2, <1>3 DEF LoggerInv, InstanceInv
<1>6. WriterHolds' /\ FreeIsWhole' /\ WholeLines'
  BY <1>1, <1>2, NothingWritten
<1> QED
  BY <1>4, <1>5, <1>6 DEF LoggerInv

(* getInstance and the opening of the stream: the mutex of the singleton.     *)
LEMMA InstanceKeepsInv ==
  ASSUME LoggerInv, NEW t \in Threads,
         EnterInstance(t) \/ MakeInstance(t) \/ LeaveInstance(t) \/ OpenStream(t)
  PROVE  LoggerInv'
<1>1. /\ line \in [Threads -> [call : 0 .. MaxLines, level : Levels]]
      /\ pc \in [Threads -> Steps] /\ level \in Levels
      /\ at \in [Threads -> 1 .. Len(Configured) + 1]
      /\ made \in 0 .. 1 /\ instanceMutex \in Threads \cup {None}
  BY DEF LoggerInv, TypeOK
<1>2. None \notin Threads /\ Len(Configured) \in Nat
  BY LoggerAssumption, LenProperties
<1>3. CASE EnterInstance(t)
  <2>1. TypeOK'
    BY <1>1, <1>3 DEF LoggerInv, TypeOK, EnterInstance, Steps
  <2>2. InstanceInv'
    BY <1>1, <1>2, <1>3 DEF LoggerInv, InstanceInv, EnterInstance
  <2>3. WriterHolds' /\ FreeIsWhole' /\ WholeLines'
    BY <1>1, <1>3, NothingWritten DEF EnterInstance
  <2> QED
    BY <2>1, <2>2, <2>3 DEF LoggerInv
<1>4. CASE MakeInstance(t)
  <2>1. TypeOK'
    BY <1>1, <1>4 DEF LoggerInv, TypeOK, InstanceInv, MakeInstance, Steps
  <2>2. InstanceInv'
    BY <1>1, <1>2, <1>4 DEF LoggerInv, InstanceInv, MakeInstance
  <2>3. WriterHolds' /\ FreeIsWhole' /\ WholeLines'
    BY <1>1, <1>4, NothingWritten DEF MakeInstance
  <2> QED
    BY <2>1, <2>2, <2>3 DEF LoggerInv
<1>5. CASE OpenStream(t)
  <2>1. line' \in [Threads -> [call : 0 .. MaxLines, level : Levels]]
        /\ \A u \in Threads : line'[u].call = line[u].call
    BY <1>1, <1>5 DEF OpenStream
  <2>2. TypeOK'
    BY <1>1, <1>2, <1>5, <2>1 DEF LoggerInv, TypeOK, OpenStream, Steps
  <2>3. InstanceInv'
    BY <1>1, <1>2, <1>5, <2>1 DEF LoggerInv, InstanceInv, OpenStream
  <2>4. WriterHolds' /\ FreeIsWhole' /\ WholeLines'
    BY <1>1, <1>5, <2>1, NothingWritten DEF OpenStream
  <2> QED
    BY <2>2, <2>3, <2>4 DEF LoggerInv
<1>6. CASE LeaveInstance(t)
  <2>1. TypeOK'
    BY <1>1, <1>2, <1>6 DEF LoggerInv, TypeOK, LeaveInstance, Steps
  <2>2. InstanceInv'
    BY <1>1, <1>2, <1>6 DEF LoggerInv, InstanceInv, LeaveInstance
  <2>3. WriterHolds' /\ FreeIsWhole' /\ WholeLines'
    BY <1>1, <1>6, NothingWritten DEF LeaveInstance
  <2> QED
    BY <2>1, <2>2, <2>3 DEF LoggerInv
<1> QED
  BY <1>3, <1>4, <1>5, <1>6

(* A sink is passed over, or the call ends.                                   *)
LEMMA PassingKeepsInv ==
  ASSUME LoggerInv, NEW t \in Threads, SkipSink(t) \/ EndLog(t) \/ Flush(t)
  PROVE  LoggerInv'
<1>1. /\ pc \in [Threads -> Steps] /\ at \in [Threads -> 1 .. Len(Configured) + 1]
      /\ Len(sinks) <= Len(Configured) /\ Len(sinks) \in Nat /\ Len(Configured) \in Nat
  BY LoggerAssumption, LenProperties DEF LoggerInv, TypeOK
<1>2. TypeOK'
  <2>1. pc' \in [Threads -> Steps]
    BY <1>1 DEF SkipSink, EndLog, Flush, Steps
  <2>2. at' \in [Threads -> 1 .. Len(Configured) + 1]
    BY <1>1 DEF SkipSink, EndLog, Flush
  <2>3. UNCHANGED <<level, forceFlush, made, instanceMutex, sinks, streams, line>>
    BY DEF SkipSink, EndLog, Flush
  <2> QED
    BY <2>1, <2>2, <2>3 DEF LoggerInv, TypeOK
<1>3. InstanceInv'
  BY <1>1 DEF LoggerInv, InstanceInv, SkipSink, EndLog, Flush
<1>4. /\ UNCHANGED <<sinks, streams, line>>
      /\ \A u \in Threads : pc'[u] = "write" => pc[u] = "write" /\ at'[u] = at[u]
  BY <1>1 DEF SkipSink, EndLog, Flush
<1>5. WriterHolds' /\ FreeIsWhole' /\ WholeLines'
  BY <1>4, NothingWritten
<1> QED
  BY <1>2, <1>3, <1>5 DEF LoggerInv

(* The first part goes to the end of a stream nobody else writes to.          *)
LEMMA WriteLineKeepsInv ==
  ASSUME LoggerInv, NEW t \in Threads, WriteLine(t) PROVE LoggerInv'
<1> DEFINE k == at[t]
           piece == Piece(t, "first")
<1>1. /\ pc \in [Threads -> Steps] /\ at \in [Threads -> 1 .. Len(Configured) + 1]
      /\ sinks \in Seq([level : Levels, mutex : Threads \cup {None}])
      /\ streams \in Seq(Seq(Pieces)) /\ Len(streams) = Len(sinks)
      /\ Len(sinks) \in Nat
      /\ DOMAIN sinks = 1 .. Len(sinks) /\ DOMAIN streams = 1 .. Len(sinks)
  BY LenProperties DEF LoggerInv, TypeOK
<1>2. k \in Nat /\ k >= 1 /\ k <= Len(sinks)
  BY <1>1, LoggerAssumption, LenProperties DEF WriteLine
<1>3. /\ sinks[k] \in [level : Levels, mutex : Threads \cup {None}]
      /\ streams[k] \in Seq(Pieces) /\ k \in 1 .. Len(sinks)
  BY <1>1, <1>2, SinkFacts
<1>4. piece \in Pieces /\ piece.part = "first"
  BY PieceType DEF WriteLine, Piece
<1>5. /\ sinks[k].mutex = None
      /\ sinks' = [sinks EXCEPT ![k] = [sinks[k] EXCEPT !.mutex = t]]
      /\ streams' = [streams EXCEPT ![k] = Append(streams[k], piece)]
      /\ pc' = [pc EXCEPT ![t] = "write"]
      /\ UNCHANGED <<level, forceFlush, made, instanceMutex, line, at>>
  BY DEF WriteLine
<1> HIDE DEF k, piece
<1>6. Append(streams[k], piece) \in Seq(Pieces)
      /\ Append(streams[k], piece) # <<>>
      /\ Append(streams[k], piece)[Len(Append(streams[k], piece))] = piece
  BY <1>3, <1>4, AppendProperties, LenProperties
<1>7. [sinks[k] EXCEPT !.mutex = t] \in [level : Levels, mutex : Threads \cup {None}]
      /\ [sinks[k] EXCEPT !.mutex = t].mutex = t
  BY <1>3
<1>8. /\ sinks' \in Seq([level : Levels, mutex : Threads \cup {None}])
      /\ Len(sinks') = Len(sinks) /\ DOMAIN sinks' = DOMAIN sinks
      /\ sinks'[k].mutex = t
      /\ \A j \in DOMAIN sinks : j # k => sinks'[j] = sinks[j]
  BY <1>1, <1>3, <1>5, <1>7, ExceptSeq
<1>9. /\ streams' \in Seq(Seq(Pieces)) /\ Len(streams') = Len(streams)
      /\ DOMAIN streams' = DOMAIN streams
      /\ streams'[k] = Append(streams[k], piece)
      /\ \A j \in DOMAIN sinks : j # k => streams'[j] = streams[j]
  BY <1>1, <1>3, <1>5, <1>6, ExceptSeq
<1>10. TypeOK'
  <2>1. pc' \in [Threads -> Steps]
    BY <1>1, <1>5 DEF Steps
  <2> QED
    BY <1>1, <1>5, <1>8, <1>9, <2>1 DEF LoggerInv, TypeOK
<1>11. InstanceInv'
  BY <1>1, <1>5 DEF LoggerInv, InstanceInv, WriteLine
<1>12. WriterHolds'
  <2> SUFFICES ASSUME NEW u \in Threads, pc'[u] = "write"
               PROVE  /\ at[u] \in DOMAIN sinks
                      /\ sinks'[at[u]].mutex = u
                      /\ streams'[at[u]] # <<>>
                      /\ streams'[at[u]][Len(streams'[at[u]])] = Piece(u, "first")
    BY <1>5, <1>8 DEF WriterHolds, Piece
  <2>1. CASE u = t
    BY <2>1, <1>1, <1>3, <1>6, <1>8, <1>9 DEF k, piece
  <2>2. CASE u # t
    <3>1. pc[u] = "write"
      BY <1>1, <1>5, <2>2
    <3>2. /\ at[u] \in DOMAIN sinks /\ sinks[at[u]].mutex = u
          /\ streams[at[u]] # <<>>
          /\ streams[at[u]][Len(streams[at[u]])] = Piece(u, "first")
      BY <3>1 DEF LoggerInv, WriterHolds
    <3>3. at[u] # k
      BY <3>2, <1>5, LoggerAssumption
    <3> QED
      BY <3>2, <3>3, <1>8, <1>9
  <2> QED
    BY <2>1, <2>2
<1>13. FreeIsWhole'
  <2> SUFFICES ASSUME NEW j \in DOMAIN sinks, sinks'[j].mutex = None, streams'[j] # <<>>
               PROVE  streams'[j][Len(streams'[j])].part = "last"
    BY <1>8 DEF FreeIsWhole
  <2>1. j # k
    BY <1>8, LoggerAssumption
  <2> QED
    BY <2>1, <1>8, <1>9 DEF LoggerInv, FreeIsWhole
<1>14. WholeLines'
  <2> SUFFICES ASSUME NEW j \in DOMAIN sinks PROVE Whole(streams'[j])
    BY <1>1, <1>9 DEF WholeLines, Whole
  <2>1. Whole(streams[j])
    BY <1>1, WholeLinesByStream DEF LoggerInv
  <2>2. CASE j = k
    <3>1. streams[k] # <<>> => streams[k][Len(streams[k])].part = "last"
      BY <1>1, <1>3, <1>5 DEF LoggerInv, FreeIsWhole
    <3> QED
      BY <2>1, <2>2, <3>1, <1>3, <1>4, <1>9, AppendFirst
  <2>3. CASE j # k
    BY <2>1, <2>3, <1>9
  <2> QED
    BY <2>2, <2>3
<1> QED
  BY <1>10, <1>11, <1>12, <1>13, <1>14 DEF LoggerInv

(* The last part follows the first, which the mutex kept at the end.          *)
LEMMA EndLineKeepsInv ==
  ASSUME LoggerInv, NEW t \in Threads, EndLine(t) PROVE LoggerInv'
<1> DEFINE k == at[t]
           piece == Piece(t, "last")
<1>1. /\ pc \in [Threads -> Steps] /\ at \in [Threads -> 1 .. Len(Configured) + 1]
      /\ sinks \in Seq([level : Levels, mutex : Threads \cup {None}])
      /\ streams \in Seq(Seq(Pieces)) /\ Len(streams) = Len(sinks)
      /\ Len(sinks) \in Nat /\ Len(sinks) <= Len(Configured) /\ Len(Configured) \in Nat
      /\ DOMAIN sinks = 1 .. Len(sinks) /\ DOMAIN streams = 1 .. Len(sinks)
  BY LoggerAssumption, LenProperties DEF LoggerInv, TypeOK
<1>2. /\ k \in DOMAIN sinks /\ sinks[k].mutex = t /\ streams[k] # <<>>
      /\ streams[k][Len(streams[k])] = Piece(t, "first")
  BY DEF LoggerInv, WriterHolds, EndLine
<1>3. /\ sinks[k] \in [level : Levels, mutex : Threads \cup {None}]
      /\ streams[k] \in Seq(Pieces) /\ k \in 1 .. Len(sinks)
  BY <1>1, <1>2, SinkFacts
<1>4. /\ piece \in Pieces /\ piece.part = "last"
      /\ Piece(t, "first") = [piece EXCEPT !.part = "first"]
  BY PieceType DEF EndLine, Piece
<1>5. /\ sinks' = [sinks EXCEPT ![k] = [sinks[k] EXCEPT !.mutex = None]]
      /\ streams' = [streams EXCEPT ![k] = Append(streams[k], piece)]
      /\ at' = [at EXCEPT ![t] = k + 1]
      /\ pc' = [pc EXCEPT ![t] = "sinks"]
      /\ UNCHANGED <<level, forceFlush, made, instanceMutex, line>>
  BY <1>2 DEF EndLine
<1> HIDE DEF k, piece
<1>6. Append(streams[k], piece) \in Seq(Pieces)
      /\ Append(streams[k], piece)[Len(Append(streams[k], piece))] = piece
  BY <1>3, <1>4, AppendProperties, LenProperties
<1>7. [sinks[k] EXCEPT !.mutex = None] \in [level : Levels, mutex : Threads \cup {None}]
  BY <1>3
<1>8. /\ sinks' \in Seq([level : Levels, mutex : Threads \cup {None}])
      /\ Len(sinks') = Len(sinks) /\ DOMAIN sinks' = DOMAIN sinks
      /\ \A j \in DOMAIN sinks : j # k => sinks'[j] = sinks[j]
  BY <1>1, <1>3, <1>5, <1>7, ExceptSeq
<1>9. /\ streams' \in Seq(Seq(Pieces)) /\ Len(streams') = Len(streams)
      /\ DOMAIN streams' = DOMAIN streams
      /\ streams'[k] = Append(streams[k], piece)
      /\ \A j \in DOMAIN sinks : j # k => streams'[j] = streams[j]
  BY <1>1, <1>3, <1>5, <1>6, ExceptSeq
<1>10. TypeOK'
  <2>1. pc' \in [Threads -> Steps]
    BY <1>1, <1>5 DEF Steps
  <2>2. at' \in [Threads -> 1 .. Len(Configured) + 1]
    BY <1>1, <1>3, <1>5
  <2> QED
    BY <1>1, <1>5, <1>8, <1>9, <2>1, <2>2 DEF LoggerInv, TypeOK
<1>11. InstanceInv'
  BY <1>1, <1>5 DEF LoggerInv, InstanceInv, EndLine
<1>12. WriterHolds'
  <2> SUFFICES ASSUME NEW u \in Threads, pc'[u] = "write"
               PROVE  /\ at'[u] \in DOMAIN sinks
                      /\ sinks'[at'[u]].mutex = u
                      /\ streams'[at'[u]] # <<>>
                      /\ streams'[at'[u]][Len(streams'[at'[u]])] = Piece(u, "first")
    BY <1>5, <1>8 DEF WriterHolds, Piece
  <2>1. u # t /\ pc[u] = "write" /\ at'[u] = at[u]
    BY <1>1, <1>5
  <2>2. /\ at[u] \in DOMAIN sinks /\ sinks[at[u]].mutex = u
        /\ streams[at[u]] # <<>>
        /\ streams[at[u]][Len(streams[at[u]])] = Piece(u, "first")
    BY <2>1 DEF LoggerInv, WriterHolds
  <2>3. at[u] # k
    BY <2>1, <2>2, <1>2
  <2> QED
    BY <2>1, <2>2, <2>3, <1>8, <1>9
<1>13. FreeIsWhole'
  <2> SUFFICES ASSUME NEW j \in DOMAIN sinks, sinks'[j].mutex = None, streams'[j] # <<>>
               PROVE  streams'[j][Len(streams'[j])].part = "last"
    BY <1>8 DEF FreeIsWhole
  <2>1. CASE j = k
    BY <2>1, <1>4, <1>6, <1>9
  <2>2. CASE j # k
    BY <2>2, <1>8, <1>9 DEF LoggerInv, FreeIsWhole
  <2> QED
    BY <2>1, <2>2
<1>14. WholeLines'
  <2> SUFFICES ASSUME NEW j \in DOMAIN sinks PROVE Whole(streams'[j])
    BY <1>1, <1>9 DEF WholeLines, Whole
  <2>1. Whole(streams[j])
    BY <1>1, WholeLinesByStream DEF LoggerInv
  <2>2. CASE j = k
    <3>1. Whole(streams[k]) /\ streams[k][Len(streams[k])] = [piece EXCEPT !.part = "first"]
      BY <2>1, <2>2, <1>2, <1>4
    <3>2. Whole(Append(streams[k], piece))
      BY <3>1, <1>2, <1>3, <1>4, AppendLast
    <3> QED
      BY <2>2, <3>2, <1>9
  <2>3. CASE j # k
    BY <2>1, <2>3, <1>9
  <2> QED
    BY <2>2, <2>3
<1> QED
  BY <1>10, <1>11, <1>12, <1>13, <1>14 DEF LoggerInv

-----------------------------------------------------------------------------

(* The inductive invariant of the logger.                                     *)
THEOREM LoggerInvariant == Spec => []LoggerInv
<1>1. Init => LoggerInv
  <2> SUFFICES ASSUME Init PROVE LoggerInv
    OBVIOUS
  <2>1. sinks = <<>> /\ streams = <<>> /\ \A t \in Threads : pc[t] = "idle"
    BY DEF Init
  <2>2. TypeOK
    <3>1. Len(Configured) \in Nat
      BY LoggerAssumption, LenProperties
    <3>2. /\ sinks \in Seq([level : Levels, mutex : Threads \cup {None}]) /\ Len(sinks) = 0
          /\ streams \in Seq(Seq(Pieces)) /\ Len(streams) = 0
      BY <2>1, EmptySeq
    <3>3. level \in Levels /\ line \in [Threads -> [call : 0 .. MaxLines, level : Levels]]
      BY LoggerAssumption DEF Init, Levels, WARN, ERROR
    <3>4. pc \in [Threads -> Steps] /\ at \in [Threads -> 1 .. Len(Configured) + 1]
      BY <3>1 DEF Init, Steps
    <3>5. made \in 0 .. 1 /\ instanceMutex \in Threads \cup {None}
      BY DEF Init
    <3>6. forceFlush \in BOOLEAN
      BY Zenon DEF Init
    <3> QED
      BY <3>1, <3>2, <3>3, <3>4, <3>5, <3>6 DEF TypeOK
  <2>3. DOMAIN sinks = {} /\ DOMAIN streams = {}
    BY <2>1, EmptySeq
  <2> QED
    BY <2>1, <2>2, <2>3
    DEF LoggerInv, InstanceInv, WriterHolds, FreeIsWhole, WholeLines
<1>2. LoggerInv /\ [Next]_vars => LoggerInv'
  <2> SUFFICES ASSUME LoggerInv, [Next]_vars PROVE LoggerInv'
    OBVIOUS
  <2>1. CASE UNCHANGED vars
    <3>1. WriterHolds' /\ FreeIsWhole' /\ WholeLines'
      BY <2>1, NothingWritten DEF vars
    <3> QED
      BY <2>1, <3>1 DEF vars, LoggerInv, TypeOK, InstanceInv
  <2> QED
    BY <2>1, AddSinkKeepsInv, SettingsKeepInv, LogKeepsInv, InstanceKeepsInv,
       PassingKeepsInv, WriteLineKeepsInv, EndLineKeepsInv
    DEF Next, Step
<1> QED
  BY <1>1, <1>2, PTL DEF Spec

(* However many threads log at once, to however many sinks: one logger is     *)
(* made, and no line is torn by another on any stream.                        *)
THEOREM LinesIntactHolds == Spec => []LinesIntact
<1>1. LoggerInv => LinesIntact
  BY DEF LoggerInv, LinesIntact
<1> QED
  BY <1>1, LoggerInvariant, PTL

-----------------------------------------------------------------------------
(* Each line once on each stream it belongs to.                               *)

(* The places of the line that thread t is at on stream k.                    *)
Copies(t, k) == {i \in DOMAIN streams[k] : streams[k][i] = Piece(t, "last")}

(* No stream holds a line that t has not come to, or the one it is at before  *)
(* it has come to the sinks.                                                  *)
NotAhead(t) ==
  \A k \in DOMAIN streams : \A i \in DOMAIN streams[k] :
    streams[k][i].thread = t =>
      /\ streams[k][i].call <= line[t].call
      /\ pc[t] \in {"get", "inside", "leave", "stream"} => streams[k][i].call < line[t].call

(* Sink k is done with the line of t.                                         *)
Settled(t, k) ==
  IF sinks[k].level <= line[t].level
    THEN \E i \in Copies(t, k) : Copies(t, k) = {i}
    ELSE Copies(t, k) = {}

(* The sinks before the one t is at are done, those from there on untouched.  *)
Progress(t, k) ==
  /\ pc[t] \in {"sinks", "write"} =>
       IF k < at[t] THEN Settled(t, k) ELSE Copies(t, k) = {}
  /\ pc[t] = "write" /\ k = at[t] => sinks[k].level <= line[t].level
  /\ pc[t] = "flush" => Settled(t, k)

OnceInv ==
  /\ LoggerInv
  /\ \A t \in Threads : NotAhead(t)
  /\ \A t \in Threads : \A k \in DOMAIN sinks : Progress(t, k)

(* What is known of a thread that does not move survives what moves another,  *)
(* as long as no stream changes.                                              *)
LEMMA StillThread ==
  ASSUME NEW t \in Threads, UNCHANGED <<sinks, streams, pc[t], at[t], line[t]>>
  PROVE  /\ NotAhead(t) => NotAhead(t)'
         /\ \A k \in DOMAIN sinks : Progress(t, k) => Progress(t, k)'
<1>1. NotAhead(t) => NotAhead(t)'
  BY DEF NotAhead
<1>2. \A k \in DOMAIN sinks : Copies(t, k)' = Copies(t, k)
  BY DEF Copies, Piece
<1>3. \A k \in DOMAIN sinks : Settled(t, k) => Settled(t, k)'
  BY <1>2 DEF Settled
<1> QED
  BY <1>1, <1>2, <1>3 DEF Progress

(* A step of one thread that writes nothing.                                  *)
LEMMA QuietStep ==
  ASSUME OnceInv, LoggerInv', NEW t \in Threads, UNCHANGED <<sinks, streams>>,
         \A u \in Threads : u # t => UNCHANGED <<pc[u], at[u], line[u]>>,
         NotAhead(t)', \A k \in DOMAIN sinks : Progress(t, k)'
  PROVE  OnceInv'
<1>1. ASSUME NEW u \in Threads, u # t
      PROVE  NotAhead(u)' /\ \A k \in DOMAIN sinks : Progress(u, k)'
  BY <1>1, StillThread DEF OnceInv
<1> QED
  BY <1>1 DEF OnceInv

(* One more part at the end of stream k: the lines of a thread whose line it  *)
(* does not end are where they were.                                          *)
LEMMA AppendedPart ==
  ASSUME LoggerInv, NEW k \in DOMAIN streams, NEW piece \in Pieces,
         streams' = [streams EXCEPT ![k] = Append(streams[k], piece)]
  PROVE  /\ DOMAIN streams' = DOMAIN streams
         /\ \A j \in DOMAIN streams : j # k => streams'[j] = streams[j]
         /\ Len(streams[k]) \in Nat
         /\ DOMAIN streams[k] = 1 .. Len(streams[k])
         /\ DOMAIN streams'[k] = 1 .. Len(streams[k]) + 1
         /\ streams'[k][Len(streams[k]) + 1] = piece
         /\ \A i \in DOMAIN streams[k] : streams'[k][i] = streams[k][i]
<1>1. streams \in Seq(Seq(Pieces))
  BY DEF LoggerInv, TypeOK
<1>2. streams[k] \in Seq(Pieces)
  BY <1>1, ElementOfSeq, LenProperties
<1>3. DOMAIN streams' = DOMAIN streams
  OBVIOUS
<1>4. streams'[k] = Append(streams[k], piece)
  OBVIOUS
<1> QED
  BY <1>2, <1>3, <1>4, AppendProperties, LenProperties

LEMMA AppendKeepsCopies ==
  ASSUME LoggerInv, NEW k \in DOMAIN streams, NEW piece \in Pieces,
         streams' = [streams EXCEPT ![k] = Append(streams[k], piece)],
         NEW t \in Threads, line'[t] = line[t], piece # Piece(t, "last")
  PROVE  \A j \in DOMAIN streams : Copies(t, j)' = Copies(t, j)
<1>1. Piece(t, "last")' = Piece(t, "last")
  BY DEF Piece
<1> SUFFICES ASSUME NEW j \in DOMAIN streams PROVE Copies(t, j)' = Copies(t, j)
  OBVIOUS
<1>2. CASE j # k
  BY <1>1, <1>2, AppendedPart DEF Copies
<1>3. CASE j = k
  <2>1. /\ DOMAIN streams'[k] = DOMAIN streams[k] \cup {Len(streams[k]) + 1}
        /\ streams'[k][Len(streams[k]) + 1] = piece
        /\ \A i \in DOMAIN streams[k] : streams'[k][i] = streams[k][i]
    BY AppendedPart
  <2> QED
    BY <1>1, <1>3, <2>1 DEF Copies
<1> QED
  BY <1>2, <1>3

(* A part a thread writes is of the line it is at.                            *)
LEMMA AppendKeepsNotAhead ==
  ASSUME LoggerInv, NEW k \in DOMAIN streams, NEW t \in Threads, NEW part,
         Piece(t, part) \in Pieces,
         streams' = [streams EXCEPT ![k] = Append(streams[k], Piece(t, part))],
         pc'[t] \notin {"get", "inside", "leave", "stream"},
         UNCHANGED line, NEW u \in Threads, u # t => pc'[u] = pc[u], NotAhead(u)
  PROVE  NotAhead(u)'
<1> DEFINE piece == Piece(t, part)
<1>1. piece \in Pieces /\ piece.thread = t /\ piece.call = line[t].call
  BY DEF Piece
<1> HIDE DEF piece
<1>2. streams' = [streams EXCEPT ![k] = Append(streams[k], piece)]
  BY DEF piece
<1>3. line[t].call \in Nat
  BY LoggerAssumption DEF LoggerInv, TypeOK
<1>4. /\ DOMAIN streams' = DOMAIN streams
      /\ \A j \in DOMAIN streams : j # k => streams'[j] = streams[j]
      /\ DOMAIN streams'[k] = DOMAIN streams[k] \cup {Len(streams[k]) + 1}
      /\ streams'[k][Len(streams[k]) + 1] = piece
      /\ \A i \in DOMAIN streams[k] : streams'[k][i] = streams[k][i]
  BY <1>1, <1>2, AppendedPart
<1> SUFFICES ASSUME NEW j \in DOMAIN streams', NEW i \in DOMAIN streams'[j],
                    streams'[j][i].thread = u
             PROVE  /\ streams'[j][i].call <= line[u].call
                    /\ pc'[u] \in {"get", "inside", "leave", "stream"} =>
                         streams'[j][i].call < line[u].call
  BY DEF NotAhead
<1>5. CASE j = k /\ i = Len(streams[k]) + 1
  BY <1>1, <1>3, <1>4, <1>5
<1>6. CASE j # k \/ i # Len(streams[k]) + 1
  <2>1. j \in DOMAIN streams /\ i \in DOMAIN streams[j] /\ streams'[j][i] = streams[j][i]
    BY <1>4, <1>6
  <2>2. pc'[u] \in {"get", "inside", "leave", "stream"} => pc[u] \in {"get", "inside", "leave", "stream"}
    OBVIOUS
  <2> QED
    BY <2>1, <2>2 DEF NotAhead
<1> QED
  BY <1>5, <1>6

(* What is known of one sink rests on its level and on its copies.            *)
LEMMA SameCopies ==
  ASSUME NEW t \in Threads, NEW k, UNCHANGED <<pc[t], at[t], line[t]>>,
         sinks'[k].level = sinks[k].level, Copies(t, k)' = Copies(t, k), Progress(t, k)
  PROVE  Progress(t, k)'
<1>1. Settled(t, k)' <=> Settled(t, k)
  BY DEF Settled
<1> QED
  BY <1>1 DEF Progress

LEMMA AddSinkOnce == ASSUME OnceInv, LoggerInv', AddSink PROVE OnceInv'
<1>1. /\ \A t \in Threads : line[t].call = 0
      /\ streams' = Append(streams, <<>>) /\ streams \in Seq(Seq(Pieces))
      /\ UNCHANGED <<pc, line, at>>
  BY DEF AddSink, OnceInv, LoggerInv, TypeOK
<1>2. \A t \in Threads : pc[t] = "idle"
  <2> SUFFICES ASSUME NEW t \in Threads PROVE pc[t] = "idle"
    OBVIOUS
  <2>1. line[t].call = 0 /\ (pc[t] # "idle" => line[t].call > 0)
    BY <1>1 DEF OnceInv, LoggerInv, InstanceInv
  <2> QED
    BY <2>1
<1>3. /\ DOMAIN streams' = 1 .. Len(streams) + 1 /\ DOMAIN streams = 1 .. Len(streams)
      /\ \A k \in DOMAIN streams : streams'[k] = streams[k]
      /\ streams'[Len(streams) + 1] = <<>> /\ Len(streams) \in Nat
  <2>1. <<>> \in Seq(Pieces)
    BY EmptySeq
  <2> QED
    BY <1>1, <2>1, AppendProperties, LenProperties
<1>4. ASSUME NEW t \in Threads PROVE NotAhead(t)'
  <2> SUFFICES ASSUME NEW k \in DOMAIN streams', NEW i \in DOMAIN streams'[k],
                      streams'[k][i].thread = t
               PROVE  streams'[k][i].call <= line[t].call
    BY <1>1, <1>2 DEF NotAhead
  <2>1. k # Len(streams) + 1
    BY <1>3, EmptySeq
  <2>2. k \in DOMAIN streams /\ streams'[k] = streams[k]
    BY <2>1, <1>3
  <2> QED
    BY <2>2 DEF OnceInv, NotAhead
<1>5. \A t \in Threads : \A k \in DOMAIN sinks' : Progress(t, k)'
  BY <1>1, <1>2 DEF Progress
<1> QED
  BY <1>4, <1>5 DEF OnceInv

LEMMA StillOnce ==
  ASSUME OnceInv, LoggerInv', UNCHANGED <<sinks, streams, pc, at, line>> PROVE OnceInv'
<1>1. \A t \in Threads : UNCHANGED <<pc[t], at[t], line[t]>>
  OBVIOUS
<1>2. ASSUME NEW t \in Threads
      PROVE  NotAhead(t)' /\ \A k \in DOMAIN sinks : Progress(t, k)'
  BY <1>1, StillThread DEF OnceInv
<1> QED
  BY <1>2 DEF OnceInv

(* A new call: what is on the streams is of earlier ones.                     *)
LEMMA LogOnce ==
  ASSUME OnceInv, LoggerInv', NEW t \in Threads, NEW l \in Levels, Log(t, l)
  PROVE  OnceInv'
<1>1. /\ pc[t] = "idle" /\ UNCHANGED <<sinks, streams, at>>
      /\ line' = [line EXCEPT ![t] = [call |-> @.call + 1, level |-> l]]
      /\ pc' = [pc EXCEPT ![t] = "get"]
      /\ line \in [Threads -> [call : 0 .. MaxLines, level : Levels]]
      /\ pc \in [Threads -> Steps]
      /\ streams \in Seq(Seq(Pieces))
  BY DEF Log, OnceInv, LoggerInv, TypeOK
<1>2. pc'[t] = "get" /\ line'[t].call = line[t].call + 1 /\ line[t].call \in Nat
  BY <1>1, LoggerAssumption
<1>3. NotAhead(t)'
  <2> SUFFICES ASSUME NEW k \in DOMAIN streams, NEW i \in DOMAIN streams[k],
                      streams[k][i].thread = t
               PROVE  /\ streams[k][i].call <= line'[t].call
                      /\ streams[k][i].call < line'[t].call
    BY <1>1 DEF NotAhead
  <2>1. streams[k][i].call <= line[t].call
    BY DEF OnceInv, NotAhead
  <2>2. streams[k] \in Seq(Pieces)
    BY <1>1, ElementOfSeq, LenProperties
  <2>3. streams[k][i] \in Pieces
    BY <2>2, ElementOfSeq, LenProperties
  <2>4. streams[k][i].call \in Nat
    BY <2>3, LoggerAssumption DEF Pieces
  <2> QED
    BY <2>1, <2>4, <1>2
<1>4. \A k \in DOMAIN sinks : Progress(t, k)'
  BY <1>2 DEF Progress
<1>5. \A u \in Threads : u # t => UNCHANGED <<pc[u], at[u], line[u]>>
  BY <1>1
<1> QED
  BY <1>1, <1>3, <1>4, <1>5, QuietStep

(* Inside getInstance nothing of the line is written; when the stream is      *)
(* opened the line gets the level that counts.                                *)
LEMMA InstanceOnce ==
  ASSUME OnceInv, LoggerInv', NEW t \in Threads,
         EnterInstance(t) \/ MakeInstance(t) \/ LeaveInstance(t) \/ OpenStream(t)
  PROVE  OnceInv'
<1>1. /\ line \in [Threads -> [call : 0 .. MaxLines, level : Levels]]
      /\ pc \in [Threads -> Steps] /\ at \in [Threads -> 1 .. Len(Configured) + 1]
  BY DEF OnceInv, LoggerInv, TypeOK
<1>2. /\ UNCHANGED <<sinks, streams>>
      /\ pc[t] \in {"get", "inside", "leave", "stream"}
      /\ line'[t].call = line[t].call
      /\ \A u \in Threads : u # t => UNCHANGED <<pc[u], at[u], line[u]>>
      /\ \/ pc'[t] \in {"inside", "leave", "stream"}
         \/ pc'[t] = "sinks" /\ at'[t] = 1
  BY <1>1 DEF EnterInstance, MakeInstance, LeaveInstance, OpenStream
<1>3. NotAhead(t)'
  BY <1>2 DEF OnceInv, NotAhead
<1>4. ASSUME NEW k \in DOMAIN sinks PROVE Progress(t, k)'
  <2>1. CASE pc'[t] \in {"inside", "leave", "stream"}
    BY <2>1 DEF Progress
  <2>2. CASE pc'[t] = "sinks" /\ at'[t] = 1
    <3>1. k \in DOMAIN streams /\ k >= 1
      BY LenProperties DEF OnceInv, LoggerInv, TypeOK
    <3>2. streams \in Seq(Seq(Pieces)) /\ line[t].call \in Nat
      BY <1>1, LoggerAssumption DEF OnceInv, LoggerInv, TypeOK
    <3>3. ASSUME NEW i \in DOMAIN streams[k] PROVE streams[k][i] # Piece(t, "last")'
      <4>1. streams[k][i].thread = t => streams[k][i].call < line[t].call
        BY <1>2, <3>1 DEF OnceInv, NotAhead
      <4>2. Piece(t, "last")'.thread = t /\ Piece(t, "last")'.call = line[t].call
        BY <1>2 DEF Piece
      <4> QED
        BY <4>1, <4>2, <3>2
    <3>4. Copies(t, k)' = {}
      BY <3>3, <1>2 DEF Copies
    <3>5. k \in Int
      BY LenProperties DEF OnceInv, LoggerInv, TypeOK
    <3>6. ~(k < 1)
      BY <3>1, <3>5
    <3> QED
      BY <2>2, <3>4, <3>6 DEF Progress
  <2> QED
    BY <2>1, <2>2, <1>2
<1> QED
  BY <1>2, <1>3, <1>4, QuietStep

LEMMA PassingOnce ==
  ASSUME OnceInv, LoggerInv', NEW t \in Threads, SkipSink(t) \/ EndLog(t) \/ Flush(t)
  PROVE  OnceInv'
<1>1. /\ pc \in [Threads -> Steps] /\ at \in [Threads -> 1 .. Len(Configured) + 1]
      /\ sinks \in Seq([level : Levels, mutex : Threads \cup {None}]) /\ at[t] \in Nat
      /\ DOMAIN sinks = 1 .. Len(sinks) /\ Len(sinks) \in Nat
      /\ line[t].level \in Levels
  BY LenProperties DEF OnceInv, LoggerInv, TypeOK
<1>2. /\ UNCHANGED <<sinks, streams, line>>
      /\ \A u \in Threads : u # t => UNCHANGED <<pc[u], at[u], line[u]>>
      /\ pc'[t] \in {"sinks", "flush", "idle"}
  BY <1>1 DEF SkipSink, EndLog, Flush
<1>3. NotAhead(t)'
  BY <1>2 DEF OnceInv, NotAhead
<1>4. ASSUME NEW k \in DOMAIN sinks PROVE Progress(t, k)'
  <2>1. Copies(t, k)' = Copies(t, k) /\ Progress(t, k)
    BY <1>2 DEF Copies, Piece, OnceInv
  <2>2. Settled(t, k)' <=> Settled(t, k)
    BY <2>1, <1>2 DEF Settled
  <2>3. CASE SkipSink(t)
    <3>1. /\ pc[t] = "sinks" /\ pc'[t] = "sinks" /\ at'[t] = at[t] + 1
          /\ sinks[at[t]].level > line[t].level
      BY <1>1, <2>3 DEF SkipSink
    <3>2. sinks[k].level \in Nat /\ line[t].level \in Nat
      <4>1. sinks[k] \in [level : Levels, mutex : Threads \cup {None}]
        BY <1>1, ElementOfSeq
      <4> QED
        BY <1>1, <4>1 DEF Levels, ERROR
    <3>3. k = at[t] => Settled(t, k)
      BY <2>1, <3>1, <3>2 DEF Progress, Settled
    <3> QED
      BY <1>1, <2>1, <2>2, <3>1, <3>3 DEF Progress
  <2>4. CASE EndLog(t)
    <3>1. /\ pc[t] = "sinks" /\ at[t] = Len(sinks) + 1 /\ pc'[t] \in {"flush", "idle"}
      BY <1>1, <2>4 DEF EndLog
    <3>2. Settled(t, k)
      BY <1>1, <2>1, <3>1 DEF Progress
    <3> QED
      BY <2>2, <3>1, <3>2 DEF Progress
  <2>5. CASE Flush(t)
    <3>1. pc'[t] = "idle"
      BY <1>1, <2>5 DEF Flush
    <3> QED
      BY <3>1 DEF Progress
  <2> QED
    BY <2>3, <2>4, <2>5
<1> QED
  BY <1>2, <1>3, <1>4, QuietStep

(* The first part of a line is not the line.                                  *)
LEMMA WriteLineOnce ==
  ASSUME OnceInv, LoggerInv', NEW t \in Threads, WriteLine(t) PROVE OnceInv'
<1> DEFINE k == at[t]
           piece == Piece(t, "first")
<1>1. /\ pc \in [Threads -> Steps] /\ at \in [Threads -> 1 .. Len(Configured) + 1]
      /\ sinks \in Seq([level : Levels, mutex : Threads \cup {None}])
      /\ Len(streams) = Len(sinks) /\ streams \in Seq(Seq(Pieces))
      /\ DOMAIN sinks = 1 .. Len(sinks) /\ DOMAIN streams = 1 .. Len(sinks)
      /\ Len(sinks) \in Nat /\ Len(Configured) \in Nat
  BY LoggerAssumption, LenProperties DEF OnceInv, LoggerInv, TypeOK
<1>2. /\ pc[t] = "sinks" /\ k <= Len(sinks) /\ sinks[k].level <= line[t].level
      /\ sinks' = [sinks EXCEPT ![k].mutex = t]
      /\ streams' = [streams EXCEPT ![k] = Append(streams[k], piece)]
      /\ pc' = [pc EXCEPT ![t] = "write"]
      /\ UNCHANGED <<line, at>>
  BY DEF WriteLine
<1>3. k \in DOMAIN streams /\ k \in DOMAIN sinks
  BY <1>1, <1>2
<1>4. piece \in Pieces /\ piece.part = "first"
  BY <1>2, PieceType DEF OnceInv, Piece
<1>5. \A j \in DOMAIN sinks : sinks'[j].level = sinks[j].level
  <2>1. \A j \in DOMAIN sinks : sinks[j] \in [level : Levels, mutex : Threads \cup {None}]
    BY <1>1, ElementOfSeq
  <2> QED
    BY <1>2, <1>3, <2>1
<1>6. ASSUME NEW u \in Threads, NEW j \in DOMAIN sinks PROVE Copies(u, j)' = Copies(u, j)
  <2>1. piece # Piece(u, "last")
    BY <1>4 DEF Piece
  <2> HIDE DEF piece, k
  <2> QED
    BY <1>1, <1>2, <1>3, <1>4, <2>1, AppendKeepsCopies DEF OnceInv
<1>7. ASSUME NEW u \in Threads PROVE NotAhead(u)'
  <2>1. pc'[t] \notin {"get", "inside", "leave", "stream"} /\ (u # t => pc'[u] = pc[u])
    BY <1>1, <1>2
  <2> HIDE DEF k
  <2> QED
    BY <1>2, <1>3, <1>4, <2>1, AppendKeepsNotAhead DEF OnceInv
<1>8. ASSUME NEW u \in Threads, NEW j \in DOMAIN sinks PROVE Progress(u, j)'
  <2>1. Progress(u, j) /\ Copies(u, j)' = Copies(u, j) /\ sinks'[j].level = sinks[j].level
    BY <1>5, <1>6 DEF OnceInv
  <2>2. CASE u # t
    BY <2>1, <2>2, <1>1, <1>2, SameCopies
  <2>3. CASE u = t
    <3>1. Settled(t, j)' <=> Settled(t, j)
      BY <2>1, <2>3, <1>2 DEF Settled
    <3>2. pc'[t] = "write" /\ at'[t] = k /\ line' = line
      BY <1>1, <1>2
    <3> QED
      BY <1>2, <2>1, <2>3, <3>1, <3>2 DEF Progress
  <2> QED
    BY <2>2, <2>3
<1>9. DOMAIN sinks' = DOMAIN sinks
  BY <1>2
<1> QED
  BY <1>7, <1>8, <1>9 DEF OnceInv

(* The last part makes one copy, where there was none.                        *)
LEMMA EndLineOnce ==
  ASSUME OnceInv, LoggerInv', NEW t \in Threads, EndLine(t) PROVE OnceInv'
<1> PICK k : k = at[t]
  OBVIOUS
<1> DEFINE piece == Piece(t, "last")
<1>1. /\ pc \in [Threads -> Steps] /\ at \in [Threads -> 1 .. Len(Configured) + 1]
      /\ sinks \in Seq([level : Levels, mutex : Threads \cup {None}])
      /\ Len(streams) = Len(sinks) /\ streams \in Seq(Seq(Pieces))
      /\ DOMAIN sinks = 1 .. Len(sinks) /\ DOMAIN streams = 1 .. Len(sinks)
      /\ Len(sinks) \in Nat /\ Len(Configured) \in Nat
  BY LoggerAssumption, LenProperties DEF OnceInv, LoggerInv, TypeOK
<1>2. /\ pc[t] = "write"
      /\ sinks' = [sinks EXCEPT ![k].mutex = IF @ = t THEN None ELSE @]
      /\ streams' = [streams EXCEPT ![k] = Append(streams[k], piece)]
      /\ at' = [at EXCEPT ![t] = k + 1]
      /\ pc' = [pc EXCEPT ![t] = "sinks"]
      /\ UNCHANGED line
  BY DEF EndLine
<1>3. k \in DOMAIN streams /\ k \in DOMAIN sinks /\ k \in Nat
  BY <1>1, <1>2 DEF OnceInv, LoggerInv, WriterHolds
<1>4. piece \in Pieces /\ piece.thread = t
  BY <1>2, PieceType DEF OnceInv, Piece
<1>5. \A j \in DOMAIN sinks : sinks'[j].level = sinks[j].level
  <2>1. \A j \in DOMAIN sinks : sinks[j] \in [level : Levels, mutex : Threads \cup {None}]
    BY <1>1, ElementOfSeq
  <2> QED
    BY <1>2, <1>3, <2>1
<1>6. ASSUME NEW u \in Threads PROVE NotAhead(u)'
  <2>1. pc'[t] \notin {"get", "inside", "leave", "stream"} /\ (u # t => pc'[u] = pc[u])
    BY <1>1, <1>2
  <2> QED
    BY <1>2, <1>3, <1>4, <2>1, AppendKeepsNotAhead DEF OnceInv
<1>7. ASSUME NEW u \in Threads, u # t, NEW j \in DOMAIN sinks PROVE Progress(u, j)'
  <2>1. piece # Piece(u, "last")
    BY <1>4, <1>7 DEF Piece
  <2> HIDE DEF piece
  <2>2. Copies(u, j)' = Copies(u, j)
    BY <1>1, <1>2, <1>3, <1>4, <2>1, AppendKeepsCopies DEF OnceInv
  <2> QED
    BY <2>2, <1>1, <1>2, <1>5, <1>7, SameCopies DEF OnceInv
<1>8. ASSUME NEW j \in DOMAIN sinks PROVE Progress(t, j)'
  <2>1. /\ DOMAIN streams'[k] = DOMAIN streams[k] \cup {Len(streams[k]) + 1}
        /\ streams'[k][Len(streams[k]) + 1] = piece
        /\ \A i \in DOMAIN streams[k] : streams'[k][i] = streams[k][i]
        /\ \A i \in DOMAIN streams : i # k => streams'[i] = streams[i]
    <3> HIDE DEF piece
    <3> QED
      BY <1>2, <1>3, <1>4, AppendedPart DEF OnceInv
  <2>2. Piece(t, "last")' = piece
    BY <1>2 DEF Piece
  <2>3. Progress(t, j) /\ Progress(t, k)
    BY <1>3 DEF OnceInv
  <2>4. pc'[t] = "sinks" /\ at'[t] = k + 1 /\ line' = line
    BY <1>1, <1>2
  <2>5. CASE j = k
    <3>1. Copies(t, k) = {} /\ sinks[k].level <= line[t].level
      BY <1>2, <1>3, <2>3 DEF Progress
    <3>2. ASSUME NEW i \in DOMAIN streams'[k]
          PROVE  streams'[k][i] = piece <=> i = Len(streams[k]) + 1
      <4>1. \A m \in DOMAIN streams[k] : streams[k][m] # piece
        BY <3>1 DEF Copies
      <4>2. Len(streams[k]) + 1 \notin DOMAIN streams[k]
        <5>1. streams[k] \in Seq(Pieces)
          BY <1>1, <1>3, ElementOfSeq
        <5> QED
          BY <5>1, LenProperties
      <4> HIDE DEF piece
      <4> QED
        BY <2>1, <4>1, <4>2
    <3>3. Copies(t, k)' = {Len(streams[k]) + 1}
      <4>1. Copies(t, k)' = {i \in DOMAIN streams'[k] : streams'[k][i] = piece}
        BY <2>2 DEF Copies
      <4>2. Len(streams[k]) + 1 \in DOMAIN streams'[k]
        BY <2>1
      <4> HIDE DEF piece
      <4> QED
        BY <3>2, <4>1, <4>2
    <3>4. sinks'[k].level = sinks[k].level
      BY <1>3, <1>5
    <3> HIDE DEF piece
    <3>5. Settled(t, k)'
      BY <3>1, <3>3, <3>4, <2>4 DEF Settled
    <3>6. k < k + 1
      BY <1>3
    <3> QED
      BY <2>4, <2>5, <3>5, <3>6 DEF Progress
  <2>6. CASE j # k
    <3>1. Copies(t, j)' = Copies(t, j)
      BY <1>1, <2>1, <2>2, <2>6 DEF Copies
    <3>2. Settled(t, j)' <=> Settled(t, j)
      BY <3>1, <1>5, <2>4 DEF Settled
    <3>3. j < k + 1 <=> j < k
      BY <1>1, <1>3, <2>6
    <3> QED
      BY <1>2, <2>3, <2>4, <3>1, <3>2, <3>3 DEF Progress
  <2> QED
    BY <2>5, <2>6
<1>9. DOMAIN sinks' = DOMAIN sinks
  BY <1>2
<1> QED
  BY <1>6, <1>7, <1>8, <1>9 DEF OnceInv

LEMMA NextOnce == OnceInv /\ LoggerInv' /\ [Next]_vars => OnceInv'
<1> SUFFICES ASSUME OnceInv, LoggerInv', [Next]_vars PROVE OnceInv'
  OBVIOUS
<1>1. CASE SetLogLevel \/ SetForceFlush \/ UNCHANGED vars
  <2>1. UNCHANGED <<sinks, streams, pc, at, line>>
    BY <1>1 DEF SetLogLevel, SetForceFlush, vars
  <2> QED
    BY <2>1, StillOnce
<1> QED
  BY <1>1, AddSinkOnce, LogOnce, InstanceOnce, PassingOnce, WriteLineOnce, EndLineOnce
  DEF Next, Step

(* A call that returns leaves every sink done with its line.                  *)
LEMMA ReturnSettled ==
  ASSUME OnceInv, [Next]_vars, NEW t \in Threads, pc[t] # "idle", pc'[t] = "idle",
         NEW k \in DOMAIN sinks
  PROVE  Settled(t, k)
<1>1. /\ pc \in [Threads -> Steps] /\ DOMAIN sinks = 1 .. Len(sinks) /\ Len(sinks) \in Nat
  BY LenProperties DEF OnceInv, LoggerInv, TypeOK
<1>2. EndLog(t) \/ Flush(t)
  BY <1>1 DEF Next, Step, vars, AddSink, SetLogLevel, SetForceFlush, Log, EnterInstance,
              MakeInstance, LeaveInstance, OpenStream, SkipSink, WriteLine, EndLine, EndLog, Flush
<1>3. CASE EndLog(t)
  BY <1>1, <1>3 DEF EndLog, OnceInv, Progress
<1>4. CASE Flush(t)
  BY <1>4 DEF Flush, OnceInv, Progress
<1> QED
  BY <1>2, <1>3, <1>4

(* When LOG returns, its line is once on the stream of each sink whose level  *)
(* admits it and on no other, however many threads log and however the level  *)
(* of the logger changes meanwhile.                                           *)
THEOREM WrittenOnceHolds == Spec => WrittenOnce
<1>1. Init /\ LoggerInv => OnceInv
  BY EmptySeq DEF Init, OnceInv, NotAhead, Progress
<1>2. ASSUME OnceInv, [Next]_vars, NEW t \in Threads, pc[t] # "idle", pc'[t] = "idle",
             NEW k \in DOMAIN sinks
      PROVE  Cardinality({i \in DOMAIN streams[k] : streams[k][i] = Piece(t, "last")})
               = IF sinks[k].level <= line[t].level THEN 1 ELSE 0
  <2>1. Settled(t, k)
    BY <1>2, ReturnSettled
  <2>2. Cardinality(Copies(t, k)) = IF sinks[k].level <= line[t].level THEN 1 ELSE 0
    BY <2>1, FS_EmptySet, FS_Singleton DEF Settled
  <2> QED
    BY <2>2 DEF Copies
<1>3. OnceInv /\ [Next]_vars =>
        [\A t \in Threads : pc[t] # "idle" /\ pc'[t] = "idle" =>
           \A k \in DOMAIN sinks :
             Cardinality({i \in DOMAIN streams[k] : streams[k][i] = Piece(t, "last")})
               = IF sinks[k].level <= line[t].level THEN 1 ELSE 0]_vars
  BY <1>2
<1> QED
  BY <1>1, <1>3, NextOnce, LoggerInvariant, PTL DEF Spec, WrittenOnce

====
