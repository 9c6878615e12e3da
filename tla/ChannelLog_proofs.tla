-------------------------- MODULE ChannelLog_proofs --------------------------
(***************************************************************************)
(* Proofs about ChannelLog, for any channels, lines and bounds, with and   *)
(* without failing redis commands.                                         *)
(***************************************************************************)
EXTENDS ChannelLog, TLAPS

\* The inductive invariant: NoHole alone is not inductive, since what SetEnd
\* makes visible is what the channel object in memory has counted.
IInv == TypeOK /\ NoHole /\ WriterAhead /\ JobInOrder

\* The job of an idle daemon is a job.
LEMMA NoJobType ==
    NoJob \in [chan : Chan, line : Line \cup {NoLine},
               close : {"no", "keep", "clear", "start"}]
    /\ NoJob.close = "no" /\ NoJob.chan \in Chan
BY ChannelLogAssumption DEF NoJob, Job

\* A dictionary of lines with one more line is a dictionary of lines.
LEMMA PutType ==
    \A f \in LineMap, id \in Id, v \in Line :
        Put(f, id, v) \in LineMap
<1> TAKE f \in LineMap, id \in Id, v \in Line
<1>1. PICK S \in SUBSET Id : f \in [S -> Line]
  BY DEF LineMap
<1>2. Put(f, id, v) \in [S \cup {id} -> Line]
  BY <1>1 DEF Put
<1>3. S \cup {id} \in SUBSET Id
  OBVIOUS
<1> QED
  BY <1>1, <1>2, <1>3 DEF Put, LineMap

\* A log that does not exist is a log.
LEMMA NoKeyType == NoKey \in Hash
<1>1. <<>> \in [{} -> Line]
  OBVIOUS
<1> QED
  BY <1>1 DEF NoKey, Hash, LineMap, Id, Nil

\* The lines of a log are a dictionary of lines.
LEMMA LinesType == \A h \in Hash : h.lines \in LineMap
BY DEF Hash

\* The invariant holds at the start: every log is missing, no channel is open.
LEMMA InvInit == Init => IInv
<1> SUFFICES ASSUME Init PROVE IInv
  OBVIOUS
<1>1. NoKey \in Hash
  BY NoKeyType
<1>2. TypeOK
  BY <1>1, NoJobType DEF Init, TypeOK, Nil
<1>3. NoHole /\ WriterAhead
  BY DEF Init, NoHole, WriterAhead, NoKey, Nil
<1>4. JobInOrder
  BY NoJobType DEF Init, JobInOrder
<1> QED
  BY <1>2, <1>3, <1>4 DEF IInv

\* Starting a job keeps the invariant, if its line has room below the bound
\* and it closes only a channel that is open or that it opens.
LEMMA HandleInv ==
    ASSUME IInv, NEW c \in Chan, NEW m \in Line \cup {NoLine},
           NEW close \in {"no", "keep", "clear"},
           m # NoLine => NextID(c) < MaxEnd,
           m = NoLine /\ close # "no" => logEndID[c] # Nil,
           Handle(Job(c, m, close))
    PROVE  IInv'
<1> DEFINE j == Job(c, m, close)
<1>1. /\ job' = j /\ pc' = Entry(j)
      /\ UNCHANGED <<log, i2h, subscribed, logEndID, stale>>
  BY DEF Handle
<1>2. j.chan = c /\ j.line = m /\ j.close = close
  BY DEF Job
<1>3. TypeOK'
  BY <1>1, <1>2 DEF IInv, TypeOK, Job, Entry, AfterOpen, AfterAppend
<1>4. NoHole' /\ WriterAhead'
  BY <1>1 DEF IInv, NoHole, WriterAhead
<1>5. JobInOrder'
  <2>1. log[c] \in Hash /\ logEndID[c] \in 0 .. MaxEnd \cup {Nil}
    BY DEF IInv, TypeOK
  <2> QED
    BY <1>1, <1>2, <2>1
    DEF JobInOrder, Entry, AfterOpen, AfterAppend, NextID, FirstID, Hash, ch, Nil
<1> QED
  BY <1>3, <1>4, <1>5 DEF IInv

\* A change of the running channel's hash that keeps its begin at 0 (or missing),
\* its end and its lines keeps NoHole and WriterAhead.
LEMMA FlagInv ==
    ASSUME IInv, NEW b \in BOOLEAN, NEW c \in Chan,
           log' = [log EXCEPT ![c].joined = b]
    PROVE  /\ log' \in [Chan -> Hash]
           /\ \A d \in Chan : /\ log'[d].begin = log[d].begin
                              /\ log'[d].end = log[d].end
                              /\ log'[d].lines = log[d].lines
           /\ NoHole'
BY DEF IInv, TypeOK, NoHole, Hash

\* A notification that is published or dropped leaves i2h a queue of
\* notifications.
LEMMA PublishType ==
    ASSUME TypeOK, NEW c \in Chan, NEW id \in Id \cup {Nil},
           Publish(NewLog(c, id))
    PROVE  i2h' \in Seq(Note)
<1>1. NewLog(c, id) \in Note
  BY DEF NewLog, Note
<1> QED
  BY <1>1 DEF TypeOK, Publish

\* Every redis command keeps the invariant, whatever it interrupts.
LEMMA CommandInv == IInv /\ RedisCommand => IInv'
<1> SUFFICES ASSUME IInv, RedisCommand PROVE IInv'
  OBVIOUS
<1>t. TypeOK /\ NoHole /\ WriterAhead /\ JobInOrder /\ ch \in Chan
      /\ log[ch] \in Hash /\ logEndID[ch] \in 0 .. MaxEnd \cup {Nil}
  BY DEF IInv, TypeOK, ch
<1>n. NoJob \in [chan : Chan, line : Line \cup {NoLine},
                 close : {"no", "keep", "clear", "start"}]
      /\ NoJob.close = "no" /\ NoJob.chan \in Chan
  BY NoJobType
<1>1. CASE SetBegin
  <2>1. log' \in [Chan -> Hash]
    BY <1>1, <1>t DEF SetBegin, TypeOK, Hash
  <2>2. TypeOK'
    BY <1>1, <1>t, <2>1 DEF SetBegin, Goto, TypeOK
  <2>3. NoHole' /\ WriterAhead'
    BY <1>1, <1>t DEF SetBegin, TypeOK, Hash, NoHole, WriterAhead, JobInOrder
  <2>4. JobInOrder'
    BY <1>1, <1>t DEF SetBegin, Goto, TypeOK, Hash, JobInOrder, FirstID, ch
  <2> QED
    BY <2>2, <2>3, <2>4 DEF IInv
<1>2. CASE MarkAsJoined
  <2>1. FirstID(ch) \in 0 .. MaxEnd /\ logEndID' = [logEndID EXCEPT ![ch] = FirstID(ch)]
    BY <1>2, <1>t, ChannelLogAssumption DEF MarkAsJoined, FirstID, Hash
  <2>2. log' \in [Chan -> Hash] /\ NoHole'
        /\ \A d \in Chan : /\ log'[d].begin = log[d].begin
                           /\ log'[d].end = log[d].end
                           /\ log'[d].lines = log[d].lines
    BY <1>2, <1>t, FlagInv DEF MarkAsJoined
  <2>3. TypeOK'
    BY <1>2, <1>t, <1>n, <2>1, <2>2
    DEF MarkAsJoined, Goto, TypeOK, AfterOpen, AfterAppend
  <2>4. WriterAhead'
    BY <1>2, <1>t, <2>1, <2>2
    DEF MarkAsJoined, TypeOK, Hash, NoHole, WriterAhead, JobInOrder, FirstID, Nil
  <2>5. JobInOrder'
    BY <1>2, <1>t, <1>n, <2>1
    DEF MarkAsJoined, Goto, TypeOK, JobInOrder, AfterOpen, AfterAppend, ch, Nil
  <2> QED
    BY <2>2, <2>3, <2>4, <2>5 DEF IInv
<1>3. CASE WriteLine
  <2> DEFINE id == logEndID[ch]
             new == Put(log[ch].lines, id, job.line)
  <2>1. id \in Id /\ job.line \in Line
    BY <1>3, <1>t, ChannelLogAssumption DEF WriteLine, TypeOK, JobInOrder, Id, Nil
  <2>2. /\ new \in LineMap
        /\ DOMAIN new = DOMAIN log[ch].lines \cup {id}
    <3>1. log[ch].lines \in LineMap
      BY <1>t, LinesType
    <3>2. new \in LineMap
      BY <2>1, <3>1, PutType
    <3> QED
      BY <3>2 DEF Put
  <2>3. /\ log' = [log EXCEPT ![ch].lines = new]
        /\ logEndID' = [logEndID EXCEPT ![ch] = id + 1]
    BY <1>3 DEF WriteLine
  <2>4. TypeOK'
    <3>1. log' \in [Chan -> Hash]
      BY <1>t, <2>2, <2>3 DEF TypeOK, Hash
    <3>2. logEndID' \in [Chan -> 0 .. MaxEnd \cup {Nil}]
      BY <1>t, <2>1, <2>3, ChannelLogAssumption DEF TypeOK, Id
    <3> QED
      BY <1>3, <1>t, <3>1, <3>2 DEF WriteLine, Goto, TypeOK
  <2> HIDE DEF new
  <2>5. NoHole'
    BY <1>t, <2>2, <2>3 DEF TypeOK, Hash, NoHole
  <2>6. WriterAhead'
    BY <1>t, <2>1, <2>2, <2>3 DEF TypeOK, Hash, WriterAhead, Id, Nil
  <2>7. JobInOrder'
    <3>1. /\ pc' = "end" /\ job' = job /\ job.close # "start"
          /\ logEndID'[ch] = id + 1 /\ log'[ch].lines = new
      BY <1>3, <1>t, <2>3 DEF WriteLine, Goto, TypeOK, Hash, JobInOrder
    <3> QED
      BY <2>1, <2>2, <3>1 DEF JobInOrder, ch, Id, Nil
  <2> QED
    BY <2>4, <2>5, <2>6, <2>7 DEF IInv
<1>4. CASE SetEnd
  <2>1. logEndID[ch] \in 0 .. MaxEnd /\ log' = [log EXCEPT ![ch].end = logEndID[ch]]
    BY <1>4, <1>t DEF SetEnd, JobInOrder
  <2>2. TypeOK'
    <3>1. log' \in [Chan -> Hash]
      BY <1>t, <2>1 DEF TypeOK, Hash
    <3> QED
      BY <1>4, <1>t, <3>1 DEF SetEnd, Goto, TypeOK
  <2>3. NoHole' /\ WriterAhead'
    BY <1>4, <1>t, <2>1 DEF SetEnd, TypeOK, Hash, NoHole, WriterAhead, Nil
  <2>4. JobInOrder'
    BY <1>4, <1>t, <2>1 DEF SetEnd, Goto, TypeOK, Hash, JobInOrder, ch, Nil
  <2> QED
    BY <2>2, <2>3, <2>4 DEF IInv
<1>5. CASE Announce
  <2>1. i2h' \in Seq(Note)
    <3>1. logEndID[ch] - 1 \in Id \cup {Nil}
      BY <1>5, <1>t, ChannelLogAssumption DEF Announce, JobInOrder, Id, Nil
    <3> QED
      BY <1>5, <1>t, <3>1, PublishType DEF Announce
  <2>2. TypeOK'
    BY <1>5, <1>t, <1>n, <2>1 DEF Announce, Goto, AfterAppend, TypeOK
  <2>3. NoHole' /\ WriterAhead'
    BY <1>5, <1>t DEF Announce, NoHole, WriterAhead
  <2>4. JobInOrder'
    BY <1>5, <1>t, <1>n DEF Announce, Goto, AfterAppend, JobInOrder, ch
  <2> QED
    BY <2>2, <2>3, <2>4 DEF IInv
<1>6. CASE MarkAsLeft
  <2>1. log' \in [Chan -> Hash] /\ NoHole'
        /\ \A d \in Chan : /\ log'[d].begin = log[d].begin
                           /\ log'[d].end = log[d].end
                           /\ log'[d].lines = log[d].lines
    BY <1>6, <1>t, FlagInv DEF MarkAsLeft
  <2>2. TypeOK'
    BY <1>6, <1>t, <2>1 DEF MarkAsLeft, Goto, TypeOK
  <2>3. WriterAhead'
    BY <1>6, <1>t, <2>1 DEF MarkAsLeft, WriterAhead
  <2>4. JobInOrder'
    BY <1>6, <1>t DEF MarkAsLeft, Goto, JobInOrder, ch
  <2> QED
    BY <2>1, <2>2, <2>3, <2>4 DEF IInv
<1>7. CASE AnnounceClosed
  <2>1. i2h' \in Seq(Note)
    BY <1>7, <1>t, PublishType DEF AnnounceClosed, Closed
  <2>2. logEndID' \in [Chan -> 0 .. MaxEnd \cup {Nil}]
    BY <1>7, <1>t DEF AnnounceClosed, TypeOK
  <2>3. TypeOK'
    BY <1>7, <1>t, <1>n, <2>1, <2>2 DEF AnnounceClosed, Goto, TypeOK
  <2>4. NoHole' /\ WriterAhead'
    BY <1>7, <1>t DEF AnnounceClosed, TypeOK, NoHole, WriterAhead
  <2>5. JobInOrder'
    BY <1>7, <1>t, <1>n DEF AnnounceClosed, Goto, TypeOK, JobInOrder, ch, Nil
  <2> QED
    BY <2>3, <2>4, <2>5 DEF IInv
<1>8. CASE ClearLog
  <2>1. NoKey \in Hash
    BY NoKeyType
  <2>2. /\ log' = [log EXCEPT ![ch] = NoKey]
        /\ logEndID' = [logEndID EXCEPT ![ch] = Nil]
    BY <1>8 DEF ClearLog
  <2>3. TypeOK'
    BY <1>8, <1>t, <1>n, <2>1, <2>2 DEF ClearLog, Goto, TypeOK
  <2>4. NoHole' /\ WriterAhead'
    BY <1>t, <2>2 DEF TypeOK, NoHole, WriterAhead, NoKey
  <2>5. JobInOrder'
    BY <1>8, <1>t, <1>n DEF ClearLog, Goto, JobInOrder
  <2> QED
    BY <2>3, <2>4, <2>5 DEF IInv
<1>9. ASSUME NEW c \in Chan, ClearJoined(c) PROVE IInv'
  <2>1. log' \in [Chan -> Hash] /\ NoHole'
        /\ \A d \in Chan : /\ log'[d].begin = log[d].begin
                           /\ log'[d].end = log[d].end
                           /\ log'[d].lines = log[d].lines
    BY <1>9, <1>t, FlagInv DEF ClearJoined
  <2>2. TypeOK'
    BY <1>9, <1>t, <2>1 DEF ClearJoined, TypeOK, Job
  <2>3. WriterAhead'
    BY <1>9, <1>t, <2>1 DEF ClearJoined, WriterAhead
  <2>4. JobInOrder'
    BY <1>9, <1>t DEF ClearJoined, JobInOrder, Job
  <2> QED
    BY <2>1, <2>2, <2>3, <2>4 DEF IInv
<1> QED
  BY <1>1, <1>2, <1>3, <1>4, <1>5, <1>6, <1>7, <1>8, <1>9 DEF RedisCommand

\* So does a command that redis has executed and that raises all the same: it writes what
\* it would have written, and the daemon's memory stays behind.  (A DEL leaves a channel
\* that is open in memory, and in redis a log without a begin.)
LEMMA UnheardInv ==
    ASSUME IInv, Unheard, UNCHANGED logEndID
    PROVE  /\ log' \in [Chan -> Hash] /\ i2h' \in Seq(Note)
           /\ NoHole' /\ WriterAhead'
<1>t. TypeOK /\ NoHole /\ WriterAhead /\ JobInOrder /\ ch \in Chan
      /\ log[ch] \in Hash /\ logEndID[ch] \in 0 .. MaxEnd \cup {Nil}
  BY DEF IInv, TypeOK, ch
<1>1. CASE log' = [log EXCEPT ![ch].joined = TRUE] /\ UNCHANGED i2h
  <2>1. log' \in [Chan -> Hash] /\ NoHole'
        /\ \A d \in Chan : /\ log'[d].begin = log[d].begin
                           /\ log'[d].end = log[d].end
                           /\ log'[d].lines = log[d].lines
    BY <1>1, <1>t, FlagInv
  <2> QED
    BY <1>1, <1>t, <2>1 DEF TypeOK, WriterAhead
<1>2. CASE /\ pc = "line" /\ UNCHANGED i2h
           /\ log' = [log EXCEPT ![ch].lines = Put(@, logEndID[ch], job.line)]
  <2> DEFINE new == Put(log[ch].lines, logEndID[ch], job.line)
  <2>1. logEndID[ch] \in Id /\ job.line \in Line
    BY <1>2, <1>t, ChannelLogAssumption DEF TypeOK, JobInOrder, Id, Nil
  <2>2. log[ch].lines \in LineMap
    BY <1>t, LinesType
  <2>3. /\ new \in LineMap /\ log' = [log EXCEPT ![ch].lines = new]
        /\ DOMAIN log[ch].lines \subseteq DOMAIN new
    BY <1>2, <2>1, <2>2, PutType DEF Put
  <2> HIDE DEF new
  <2>4. log' \in [Chan -> Hash] /\ i2h' \in Seq(Note)
    BY <1>2, <1>t, <2>3 DEF TypeOK, Hash
  <2> QED
    BY <1>t, <2>3, <2>4 DEF TypeOK, Hash, NoHole, WriterAhead
<1>3. CASE Publish(Closed(ch)) /\ UNCHANGED log
  <2>1. i2h' \in Seq(Note)
    BY <1>3, <1>t, PublishType DEF Closed
  <2> QED
    BY <1>3, <1>t, <2>1 DEF TypeOK, NoHole, WriterAhead
<1>4. CASE pc = "delete" /\ log' = [log EXCEPT ![ch] = NoKey] /\ UNCHANGED i2h
  <2>1. log' \in [Chan -> Hash] /\ i2h' \in Seq(Note)
    BY <1>4, <1>t, NoKeyType DEF TypeOK
  <2> QED
    BY <1>4, <1>t, <2>1 DEF TypeOK, NoHole, WriterAhead, JobInOrder, NoKey, Nil
<1> QED
  BY <1>1, <1>2, <1>3, <1>4 DEF Unheard

\* Every step keeps the invariant.
LEMMA InvNext == IInv /\ [Next \/ Deliver \/ Subscriber]_vars => IInv'
<1> SUFFICES ASSUME IInv, [Next \/ Deliver \/ Subscriber]_vars PROVE IInv'
  OBVIOUS
<1>1. ASSUME NEW c \in Chan, NEW m \in Line, Say(c, m) \/ Part(c, m) \/ Kick(c, m)
      PROVE  IInv'
  <2>1. NextID(c) < MaxEnd
    BY <1>1 DEF Say, Part, Kick
  <2>2. PICK close \in {"no", "keep", "clear"} : Handle(Job(c, m, close))
    BY <1>1 DEF Say, Part, Kick
  <2>3. m \in Line \cup {NoLine} /\ m # NoLine
    BY ChannelLogAssumption
  <2> QED
    BY <2>1, <2>2, <2>3, HandleInv
<1>2. ASSUME NEW c \in Chan, PartQuery(c) \/ OpenOnly(c) PROVE IInv'
  BY <1>2, HandleInv DEF PartQuery, OpenOnly
<1>3. CASE Reconnect
  <2>1. TypeOK' /\ NoHole'
    BY <1>3 DEF Reconnect, IInv, TypeOK, NoHole
  <2>2. WriterAhead' /\ JobInOrder'
    BY <1>3 DEF Reconnect, IInv, WriterAhead, JobInOrder
  <2> QED
    BY <2>1, <2>2 DEF IInv
<1>4. CASE RedisCommand
  BY <1>4, CommandInv
<1>5. CASE RedisFails
  <2>1. log' \in [Chan -> Hash] /\ i2h' \in Seq(Note) /\ NoHole' /\ WriterAhead'
    <3>1. CASE Unheard
      BY <1>5, <3>1, UnheardInv DEF RedisFails
    <3>2. CASE UNCHANGED <<log, i2h>>
      BY <1>5, <3>2 DEF RedisFails, IInv, TypeOK, NoHole, WriterAhead
    <3> QED
      BY <1>5, <3>1, <3>2 DEF RedisFails
  <2>3. TypeOK'
    BY <1>5, <2>1, NoJobType DEF RedisFails, Goto, IInv, TypeOK
  <2>2. JobInOrder'
    BY <1>5, NoJobType DEF RedisFails, Goto, JobInOrder
  <2> QED
    BY <2>1, <2>2, <2>3 DEF IInv
<1>6. CASE Crash
  <2>1. TypeOK' /\ NoHole' /\ WriterAhead'
    BY <1>6, NoJobType DEF Crash, Goto, IInv, TypeOK, NoHole, WriterAhead
  <2>2. JobInOrder'
    BY <1>6, NoJobType DEF Crash, Goto, JobInOrder
  <2> QED
    BY <2>1, <2>2 DEF IInv
<1>7. CASE Deliver
  <2>1. TypeOK'
    BY <1>7 DEF Deliver, daemonVars, IInv, TypeOK
  <2> QED
    BY <1>7, <2>1 DEF Deliver, daemonVars, IInv, NoHole, WriterAhead, JobInOrder,
                      FirstID, ch
<1>8. CASE Subscriber
  <2>1. TypeOK'
    BY <1>8 DEF Subscriber, daemonVars, IInv, TypeOK
  <2> QED
    BY <1>8, <2>1 DEF Subscriber, daemonVars, IInv, NoHole, WriterAhead, JobInOrder,
                      FirstID, ch
<1>9. CASE UNCHANGED vars
  BY <1>9 DEF vars, daemonVars, IInv, TypeOK, NoHole, WriterAhead, JobInOrder,
              FirstID, ch
<1> QED
  BY <1>1, <1>2, <1>3, <1>4, <1>5, <1>6, <1>7, <1>8, <1>9 DEF Next, Handler

LEMMA Inductive == Spec => []IInv
BY InvInit, InvNext, PTL DEF Spec

------------------------------------------------------------------------------
\* The variables always have their types: in particular no line is ever stored
\* under an id outside the bound and no notification carries one.
THEOREM TypeCorrect == Spec => []TypeOK
BY Inductive, PTL DEF IInv

\* Between begin and end of a log there is no hole, at every redis command of
\* every handler, after every failed command and every crash (appendLog writes
\* the line before the end).
THEOREM NoHoleAlways == Spec => []NoHole
BY Inductive, PTL DEF IInv

\* An open channel never counts behind the log it writes (IRCChannel.__init__
\* reads `end', appendLog counts on from it).
THEOREM WriterAheadAlways == Spec => []WriterAhead
BY Inductive, PTL DEF IInv

\* Whatever is published has been written: appendLog publishes last.
THEOREM AnnouncedAlways == Spec => AnnouncedIsReadable
<1> DEFINE A == \A c \in Chan, id \in Id :
                  (Announce /\ i2h' = Append(i2h, NewLog(c, id)))
                      => id \in 0 .. log[c].end - 1 /\ id \in DOMAIN log[c].lines
<1>1. IInv => A
  <2> SUFFICES ASSUME IInv, NEW c \in Chan, NEW id \in Id,
                      Announce, i2h' = Append(i2h, NewLog(c, id))
               PROVE  id \in 0 .. log[c].end - 1 /\ id \in DOMAIN log[c].lines
    OBVIOUS
  <2> DEFINE n == NewLog(ch, logEndID[ch] - 1)
  <2>1. i2h \in Seq(Note) /\ pc = "announce" /\ ch \in Chan
        /\ log[ch] \in Hash /\ logEndID[ch] \in 0 .. MaxEnd \cup {Nil}
    BY DEF IInv, TypeOK, Announce, ch
  <2>2. i2h' = IF subscribed THEN Append(i2h, n) ELSE i2h
    BY DEF Announce, Publish
  <2>3. Append(i2h, NewLog(c, id)) # i2h
    BY <2>1
  <2>4. Append(i2h, NewLog(c, id)) = Append(i2h, n)
    BY <2>2, <2>3
  <2>5. NewLog(c, id) = n
    BY <2>1, <2>4
  <2>6. c = ch /\ id = logEndID[ch] - 1
    BY <2>5 DEF NewLog
  <2>7. /\ log[ch].end = logEndID[ch] /\ logEndID[ch] # 0 /\ logEndID[ch] # Nil
        /\ logEndID[ch] - 1 \in DOMAIN log[ch].lines
    BY <2>1 DEF IInv, JobInOrder
  <2> QED
    BY <2>1, <2>6, <2>7, ChannelLogAssumption DEF Nil
<1> HIDE DEF A
<1>2. IInv /\ [Next \/ Deliver \/ Subscriber]_vars => [A]_vars
  BY <1>1
<1>3. Spec => [][A]_vars
  BY <1>2, Inductive, PTL DEF Spec
<1> QED
  BY <1>3 DEF AnnouncedIsReadable, A

------------------------------------------------------------------------------
(* Where the lines of a log are.                                            *)

\* No DEL raises after redis has executed it.
Heard == ~(RedisMayFail /\ ClearsUnheard)

\* A log with an end, and the log of an open channel, has its begin: this is lost only
\* when a DEL that redis has executed raises.
BegunFirst == \A c \in Chan : log[c].end # Nil \/ logEndID[c] # Nil => log[c].begin # Nil

LEMMA BegunFirstNext ==
    ASSUME IInv, BegunFirst, [Next \/ Deliver \/ Subscriber]_vars, Heard \/ pc # "delete"
    PROVE  BegunFirst'
<1>t. log \in [Chan -> Hash] /\ logEndID \in [Chan -> 0 .. MaxEnd \cup {Nil}] /\ ch \in Chan
  BY DEF IInv, TypeOK, ch
<1>l. CASE \A c \in Chan : /\ log'[c].end = log[c].end
                           /\ log[c].begin # Nil => log'[c].begin # Nil
                           /\ logEndID'[c] \in {Nil, logEndID[c]}
  BY <1>l DEF BegunFirst
<1>1. CASE WriteLine \/ MarkAsJoined \/ SetEnd
  <2>1. /\ \A c \in Chan : log'[c].begin = log[c].begin
        /\ \A c \in Chan \ {ch} : log'[c].end = log[c].end /\ logEndID'[c] = logEndID[c]
        /\ log[ch].begin = 0 \/ log[ch].end # Nil \/ logEndID[ch] # Nil
    BY <1>1, <1>t DEF WriteLine, MarkAsJoined, SetEnd, Hash, IInv, JobInOrder
  <2> QED
    BY <1>t, <2>1 DEF BegunFirst, Nil
<1>2. CASE ClearLog
  <2>1. /\ log'[ch] = NoKey /\ logEndID'[ch] = Nil
        /\ \A c \in Chan \ {ch} : log'[c] = log[c] /\ logEndID'[c] = logEndID[c]
    BY <1>2, <1>t DEF ClearLog
  <2> QED
    BY <1>t, <2>1 DEF BegunFirst, NoKey
<1>3. CASE SetBegin \/ MarkAsLeft \/ \E c \in Chan : ClearJoined(c)
  BY <1>3, <1>t, <1>l DEF SetBegin, MarkAsLeft, ClearJoined, Hash, Nil
<1>4. CASE AnnounceClosed
  BY <1>4, <1>t, <1>l DEF AnnounceClosed
<1>5. CASE RedisFails
  BY <1>5, <1>t, <1>l DEF RedisFails, Unheard, Heard, Hash
<1>6. CASE Handler \/ Announce \/ Crash \/ Deliver \/ Subscriber \/ UNCHANGED vars
  <2>1. UNCHANGED log /\ (UNCHANGED logEndID \/ logEndID' = [d \in Chan |-> Nil])
    BY <1>6 DEF Handler, Say, Part, Kick, PartQuery, OpenOnly, Handle, Reconnect, Announce,
                Crash, Deliver, Subscriber, daemonVars, vars
  <2> QED
    BY <2>1, <1>l
<1> QED
  BY <1>1, <1>2, <1>3, <1>4, <1>5, <1>6 DEF Next, RedisCommand

\* Under every line of a log there are all the lines before it, those beyond its
\* end that a crash has left included, unless it is what was written on after a DEL the
\* daemon does not know of.
FromZero ==
    Heard => /\ BegunFirst
             /\ \A c \in Chan : \A i \in DOMAIN log[c].lines : 0 .. i \subseteq DOMAIN log[c].lines

\* Every step keeps that: a line is written where the channel object has counted to.
LEMMA FromZeroNext ==
    IInv /\ FromZero /\ [Next \/ Deliver \/ Subscriber]_vars => FromZero'
<1> SUFFICES ASSUME IInv, FromZero, [Next \/ Deliver \/ Subscriber]_vars, Heard
             PROVE  \A c \in Chan :
                        \A i \in DOMAIN log'[c].lines : 0 .. i \subseteq DOMAIN log'[c].lines
  BY BegunFirstNext DEF FromZero, Heard
<1>t. log \in [Chan -> Hash] /\ ch \in Chan
  BY DEF IInv, TypeOK, ch
<1>l. CASE \A c \in Chan : log'[c].lines \in {log[c].lines, <<>>}
  BY <1>l DEF FromZero
<1>1. CASE pc = "line" /\ log' = [log EXCEPT ![ch].lines = Put(@, logEndID[ch], job.line)]
  <2> DEFINE id == logEndID[ch]
             new == Put(log[ch].lines, id, job.line)
  <2>1. log' = [log EXCEPT ![ch].lines = new] /\ DOMAIN new = DOMAIN log[ch].lines \cup {id}
    BY <1>1 DEF Put
  <2>2. id \in Nat /\ 0 .. id - 1 \subseteq DOMAIN log[ch].lines
    BY <1>1, <1>t DEF FromZero, BegunFirst, IInv, TypeOK, WriterAhead, JobInOrder, Nil
  <2> HIDE DEF new
  <2>3. log'[ch].lines = new /\ \A c \in Chan \ {ch} : log'[c] = log[c]
    BY <1>t, <2>1 DEF Hash
  <2>4. 0 .. id \subseteq DOMAIN new
    BY <2>1, <2>2
  <2> QED
    BY <1>t, <2>1, <2>3, <2>4 DEF FromZero
<1>2. CASE WriteLine
  BY <1>1, <1>2 DEF WriteLine
<1>3. CASE ClearLog
  BY <1>3, <1>t, <1>l DEF ClearLog, NoKey
<1>4. CASE SetBegin \/ MarkAsJoined \/ SetEnd \/ MarkAsLeft \/ \E c \in Chan : ClearJoined(c)
  BY <1>4, <1>t, <1>l DEF SetBegin, MarkAsJoined, SetEnd, MarkAsLeft, ClearJoined, Hash
<1>5. CASE RedisFails
  BY <1>5, <1>1, <1>t, <1>l DEF RedisFails, Unheard, Heard, Hash
<1>6. CASE UNCHANGED log
  BY <1>6, <1>l
<1> QED
  BY <1>2, <1>3, <1>4, <1>5, <1>6
  DEF Next, Handler, RedisCommand, Say, Part, Kick, PartQuery, OpenOnly, Handle,
      Reconnect, Announce, AnnounceClosed, Crash, Deliver, Subscriber, vars

------------------------------------------------------------------------------
(* Open channels are joined, while redis answers.                           *)

\* A starting daemon has no channel open until it has cleared the joined flags.
JoinedInv ==
    /\ OpenIsJoined
    /\ stale # {} \/ job.close = "start" => \A c \in Chan : logEndID[c] = Nil
    /\ stale # {} => pc = "idle" \/ job.close = "start"
    /\ pc \in {"leave", "announceClosed"} => job.close # "no"

LEMMA JoinedInit == Init => JoinedInv
BY NoJobType DEF Init, JoinedInv, OpenIsJoined, ch

\* Every step keeps it, as long as redis answers.
LEMMA JoinedNext ==
    ~RedisMayFail /\ IInv /\ JoinedInv /\ [Next \/ Deliver \/ Subscriber]_vars => JoinedInv'
<1> SUFFICES ASSUME ~RedisMayFail, IInv, JoinedInv, [Next \/ Deliver \/ Subscriber]_vars
             PROVE  JoinedInv'
  OBVIOUS
<1>t. log \in [Chan -> Hash] /\ logEndID \in [Chan -> 0 .. MaxEnd \cup {Nil}] /\ ch \in Chan
  BY DEF IInv, TypeOK, ch
<1>n. NoJob.close = "no" /\ NoJob.line = NoLine
  BY NoJobType DEF NoJob, Job
<1>h. ASSUME NEW c \in Chan, NEW m \in Line \cup {NoLine}, NEW close \in {"no", "keep", "clear"},
             Handle(Job(c, m, close))
      PROVE  JoinedInv'
  <2>1. /\ pc = "idle" /\ stale = {} /\ job' = Job(c, m, close)
        /\ UNCHANGED <<log, logEndID, stale>>
        /\ job'.close = close
        /\ pc' \in {"begin", "join", "line", "idle"} \/ (pc' = "leave" /\ close # "no")
    BY <1>h DEF Handle, Entry, AfterOpen, AfterAppend, Job
  <2> QED
    BY <2>1, <1>t DEF JoinedInv, OpenIsJoined, ch
<1>1. ASSUME NEW c \in Chan, NEW m \in Line, Say(c, m) \/ Part(c, m) \/ Kick(c, m)
      PROVE  JoinedInv'
  BY <1>1, <1>h, ChannelLogAssumption DEF Say, Part, Kick
<1>2. ASSUME NEW c \in Chan, PartQuery(c) \/ OpenOnly(c) PROVE JoinedInv'
  BY <1>2, <1>h DEF PartQuery, OpenOnly
<1>3. CASE Reconnect \/ Crash
  BY <1>3, <1>n, NoJobType DEF Reconnect, Crash, Goto, JoinedInv, OpenIsJoined
<1>4. CASE SetBegin
  BY <1>4, <1>t DEF SetBegin, Goto, Hash, JoinedInv, OpenIsJoined, ch
<1>5. CASE MarkAsJoined
  <2>1. /\ pc = "join" /\ job.close # "start" /\ stale = {} /\ stale' = {}
        /\ \A c \in Chan \ {ch} : log'[c] = log[c] /\ logEndID'[c] = logEndID[c]
        /\ log'[ch].joined
    BY <1>5, <1>t DEF MarkAsJoined, Hash, IInv, JobInOrder, JoinedInv
  <2>2. \/ pc' = "idle" /\ job' = NoJob
        \/ pc' \in {"line", "leave"} /\ job' = job /\ (pc' = "leave" => job.close # "no")
    BY <1>5 DEF MarkAsJoined, Goto, AfterOpen, AfterAppend
  <2> QED
    BY <1>t, <1>n, <2>1, <2>2 DEF JoinedInv, OpenIsJoined, ch
<1>6. CASE WriteLine
  BY <1>6, <1>t DEF WriteLine, Goto, Hash, IInv, JobInOrder, JoinedInv, OpenIsJoined, ch
<1>7. CASE SetEnd
  BY <1>7, <1>t DEF SetEnd, Goto, Hash, JoinedInv, OpenIsJoined, ch
<1>8. CASE Announce
  BY <1>8, <1>t, <1>n DEF Announce, Goto, AfterAppend, JoinedInv, OpenIsJoined, ch
<1>9. CASE MarkAsLeft
  BY <1>9, <1>t DEF MarkAsLeft, Goto, Hash, JoinedInv, OpenIsJoined, ch
<1>10. CASE AnnounceClosed
  BY <1>10, <1>t, <1>n DEF AnnounceClosed, Goto, JoinedInv, OpenIsJoined, IInv, TypeOK, ch
<1>11. CASE ClearLog
  BY <1>11, <1>t, <1>n DEF ClearLog, Goto, NoKey, JoinedInv, OpenIsJoined, ch
<1>12. ASSUME NEW c \in Chan, ClearJoined(c) PROVE JoinedInv'
  BY <1>12, <1>t DEF ClearJoined, Job, Hash, JoinedInv, OpenIsJoined, ch
<1>13. CASE Deliver \/ Subscriber \/ UNCHANGED vars
  BY <1>13 DEF Deliver, Subscriber, vars, daemonVars, JoinedInv, OpenIsJoined, ch
<1> QED
  BY <1>1, <1>2, <1>3, <1>4, <1>5, <1>6, <1>7, <1>8, <1>9, <1>10, <1>11, <1>12, <1>13
  DEF Next, Handler, RedisCommand, RedisFails

\* What the daemon has open is marked as joined: a web server that starts at any
\* moment finds it (getChannel marks a channel before it files the object,
\* channelClosed removes the object last).
THEOREM OpenIsJoinedAlways == ~RedisMayFail => (Spec => []OpenIsJoined)
<1> SUFFICES ASSUME ~RedisMayFail PROVE Spec => []OpenIsJoined
  OBVIOUS
<1>1. IInv /\ JoinedInv /\ [Next \/ Deliver \/ Subscriber]_vars => JoinedInv'
  BY JoinedNext
<1>2. JoinedInv => OpenIsJoined
  BY DEF JoinedInv
<1> QED
  BY <1>1, <1>2, JoinedInit, Inductive, PTL DEF Spec

------------------------------------------------------------------------------
(* What readers have seen of a log.                                         *)

\* A line that could be read stays as it is, and can be read, until the log is thrown away.
LEMMA LogGrows ==
    ASSUME IInv, Next, pc # "delete", NEW c \in Chan, log[c].begin # Nil,
           NEW i \in 0 .. log[c].end - 1
    PROVE  i \in 0 .. log'[c].end - 1 /\ log'[c].lines[i] = log[c].lines[i]
<1>t. /\ log \in [Chan -> Hash] /\ logEndID \in [Chan -> 0 .. MaxEnd \cup {Nil}] /\ ch \in Chan
      /\ MaxEnd \in Nat /\ i \in Nat /\ log[c].end \in Nat
  BY ChannelLogAssumption DEF IInv, TypeOK, Hash, ch, Nil
<1>1. CASE UNCHANGED log
  BY <1>1
<1>2. CASE SetBegin \/ MarkAsJoined \/ MarkAsLeft \/ \E d \in Chan : ClearJoined(d)
  <2>1. log'[c].end = log[c].end /\ log'[c].lines = log[c].lines
    BY <1>2, <1>t DEF SetBegin, MarkAsJoined, MarkAsLeft, ClearJoined, Hash
  <2> QED
    BY <2>1
<1>3. CASE pc = "line" /\ log' = [log EXCEPT ![ch].lines = Put(@, logEndID[ch], job.line)]
  <2>1. CASE c = ch
    <3>1. logEndID[c] \in Nat /\ log[c].end <= logEndID[c]
      BY <1>3, <1>t, <2>1 DEF IInv, WriterAhead, JobInOrder
    <3>2. i # logEndID[c] /\ i \in DOMAIN log[c].lines
      BY <1>t, <3>1 DEF IInv, NoHole, Nil
    <3>3. /\ log'[c].end = log[c].end
          /\ log'[c].lines = Put(log[c].lines, logEndID[c], job.line)
      BY <1>3, <1>t, <2>1 DEF Hash
    <3> QED
      BY <3>2, <3>3 DEF Put
  <2>2. CASE c # ch
    BY <1>3, <1>t, <2>2
  <2> QED
    BY <2>1, <2>2
<1>4. CASE SetEnd
  <2>1. CASE c = ch
    <3>1. logEndID[c] \in Nat /\ log[c].end <= logEndID[c]
      BY <1>4, <1>t, <2>1 DEF SetEnd, IInv, WriterAhead, JobInOrder
    <3>2. log'[c].end = logEndID[c] /\ log'[c].lines = log[c].lines
      BY <1>4, <1>t, <2>1 DEF SetEnd, Hash
    <3> QED
      BY <1>t, <3>1, <3>2
  <2>2. CASE c # ch
    BY <1>4, <1>t, <2>2 DEF SetEnd
  <2> QED
    BY <2>1, <2>2
<1>5. ~ClearLog
  BY DEF ClearLog
<1>6. CASE RedisFails
  <2>1. CASE log' = [log EXCEPT ![ch].joined = TRUE]
    <3>1. log'[c].end = log[c].end /\ log'[c].lines = log[c].lines
      BY <2>1, <1>t DEF Hash
    <3> QED
      BY <3>1
  <2> QED
    BY <1>6, <2>1, <1>1, <1>3 DEF RedisFails, Unheard
<1>7. CASE WriteLine
  BY <1>7, <1>3 DEF WriteLine
<1> QED
  BY <1>1, <1>2, <1>4, <1>5, <1>6, <1>7
  DEF Next, Handler, Say, Part, Kick, PartQuery, OpenOnly, Handle, Reconnect, RedisCommand,
      Announce, AnnounceClosed, Crash

------------------------------------------------------------------------------
(* What redis has on record for a channel, and what was said of it.         *)

\* A log that exists, and the log of an open channel, has its begin, unless a DEL has
\* raised after redis had executed it; an end is never 0; a channel is only closed to the
\* readers when it is no longer joined.
Begun ==
    /\ \A c \in Chan : log[c].end # 0
    /\ Heard => \A c \in Chan :
          \/ Exists(log[c]) \/ c \in stale \/ logEndID[c] # Nil
          \/ ch = c /\ pc = "announceClosed"
          => log[c].begin = 0
    /\ pc \in {"announceClosed", "delete"} => ~log[ch].joined
    /\ pc \in {"begin", "join"} /\ ~OpensSilently => job.line # NoLine
    /\ stale # {} => pc = "idle" \/ job.close = "start"

LEMMA BegunInit == Init => Begun
BY NoJobType DEF Init, Begun, NoKey, Exists, Nil

LEMMA BegunNext == IInv /\ Begun /\ [Next \/ Deliver \/ Subscriber]_vars => Begun'
<1> SUFFICES ASSUME IInv, Begun, [Next \/ Deliver \/ Subscriber]_vars PROVE Begun'
  OBVIOUS
<1>t. log \in [Chan -> Hash] /\ logEndID \in [Chan -> 0 .. MaxEnd \cup {Nil}] /\ ch \in Chan
  BY DEF IInv, TypeOK, ch
<1>h. ASSUME NEW c \in Chan, NEW m \in Line \cup {NoLine}, NEW close, Handle(Job(c, m, close)),
             m # NoLine \/ logEndID[c] # Nil \/ OpensSilently
      PROVE  Begun'
  <2>1. /\ job' = Job(c, m, close) /\ job'.line = m /\ UNCHANGED <<log, logEndID>>
        /\ stale' = {}
        /\ pc' \in {"begin", "join"} /\ ~OpensSilently => m # NoLine
        /\ pc' \notin {"announceClosed", "delete"}
    BY <1>h DEF Handle, Entry, AfterOpen, AfterAppend, Job
  <2> QED
    BY <2>1 DEF Begun
<1>1. ASSUME NEW c \in Chan, NEW m \in Line, Say(c, m) \/ Part(c, m) \/ Kick(c, m)
      PROVE  Begun'
  BY <1>1, <1>h, ChannelLogAssumption DEF Say, Part, Kick
<1>2. ASSUME NEW c \in Chan, PartQuery(c) \/ OpenOnly(c) PROVE Begun'
  BY <1>2, <1>h DEF PartQuery, OpenOnly
<1>3. CASE Reconnect \/ Announce
  BY <1>3, <1>t
  DEF Reconnect, Announce, Goto, AfterAppend, IInv, JobInOrder, Begun, ch
<1>9. CASE Crash
  BY <1>9, <1>t, NoJobType DEF Crash, Goto, Begun
<1>4. CASE SetBegin \/ MarkAsJoined \/ WriteLine \/ SetEnd \/ MarkAsLeft
  <2>1. /\ \A c \in Chan \ {ch} : log'[c] = log[c] /\ logEndID'[c] = logEndID[c]
        /\ Heard => log'[ch].begin = 0
        /\ log'[ch].end # 0
        /\ stale = {} /\ stale' = {}
        /\ pc = "leave" => ~log'[ch].joined
    <3>1. CASE SetBegin \/ MarkAsJoined
      BY <3>1, <1>t DEF SetBegin, MarkAsJoined, Hash, IInv, JobInOrder, Begun, Exists, NoKey
    <3>2. CASE WriteLine \/ SetEnd \/ MarkAsLeft
      BY <3>2, <1>t DEF WriteLine, SetEnd, MarkAsLeft, Hash, IInv, JobInOrder, Begun
    <3> QED
      BY <1>4, <3>1, <3>2
  <2>2. /\ pc' # "delete" /\ (pc' = "announceClosed" => pc = "leave" /\ job' = job)
        /\ pc' \in {"begin", "join"} => pc = "begin" /\ job' = job
    BY <1>4 DEF SetBegin, MarkAsJoined, WriteLine, SetEnd, MarkAsLeft, Goto, AfterOpen, AfterAppend
  <2> QED
    BY <2>1, <2>2, <1>t DEF Begun, ch
<1>5. CASE AnnounceClosed
  BY <1>5, <1>t DEF AnnounceClosed, Goto, Begun, ch
<1>6. CASE ClearLog
  <2>1. /\ log'[ch] = NoKey /\ logEndID'[ch] = Nil
        /\ \A c \in Chan \ {ch} : log'[c] = log[c] /\ logEndID'[c] = logEndID[c]
        /\ pc' = "idle" /\ stale = {} /\ stale' = {}
    BY <1>6, <1>t DEF ClearLog, Goto, IInv, JobInOrder, Begun
  <2> QED
    BY <2>1 DEF Begun, NoKey, Exists, Nil
<1>7. ASSUME NEW c \in Chan, ClearJoined(c) PROVE Begun'
  BY <1>7, <1>t DEF ClearJoined, Job, Hash, Begun, ch
<1>10. CASE RedisFails
  <2>1. pc' = "idle" /\ UNCHANGED <<logEndID, stale>> /\ stale = {}
    BY <1>10 DEF RedisFails, Goto, Begun
  <2>2. /\ \A c \in Chan \ {ch} : log'[c] = log[c]
        /\ log'[ch].end # 0
        /\ Heard => log'[ch].begin = log[ch].begin /\ (log'[ch] = log[ch] \/ log[ch].begin = 0)
    <3>1. CASE pc = "join" /\ log' = [log EXCEPT ![ch].joined = TRUE]
      BY <3>1, <1>t DEF Hash, IInv, JobInOrder, Begun, Exists, NoKey
    <3>2. CASE pc = "line" /\ log' = [log EXCEPT ![ch].lines = Put(@, logEndID[ch], job.line)]
      BY <3>2, <1>t DEF Hash, IInv, JobInOrder, Begun
    <3>3. CASE ~Heard /\ log' = [log EXCEPT ![ch] = NoKey]
      BY <3>3, <1>t DEF NoKey, Nil
    <3>4. CASE UNCHANGED log
      BY <3>4, <1>t DEF Begun
    <3> QED
      BY <1>10, <3>1, <3>2, <3>3, <3>4 DEF RedisFails, Unheard, Heard
  <2> QED
    BY <2>1, <2>2 DEF Begun
<1>8. CASE Deliver \/ Subscriber \/ UNCHANGED vars
  BY <1>8 DEF Deliver, Subscriber, vars, daemonVars, Begun, ch
<1> QED
  BY <1>1, <1>2, <1>3, <1>4, <1>5, <1>6, <1>7, <1>8, <1>9, <1>10
  DEF Next, Handler, RedisCommand

\* The last id of c that a reader should know of; closed, it may still know of 0.
Records(c, v) == IF log[c].joined THEN log[c].end # Nil /\ v = log[c].end - 1 ELSE v \in {Nil, 0}

\* The daemon has changed c, or may have, and has not said so yet.
Unsettled(c) ==
    c \in stale \/ (ch = c /\ pc \in {"line", "end", "announce", "announceClosed"})

Publishes(n) == i2h' = IF subscribed THEN Append(i2h, n) ELSE i2h

\* Whatever the daemon does to a channel, it says in the end what is on record.
LEMMA Bookkeeping ==
    ASSUME ~RedisMayFail, ~OpensSilently, IInv, Begun, JoinedInv, Next,
           NEW c \in Chan, ~Unsettled(c)'
    PROVE  \/ /\ ~Unsettled(c) /\ \A v : Records(c, v) => Records(c, v)'
              /\ i2h' = i2h \/ \E n \in Note : n.chan # c /\ Publishes(n)
           \/ \E n \in Note : n.chan = c /\ Records(c, n.id)' /\ Publishes(n)
<1>t. /\ log \in [Chan -> Hash] /\ logEndID \in [Chan -> 0 .. MaxEnd \cup {Nil}] /\ ch \in Chan
      /\ \A d \in Chan : log[d].end \in Nat \cup {Nil} /\ MaxEnd \in Nat
  BY ChannelLogAssumption DEF IInv, TypeOK, ch, Hash
<1>e. \A d \in Chan :
          /\ log[d].end # 0
          /\ pc \in {"line", "end", "announce", "announceClosed"} /\ ch = d
                => log[d].begin = 0 /\ Exists(log[d])
  BY <1>t DEF IInv, JobInOrder, Begun, Heard, Exists, NoKey, Nil
<1>s. ASSUME log'[c] = log[c] PROVE \A v : Records(c, v) => Records(c, v)'
  BY <1>s DEF Records
<1>h. ASSUME NEW j, Handle(j) PROVE ~Unsettled(c) /\ log' = log /\ i2h' = i2h
  BY <1>h DEF Handle, Unsettled
<1>1. CASE Handler
  <2>1. ~Unsettled(c) /\ log' = log /\ i2h' = i2h
    BY <1>1, <1>h DEF Handler, Say, Part, Kick, PartQuery, OpenOnly, Reconnect, Unsettled
  <2> QED
    BY <2>1, <1>s
<1>2. CASE SetBegin \/ WriteLine \/ SetEnd \/ MarkAsLeft
  <2>1. /\ i2h' = i2h /\ UNCHANGED <<job, stale>> /\ \A d \in Chan \ {ch} : log'[d] = log[d]
        /\ pc = "begin" => /\ pc' = "join" /\ log'[ch].joined = log[ch].joined
                           /\ log'[ch].end = log[ch].end
        /\ pc # "begin" => pc' \in {"end", "announce", "announceClosed"}
    BY <1>2, <1>t DEF SetBegin, WriteLine, SetEnd, MarkAsLeft, Goto, Hash
  <2>2. c # ch \/ pc = "begin"
    BY <1>2, <2>1 DEF Unsettled, SetBegin, WriteLine, SetEnd, MarkAsLeft, ch
  <2>3. ~Unsettled(c)
    BY <1>2, <2>1, <2>2 DEF Unsettled, ch
  <2>4. \A v : Records(c, v) => Records(c, v)'
    BY <2>1, <2>2 DEF Records
  <2> QED
    BY <2>1, <2>3, <2>4
<1>3. CASE MarkAsJoined
  <2>1. /\ i2h' = i2h /\ UNCHANGED <<job, stale>> /\ \A d \in Chan \ {ch} : log'[d] = log[d]
        /\ pc = "join" /\ pc' = "line"
    BY <1>3, <1>t DEF MarkAsJoined, Goto, AfterOpen, Begun
  <2>2. c # ch /\ ~Unsettled(c)
    BY <2>1 DEF Unsettled, ch
  <2> QED
    BY <2>1, <2>2, <1>s
<1>4. CASE Announce
  <2>n. PICK n : n = NewLog(ch, logEndID[ch] - 1)
    OBVIOUS
  <2>1. /\ log' = log /\ UNCHANGED stale /\ Publishes(n) /\ pc = "announce"
        /\ pc' \in {"idle", "leave"}
    BY <1>4, <2>n DEF Announce, Goto, AfterAppend, Publish, Publishes
  <2>2. n \in Note /\ n.chan = ch /\ n.id = log[ch].end - 1 /\ log[ch].end # Nil
    BY <1>t, <2>1, <2>n, ChannelLogAssumption DEF IInv, JobInOrder, NewLog, Note, Id, Nil
  <2>3. log[ch].joined
    BY <1>t, <2>1 DEF IInv, JobInOrder, JoinedInv, OpenIsJoined
  <2>4. CASE c = ch
    <3>1. Records(c, n.id)'
      BY <2>1, <2>2, <2>3, <2>4 DEF Records
    <3> QED
      BY <2>1, <2>2, <2>4, <3>1
  <2>5. CASE c # ch
    BY <2>1, <2>2, <2>5, <1>s DEF Unsettled
  <2> QED
    BY <2>4, <2>5
<1>5. CASE AnnounceClosed
  <2>n. PICK n : n = Closed(ch)
    OBVIOUS
  <2>1. /\ log' = log /\ UNCHANGED stale /\ Publishes(n) /\ pc = "announceClosed"
    BY <1>5, <2>n DEF AnnounceClosed, Publish, Publishes
  <2>2. n \in Note /\ n.chan = ch /\ n.id = Nil /\ ~log[ch].joined
    BY <1>t, <2>1, <2>n DEF Closed, NewLog, Note, Begun
  <2>4. CASE c = ch
    <3>1. Records(c, n.id)'
      BY <2>1, <2>2, <2>4 DEF Records
    <3> QED
      BY <2>1, <2>2, <2>4, <3>1
  <2>5. CASE c # ch
    BY <2>1, <2>2, <2>5, <1>s DEF Unsettled
  <2> QED
    BY <2>4, <2>5
<1>6. CASE ClearLog
  <2>1. /\ i2h' = i2h /\ UNCHANGED stale /\ \A d \in Chan \ {ch} : log'[d] = log[d]
        /\ ~log[ch].joined /\ ~log'[ch].joined /\ pc = "delete"
    BY <1>6, <1>t DEF ClearLog, NoKey, Begun
  <2>2. ~Unsettled(c)
    BY <1>6, <2>1 DEF Unsettled, IInv, JobInOrder, Begun, ClearLog
  <2>3. \A v : Records(c, v) => Records(c, v)'
    BY <2>1 DEF Records
  <2> QED
    BY <2>1, <2>2, <2>3
<1>7. ASSUME NEW d \in Chan, ClearJoined(d) PROVE ~Unsettled(c) /\ log'[c] = log[c] /\ i2h' = i2h
  <2>1. /\ i2h' = i2h /\ pc = "idle" /\ pc' = "announceClosed" /\ ch' = d /\ stale' = stale \ {d}
        /\ \A e \in Chan \ {d} : log'[e] = log[e]
    BY <1>7, <1>t DEF ClearJoined, Job, ch
  <2> QED
    BY <2>1 DEF Unsettled
<1>8. CASE Crash
  <2>1. /\ log' = log /\ i2h' = i2h /\ stale' = {d \in Chan : Exists(log[d])}
    BY <1>8 DEF Crash
  <2>2. ~Exists(log[c])
    BY <2>1 DEF Unsettled
  <2>3. ~Unsettled(c)
    BY <2>2, <1>e DEF Unsettled, Begun, Heard, Exists, NoKey, Nil
  <2> QED
    BY <2>1, <2>3, <1>s
<1> QED
  BY <1>s, <1>1, <1>2, <1>3, <1>4, <1>5, <1>6, <1>7, <1>8 DEF Next, RedisCommand, RedisFails

------------------------------------------------------------------------------
(* The log implements LogFeed.                                              *)

\* A command that leaves begin and end, and every line below the end, as they were shows
\* the readers nothing.
LEMMA SameView ==
    ASSUME NEW h, NEW g, h.begin = g.begin, h.end = g.end, h.end \in Nat \cup {Nil},
           h.begin # Nil /\ h.end # Nil => \A i \in 0 .. h.end - 1 : h.lines[i] = g.lines[i]
    PROVE  Visible(h) = Visible(g)
<1>1. CASE h.begin = Nil \/ h.end = Nil
  BY <1>1 DEF Visible
<1>2. CASE h.begin # Nil /\ h.end # Nil
  <2>1. \A i \in 1 .. h.end : h.lines[i - 1] = g.lines[i - 1]
    BY <1>2 DEF Nil
  <2> QED
    BY <1>2, <2>1 DEF Visible, Nil
<1> QED
  BY <1>1, <1>2

\* SetEnd shows a prefix and what was written behind it.
LEMMA EndExtends ==
    ASSUME NEW h \in Hash, h.begin # Nil, NEW n \in 0 .. MaxEnd, h.end <= n,
           0 .. n - 1 \subseteq DOMAIN h.lines,
           NEW g, g.begin = h.begin, g.end = n, g.lines = h.lines
    PROVE  \/ Visible(g) = Visible(h)
           \/ /\ Visible(g) \in Seq(Line)
              /\ Len(Visible(h)) < Len(Visible(g))
              /\ \A i \in 1 .. Len(Visible(h)) : Visible(g)[i] = Visible(h)[i]
<1>1. PICK S \in SUBSET Id : h.lines \in [S -> Line]
  BY LinesType DEF LineMap
<1>2. \A i \in 1 .. n : h.lines[i - 1] \in Line
  BY <1>1
<1>3. Visible(g) = [i \in 1 .. n |-> h.lines[i - 1]]
  BY DEF Visible, Nil
<1>4. Visible(g) \in Seq(Line) /\ Len(Visible(g)) = n
  BY <1>2, <1>3
<1>5. h.end \in 0 .. MaxEnd \cup {Nil}
  BY DEF Hash
<1>6. CASE h.end = Nil
  <2>1. Visible(h) = <<>>
    BY <1>6 DEF Visible
  <2> QED
    BY <1>3, <1>4, <2>1
<1>7. CASE h.end \in 0 .. n
  <2>1. Visible(h) = [i \in 1 .. h.end |-> h.lines[i - 1]]
    BY <1>7 DEF Visible, Nil
  <2>2. \A i \in 1 .. h.end : h.lines[i - 1] \in Line
    BY <1>2, <1>7
  <2>3. Visible(h) \in Seq(Line) /\ Len(Visible(h)) = h.end
    BY <1>7, <2>1, <2>2
  <2>4. CASE h.end = n
    BY <1>3, <2>1, <2>4
  <2>5. CASE h.end < n
    BY <1>3, <1>4, <1>7, <2>1, <2>3, <2>5
  <2> QED
    BY <1>7, <2>4, <2>5
<1> QED
  BY <1>5, <1>6, <1>7

\* Every step shows the readers more lines, throws the log away or shows nothing.
LEMMA FeedStep == IInv /\ [Next \/ Deliver \/ Subscriber]_vars => [Feed!Next]_feed
<1> SUFFICES ASSUME IInv, [Next \/ Deliver \/ Subscriber]_vars
             PROVE  [Feed!Next]_feed
  OBVIOUS
<1>t. /\ log \in [Chan -> Hash] /\ job \in [chan : Chan, line : Line \cup {NoLine},
                                close : {"no", "keep", "clear", "start"}]
      /\ \A d \in Chan : log[d].end \in 0 .. MaxEnd \cup {Nil}
  BY DEF IInv, TypeOK, Hash
<1>c. ch \in Chan
  BY <1>t DEF ch
<1>f. /\ DOMAIN feed = Chan /\ DOMAIN feed' = Chan
      /\ \A d \in Chan : feed[d] = Visible(log[d]) /\ feed'[d] = Visible(log'[d])
  BY DEF feed
<1>v. CASE \A d \in Chan : Visible(log'[d]) = Visible(log[d])
  <2>1. feed' = feed
    BY <1>v DEF feed
  <2> QED
    BY <2>1
<1>1. CASE UNCHANGED log
  BY <1>1, <1>v
<1>2. ASSUME NEW c \in Chan, NEW b, log' = [log EXCEPT ![c].joined = b]
      PROVE  [Feed!Next]_feed
  <2>1. \A d \in Chan : /\ log'[d].begin = log[d].begin /\ log'[d].end = log[d].end
                        /\ log'[d].lines = log[d].lines
    BY <1>2, <1>t DEF Hash
  <2> QED
    BY <2>1, <1>v DEF Visible
<1>3. CASE SetBegin
  <2>1. log[ch].end = Nil
    BY <1>3 DEF SetBegin, IInv, JobInOrder
  <2>2. log'[ch].end = Nil /\ \A d \in Chan \ {ch} : log'[d] = log[d]
    BY <1>3, <1>t, <1>c, <2>1 DEF SetBegin, Hash
  <2> QED
    BY <2>1, <2>2, <1>v DEF Visible
<1>4. CASE pc = "line" /\ log' = [log EXCEPT ![ch].lines = Put(@, logEndID[ch], job.line)]
  <2> DEFINE new == Put(log[ch].lines, logEndID[ch], job.line)
  <2>1. log' = [log EXCEPT ![ch].lines = new]
    BY <1>4
  <2>2. logEndID[ch] \in Nat /\ log[ch].end <= logEndID[ch]
        /\ (log[ch].begin # Nil => 0 .. logEndID[ch] - 1 \subseteq DOMAIN log[ch].lines)
    BY <1>4, <1>c DEF IInv, TypeOK, WriterAhead, JobInOrder
  <2>3. log[ch].begin # Nil => \A i \in 0 .. logEndID[ch] - 1 : new[i] = log[ch].lines[i]
    BY <2>2 DEF Put
  <2> HIDE DEF new
  <2>4. log'[ch].begin = log[ch].begin /\ log'[ch].end = log[ch].end /\ log'[ch].lines = new
    BY <2>1, <1>t, <1>c DEF Hash
  <2>5. Visible(log'[ch]) = Visible(log[ch])
    BY <2>2, <2>3, <2>4, <1>t, <1>c, SameView DEF Nil
  <2>6. \A d \in Chan \ {ch} : log'[d] = log[d]
    BY <2>1, <1>t
  <2> QED
    BY <2>5, <2>6, <1>v
<1>5. CASE SetEnd
  <2>1. log' = [log EXCEPT ![ch].end = logEndID[ch]]
    BY <1>5 DEF SetEnd
  <2>2. /\ logEndID[ch] \in 0 .. MaxEnd /\ log[ch].end <= logEndID[ch]
        /\ log[ch].begin # Nil => 0 .. logEndID[ch] - 1 \subseteq DOMAIN log[ch].lines
    BY <1>5, <1>c DEF SetEnd, IInv, TypeOK, WriterAhead, JobInOrder
  <2>3. /\ log'[ch].end = logEndID[ch] /\ log'[ch].lines = log[ch].lines
        /\ log'[ch].begin = log[ch].begin
    BY <2>1, <1>t, <1>c DEF Hash
  <2>4. \A d \in Chan \ {ch} : log'[d] = log[d] /\ feed'[d] = feed[d]
    BY <1>f, <2>1, <1>t
  <2>5. feed'[ch] = feed[ch] \/ Feed!Extend(ch)
    <3>1. log[ch] \in Hash
      BY <1>t, <1>c
    <3>2. CASE log[ch].begin = Nil
      BY <1>c, <1>f, <2>3, <3>2 DEF Visible
    <3>3. CASE log[ch].begin # Nil
      BY <1>c, <1>f, <2>2, <2>3, <3>1, <3>3, EndExtends DEF Feed!Extend
    <3> QED
      BY <3>2, <3>3
  <2>6. CASE feed'[ch] = feed[ch]
    <3>1. \A d \in Chan : Visible(log'[d]) = Visible(log[d])
      BY <1>f, <2>4, <2>6
    <3> QED
      BY <3>1, <1>v
  <2>7. CASE Feed!Extend(ch)
    BY <1>c, <1>f, <2>4, <2>7 DEF Feed!Next
  <2> QED
    BY <2>5, <2>6, <2>7
<1>6. CASE log' = [log EXCEPT ![ch] = NoKey]
  <2>1. feed'[ch] = <<>>
    BY <1>c, <1>f, <1>t, <1>6 DEF NoKey, Visible
  <2>2. \A d \in Chan \ {ch} : feed'[d] = feed[d]
    BY <1>f, <1>6, <1>t
  <2> QED
    BY <1>c, <1>f, <2>1, <2>2 DEF Feed!Next, Feed!Discard
<1>7. CASE MarkAsJoined \/ MarkAsLeft \/ \E c \in Chan : ClearJoined(c)
  BY <1>7, <1>c, <1>2 DEF MarkAsJoined, MarkAsLeft, ClearJoined
<1>8. CASE WriteLine \/ ClearLog
  BY <1>8, <1>4, <1>6 DEF WriteLine, ClearLog
<1>9. CASE RedisFails
  BY <1>9, <1>1, <1>2, <1>4, <1>6, <1>c DEF RedisFails, Unheard
<1> QED
  BY <1>1, <1>3, <1>5, <1>7, <1>8, <1>9
  DEF Next, Handler, RedisCommand, Say, Part, Kick, PartQuery, OpenOnly, Handle,
      Reconnect, Announce, AnnounceClosed, Crash, Deliver, Subscriber, vars

\* What readers see of the logs is what LogFeed promises: a log only grows at
\* its end until it is thrown away, through every handler, failed command,
\* reconnect and crash of the daemon.
THEOREM LogIsFeed == Spec => FeedSpec
<1>1. Init => Feed!Init
  BY DEF Init, Feed!Init, feed, Visible, NoKey
<1> QED
  BY <1>1, FeedStep, Inductive, PTL DEF Spec, FeedSpec, Feed!Spec
==============================================================================
