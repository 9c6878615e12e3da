----------------------------- MODULE ChannelLog -----------------------------
(***************************************************************************)
(* The ircclient daemon as the writer of channel logs: class IRCChannel    *)
(* and the handlers of IRCUser that open, extend and close channels        *)
(* (ircclient/IRCUser.py), and the clean-up of ConnectionManager's         *)
(* constructor (ircclient/connectionMgr.py).                               *)
(*                                                                         *)
(* The daemon runs its handlers one after the other in one thread, but     *)
(* each is a series of redis commands, and the web server reads the log    *)
(* between any two of them.  A handler is therefore an action that starts  *)
(* a job, and each redis command of the job is an action of its own, with  *)
(* what the handler does in memory before it issues the next command.      *)
(* What a handler reads (HGET end) it reads when it starts: no one else    *)
(* writes the logs.  Fields no reader of this model looks at (topic,       *)
(* users, the channel's settings) are left out, and one user on one IRC    *)
(* server is modelled: the logs of different users are different keys.     *)
(***************************************************************************)
EXTENDS Dict, Sequences

CONSTANTS
    Chan,             \* channels (and the nicks of private talks)
    Line,             \* what a log line may say
    RedisMayFail,     \* may a redis command raise an exception?
    ClearsUnheard,    \* may a DEL that redis has executed be one of them?
    OpensSilently,    \* may a handler open a channel and write no line?
    MaxEnd,           \* bound: log ids stay below MaxEnd
    MaxQueue          \* bound: undelivered notifications

NoLine == "no line"   \* the job of a handler that writes none

ASSUME ChannelLogAssumption ==
    /\ Chan # {}
    /\ NoLine \notin Line
    /\ RedisMayFail \in BOOLEAN
    /\ ClearsUnheard \in BOOLEAN
    /\ OpensSilently \in BOOLEAN
    /\ MaxEnd \in Nat
    /\ MaxQueue \in Nat

VARIABLES
    log,              \* redis: log[c], the hash at key log|user|server|c|
    i2h,              \* redis: notifications on their way to the web server
    subscribed,       \* redis: does the web server listen to i2h?
    logEndID,         \* logEndID[c] of the open IRCChannel c, Nil when not open
    job,              \* the running handler: its channel, line and closing
    pc,               \* the redis command it issues next
    stale             \* keys whose joined flag a starting daemon has to clear

daemonVars == <<logEndID, job, pc, stale>>
vars == <<log, i2h, subscribed, daemonVars>>

NoKey == [begin |-> Nil, end |-> Nil, joined |-> FALSE, lines |-> <<>>]

Exists(h) == h # NoKey

\* i2h carries "newlog" with the id of the new line, or "" for a closed channel.
NewLog(c, id) == [chan |-> c, id |-> id]
Closed(c)     == NewLog(c, Nil)

----------------------------------------------------------------------------
(* Jobs: open the channel unless it is open, append a line, close it.      *)

Job(c, m, close) == [chan |-> c, line |-> m, close |-> close]

NoJob == Job(CHOOSE c \in Chan : TRUE, NoLine, "no")

\* The running handler issues command p next; "idle" when it has returned.
Goto(p) == pc' = p /\ job' = IF p = "idle" THEN NoJob ELSE job

\* Mutants: `None' taken for an id; every channel from 0; the last line again.
FirstIDUnchecked(c) == log[c].end
FirstIDZero(c) == 0
FirstIDLast(c) == IF log[c].end = Nil THEN 0 ELSE log[c].end - 1

\* IRCChannel's constructor: the id of the first line it will write.
FirstID(c) == IF log[c].end = Nil THEN 0 ELSE log[c].end

NextID(c) == IF logEndID[c] # Nil THEN logEndID[c] ELSE FirstID(c)

\* channelClosed, when the handler closes the channel at all.
AfterAppend(j) == IF j.close = "no" THEN "idle" ELSE "leave"

AfterOpen(j) == IF j.line # NoLine THEN "line" ELSE AfterAppend(j)

\* getChannel: a channel without an `end' gets its `begin' first.
Entry(j) ==
    IF logEndID[j.chan] # Nil THEN AfterOpen(j)
    ELSE IF log[j.chan].end = Nil THEN "begin" ELSE "join"

Handle(j) ==
    /\ pc = "idle" /\ stale = {}
    /\ job' = j
    /\ pc' = Entry(j)
    /\ UNCHANGED <<log, i2h, subscribed, logEndID, stale>>

----------------------------------------------------------------------------
(* Handlers.                                                               *)

\* Every handler that writes one line: cmd_say, cmd_query, on_join, on_pubmsg,
\* on_privmsg, on_currenttopic, on_topic, on_topicinfo, on_mode, on_default,
\* on_nicknameinuse, somebody else's on_part and on_kick.  on_quit and on_nick
\* do the same to one open channel after the other.
Say(c, m) == NextID(c) < MaxEnd /\ Handle(Job(c, m, "no"))

\* on_part of one's own nick, on_notonchannel, on_cannotsendtochan.
Part(c, m) == NextID(c) < MaxEnd /\ Handle(Job(c, m, "clear"))

\* on_kick of one's own nick: the log stays.
Kick(c, m) == NextID(c) < MaxEnd /\ Handle(Job(c, m, "keep"))

\* cmd_part of a private talk: closed at once, if it is open at all.
PartQuery(c) == logEndID[c] # Nil /\ Handle(Job(c, NoLine, "clear"))

\* Handlers that open a channel and write no line: on_notopic, on_namreply, and
\* cmd_say before the welcome, whose line fails to encode (no nickname yet).
OpenOnly(c) ==
    /\ OpensSilently
    /\ logEndID[c] = Nil
    /\ Handle(Job(c, NoLine, "no"))

\* IRCUser.destroy, and a new IRCUser on the reconnect: the channel objects are
\* gone, the joined flags in redis are not.
Reconnect ==
    /\ pc = "idle" /\ stale = {}
    /\ logEndID' = [c \in Chan |-> Nil]
    /\ UNCHANGED <<log, i2h, subscribed, job, pc, stale>>

----------------------------------------------------------------------------
(* Redis commands.                                                         *)

ch == job.chan

Publish(n) ==
    /\ Len(i2h) < MaxQueue
    /\ i2h' = IF subscribed THEN Append(i2h, n) ELSE i2h

SetBegin ==
    /\ pc = "begin"
    /\ log' = [log EXCEPT ![ch].begin = 0]
    /\ Goto("join")
    /\ UNCHANGED <<i2h, subscribed, logEndID, stale>>

\* markAsJoined(True); then getChannel files the channel object.
MarkAsJoined ==
    /\ pc = "join"
    /\ log' = [log EXCEPT ![ch].joined = TRUE]
    /\ logEndID' = [logEndID EXCEPT ![ch] = FirstID(ch)]
    /\ Goto(AfterOpen(job))
    /\ UNCHANGED <<i2h, subscribed, stale>>

\* Mutant: `end' is not written.
WriteLineOnly ==
    /\ pc = "line"
    /\ log' = [log EXCEPT ![ch].lines = Put(@, logEndID[ch], job.line)]
    /\ logEndID' = [logEndID EXCEPT ![ch] = @ + 1]
    /\ Goto("announce")
    /\ UNCHANGED <<i2h, subscribed, stale>>

\* appendLog: first the line, ...
WriteLine ==
    /\ pc = "line"
    /\ log' = [log EXCEPT ![ch].lines = Put(@, logEndID[ch], job.line)]
    /\ logEndID' = [logEndID EXCEPT ![ch] = @ + 1]
    /\ Goto("end")
    /\ UNCHANGED <<i2h, subscribed, stale>>

\* Mutant: `end' is one too high.
SetEndTooHigh ==
    /\ pc = "end"
    /\ log' = [log EXCEPT ![ch].end = logEndID[ch] + 1]
    /\ Goto("announce")
    /\ UNCHANGED <<i2h, subscribed, logEndID, stale>>

\* ... then the end that makes it visible, ...
SetEnd ==
    /\ pc = "end"
    /\ log' = [log EXCEPT ![ch].end = logEndID[ch]]
    /\ Goto("announce")
    /\ UNCHANGED <<i2h, subscribed, logEndID, stale>>

\* Mutant: nothing is published.
AnnounceNothing ==
    /\ pc = "announce"
    /\ Goto(AfterAppend(job))
    /\ UNCHANGED <<log, i2h, subscribed, logEndID, stale>>

\* ... then the notification.
Announce ==
    /\ pc = "announce"
    /\ Publish(NewLog(ch, logEndID[ch] - 1))
    /\ Goto(AfterAppend(job))
    /\ UNCHANGED <<log, subscribed, logEndID, stale>>

\* markAsJoined(False), first half.
MarkAsLeft ==
    /\ pc = "leave"
    /\ log' = [log EXCEPT ![ch].joined = FALSE]
    /\ Goto("announceClosed")
    /\ UNCHANGED <<i2h, subscribed, logEndID, stale>>

\* Mutant: a kicked user's channel object stays.
AnnounceClosedStays ==
    /\ pc = "announceClosed"
    /\ Publish(Closed(ch))
    /\ Goto(IF job.close = "clear" THEN "delete" ELSE "idle")
    /\ UNCHANGED <<log, subscribed, logEndID, stale>>

\* Its second half; a kicked user's channel object goes now, its log stays.
AnnounceClosed ==
    /\ pc = "announceClosed"
    /\ Publish(Closed(ch))
    /\ Goto(IF job.close = "clear" THEN "delete" ELSE "idle")
    /\ logEndID' = IF job.close = "keep" THEN [logEndID EXCEPT ![ch] = Nil]
                                         ELSE logEndID
    /\ UNCHANGED <<log, subscribed, stale>>

\* clearLog, and the channel object goes.
ClearLog ==
    /\ pc = "delete"
    /\ log' = [log EXCEPT ![ch] = NoKey]
    /\ logEndID' = [logEndID EXCEPT ![ch] = Nil]
    /\ Goto("idle")
    /\ UNCHANGED <<i2h, subscribed, stale>>

----------------------------------------------------------------------------
(* Failures and restarts.                                                  *)

\* Redis has executed a command, but the answer is lost and the command raises.  For
\* the commands not listed this is a failure of the next one, if any; after these the
\* daemon would have changed its memory: the channel is not filed, the line is not counted,
\* the kicked user's channel, and the cleared one, stay open.  (Topic and members,
\* which are left out, may then make a key again before the next line does.)
Unheard ==
    \/ pc = "join" /\ log' = [log EXCEPT ![ch].joined = TRUE] /\ UNCHANGED i2h
    \/ /\ pc = "line"
       /\ log' = [log EXCEPT ![ch].lines = Put(@, logEndID[ch], job.line)]
       /\ UNCHANGED i2h
    \/ pc = "announceClosed" /\ Publish(Closed(ch)) /\ UNCHANGED log
    \/ ClearsUnheard /\ pc = "delete" /\ log' = [log EXCEPT ![ch] = NoKey] /\ UNCHANGED i2h

\* A redis command raises: the handler is abandoned where it stands (onReceive
\* and CommandProcessor.update catch everything).
RedisFails ==
    /\ RedisMayFail
    /\ pc # "idle" /\ job.close # "start"
    /\ Goto("idle")
    /\ Unheard \/ UNCHANGED <<log, i2h>>
    /\ UNCHANGED <<subscribed, logEndID, stale>>

\* The daemon dies between two commands; the new one lists the logs (KEYS).
Crash ==
    /\ logEndID' = [c \in Chan |-> Nil]
    /\ Goto("idle")
    /\ stale' = {c \in Chan : Exists(log[c])}
    /\ UNCHANGED <<log, i2h, subscribed>>

\* ConnectionManager's constructor: HDEL joined and a notification, per key.
ClearJoined(c) ==
    /\ pc = "idle"
    /\ c \in stale
    /\ log' = [log EXCEPT ![c].joined = FALSE]
    /\ job' = Job(c, NoLine, "start")
    /\ pc' = "announceClosed"
    /\ stale' = stale \ {c}
    /\ UNCHANGED <<i2h, subscribed, logEndID>>

----------------------------------------------------------------------------
Init ==
    /\ log = [c \in Chan |-> NoKey]
    /\ i2h = <<>>
    /\ subscribed \in BOOLEAN
    /\ logEndID = [c \in Chan |-> Nil]
    /\ job = NoJob
    /\ pc = "idle"
    /\ stale = {}

Handler ==
    \/ \E c \in Chan, m \in Line : Say(c, m) \/ Part(c, m) \/ Kick(c, m)
    \/ \E c \in Chan : PartQuery(c) \/ OpenOnly(c)
    \/ Reconnect

RedisCommand ==
    \/ SetBegin \/ MarkAsJoined \/ WriteLine \/ SetEnd \/ Announce
    \/ MarkAsLeft \/ AnnounceClosed \/ ClearLog
    \/ \E c \in Chan : ClearJoined(c)

Next == Handler \/ RedisCommand \/ RedisFails \/ Crash

\* Redis hands over the oldest notification, or the subscriber comes or goes.
Deliver ==
    /\ i2h # <<>>
    /\ i2h' = Tail(i2h)
    /\ UNCHANGED <<log, subscribed, daemonVars>>

Subscriber ==
    /\ subscribed' = ~subscribed
    /\ i2h' = <<>>
    /\ UNCHANGED <<log, daemonVars>>

Spec == Init /\ [][Next \/ Deliver \/ Subscriber]_vars

----------------------------------------------------------------------------
(* Properties.                                                             *)

Id == 0 .. MaxEnd - 1

LineMap == UNION {[S -> Line] : S \in SUBSET Id}

Hash == [begin : {Nil, 0}, end : 0 .. MaxEnd \cup {Nil}, joined : BOOLEAN,
         lines : LineMap]

Note == [chan : Chan, id : Id \cup {Nil}]

\* The types of redis' hashes and of the daemon's state, lines and ids included.
TypeOK ==
    /\ log \in [Chan -> Hash]
    /\ i2h \in Seq(Note)
    /\ subscribed \in BOOLEAN
    /\ logEndID \in [Chan -> 0 .. MaxEnd \cup {Nil}]
    /\ job \in [chan : Chan, line : Line \cup {NoLine},
                close : {"no", "keep", "clear", "start"}]
    /\ pc \in {"idle", "begin", "join", "line", "end", "announce",
               "leave", "announceClosed", "delete"}
    /\ stale \in SUBSET Chan

\* A reader that has seen `begin' and `end' finds every line between them,
\* whatever command the writer has reached, and whenever it has crashed.
NoHole ==
    \A c \in Chan : log[c].begin # Nil /\ log[c].end # Nil =>
        0 .. log[c].end - 1 \subseteq DOMAIN log[c].lines

\* The writer is never behind the log: an open channel writes its next line
\* after every line a reader can see, and over none of them.  (A log that was cleared
\* unheard has no begin any more, and no reader sees a line of it.)
WriterAhead ==
    \A c \in Chan : logEndID[c] # Nil =>
        /\ log[c].end <= logEndID[c]
        /\ log[c].begin # Nil => 0 .. logEndID[c] - 1 \subseteq DOMAIN log[c].lines

\* A notification is published only when the line it names is in the log, and the
\* end behind it: the web server reads the log as soon as it hears of it.
AnnouncedIsReadable ==
    [][\A c \in Chan, id \in Id :
          (Announce /\ i2h' = Append(i2h, NewLog(c, id)))
              => id \in 0 .. log[c].end - 1 /\ id \in DOMAIN log[c].lines]_vars

\* What a running handler can rely on before each of its commands.
JobInOrder ==
    /\ pc \in {"begin", "join"} => logEndID[ch] = Nil
    /\ pc \in {"begin", "join"} /\ job.line # NoLine => FirstID(ch) < MaxEnd
    /\ pc = "begin" => log[ch].end = Nil
    /\ pc = "join" => log[ch].begin = 0 \/ log[ch].end # Nil
    /\ pc \in {"line", "end", "announce", "leave", "delete"} => logEndID[ch] # Nil
    /\ pc = "line" => logEndID[ch] < MaxEnd /\ job.line # NoLine
    /\ pc \in {"end", "announce"} => logEndID[ch] # 0 /\ logEndID[ch] - 1 \in DOMAIN log[ch].lines
    /\ pc = "announce" => log[ch].end = logEndID[ch]
    /\ pc = "announceClosed" /\ job.close # "start" => logEndID[ch] # Nil
    /\ pc # "announceClosed" => job.close # "start"

\* A channel the daemon works with is marked as joined in redis, unless it is
\* just being closed: a web server that loads now must not miss it.
OpenIsJoined ==
    \A c \in Chan : logEndID[c] # Nil =>
        \/ log[c].joined
        \/ job.chan = c /\ pc \in {"announceClosed", "delete"}

\* What readers see of a log: the lines between begin (always 0) and end, if both
\* are there.
Visible(h) ==
    IF h.begin = Nil \/ h.end = Nil THEN <<>> ELSE [i \in 1 .. h.end |-> h.lines[i - 1]]

feed == [c \in Chan |-> Visible(log[c])]

Feed == INSTANCE LogFeed

\* The log keeps LogFeed's promise through every handler, failure and restart.
FeedSpec == Feed!Spec
============================================================================
