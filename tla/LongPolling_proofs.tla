------------------------- MODULE LongPolling_proofs -------------------------
(***************************************************************************)
(* Proofs about the whole path, for any channels, pages, lines, bounds and *)
(* windows.                                                                *)
(***************************************************************************)
EXTENDS LongPolling, TLAPS, WellFoundedInduction

\* What has been proved of the daemon.
Log == INSTANCE ChannelLog_proofs

\* With that, the notification thread only loads a user for a notification.
LogInv == Log!IInv /\ Log!FromZero /\ (lock = Listener => i2h # <<>>)

LEMMA Assumed == Log!ChannelLogAssumption
BY Zenon, DaemonAssumption DEF Log!ChannelLogAssumption, Daemon!NoLine, Log!NoLine

\* The two instances of ChannelLog are one.
LEMMA SameDaemon == (Daemon!Init => Log!Init) /\ (Daemon!Next => Log!Next)
BY Zenon DEF Daemon!Handler, Log!Handler, Daemon!Say, Log!Say, Daemon!Part, Log!Part,
   Daemon!Kick, Log!Kick, Daemon!PartQuery, Log!PartQuery, Daemon!OpenOnly, Log!OpenOnly,
   Daemon!Handle, Log!Handle, Daemon!Reconnect, Log!Reconnect, Daemon!RedisCommand,
   Log!RedisCommand, Daemon!SetBegin, Log!SetBegin, Daemon!MarkAsJoined, Log!MarkAsJoined,
   Daemon!WriteLine, Log!WriteLine, Daemon!SetEnd, Log!SetEnd, Daemon!Announce,
   Log!Announce, Daemon!MarkAsLeft, Log!MarkAsLeft, Daemon!AnnounceClosed,
   Log!AnnounceClosed, Daemon!ClearLog, Log!ClearLog, Daemon!ClearJoined, Log!ClearJoined,
   Daemon!RedisFails, Log!RedisFails, Daemon!Unheard, Log!Unheard, Daemon!Crash, Log!Crash,
   Daemon!Next, Log!Next,
   Daemon!Init, Log!Init, Daemon!Goto, Log!Goto, Daemon!Entry, Log!Entry,
   Daemon!AfterOpen, Log!AfterOpen, Daemon!AfterAppend, Log!AfterAppend, Daemon!NextID,
   Log!NextID, Daemon!FirstID, Log!FirstID, Daemon!Job, Log!Job, Daemon!NoJob, Log!NoJob,
   Daemon!NoLine, Log!NoLine, Daemon!Publish, Log!Publish, Daemon!NewLog, Log!NewLog,
   Daemon!Closed, Log!Closed, Daemon!ch, Log!ch, Daemon!NoKey, Log!NoKey, Daemon!Exists,
   Log!Exists, Daemon!Nil, Log!Nil, Daemon!Put, Log!Put

------------------------------------------------------------------------------
(* What a page knows, and what its request reads.                           *)

Id == Daemon!Id
LineMap == Daemon!LineMap

Places == {"idle", "init", "check", "wait", "wake", "changed", "nochange", "failed",
           "broken", "refused"}

Types ==
    /\ at \in [Request -> Places]
    /\ page \in [Request -> {"closed", "init", "poll", "deaf", "stopped"}]
    /\ Request = DOMAIN asked /\ Request = DOMAIN answer /\ Request = DOMAIN window
    /\ Request = DOMAIN reply /\ Request = DOMAIN shown
    /\ \A r \in Request :
        /\ \A c \in DOMAIN asked[r] : c \in Chan /\ asked[r][c] \in Id
        /\ \A c \in DOMAIN window[r] : c \in Chan
        /\ \A c \in DOMAIN reply[r] : c \in Chan /\ reply[r][c] \in LineMap
        /\ \A c \in DOMAIN shown[r] : c \in Chan /\ shown[r][c] \in LineMap

\* A request has read nothing before it has its answer, and no channel twice.
Reading ==
    \A r \in Request :
        /\ at[r] # "changed" => DOMAIN window[r] = {}
        /\ at[r] \notin {"changed", "broken"} => DOMAIN reply[r] = {}
        /\ DOMAIN window[r] \subseteq DOMAIN answer[r] \ DOMAIN reply[r]

\* Ids without a gap; ids from k on without a gap: unless a DEL raises that redis has
\* executed, see Log!FromZero.
Interval(S) == Log!Heard => \A i, j \in S : i .. j \subseteq S
From(S, k)  == \A i \in S : k <= i /\ (Log!Heard => k .. i \subseteq S)

\* What continues a page's lines, if it has any.
Continues(r, c, S) ==
    /\ S \subseteq Id /\ Interval(S)
    /\ c \in DOMAIN asked[r] => From(S, asked[r][c] + 1)

Runs ==
    \A r \in Request :
        /\ \A c \in DOMAIN window[r] : Continues(r, c, window[r][c])
        /\ \A c \in DOMAIN reply[r] : Continues(r, c, DOMAIN reply[r][c])

\* While a request is served, its page shows what it said it knows.
Knows ==
    \A r \in Request :
        /\ page[r] \in {"closed", "init"} => DOMAIN shown[r] = {}
        /\ at[r] \notin {"idle", "refused"} =>
              \A c \in DOMAIN shown[r] : DOMAIN shown[r][c] # {} =>
                  /\ c \in DOMAIN asked[r] /\ asked[r][c] \in DOMAIN shown[r][c]
                  /\ \A i \in DOMAIN shown[r][c] : i <= asked[r][c]

\* The pages show lines without a gap.
Gapless == \A r \in Request : \A c \in DOMAIN shown[r] : Interval(DOMAIN shown[r][c])

\* Who loads the user is not yet answered.
Loading == lock \in Thread \cup {Free} /\ (lock \in Request => at[lock] \in {"init", "check"})

PathInv == Types /\ Loading /\ Reading /\ Runs /\ Knows /\ Gapless

LEMMA PathInit == Init => LogInv /\ PathInv
<1> SUFFICES ASSUME Init PROVE LogInv /\ PathInv
  OBVIOUS
<1>1. Log!IInv
  <2>1. Log!Init
    BY SameDaemon DEF Init
  <2> QED
    BY <2>1, Assumed, Log!InvInit DEF Log!InvInit, Log!ChannelLogAssumption
<1>2. Log!FromZero
  BY SameDaemon DEF Init, Log!Init, Log!FromZero, Log!BegunFirst, Log!NoKey
<1>3. PathInv
  <2>1. Types /\ Reading /\ Runs /\ Knows /\ Gapless
    BY DEF Init, WebInit, Types, Reading, Runs, Knows, Gapless, Places
  <2>2. Loading
    BY LogMetadataAssumption DEF Init, WebInit, Loading
  <2> QED
    BY <2>1, <2>2 DEF PathInv
<1>4. lock = Listener => i2h # <<>>
  BY LogMetadataAssumption DEF Init, WebInit
<1> QED
  BY <1>1, <1>2, <1>3, <1>4 DEF LogInv

------------------------------------------------------------------------------
(* The daemon's steps, and those of others.                                 *)

\* What a reader finds in the logs at any time.
LogFacts ==
    \A c \in Chan :
        /\ log[c].begin \in {Nil, 0} /\ log[c].end \in 0 .. MaxEnd \cup {Nil}
        /\ log[c].lines \in LineMap
        /\ Log!Heard => \A i \in DOMAIN log[c].lines : 0 .. i \subseteq DOMAIN log[c].lines

LEMMA Reader == LogInv => LogFacts
BY DEF LogInv, LogFacts, LineMap, Id, Daemon!LineMap, Daemon!Id, Log!IInv, Log!TypeOK,
       Log!Hash, Log!LineMap, Log!Id, Log!FromZero, Nil, Log!Nil

LEMMA RestType == ASSUME NEW S, NEW s \in Seq(S), s # <<>> PROVE Tail(s) \in Seq(S)
OBVIOUS

\* The web server takes notifications and may lose them, and changes no log.
LEMMA OthersLog ==
    ASSUME LogInv, UNCHANGED <<log, daemonVars>>, subscribed' \in BOOLEAN,
           i2h' = i2h \/ i2h' = <<>> \/ (i2h # <<>> /\ i2h' = Tail(i2h)),
           lock' = Listener => i2h' # <<>>
    PROVE  LogInv'
<1>1. Log!IInv'
  <2>1. i2h \in Seq(Log!Note)
    BY DEF LogInv, Log!IInv, Log!TypeOK
  <2>2. i2h' \in Seq(Log!Note)
    <3>1. i2h # <<>> => Tail(i2h) \in Seq(Log!Note)
      BY <2>1, RestType
    <3>2. <<>> \in Seq(Log!Note)
      OBVIOUS
    <3> QED
      BY Zenon, <2>1, <3>1, <3>2
  <2>3. Log!TypeOK'
    BY <2>2 DEF LogInv, Log!IInv, Log!TypeOK, daemonVars
  <2>4. Log!NoHole' /\ Log!WriterAhead' /\ Log!JobInOrder'
    BY DEF LogInv, Log!IInv, Log!NoHole, Log!WriterAhead, Log!JobInOrder, Log!FirstID,
           Log!ch, daemonVars
  <2> QED
    BY <2>3, <2>4 DEF Log!IInv
<1>2. Log!FromZero'
  BY DEF LogInv, Log!FromZero, Log!BegunFirst, Log!Heard, daemonVars
<1> QED
  BY <1>1, <1>2 DEF LogInv

\* The daemon adds notifications.
LEMMA DaemonLog == LogInv /\ Daemon!Next /\ UNCHANGED lock => LogInv'
<1> SUFFICES ASSUME LogInv, Daemon!Next, UNCHANGED lock PROVE LogInv'
  OBVIOUS
<1>1. [Log!Next \/ Log!Deliver \/ Log!Subscriber]_(Log!vars)
  BY SameDaemon
<1>2. Log!IInv'
  BY <1>1, Assumed, Log!InvNext DEF LogInv, Log!InvNext, Log!ChannelLogAssumption
<1>3. Log!FromZero'
  BY <1>1, Assumed, Log!FromZeroNext DEF LogInv, Log!FromZeroNext, Log!ChannelLogAssumption
<1>4. i2h' = i2h \/ \E n : i2h' = Append(i2h, n)
  BY SameDaemon
  DEF Log!Next, Log!Handler, Log!RedisCommand, Log!Say, Log!Part, Log!Kick, Log!PartQuery,
      Log!OpenOnly, Log!Handle, Log!Reconnect, Log!SetBegin, Log!MarkAsJoined, Log!WriteLine,
      Log!SetEnd, Log!Announce, Log!MarkAsLeft, Log!AnnounceClosed, Log!ClearLog,
      Log!ClearJoined, Log!RedisFails, Log!Unheard, Log!Crash, Log!Publish
<1>5. i2h \in Seq(Log!Note) /\ i2h' \in Seq(Log!Note)
  BY <1>2 DEF LogInv, Log!IInv, Log!TypeOK
<1>6. i2h # <<>> => i2h' # <<>>
  BY <1>4, <1>5
<1> QED
  BY <1>2, <1>3, <1>6 DEF LogInv

LEMMA LogNext == LogInv /\ [Next]_vars => LogInv'
<1> SUFFICES ASSUME LogInv, [Next]_vars PROVE LogInv'
  OBVIOUS
<1>s. subscribed \in BOOLEAN
  BY DEF LogInv, Log!IInv, Log!TypeOK
<1>1. CASE Daemon!Next /\ UNCHANGED webVars
  BY <1>1, DaemonLog DEF webVars
<1>2. CASE UNCHANGED vars
  BY <1>2, <1>s, OthersLog DEF vars, webVars, LogInv
<1>3. ASSUME UNCHANGED <<log, i2h, subscribed, daemonVars>>, lock' \in {lock, Free}
      PROVE  LogInv'
  BY <1>3, <1>s, LogMetadataAssumption, OthersLog DEF LogInv
<1>4. ASSUME NEW t \in Thread, BeginLoad(t), UNCHANGED daemonVars PROVE LogInv'
  BY <1>4, <1>s, OthersLog DEF BeginLoad, Wants
<1>5. ASSUME NEW c \in Chan, LoadFails(c), UNCHANGED daemonVars PROVE LogInv'
  <2>1. /\ lock' = Free /\ UNCHANGED <<log, subscribed>>
        /\ i2h' = i2h \/ i2h' = <<>> \/ (i2h # <<>> /\ i2h' = Tail(i2h))
    BY <1>5 DEF LoadFails, LogInv
  <2> QED
    BY <1>5, <1>s, <2>1, LogMetadataAssumption, OthersLog
<1>6. CASE OnNewLog /\ UNCHANGED daemonVars
  <2>1. lock' = Free /\ UNCHANGED <<log, subscribed>> /\ i2h # <<>> /\ i2h' = Tail(i2h)
    BY <1>6 DEF OnNewLog, ChannelClosed, NewLogIDArrived, Unlock
  <2> QED
    BY <1>6, <1>s, <2>1, LogMetadataAssumption, OthersLog
<1>7. CASE Subscribe /\ UNCHANGED daemonVars
  BY <1>7, OthersLog DEF Subscribe, webVars, LogInv
<1>8. CASE Restart /\ UNCHANGED daemonVars
  BY <1>8, LogMetadataAssumption, OthersLog DEF Restart, WebRestart
<1>9. ASSUME NEW c \in Chan, LoadChannel(c), UNCHANGED daemonVars PROVE LogInv'
  BY <1>9, <1>3 DEF LoadChannel
<1>10. ASSUME NEW r \in Request, UNCHANGED daemonVars,
              \/ GetLastChatIDs(r) \/ ReturnAtOnce(r) \/ StartWaiting(r)
              \/ StopWaiting(r) \/ ReturnAfterWait(r)
       PROVE  LogInv'
  BY <1>10, <1>3 DEF GetLastChatIDs, ReturnAtOnce, StartWaiting, StopWaiting,
                     ReturnAfterWait, Unlock
<1>11. ASSUME NEW r \in Request, UNCHANGED daemonVars,
              Reads(r) \/ Fails(r) \/ Arrive(r) \/ Receive(r) \/ Lose(r) \/ User(r)
       PROVE  LogInv'
  BY <1>11, <1>3 DEF Reads, ReadBounds, ReadLines, Fails, ReadFails, Refuse, Arrive, AskInit,
                     AskUpdate, Receive, Finish, Lose, User, webVars
<1> QED
  BY <1>1, <1>2, <1>4, <1>5, <1>6, <1>7, <1>8, <1>9, <1>10, <1>11
  DEF Next, Web, WebStep

------------------------------------------------------------------------------
(* Windows and lines.                                                       *)

\* The windows of LogReader are ids without a gap; an update's begin where they should.
LEMMA Windows ==
    ASSUME NEW h, h.begin \in {Nil, 0}, h.end \in 0 .. MaxEnd \cup {Nil}
    PROVE  /\ RecentIds(h) \subseteq Id /\ Interval(RecentIds(h))
           /\ \A k \in Nat : /\ IdsAfter(h, k) \subseteq Id /\ Interval(IdsAfter(h, k))
                             /\ From(IdsAfter(h, k), k)
<1>1. MaxEnd \in Nat /\ INIT_LOG_LINES \in Nat /\ UPDATE_LOG_LINES \in Nat
  BY DaemonAssumption, LogLinesAssumption
<1>2. CASE ~Readable(h)
  BY <1>2 DEF RecentIds, IdsAfter, Interval, From
<1>3. CASE Readable(h)
  <2>1. h.begin = 0 /\ h.end \in 0 .. MaxEnd
    BY <1>3 DEF Readable
  <2>2. RecentIds(h) = Larger(0, h.end - INIT_LOG_LINES) .. h.end - 1
    BY <1>3, <2>1 DEF RecentIds
  <2>3. \A k \in Nat : IdsAfter(h, k) = k .. Smaller(h.end, k + UPDATE_LOG_LINES) - 1
    BY <1>3, <2>1 DEF IdsAfter, Larger
  <2>4. RecentIds(h) \subseteq Id /\ Interval(RecentIds(h))
    BY SMTT(30), <1>1, <2>1, <2>2 DEF Larger, Interval, Id, Daemon!Id
  <2>5. ASSUME NEW k \in Nat
        PROVE  /\ IdsAfter(h, k) \subseteq Id /\ Interval(IdsAfter(h, k))
               /\ From(IdsAfter(h, k), k)
    <3>1. IdsAfter(h, k) = k .. Smaller(h.end, k + UPDATE_LOG_LINES) - 1
      BY <2>3
    <3> QED
      BY <1>1, <2>1, <3>1 DEF Smaller, Interval, From, Id, Daemon!Id
  <2> QED
    BY <2>4, <2>5
<1> QED
  BY <1>2, <1>3

\* So are the lines that are found there, at whatever time they are asked for.
LEMMA Found ==
    ASSUME NEW h, h.lines \in LineMap,
           Log!Heard => \A i \in DOMAIN h.lines : 0 .. i \subseteq DOMAIN h.lines,
           NEW ids, ids \subseteq Id, Interval(ids)
    PROVE  /\ GetLog(h, ids) \in LineMap
           /\ DOMAIN GetLog(h, ids) \subseteq Id /\ Interval(DOMAIN GetLog(h, ids))
           /\ \A k \in Nat : From(ids, k) => From(DOMAIN GetLog(h, ids), k)
<1> DEFINE f == GetLog(h, ids)
           S == ids \cap DOMAIN h.lines
<1>1. f = [i \in S |-> h.lines[i]] /\ DOMAIN f = S
  BY DEF GetLog, Restrict
<1>2. S \in SUBSET Id
  OBVIOUS
<1>3. f \in LineMap
  BY <1>1, <1>2 DEF LineMap, Daemon!LineMap, Id
<1>4. Interval(S)
  BY DEF Interval, Id, Daemon!Id
<1>5. ASSUME NEW k \in Nat, From(ids, k) PROVE From(S, k)
  BY <1>5 DEF From, Id, Daemon!Id
<1> QED
  BY <1>1, <1>2, <1>3, <1>4, <1>5

\* A set of ids has a newest one.
LEMMA HasMax ==
    ASSUME NEW n \in Nat, NEW S, S \subseteq 0 .. n, S # {}
    PROVE  \E i \in S : \A j \in S : j <= i
<1> DEFINE R == {p \in Nat \X Nat : p[1] < p[2]}
           T == {n - i : i \in S}
<1>1. IsWellFoundedOn(R, Nat)
  BY NatLessThanWellFounded DEF OpToRel
<1>2. \A i \in S : n - i \in Nat
  OBVIOUS
<1>3. T \subseteq Nat /\ T # {}
  BY <1>2
<1>4. PICK x \in T : \A y \in T : <<y, x>> \notin R
  <2> HIDE DEF R, T
  <2> QED
    BY <1>1, <1>3, WFMin
<1>5. PICK i \in S : x = n - i
  OBVIOUS
<1>6. ASSUME NEW j \in S PROVE j <= i
  <2>1. n - j \in T /\ n - j \in Nat /\ x \in Nat
    BY <1>3
  <2>2. ~(n - j < x)
    BY <1>4, <2>1
  <2> QED
    BY <1>5, <2>1, <2>2
<1> QED
  BY <1>6

------------------------------------------------------------------------------
(* The steps of the path.                                                   *)

\* Steps that concern no request.
LEMMA Elsewhere ==
    ASSUME PathInv, UNCHANGED <<at, asked, answer, requestVars, browserVars>>,
           \/ lock' \in {lock, Free, Listener}
           \/ lock' \in Request /\ at[lock'] \in {"init", "check"}
    PROVE  PathInv'
<1>1. UNCHANGED <<window, reply, page, shown>>
  BY DEF requestVars, browserVars
<1>2. Types' /\ Reading' /\ Knows' /\ Gapless'
  BY ZenonT(60), <1>1 DEF PathInv, Types, Reading, Knows, Gapless
<1>3. Runs'
  BY <1>1 DEF PathInv, Runs, Continues
<1>4. Loading'
  BY LogMetadataAssumption DEF PathInv, Loading, Thread
<1> QED
  BY <1>2, <1>3, <1>4 DEF PathInv

\* A request in waitForChange or getLastChatIDs goes on, or comes back.
LEMMA InCache ==
    ASSUME PathInv, NEW r \in Request, NEW p \in {"wait", "wake", "changed", "nochange", "failed"},
           at[r] \in {"init", "check", "wait", "wake"}, at' = [at EXCEPT ![r] = p],
           answer' = answer \/ \E d : answer' = [answer EXCEPT ![r] = d],
           lock' = Free \/ (lock' = lock /\ at[r] \in {"wait", "wake"}),
           UNCHANGED <<asked, requestVars, browserVars>>
    PROVE  PathInv'
<1>1. UNCHANGED <<asked, window, reply, page, shown>>
  BY DEF requestVars, browserVars
<1>2. /\ at' \in [Request -> Places] /\ at'[r] = p
      /\ \A q \in Request \ {r} : at'[q] = at[q] /\ answer'[q] = answer[q]
      /\ DOMAIN answer' = Request
  BY DEF PathInv, Types, Places
<1>3. Types'
  BY <1>1, <1>2 DEF PathInv, Types
<1>4. Loading'
  BY <1>2, LogMetadataAssumption DEF PathInv, Loading, Thread
<1>5. Reading'
  BY <1>1, <1>2 DEF PathInv, Reading
<1>6. Runs'
  BY <1>1 DEF PathInv, Runs, Continues
<1>7. Knows' /\ Gapless'
  BY <1>1, <1>2 DEF PathInv, Knows, Gapless
<1> QED
  BY <1>3, <1>4, <1>5, <1>6, <1>7 DEF PathInv

\* The newest line is there, and the newest, if there is any.
LEMMA NewestIs ==
    ASSUME NEW f, f \in LineMap, f # <<>>
    PROVE  /\ DOMAIN f # {} /\ Page!Newest(f) \in DOMAIN f /\ Page!Newest(f) \in Id
           /\ \A i \in DOMAIN f : i <= Page!Newest(f)
<1>1. PICK S \in SUBSET Id : f \in [S -> Line]
  BY DEF LineMap, Daemon!LineMap, Id
<1>2. S # {}
  <2> SUFFICES ASSUME S = {} PROVE FALSE
    OBVIOUS
  <2>1. f \in [{} -> Line] /\ <<>> \in [{} -> Line]
    BY <1>1
  <2> QED
    BY <2>1
<1>3. MaxEnd \in Nat /\ S \subseteq 0 .. MaxEnd
  BY DaemonAssumption DEF Id, Daemon!Id
<1>4. \E i \in S : \A j \in S : j <= i
  BY <1>2, <1>3, HasMax
<1>5. DOMAIN f = S
  BY <1>1
<1>6. Page!Newest(f) \in S /\ \A i \in S : i <= Page!Newest(f)
  BY <1>4, <1>5 DEF Page!Newest
<1> QED
  BY <1>2, <1>5, <1>6

\* A page asks.
LEMMA ArriveInv == ASSUME PathInv, NEW r \in Request, Arrive(r) PROVE PathInv'
<1>1. UNCHANGED <<lock, answer, window, reply, page, shown>> /\ at[r] = "idle"
  BY DEF Arrive, AskInit, AskUpdate, requestVars, browserVars
<1>2. PICK p \in {"init", "check"} : at' = [at EXCEPT ![r] = p]
  BY DEF Arrive, AskInit, AskUpdate
<1>3. /\ at' \in [Request -> Places] /\ at'[r] = p
      /\ \A q \in Request \ {r} : at'[q] = at[q]
  BY <1>2 DEF PathInv, Types, Places
<1>4. DOMAIN window[r] = {} /\ DOMAIN reply[r] = {}
  BY <1>1 DEF PathInv, Reading
<1>5. Loading'
  BY <1>1, <1>3 DEF PathInv, Loading
<1>6. Reading'
  BY <1>1, <1>3 DEF PathInv, Reading
<1>7. Gapless'
  BY <1>1 DEF PathInv, Gapless
<1>8. CASE page[r] = "init" /\ asked' = asked
  <2>1. Types'
    BY <1>1, <1>3, <1>8 DEF PathInv, Types
  <2>2. Runs'
    BY <1>1, <1>8 DEF PathInv, Runs, Continues
  <2>3. Knows'
    BY <1>1, <1>3, <1>8 DEF PathInv, Knows
  <2> QED
    BY <1>5, <1>6, <1>7, <2>1, <2>2, <2>3 DEF PathInv
<1>9. CASE page[r] # "init" /\ asked' = [asked EXCEPT ![r] = Page!LastIDs(r)]
  <2>1. /\ DOMAIN asked' = Request /\ asked'[r] = Page!LastIDs(r)
        /\ \A q \in Request \ {r} : asked'[q] = asked[q]
    BY <1>9 DEF PathInv, Types
  <2>2. ASSUME NEW c \in DOMAIN asked'[r]
        PROVE  c \in Chan /\ asked'[r][c] \in Id
    <3>1. c \in DOMAIN shown[r] /\ shown[r][c] # <<>> /\ asked'[r][c] = Page!Newest(shown[r][c])
      BY <2>1 DEF Page!LastIDs
    <3> QED
      BY <3>1, NewestIs DEF PathInv, Types
  <2>3. Types'
    BY <1>1, <1>3, <2>1, <2>2 DEF PathInv, Types
  <2>4. Runs'
    BY <1>1, <1>4, <2>1 DEF PathInv, Runs, Continues
  <2>5. ASSUME NEW c \in DOMAIN shown[r], DOMAIN shown[r][c] # {}
        PROVE  /\ c \in DOMAIN asked'[r] /\ asked'[r][c] \in DOMAIN shown[r][c]
               /\ \A i \in DOMAIN shown[r][c] : i <= asked'[r][c]
    <3>1. shown[r][c] # <<>> /\ shown[r][c] \in LineMap
      BY <2>5 DEF PathInv, Types
    <3>2. c \in DOMAIN asked'[r] /\ asked'[r][c] = Page!Newest(shown[r][c])
      BY <2>1, <3>1 DEF Page!LastIDs
    <3> QED
      BY <3>1, <3>2, NewestIs
  <2>6. Knows'
    BY <1>1, <1>3, <2>1, <2>5 DEF PathInv, Knows
  <2> QED
    BY <1>5, <1>6, <1>7, <2>3, <2>4, <2>6 DEF PathInv
<1> QED
  BY <1>8, <1>9 DEF Arrive, AskInit, AskUpdate

LEMMA NothingThere == DOMAIN <<>> = {}
OBVIOUS

\* A request reads the bounds of a channel, or its lines.
LEMMA ReadsInv ==
    ASSUME PathInv, LogFacts, NEW r \in Request, NEW c \in Chan,
           ReadBounds(r, c) \/ ReadLines(r, c), UNCHANGED browserVars
    PROVE  PathInv'
<1>1. /\ UNCHANGED <<at, asked, answer, lock, page, shown>>
      /\ c \in DOMAIN answer[r] \ DOMAIN reply[r]
  BY DEF ReadBounds, ReadLines, webVars, browserVars, PathInv, Reading
<1>2. at[r] = "changed"
  BY DEF ReadBounds, ReadLines, PathInv, Reading
<1>3. Loading' /\ Knows' /\ Gapless'
  BY <1>1 DEF PathInv, Loading, Knows, Gapless
<1>4. \A k : c \in DOMAIN asked[r] /\ k = asked[r][c] + 1 => k \in Nat
  BY DEF PathInv, Types, Id, Daemon!Id
<1>5. ASSUME NEW lines, File(r, c, lines), lines \in LineMap, Continues(r, c, DOMAIN lines),
             window' = window \/ window' = [window EXCEPT ![r] = <<>>],
             DOMAIN window'[r] = {}
      PROVE  PathInv'
  <2>1. /\ DOMAIN reply' = Request /\ DOMAIN window' = Request
        /\ DOMAIN reply'[r] = DOMAIN reply[r] \cup {c} /\ reply'[r][c] = lines
        /\ \A d \in DOMAIN reply[r] \ {c} : reply'[r][d] = reply[r][d]
        /\ \A q \in Request \ {r} : reply'[q] = reply[q] /\ window'[q] = window[q]
    BY <1>5 DEF File, Put, PathInv, Types
  <2>2. Types'
    <3>1. \A d \in DOMAIN reply'[r] : d \in Chan /\ reply'[r][d] \in LineMap
      BY <1>5, <2>1 DEF PathInv, Types
    <3> QED
      BY <1>1, <1>5, <2>1, <3>1 DEF PathInv, Types
  <2>3. Reading'
    BY <1>1, <1>2, <1>5, <2>1 DEF PathInv, Reading
  <2>4. Runs'
    BY <1>1, <1>5, <2>1 DEF PathInv, Runs, Continues
  <2> QED
    BY <1>3, <2>2, <2>3, <2>4 DEF PathInv
<1>6. CASE ReadBounds(r, c)
  <2> DEFINE W == Window(r, c)
  <2>1. Continues(r, c, W)
    BY <1>4, Windows DEF Window, Continues, LogFacts
  <2>2. CASE W = {}
    <3>1. File(r, c, <<>>) /\ window' = window /\ window[r] = <<>>
      BY <1>6, <2>2 DEF ReadBounds
    <3>2. <<>> \in LineMap /\ DOMAIN <<>> = {}
      <4>1. <<>> \in [{} -> Line]
        OBVIOUS
      <4> QED
        BY <4>1 DEF LineMap, Daemon!LineMap
    <3> QED
      BY <1>5, <2>1, <2>2, <3>1, <3>2
  <2>3. CASE W # {}
    <3> HIDE DEF W
    <3>1. window' = [window EXCEPT ![r] = Put(<<>>, c, W)] /\ reply' = reply
      BY <1>6, <2>3 DEF ReadBounds, W
    <3>2. /\ DOMAIN window' = Request /\ DOMAIN window'[r] = {c} /\ window'[r][c] = W
          /\ \A q \in Request \ {r} : window'[q] = window[q]
      BY <3>1, NothingThere DEF Put, PathInv, Types
    <3>3. Types'
      BY <1>1, <3>1, <3>2 DEF PathInv, Types
    <3>4. Reading'
      BY <1>1, <1>2, <3>1, <3>2 DEF PathInv, Reading
    <3>5. Runs'
      BY <1>1, <2>1, <3>1, <3>2 DEF PathInv, Runs, Continues
    <3> QED
      BY <1>3, <3>3, <3>4, <3>5 DEF PathInv
  <2> QED
    BY <2>2, <2>3
<1>7. CASE ReadLines(r, c)
  <2> DEFINE lines == GetLog(log[c], window[r][c])
  <2>1. /\ File(r, c, lines) /\ window' = [window EXCEPT ![r] = <<>>]
        /\ c \in DOMAIN window[r]
    BY <1>7 DEF ReadLines
  <2>2. Continues(r, c, window[r][c])
    BY <2>1 DEF PathInv, Runs
  <2>3. lines \in LineMap /\ Continues(r, c, DOMAIN lines)
    BY <1>4, <2>2, Found DEF Continues, LogFacts
  <2>4. DOMAIN window'[r] = {}
    BY <2>1, NothingThere DEF PathInv, Types
  <2> HIDE DEF lines
  <2> QED
    BY <1>5, <2>1, <2>3, <2>4
<1> QED
  BY <1>6, <1>7

\* A request fails at reading, or before it has come.
LEMMA FailsInv == ASSUME PathInv, NEW r \in Request, Fails(r), UNCHANGED browserVars PROVE PathInv'
<1>1. /\ UNCHANGED <<asked, answer, lock, reply, page, shown>>
      /\ \/ at[r] = "changed" /\ at' = [at EXCEPT ![r] = "broken"]
            /\ window' = [window EXCEPT ![r] = <<>>]
         \/ at[r] = "idle" /\ at' = [at EXCEPT ![r] = "refused"] /\ window' = window
  BY DEF Fails, ReadFails, Refuse, requestVars, browserVars
<1>2. /\ at' \in [Request -> Places] /\ at'[r] \in {"broken", "refused"}
      /\ at[r] = "idle" => at'[r] = "refused"
      /\ DOMAIN window' = Request /\ DOMAIN window'[r] = {}
      /\ \A q \in Request \ {r} : at'[q] = at[q] /\ window'[q] = window[q]
  BY <1>1, NothingThere DEF PathInv, Types, Places, Reading
<1>3. Types' /\ Loading'
  BY <1>1, <1>2 DEF PathInv, Types, Loading
<1>4. Reading'
  BY <1>1, <1>2 DEF PathInv, Reading
<1>5. Runs'
  BY <1>1, <1>2 DEF PathInv, Runs, Continues
<1>6. Knows' /\ Gapless'
  BY <1>1, <1>2 DEF PathInv, Knows, Gapless
<1> QED
  BY <1>3, <1>4, <1>5, <1>6 DEF PathInv

\* The lines of a page and what continues them have no gap.
LEMMA Joint ==
    ASSUME NEW store, store \in LineMap, Interval(DOMAIN store),
           NEW lines, lines \in LineMap, Interval(DOMAIN lines),
           DOMAIN store # {} =>
              \E a \in DOMAIN store : /\ \A i \in DOMAIN store : i <= a
                                      /\ From(DOMAIN lines, a + 1)
    PROVE  Page!AddLines(store, lines) \in LineMap /\ Interval(DOMAIN Page!AddLines(store, lines))
<1> DEFINE new == {i \in DOMAIN lines : \A j \in DOMAIN store : j < i}
<1>1. PICK S \in SUBSET Id : store \in [S -> Line]
  BY DEF LineMap, Daemon!LineMap, Id
<1>2. PICK T \in SUBSET Id : lines \in [T -> Line]
  BY DEF LineMap, Daemon!LineMap, Id
<1>3. DOMAIN store = S /\ DOMAIN lines = T
  BY <1>1, <1>2
<1>4. Page!AddLines(store, lines)
          = [i \in S \cup new |-> IF i \in new THEN lines[i] ELSE store[i]]
  BY <1>3 DEF Page!AddLines
<1>5. new \subseteq T
  BY <1>3
<1>6. Page!AddLines(store, lines) \in [S \cup new -> Line] /\ S \cup new \in SUBSET Id
  BY <1>1, <1>2, <1>4, <1>5
<1>7. Interval(S \cup new)
  <2> SUFFICES ASSUME Log!Heard, NEW i \in S \cup new, NEW j \in S \cup new, NEW k \in i .. j
               PROVE  k \in S \cup new
    BY DEF Interval
  <2>1. S \subseteq Int /\ T \subseteq Int
    BY DEF Id, Daemon!Id
  <2>2. CASE S = {}
    BY <1>3, <1>5, <2>1, <2>2 DEF Interval
  <2>3. CASE S # {}
    <3>1. PICK a \in S : (\A s \in S : s <= a) /\ From(T, a + 1)
      BY <1>3, <2>3
    <3>2. \A t \in T : t > a /\ t \in new
      <4> SUFFICES ASSUME NEW t \in T PROVE t > a /\ t \in new
        OBVIOUS
      <4>1. a \in Int /\ t \in Int /\ a + 1 <= t
        BY <2>1, <3>1 DEF From
      <4>2. \A s \in S : s \in Int /\ s <= a
        BY <2>1, <3>1
      <4>3. t > a /\ \A s \in S : s < t
        BY <4>1, <4>2
      <4> QED
        BY <1>3, <4>3
    <3>3. CASE k <= a
      BY <1>3, <1>5, <2>1, <3>1, <3>2, <3>3 DEF Interval
    <3>4. CASE k > a
      BY <1>3, <1>5, <2>1, <3>1, <3>2, <3>4 DEF From
    <3> QED
      BY <2>1, <3>1, <3>3, <3>4
  <2> QED
    BY <2>2, <2>3
<1> QED
  BY <1>6, <1>7 DEF LineMap, Daemon!LineMap, Id

\* What a request hands over continues what its page shows.
LEMMA BodyContinues ==
    ASSUME PathInv, NEW r \in Request, HasBody(r), NEW c \in DOMAIN Body(r)
    PROVE  c \in Chan /\ Body(r)[c] \in LineMap /\ Continues(r, c, DOMAIN Body(r)[c])
<1>1. CASE at[r] = "nochange"
  <2>1. c \in DOMAIN asked[r] /\ Body(r)[c] = <<>>
    BY <1>1 DEF Body
  <2>2. <<>> \in [{} -> Line]
    OBVIOUS
  <2>3. <<>> \in LineMap
    BY <2>2 DEF LineMap, Daemon!LineMap
  <2> QED
    BY <2>1, <2>3, NothingThere DEF PathInv, Types, Continues, Interval, From
<1>2. CASE at[r] # "nochange"
  BY <1>2 DEF Body, PathInv, Types, Runs
<1> QED
  BY <1>1, <1>2

\* A request is over, and its page shows what it may show.
LEMMA FinishInv ==
    ASSUME PathInv, NEW r \in Request, Finish(r), HasBody(r) \/ Broken(r),
           page' \in [Request -> {"closed", "init", "poll", "deaf", "stopped"}],
           page'[r] \notin {"closed", "init"},
           DOMAIN shown' = Request,
           \A q \in Request \ {r} : page'[q] = page[q] /\ shown'[q] = shown[q],
           \A c \in DOMAIN shown'[r] : /\ c \in Chan /\ shown'[r][c] \in LineMap
                                       /\ Interval(DOMAIN shown'[r][c])
    PROVE  PathInv'
<1>1. UNCHANGED <<lock, window>>
  BY DEF Finish
<1>2. /\ at' \in [Request -> Places] /\ at'[r] = "idle"
      /\ DOMAIN asked' = Request /\ DOMAIN answer' = Request /\ DOMAIN reply' = Request
      /\ DOMAIN asked'[r] = {} /\ DOMAIN reply'[r] = {}
      /\ \A q \in Request \ {r} : /\ at'[q] = at[q] /\ asked'[q] = asked[q]
                                  /\ answer'[q] = answer[q] /\ reply'[q] = reply[q]
  BY NothingThere DEF Finish, PathInv, Types, Places
<1>3. DOMAIN window[r] = {} /\ at[r] \notin {"init", "check"}
  BY DEF HasBody, Broken, PathInv, Reading
<1>4. Types'
  BY <1>1, <1>2 DEF PathInv, Types
<1>5. Loading'
  BY <1>1, <1>2, <1>3 DEF PathInv, Loading
<1>6. Reading'
  BY <1>1, <1>2, <1>3 DEF PathInv, Reading
<1>7. Runs'
  BY <1>1, <1>2, <1>3 DEF PathInv, Runs, Continues
<1>8. Knows'
  BY <1>2 DEF PathInv, Knows
<1>9. Gapless'
  BY DEF PathInv, Gapless, Interval
<1> QED
  BY <1>4, <1>5, <1>6, <1>7, <1>8, <1>9 DEF PathInv

\* A page gets its answer.
LEMMA ReceiveInv == ASSUME PathInv, NEW r \in Request, Receive(r) PROVE PathInv'
<1>1. Finish(r) /\ (HasBody(r) \/ Broken(r))
  BY DEF Receive
<1>2. ASSUME UNCHANGED shown, page' = [page EXCEPT ![r] = "stopped"] PROVE PathInv'
  <2>1. \A c \in DOMAIN shown'[r] : /\ c \in Chan /\ shown'[r][c] \in LineMap
                                    /\ Interval(DOMAIN shown'[r][c])
    BY <1>2 DEF PathInv, Types, Gapless, Interval
  <2>2. /\ page' \in [Request -> {"closed", "init", "poll", "deaf", "stopped"}]
        /\ page'[r] = "stopped" /\ \A q \in Request \ {r} : page'[q] = page[q]
    BY <1>2 DEF PathInv, Types
  <2>3. DOMAIN shown' = Request /\ \A q \in Request \ {r} : shown'[q] = shown[q]
    BY <1>2 DEF PathInv, Types
  <2> QED
    BY <1>1, <2>1, <2>2, <2>3, FinishInv
<1>3. CASE HasBody(r) /\ Page!OnSuccess(r, Body(r))
  <2> DEFINE B   == Body(r)
             all == Page!ApplyLogUpdate(shown[r], B)
             new == Page!CloseChannel(all, B)
  <2>1. /\ shown' = [shown EXCEPT ![r] = new]
        /\ page' = [page EXCEPT ![r] = "poll"]
    BY <1>3 DEF Page!OnSuccess
  <2>2. ASSUME NEW c \in DOMAIN all
        PROVE  c \in Chan /\ all[c] \in LineMap /\ Interval(DOMAIN all[c])
    <3> DEFINE store == IF c \in DOMAIN shown[r] THEN shown[r][c] ELSE <<>>
    <3>1. /\ c \in DOMAIN shown[r] \cup DOMAIN B
          /\ all[c] = IF c \in DOMAIN B THEN Page!AddLines(store, B[c]) ELSE store
      BY DEF Page!ApplyLogUpdate
    <3>2. store \in LineMap /\ Interval(DOMAIN store)
      <4>1. CASE c \in DOMAIN shown[r]
        BY <4>1 DEF PathInv, Types, Gapless, Interval
      <4>2. CASE c \notin DOMAIN shown[r]
        <5>1. <<>> \in [{} -> Line]
          OBVIOUS
        <5>2. <<>> \in LineMap
          BY <5>1 DEF LineMap, Daemon!LineMap
        <5> QED
          BY <4>2, <5>2, NothingThere DEF Interval
      <4> QED
        BY <4>1, <4>2
    <3>3. CASE c \in DOMAIN B
      <4>1. c \in Chan /\ B[c] \in LineMap /\ Continues(r, c, DOMAIN B[c])
        BY <1>3, <3>3, BodyContinues
      <4>2. at[r] \notin {"idle", "refused"}
        BY <1>3 DEF HasBody
      <4>3. DOMAIN store # {} =>
              \E a \in DOMAIN store : /\ \A i \in DOMAIN store : i <= a
                                      /\ From(DOMAIN B[c], a + 1)
        <5> SUFFICES ASSUME DOMAIN store # {}
                     PROVE  \E a \in DOMAIN store : /\ \A i \in DOMAIN store : i <= a
                                                    /\ From(DOMAIN B[c], a + 1)
          OBVIOUS
        <5>1. c \in DOMAIN shown[r] /\ store = shown[r][c]
          BY NothingThere
        <5>2. /\ c \in DOMAIN asked[r] /\ asked[r][c] \in DOMAIN store
              /\ \A i \in DOMAIN store : i <= asked[r][c]
          BY <4>2, <5>1 DEF PathInv, Knows
        <5> QED
          BY <4>1, <5>2 DEF Continues
      <4> HIDE DEF store, B
      <4>4. Page!AddLines(store, B[c]) \in LineMap
            /\ Interval(DOMAIN Page!AddLines(store, B[c]))
        BY <3>2, <4>1, <4>3, Joint DEF Continues
      <4> QED
        BY <3>1, <3>3, <4>1, <4>4
    <3>4. CASE c \notin DOMAIN B
      <4>1. c \in DOMAIN shown[r]
        BY <3>1, <3>4
      <4> QED
        BY <3>1, <3>2, <3>4, <4>1 DEF PathInv, Types
    <3> QED
      BY <3>3, <3>4
  <2>3. \A c \in DOMAIN new : c \in DOMAIN all /\ new[c] = all[c]
    <3>1. DOMAIN B \subseteq DOMAIN all
      BY DEF Page!ApplyLogUpdate
    <3> HIDE DEF all, B
    <3> QED
      BY <3>1 DEF Page!CloseChannel, Page!Restrict
  <2> HIDE DEF new, all, B
  <2>4. /\ DOMAIN shown' = Request /\ shown'[r] = new
        /\ \A q \in Request \ {r} : shown'[q] = shown[q]
    BY <2>1 DEF PathInv, Types
  <2>5. /\ page' \in [Request -> {"closed", "init", "poll", "deaf", "stopped"}]
        /\ page'[r] = "poll" /\ \A q \in Request \ {r} : page'[q] = page[q]
    BY <2>1 DEF PathInv, Types
  <2>6. \A c \in DOMAIN shown'[r] : /\ c \in Chan /\ shown'[r][c] \in LineMap
                                    /\ Interval(DOMAIN shown'[r][c])
    BY <2>2, <2>3, <2>4
  <2> QED
    BY <1>1, <2>4, <2>5, <2>6, FinishInv
<1> QED
  BY <1>2, <1>3 DEF Receive, Page!OnSuccessDeaf, Page!OnServerError

\* Requests and answers that are lost, a page that is opened or reloaded.
LEMMA LoseInv == ASSUME PathInv, NEW r \in Request, Lose(r) PROVE PathInv'
<1>1. /\ shown' = shown /\ page[r] \in {"init", "poll", "deaf"}
      /\ page' = [q \in Request |-> IF q \in {r} THEN Page!AfterNetworkError(q) ELSE page[q]]
  BY DEF Lose, Page!OnNetworkError
<1>2. /\ page' \in [Request -> {"closed", "init", "poll", "deaf", "stopped"}]
      /\ page'[r] \in {"poll", "deaf", "stopped"}
      /\ \A q \in Request \ {r} : page'[q] = page[q]
  BY <1>1 DEF Page!AfterNetworkError, PathInv, Types
<1>3. CASE at[r] = "idle" /\ UNCHANGED <<log, i2h, subscribed, webVars, requestVars>>
  <2>1. UNCHANGED <<at, asked, answer, lock, window, reply, shown>>
    BY <1>1, <1>3 DEF webVars, requestVars
  <2>2. Types'
    BY <1>2, <2>1 DEF PathInv, Types
  <2>3. Runs' /\ Reading' /\ Loading' /\ Gapless'
    BY <2>1 DEF PathInv, Runs, Continues, Reading, Loading, Gapless
  <2>4. Knows'
    BY <1>2, <2>1 DEF PathInv, Knows
  <2> QED
    BY <2>2, <2>3, <2>4 DEF PathInv
<1>4. CASE (HasBody(r) \/ Broken(r)) /\ Finish(r)
  <2>1. /\ DOMAIN shown' = Request /\ \A q \in Request \ {r} : shown'[q] = shown[q]
        /\ \A c \in DOMAIN shown'[r] : /\ c \in Chan /\ shown'[r][c] \in LineMap
                                       /\ Interval(DOMAIN shown'[r][c])
    BY <1>1 DEF PathInv, Types, Gapless, Interval
  <2> QED
    BY <1>2, <1>4, <2>1, FinishInv
<1> QED
  BY <1>3, <1>4 DEF Lose

LEMMA UserInv == ASSUME PathInv, NEW r \in Request, User(r) PROVE PathInv'
<1>1. UNCHANGED <<at, asked, answer, lock, window, reply>>
  BY DEF User, webVars, requestVars
<1>2. /\ page' \in [Request -> {"closed", "init", "poll", "deaf", "stopped"}]
      /\ DOMAIN shown' = Request /\ DOMAIN shown'[r] = {}
      /\ \A q \in Request \ {r} : page'[q] = page[q] /\ shown'[q] = shown[q]
  BY NothingThere DEF User, Page!Open, Page!Reload, PathInv, Types, Knows
<1>3. Types'
  BY <1>1, <1>2 DEF PathInv, Types
<1>4. Runs' /\ Reading' /\ Loading'
  BY <1>1 DEF PathInv, Runs, Continues, Reading, Loading
<1>5. Knows' /\ Gapless'
  BY <1>1, <1>2 DEF PathInv, Knows, Gapless
<1> QED
  BY <1>3, <1>4, <1>5 DEF PathInv

\* The web server restarts; its pages have lost their answers.
LEMMA RestartInv == ASSUME PathInv, Restart PROVE PathInv'
<1>1. /\ lock' = Free /\ shown' = shown
      /\ at' = [r \in Request |-> "idle"]
      /\ asked' = [r \in Request |-> <<>>] /\ answer' = [r \in Request |-> <<>>]
      /\ window' = [r \in Request |-> <<>>] /\ reply' = [r \in Request |-> <<>>]
  BY DEF Restart, WebRestart, Page!OnNetworkError
<1>2. /\ page' \in [Request -> {"closed", "init", "poll", "deaf", "stopped"}]
      /\ \A r \in Request : page'[r] \in {"closed", "init"} => page'[r] = page[r]
  BY DEF Restart, Page!OnNetworkError, Page!AfterNetworkError, PathInv, Types
<1>3. Types'
  BY <1>1, <1>2, NothingThere DEF PathInv, Types, Places
<1>4. Loading'
  BY <1>1, LogMetadataAssumption DEF Loading
<1>5. Runs' /\ Reading'
  BY <1>1, NothingThere DEF Runs, Reading
<1>6. Knows' /\ Gapless'
  BY <1>1, <1>2 DEF PathInv, Knows, Gapless
<1> QED
  BY <1>3, <1>4, <1>5, <1>6 DEF PathInv

\* What the web server does by itself.
LEMMA WebStepInv == PathInv /\ WebStep /\ UNCHANGED <<requestVars, browserVars>> => PathInv'
<1> SUFFICES ASSUME PathInv, WebStep, UNCHANGED <<requestVars, browserVars>> PROVE PathInv'
  OBVIOUS
<1>1. ASSUME NEW t \in Thread, BeginLoad(t) PROVE PathInv'
  BY <1>1, Elsewhere DEF BeginLoad, Wants, Thread
<1>2. ASSUME NEW c \in Chan, LoadChannel(c) PROVE PathInv'
  BY <1>2, Elsewhere DEF LoadChannel
<1>3. ASSUME NEW c \in Chan, LoadFails(c) PROVE PathInv'
  <2>1. CASE lock = Listener
    BY <1>3, <2>1, Elsewhere DEF LoadFails
  <2>2. CASE lock # Listener
    <3>1. lock \in Request /\ at[lock] \in {"init", "check"}
      BY <1>3, <2>2 DEF LoadFails, PathInv, Loading, Thread
    <3> QED
      BY <1>3, <2>2, <3>1, InCache DEF LoadFails
  <2> QED
    BY <2>1, <2>2
<1>4. ASSUME NEW r \in Request, GetLastChatIDs(r) \/ ReturnAtOnce(r) \/ StartWaiting(r)
      PROVE  PathInv'
  <2>1. PICK p \in {"wait", "changed"} : at' = [at EXCEPT ![r] = p]
    BY <1>4 DEF GetLastChatIDs, ReturnAtOnce, StartWaiting, Give
  <2>2. /\ at[r] \in {"init", "check"} /\ lock' = Free /\ UNCHANGED asked
        /\ answer' = answer \/ \E d : answer' = [answer EXCEPT ![r] = d]
    BY <1>4 DEF GetLastChatIDs, ReturnAtOnce, StartWaiting, Give, Unlock
  <2> QED
    BY <2>1, <2>2, InCache
<1>5. ASSUME NEW r \in Request, StopWaiting(r) \/ ReturnAfterWait(r) PROVE PathInv'
  <2>1. PICK p \in {"wake", "changed", "nochange"} : at' = [at EXCEPT ![r] = p]
    BY <1>5 DEF StopWaiting, ReturnAfterWait, Give
  <2>2. /\ at[r] \in {"wait", "wake"} /\ UNCHANGED <<asked, lock>>
        /\ answer' = answer \/ \E d : answer' = [answer EXCEPT ![r] = d]
    BY <1>5 DEF StopWaiting, ReturnAfterWait, Give
  <2> QED
    BY <2>1, <2>2, InCache
<1>6. CASE OnNewLog
  BY <1>6, Elsewhere DEF OnNewLog, ChannelClosed, NewLogIDArrived, Unlock
<1>7. CASE Subscribe
  BY <1>7, Elsewhere DEF Subscribe, webVars
<1> QED
  BY <1>1, <1>2, <1>3, <1>4, <1>5, <1>6, <1>7 DEF WebStep

\* Every step keeps the invariant.
LEMMA PathNext == LogInv /\ PathInv /\ [Next]_vars => PathInv'
<1> SUFFICES ASSUME LogInv, PathInv, [Next]_vars PROVE PathInv'
  OBVIOUS
<1>1. CASE UNCHANGED <<webVars, requestVars, browserVars>>
  BY <1>1, Elsewhere DEF webVars
<1>2. CASE WebStep /\ UNCHANGED <<requestVars, browserVars>>
  BY <1>2, WebStepInv
<1>3. ASSUME NEW r \in Request, Reads(r), UNCHANGED browserVars PROVE PathInv'
  BY <1>3, Reader, ReadsInv DEF Reads
<1>4. ASSUME NEW r \in Request, Fails(r), UNCHANGED browserVars PROVE PathInv'
  BY <1>4, FailsInv
<1>5. ASSUME NEW r \in Request, Arrive(r) \/ Receive(r) \/ Lose(r) \/ User(r) PROVE PathInv'
  BY <1>5, ArriveInv, ReceiveInv, LoseInv, UserInv
<1>6. CASE Restart
  BY <1>6, RestartInv
<1> QED
  BY <1>1, <1>2, <1>3, <1>4, <1>5, <1>6 DEF Next, Web, vars

LEMMA PathInductive == Spec => [](LogInv /\ PathInv)
BY PathInit, LogNext, PathNext, PTL DEF Spec

------------------------------------------------------------------------------
\* The types of the whole path: pages show lines of channels, under the ids that the
\* daemon hands out.
THEOREM PathTypeCorrect == Spec => []TypeOK
<1>1. PathInv => TypeOK
  BY DEF PathInv, Types, Places, Runs, Continues, TypeOK, LineMap, Id
<1> QED
  BY <1>1, PathInductive, PTL

\* The lines of a channel on screen have no gap, though bounds and lines are read
\* by two commands while the daemon writes, throws logs away and dies, though an
\* update leaves lines for the next, and though answers and whole servers are lost.
\* (When a DEL raises that redis has executed, the daemon writes on in a log without a
\* beginning; if the log is begun anew before those lines are gone, a reader may find them
\* beyond lines it has never seen.)
THEOREM NoGapAlways == ~(RedisMayFail /\ ClearsUnheard) => (Spec => []NoGap)
<1> SUFFICES ASSUME ~(RedisMayFail /\ ClearsUnheard) PROVE Spec => []NoGap
  OBVIOUS
<1>1. LogInv /\ PathInv => NoGap
  BY DEF PathInv, Gapless, Interval, Log!Heard, NoGap
<1> QED
  BY <1>1, PathInductive, PTL

\* Only the daemon changes the logs and what it has open.
LEMMA DaemonOrOthers == [Next]_vars => Daemon!Next \/ UNCHANGED <<log, daemonVars>>
<1> SUFFICES ASSUME [Next]_vars PROVE Daemon!Next \/ UNCHANGED <<log, daemonVars>>
  OBVIOUS
<1>1. CASE WebStep /\ UNCHANGED daemonVars
  BY <1>1 DEF WebStep, BeginLoad, LoadChannel, LoadFails, GetLastChatIDs, ReturnAtOnce,
              StartWaiting, StopWaiting, ReturnAfterWait, OnNewLog, Subscribe
<1>2. ASSUME NEW r \in Request, UNCHANGED daemonVars,
             Reads(r) \/ Fails(r) \/ Arrive(r) \/ Receive(r) \/ Lose(r) \/ User(r)
      PROVE  UNCHANGED <<log, daemonVars>>
  BY <1>2 DEF Reads, ReadBounds, ReadLines, Fails, ReadFails, Refuse, Arrive, AskInit,
              AskUpdate, Receive, Finish, Lose, User
<1>3. CASE Restart /\ UNCHANGED daemonVars
  BY <1>3 DEF Restart, WebRestart
<1> QED
  BY <1>1, <1>2, <1>3 DEF Next, Web, vars

\* What the daemon has open is marked as joined in redis, so that a web server that
\* starts at any moment finds it: no step of the web server marks or unmarks a channel,
\* and those of the daemon do so in the right order, as long as redis answers.
THEOREM PathOpenIsJoined == ~RedisMayFail => (Spec => []OpenIsJoined)
<1> SUFFICES ASSUME ~RedisMayFail PROVE Spec => []OpenIsJoined
  OBVIOUS
<1>1. Init => Log!JoinedInv
  BY SameDaemon, Assumed, Log!JoinedInit
  DEF Init, Log!JoinedInit, Log!ChannelLogAssumption
<1>2. LogInv /\ Log!JoinedInv /\ [Next]_vars => Log!JoinedInv'
  <2> SUFFICES ASSUME LogInv, Log!JoinedInv, [Next]_vars PROVE Log!JoinedInv'
    OBVIOUS
  <2>1. CASE Daemon!Next
    <3>1. [Log!Next \/ Log!Deliver \/ Log!Subscriber]_(Log!vars)
      BY <2>1, SameDaemon
    <3> QED
      BY <3>1, Assumed, Log!JoinedNext DEF LogInv, Log!JoinedNext, Log!ChannelLogAssumption
  <2>2. CASE UNCHANGED <<log, daemonVars>>
    BY <2>2 DEF daemonVars, Log!JoinedInv, Log!OpenIsJoined
  <2> QED
    BY <2>1, <2>2, DaemonOrOthers
<1>3. Log!JoinedInv => OpenIsJoined
  BY DEF Log!JoinedInv, Log!OpenIsJoined, OpenIsJoined, Daemon!OpenIsJoined, Nil, Log!Nil,
         Daemon!Nil
<1> QED
  BY <1>1, <1>2, <1>3, PathInductive, PTL DEF Spec

\* A sencha page that polls is only stopped by an error of the server.
THEOREM SenchaRetriesSurvive == ~Mvc => (Spec => RetriesSurvive)
<1> SUFFICES ASSUME ~Mvc PROVE Spec => RetriesSurvive
  OBVIOUS
<1> DEFINE Hears == \A r \in Request : page[r] # "deaf"
           A == \A r \in Request : (page[r] \in {"poll", "deaf"} /\ page'[r] = "stopped")
                                       => Broken(r)
<1>1. Init => Hears
  BY DEF Init
<1>2. PathInv /\ Hears /\ [Next]_vars => Hears' /\ [A]_vars
  <2> SUFFICES ASSUME PathInv, Hears, [Next]_vars PROVE Hears' /\ A
    OBVIOUS
  <2>1. CASE UNCHANGED page
    BY <2>1 DEF PathInv, Types
  <2>2. ASSUME NEW r \in Request, Receive(r) PROVE Hears' /\ A
    BY <2>2 DEF Receive, Page!OnSuccess, Page!OnSuccessDeaf, Page!OnServerError, PathInv, Types
  <2>3. ASSUME NEW r \in Request, Lose(r) PROVE Hears' /\ A
    BY <2>3 DEF Lose, Page!OnNetworkError, Page!AfterNetworkError, PathInv, Types
  <2>4. ASSUME NEW r \in Request, User(r) PROVE Hears' /\ A
    BY <2>4 DEF User, Page!Open, Page!Reload, PathInv, Types
  <2>5. CASE Restart
    BY <2>5 DEF Restart, Page!OnNetworkError, Page!AfterNetworkError, PathInv, Types
  <2> QED
    BY <2>1, <2>2, <2>3, <2>4, <2>5 DEF Next, Web, vars, browserVars, Arrive
<1> HIDE DEF A, Hears
<1>3. Spec => [][A]_vars
  BY <1>1, <1>2, PathInductive, PTL DEF Spec
<1> QED
  BY <1>3 DEF RetriesSurvive, A

------------------------------------------------------------------------------
(* The whole path implements Notification.                                  *)

\* A thread that serves nobody has forgotten its last request.
Forgotten ==
    /\ asked = [r \in Request |-> asked[r]] /\ answer = [r \in Request |-> answer[r]]
    /\ \A r \in Request :
          at[r] \in {"idle", "refused"} => asked[r] = <<>> /\ answer[r] = <<>>

LEMMA FinishForgets ==
    ASSUME PathInv, Forgotten, NEW r \in Request, Finish(r) PROVE Forgotten'
BY DEF Finish, Forgotten, PathInv, Types

LEMMA ForgottenNext == PathInv /\ Forgotten /\ [Next]_vars => Forgotten'
<1> SUFFICES ASSUME PathInv, Forgotten, [Next]_vars PROVE Forgotten'
  OBVIOUS
<1> USE DEF Forgotten, PathInv, Types
<1>1. CASE UNCHANGED <<at, asked, answer>>
  BY <1>1
<1>2. CASE WebStep
  <2>1. ASSUME NEW c \in Chan, LoadFails(c) PROVE Forgotten'
    BY <2>1 DEF LoadFails
  <2>2. ASSUME NEW r \in Request, GetLastChatIDs(r) \/ ReturnAtOnce(r) \/ StartWaiting(r)
        PROVE  Forgotten'
    BY <2>2 DEF GetLastChatIDs, ReturnAtOnce, StartWaiting, Give
  <2>3. ASSUME NEW r \in Request, StopWaiting(r) \/ ReturnAfterWait(r) PROVE Forgotten'
    BY <2>3 DEF StopWaiting, ReturnAfterWait, Give
  <2> QED
    BY <1>1, <1>2, <2>1, <2>2, <2>3
       DEF WebStep, BeginLoad, LoadChannel, OnNewLog, Subscribe, webVars
<1>3. ASSUME NEW r \in Request, Fails(r) PROVE Forgotten'
  BY <1>3 DEF Fails, ReadFails, Refuse
<1>4. ASSUME NEW r \in Request, Arrive(r) PROVE Forgotten'
  BY <1>4 DEF Arrive, AskInit, AskUpdate
<1>5. ASSUME NEW r \in Request, Receive(r) \/ Lose(r) PROVE Forgotten'
  BY <1>1, <1>5, FinishForgets DEF Receive, Lose, webVars
<1>6. CASE Restart
  BY <1>6 DEF Restart, WebRestart
<1> QED
  BY <1>1, <1>2, <1>3, <1>4, <1>5, <1>6
     DEF Next, Web, vars, webVars, Reads, ReadBounds, ReadLines, User

\* The daemon is the same in both.
LEMMA DaemonSimulates ==
    (Daemon!Init => Notif!Daemon!Init) /\ (Daemon!Next => Notif!Daemon!Next)
BY Zenon DEF Daemon!Handler, Notif!Daemon!Handler, Daemon!Say, Notif!Daemon!Say,
   Daemon!Part, Notif!Daemon!Part, Daemon!Kick, Notif!Daemon!Kick, Daemon!PartQuery,
   Notif!Daemon!PartQuery, Daemon!OpenOnly, Notif!Daemon!OpenOnly, Daemon!Handle,
   Notif!Daemon!Handle, Daemon!Reconnect, Notif!Daemon!Reconnect, Daemon!RedisCommand,
   Notif!Daemon!RedisCommand, Daemon!SetBegin, Notif!Daemon!SetBegin,
   Daemon!MarkAsJoined, Notif!Daemon!MarkAsJoined, Daemon!WriteLine,
   Notif!Daemon!WriteLine, Daemon!SetEnd, Notif!Daemon!SetEnd, Daemon!Announce,
   Notif!Daemon!Announce, Daemon!MarkAsLeft, Notif!Daemon!MarkAsLeft,
   Daemon!AnnounceClosed, Notif!Daemon!AnnounceClosed, Daemon!ClearLog,
   Notif!Daemon!ClearLog, Daemon!ClearJoined, Notif!Daemon!ClearJoined,
   Daemon!RedisFails, Notif!Daemon!RedisFails, Daemon!Unheard, Notif!Daemon!Unheard,
   Daemon!Crash, Notif!Daemon!Crash, Daemon!Next, Notif!Daemon!Next, Daemon!Init, Notif!Daemon!Init, Daemon!Goto,
   Notif!Daemon!Goto, Daemon!Entry, Notif!Daemon!Entry, Daemon!AfterOpen,
   Notif!Daemon!AfterOpen, Daemon!AfterAppend, Notif!Daemon!AfterAppend, Daemon!NextID,
   Notif!Daemon!NextID, Daemon!FirstID, Notif!Daemon!FirstID, Daemon!Job,
   Notif!Daemon!Job, Daemon!NoJob, Notif!Daemon!NoJob, Daemon!NoLine,
   Notif!Daemon!NoLine, Daemon!Publish, Notif!Daemon!Publish, Daemon!NewLog,
   Notif!Daemon!NewLog, Daemon!Closed, Notif!Daemon!Closed, Daemon!ch, Notif!Daemon!ch,
   Daemon!NoKey, Notif!Daemon!NoKey, Daemon!Exists, Notif!Daemon!Exists, Daemon!Nil,
   Notif!Daemon!Nil, Daemon!Put, Notif!Daemon!Put

\* The steps of the cache by itself are the same.
LEMMA WebStepSimulates == ASSUME PathInv, WebStep PROVE Notif!WebStep
<1>1. ASSUME NEW t \in Thread, BeginLoad(t) PROVE Notif!BeginLoad(t)
  <2>1. Notif!Wants(t)
    BY <1>1 DEF BeginLoad, Wants, Notif!Wants, Thread
  <2>2. UNCHANGED at
    BY <1>1 DEF BeginLoad
  <2> QED
    BY <1>1, <2>1, <2>2 DEF BeginLoad, Notif!BeginLoad, Key, Notif!Key, Nil, Notif!Nil
<1>2. ASSUME NEW c \in Chan, LoadChannel(c) PROVE Notif!LoadChannel(c)
  BY <1>2 DEF LoadChannel, Notif!LoadChannel, Put, Notif!Put, Nil, Notif!Nil
<1>3. ASSUME NEW c \in Chan, LoadFails(c) PROVE Notif!LoadFails(c)
  <2>1. CASE lock = Listener
    BY <1>3, <2>1 DEF LoadFails, Notif!LoadFails, Nil, Notif!Nil
  <2>2. CASE lock # Listener
    <3>1. lock \in Request /\ at[lock] \in {"init", "check"}
      BY <1>3, <2>2 DEF LoadFails, PathInv, Loading, Thread
    <3> QED
      BY <1>3, <2>2, <3>1 DEF LoadFails, Notif!LoadFails, Nil, Notif!Nil, PathInv, Types
  <2> QED
    BY <2>1, <2>2
<1>4. ASSUME NEW r \in Request
      PROVE  /\ GetLastChatIDs(r) => Notif!GetLastChatIDs(r)
             /\ ReturnAtOnce(r) => Notif!ReturnAtOnce(r)
             /\ StartWaiting(r) => Notif!StartWaiting(r)
             /\ StopWaiting(r) => Notif!StopWaiting(r)
             /\ ReturnAfterWait(r) => Notif!ReturnAfterWait(r)
  BY ZenonT(60) DEF GetLastChatIDs, Notif!GetLastChatIDs, ReturnAtOnce, Notif!ReturnAtOnce,
         StartWaiting, Notif!StartWaiting, StopWaiting, Notif!StopWaiting,
         ReturnAfterWait, Notif!ReturnAfterWait, HasUser, Notif!HasUser,
         TheUser, Notif!TheUser, Unlock, Notif!Unlock, Give, Notif!Give, PathInv, Types
<1>5. OnNewLog => Notif!OnNewLog
  BY DEF OnNewLog, Notif!OnNewLog, HasUser, Notif!HasUser, TheUser, Notif!TheUser,
         Unlock, Notif!Unlock, ChannelClosed, Notif!ChannelClosed, NewLogIDArrived,
         Notif!NewLogIDArrived, Put, Notif!Put, Pop, Notif!Pop, Nil, Notif!Nil
<1>6. Subscribe => Notif!Subscribe
  BY DEF Subscribe, Notif!Subscribe, webVars, Notif!webVars
<1> QED
  BY <1>1, <1>2, <1>3, <1>4, <1>5, <1>6 DEF WebStep, Notif!WebStep, Thread, Notif!Thread

\* What a page asks with, a client of Notification may ask with.
LEMMA AskSimulates == ASSUME PathInv, NEW r \in Request, Arrive(r) PROVE Notif!Ask
<1>1. CASE AskInit(r)
  <2>1. Notif!AskInit(r)
    BY <1>1 DEF AskInit, Notif!AskInit, PathInv, Types
  <2> QED
    BY <2>1 DEF Notif!Ask
<1>2. ASSUME NEW ids, ids = Page!LastIDs(r), AskUpdate(r, ids) PROVE Notif!Ask
  <2>1. asked'[r] = ids /\ PathInv'
    BY <1>2, ArriveInv DEF AskUpdate, PathInv, Types
  <2>2. ids \in Notif!Dictionary
    <3>1. \A c \in DOMAIN ids : c \in Chan /\ ids[c] \in 0 .. MaxEnd - 1
      BY <2>1 DEF PathInv, Types, Id, Daemon!Id
    <3>2. ids = [c \in DOMAIN ids |-> ids[c]]
      BY <1>2 DEF Page!LastIDs
    <3> QED
      BY <3>1, <3>2 DEF Notif!Dictionary
  <2>3. Notif!AskUpdate(r, ids)
    BY <1>2 DEF AskUpdate, Notif!AskUpdate, PathInv, Types
  <2> QED
    BY <2>2, <2>3 DEF Notif!Ask
<1> QED
  BY <1>1, <1>2 DEF Arrive

\* A request that ends had its answer, or was refused and never seen.
LEMMA RespondSimulates ==
    ASSUME PathInv, Forgotten, NEW r \in Request, Finish(r), HasBody(r) \/ Broken(r)
    PROVE  Notif!Respond(r) \/ UNCHANGED <<log, i2h, subscribed, Notif!webVars>>
<1>1. CASE at[r] = "refused"
  <2>1. asked' = asked /\ answer' = answer
    BY <1>1 DEF Finish, Forgotten, PathInv, Types
  <2> QED
    BY <1>1, <2>1 DEF Finish, PathInv, Types, Notif!webVars
<1>2. CASE at[r] # "refused"
  BY <1>2 DEF Finish, Notif!Respond, HasBody, Broken, PathInv, Types
<1> QED
  BY <1>1, <1>2

\* Every step is one of Notification, or none.
LEMMA StepSimulates == PathInv /\ Forgotten /\ [Next]_vars => [Notif!Next]_(Notif!vars)
<1> SUFFICES ASSUME PathInv, Forgotten, [Next]_vars PROVE [Notif!Next]_(Notif!vars)
  OBVIOUS
<1>1. CASE UNCHANGED vars
  BY <1>1 DEF vars, daemonVars, webVars, Notif!vars, Notif!daemonVars, Notif!webVars
<1>2. CASE Daemon!Next /\ UNCHANGED <<webVars, requestVars, browserVars>>
  BY <1>2, DaemonSimulates DEF Notif!Next, webVars, Notif!webVars
<1>3. CASE (Web \/ Restart) /\ UNCHANGED daemonVars
  <2>1. Notif!Web \/ UNCHANGED <<log, i2h, subscribed, Notif!webVars>>
    <3>1. CASE WebStep
      BY <3>1, WebStepSimulates DEF Notif!Web
    <3>2. ASSUME NEW r \in Request, Reads(r) \/ User(r)
          PROVE  UNCHANGED <<log, i2h, subscribed, Notif!webVars>>
      BY <3>2 DEF Reads, ReadBounds, ReadLines, User, webVars, Notif!webVars
    <3>3. ASSUME NEW r \in Request, Fails(r)
          PROVE  UNCHANGED <<log, i2h, subscribed, Notif!webVars>>
      BY <3>3 DEF Fails, ReadFails, Refuse, Notif!webVars, PathInv, Types
    <3>4. ASSUME NEW r \in Request, Arrive(r) PROVE Notif!Web
      BY <3>4, AskSimulates DEF Notif!Web
    <3>5. ASSUME NEW r \in Request, Receive(r) \/ Lose(r)
          PROVE  Notif!Web \/ UNCHANGED <<log, i2h, subscribed, Notif!webVars>>
      <4>1. CASE Finish(r) /\ (HasBody(r) \/ Broken(r))
        BY <4>1, RespondSimulates DEF Notif!Web
      <4>2. CASE UNCHANGED <<log, i2h, subscribed, webVars>>
        BY <4>2 DEF webVars, Notif!webVars
      <4> QED
        BY <3>5, <4>1, <4>2 DEF Receive, Lose
    <3>6. CASE Restart
      <4>1. Notif!WebRestart
        BY <3>6 DEF Restart, WebRestart, Notif!WebRestart
      <4> QED
        BY <4>1 DEF Notif!Web
    <3> QED
      BY <1>3, <3>1, <3>2, <3>3, <3>4, <3>5, <3>6 DEF Web
  <2> QED
    BY <1>3, <2>1 DEF daemonVars, Notif!daemonVars, Notif!Next, Notif!vars
<1> QED
  BY <1>1, <1>2, <1>3 DEF Next

\* Seen from the cache, the whole path is Notification: what is proved of requests
\* that may ask anything holds for the threads that serve pages, whatever they
\* read, refuse and fail at.
THEOREM ImplementsNotification == Spec => NotificationSpec
<1>1. Init /\ PathInv => Notif!Init
  BY DaemonSimulates DEF Init, WebInit, Notif!Init, Notif!WebInit
<1>2. Init => Forgotten
  BY DEF Init, WebInit, Forgotten
<1> QED
  BY <1>1, <1>2, PathInit, PathInductive, ForgottenNext, StepSimulates, PTL
     DEF Spec, NotificationSpec, Notif!Spec

------------------------------------------------------------------------------
(* What has been proved of Notification holds on the path.                  *)

Cache == INSTANCE Notification_proofs
    WITH at <- [r \in Request |-> CASE at[r] = "broken"  -> "changed"
                                    [] at[r] = "refused" -> "idle"
                                    [] OTHER -> at[r]]

\* The two instances of Notification are one.
LEMMA SameDaemonSeen ==
    /\ Notif!Daemon!Init => Cache!Daemon!Init
    /\ Notif!Daemon!Next => Cache!Daemon!Next
BY Zenon DEF Notif!Daemon!Handler, Cache!Daemon!Handler, Notif!Daemon!Say, Cache!Daemon!Say,
   Notif!Daemon!Part, Cache!Daemon!Part, Notif!Daemon!Kick, Cache!Daemon!Kick,
   Notif!Daemon!PartQuery, Cache!Daemon!PartQuery, Notif!Daemon!OpenOnly,
   Cache!Daemon!OpenOnly, Notif!Daemon!Handle, Cache!Daemon!Handle, Notif!Daemon!Reconnect,
   Cache!Daemon!Reconnect, Notif!Daemon!RedisCommand, Cache!Daemon!RedisCommand,
   Notif!Daemon!SetBegin, Cache!Daemon!SetBegin, Notif!Daemon!MarkAsJoined,
   Cache!Daemon!MarkAsJoined, Notif!Daemon!WriteLine, Cache!Daemon!WriteLine,
   Notif!Daemon!SetEnd, Cache!Daemon!SetEnd, Notif!Daemon!Announce, Cache!Daemon!Announce,
   Notif!Daemon!MarkAsLeft, Cache!Daemon!MarkAsLeft, Notif!Daemon!AnnounceClosed,
   Cache!Daemon!AnnounceClosed, Notif!Daemon!ClearLog, Cache!Daemon!ClearLog,
   Notif!Daemon!ClearJoined, Cache!Daemon!ClearJoined, Notif!Daemon!RedisFails,
   Cache!Daemon!RedisFails, Notif!Daemon!Unheard, Cache!Daemon!Unheard,
   Notif!Daemon!Crash, Cache!Daemon!Crash, Notif!Daemon!Next,
   Cache!Daemon!Next, Notif!Daemon!Init, Cache!Daemon!Init, Notif!Daemon!Goto,
   Cache!Daemon!Goto, Notif!Daemon!Entry, Cache!Daemon!Entry, Notif!Daemon!AfterOpen,
   Cache!Daemon!AfterOpen, Notif!Daemon!AfterAppend, Cache!Daemon!AfterAppend,
   Notif!Daemon!NextID, Cache!Daemon!NextID, Notif!Daemon!FirstID, Cache!Daemon!FirstID,
   Notif!Daemon!Job, Cache!Daemon!Job, Notif!Daemon!NoJob, Cache!Daemon!NoJob,
   Notif!Daemon!NoLine, Cache!Daemon!NoLine, Notif!Daemon!Publish, Cache!Daemon!Publish,
   Notif!Daemon!NewLog, Cache!Daemon!NewLog, Notif!Daemon!Closed, Cache!Daemon!Closed,
   Notif!Daemon!ch, Cache!Daemon!ch, Notif!Daemon!NoKey, Cache!Daemon!NoKey,
   Notif!Daemon!Exists, Cache!Daemon!Exists, Notif!Daemon!Nil, Cache!Daemon!Nil,
   Notif!Daemon!Put, Cache!Daemon!Put

LEMMA SameWebStep == Notif!WebStep => Cache!WebStep
BY Zenon DEF Notif!WebStep, Cache!WebStep, Notif!Thread, Cache!Thread, Notif!BeginLoad,
   Cache!BeginLoad, Notif!Wants, Cache!Wants, Notif!Key, Cache!Key, Notif!LoadChannel,
   Cache!LoadChannel, Notif!LoadFails, Cache!LoadFails, Notif!GetLastChatIDs,
   Cache!GetLastChatIDs, Notif!ReturnAtOnce, Cache!ReturnAtOnce, Notif!StartWaiting,
   Cache!StartWaiting, Notif!StopWaiting, Cache!StopWaiting, Notif!ReturnAfterWait,
   Cache!ReturnAfterWait, Notif!HasUser, Cache!HasUser, Notif!TheUser, Cache!TheUser,
   Notif!Unlock, Cache!Unlock, Notif!Give, Cache!Give, Notif!OnNewLog, Cache!OnNewLog,
   Notif!ChannelClosed, Cache!ChannelClosed, Notif!NewLogIDArrived, Cache!NewLogIDArrived,
   Notif!Subscribe, Cache!Subscribe, Notif!Put, Cache!Put, Notif!Pop, Cache!Pop, Notif!Nil,
   Cache!Nil, Notif!webVars, Cache!webVars

LEMMA SameNotification ==
    /\ Notif!Init => Cache!Init
    /\ [Notif!Next]_(Notif!vars) => [Cache!Next]_(Cache!vars)
<1>1. (Notif!Ask => Cache!Ask) /\ (Notif!WebRestart => Cache!WebRestart)
      /\ \A r \in Request : Notif!Respond(r) => Cache!Respond(r)
  BY Zenon DEF Notif!Ask, Cache!Ask, Notif!AskInit, Cache!AskInit, Notif!AskUpdate,
     Cache!AskUpdate, Notif!Dictionary, Cache!Dictionary, Notif!Respond, Cache!Respond,
     Notif!WebRestart, Cache!WebRestart
<1>2. Notif!webVars = Cache!webVars /\ Notif!daemonVars = Cache!daemonVars
      /\ Notif!vars = Cache!vars
  BY Zenon DEF Notif!webVars, Cache!webVars, Notif!daemonVars, Cache!daemonVars, Notif!vars,
               Cache!vars
<1>3. Notif!Init => Cache!Init
  BY Zenon, SameDaemonSeen DEF Notif!Init, Cache!Init, Notif!WebInit, Cache!WebInit
<1>4. Notif!Next => Cache!Next
  <2>1. UNCHANGED Notif!webVars => UNCHANGED Cache!webVars
    BY Zenon DEF Notif!webVars, Cache!webVars
  <2>2. UNCHANGED Notif!daemonVars => UNCHANGED Cache!daemonVars
    BY Zenon DEF Notif!daemonVars, Cache!daemonVars
  <2> QED
    BY Zenon, <1>1, <2>1, <2>2, SameDaemonSeen, SameWebStep
    DEF Notif!Next, Cache!Next, Notif!Web, Cache!Web
<1>5. UNCHANGED Notif!vars => UNCHANGED Cache!vars
  BY Zenon DEF Notif!vars, Cache!vars, Notif!daemonVars, Cache!daemonVars, Notif!webVars,
               Cache!webVars
<1> QED
  BY <1>3, <1>4, <1>5

LEMMA SeenAssumed == Cache!DaemonAssumption /\ Cache!LogMetadataAssumption
BY Zenon, DaemonAssumption, LogMetadataAssumption
DEF Cache!DaemonAssumption, Cache!LogMetadataAssumption, Cache!Daemon!NoLine, Daemon!NoLine

\* On the whole path, too, the cache says what redis says when nothing is under way.
THEOREM PathCoherent ==
    ASSUME ~RedisMayFail, ~OpensSilently, ~LoadsUnsubscribed
    PROVE  Spec => []CoherentButFirstLine
<1>1. Cache!Spec => []Cache!CoherentButFirstLine
  BY SeenAssumed, Cache!CoherentAlways
  DEF Cache!CoherentAlways, Cache!DaemonAssumption, Cache!LogMetadataAssumption
<1>2. Cache!CoherentButFirstLine => CoherentButFirstLine
  BY Zenon DEF Cache!CoherentButFirstLine, CoherentButFirstLine, Notif!CoherentButFirstLine,
               Cache!Quiet, Notif!Quiet
<1> QED
  BY <1>1, <1>2, SameNotification, ImplementsNotification, PTL
  DEF NotificationSpec, Notif!Spec, Cache!Spec

\* On the whole path no poll sleeps through a change: whoever still waits has asked with
\* what the cache says, or has been woken, and every event has its waiter.
THEOREM PathWakes == Spec => [](Cache!EventsOfWaiters /\ Cache!NoLostWakeup)
<1>1. Cache!Spec => []Cache!EventsOfWaiters /\ []Cache!NoLostWakeup
  BY SeenAssumed, Cache!EventsAlways, Cache!NoLostWakeupAlways
  DEF Cache!EventsAlways, Cache!NoLostWakeupAlways, Cache!DaemonAssumption,
      Cache!LogMetadataAssumption
<1> QED
  BY <1>1, SameNotification, ImplementsNotification, PTL
  DEF NotificationSpec, Notif!Spec, Cache!Spec

LEMMA SeenLogAssumed == Cache!Log!ChannelLogAssumption
BY Zenon, DaemonAssumption DEF Cache!Log!ChannelLogAssumption, Cache!Log!NoLine, Daemon!NoLine

\* On the whole path the logs are what LogFeed promises: through every load, wait, poll
\* and answer, what a reader can see of a log grows at its end or is thrown away.
THEOREM PathIsFeed == Spec => Cache!Log!FeedSpec
<1>1. Cache!Spec => Cache!Log!Spec
  BY SeenAssumed, Cache!ImplementsChannelLog
  DEF Cache!ImplementsChannelLog, Cache!DaemonAssumption, Cache!LogMetadataAssumption
<1>2. Cache!Log!Spec => Cache!Log!FeedSpec
  BY SeenAssumed, SeenLogAssumed, Cache!Log!LogIsFeed
  DEF Cache!Log!LogIsFeed, Cache!DaemonAssumption, Cache!LogMetadataAssumption,
      Cache!Log!ChannelLogAssumption
<1> QED
  BY <1>1, <1>2, SameNotification, ImplementsNotification, PTL
  DEF NotificationSpec, Notif!Spec, Cache!Spec

------------------------------------------------------------------------------
(* A user whose logs are kept.                                              *)

\* Lines of c that everybody may know.
Logged(c, lines) ==
    \A i \in DOMAIN lines : i \in 0 .. log[c].end - 1 /\ lines[i] = log[c].lines[i]

\* What is asked for, on its way or on screen is in the log, and the daemon is not
\* about to throw a log away.
KeptInv ==
    /\ job.close # "clear" /\ pc # "delete"
    /\ \A r \in Request :
        /\ \A c \in DOMAIN window[r] : window[r][c] \subseteq 0 .. log[c].end - 1
        /\ \A c \in DOMAIN reply[r] : Logged(c, reply[r][c])
        /\ \A c \in DOMAIN shown[r] : Logged(c, shown[r][c])

LEMMA NoLines == \A c : Logged(c, <<>>)
BY NothingThere DEF Logged

\* The windows end where the log ends.
LEMMA WindowsEnd ==
    ASSUME NEW h, h.begin \in {Nil, 0}, h.end \in 0 .. MaxEnd \cup {Nil}
    PROVE  /\ RecentIds(h) \subseteq 0 .. h.end - 1
           /\ \A k \in Nat : IdsAfter(h, k) \subseteq 0 .. h.end - 1
BY DaemonAssumption, LogLinesAssumption
DEF RecentIds, IdsAfter, Readable, Larger, Smaller, Nil

\* The daemon adds to the logs.
LEMMA KeptDaemon ==
    ASSUME LogInv, PathInv, Log!BegunFirst, KeptInv, Daemon!Next, job'.close # "clear",
           UNCHANGED <<window, reply, shown>>
    PROVE  KeptInv'
<1>1. ASSUME NEW c \in Chan, NEW i \in 0 .. log[c].end - 1
      PROVE  i \in 0 .. log'[c].end - 1 /\ log'[c].lines[i] = log[c].lines[i]
  <2>1. log[c].begin # Log!Nil
    BY DEF Log!BegunFirst, Log!Nil
  <2> QED
    BY <2>1, SameDaemon, Assumed, Log!LogGrows
    DEF Log!LogGrows, Log!ChannelLogAssumption, LogInv, KeptInv
<1>2. pc' # "delete"
  BY SameDaemon
  DEF KeptInv, Log!Next, Log!Handler, Log!RedisCommand, Log!Say, Log!Part, Log!Kick,
      Log!PartQuery, Log!OpenOnly, Log!Handle, Log!Reconnect, Log!SetBegin, Log!MarkAsJoined,
      Log!WriteLine, Log!SetEnd, Log!Announce, Log!MarkAsLeft, Log!AnnounceClosed,
      Log!ClearLog, Log!ClearJoined, Log!RedisFails, Log!Unheard, Log!Crash, Log!Goto, Log!Entry,
      Log!AfterOpen, Log!AfterAppend
<1>3. \A r \in Request : \A c \in DOMAIN window[r] \cup DOMAIN reply[r] \cup DOMAIN shown[r] :
          c \in Chan
  BY DEF PathInv, Types
<1>4. ASSUME NEW c \in Chan, NEW lines, Logged(c, lines) PROVE Logged(c, lines)'
  BY <1>1, <1>4 DEF Logged
<1> QED
  BY <1>1, <1>2, <1>3, <1>4 DEF KeptInv

\* Others do not write, and read what is there.
LEMMA KeptOthers ==
    ASSUME PathInv, KeptInv, UNCHANGED <<log, job, pc>>, NEW r \in Request,
           DOMAIN window' = Request, DOMAIN reply' = Request, DOMAIN shown' = Request,
           \A q \in Request \ {r} : /\ window'[q] = window[q]
                                    /\ reply'[q] = reply[q] /\ shown'[q] = shown[q],
           \A c \in DOMAIN window'[r] : window'[r][c] \subseteq 0 .. log[c].end - 1,
           \A c \in DOMAIN reply'[r] : Logged(c, reply'[r][c]),
           \A c \in DOMAIN shown'[r] : Logged(c, shown'[r][c])
    PROVE  KeptInv'
<1>1. \A c, lines : Logged(c, lines)' <=> Logged(c, lines)
  BY DEF Logged
<1> QED
  BY <1>1 DEF KeptInv

LEMMA KeptReads ==
    ASSUME PathInv, LogFacts, KeptInv, UNCHANGED <<log, job, pc, shown>>,
           NEW r \in Request, NEW c \in Chan, ReadBounds(r, c) \/ ReadLines(r, c)
    PROVE  KeptInv'
<1>1. ASSUME NEW lines, File(r, c, lines), Logged(c, lines),
             window' = window \/ window' = [window EXCEPT ![r] = <<>>]
      PROVE  KeptInv'
  <2>1. /\ DOMAIN reply' = Request /\ DOMAIN window' = Request /\ DOMAIN shown' = Request
        /\ \A d \in DOMAIN reply'[r] : Logged(d, reply'[r][d])
        /\ \A d \in DOMAIN window'[r] : window'[r][d] \subseteq 0 .. log[d].end - 1
        /\ \A q \in Request \ {r} : reply'[q] = reply[q] /\ window'[q] = window[q]
    BY <1>1, NothingThere DEF File, Put, PathInv, Types, KeptInv
  <2> QED
    BY <2>1, KeptOthers DEF KeptInv
<1>2. CASE ReadBounds(r, c) /\ Window(r, c) = {}
  BY <1>1, <1>2, NoLines DEF ReadBounds
<1>3. CASE ReadBounds(r, c) /\ Window(r, c) # {}
  <2>1. \A k : c \in DOMAIN asked[r] /\ k = asked[r][c] + 1 => k \in Nat
    BY DEF PathInv, Types, Id, Daemon!Id
  <2>2. Window(r, c) \subseteq 0 .. log[c].end - 1
    BY <2>1, WindowsEnd DEF Window, LogFacts
  <2>3. PICK W : W = Window(r, c)
    OBVIOUS
  <2>4. window' = [window EXCEPT ![r] = Put(<<>>, c, W)] /\ reply' = reply
    BY <1>3, <2>3 DEF ReadBounds
  <2>5. /\ DOMAIN window' = Request /\ DOMAIN window'[r] = {c} /\ window'[r][c] = W
        /\ \A q \in Request \ {r} : window'[q] = window[q]
    BY <2>4, NothingThere DEF Put, PathInv, Types
  <2>6. \A d \in DOMAIN window'[r] : window'[r][d] \subseteq 0 .. log[d].end - 1
    BY <2>2, <2>3, <2>5
  <2>7. /\ DOMAIN reply' = Request /\ DOMAIN shown' = Request
        /\ \A q \in Request \ {r} : reply'[q] = reply[q] /\ shown'[q] = shown[q]
        /\ \A d \in DOMAIN reply'[r] : Logged(d, reply'[r][d])
        /\ \A d \in DOMAIN shown'[r] : Logged(d, shown'[r][d])
    BY <2>4 DEF KeptInv, PathInv, Types
  <2> QED
    BY <2>5, <2>6, <2>7, KeptOthers
<1>4. CASE ReadLines(r, c)
  <2>1. PICK lines : lines = GetLog(log[c], window[r][c])
    OBVIOUS
  <2>2. window[r][c] \subseteq 0 .. log[c].end - 1
    BY <1>4 DEF ReadLines, KeptInv
  <2>3. Logged(c, lines)
    BY <2>1, <2>2 DEF Logged, GetLog, Restrict
  <2> QED
    BY <1>1, <1>4, <2>1, <2>3 DEF ReadLines
<1> QED
  BY <1>2, <1>3, <1>4

\* What comes onto a page was read from the log.
LEMMA KeptReceive ==
    ASSUME PathInv, KeptInv, UNCHANGED <<job, pc>>, NEW r \in Request, Receive(r)
    PROVE  KeptInv'
<1>1. /\ UNCHANGED <<log, window>> /\ DOMAIN reply' = Request /\ DOMAIN reply'[r] = {}
      /\ \A q \in Request \ {r} : reply'[q] = reply[q]
  BY NothingThere DEF Receive, Finish, PathInv, Types
<1>2. ASSUME DOMAIN shown' = Request, \A q \in Request \ {r} : shown'[q] = shown[q],
             \A c \in DOMAIN shown'[r] : Logged(c, shown'[r][c])
      PROVE  KeptInv'
  BY <1>1, <1>2, KeptOthers DEF KeptInv, PathInv, Types
<1>3. CASE UNCHANGED shown
  BY <1>2, <1>3 DEF KeptInv, PathInv, Types
<1>4. CASE HasBody(r) /\ Page!OnSuccess(r, Body(r))
  <2>1. PICK B : B = Body(r)
    OBVIOUS
  <2>2. PICK all : all = Page!ApplyLogUpdate(shown[r], B)
    OBVIOUS
  <2>3. \A c \in DOMAIN B : Logged(c, B[c])
    BY <1>4, <2>1, NoLines DEF Body, HasBody, KeptInv
  <2>4. ASSUME NEW c \in DOMAIN all PROVE Logged(c, all[c])
    <3>1. PICK store : store = IF c \in DOMAIN shown[r] THEN shown[r][c] ELSE <<>>
      OBVIOUS
    <3>2. Logged(c, store)
      BY <3>1, NoLines DEF KeptInv
    <3>3. all[c] = IF c \in DOMAIN B THEN Page!AddLines(store, B[c]) ELSE store
      BY <2>2, <2>4, <3>1 DEF Page!ApplyLogUpdate
    <3>4. ASSUME c \in DOMAIN B PROVE Logged(c, Page!AddLines(store, B[c]))
      BY <2>3, <3>2, <3>4 DEF Logged, Page!AddLines
    <3> QED
      BY <3>2, <3>3, <3>4
  <2>5. PICK new : new = Page!CloseChannel(all, B)
    OBVIOUS
  <2>6. \A c \in DOMAIN new : c \in DOMAIN all /\ new[c] = all[c]
    BY <2>2, <2>5 DEF Page!CloseChannel, Page!Restrict, Page!ApplyLogUpdate
  <2>7. shown' = [shown EXCEPT ![r] = new]
    BY <1>4, <2>1, <2>2, <2>5 DEF Page!OnSuccess
  <2> QED
    BY <1>2, <2>4, <2>6, <2>7 DEF PathInv, Types
<1> QED
  BY <1>3, <1>4 DEF Receive, Page!OnSuccessDeaf, Page!OnServerError

\* Where no log is thrown away, none loses its beginning.
LEMMA KeptBegun == LogInv /\ KeptInv /\ Log!BegunFirst /\ [Next]_vars => Log!BegunFirst'
<1> SUFFICES ASSUME LogInv, KeptInv, Log!BegunFirst, [Next]_vars PROVE Log!BegunFirst'
  OBVIOUS
<1>1. CASE Daemon!Next
  <2>1. [Log!Next \/ Log!Deliver \/ Log!Subscriber]_(Log!vars)
    BY <1>1, SameDaemon
  <2> QED
    BY <2>1, Assumed, Log!BegunFirstNext
    DEF LogInv, KeptInv, Log!BegunFirstNext, Log!ChannelLogAssumption
<1>2. CASE UNCHANGED <<log, daemonVars>>
  BY <1>2 DEF daemonVars, Log!BegunFirst
<1> QED
  BY <1>1, <1>2, DaemonOrOthers

LEMMA KeptNext ==
    LogInv /\ PathInv /\ Log!BegunFirst /\ KeptInv /\ [Next /\ job'.close # "clear"]_vars
        => KeptInv'
<1> SUFFICES ASSUME LogInv, PathInv, Log!BegunFirst, KeptInv,
                    [Next /\ job'.close # "clear"]_vars
             PROVE  KeptInv'
  OBVIOUS
<1>1. CASE Daemon!Next /\ UNCHANGED <<webVars, requestVars, browserVars>> /\ job'.close # "clear"
  BY <1>1, KeptDaemon DEF requestVars, browserVars
<1>2. CASE UNCHANGED <<log, job, pc, window, reply, shown>>
  BY <1>2 DEF KeptInv, Logged
<1>3. CASE WebStep /\ UNCHANGED <<requestVars, browserVars>> /\ UNCHANGED daemonVars
  BY <1>2, <1>3
  DEF WebStep, BeginLoad, LoadChannel, LoadFails, GetLastChatIDs, ReturnAtOnce, StartWaiting,
      StopWaiting, ReturnAfterWait, OnNewLog, Subscribe, requestVars, browserVars, daemonVars
<1>4. ASSUME NEW r \in Request, UNCHANGED daemonVars, Reads(r), UNCHANGED browserVars
      PROVE  KeptInv'
  <2>1. UNCHANGED <<log, job, pc, shown>>
    BY <1>4 DEF Reads, ReadBounds, ReadLines, daemonVars, browserVars
  <2> QED
    BY <1>4, <2>1, Reader, KeptReads DEF Reads
<1>5. ASSUME NEW r \in Request, UNCHANGED daemonVars, Fails(r), UNCHANGED browserVars
      PROVE  KeptInv'
  <2>1. /\ UNCHANGED <<log, job, pc, reply, shown>>
        /\ window' = window \/ window' = [window EXCEPT ![r] = <<>>]
    BY <1>5 DEF Fails, ReadFails, Refuse, daemonVars, browserVars, requestVars
  <2>2. /\ DOMAIN window' = Request /\ \A q \in Request \ {r} : window'[q] = window[q]
        /\ \A c \in DOMAIN window'[r] : window'[r][c] \subseteq 0 .. log[c].end - 1
    BY <2>1, NothingThere DEF KeptInv, PathInv, Types
  <2> QED
    BY <2>1, <2>2, KeptOthers DEF KeptInv, PathInv, Types
<1>6. ASSUME NEW r \in Request, UNCHANGED daemonVars, Receive(r) PROVE KeptInv'
  BY <1>6, KeptReceive DEF daemonVars
<1>7. ASSUME NEW r \in Request, UNCHANGED daemonVars, Arrive(r) PROVE KeptInv'
  BY <1>2, <1>7 DEF Arrive, AskInit, AskUpdate, requestVars, browserVars, daemonVars
<1>8. ASSUME NEW r \in Request, UNCHANGED daemonVars, Lose(r) PROVE KeptInv'
  <2>1. CASE Finish(r)
    <3>1. UNCHANGED <<log, job, pc, window, shown>> /\ reply' = [reply EXCEPT ![r] = <<>>]
      BY <1>8, <2>1 DEF Lose, Finish, Page!OnNetworkError, daemonVars
    <3>2. /\ DOMAIN reply' = Request /\ DOMAIN reply'[r] = {}
          /\ \A q \in Request \ {r} : reply'[q] = reply[q]
      BY <3>1, NothingThere DEF PathInv, Types
    <3> QED
      BY <3>1, <3>2, KeptOthers DEF KeptInv, PathInv, Types
  <2> QED
    BY <1>2, <1>8, <2>1 DEF Lose, Page!OnNetworkError, requestVars, daemonVars
<1>9. ASSUME NEW r \in Request, UNCHANGED daemonVars, User(r) PROVE KeptInv'
  <2>1. /\ UNCHANGED <<log, job, pc, window, reply>>
        /\ shown' = shown \/ shown' = [shown EXCEPT ![r] = <<>>]
    BY <1>9 DEF User, Page!Open, Page!Reload, requestVars, daemonVars
  <2>2. /\ DOMAIN shown' = Request /\ \A q \in Request \ {r} : shown'[q] = shown[q]
        /\ \A c \in DOMAIN shown'[r] : Logged(c, shown'[r][c])
    BY <2>1, NothingThere DEF KeptInv, Logged, PathInv, Types
  <2>3. /\ DOMAIN window' = Request /\ DOMAIN reply' = Request
        /\ \A q \in Request \ {r} : window'[q] = window[q] /\ reply'[q] = reply[q]
        /\ \A c \in DOMAIN window'[r] : window'[r][c] \subseteq 0 .. log[c].end - 1
        /\ \A c \in DOMAIN reply'[r] : Logged(c, reply'[r][c])
    BY <2>1 DEF KeptInv, PathInv, Types
  <2> QED
    BY <2>1, <2>2, <2>3, KeptOthers
<1>10. CASE Restart /\ UNCHANGED daemonVars
  <2>1. UNCHANGED <<log, job, pc, shown>>
        /\ window' = [q \in Request |-> <<>>] /\ reply' = [q \in Request |-> <<>>]
    BY <1>10 DEF Restart, WebRestart, Page!OnNetworkError, daemonVars
  <2> QED
    BY <2>1, NothingThere DEF KeptInv, Logged
<1> QED
  BY <1>1, <1>2, <1>3, <1>4, <1>5, <1>6, <1>7, <1>8, <1>9, <1>10
  DEF Next, Web, vars, daemonVars, requestVars, browserVars

\* As long as no log is thrown away, what a page shows is what the log says: no line that a
\* daemon writes over after a crash was ever to be read, so none was ever handed out.
THEOREM ShownIsLoggedAlways == KeptSpec => []ShownIsLogged
<1>1. Init => KeptInv /\ Log!BegunFirst
  <2> SUFFICES ASSUME Init PROVE KeptInv /\ Log!BegunFirst
    OBVIOUS
  <2>1. job.close = "no" /\ pc = "idle"
    BY SameDaemon DEF Init, Log!Init, Log!NoJob, Log!Job
  <2>2. Log!BegunFirst
    BY SameDaemon DEF Init, Log!Init, Log!NoKey, Log!BegunFirst
  <2> QED
    BY <2>1, <2>2, NothingThere DEF Init, KeptInv
<1>2. [Next /\ job'.close # "clear"]_vars => [Next]_vars
  OBVIOUS
<1>3. LogInv /\ PathInv /\ KeptInv => ShownIsLogged
  <2>1. Log!IInv => \A c \in Chan : log[c].end \in Nat \cup {Nil}
    BY DaemonAssumption DEF Log!IInv, Log!TypeOK, Log!Hash, Nil, Log!Nil
  <2> QED
    BY <2>1 DEF KeptInv, Logged, ShownIsLogged, LogInv, PathInv, Types, Nil
<1> QED
  BY <1>1, <1>2, <1>3, PathInit, LogNext, PathNext, KeptBegun, KeptNext, PTL DEF KeptSpec
=============================================================================
