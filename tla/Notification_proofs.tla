------------------------- MODULE Notification_proofs -------------------------
(***************************************************************************)
(* Proofs about the waiting requests of LogMetadata, for any number of     *)
(* requests and channels, and against a daemon that may fail anywhere.     *)
(***************************************************************************)
EXTENDS Notification, TLAPS

\* NoLostWakeup is kept only because the lock is held by a loading thread just
\* while no user is loaded, and nobody waits before a user is loaded.
WaitInv ==
    /\ at \in [Request -> {"idle", "init", "check", "wait", "wake",
                           "changed", "nochange", "failed"}]
    /\ DOMAIN asked = Request
    /\ EventsOfWaiters
    /\ waitingEvents \subseteq Request
    /\ waitingEvents # {} => loaded
    /\ lock # Free => ~loaded
    /\ lock \in Thread \cup {Free}
    /\ NoLostWakeup

LEMMA WaitInit == Init => WaitInv
BY DEF Init, WebInit, WaitInv, EventsOfWaiters, NoLostWakeup

\* The first locked section of a request, in which it may start to wait.
LEMMA EnterInv ==
    ASSUME WaitInv, NEW r \in Request,
           GetLastChatIDs(r) \/ ReturnAtOnce(r) \/ StartWaiting(r)
    PROVE  WaitInv'
<1>1. /\ at[r] \in {"init", "check"} /\ HasUser(r) /\ UNCHANGED <<isSet, asked>>
      /\ loaded' = TRUE /\ lastChatIDs' = TheUser(r) /\ lock' = Free
  BY DEF GetLastChatIDs, ReturnAtOnce, StartWaiting, Unlock
<1>2. loaded => TheUser(r) = lastChatIDs
  BY <1>1, LogMetadataAssumption DEF WaitInv, TheUser, HasUser
<1>3. r \notin waitingEvents
  BY <1>1 DEF WaitInv, EventsOfWaiters
<1>4. CASE GetLastChatIDs(r) \/ ReturnAtOnce(r)
  <2>1. waitingEvents' = waitingEvents /\ at' = [at EXCEPT ![r] = "changed"]
    BY <1>4 DEF GetLastChatIDs, ReturnAtOnce, Give
  <2> QED
    BY <1>1, <1>2, <1>3, <2>1 DEF WaitInv, EventsOfWaiters, NoLostWakeup
<1>5. CASE StartWaiting(r)
  <2>1. /\ waitingEvents' = waitingEvents \cup {r}
        /\ at' = [at EXCEPT ![r] = "wait"]
        /\ asked[r] = TheUser(r)
    BY <1>5 DEF StartWaiting
  <2> QED
    BY <1>1, <1>2, <1>3, <2>1 DEF WaitInv, EventsOfWaiters, NoLostWakeup
<1> QED
  BY <1>4, <1>5

\* The notification thread: whatever changes the dictionary wakes everybody.
LEMMA OnNewLogInv == WaitInv /\ OnNewLog => WaitInv'
<1> SUFFICES ASSUME WaitInv, OnNewLog PROVE WaitInv'
  OBVIOUS
<1> DEFINE d == TheUser(Listener)
<1>1. /\ HasUser(Listener) /\ UNCHANGED <<waitingEvents, at, asked>>
      /\ loaded' = TRUE /\ lock' = Free
      /\ \/ isSet' = isSet \cup waitingEvents
         \/ isSet' = isSet /\ lastChatIDs' = d
  BY DEF OnNewLog, ChannelClosed, NewLogIDArrived, Unlock
<1>2. loaded => d = lastChatIDs
  BY <1>1, LogMetadataAssumption DEF WaitInv, TheUser, HasUser
<1> HIDE DEF d
<1>3. EventsOfWaiters'
  BY <1>1 DEF WaitInv, EventsOfWaiters
<1>4. NoLostWakeup'
  <2>1. CASE isSet' = isSet \cup waitingEvents
    BY <1>1, <2>1 DEF NoLostWakeup
  <2>2. CASE isSet' = isSet /\ lastChatIDs' = d
    BY <1>1, <1>2, <2>2 DEF WaitInv, NoLostWakeup
  <2> QED
    BY <1>1, <2>1, <2>2
<1> QED
  BY <1>1, <1>3, <1>4 DEF WaitInv

\* Every step keeps the invariant.
LEMMA WaitNext == WaitInv /\ [Next]_vars => WaitInv'
<1> SUFFICES ASSUME WaitInv, [Next]_vars PROVE WaitInv'
  OBVIOUS
<1>1. CASE UNCHANGED webVars
  BY <1>1 DEF webVars, WaitInv, EventsOfWaiters, NoLostWakeup
<1>2. ASSUME NEW t \in Thread, BeginLoad(t) PROVE WaitInv'
  BY <1>2 DEF BeginLoad, WaitInv, EventsOfWaiters, NoLostWakeup
<1>3. ASSUME NEW c \in Chan, LoadChannel(c) PROVE WaitInv'
  BY <1>3 DEF LoadChannel, WaitInv, EventsOfWaiters, NoLostWakeup
<1>4. ASSUME NEW c \in Chan, LoadFails(c) PROVE WaitInv'
  <2>1. waitingEvents = {} /\ lock \in Thread
    BY <1>4 DEF LoadFails, WaitInv
  <2>2. at' \in [Request -> {"idle", "init", "check", "wait", "wake",
                             "changed", "nochange", "failed"}]
        /\ \A r \in Request : at'[r] \in {"wait", "wake"} => at[r] \in {"wait", "wake"}
    BY <1>4 DEF LoadFails, WaitInv
  <2> QED
    BY <1>4, <2>1, <2>2 DEF LoadFails, WaitInv, EventsOfWaiters, NoLostWakeup
<1>5. ASSUME NEW r \in Request,
             GetLastChatIDs(r) \/ ReturnAtOnce(r) \/ StartWaiting(r)
      PROVE  WaitInv'
  BY <1>5, EnterInv
<1>6. ASSUME NEW r \in Request, StopWaiting(r) PROVE WaitInv'
  BY <1>6 DEF StopWaiting, WaitInv, EventsOfWaiters, NoLostWakeup
<1>7. ASSUME NEW r \in Request, ReturnAfterWait(r) PROVE WaitInv'
  <2>1. /\ waitingEvents' = waitingEvents \ {r} /\ isSet' = isSet \ {r}
        /\ \/ at' = [at EXCEPT ![r] = "changed"]
           \/ at' = [at EXCEPT ![r] = "nochange"]
        /\ UNCHANGED <<loaded, lastChatIDs, lock, asked>>
    BY <1>7 DEF ReturnAfterWait, Give
  <2> QED
    BY <2>1 DEF WaitInv, EventsOfWaiters, NoLostWakeup
<1>8. CASE OnNewLog
  BY <1>8, OnNewLogInv
<1>9. CASE Subscribe
  BY <1>1, <1>9 DEF Subscribe
<1>10. ASSUME NEW r \in Request,
              AskInit(r) \/ (\E ids \in Dictionary : AskUpdate(r, ids)) \/ Respond(r)
       PROVE  WaitInv'
  <2>1. /\ at[r] \notin {"wait", "wake"}
        /\ \E p \in {"init", "check", "idle"} : at' = [at EXCEPT ![r] = p]
        /\ asked' = asked \/ \E ids : asked' = [asked EXCEPT ![r] = ids]
        /\ UNCHANGED <<loaded, lastChatIDs, lock, waitingEvents, isSet>>
    BY <1>10 DEF AskInit, AskUpdate, Respond
  <2>2. r \notin waitingEvents
    BY <2>1 DEF WaitInv, EventsOfWaiters
  <2>3. DOMAIN asked' = Request /\ \A q \in Request \ {r} : asked'[q] = asked[q]
    BY <2>1 DEF WaitInv
  <2> QED
    BY <2>1, <2>2, <2>3 DEF WaitInv, EventsOfWaiters, NoLostWakeup
<1>11. CASE WebRestart
  BY <1>11 DEF WebRestart, WaitInv, EventsOfWaiters, NoLostWakeup
<1> QED
  BY <1>1, <1>2, <1>3, <1>4, <1>5, <1>6, <1>7, <1>8, <1>9, <1>10, <1>11
  DEF Next, Web, WebStep, Ask, vars

LEMMA WaitInductive == Spec => []WaitInv
BY WaitInit, WaitNext, PTL DEF Spec

------------------------------------------------------------------------------
\* A request that waits and has not been woken knows what the cache knows: the
\* check and the registration are one locked section (waitForChange), and every
\* change of the dictionary sets every event.
THEOREM NoLostWakeupAlways == Spec => []NoLostWakeup
BY WaitInductive, PTL DEF WaitInv

\* list.remove in removeWaitingEvent never raises, and no event is left behind.
THEOREM EventsAlways == Spec => []EventsOfWaiters
BY WaitInductive, PTL DEF WaitInv

\* A request that timed out may say `no change': a change between the end of the
\* wait and the lock would have set its event.
THEOREM NoChangeTrue == Spec => NoChangeIsTrue
<1> DEFINE A == \A r \in Request : (at[r] = "wake" /\ at'[r] = "nochange")
                                       => asked[r] = lastChatIDs
<1>1. WaitInv /\ [Next]_vars => [A]_vars
  <2> SUFFICES ASSUME WaitInv, Next,
                      NEW r \in Request, at[r] = "wake", at'[r] = "nochange"
               PROVE  asked[r] = lastChatIDs
    OBVIOUS
  <2>1. r \in waitingEvents
    BY DEF WaitInv, EventsOfWaiters
  <2>2. ReturnAfterWait(r)
    BY DEF Next, Web, WebStep, Ask, WaitInv, BeginLoad, LoadChannel, LoadFails,
           AskInit, AskUpdate, Respond, GetLastChatIDs, ReturnAtOnce, StartWaiting,
           StopWaiting, ReturnAfterWait, OnNewLog, Subscribe, WebRestart, Give,
           webVars
  <2>3. r \notin isSet
    BY <2>2 DEF ReturnAfterWait, Give, WaitInv
  <2> QED
    BY <2>1, <2>3 DEF WaitInv, NoLostWakeup
<1> HIDE DEF A
<1>2. Spec => [][A]_vars
  BY <1>1, WaitInductive, PTL DEF Spec
<1> QED
  BY <1>2 DEF NoChangeIsTrue, A

------------------------------------------------------------------------------
(* The daemon, seen from here.                                              *)

Log == INSTANCE ChannelLog_proofs

LEMMA Assumed == Log!ChannelLogAssumption
BY Zenon, DaemonAssumption DEF Log!ChannelLogAssumption, Daemon!NoLine, Log!NoLine

\* The two instances of ChannelLog are one.
LEMMA SameDaemon == (Daemon!Init => Log!Init) /\ (Daemon!Next => Log!Next)
BY Zenon DEF Daemon!Handler, Log!Handler, Daemon!Say, Log!Say, Daemon!Part, Log!Part,
   Daemon!Kick, Log!Kick, Daemon!PartQuery, Log!PartQuery, Daemon!OpenOnly, Log!OpenOnly,
   Daemon!Handle, Log!Handle, Daemon!Reconnect, Log!Reconnect, Daemon!RedisCommand,
   Log!RedisCommand, Daemon!SetBegin, Log!SetBegin, Daemon!MarkAsJoined, Log!MarkAsJoined,
   Daemon!WriteLine, Log!WriteLine, Daemon!SetEnd, Log!SetEnd, Daemon!Announce,
   Log!Announce, Daemon!MarkAsLeft, Log!MarkAsLeft, Daemon!AnnounceClosed,
   Log!AnnounceClosed, Daemon!ClearLog, Log!ClearLog, Daemon!ClearJoined, Log!ClearJoined,
   Daemon!RedisFails, Log!RedisFails, Daemon!Unheard, Log!Unheard, Daemon!Crash, Log!Crash,
   Daemon!Next, Log!Next,
   Daemon!Init, Log!Init, Daemon!Goto, Log!Goto, Daemon!Entry, Log!Entry,
   Daemon!AfterOpen, Log!AfterOpen, Daemon!AfterAppend, Log!AfterAppend, Daemon!NextID,
   Log!NextID, Daemon!FirstID, Log!FirstID, Daemon!Job, Log!Job, Daemon!NoJob, Log!NoJob,
   Daemon!NoLine, Log!NoLine, Daemon!Publish, Log!Publish, Daemon!NewLog, Log!NewLog,
   Daemon!Closed, Log!Closed, Daemon!ch, Log!ch, Daemon!NoKey, Log!NoKey, Daemon!Exists,
   Log!Exists, Daemon!Nil, Log!Nil, Daemon!Put, Log!Put

\* Nothing is on its way to who does not listen, and a user is loaded by the
\* notification thread only for a notification.
Delivery ==
    /\ subscribed \in BOOLEAN
    /\ ~subscribed => i2h = <<>>
    /\ lock = Listener => i2h # <<>>

\* What the web server does to redis.
LEMMA WebOnRedis ==
    ASSUME Delivery, Web
    PROVE  /\ UNCHANGED log
           /\ \/ UNCHANGED <<i2h, subscribed>>
              \/ i2h # <<>> /\ i2h' = Tail(i2h) /\ UNCHANGED subscribed /\ lock' = Free
              \/ ~subscribed /\ subscribed' = TRUE /\ UNCHANGED <<i2h, lock>>
              \/ subscribed' = FALSE /\ i2h' = <<>> /\ lock' = Free
           /\ lock' \in {lock, Free} \/ (lock' = Listener => i2h' # <<>>)
<1>1. CASE OnNewLog
  BY <1>1 DEF OnNewLog, ChannelClosed, NewLogIDArrived, Unlock
<1>2. ASSUME NEW t \in Thread, BeginLoad(t)
      PROVE  UNCHANGED <<log, i2h, subscribed>> /\ (lock' = Listener => i2h' # <<>>)
  BY <1>2 DEF BeginLoad, Wants
<1>3. ASSUME NEW c \in Chan, LoadFails(c)
      PROVE  /\ UNCHANGED <<log, subscribed>> /\ lock' = Free
             /\ i2h' = i2h \/ (i2h # <<>> /\ i2h' = Tail(i2h))
  BY <1>3 DEF LoadFails, Delivery
<1>4. ASSUME NEW c \in Chan, LoadChannel(c) PROVE UNCHANGED <<log, i2h, subscribed, lock>>
  BY <1>4 DEF LoadChannel
<1>5. ASSUME NEW r \in Request,
             \/ GetLastChatIDs(r) \/ ReturnAtOnce(r) \/ StartWaiting(r)
             \/ StopWaiting(r) \/ ReturnAfterWait(r) \/ Respond(r)
             \/ AskInit(r) \/ \E ids \in Dictionary : AskUpdate(r, ids)
      PROVE  UNCHANGED <<log, i2h, subscribed>> /\ lock' \in {lock, Free}
  BY <1>5 DEF GetLastChatIDs, ReturnAtOnce, StartWaiting, StopWaiting, ReturnAfterWait, Respond,
              AskInit, AskUpdate, Unlock
<1>6. CASE Subscribe \/ WebRestart
  BY <1>6 DEF Subscribe, WebRestart, webVars
<1> QED
  BY <1>1, <1>2, <1>3, <1>4, <1>5, <1>6 DEF Web, WebStep, Ask

\* To the daemon, the web server is who takes notifications, comes and goes.
LEMMA Simulates ==
    Delivery /\ [Next]_vars => [Log!Next \/ Log!Deliver \/ Log!Subscriber]_(Log!vars)
<1> SUFFICES ASSUME Delivery, [Next]_vars
             PROVE  [Log!Next \/ Log!Deliver \/ Log!Subscriber]_(Log!vars)
  OBVIOUS
<1>1. CASE Daemon!Next
  BY <1>1, SameDaemon
<1>2. CASE Web /\ UNCHANGED daemonVars
  <2>1. UNCHANGED <<log, Log!daemonVars>>
    BY <1>2, WebOnRedis DEF daemonVars, Log!daemonVars
  <2>2. CASE UNCHANGED <<i2h, subscribed>>
    BY <2>1, <2>2 DEF Log!vars
  <2>3. CASE i2h # <<>> /\ i2h' = Tail(i2h) /\ UNCHANGED subscribed
    BY <2>1, <2>3 DEF Log!Deliver
  <2>4. CASE ~subscribed /\ subscribed' = TRUE /\ UNCHANGED i2h
    BY <2>1, <2>4 DEF Log!Subscriber, Delivery
  <2>5. CASE subscribed' = FALSE /\ i2h' = <<>>
    <3>1. CASE subscribed
      BY <2>1, <2>5, <3>1 DEF Log!Subscriber
    <3>2. CASE ~subscribed
      BY <2>1, <2>5, <3>2 DEF Log!vars, Delivery
    <3> QED
      BY <3>1, <3>2
  <2> QED
    BY <1>2, <2>2, <2>3, <2>4, <2>5, WebOnRedis
<1>3. CASE UNCHANGED vars
  BY <1>3 DEF vars, daemonVars, Log!vars, Log!daemonVars
<1> QED
  BY <1>1, <1>2, <1>3 DEF Next

LEMMA DeliveryInit == Init => Log!IInv /\ Log!Begun /\ Log!JoinedInv /\ Delivery
<1> SUFFICES ASSUME Init PROVE Log!IInv /\ Log!Begun /\ Log!JoinedInv /\ Delivery
  OBVIOUS
<1>1. Log!Init
  BY SameDaemon DEF Init
<1>2. Log!IInv /\ Log!Begun /\ Log!JoinedInv
  BY <1>1, Assumed, Log!InvInit, Log!BegunInit, Log!JoinedInit
  DEF Log!InvInit, Log!BegunInit, Log!JoinedInit, Log!ChannelLogAssumption
<1>3. Delivery
  BY <1>1, LogMetadataAssumption DEF Init, WebInit, Log!Init, Delivery
<1> QED
  BY <1>2, <1>3

LEMMA DeliveryNext == Log!IInv /\ Delivery /\ [Next]_vars => Delivery'
<1> SUFFICES ASSUME Log!IInv, Delivery, [Next]_vars PROVE Delivery'
  OBVIOUS
<1>1. CASE Daemon!Next /\ UNCHANGED webVars
  <2>1. /\ UNCHANGED <<subscribed, lock>>
        /\ i2h' = i2h \/ (subscribed /\ \E n : i2h' = Append(i2h, n))
    BY <1>1, SameDaemon
    DEF webVars, Log!Next, Log!Handler, Log!RedisCommand, Log!Say, Log!Part, Log!Kick,
        Log!PartQuery, Log!OpenOnly, Log!Handle, Log!Reconnect, Log!SetBegin,
        Log!MarkAsJoined, Log!WriteLine, Log!SetEnd, Log!Announce, Log!MarkAsLeft,
        Log!AnnounceClosed, Log!ClearLog, Log!ClearJoined, Log!RedisFails, Log!Unheard, Log!Crash,
        Log!Publish
  <2>2. \A n : Append(i2h, n) # <<>>
    BY DEF Log!IInv, Log!TypeOK
  <2> QED
    BY <2>1, <2>2 DEF Delivery
<1>2. CASE Web /\ UNCHANGED daemonVars
  BY <1>2, WebOnRedis, LogMetadataAssumption DEF Delivery
<1>3. CASE UNCHANGED vars
  BY <1>3 DEF vars, webVars, Delivery
<1> QED
  BY <1>1, <1>2, <1>3 DEF Next

LEMMA DeliveryAlways == Spec => [](Log!IInv /\ Log!Begun /\ Delivery)
<1>1. Log!IInv /\ Log!Begun /\ Delivery /\ [Next]_vars => (Log!IInv /\ Log!Begun /\ Delivery)'
  BY Simulates, DeliveryNext, Assumed, Log!InvNext, Log!BegunNext
  DEF Log!InvNext, Log!BegunNext, Log!ChannelLogAssumption
<1> QED
  BY <1>1, DeliveryInit, PTL DEF Spec

\* The daemon and its readers together behave as ChannelLog says: what it assumes of its
\* surroundings - somebody takes notifications, comes and goes - is all that the web server does.
THEOREM ImplementsChannelLog == Spec => Log!Spec
<1>1. Init => Log!Init
  BY SameDaemon DEF Init
<1> QED
  BY <1>1, Simulates, DeliveryAlways, PTL DEF Spec, Log!Spec

------------------------------------------------------------------------------
(* Types.                                                                   *)

\* Dictionaries of ids stay what they are.
LEMMA Dictionaries ==
    ASSUME NEW d, IsDictionary(d), NEW c \in Chan
    PROVE  /\ \A v \in Nat : IsDictionary(Put(d, c, v))
           /\ IsDictionary(Pop(d, c))
BY DEF IsDictionary, Put, Pop

LEMMA NoDictionary == IsDictionary(<<>>) /\ DOMAIN <<>> = {}
BY DEF IsDictionary

Caches ==
    /\ loaded \in BOOLEAN /\ IsDictionary(lastChatIDs) /\ IsDictionary(partial)
    /\ left \in SUBSET Chan /\ isSet \in SUBSET Request
    /\ DOMAIN answer = Request
    /\ \A r \in Request : IsDictionary(asked[r]) /\ IsDictionary(answer[r])

\* The ids that are loaded, and those that notifications carry.
LEMMA Ids ==
    ASSUME Log!IInv, Log!Begun
    PROVE  /\ \A c \in Chan : log[c].end # Nil => log[c].end - 1 \in Nat
           /\ i2h # <<>> => /\ Head(i2h).chan \in Chan
                            /\ Head(i2h).id # Nil => Head(i2h).id \in Nat
<1>1. \A c \in Chan : log[c].end \in 0 .. MaxEnd \cup {Nil} /\ log[c].end # 0
  BY DEF Log!IInv, Log!TypeOK, Log!Hash, Log!Begun, Nil, Log!Nil
<1>2. MaxEnd \in Nat
  BY DaemonAssumption
<1>3. i2h # <<>> => Head(i2h) \in Log!Note
  BY DEF Log!IInv, Log!TypeOK
<1>4. \A n \in Log!Note : n.chan \in Chan /\ (n.id # Nil => n.id \in Nat)
  BY <1>2 DEF Log!Note, Log!Id, Nil, Log!Nil
<1> QED
  BY <1>1, <1>2, <1>3, <1>4 DEF Nil

LEMMA CachesNext == Log!IInv /\ Log!Begun /\ WaitInv /\ Caches /\ [Next]_vars => Caches'
<1> SUFFICES ASSUME Log!IInv, Log!Begun, WaitInv, Caches, [Next]_vars PROVE Caches'
  OBVIOUS
<1>1. CASE UNCHANGED webVars
  BY <1>1 DEF webVars, Caches
<1>2. ASSUME NEW t \in Thread, BeginLoad(t) PROVE Caches'
  BY <1>2, NoDictionary DEF BeginLoad, Caches
<1>3. ASSUME NEW c \in Chan, LoadChannel(c) PROVE Caches'
  <2>1. log[c].end - 1 \in Nat /\ left' = left \ {c}
    BY <1>3, Ids DEF LoadChannel
  <2>2. IsDictionary(partial')
    BY <1>3, <2>1, Dictionaries DEF LoadChannel, Caches
  <2> QED
    BY <1>3, <2>1, <2>2 DEF LoadChannel, Caches
<1>4. ASSUME NEW c \in Chan, LoadFails(c) PROVE Caches'
  BY <1>4, NoDictionary DEF LoadFails, Caches
<1>5. ASSUME NEW t \in Thread PROVE IsDictionary(TheUser(t))
  BY DEF TheUser, Caches
<1>6. ASSUME NEW r \in Request, NEW d, IsDictionary(d), answer' = [answer EXCEPT ![r] = d]
      PROVE  DOMAIN answer' = Request /\ \A q \in Request : IsDictionary(answer'[q])
  BY <1>6 DEF Caches
<1>7. ASSUME NEW r \in Request, GetLastChatIDs(r) \/ ReturnAtOnce(r) \/ StartWaiting(r)
      PROVE  Caches'
  <2>1. /\ loaded' = TRUE /\ lastChatIDs' = TheUser(r) /\ partial' = <<>>
        /\ UNCHANGED <<left, isSet, asked>>
        /\ answer' = answer \/ answer' = [answer EXCEPT ![r] = TheUser(r)]
    BY <1>7 DEF GetLastChatIDs, ReturnAtOnce, StartWaiting, Unlock, Give
  <2>2. DOMAIN answer' = Request /\ \A q \in Request : IsDictionary(answer'[q])
    BY <1>5, <1>6, <2>1 DEF Thread, Caches
  <2> QED
    BY <1>5, <2>1, <2>2, NoDictionary DEF Thread, Caches
<1>8. ASSUME NEW r \in Request, StopWaiting(r) \/ AskInit(r) PROVE Caches'
  BY <1>8 DEF StopWaiting, AskInit, Caches
<1>9. ASSUME NEW r \in Request, ReturnAfterWait(r) PROVE Caches'
  <2>1. answer' = answer \/ answer' = [answer EXCEPT ![r] = lastChatIDs]
    BY <1>9 DEF ReturnAfterWait, Give
  <2>2. DOMAIN answer' = Request /\ \A q \in Request : IsDictionary(answer'[q])
    BY <1>6, <2>1 DEF Caches
  <2> QED
    BY <1>9, <2>2 DEF ReturnAfterWait, Caches
<1>10. CASE OnNewLog
  <2> DEFINE d == TheUser(Listener)
             c == Head(i2h).chan
             id == Head(i2h).id
  <2>1. IsDictionary(d)
    BY <1>5 DEF Thread
  <2>2. /\ loaded' = TRUE /\ partial' = <<>> /\ UNCHANGED <<left, asked, answer>>
        /\ isSet' = isSet \/ isSet' = isSet \cup waitingEvents
        /\ lastChatIDs' = d \/ lastChatIDs' = Pop(d, c)
              \/ (id # Nil /\ lastChatIDs' = Put(d, c, id))
    BY <1>10 DEF OnNewLog, ChannelClosed, NewLogIDArrived, Unlock
  <2>3. c \in Chan /\ (id # Nil => id \in Nat)
    BY <1>10, Ids DEF OnNewLog
  <2> HIDE DEF d, c, id
  <2>4. IsDictionary(lastChatIDs')
    BY <2>1, <2>2, <2>3, Dictionaries
  <2> QED
    BY <2>2, <2>4, NoDictionary DEF WaitInv, Caches
<1>11. ASSUME NEW r \in Request, NEW ids \in Dictionary, AskUpdate(r, ids) PROVE Caches'
  <2>1. IsDictionary(ids)
    BY DaemonAssumption DEF Dictionary, IsDictionary
  <2> QED
    BY <1>11, <2>1 DEF AskUpdate, WaitInv, Caches
<1>12. ASSUME NEW r \in Request, Respond(r) PROVE Caches'
  BY <1>12, NoDictionary DEF Respond, WaitInv, Caches
<1>13. CASE WebRestart
  BY <1>13, NoDictionary DEF WebRestart, Caches
<1>14. CASE Subscribe
  BY <1>1, <1>14 DEF Subscribe
<1> QED
  BY <1>1, <1>2, <1>3, <1>4, <1>7, <1>8, <1>9, <1>10, <1>11, <1>12, <1>13, <1>14
  DEF Next, Web, WebStep, Ask, vars

LEMMA CachesAlways == Spec => []Caches
<1>1. Init => Caches
  BY NoDictionary DEF Init, WebInit, Caches
<1> QED
  BY <1>1, CachesNext, DeliveryAlways, WaitInductive, PTL DEF Spec

\* The cache and every answer are dictionaries of ids, though loads stop half-way and
\* notifications come in between: an end that is read is never 0.
THEOREM CacheTypeCorrect == Spec => []TypeOK
<1>1. WaitInv /\ Caches => TypeOK
  BY DEF WaitInv, Caches, TypeOK
<1> QED
  BY <1>1, CachesAlways, WaitInductive, PTL

------------------------------------------------------------------------------
(* Coherence: what the cache says once it has heard everything.             *)

Mentions(q, c) == \E i \in 1 .. Len(q) : q[i].chan = c

\* The last thing q says of c.
LastOf(q, c, id) ==
    \E i \in 1 .. Len(q) : /\ q[i].chan = c /\ q[i].id = id
                           /\ \A j \in 1 .. Len(q) : i < j => q[j].chan # c

Value(d, c) == IF c \in DOMAIN d THEN d[c] ELSE Nil

\* What the cache, or the one that is being loaded, says of c is what redis has.
Cached(c) ==
    /\ loaded => Log!Records(c, Value(lastChatIDs, c))
    /\ lock # Free /\ c \notin left => Log!Records(c, Value(partial, c))

\* Of a channel that the daemon has not just changed, the last notification on its way
\* tells what redis has, or there is none and the cache has it already.
Foretold ==
    \A c \in Chan : ~Log!Unsettled(c) =>
        /\ \A id : LastOf(i2h, c, id) => Log!Records(c, id)
        /\ Mentions(i2h, c) \/ Cached(c)

\* The user is loaded by who listens already, one channel after the other.
Listening ==
    /\ ~subscribed => ~loaded /\ lock = Free
    /\ lock # Free => left \cap DOMAIN partial = {}

LEMMA Longer ==
    ASSUME NEW S, NEW q \in Seq(S), NEW n \in S, NEW c
    PROVE  /\ Mentions(Append(q, n), c) <=> Mentions(q, c) \/ n.chan = c
           /\ \A id : LastOf(Append(q, n), c, id) =>
                         IF n.chan = c THEN id = n.id ELSE LastOf(q, c, id)
<1> DEFINE p == Append(q, n)
<1>1. /\ p \in Seq(S) /\ Len(p) = Len(q) + 1 /\ p[Len(q) + 1] = n /\ Len(q) \in Nat
      /\ \A i \in 1 .. Len(q) : p[i] = q[i]
  OBVIOUS
<1> HIDE DEF p
<1>2. Mentions(p, c) <=> Mentions(q, c) \/ n.chan = c
  BY <1>1 DEF Mentions
<1>3. ASSUME NEW id, LastOf(p, c, id) PROVE IF n.chan = c THEN id = n.id ELSE LastOf(q, c, id)
  <2>1. PICK i \in 1 .. Len(p) : /\ p[i].chan = c /\ p[i].id = id
                                 /\ \A j \in 1 .. Len(p) : i < j => p[j].chan # c
    BY <1>3 DEF LastOf
  <2>2. CASE i = Len(q) + 1
    BY <1>1, <2>1, <2>2
  <2>3. CASE i \in 1 .. Len(q)
    <3>1. n.chan # c
      BY <1>1, <2>1, <2>3
    <3>2. /\ q[i].chan = c /\ q[i].id = id
          /\ \A j \in 1 .. Len(q) : i < j => q[j].chan # c
      BY <1>1, <2>1, <2>3
    <3> QED
      BY <2>3, <3>1, <3>2 DEF LastOf
  <2> QED
    BY <1>1, <2>2, <2>3
<1> QED
  BY <1>2, <1>3 DEF p

LEMMA Shorter ==
    ASSUME NEW S, NEW q \in Seq(S), q # <<>>, NEW c
    PROVE  /\ \A id : LastOf(Tail(q), c, id) => LastOf(q, c, id)
           /\ \/ Mentions(Tail(q), c)
              \/ Head(q).chan = c /\ LastOf(q, c, Head(q).id)
              \/ Head(q).chan # c /\ ~Mentions(q, c)
<1> DEFINE p == Tail(q)
<1>1. /\ p \in Seq(S) /\ Len(p) = Len(q) - 1 /\ Len(q) \in Nat /\ Len(p) \in Nat
      /\ Head(q) = q[1] /\ \A i \in 1 .. Len(p) : p[i] = q[i + 1]
  OBVIOUS
<1> HIDE DEF p
<1>2. \A j \in 1 .. Len(q) : j = 1 \/ (j - 1 \in 1 .. Len(p) /\ p[j - 1] = q[j])
  BY <1>1
<1>3. ASSUME NEW id, LastOf(p, c, id) PROVE LastOf(q, c, id)
  <2>1. PICK i \in 1 .. Len(p) : /\ p[i].chan = c /\ p[i].id = id
                                 /\ \A j \in 1 .. Len(p) : i < j => p[j].chan # c
    BY <1>3 DEF LastOf
  <2>2. i + 1 \in 1 .. Len(q) /\ q[i + 1].chan = c /\ q[i + 1].id = id
    BY <1>1, <2>1
  <2>3. ASSUME NEW j \in 1 .. Len(q), i + 1 < j PROVE q[j].chan # c
    <3>1. j - 1 \in 1 .. Len(p) /\ i < j - 1
      BY <1>1, <2>1, <2>3
    <3> QED
      BY SMTT(30), <1>2, <2>1, <2>3, <3>1
  <2> QED
    BY <2>2, <2>3 DEF LastOf
<1>4. ASSUME ~Mentions(p, c) PROVE \A j \in 1 .. Len(q) : 1 < j => q[j].chan # c
  BY <1>1, <1>2, <1>4 DEF Mentions
<1>5. 1 \in 1 .. Len(q)
  BY <1>1
<1>6. ASSUME ~Mentions(p, c), Head(q).chan = c PROVE LastOf(q, c, Head(q).id)
  BY <1>1, <1>4, <1>5, <1>6 DEF LastOf
<1>7. ASSUME ~Mentions(p, c), Head(q).chan # c PROVE ~Mentions(q, c)
  <2>1. \A j \in 1 .. Len(q) : j = 1 \/ 1 < j
    BY <1>1
  <2> QED
    BY <1>1, <1>4, <1>7, <2>1 DEF Mentions
<1> QED
  BY <1>3, <1>6, <1>7 DEF p

\* The daemon's steps.
LEMMA ForetoldDaemon ==
    ASSUME ~RedisMayFail, ~OpensSilently, Log!IInv, Log!Begun, Log!JoinedInv,
           Delivery, Listening, Foretold, Daemon!Next, UNCHANGED webVars
    PROVE  Foretold'
<1> SUFFICES ASSUME NEW c \in Chan, ~Log!Unsettled(c)'
             PROVE  /\ \A id : LastOf(i2h', c, id) => Log!Records(c, id)'
                    /\ Mentions(i2h', c) \/ Cached(c)'
  BY DEF Foretold
<1>1. \/ /\ ~Log!Unsettled(c) /\ \A v : Log!Records(c, v) => Log!Records(c, v)'
         /\ i2h' = i2h \/ \E n \in Log!Note : n.chan # c /\ Log!Publishes(n)
      \/ \E n \in Log!Note : n.chan = c /\ Log!Records(c, n.id)' /\ Log!Publishes(n)
  BY SameDaemon, Assumed, Log!Bookkeeping DEF Log!ChannelLogAssumption
<1>2. i2h \in Seq(Log!Note)
  BY DEF Log!IInv, Log!TypeOK
<1>3. ASSUME \A v : Log!Records(c, v) => Log!Records(c, v)', Cached(c) PROVE Cached(c)'
  BY <1>3 DEF webVars, Cached
<1>4. CASE /\ ~Log!Unsettled(c) /\ \A v : Log!Records(c, v) => Log!Records(c, v)'
           /\ i2h' = i2h
  BY <1>3, <1>4 DEF Foretold
<1>5. ASSUME ~Log!Unsettled(c), \A v : Log!Records(c, v) => Log!Records(c, v)',
             NEW n \in Log!Note, n.chan # c, Log!Publishes(n)
      PROVE  /\ \A id : LastOf(i2h', c, id) => Log!Records(c, id)'
             /\ Mentions(i2h', c) \/ Cached(c)'
  <2>1. CASE i2h' = i2h
    BY <1>4, <1>5, <2>1
  <2>2. CASE i2h' = Append(i2h, n)
    <3>1. /\ \A id : LastOf(i2h', c, id) => LastOf(i2h, c, id)
          /\ Mentions(i2h, c) => Mentions(i2h', c)
      BY <1>2, <1>5, <2>2, Longer
    <3> QED
      BY <1>3, <1>5, <3>1 DEF Foretold
  <2> QED
    BY <1>5, <2>1, <2>2 DEF Log!Publishes
<1>6. ASSUME NEW n \in Log!Note, n.chan = c, Log!Records(c, n.id)', Log!Publishes(n)
      PROVE  /\ \A id : LastOf(i2h', c, id) => Log!Records(c, id)'
             /\ Mentions(i2h', c) \/ Cached(c)'
  <2>1. CASE subscribed
    <3>1. /\ \A id : LastOf(i2h', c, id) => id = n.id
          /\ Mentions(i2h', c)
      BY SMTT(30), <1>2, <1>6, <2>1, Longer DEF Log!Publishes
    <3> QED
      BY <1>6, <3>1
  <2>2. CASE ~subscribed
    <3>1. i2h' = <<>> /\ ~loaded' /\ lock' = Free
      BY <1>6, <2>2 DEF Log!Publishes, Delivery, Listening, webVars
    <3> QED
      BY <3>1 DEF LastOf, Cached
  <2> QED
    BY <2>1, <2>2
<1> QED
  BY <1>1, <1>4, <1>5, <1>6

\* A step of the web server changes what is cached, not what is on record.
LEMMA SameRecords ==
    ASSUME UNCHANGED <<log, daemonVars>>, NEW c \in Chan
    PROVE  /\ Log!Unsettled(c)' <=> Log!Unsettled(c)
           /\ \A v : Log!Records(c, v)' <=> Log!Records(c, v)
BY DEF daemonVars, Log!Unsettled, Log!Records, Log!ch

\* Who has the user has what the cache, or the load that is over, says.
LEMMA UsersRecord ==
    ASSUME NEW t \in Thread, HasUser(t), NEW c \in Chan, Cached(c)
    PROVE  Log!Records(c, Value(TheUser(t), c))
BY LogMetadataAssumption DEF HasUser, TheUser, Cached, Thread

\* Only the redis commands of a load put channels into the dictionary, and these
\* take what is on record.
LEMMA CachedStill ==
    ASSUME WaitInv, Listening, Log!Begun, Web, UNCHANGED <<daemonVars, i2h>>,
           ~OnNewLog, ~WebRestart, NEW c \in Chan, Cached(c)
    PROVE  Cached(c)'
<1>1. ASSUME UNCHANGED <<log, loaded, lastChatIDs, lock, left, partial>> PROVE Cached(c)'
  BY <1>1, SameRecords DEF Cached
<1>2. ASSUME NEW t \in Thread, BeginLoad(t) PROVE Cached(c)'
  <2>1. /\ UNCHANGED log /\ ~loaded /\ loaded' = loaded
        /\ partial' = <<>> /\ left' = {d \in Chan : Key(log[d])}
    BY <1>2 DEF BeginLoad, WaitInv
  <2>2. c \notin left' => ~log[c].joined
    BY <2>1 DEF Key
  <2>3. Value(partial, c)' = Nil
    BY <2>1 DEF Value
  <2>4. c \notin left' => Log!Records(c, Value(partial, c))'
    BY <2>1, <2>2, <2>3 DEF Log!Records, Nil, Log!Nil
  <2> QED
    BY <2>1, <2>4 DEF Cached
<1>3. ASSUME NEW d \in Chan, LoadChannel(d) PROVE Cached(c)'
  <2>1. /\ UNCHANGED <<log, loaded, lastChatIDs, lock>> /\ lock # Free /\ ~loaded
        /\ d \in left /\ left' = left \ {d} /\ log[d].end # Nil
        /\ partial' = IF log[d].joined THEN Put(partial, d, log[d].end - 1) ELSE partial
    BY <1>3 DEF LoadChannel, WaitInv
  <2>2. CASE c = d
    <3>1. Value(partial', c) = IF log[c].joined THEN log[c].end - 1 ELSE Nil
      BY <2>1, <2>2 DEF Listening, Value, Put
    <3> QED
      BY <2>1, <2>2, <3>1 DEF Cached, Log!Records, Value, Nil, Log!Nil
  <2>3. CASE c # d
    <3>1. Value(partial', c) = Value(partial, c)
      BY <2>1, <2>3 DEF Value, Put
    <3> QED
      BY <2>1, <2>3, <3>1, SameRecords DEF Cached, Value
  <2> QED
    BY <2>2, <2>3
<1>4. ASSUME NEW d \in Chan, LoadFails(d) PROVE Cached(c)'
  BY <1>4 DEF LoadFails, WaitInv, Cached
<1>5. ASSUME NEW r \in Request, GetLastChatIDs(r) \/ ReturnAtOnce(r) \/ StartWaiting(r)
      PROVE  Cached(c)'
  <2>1. /\ HasUser(r) /\ lastChatIDs' = TheUser(r) /\ lock' = Free /\ UNCHANGED log
    BY <1>5 DEF GetLastChatIDs, ReturnAtOnce, StartWaiting, Unlock
  <2>2. Log!Records(c, Value(lastChatIDs', c))
    BY <2>1, UsersRecord DEF Thread
  <2> QED
    BY <2>1, <2>2 DEF Cached, Value, Log!Records
<1>6. ASSUME NEW r \in Request,
             \/ StopWaiting(r) \/ ReturnAfterWait(r) \/ Respond(r)
             \/ AskInit(r) \/ \E ids \in Dictionary : AskUpdate(r, ids)
      PROVE  Cached(c)'
  BY <1>1, <1>6 DEF StopWaiting, ReturnAfterWait, Respond, AskInit, AskUpdate
<1>7. CASE Subscribe
  BY <1>1, <1>7 DEF Subscribe, webVars
<1> QED
  BY <1>2, <1>3, <1>4, <1>5, <1>6, <1>7 DEF Web, WebStep, Ask

\* The last notification of a channel brings what is on record.
LEMMA CachedByNews ==
    ASSUME Log!IInv, Log!Begun, OnNewLog, UNCHANGED daemonVars, NEW c \in Chan,
           \/ Head(i2h).chan = c /\ Log!Records(c, Head(i2h).id)
           \/ Head(i2h).chan # c /\ Cached(c)
    PROVE  Cached(c)'
<1> DEFINE d == TheUser(Listener)
           n == Head(i2h)
<1>1. /\ UNCHANGED log /\ lock' = Free /\ HasUser(Listener) /\ i2h # <<>>
      /\ lastChatIDs' = IF n.id # Nil THEN Put(d, n.chan, n.id)
                        ELSE IF n.chan \in DOMAIN d /\ d[n.chan] # 0 THEN Pop(d, n.chan) ELSE d
  BY DEF OnNewLog, ChannelClosed, NewLogIDArrived, Unlock
<1>2. Log!Records(c, Value(lastChatIDs', c))
  <2>1. CASE n.chan # c
    <3>1. Value(lastChatIDs', c) = Value(d, c)
      BY <1>1, <2>1 DEF Value, Put, Pop
    <3>2. Log!Records(c, Value(d, c))
      BY <1>1, <2>1, UsersRecord DEF Thread
    <3> QED
      BY <3>1, <3>2
  <2>2. CASE n.chan = c /\ n.id # Nil
    <3>1. Value(lastChatIDs', c) = n.id
      BY <1>1, <2>2 DEF Value, Put
    <3> QED
      BY <2>2, <3>1
  <2>3. CASE n.chan = c /\ n.id = Nil
    <3>1. log[c].end \in Nat \cup {Nil} /\ log[c].end # 0
      BY DaemonAssumption DEF Log!IInv, Log!TypeOK, Log!Hash, Log!Begun, Nil, Log!Nil
    <3>2. ~log[c].joined
      BY <2>3, <3>1 DEF Log!Records, Nil, Log!Nil
    <3>3. Value(lastChatIDs', c) \in {Nil, 0}
      BY <1>1, <2>3 DEF Value, Pop
    <3> QED
      BY <3>2, <3>3 DEF Log!Records, Nil, Log!Nil
  <2> QED
    BY <2>1, <2>2, <2>3
<1> QED
  BY <1>1, <1>2 DEF Cached, Value, Log!Records

LEMMA ForetoldWeb ==
    ASSUME WaitInv, Log!IInv, Log!Begun, Delivery, Listening, Foretold, Web, UNCHANGED daemonVars
    PROVE  Foretold'
<1> SUFFICES ASSUME NEW c \in Chan, ~Log!Unsettled(c)
             PROVE  /\ \A id : LastOf(i2h', c, id) => Log!Records(c, id)
                    /\ Mentions(i2h', c) \/ Cached(c)'
  BY WebOnRedis, SameRecords DEF Foretold
<1>1. i2h \in Seq(Log!Note)
  BY DEF Log!IInv, Log!TypeOK
<1>2. /\ \A id : LastOf(i2h, c, id) => Log!Records(c, id)
      /\ Mentions(i2h, c) \/ Cached(c)
  BY DEF Foretold
<1>3. CASE i2h' = i2h /\ ~OnNewLog /\ ~WebRestart
  BY <1>2, <1>3, CachedStill
<1>4. CASE OnNewLog
  <2>1. i2h # <<>> /\ i2h' = Tail(i2h)
    BY <1>4 DEF OnNewLog
  <2> QED
    BY <1>1, <1>2, <1>4, <2>1, Shorter, CachedByNews
<1>5. CASE WebRestart
  BY <1>5 DEF WebRestart, LastOf, Cached
<1>6. ASSUME NEW d \in Chan, LoadFails(d), lock = Listener
      PROVE  /\ \A id : LastOf(i2h', c, id) => Log!Records(c, id)
             /\ Mentions(i2h', c) \/ Cached(c)'
  <2>1. i2h # <<>> /\ i2h' = Tail(i2h) /\ ~loaded' /\ lock' = Free
    BY <1>6 DEF LoadFails, Delivery, WaitInv
  <2>2. Cached(c)'
    BY <2>1 DEF Cached
  <2> QED
    BY <1>1, <1>2, <2>1, <2>2, Shorter
<1>7. ~OnNewLog /\ ~WebRestart => i2h' = i2h \/ \E d \in Chan : LoadFails(d) /\ lock = Listener
  BY DEF Web, WebStep, Ask, BeginLoad, LoadChannel, LoadFails, GetLastChatIDs, ReturnAtOnce,
         StartWaiting, StopWaiting, ReturnAfterWait, Subscribe, Respond, AskInit, AskUpdate
<1> QED
  BY <1>3, <1>4, <1>5, <1>6, <1>7

LEMMA ListeningNext ==
    ~LoadsUnsubscribed /\ WaitInv /\ Delivery /\ Listening /\ [Next]_vars => Listening'
<1> SUFFICES ASSUME ~LoadsUnsubscribed, WaitInv, Delivery, Listening, [Next]_vars
             PROVE  Listening'
  OBVIOUS
<1>1. CASE UNCHANGED <<subscribed, loaded, lock, left, partial>>
  BY <1>1 DEF Listening
<1>2. CASE Daemon!Next /\ UNCHANGED webVars
  <2>1. UNCHANGED subscribed
    BY <1>2, SameDaemon
    DEF Log!Next, Log!Handler, Log!RedisCommand, Log!Say, Log!Part, Log!Kick,
        Log!PartQuery, Log!OpenOnly, Log!Handle, Log!Reconnect, Log!SetBegin,
        Log!MarkAsJoined, Log!WriteLine, Log!SetEnd, Log!Announce, Log!MarkAsLeft,
        Log!AnnounceClosed, Log!ClearLog, Log!ClearJoined, Log!RedisFails, Log!Unheard, Log!Crash,
        Log!Publish
  <2> QED
    BY <1>1, <1>2, <2>1 DEF webVars
<1>3. ASSUME NEW t \in Thread, BeginLoad(t) PROVE Listening'
  BY <1>3, NoDictionary DEF BeginLoad, Listening
<1>4. ASSUME NEW c \in Chan, LoadChannel(c) PROVE Listening'
  <2>1. /\ UNCHANGED <<subscribed, loaded, lock>> /\ lock # Free /\ left' = left \ {c}
        /\ DOMAIN partial' \subseteq DOMAIN partial \cup {c}
    BY <1>4 DEF LoadChannel, Put
  <2> QED
    BY <2>1 DEF Listening
<1>5. ASSUME NEW c \in Chan, LoadFails(c) PROVE Listening'
  BY <1>5 DEF LoadFails, Listening
<1>6. ASSUME NEW t \in Thread, HasUser(t), UNCHANGED subscribed, lock' = Free PROVE Listening'
  <2>1. subscribed
    BY <1>6, LogMetadataAssumption DEF HasUser, Listening, Thread
  <2> QED
    BY <1>6, <2>1 DEF Listening
<1>7. ASSUME NEW r \in Request, GetLastChatIDs(r) \/ ReturnAtOnce(r) \/ StartWaiting(r)
      PROVE  Listening'
  <2>1. HasUser(r) /\ UNCHANGED subscribed /\ lock' = Free
    BY <1>7 DEF GetLastChatIDs, ReturnAtOnce, StartWaiting, Unlock
  <2> QED
    BY <1>6, <2>1 DEF Thread
<1>8. CASE OnNewLog
  <2>1. HasUser(Listener) /\ UNCHANGED subscribed /\ lock' = Free
    BY <1>8 DEF OnNewLog, ChannelClosed, NewLogIDArrived, Unlock
  <2> QED
    BY <1>6, <2>1 DEF Thread
<1>9. ASSUME NEW r \in Request,
             \/ StopWaiting(r) \/ ReturnAfterWait(r) \/ Respond(r)
             \/ AskInit(r) \/ \E ids \in Dictionary : AskUpdate(r, ids)
      PROVE  Listening'
  BY <1>1, <1>9 DEF StopWaiting, ReturnAfterWait, Respond, AskInit, AskUpdate
<1>10. CASE Subscribe \/ WebRestart
  BY <1>10 DEF Subscribe, WebRestart, webVars, Listening
<1>11. CASE UNCHANGED vars
  BY <1>1, <1>11 DEF vars, webVars
<1> QED
  BY <1>2, <1>3, <1>4, <1>5, <1>7, <1>8, <1>9, <1>10, <1>11 DEF Next, Web, WebStep, Ask

\* Nothing is under way: every channel is settled, and the cache has it.
LEMMA QuietIsCoherent ==
    ASSUME Caches, Log!IInv, Log!Begun, Foretold PROVE CoherentButFirstLine
<1> SUFFICES ASSUME Quiet
             PROVE  /\ \A c \in Chan : log[c].joined =>
                          c \in DOMAIN lastChatIDs /\ lastChatIDs[c] = log[c].end - 1
                    /\ \A c \in DOMAIN lastChatIDs : log[c].joined \/ lastChatIDs[c] = 0
  BY DEF CoherentButFirstLine
<1>1. ASSUME NEW c \in Chan PROVE Log!Records(c, Value(lastChatIDs, c))
  <2>1. ~Log!Unsettled(c)
    BY DEF Quiet, Log!Unsettled
  <2>2. ~Mentions(i2h, c)
    BY DEF Quiet, Mentions
  <2> QED
    BY <2>1, <2>2 DEF Quiet, Foretold, Cached
<1>2. ASSUME NEW c \in Chan, log[c].joined
      PROVE  c \in DOMAIN lastChatIDs /\ lastChatIDs[c] = log[c].end - 1
  <2>1. log[c].end \in Nat \cup {Nil} /\ log[c].end # 0
    BY DaemonAssumption DEF Log!IInv, Log!TypeOK, Log!Hash, Log!Begun, Nil, Log!Nil
  <2> QED
    BY <1>1, <1>2, <2>1 DEF Log!Records, Value, Nil, Log!Nil
<1>3. ASSUME NEW c \in DOMAIN lastChatIDs PROVE log[c].joined \/ lastChatIDs[c] = 0
  <2>1. c \in Chan /\ lastChatIDs[c] \in Nat
    BY DEF Caches, IsDictionary
  <2> QED
    BY <1>1, <2>1 DEF Log!Records, Value, Nil, Log!Nil
<1> QED
  BY <1>2, <1>3

\* What is proved of a redis that answers, a channel that is opened by its first line,
\* and a web server that loads users only after it has subscribed.
Tracked == Log!JoinedInv /\ Listening /\ Foretold

LEMMA TrackedInit == Init => Tracked
<1> SUFFICES ASSUME Init PROVE Listening /\ Foretold
  BY DeliveryInit DEF Tracked
<1>1. i2h = <<>> /\ ~loaded /\ lock = Free
  BY SameDaemon DEF Init, WebInit, Log!Init
<1> QED
  BY <1>1 DEF Listening, Foretold, LastOf, Cached

LEMMA TrackedNext ==
    ASSUME ~RedisMayFail, ~OpensSilently, ~LoadsUnsubscribed,
           WaitInv, Log!IInv, Log!Begun, Delivery, Tracked, [Next]_vars
    PROVE  Tracked'
<1>1. Log!JoinedInv'
  BY Simulates, Assumed, Log!JoinedNext
  DEF Log!JoinedNext, Log!ChannelLogAssumption, Tracked
<1>2. Listening'
  BY ListeningNext DEF Tracked
<1>3. Foretold'
  <2>1. CASE Daemon!Next /\ UNCHANGED webVars
    BY <2>1, ForetoldDaemon DEF Tracked
  <2>2. CASE Web /\ UNCHANGED daemonVars
    BY <2>2, ForetoldWeb DEF Tracked
  <2>3. CASE UNCHANGED vars
    BY <2>3 DEF vars, webVars, daemonVars, Tracked, Foretold, Mentions, LastOf, Cached,
                Value, Log!Unsettled, Log!Records, Log!ch
  <2> QED
    BY <2>1, <2>2, <2>3 DEF Next
<1> QED
  BY <1>1, <1>2, <1>3 DEF Tracked

\* When nothing is under way, the cache says of every joined channel what redis says, and
\* keeps of the others at most those that were closed at their first line: whatever was
\* loaded between two commands of the daemon is put right by a notification still to come.
THEOREM CoherentAlways ==
    ASSUME ~RedisMayFail, ~OpensSilently, ~LoadsUnsubscribed
    PROVE  Spec => []CoherentButFirstLine
<1>1. WaitInv /\ Log!IInv /\ Log!Begun /\ Delivery /\ Tracked /\ [Next]_vars => Tracked'
  BY TrackedNext
<1>2. Caches /\ Log!IInv /\ Log!Begun /\ Tracked => CoherentButFirstLine
  BY QuietIsCoherent DEF Tracked
<1> QED
  BY <1>1, <1>2, TrackedInit, DeliveryAlways, WaitInductive, CachesAlways, PTL DEF Spec
==============================================================================
