---------------------------- MODULE LogMetadata ----------------------------
(***************************************************************************)
(* webserver/LogMetadata.py: the web server's cache of the last log id of  *)
(* every joined channel, the requests that wait for a change of it, and    *)
(* the thread that keeps it up to date from the i2h notifications.         *)
(*                                                                         *)
(* Everything here runs under one lock.  What a thread does while it holds *)
(* the lock is one step, but for the load of a User: that holds the lock   *)
(* over several redis commands, between which the daemon writes on.        *)
(* One user is modelled: different users share nothing but the lock.       *)
(***************************************************************************)
EXTENDS Dict, Sequences

CONSTANTS
    Chan,
    Request,              \* the threads that serve LOG_INIT and LOG_UPDATE
    Listener,             \* NotificationListeningThread
    Free,                 \* nobody holds the lock
    LoadsUnsubscribed     \* may a user be loaded before SUBSCRIBE is through?

ASSUME LogMetadataAssumption ==
    /\ Listener \notin Request
    /\ Free \notin Request \cup {Listener}
    /\ LoadsUnsubscribed \in BOOLEAN

VARIABLES
    log, i2h, subscribed, \* redis, see ChannelLog
    loaded,               \* does _users hold a User?
    lastChatIDs,          \* its _lastChatIDs: a dictionary over some channels
    lock,                 \* the thread that is loading the user, or Free
    left,                 \* keys the load has still to read
    partial,              \* the dictionary of the User being constructed
    waitingEvents,        \* the requests whose event is in _waitingEvents
    isSet,                \* the requests whose event is set
    at,                   \* at[r]: where request r is
    asked,                \* asked[r]: the requestedChatIDs of r
    answer                \* answer[r]: the dictionary r has been given

webVars == <<loaded, lastChatIDs, lock, left, partial, waitingEvents, isSet,
             at, asked, answer>>

Thread == Request \cup {Listener}

Key(h) == h.begin # Nil \/ h.end # Nil \/ h.joined \/ h.lines # <<>>

----------------------------------------------------------------------------
(* getUser: the first thread to ask for the user loads it.                 *)

Wants(t) == IF t = Listener THEN i2h # <<>> ELSE at[t] \in {"init", "check"}

\* The lock is taken and the user's keys are listed.
BeginLoad(t) ==
    /\ Wants(t)
    /\ subscribed \/ LoadsUnsubscribed
    /\ lock = Free /\ ~loaded
    /\ lock' = t
    /\ left' = {c \in Chan : Key(log[c])}
    /\ partial' = <<>>
    /\ UNCHANGED <<log, i2h, subscribed, loaded, lastChatIDs, waitingEvents,
                   isSet, at, asked, answer>>

\* Mutant: `end' taken for the last id.
LoadChannelEnd(c) ==
    /\ lock # Free
    /\ c \in left
    /\ log[c].end # Nil
    /\ left' = left \ {c}
    /\ partial' = IF log[c].joined THEN Put(partial, c, log[c].end) ELSE partial
    /\ UNCHANGED <<log, i2h, subscribed, loaded, lastChatIDs, lock,
                   waitingEvents, isSet, at, asked, answer>>

\* One channel's end and joined fields.
LoadChannel(c) ==
    /\ lock # Free
    /\ c \in left
    /\ log[c].end # Nil
    /\ left' = left \ {c}
    /\ partial' = IF log[c].joined THEN Put(partial, c, log[c].end - 1)
                                   ELSE partial
    /\ UNCHANGED <<log, i2h, subscribed, loaded, lastChatIDs, lock,
                   waitingEvents, isSet, at, asked, answer>>

\* No end: int(None) raises.  The request fails, or the notification is lost.
LoadFails(c) ==
    /\ lock # Free
    /\ c \in left
    /\ log[c].end = Nil
    /\ lock' = Free
    /\ left' = {}
    /\ partial' = <<>>
    /\ IF lock = Listener
       THEN i2h' = Tail(i2h) /\ at' = at
       ELSE i2h' = i2h /\ at' = [at EXCEPT ![lock] = "failed"]
    /\ UNCHANGED <<log, subscribed, loaded, lastChatIDs, waitingEvents, isSet,
                   asked, answer>>

\* Thread t has come out of getUser, and still holds the lock.
HasUser(t) == \/ lock = t /\ left = {}
              \/ lock = Free /\ loaded

TheUser(t) == IF lock = t THEN partial ELSE lastChatIDs

\* t leaves the locked section; the user's dictionary is d now.
Unlock(d) ==
    /\ loaded' = TRUE
    /\ lastChatIDs' = d
    /\ lock' = Free
    /\ partial' = <<>>

----------------------------------------------------------------------------
(* Requests.                                                               *)

AskInit(r) ==
    /\ at[r] = "idle"
    /\ at' = [at EXCEPT ![r] = "init"]
    /\ UNCHANGED <<log, i2h, subscribed, loaded, lastChatIDs, lock, left,
                   partial, waitingEvents, isSet, asked, answer>>

AskUpdate(r, ids) ==
    /\ at[r] = "idle"
    /\ at' = [at EXCEPT ![r] = "check"]
    /\ asked' = [asked EXCEPT ![r] = ids]
    /\ UNCHANGED <<log, i2h, subscribed, loaded, lastChatIDs, lock, left,
                   partial, waitingEvents, isSet, answer>>

\* Hand r a copy of the dictionary.
Give(r, d) ==
    /\ at' = [at EXCEPT ![r] = "changed"]
    /\ answer' = [answer EXCEPT ![r] = d]

\* getLastChatIDs.
GetLastChatIDs(r) ==
    /\ at[r] = "init"
    /\ HasUser(r)
    /\ Unlock(TheUser(r))
    /\ Give(r, TheUser(r))
    /\ UNCHANGED <<log, i2h, subscribed, left, waitingEvents, isSet, asked>>

\* waitForChange: newerLogExists, so it returns at once.
ReturnAtOnce(r) ==
    /\ at[r] = "check"
    /\ HasUser(r)
    /\ asked[r] # TheUser(r)
    /\ Unlock(TheUser(r))
    /\ Give(r, TheUser(r))
    /\ UNCHANGED <<log, i2h, subscribed, left, waitingEvents, isSet, asked>>

\* Nothing is newer: a fresh event joins _waitingEvents.
StartWaiting(r) ==
    /\ at[r] = "check"
    /\ HasUser(r)
    /\ asked[r] = TheUser(r)
    /\ Unlock(TheUser(r))
    /\ waitingEvents' = waitingEvents \cup {r}
    /\ at' = [at EXCEPT ![r] = "wait"]
    /\ UNCHANGED <<log, i2h, subscribed, left, isSet, asked, answer>>

\* doneEvent.wait( 25 ) returns: the event is set, or the time is over.
StopWaiting(r) ==
    /\ at[r] = "wait"
    /\ at' = [at EXCEPT ![r] = "wake"]
    /\ UNCHANGED <<log, i2h, subscribed, loaded, lastChatIDs, lock, left,
                   partial, waitingEvents, isSet, asked, answer>>

\* Mutant: the event is only removed when it is set.
ReturnAfterWaitLeaving(r) ==
    /\ at[r] = "wake"
    /\ HasUser(r)
    /\ IF r \in isSet
       THEN /\ Give(r, lastChatIDs)
            /\ waitingEvents' = waitingEvents \ {r} /\ isSet' = isSet \ {r}
       ELSE /\ at' = [at EXCEPT ![r] = "nochange"]
            /\ UNCHANGED <<answer, waitingEvents, isSet>>
    /\ UNCHANGED <<log, i2h, subscribed, loaded, lastChatIDs, lock, left,
                   partial, asked>>

\* The second locked section of waitForChange.
ReturnAfterWait(r) ==
    /\ at[r] = "wake"
    /\ HasUser(r)
    /\ waitingEvents' = waitingEvents \ {r}
    /\ isSet' = isSet \ {r}
    /\ IF r \in isSet THEN Give(r, lastChatIDs)
       ELSE at' = [at EXCEPT ![r] = "nochange"] /\ UNCHANGED answer
    /\ UNCHANGED <<log, i2h, subscribed, loaded, lastChatIDs, lock, left,
                   partial, asked>>

----------------------------------------------------------------------------
(* The notification thread.                                                *)

\* Mutant: nobody is woken.
NewLogIDArrivedSilently(c, id) ==
    /\ Unlock(Put(TheUser(Listener), c, id))
    /\ UNCHANGED isSet

\* newLogIDArrived: the id is taken as it comes, and everybody is woken.
NewLogIDArrived(c, id) ==
    /\ Unlock(Put(TheUser(Listener), c, id))
    /\ isSet' = isSet \cup waitingEvents

\* Mutant: nobody is woken.
ChannelClosedSilently(c) ==
    LET d == TheUser(Listener)
    IN  Unlock(IF c \in DOMAIN d /\ d[c] # 0 THEN Pop(d, c) ELSE d) /\ UNCHANGED isSet

\* channelClosed: `if self._lastChatIDs.get( k )' passes over an id of 0.
ChannelClosed(c) ==
    LET d == TheUser(Listener)
    IN  IF c \in DOMAIN d /\ d[c] # 0
        THEN /\ Unlock(Pop(d, c))
             /\ isSet' = isSet \cup waitingEvents
        ELSE Unlock(d) /\ UNCHANGED isSet

\* Mutant: the empty id is not told from the others.
OnNewLogBlindly ==
    /\ i2h # <<>>
    /\ HasUser(Listener)
    /\ i2h' = Tail(i2h)
    /\ NewLogIDArrived(Head(i2h).chan, Head(i2h).id)
    /\ UNCHANGED <<log, subscribed, left, waitingEvents, at, asked, answer>>

OnNewLog ==
    /\ i2h # <<>>
    /\ HasUser(Listener)
    /\ i2h' = Tail(i2h)
    /\ IF Head(i2h).id = Nil THEN ChannelClosed(Head(i2h).chan)
       ELSE NewLogIDArrived(Head(i2h).chan, Head(i2h).id)
    /\ UNCHANGED <<log, subscribed, left, waitingEvents, at, asked, answer>>

\* startNotificationListening only starts the thread that will subscribe.
Subscribe ==
    /\ ~subscribed
    /\ subscribed' = TRUE
    /\ UNCHANGED <<log, i2h, webVars>>

----------------------------------------------------------------------------
(* The web server stops, and its memory is gone; a new one starts.         *)

WebInit ==
    /\ loaded = FALSE
    /\ lastChatIDs = <<>>
    /\ lock = Free
    /\ left = {}
    /\ partial = <<>>
    /\ waitingEvents = {}
    /\ isSet = {}
    /\ at = [r \in Request |-> "idle"]
    /\ asked = [r \in Request |-> <<>>]
    /\ answer = [r \in Request |-> <<>>]

WebRestart ==
    /\ subscribed' = FALSE
    /\ i2h' = <<>>
    /\ loaded' = FALSE
    /\ lastChatIDs' = <<>>
    /\ lock' = Free
    /\ left' = {}
    /\ partial' = <<>>
    /\ waitingEvents' = {}
    /\ isSet' = {}
    /\ at' = [r \in Request |-> "idle"]
    /\ asked' = [r \in Request |-> <<>>]
    /\ answer' = [r \in Request |-> <<>>]
    /\ UNCHANGED log

\* The steps the web server takes by itself once a request is there.
WebStep ==
    \/ \E t \in Thread : BeginLoad(t)
    \/ \E c \in Chan : LoadChannel(c) \/ LoadFails(c)
    \/ \E r \in Request :
          \/ GetLastChatIDs(r) \/ ReturnAtOnce(r) \/ StartWaiting(r)
          \/ StopWaiting(r) \/ ReturnAfterWait(r)
    \/ OnNewLog
    \/ Subscribe
============================================================================
