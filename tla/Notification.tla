---------------------------- MODULE Notification ----------------------------
(***************************************************************************)
(* The daemon, redis and the web server's cache together: ChannelLog       *)
(* writes the logs and publishes on i2h, LogMetadata loads and listens.    *)
(* The web server never writes a log, the daemon never reads i2h.          *)
(* Clients ask for any dictionary of ids a log could have handed out.      *)
(***************************************************************************)
EXTENDS LogMetadata

CONSTANTS Line, RedisMayFail, ClearsUnheard, OpensSilently, MaxEnd, MaxQueue

VARIABLES logEndID, job, pc, stale

Daemon == INSTANCE ChannelLog

\* What ChannelLog takes for granted, see ChannelLogAssumption.
ASSUME DaemonAssumption ==
    /\ Chan # {}
    /\ Daemon!NoLine \notin Line
    /\ RedisMayFail \in BOOLEAN /\ ClearsUnheard \in BOOLEAN /\ OpensSilently \in BOOLEAN
    /\ {MaxEnd, MaxQueue} \subseteq Nat

daemonVars == <<logEndID, job, pc, stale>>
vars == <<log, i2h, subscribed, daemonVars, webVars>>

Init == Daemon!Init /\ ~subscribed /\ WebInit

\* What a client may say it knows: a last id for some of the channels.
Dictionary == UNION {[S -> 0 .. MaxEnd - 1] : S \in SUBSET Chan}

Ask == \E r \in Request : AskInit(r) \/ \E ids \in Dictionary : AskUpdate(r, ids)

\* The answer leaves; the thread is free for the next request.
Respond(r) ==
    /\ at[r] \in {"changed", "nochange", "failed"}
    /\ at' = [at EXCEPT ![r] = "idle"]
    /\ asked' = [asked EXCEPT ![r] = <<>>]
    /\ answer' = [answer EXCEPT ![r] = <<>>]
    /\ UNCHANGED <<log, i2h, subscribed, loaded, lastChatIDs, lock, left,
                   partial, waitingEvents, isSet>>

Web == WebStep \/ Ask \/ (\E r \in Request : Respond(r)) \/ WebRestart

Next ==
    \/ Daemon!Next /\ UNCHANGED webVars
    \/ Web /\ UNCHANGED daemonVars

Spec == Init /\ [][Next]_vars

----------------------------------------------------------------------------
IsDictionary(d) ==
    DOMAIN d \subseteq Chan /\ \A c \in DOMAIN d : d[c] \in Nat

\* The types: the cache and the answers are dictionaries of ids, whatever has
\* failed, and every request is at a known place.
TypeOK ==
    /\ loaded \in BOOLEAN
    /\ IsDictionary(lastChatIDs) /\ IsDictionary(partial)
    /\ lock \in Thread \cup {Free}
    /\ left \in SUBSET Chan
    /\ waitingEvents \in SUBSET Request /\ isSet \in SUBSET Request
    /\ at \in [Request -> {"idle", "init", "check", "wait", "wake",
                           "changed", "nochange", "failed"}]
    /\ \A r \in Request : IsDictionary(asked[r]) /\ IsDictionary(answer[r])

\* No wake-up is lost: whoever waits and has not been woken knows exactly what
\* the cache says, however loads, notifications and timeouts interleave.
NoLostWakeup ==
    \A r \in waitingEvents \ isSet : loaded /\ asked[r] = lastChatIDs

\* `no change' is only said to a client when nothing has changed, even by a
\* request that timed out just as a notification arrived.
NoChangeIsTrue ==
    [][\A r \in Request : (at[r] = "wake" /\ at'[r] = "nochange")
                              => asked[r] = lastChatIDs]_vars

\* The event a request removes from _waitingEvents is there (list.remove would
\* raise), and no event stays behind when its request has been answered.
EventsOfWaiters ==
    \A r \in Request : r \in waitingEvents <=> at[r] \in {"wait", "wake"}

Quiet == /\ pc = "idle" /\ stale = {} /\ i2h = <<>> /\ subscribed
         /\ loaded /\ lock = Free

\* When nothing is under way, the cache says what redis says.
Coherent ==
    Quiet => /\ DOMAIN lastChatIDs = {c \in Chan : log[c].joined}
             /\ \A c \in DOMAIN lastChatIDs : lastChatIDs[c] = log[c].end - 1

\* The same but for channels closed at their first line, which the cache keeps.
CoherentButFirstLine ==
    Quiet =>
        /\ \A c \in Chan : log[c].joined =>
              c \in DOMAIN lastChatIDs /\ lastChatIDs[c] = log[c].end - 1
        /\ \A c \in DOMAIN lastChatIDs : log[c].joined \/ lastChatIDs[c] = 0

\* Loading a user never fails.
LoadSucceeds == \A c \in left : lock # Free => log[c].end # Nil
============================================================================
