---------------------------- MODULE LongPolling ----------------------------
(***************************************************************************)
(* The whole path of a line: the daemon that writes it (ChannelLog), the   *)
(* web server's cache that hears of it (LogMetadata), the request that     *)
(* reads it (LogRequest) and the page that shows it (Browser).  A browser  *)
(* r has one request under way, served by a thread of the same name.       *)
(***************************************************************************)
EXTENDS LogRequest

CONSTANTS Line, RedisMayFail, ClearsUnheard, OpensSilently, MaxEnd, MaxQueue,
    Mvc, Network       \* Network: "reliable" or "lossy"

ASSUME LongPollingAssumption ==
    /\ Mvc \in BOOLEAN
    /\ Network \in {"reliable", "lossy"}

VARIABLES logEndID, job, pc, stale, page, shown

Daemon == INSTANCE ChannelLog
Page   == INSTANCE Browser

\* What ChannelLog takes for granted, see ChannelLogAssumption.
ASSUME DaemonAssumption ==
    /\ Chan # {}
    /\ Daemon!NoLine \notin Line
    /\ RedisMayFail \in BOOLEAN /\ ClearsUnheard \in BOOLEAN /\ OpensSilently \in BOOLEAN
    /\ {MaxEnd, MaxQueue} \subseteq Nat

daemonVars  == <<logEndID, job, pc, stale>>
browserVars == <<page, shown>>
vars == <<log, i2h, subscribed, daemonVars, webVars, requestVars, browserVars>>

Init ==
    /\ Daemon!Init /\ ~subscribed /\ WebInit
    /\ window = [r \in Request |-> <<>>]
    /\ reply = [r \in Request |-> <<>>]
    /\ page = [r \in Request |-> "closed"]
    /\ shown = [r \in Request |-> <<>>]

----------------------------------------------------------------------------
(* The network between page and web server.                                *)

\* The page's request arrives.
Arrive(r) ==
    /\ \/ page[r] = "init" /\ AskInit(r)
       \/ page[r] \in {"poll", "deaf"} /\ AskUpdate(r, Page!LastIDs(r))
    /\ UNCHANGED <<requestVars, browserVars>>

\* The response arrives.
Receive(r) ==
    /\ \/ HasBody(r) /\ (Page!OnSuccess(r, Body(r)) \/ Page!OnSuccessDeaf(r))
       \/ Broken(r) /\ Page!OnServerError(r)
    /\ Finish(r)

\* The request or the response is lost.
Lose(r) ==
    /\ Network = "lossy"
    /\ Page!OnNetworkError({r})
    /\ \/ at[r] = "idle" /\ UNCHANGED <<log, i2h, subscribed, webVars, requestVars>>
       \/ (HasBody(r) \/ Broken(r)) /\ Finish(r)

User(r) ==
    /\ at[r] = "idle"
    /\ Page!Open(r) \/ Page!Reload(r)
    /\ UNCHANGED <<log, i2h, subscribed, webVars, requestVars>>

----------------------------------------------------------------------------
Reads(r) ==
    \E c \in Chan : ReadBounds(r, c) \/ ReadLines(r, c)

Fails(r) ==
    \/ ReadFails(r)
    \/ page[r] \in {"init", "poll", "deaf"} /\ Refuse(r)

\* The web server restarts, and its connections are gone.
Restart ==
    /\ WebRestart
    /\ window' = [r \in Request |-> <<>>]
    /\ reply' = [r \in Request |-> <<>>]
    /\ Page!OnNetworkError({r \in Request : at[r] # "idle"})

Web ==
    \/ WebStep /\ UNCHANGED <<requestVars, browserVars>>
    \/ \E r \in Request :
          \/ Reads(r) /\ UNCHANGED browserVars
          \/ RedisMayFail /\ Fails(r) /\ UNCHANGED browserVars
          \/ Arrive(r) \/ Receive(r) \/ Lose(r) \/ User(r)

\* A restart of the web server loses notifications: only where redis may fail.
Next ==
    \/ Daemon!Next /\ UNCHANGED <<webVars, requestVars, browserVars>>
    \/ (Web \/ (RedisMayFail /\ Restart)) /\ UNCHANGED daemonVars

Spec == Init /\ [][Next]_vars

----------------------------------------------------------------------------
(* Fairness: threads that can run do run, redis answers, and the network   *)
(* does not lose everything for ever.                                      *)

Untouched == UNCHANGED <<daemonVars, requestVars, browserVars>>

Serve(r) ==
    \/ /\ \/ BeginLoad(r)
          \/ GetLastChatIDs(r) \/ ReturnAtOnce(r) \/ StartWaiting(r)
          \/ StopWaiting(r) \/ ReturnAfterWait(r)
       /\ Untouched
    \/ Reads(r) /\ UNCHANGED <<daemonVars, browserVars>>

Load   == (\E c \in Chan : LoadChannel(c) \/ LoadFails(c)) /\ Untouched
Listen == (Subscribe \/ BeginLoad(Listener) \/ OnNewLog) /\ Untouched
Write  == Daemon!RedisCommand /\ UNCHANGED <<webVars, requestVars, browserVars>>

Fairness ==
    /\ WF_vars(Write) /\ WF_vars(Load) /\ WF_vars(Listen)
    /\ \A r \in Request : WF_vars(Serve(r)) /\ SF_vars(Receive(r) /\ UNCHANGED daemonVars)
                            /\ SF_vars(Arrive(r) /\ UNCHANGED daemonVars)

FairSpec == Spec /\ Fairness

\* A user whose logs are never thrown away: no channel is parted.
KeptSpec == Init /\ [][Next /\ job'.close # "clear"]_vars

----------------------------------------------------------------------------
(* Properties.                                                             *)

\* The types: windows stay within the log's ids, pages show lines only.
TypeOK ==
    /\ \A r \in Request :
        /\ at[r] \in {"idle", "init", "check", "wait", "wake", "changed",
                      "nochange", "failed", "broken", "refused"}
        /\ page[r] \in {"closed", "init", "poll", "deaf", "stopped"}
        /\ DOMAIN shown[r] \subseteq Chan /\ DOMAIN reply[r] \subseteq Chan
        /\ \A c \in DOMAIN shown[r] : shown[r][c] \in Daemon!LineMap
        /\ \A c \in DOMAIN reply[r] : reply[r][c] \in Daemon!LineMap
        /\ \A c \in DOMAIN window[r] : c \in Chan /\ window[r][c] \subseteq Daemon!Id

\* The lines of a channel on screen have no gap, though each poll reads at most
\* UPDATE_LOG_LINES of them, bounds and lines are read by two commands, and the
\* log may be thrown away and begun anew in between.
NoGap ==
    \A r \in Request : \A c \in DOMAIN shown[r] :
        \A i, j \in DOMAIN shown[r][c] : i .. j \subseteq DOMAIN shown[r][c]

\* As long as a log is not thrown away, the page shows what it says: no line
\* that a restarted daemon wrote over was ever handed out.
ShownIsLogged ==
    \A r \in Request : \A c \in DOMAIN shown[r] : \A i \in DOMAIN shown[r][c] :
        i < log[c].end /\ shown[r][c][i] = log[c].lines[i]

\* A page that is polling only stops when the server reports an error: what the
\* network loses is asked for again.
RetriesSurvive ==
    [][\A r \in Request : (page[r] \in {"poll", "deaf"} /\ page'[r] = "stopped")
                              => Broken(r)]_vars

\* The newest line of a joined channel comes onto every page that goes on polling.
NewestIsShown ==
    \A r \in Request, c \in Chan, i \in 0 .. MaxEnd - 1 :
        (page[r] = "poll" /\ log[c].joined /\ log[c].end = i + 1)
            ~> \/ page[r] # "poll" \/ ~log[c].joined
               \/ c \in DOMAIN shown[r] /\ \E j \in DOMAIN shown[r][c] : i <= j

\* The daemon crashes, or closes a channel at its first line (id 0), which the
\* cache then keeps, see Notification.
ClosesUnheard == stale # {} \/ (pc = "leave" /\ log[job.chan].end = 1)

Silent(r) == pc = "idle" /\ page[r] = "poll"

\* When the daemon falls silent, a page waits for the next change instead of
\* asking again and again, whatever the page has on screen, ...
SettlesAnew ==
    \A r \in Request :
        <>[]Silent(r) => []<>(at[r] = "wait") \/ <>ClosesUnheard

\* ... or at least when no log is thrown away.
Settles ==
    \A r \in Request :
        <>[]Silent(r) => []<>(at[r] = "wait") \/ <>(ClosesUnheard \/ job.close = "clear")

\* Seen from the cache, this is Notification: reading the logs is no step of its
\* own there, a request that fails at it still has its answer, and one that was
\* refused has never come.
Notif == INSTANCE Notification
    WITH at <- [r \in Request |-> CASE at[r] = "broken"  -> "changed"
                                    [] at[r] = "refused" -> "idle"
                                    [] OTHER -> at[r]]

NotificationSpec == Notif!Spec

\* What Notification says of a cache that nothing disturbs, and of the channels that
\* the daemon has open, holds on the whole path.
CoherentButFirstLine == Notif!CoherentButFirstLine
OpenIsJoined == Daemon!OpenIsJoined
============================================================================
