-------------------------------- MODULE Page --------------------------------
(***************************************************************************)
(* A page and its requests: the polling loop, pull-to-refresh and the tabs *)
(* of static/sencha and static/mvc, against a server that answers from the *)
(* logs in one step.  (How daemon and web server come to an answer, and    *)
(* what it may look like when they are interrupted, is LongPolling's       *)
(* subject; there is one page there, without tabs and old lines.)          *)
(*                                                                         *)
(* Callbacks run one at a time.  One LOG_INIT or LOG_UPDATE is under way,  *)
(* and as many LOG_OLD as the user has pulled; they overtake each other.   *)
(***************************************************************************)
EXTENDS Screen, LogReader

CONSTANTS
    Chan,
    MaxLines,    \* bound: the lines that are ever written
    MaxPulls     \* bound: LOG_OLD requests under way

ASSUME PageAssumption ==
    /\ IsFiniteSet(Chan)
    /\ {NoTab, Gone} \cap Chan = {} /\ NoTab # Gone
    /\ {MaxLines, MaxPulls} \subseteq Nat

VARIABLES
    log,         \* redis: log[c], with `joined', as the daemon leaves it
    mvc,         \* is it the mvc page?  (never changes)
    screen,
    loop,        \* "init", "poll", "deaf" (mvc, without a callback), "stopped"
    poll,        \* the loop's request and its answer
    pulls,       \* the LOG_OLD requests and their answers
    written,     \* bound: how many lines have been written
    cleared      \* history: has a log been thrown away since the page was loaded?

vars == <<log, mvc, screen, loop, poll, pulls, cleared, written>>

----------------------------------------------------------------------------
(* The logs.                                                               *)

NoLog == [begin |-> Nil, end |-> Nil, joined |-> FALSE, lines |-> <<>>]

EndOf(h) == IF h.end = Nil THEN 0 ELSE h.end

TopicLines(h) == {i \in DOMAIN h.lines : h.lines[i] = "topic"}

\* The hash's topic, set by the last topic line.
Topic(h) == IF TopicLines(h) = {} THEN Nil ELSE Max(TopicLines(h))

\* A line is written, and the channel opened if need be.
AppendLog(c, kind) ==
    LET h == log[c] IN
    /\ written < MaxLines
    /\ written' = written + 1
    /\ log' = [log EXCEPT ![c] = [begin |-> 0, end |-> EndOf(h) + 1, joined |-> TRUE,
                                  lines |-> Put(h.lines, EndOf(h), kind)]]
    /\ UNCHANGED <<mvc, screen, loop, poll, pulls, cleared>>

\* The daemon closes the channel: a kick or a restart (of all channels) keeps the
\* log, a part throws it away.
Leave(c, keep) ==
    /\ log[c].joined
    /\ log' = [log EXCEPT ![c] = IF keep THEN [@ EXCEPT !.joined = FALSE] ELSE NoLog]
    /\ cleared' = (cleared \/ ~keep)
    /\ UNCHANGED <<mvc, screen, loop, poll, pulls, written>>

Daemon ==
    \E c \in Chan :
        (\E kind \in {"say", "topic"} : AppendLog(c, kind)) \/ (\E keep \in BOOLEAN : Leave(c, keep))

----------------------------------------------------------------------------
(* The server.                                                             *)

Joined == {c \in Chan : log[c].joined}

NoRequest == [at |-> "none", asked |-> <<>>, body |-> <<>>]
Request(asked) == [at |-> "server", asked |-> asked, body |-> <<>>]

AnswerWith(channels) == poll' = [poll EXCEPT !.at = "answered", !.body = channels]

Known == [c \in Joined |-> log[c].end - 1]

\* The channel in an answer; only LOG_INIT's names the topic.
Entry(c) ==
    [name |-> c,
     topic |-> IF loop = "init" THEN Topic(log[c]) ELSE Nil,
     log |-> GetLog(log[c], IF c \in DOMAIN poll.asked
                            THEN IdsAfter(log[c], poll.asked[c] + 1) ELSE RecentIds(log[c]))]

Unchanged(c) == [name |-> c, topic |-> Nil, log |-> <<>>]

\* The channels of the answer, in the order of a dictionary; `no change' has those
\* of the request.
Answer ==
    /\ poll.at = "server"
    /\ \/ /\ loop = "init" \/ poll.asked # Known
          /\ \E cs \in SetToSeqs(Joined) : AnswerWith([i \in DOMAIN cs |-> Entry(cs[i])])
       \/ /\ loop # "init" /\ poll.asked = Known
          /\ \E cs \in SetToSeqs(Joined) : AnswerWith([i \in DOMAIN cs |-> Unchanged(cs[i])])
    /\ UNCHANGED <<log, mvc, screen, loop, pulls, cleared, written>>

AnswerOld(i) ==
    LET c == pulls[i].chan IN
    /\ pulls[i].at = "server"
    /\ pulls' = [pulls EXCEPT ![i].at = "answered",
                              ![i].lines = GetLog(log[c], IdsBefore(log[c], pulls[i].lastid))]
    /\ UNCHANGED <<log, mvc, screen, loop, poll, cleared, written>>

----------------------------------------------------------------------------
(* The polling loop.                                                       *)

Stop == loop' = "stopped" /\ poll' = NoRequest

\* PollingLogUpdate / connection.polling: the answer is applied, tabs are closed
\* by sencha, and the next request is sent, unless a callback throws.
OnAnswer ==
    LET applied == ApplyLogUpdate(screen, poll.body) IN
    /\ loop \in {"init", "poll"} /\ poll.at = "answered"
    /\ IF applied.thrown THEN screen' = [applied EXCEPT !.thrown = FALSE] /\ Stop
       ELSE /\ screen' = IF mvc THEN applied ELSE CloseChannel(applied, poll.body)
            /\ loop' = "poll"
            /\ poll' = Request(LastIDs(screen'))
    /\ UNCHANGED <<log, mvc, pulls, cleared, written>>

\* There is no updateCallback to call.
OnAnswerDeaf ==
    /\ loop = "deaf" /\ poll.at = "answered"
    /\ Stop
    /\ UNCHANGED <<log, mvc, screen, pulls, cleared, written>>

\* A server error is final: an exception on the way to the answer (500).
OnServerError ==
    /\ poll.at = "server"
    /\ Stop
    /\ UNCHANGED <<log, mvc, screen, pulls, cleared, written>>

\* The request or its answer is lost, or comes too late to be heard: LOG_UPDATE is
\* sent anew, by mvc without its callback.
OnNetworkError ==
    /\ poll.at # "none"
    /\ IF loop = "init" THEN Stop
       ELSE loop' = (IF mvc THEN "deaf" ELSE "poll") /\ poll' = Request(LastIDs(screen))
    /\ UNCHANGED <<log, mvc, screen, pulls, cleared, written>>

----------------------------------------------------------------------------
(* Old lines.                                                              *)

\* The active list is pulled down: its plug-in asks for lines before the oldest
\* one, 0 if there is none, and is ready for the next pull at once.
Pull ==
    /\ HasCurrent(screen) /\ Len(pulls) < MaxPulls
    /\ pulls' = Append(pulls, [at |-> "server", chan |-> screen.active, lines |-> <<>>,
                               lastid |-> LET id == screen.info[screen.active].oldest
                                          IN  IF id = Nil THEN 0 ELSE id])
    /\ UNCHANGED <<log, mvc, screen, loop, poll, cleared, written>>

OnOldAnswer(i) ==
    /\ pulls[i].at = "answered"
    /\ pulls' = RemoveAt(pulls, i)
    /\ screen' = [ShowOldLog(screen, [name |-> pulls[i].chan, log |-> pulls[i].lines], mvc)
                      EXCEPT !.thrown = FALSE]
    /\ UNCHANGED <<log, mvc, loop, poll, cleared, written>>

\* Any failure: the user is told, and nothing else happens.
OnOldError(i) ==
    /\ pulls' = RemoveAt(pulls, i)
    /\ UNCHANGED <<log, mvc, screen, loop, poll, cleared, written>>

----------------------------------------------------------------------------
(* The user.                                                               *)

\* The carousel is swiped.
Turn(c) ==
    /\ HasCurrent(screen) /\ c \in Tabs(screen) \ {screen.active}
    /\ screen' = [screen EXCEPT !.active = c]
    /\ UNCHANGED <<log, mvc, loop, poll, pulls, cleared, written>>

\* The page is loaded anew, and asks for LOG_INIT.
Loaded ==
    /\ screen' = Blank /\ loop' = "init" /\ poll' = Request(<<>>) /\ pulls' = <<>>
    /\ cleared' = FALSE

Reload == Loaded /\ UNCHANGED <<log, mvc, written>>

Init ==
    /\ log = [c \in Chan |-> NoLog] /\ mvc \in BOOLEAN
    /\ screen = Blank /\ loop = "init" /\ poll = Request(<<>>) /\ pulls = <<>>
    /\ cleared = FALSE /\ written = 0

Loop == OnAnswer \/ OnAnswerDeaf \/ OnServerError \/ OnNetworkError

Next ==
    \/ Daemon \/ Answer \/ Loop
    \/ Pull \/ (\E i \in DOMAIN pulls : AnswerOld(i) \/ OnOldAnswer(i) \/ OnOldError(i))
    \/ (\E c \in Chan : Turn(c)) \/ Reload

Spec == Init /\ [][Next]_vars

----------------------------------------------------------------------------
(* Properties.                                                             *)

Shown == Tabs(screen)

\* The types, and that dictionary, stores and tabs name the same channels once.
TypeOK ==
    /\ loop \in {"init", "poll", "deaf", "stopped"}
    /\ poll.at \in {"none", "server", "answered"} /\ DOMAIN poll.asked \subseteq Chan
    /\ Shown \subseteq Chan /\ IsInjective(screen.tabs)
    /\ DOMAIN screen.info = Shown /\ DOMAIN screen.store = Shown
    /\ \A c \in Shown : screen.store[c] \in Seq(0 .. MaxLines - 1)
    /\ screen.active \in Chan \cup {NoTab, Gone} /\ ~screen.thrown
    /\ Len(pulls) <= MaxPulls

\* What the user types goes to a tab: the active item of a polling page with tabs
\* is one of them, whatever tabs are closed, opened and turned to.
ActiveIsTab == loop = "poll" /\ Shown # {} => HasCurrent(screen)

\* The lines of a channel are in order and without a gap on the mvc page, however
\* pulls and polls overtake each other; doubled ones there may be.
WindowOfLog ==
    mvc /\ ~cleared =>
        \A c \in Shown :
            LET lines == screen.store[c] IN
            \A k \in 1 .. Len(lines) - 1 : lines[k + 1] - lines[k] \in {0, 1}

Doubles(s, c) == Len(s.store[c]) - Cardinality(Range(s.store[c]))

\* As long as the page polls, an answer doubles at most one line, even one that was
\* asked for twice, comes late, or speaks of a log that has been thrown away.  (A
\* page that an exception has stopped does not know its oldest line any more.)
DoublesOne ==
    [][loop # "stopped" =>
          \A c \in DOMAIN screen.store \cap DOMAIN screen'.store :
              Doubles(screen', c) <= Doubles(screen, c) + 1]_vars

\* The topic that the mvc page shows is never replaced by an older one.
TopicsAdvance ==
    [][mvc /\ ~cleared =>
          \A c \in DOMAIN screen.info \cap DOMAIN screen'.info :
              screen'.info[c].topic >= screen.info[c].topic]_vars

AnswerStops == loop = "poll" /\ poll.at = "answered" /\ loop' = "stopped"

\* Applying an answer ends the polling only on a page that has lost all its tabs:
\* there GetCurrentChannelInfo has nothing to give to the topic line of a new one.
StopsOnlyTabless == [][AnswerStops => screen.active = Gone]_vars
============================================================================
