------------------------------ MODULE Commands ------------------------------
(***************************************************************************)
(* What a user types, on its way to the IRC server, and what keeps the     *)
(* connection to it: the chat box of a page (Say, checkChatBox), the       *)
(* server's CMD and the `update' of every LOG_UPDATE (webserver.py), the   *)
(* redis channel h2i, CommandProcessor's thread and queue, and the main    *)
(* loop of the daemon with ConnectionManager and TimerManager.             *)
(*                                                                         *)
(* One user with one page.  What the connection says and hears is          *)
(* IrcSession's subject, where commands and timers come at any time.       *)
(***************************************************************************)
EXTENDS Naturals, Sequences, FiniteSets, Functions

CONSTANTS
    Slot,        \* bound: the page's CMD requests under way
    MaxTexts,    \* bound: how many texts are typed,
    MaxTries,    \* how often one is entered,
    MaxQueue,    \* how many commands wait,
    MaxTimers,   \* how many reconnects are reserved (more count as MaxTimers),
    MaxCrashes   \* and how often the daemon dies

ASSUME CommandsAssumption ==
    {MaxTexts, MaxTries, MaxQueue, MaxTimers, MaxCrashes} \subseteq Nat /\ MaxTimers > 0

VARIABLES
    mvc,         \* is it the mvc page?  (never changes)
    box,         \* the text in the chat box
    enabled,     \* can it be typed into?
    xhr,         \* the CMD requests: text, at, and does the page wait for it?
    hasServer,   \* redis: are there server settings?
    listening,   \* has the daemon subscribed to h2i?
    cmdQueue,    \* CommandProcessor.cmdQueue
    phase,       \* the main loop: "io", "commands", "timers", "dead"
    client,      \* the IRCUser: "none", "new" (no welcome yet), "up", "closed"
    timers,      \* how many reconnects are in the heap
    said,        \* the texts given to the IRC connection
    typed,       \* history: the last text typed; texts are numbered
    tries,       \* history: how often a text was entered
    published,   \* history: the texts that were published
    acked,       \* history: the texts whose request succeeded
    owed,        \* history: has a client been dropped, and nothing tried since?
    crashes

boxVars == <<box, enabled, typed, tries, acked>>
webVars == <<xhr, published, hasServer>>
daemonVars == <<phase, client, timers, said, owed>>
vars == <<mvc, boxVars, webVars, listening, cmdQueue, daemonVars, crashes>>

Text == 1 .. MaxTexts
Empty == 0
Update == MaxTexts + 1

----------------------------------------------------------------------------
(* The chat box.                                                           *)

Free == [text |-> Empty, at |-> "free", heard |-> FALSE]

\* The user changes what the box says.
Type ==
    /\ enabled /\ typed < MaxTexts
    /\ typed' = typed + 1 /\ box' = typed'
    /\ UNCHANGED <<mvc, enabled, tries, acked, webVars, listening, cmdQueue, daemonVars, crashes>>

Entered == FoldFunction(+, 0, tries)

\* Enter: the request is sent from a free slot.
Send(s) ==
    /\ enabled /\ xhr[s].at = "free"
    /\ xhr' = [xhr EXCEPT ![s] = [text |-> box, at |-> "sent", heard |-> TRUE]]
    /\ IF box = Empty THEN UNCHANGED tries
       ELSE Entered < MaxTries /\ tries' = [tries EXCEPT ![box] = @ + 1]
    /\ UNCHANGED <<mvc, box, typed, acked, published, hasServer, listening, cmdQueue, daemonVars, crashes>>

\* Mutant: the box stays open.
EnterEnabled(s) == Send(s) /\ UNCHANGED enabled

\* Only sencha closes the box meanwhile.
Enter(s) == Send(s) /\ enabled' = mvc

\* The answer: the box is emptied and opened.
OnSuccess(s) ==
    /\ xhr[s].heard /\ xhr[s].at = "done"
    /\ box' = Empty /\ enabled' = TRUE
    /\ acked' = acked \cup {xhr[s].text}
    /\ xhr' = [xhr EXCEPT ![s] = Free]
    /\ UNCHANGED <<mvc, typed, tries, published, hasServer, listening, cmdQueue, daemonVars, crashes>>

\* Mutant: the box stays closed.
OnFailureClosed(s) ==
    /\ xhr[s].heard
    /\ xhr' = [xhr EXCEPT ![s] = Free]
    /\ UNCHANGED <<mvc, boxVars, published, hasServer, listening, cmdQueue, daemonVars, crashes>>

\* A failure: the server's, or the network's at any time, or a time-out, after which
\* the request may still be on its way.  The user is told to send again.
OnFailure(s) ==
    /\ xhr[s].heard
    /\ enabled' = TRUE
    /\ \/ xhr' = [xhr EXCEPT ![s] = Free]
       \/ xhr[s].at = "sent" /\ xhr' = [xhr EXCEPT ![s].heard = FALSE]
    /\ UNCHANGED <<mvc, box, typed, tries, acked, published, hasServer, listening, cmdQueue,
                   daemonVars, crashes>>

----------------------------------------------------------------------------
(* The web server.                                                         *)

\* Mutant: the newest command comes first.
PublishFirst(msg) ==
    /\ Len(cmdQueue) < MaxQueue
    /\ cmdQueue' = IF listening THEN <<msg>> \o cmdQueue ELSE cmdQueue

\* PUBLISH on h2i, which CommandProcessor.run puts into its queue; nothing is said of
\* a message that nobody hears.
Publish(msg) ==
    /\ Len(cmdQueue) < MaxQueue
    /\ cmdQueue' = IF listening THEN Append(cmdQueue, msg) ELSE cmdQueue

Answered(s, outcome) ==
    xhr' = [xhr EXCEPT ![s] = IF @.heard THEN [@ EXCEPT !.at = outcome] ELSE Free]

\* xhrCmd: the text is parsed, which raises if there is none, and published.
Cmd(s) ==
    /\ xhr[s].at = "sent"
    /\ \/ /\ xhr[s].text # Empty
          /\ Publish(xhr[s].text)
          /\ published' = published \cup {xhr[s].text}
          /\ Answered(s, "done")
       \/ Answered(s, "failed") /\ UNCHANGED <<cmdQueue, published>>
    /\ UNCHANGED <<mvc, boxVars, hasServer, listening, daemonVars, crashes>>

\* Mutant: a poll tells the daemon nothing.
PollSilently == UNCHANGED vars

\* xhrLogUpdate, of the page's next poll.
Poll ==
    /\ Publish(Update)
    /\ UNCHANGED <<mvc, boxVars, webVars, listening, daemonVars, crashes>>

\* CONFIG_SET_SERVER.
SetServer ==
    /\ ~hasServer /\ hasServer' = TRUE
    /\ UNCHANGED <<mvc, boxVars, xhr, published, listening, cmdQueue, daemonVars, crashes>>

----------------------------------------------------------------------------
(* The daemon's main loop.                                                 *)

\* ConnectionManager.get finds the user, or connects it.
Get ==
    \/ client # "none" /\ UNCHANGED <<client, owed>>
    \/ client = "none" /\ hasServer /\ client' = "new" /\ owed' = FALSE

NoServer == client = "none" /\ ~hasServer /\ UNCHANGED <<client, owed>>

\* asyncore.loop: the welcome comes, the connection ends, or neither.
Io ==
    /\ phase = "io" /\ phase' = "commands"
    /\ \/ client = "new" /\ client' = "up"
       \/ client \in {"new", "up"} /\ client' = "closed"
       \/ UNCHANGED client
    /\ UNCHANGED <<mvc, boxVars, webVars, listening, cmdQueue, timers, said, owed, crashes>>

\* onUserCommand.  A text goes to the connection, if it is not closed (what is sent
\* before the connection is there waits in its buffer), and then into the log, which
\* raises before the welcome, or when redis fails.
OnUserCommand(msg) ==
    /\ said' = IF msg # Update /\ client' # "closed" THEN Append(said, msg) ELSE said
    /\ phase' \in CASE msg = Update    -> {"commands"}
                    [] client' = "new" -> {"timers"}
                    [] OTHER           -> {"commands", "timers"}

\* Mutant: a command that raised is put back.
ObeyAgain ==
    /\ phase = "commands" /\ cmdQueue # <<>>
    /\ Get /\ OnUserCommand(Head(cmdQueue))
    /\ cmdQueue' = IF phase' = "commands" THEN Tail(cmdQueue) ELSE cmdQueue
    /\ UNCHANGED <<mvc, boxVars, webVars, listening, timers, crashes>>

\* CommandProcessor.update takes a command; the user is connected for it.
Obey ==
    /\ phase = "commands" /\ cmdQueue # <<>>
    /\ Get /\ OnUserCommand(Head(cmdQueue))
    /\ cmdQueue' = Tail(cmdQueue)
    /\ UNCHANGED <<mvc, boxVars, webVars, listening, timers, crashes>>

\* Without settings the command is dropped; if get raises, it is, and the others
\* wait for the next round.
Drop ==
    /\ phase = "commands" /\ cmdQueue # <<>>
    /\ cmdQueue' = Tail(cmdQueue)
    /\ \/ NoServer /\ UNCHANGED phase
       \/ client = "none" /\ phase' = "timers" /\ UNCHANGED <<client, owed>>
    /\ UNCHANGED <<mvc, boxVars, webVars, listening, timers, said, crashes>>

QueueEmpty ==
    /\ phase = "commands" /\ cmdQueue = <<>>
    /\ phase' = "timers"
    /\ UNCHANGED <<mvc, boxVars, webVars, listening, cmdQueue, client, timers, said, owed, crashes>>

Reserved == timers' = IF timers = MaxTimers THEN timers ELSE timers + 1

\* TimerManager.update: those that have expired run, each is a get; what raises is
\* swallowed.
Timers ==
    /\ phase = "timers" /\ phase' = "dead"
    /\ \/ UNCHANGED <<timers, client, owed>>
       \/ /\ timers > 0
          /\ timers' \in 0 .. timers - 1 \cup (IF timers = MaxTimers THEN {timers} ELSE {})
          /\ \/ Get \/ NoServer
             \/ client = "none" /\ UNCHANGED client /\ owed' = FALSE
    /\ UNCHANGED <<mvc, boxVars, webVars, listening, cmdQueue, said, crashes>>

\* Mutant: only for a closed connection a reconnect is reserved.
DropDeadSilent ==
    /\ phase = "dead" /\ phase' = "io"
    /\ \/ client # "closed" /\ UNCHANGED <<client, timers, owed>>
       \/ client # "none" /\ client' = "none" /\ owed' = TRUE
          /\ IF client = "closed" THEN Reserved ELSE UNCHANGED timers
    /\ UNCHANGED <<mvc, boxVars, webVars, listening, cmdQueue, said, crashes>>

\* ConnectionManager.update: a dead client - closed, or silent for ten minutes - is
\* dropped, and a reconnect reserved.
DropDead ==
    /\ phase = "dead" /\ phase' = "io"
    /\ \/ client # "closed" /\ UNCHANGED <<client, timers, owed>>
       \/ client # "none" /\ client' = "none" /\ Reserved /\ owed' = TRUE
    /\ UNCHANGED <<mvc, boxVars, webVars, listening, cmdQueue, said, crashes>>

\* The thread of CommandProcessor; its failure ends the process.
Subscribe ==
    /\ ~listening /\ listening' = TRUE
    /\ UNCHANGED <<mvc, boxVars, webVars, cmdQueue, daemonVars, crashes>>

Crash ==
    /\ crashes < MaxCrashes /\ crashes' = crashes + 1
    /\ listening' = FALSE /\ cmdQueue' = <<>>
    /\ phase' = "io" /\ client' = "none" /\ timers' = 0 /\ owed' = FALSE
    /\ UNCHANGED <<mvc, boxVars, webVars, said>>

----------------------------------------------------------------------------
Init ==
    /\ mvc \in BOOLEAN /\ hasServer \in BOOLEAN
    /\ box = Empty /\ enabled = TRUE /\ typed = 0
    /\ tries = [t \in Text |-> 0] /\ published = {} /\ acked = {}
    /\ xhr = [s \in Slot |-> Free]
    /\ listening = FALSE /\ cmdQueue = <<>> /\ phase = "io" /\ client = "none"
    /\ timers = 0 /\ said = <<>> /\ owed = FALSE /\ crashes = 0

Page == Type \/ (\E s \in Slot : Enter(s) \/ OnSuccess(s) \/ OnFailure(s))

Web == (\E s \in Slot : Cmd(s)) \/ Poll \/ SetServer

MainLoop == Io \/ Obey \/ Drop \/ QueueEmpty \/ Timers \/ DropDead

Next == Page \/ Web \/ MainLoop \/ Subscribe \/ Crash

Spec == Init /\ [][Next]_vars

\* The main loop runs, redis does not fail for ever, and the page goes on polling.
Fairness ==
    /\ WF_vars(MainLoop) /\ SF_vars(Obey)
    /\ WF_vars(Subscribe) /\ SF_vars(Poll)

FairSpec == Spec /\ Fairness

----------------------------------------------------------------------------
(* Properties.                                                             *)

\* The types, and that the box is closed exactly while sencha waits for an answer.
TypeOK ==
    /\ mvc \in BOOLEAN /\ hasServer \in BOOLEAN /\ listening \in BOOLEAN
    /\ box \in Text \cup {Empty} /\ typed \in Text \cup {Empty} /\ enabled \in BOOLEAN
    /\ xhr \in [Slot -> [text : Text \cup {Empty}, at : {"free", "sent", "done", "failed"},
                         heard : BOOLEAN]]
    /\ cmdQueue \in Seq(Text \cup {Update}) /\ said \in Seq(Text)
    /\ phase \in {"io", "commands", "timers", "dead"}
    /\ client \in {"none", "new", "up", "closed"}
    /\ timers \in 0 .. MaxTimers /\ owed \in BOOLEAN
    /\ ~enabled <=> ~mvc /\ \E s \in Slot : xhr[s].heard

\* On the sencha page a text only leaves the box when it has been published, though
\* answers are late and the user goes on typing when they can.
NothingTypedLost == [][~mvc /\ box # Empty /\ box' = Empty => box \in published]_vars

Times(t) == Cardinality({i \in DOMAIN said : said[i] = t})

\* A text is not said more often than it was entered, though commands raise after
\* they were half obeyed, and requests are answered when nobody waits any more.
SaidAsEntered == \A t \in Text : Times(t) <= tries[t]

\* A text that was entered once, and confirmed, is not said behind a later one.
SaidInOrder ==
    ~mvc =>
        \A i, j \in DOMAIN said :
            i < j /\ said[j] \in acked /\ tries[said[j]] = 1 => said[i] <= said[j]

\* A user whose connection was dropped has a reconnect coming, as long as nothing
\* else has connected them or was tried.
ReconnectReserved == owed => client = "none" /\ timers > 0

\* A user with a server, and a page that polls, is connected again and again, though
\* connections end, reconnects raise, and the daemon dies without a timer left; unless
\* commands come so fast that the main loop only handles them ("starvation" in
\* commandProcess.py).
ComesBack == []<>(phase = "io") => (hasServer ~> client \in {"new", "up"})
============================================================================
