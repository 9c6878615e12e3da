# webirc: a verification project

webirc lets a user stay on IRC through a web page.  A daemon (`ircclient/`)
holds the IRC connections and writes what happens on each channel into redis; a
web server (`webserver/`) hands the logs to browser pages that poll for more, and
hands to the daemon what the user types.  This directory models the way of a line
from the daemon to the screen, the way of a command from the chat box to the
connection, the page itself, and the daemon's life as an IRC client in TLA+, checks
them with TLC and proves the most important properties with TLAPS.

## Inventory

| part | state | operations |
|---|---|---|
| `IRCChannel`, `IRCUser` (`ircclient/IRCUser.py`) | open channels, their next log id, members; IRC nickname | handlers `on_*` of IRC messages, `cmd_*` of user commands; each a series of redis commands |
| `ConnectionManager`, `CommandProcessor`, `TimerManager`, `main.py` | one `IRCUser` per user, command queue, timers | connect on demand, drop dead connections, reconnect after 30 s; clear the joined flags at start |
| `IRCClient`, `AsyncClient` | receive buffer, socket | reassemble and dispatch lines |
| redis | one hash per log (`begin`, `end`, `joined`, the lines), settings, sessions; channels `i2h`, `h2i` | commands are atomic one by one; PUBLISH reaches who is subscribed |
| `LogMetadata` | per user: last id of every joined channel, waiting events; one lock | load from redis, `waitForChange`, `getLastChatIDs`, notification thread |
| `LogReader` | none | windows of ids for LOG_INIT, LOG_UPDATE, LOG_OLD |
| `webserver.py` | none of its own | LOG_INIT, LOG_UPDATE, LOG_OLD, CMD, CONFIG_*, login |
| pages `static/sencha`, `static/mvc` | `chanDict`, a log store per channel, a carousel of tabs, the chat box | polling loop, pull-to-refresh, opening and closing tabs, saying a text |
| `protocol.py`, `setting.py`, `Session.py`, `redisutil.py` | redis keys | list encoding, settings, sessions |

The daemon and the web server share nothing but redis.  The daemon runs its
handlers one after the other in one thread; the web server runs gevent
greenlets, which give way to each other whenever they talk to redis or wait.
What is hard: a log is extended by several commands while it is read by
several; either process may die between two of them; notifications are lost
when nobody listens; requests wait for a notification that may come while they
decide to wait, or time out; pages repeat what the network lost; ids start at 0
again when a log has been thrown away; a page's requests overtake each other, and
their callbacks share its dictionary and stores; a command may raise when it is
half obeyed.  `hazards` in PROJECT.json lists these at their lines.

What makes the parts correct:

* *the log*: hole-free and append-only to whoever reads `end` first, and nobody is
  told of a line before it is there;
* *the cache*: no wake-up is lost, no event is left behind, `no change` is true, and
  when all is quiet it agrees with redis;
* *the page*: lines in order, without a gap, none of them twice but for one that an
  answer may double; a tab to type into; polling that neither dies nor runs wild;
* *commands*: what the user typed is not lost, said twice or out of order;
* *the connection*: the user is connected again, registered and back on the channels;
  the daemon knows its nickname and the members.

## Modules

| module | models |
|---|---|
| `Dict` | dictionaries and hashes as functions |
| `LogFeed` | abstract: what a log promises its readers |
| `ChannelLog` | the daemon as the writer of logs |
| `LogMetadata` | the web server's cache |
| `LogReader` | the windows of ids, and `getLog` |
| `LogRequest` | LOG_INIT and LOG_UPDATE on top of `LogMetadata` |
| `Browser` | the page |
| `Notification` | `ChannelLog` and `LogMetadata` together, clients asking anything |
| `LongPolling` | `ChannelLog`, `LogRequest` and `Browser` together |
| `Screen` | what a page does with an answer: tabs, dictionary, stores, as operators |
| `Page` | a page with its requests: polling, pull-to-refresh, tabs |
| `Commands` | chat box, CMD, command queue, main loop, timers |
| `IrcServer` | external: the IRC server as the daemon uses it |
| `IrcSession` | the daemon as a client of `IrcServer`: nickname, members, autojoin, connections, commands |
| `MCNotification`, `MCPage` | symmetry for TLC |
| `ChannelLog_proofs`, `Notification_proofs`, `LongPolling_proofs`, `Commands_proofs`, `IrcSession_proofs` | theorems |
| `FoldLemmas` | lemmas: what a left fold runs through, for any operation |
| `Page_proofs`, `PageLines_proofs` | theorems on a page's tabs, and on its lines |

**ChannelLog.**  `log[c]` is the hash of channel c's log, `logEndID[c]` the next
id of the open `IRCChannel` of c (`Nil` when there is none).  A handler that
opens, extends or closes a channel is an action (`Say`, `Part`, `Kick`, ...)
that starts a `job`; every redis command it then issues is an action of its own
(`SetBegin` ... `ClearLog`), and `pc` says which is next.  `Crash` restarts the
daemon between any two commands, `RedisFails` abandons a handler as the catch-all
of `onReceive` does, `Reconnect` replaces the `IRCUser`.  After a crash
`ClearJoined` is the constructor of `ConnectionManager`.

A command may raise before redis has executed it or after (`Unheard`), when only its
reply is lost.  The worst is the DEL of `clearLog`: the channel stays open, with its old
`logEndID`, in front of an empty hash.  Lines written then have ids and an `end` but no
`begin`, so that `LogReader` finds nothing to read until the log is cleared again; readers
see no hole, but the ids go on where another log may begin anew.  `ClearsUnheard` says whether
a DEL may be such a command: it may in `channel_log`, `notification` and `kept_log`.
In `long_polling` it may not, since `NoGap` does not hold then (see *Proofs*).  Topic and
members are left out; after such a DEL they may make a key again before its
next line does, which no run shows.

**LogMetadata.**  Everything runs under one lock, so a locked section is one
action, except the load of a user, which keeps the lock over several redis
commands: `BeginLoad`, `LoadChannel` per key, `LoadFails` where `int( None )`
raises.  `at[r]` is where request r is.  `OnNewLog` is the notification thread
with the test of `channelClosed` as it stands in the code, id 0 included.

**LogRequest, LogReader.**  After `waitForChange` the logs are read without the
lock: `ReadBounds` and `ReadLines` are the two HMGETs per channel.

**Browser.**  `shown[r]` are the log stores of page r.  `Mvc` chooses between the
two pages, which differ in that only sencha closes channels (`CloseChannel`) and
only mvc loses its callback when it repeats a request (`AfterNetworkError`).

**LongPolling** lets a page and a request thread of the same name talk over a
network that may lose either direction (`Lose`).  A thread whose client is gone
is over by the time the client asks again: an abandoned waiter changes nothing a
client can see.

**Screen, Page.**  A screen is a record of `tabs` (the order in `chanDict` and in the
carousel), `info` (`oldestLogID`, `newestLogID` and topic per channel), `store` (the
ids on display, in order) and `active` (the carousel's item).  The callbacks of
`index.js` and `Main.js` are operators on it: `ApplyLogUpdate`, `ShowOldLog`,
`CloseChannel`, `LastIDs`.  `thrown` says that a callback threw on its way, which skips
the rest of it, the next request included.  `Page` adds the requests: `poll` is the one of the polling
loop, `pulls` are the LOG_OLD requests under way, and `loop` says what the polling loop
would do with an answer.  The server answers from `log` in one step: what an answer is
like that was interrupted is `LongPolling`'s subject, which has no tabs and no old lines.
`cleared` is a history variable, for what only holds while no log is thrown away.
The carousel and the store are Sencha Touch's, modelled from what the pages rely on: the
first item becomes active, an active one that is removed hands over to the first of
the others, the last one stays the active item though it is destroyed (`Gone`), and a
line comes behind those of its id.  `DoublesOne` speaks of a page that polls.  The exception
that stops a sencha page cuts a callback short before it notes the bounds of what it has
added, so that LOG_OLD answers that are still on their way are compared with an oldest line
that is none any more, and two of their lines may be shown again.  (The bounds of run `page` are
too small for that; six lines and a LOG_OLD window of three show it.)

**Commands.**  One user with one page.  `box` and `enabled` are the chat box, `xhr` its
CMD requests, `cmdQueue` that of `CommandProcessor`, filled by its thread while
`listening`.  `phase` walks through the main loop of `main.py`: `Io` (`asyncore.loop`),
`Obey` and `Drop` (`CommandProcessor.update`), `Timers` (`TimerManager.update`),
`DropDead` (`ConnectionManager.update`).  `Get` is `ConnectionManager.get`, which connects
on demand.  A text is a number, given when the user changes what the box says, so
that texts have an order.  A text for the connection goes into `said` before the log is
written, which may raise: the rest of the queue then waits for the next round.  That is
so before the welcome, too: whatever is handed to the transport of a client that is not
closed counts as said, and what an unregistered connection makes of it is the IRC server's.  Timers are
counted up to `MaxTimers`, which stands for `that many or more`.  What the
connection says and hears is `IrcSession`'s subject.  A reload of the page, after which
nobody hears its requests, is left out.

**IrcServer, IrcSession.**  One user's connection: `toServer` and `toDaemon` are the
two directions of its socket, records with a type, in order.  `IrcServer` knows who
is really on a channel (`members`) and what the user is really called (`nick`);
`IrcSession` holds what the daemon believes: `realNickname`, `users` (the
`IRCChannel`s of `IRCUser.channels` with their members), `autojoin` (the settings in
redis), `chSettings` (the copy that the welcome walks).  Each
`on_*` handler is one action, since the daemon runs one thread; what it writes into
logs is `ChannelLog`'s subject.  `conn` is the life of an `IRCUser`: created by a
command or a timer (`Create`), connected (`OnConnect`), closed (`OnClose`), dropped
(`DropDead`, by `ConnectionManager.update`).  The command queue and the reconnect
timer only delay what they carry, so `OnUserCommand` and `OnTimeout` may happen
whenever their guards allow.  Any line may raise (`OnRaisingLine`): it is not UTF-8, or its
handler cannot reach redis half-way (`HandledInPart`).  `onReceive` swallows that and drops the
rest of the chunk.  `missed` is a history variable that says this has happened on the
present connection, after which nobody expects the daemon to know nickname and members, or to
be registered: `on_nicknameinuse` writes the system log before it sends the next nickname, and a
433 may be in the dropped rest.  Such a connection stays unregistered until the user
sends a NICK or it ends, and the next one starts afresh.

## Runs

| run | question | bounds |
|---|---|---|
| `channel_log` | Is a log hole-free and append-only to readers through failures and crashes? Does it implement `LogFeed`? | 2 channels, 2 lines, ids below 2, 1 pending notification |
| `notification` | Is a wake-up ever lost, an event left behind, `no change` said wrongly? | 1 channel, 2 requests, ids below 2, 2 pending notifications, everything may fail |
| `long_polling` | Is the screen gap-free, does polling survive, is it `Notification`? | 1 channel, 1 page, ids below 3, windows of 1 line, everything may fail but a DEL that redis has executed |
| `kept_log` | Is every line on screen the log's? | as above, 2 lines, windows of 2, no log cleared |
| `irc_session` | Does the daemon know its nickname and the members, come back to its channels, and get registered while no line raises? | 1 channel, 3 nicknames, 2 messages from and 3 to the server, commands when none is under way to it |
| `polling` | Does the newest line come through, does polling calm down, does the cache agree with redis when all is quiet, is an open channel joined? | as `long_polling`, windows of 2 and 1, 2 pending notifications, only the network and the daemon fail |
| `page` | Do polls, pulls, tabs and losses that overtake each other leave a page with a tab, without gaps, with its topic? | 2 channels, 3 lines, 2 LOG_OLD under way, windows of 1, 1 and 2 lines, both pages |
| `commands` | Is what is typed lost, repeated or reordered?  Is the user connected again? | 2 requests, 2 texts, 2 entries, 2 waiting commands, 1 timer, 1 crash, both pages |

Four further runs are expected to be violated; they are the findings below.

Two channels are needed where handlers of one must not disturb another
(`channel_log`); channels share nothing in the web server but the dictionary.
Ids below 3 with windows of one or two lines make a page fall behind, catch up
over several polls and meet a log that was begun anew.  Two requests are enough
for a waiter to be overtaken by another request's load or time-out.

`long_polling` opens no channel silently, `kept_log` and `notification` do.

In `page` the two channels are interchangeable.  One window is larger than another, so
that an old answer overlaps what is on screen, and an update leaves lines out.
`MaxLines` bounds the lines ever written, not those of a log, since logs thrown away and
begun anew any number of times have too many states to check.
Three lines are two for a log and one for its successor or another channel.

In `commands` two entries are one text said twice or two texts in competition, with a
request that is late for either; two waiting commands are an `update` before or
behind a text.  One crash loses queue, timers and subscription at once and starts
the daemon as `Init` does.

In `irc_session` the two others make a nickname refused, a member renamed to a
nickname that was just given up, and a kick that crosses the daemon's own JOIN.
Two messages each way are what it takes for two events to overtake one command.
One channel suffices, since a handler treats every channel alike, and those that
name none walk all of them.

**Fairness.**  In `polling`: the daemon finishes a handler it has begun, the web
server's greenlets run when they can, its notification thread serves its queue,
and the network does not lose everything for ever (strong fairness of `Arrive`
and `Receive`).  No user, crash or failure action is fair.  `StopWaiting` is fair
because `doneEvent.wait( 25 )` is bounded.

In `commands`: the main loop runs and the thread of `CommandProcessor` subscribes (weak
fairness), the page goes on polling, with room in the queue now and then (strong fairness
of `Poll`), and redis does not fail for every command (strong fairness of `Obey`, whose
competitor `Drop` is the settings that cannot be read).  `ComesBack` also assumes that
`asyncore.loop` gets its turn again and again: the commands of a round are handled until none is
left, and the comment at `commandProcess.py:55` knows that this starves the rest.

**What holds on one page only.**  `WindowOfLog` and `TopicsAdvance` speak of the mvc page:
`ShowOldLog` of sencha does not tell `ParseLog` that its lines are old (`index.js:35`), so
that a pull sets the topic to an old one, and throws half-way when no tab is current.
`NothingTypedLost` and `SaidInOrder` speak of the sencha page: mvc leaves the chat box open
while a text is under way (`Main.js:268`), so that the answer empties a box that says
something else by then, and two texts may overtake each other.

## Findings

* `stale_cache`: `channelClosed` takes the last id 0 for absent
  (`LogMetadata.py:85`), so a channel closed at its first line stays in the cache.
* `load_race`: a new log has no `end` for a few commands, and a silently opened one
  keeps none; `int( None )` then fails the whole load (`LogMetadata.py:59`).
* `rejoin_loop`: ids start at 0 again after a part; a page that has not noticed
  knows more than there is, and asks again and again (`LogMetadata.py:105`).
* `mvc_retry`: the retry forgets the callback (`connection.js:100`).

Observations that no comment or test of the repository contradicts, or that no run is
spent on:

* Who may not speak on a channel (404) is still on it.  The daemon closes its
  `IRCChannel` and says the user leaves (`IRCUser.py:355`) but sends no PART.
* A sencha page whose tabs have all been closed stops polling when a channel comes with
  a topic line: `GetCurrentChannelInfo` has nothing to return (`index.js:371`), though the
  comment at `index.js:380` expects a channel to come back.  `StopsOnlyTabless` says
  that this is the only way an answer ends the polling.
* `CloseChannel` looks for the channel updated last by a `date` that lines, being arrays, do
  not have (`index.js:347`); it always takes the answer's last one.
* A command published while the daemon does not listen is lost, and the page told that
  all is well (`webserver.py:240`).
* What is said between the end of a connection and `ConnectionManager.update` goes into
  the log only.
* `exportToDict` swaps nickname and username (`setting.py:26`); CONFIG_GET swaps them back,
  the daemon does not.  LOG_OLD reads the first server that KEYS names.  `decodeList` does not
  give back a backslash before an `n`.

## Proofs

`ChannelLog_proofs` proves, for any channels, lines and bounds, type correctness,
`NoHole`, `WriterAhead`, `AnnouncedIsReadable` and that the log implements
`LogFeed`.  The inductive invariant `IInv` adds `JobInOrder`, which says what each
redis command of a handler may rely on: without it, `SetEnd` could be thought to
publish an end before its line is written.  Where redis does not fail, `OpenIsJoined` is
proved as well, with `JoinedInv`: between a crash and the end of the clean-up nothing is
open, and only a handler that closes its channel gets to the commands that do.
`LongPolling_proofs` carries it over to the whole path.

Two more invariants there are for the readers.  `Begun`: no `end` is ever 0, and a log that
exists has its `begin`, unless a DEL may be unheard.  `LEMMA LogGrows`: no step but clearing a log changes a line
below its `end`; what a daemon writes over after a crash was never to be read.

`Notification_proofs` proves, for any number of requests and channels:

* `NoLostWakeup`, `EventsOfWaiters` and `NoChangeIsTrue` from `WaitInv`, which adds that a
  set event belongs to a waiter and that a waiter implies a loaded user;
* that daemon and web server together implement `ChannelLog` (`ImplementsChannelLog`): what
  `ChannelLog` assumes of its readers - notifications are taken in order, a subscriber
  comes and goes - is all they do to the daemon, so its invariants hold here;
* the types of the cache.  They need `Begun`: the last id of a log is its `end` less
  one, and with an `end` of 0 there would be none;
* coherence (`CoherentAlways`), while redis answers, channels are opened by their
  first line and users are loaded by who has subscribed.  Each of the three is needed: drop
  any one, and TLC finds the cache wrong within a few steps of the `notification` instance.  The
  invariant, `Foretold`, speaks of every moment: of a channel that the daemon is not just
  changing (`Unsettled`), the last notification on its way tells what redis has
  (`Records`); if there is none, the cache has it already, or the load under way has read it
  or is still to read it.  Without the notifications, a load that read one channel before
  and another after a change could be thought to stay half wrong.

`LongPolling_proofs` proves, for any channels, pages, lines, bounds, windows and failures:

* type correctness and `NoGap`.  The argument: under every line of a log are all
  lines before it (`FromZero`, kept by the daemon), so a window that begins behind the
  newest line a page has continues it, and so does what is read of it later, however
  much of the log is gone by then.  `PathInv` says this of every moment: while a request
  is served, its page still shows what it said it knows (`Knows`); windows and replies
  continue that (`Runs`); nothing is read before there is an answer (`Reading`); and who
  loads the user is not yet answered (`Loading`).  Without `Knows`, a page could be
  thought to merge an answer into other lines than those it asked with.

  `NoGap` needs that no DEL is unheard (`Heard`); all else here is proved without that
  hypothesis.  With unheard ones and windows of two lines, TLC finds a gap: a request has
  its window of ids and has not read the lines yet; the log is cleared, begun anew, and
  cleared by a DEL that raises; the next lines have ids of the window, and those
  below are missing.
* `RetriesSurvive` of the sencha page (on the mvc page it does not hold);
* `ShownIsLogged`, as long as no log is thrown away: what is asked for is below the `end`
  that was read (`KeptInv`), there `LogGrows` keeps it, and an answer is merged by id;
* coherence, carried over from `Notification`;
* that the whole path implements `Notification` (`NotificationSpec`): a step of a page or
  of a request that reads is a step of a client there, or none.  This needs that a
  thread that serves nobody has forgotten its last request (`Forgotten`), or the end of
  a refused request would be seen by the cache.
* by that refinement, what was proved below: no poll sleeps through a change (`PathWakes`),
  and the logs are what `LogFeed` promises (`PathIsFeed`).  The latter is the chain of all
  refinements: the path implements `Notification`, that implements `ChannelLog`
  (`ImplementsChannelLog`), and that implements `LogFeed` (`LogIsFeed`).

It takes the invariants of the daemon from `ChannelLog_proofs` through INSTANCE.

`Commands_proofs` proves its five safety properties for any number of requests, texts,
commands, timers and crashes:

* Type correctness, `ReconnectReserved` and `NothingTypedLost`.  The inductive invariant adds
  `Waits` and `Served`.  `Waits` says that the one request sencha waits for carries what the
  box says, and that this is published when the answer is there: without it, an
  answer could be thought to empty the box of a text it has nothing to do with.  `Served`
  says that who has been connected has server settings: without it, a timer that finds
  none could be thought to go off for a dropped user, with nothing to follow.
* `SaidInOrder`.  `Order` says the same of what waits as of what has been said, and of
  texts the page is only about to hear of (`Confirmed`).  A text becomes one of these
  when its only request is published (`Requests`); the page waits for that request, so the box
  still says this text, and it is the last one typed (`Known`).  A request that timed out
  may be published much later, but then its text will never be confirmed.
* `SaidAsEntered`.  `Counted` says that of each text no more requests are on their way,
  commands wait, and texts have been said, all together, than it was entered.  `Obey` moves a
  command from one count to the next even where it raises.

`IrcSession_proofs` proves all invariants of the session, for any nicknames, channels and
lengths of the two directions; no set is assumed to be finite.

* Type correctness and `Registered`.  `Registering`: until the welcome, USER is under way and
  the daemon is only ever told of refused nicknames, after each of which it
  sends another one, as long as no line has raised; `Unheard`: an `IRCUser` that is not connected has sent and heard nothing.
* `NicknameKnown`, `MembersKnown` and `JoinsAgain` from `Outlook`.  The daemon is behind the
  server by what is on its way to it, so no invariant on what it knows now will do.
  `Ahead` says what it will know when it has heard all of that, line by line, and which
  channels it will have asked to join by then: its states on the way are the values
  of a function, in which each follows from the one before, so that no recursion is needed.
  `Agrees` then compares its last state with the server, and `Due` says that
  each channel of `autojoin` which lets the client in has it as a member, or has a JOIN on
  its way, or will be asked for.  A step of the server adds a line and changes both sides; a step of
  the daemon drops the first line, and changes nothing of the last state.  When
  both directions are empty the last state is the present one.
  `Absent` adds that nobody is a member of a channel that bans them.

`Page_proofs` and `PageLines_proofs` prove all properties of the page, for any number of
channels, lines and pulls and windows of any size.  The callbacks are folds, over the
channels of an answer and over the lines of a channel.  `FoldLemmas` has the operation of a
fold as a constant, and proves of any operation that the fold is the last of a
series of states, each made of the one before and the next element; `Page_proofs` instantiates it with each
callback.  What a callback keeps, line by line, then follows by an induction over the length
of the answer, for which a set of numbers that has a least element is enough.

* `TypeOK`, `ActiveIsTab` and `StopsOnlyTabless` from `TypesAndTab`.  It says that tabs,
  dictionary and stores of a screen name the same channels, each once (`Proper`), that logs,
  answers and pulls have their types, and that a stopped page has no request under way.
  `Settled` says that a page that has tabs has a current one until it has lost them all: then no
  topic line can throw.
* `DoublesOne` from `LinesInPlace`: the stores of a page that polls are sorted, and its
  `oldestLogID` and `newestLogID` are the ends of what is displayed.  Without it, a comparison
  with them could be thought to let through a line that is on display already.
* `WindowOfLog` and `TopicsAdvance` from `WindowInv`.  While no log has been thrown away, each
  store of the mvc page is a window of its log, whose topic is not younger than all of it
  (`LinesFit`).  The request of the loop is for what follows the newest lines of the page as it
  is now, although pulls have been answered since (`AskedFits`): they add in front only.  Its
  answer begins with the line asked for, and its lines have no gap (`AnswerFits`).  Old
  lines end just before one that is still on display (`PullsFit`), however many pulls asked for the
  same ones.  Without these three, an answer could be thought to be put beside a window that it does
  not continue.  `Starts` says that a page without channels asks for everything.

The assumptions are `ChannelLogAssumption` (`DaemonAssumption` in `Notification` and on the
whole path), `LogMetadataAssumption`, `LogLinesAssumption`, `LongPollingAssumption`,
`CommandsAssumption`, `IrcServerAssumption`, `IrcSessionAssumption` and `PageAssumption`, all of which TLC
evaluates; they say that bounds are numbers, that what stands for nothing is no line, no request
and no channel, that a page's channels are finitely many, and that the client's own nickname is one.

Every invariant, action property and refinement of a passing run is stated by a theorem.
Only model-checked are the liveness properties, `NewestIsShown`, `Settles` and
`ComesBack`: liveness under fairness is out of the prover's reach.  What holds of one page
or under a hypothesis only is proved of just that, as the property says it; that it fails
elsewhere is TLC's to show (`mvc_retry`, `stale_cache`).

## Not modelled, and the plan

Still to come, in this order:

1. Settings: CONFIG_SAVE while the daemon reads them, and `exportToDict`.
2. `IrcLines` and `ListEncoding`: reassembly of lines from chunks; `encodeList` and
   `decodeList`, whose round trip breaks at a backslash.
3. The member lists a page is given, and the modes in them.

Left out for good: sessions and login (two redis commands and a check; what a failed
check does to a page is in `LogRequest`), rendering, which keeps no state, the older jQuery page and the
prototypes, and everything vendored, which is nearly all of the repository's lines.  Of
Sencha Touch, `Screen` models what the pages rely on.  PROJECT.json gives the reason for
each part.
