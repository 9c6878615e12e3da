----------------------------- MODULE IrcSession -----------------------------
(***************************************************************************)
(* The ircclient daemon as the client of an IRC server: the handlers of    *)
(* IRCUser that keep nickname, members and autojoin settings               *)
(* (ircclient/IRCUser.py), the ConnectionManager that connects, drops and  *)
(* reconnects a user (connectionMgr.py), and the commands that come from   *)
(* the web server (commandProcess.py).  IrcServer is the other end.        *)
(*                                                                         *)
(* One user; one thread runs every action below to its end.  What the      *)
(* handlers write into the logs is in ChannelLog.  A command may come, and *)
(* a reconnect timer fire, at any time: the command queue and the timers   *)
(* only delay them.                                                        *)
(***************************************************************************)
EXTENDS IrcServer, Dict, SequencesExt

CONSTANTS
    MaxOut,      \* bound: the client's messages on their way ...
    MaxBefore,   \* ... and of them, those before a command
    Mine         \* the nickname in the user's settings

ASSUME IrcSessionAssumption == Mine \in Nick \ {Spare} /\ {MaxOut, MaxBefore} \subseteq Nat

VARIABLES
    conn,          \* the IRCUser: "none", "new", "up" (onConnect), "closed"
    nickname,      \* the nickname to connect with, for onConnect
    realNickname,  \* the nickname the welcome named
    users,         \* users[c] of the open IRCChannels
    chSettings,    \* the channels with autojoin when the IRCUser was made, for
                   \* the welcome, which comes once
    autojoin,      \* redis: the channels with autojoin
    missed         \* history: has a line of this connection raised?

ircUser == <<conn, nickname, realNickname, users, chSettings>>
vars == <<serverVars, wire, ircUser, autojoin, missed>>

\* What is sent on a closed connection goes nowhere.
Send(ms) ==
    IF conn = "closed" THEN UNCHANGED toServer
    ELSE toServer' = toServer \o ms /\ Len(toServer') <= MaxOut

----------------------------------------------------------------------------
(* The members of a channel.                                               *)

\* getChannel: opened, with nobody on it, if it is not open.
UsersOf(c) == IF c \in DOMAIN users THEN users[c] ELSE {}

AddUsers(c, S) == Put(users, c, UsersOf(c) \cup S)

RemoveUser(c, n) == Put(users, c, UsersOf(c) \ {n})

\* Mutant: the old nickname stays.
ChangeUserNickKeeping(old, new) ==
    [c \in DOMAIN users |-> IF old \in users[c] THEN users[c] \cup {new} ELSE users[c]]

\* on_nick: hasUser and changeUserNick for every open channel.
ChangeUserNick(old, new) ==
    [c \in DOMAIN users |->
        IF old \in users[c] THEN (users[c] \ {old}) \cup {new} ELSE users[c]]

\* on_quit: hasUser and removeUser for every open channel.
RemoveEverywhere(n) == [c \in DOMAIN users |-> users[c] \ {n}]

----------------------------------------------------------------------------
(* Handlers of the server's messages.                                      *)

\* IRCClient.processData takes the next line and calls the handler.
Line == Head(toDaemon)

Handles(type) ==
    /\ conn = "up"
    /\ toDaemon # <<>> /\ Line.type = type
    /\ toDaemon' = Tail(toDaemon)
    /\ chSettings' = IF type = "welcome" THEN {} ELSE chSettings
    /\ UNCHANGED <<serverVars, conn, nickname, missed>>

\* The autojoin channels are joined, in the order of a dictionary.
OnWelcome ==
    /\ Handles("welcome")
    /\ realNickname' = Line.who
    /\ \E cs \in SetToSeqs(chSettings) :
          Send([i \in DOMAIN cs |-> OnChan("join", cs[i])])
    /\ UNCHANGED <<users, autojoin>>

\* Mutant: no other nickname is tried.
OnNicknameInUseGivingUp ==
    /\ Handles("nicknameinuse")
    /\ UNCHANGED <<toServer, realNickname, users, autojoin>>

\* Another nickname is tried until the first one is accepted.
OnNicknameInUse ==
    /\ Handles("nicknameinuse")
    /\ IF realNickname = NoNick THEN Send(<<About("nick", Spare)>>) ELSE UNCHANGED toServer
    /\ UNCHANGED <<realNickname, users, autojoin>>

\* Mutant: the daemon's own nickname is not followed.
OnNickOfOthers ==
    /\ Handles("nick")
    /\ users' = ChangeUserNick(Line.who, Line.new)
    /\ UNCHANGED <<toServer, realNickname, autojoin>>

OnNick ==
    /\ Handles("nick")
    /\ realNickname' = IF realNickname = Line.who THEN Line.new ELSE realNickname
    /\ users' = ChangeUserNick(Line.who, Line.new)
    /\ UNCHANGED <<toServer, autojoin>>

\* Who has joined a channel has autojoin for it from then on.
OnJoin ==
    /\ Handles("join")
    /\ users' = AddUsers(Line.chan, {Line.who})
    /\ autojoin' = IF Line.who = realNickname THEN autojoin \cup {Line.chan} ELSE autojoin
    /\ UNCHANGED <<toServer, realNickname>>

OnNamReply ==
    /\ Handles("names")
    /\ users' = AddUsers(Line.chan, Line.new)
    /\ UNCHANGED <<toServer, realNickname, autojoin>>

\* Who leaves a channel has no autojoin for it from then on.
OnPart ==
    /\ Handles("part")
    /\ IF Line.who = realNickname
       THEN users' = Pop(users, Line.chan) /\ autojoin' = autojoin \ {Line.chan}
       ELSE users' = RemoveUser(Line.chan, Line.who) /\ UNCHANGED autojoin
    /\ UNCHANGED <<toServer, realNickname>>

\* Mutant: the channel is not joined again.
OnKickResigned ==
    /\ Handles("kick")
    /\ users' = IF Line.who = realNickname THEN Pop(users, Line.chan)
                                           ELSE RemoveUser(Line.chan, Line.who)
    /\ UNCHANGED <<toServer, realNickname, autojoin>>

\* Who is kicked tries once to come back.
OnKick ==
    /\ Handles("kick")
    /\ IF Line.who = realNickname
       THEN users' = Pop(users, Line.chan) /\ Send(<<OnChan("join", Line.chan)>>)
       ELSE users' = RemoveUser(Line.chan, Line.who) /\ UNCHANGED toServer
    /\ UNCHANGED <<realNickname, autojoin>>

OnQuit ==
    /\ Handles("quit")
    /\ users' = RemoveEverywhere(Line.who)
    /\ UNCHANGED <<toServer, realNickname, autojoin>>

\* on_pubmsg, like on_topic and on_mode: the channel is opened if need be.
OnPubMsg ==
    /\ Handles("pubmsg")
    /\ users' = AddUsers(Line.chan, {})
    /\ UNCHANGED <<toServer, realNickname, autojoin>>

\* on_notonchannel and on_cannotsendtochan: the channel is closed.  (removeUser
\* asserts that there is a nickname.)
OnRefusal ==
    /\ Handles("notonchannel") \/ Handles("cannotsendtochan")
    /\ realNickname # NoNick
    /\ users' = Pop(users, Line.chan)
    /\ UNCHANGED <<toServer, realNickname, autojoin>>

\* How far a handler gets that raises.  Nickname and members change before redis
\* is told of them; on_nick and on_quit have done some of the channels, on_namreply
\* some of the names; the autojoin setting may have been stored.  Nothing has been
\* sent, and no channel closed.
HandledInPart ==
    \/ UNCHANGED <<realNickname, users, autojoin>>
    \/ /\ Line.type = "nick"
       /\ realNickname' = IF realNickname = Line.who THEN Line.new ELSE realNickname
       /\ \E S \in SUBSET DOMAIN users :
             users' = [c \in DOMAIN users |->
                         IF c \in S THEN ChangeUserNick(Line.who, Line.new)[c] ELSE users[c]]
       /\ UNCHANGED autojoin
    \/ /\ Line.type = "quit"
       /\ \E S \in SUBSET DOMAIN users :
             users' = [c \in DOMAIN users |->
                         IF c \in S THEN users[c] \ {Line.who} ELSE users[c]]
       /\ UNCHANGED <<realNickname, autojoin>>
    \/ /\ Line.type = "join"
       /\ users' = AddUsers(Line.chan, {Line.who})
       /\ \/ Line.who = realNickname /\ autojoin' = autojoin \cup {Line.chan}
          \/ UNCHANGED autojoin
       /\ UNCHANGED realNickname
    \/ /\ Line.type = "names"
       /\ \E S \in (SUBSET Line.new) \ {{}} : users' = AddUsers(Line.chan, S)
       /\ UNCHANGED <<realNickname, autojoin>>
    \/ /\ Line.type \in {"part", "kick"}
       /\ users' = RemoveUser(Line.chan, Line.who)
       /\ \/ /\ Line.type = "part" /\ Line.who = realNickname
             /\ autojoin' = autojoin \ {Line.chan}
          \/ UNCHANGED autojoin
       /\ UNCHANGED realNickname
    \/ /\ Line.type \in {"notonchannel", "cannotsendtochan"}
       /\ users' = RemoveUser(Line.chan, realNickname)
       /\ UNCHANGED <<realNickname, autojoin>>
    \/ /\ Line.type = "pubmsg"
       /\ users' = AddUsers(Line.chan, {})
       /\ UNCHANGED <<realNickname, autojoin>>

\* onReceive swallows what a line raises - one that is not UTF-8, or whose handler
\* cannot reach redis - and drops all lines behind it that came in the same chunk.
\* (When the line that raises is of a kind left out here, such as a notice, those
\* behind it are dropped and none is handled.)
OnRaisingLine ==
    /\ conn = "up"
    /\ \E n \in 1 .. Len(toDaemon) :
          toDaemon' = SubSeq(toDaemon, n + 1, Len(toDaemon))
    /\ HandledInPart
    /\ missed' = TRUE
    /\ UNCHANGED <<serverVars, toServer, conn, nickname, chSettings>>

ReceiveLine ==
    \/ OnWelcome \/ OnNicknameInUse \/ OnNick \/ OnJoin \/ OnNamReply \/ OnPart
    \/ OnKick \/ OnQuit \/ OnPubMsg \/ OnRefusal

----------------------------------------------------------------------------
(* Connections.                                                            *)

\* ConnectionManager.get: a new IRCUser, with the settings as they are now.
Create(nn) ==
    /\ conn' = "new"
    /\ nickname' = nn
    /\ chSettings' = autojoin
    /\ UNCHANGED <<serverVars, toDaemon, realNickname, autojoin, missed>>

\* onConnect: the server has accepted the connection.
OnConnect ==
    /\ conn = "new"
    /\ conn' = "up"
    /\ Accept
    /\ Send(<<About("nick", nickname), About("user", NoNick)>>)
    /\ nickname' = Mine
    /\ UNCHANGED <<toDaemon, realNickname, users, chSettings, autojoin, missed>>

\* Mutant: the socket is not closed.
OnCloseHalf ==
    /\ conn \in {"new", "up"}
    /\ conn' = "closed"
    /\ UNCHANGED <<serverVars, wire, nickname, realNickname, users, chSettings,
                   autojoin, missed>>

\* The connection breaks, or is refused; what is under way is lost.
OnClose ==
    /\ conn \in {"new", "up"}
    /\ conn' = "closed"
    /\ Forget
    /\ toServer' = <<>> /\ toDaemon' = <<>>
    /\ UNCHANGED <<nickname, realNickname, users, chSettings, autojoin, missed>>

\* There is no IRCUser any more.
NoUser ==
    /\ conn' = "none" /\ nickname' = Mine /\ realNickname' = NoNick
    /\ users' = <<>> /\ chSettings' = {} /\ missed' = FALSE
    /\ Forget
    /\ toServer' = <<>> /\ toDaemon' = <<>>
    /\ UNCHANGED autojoin

\* ConnectionManager.update: a dead client goes - it is closed, or has heard
\* nothing for ten minutes - and a reconnect is reserved.
DropDead ==
    /\ conn # "none"
    /\ NoUser

\* The reconnect timer: get, unless a command has connected the user before.
\* (If connecting raises, TimerManager.update swallows it, and nothing happens.)
OnTimeout ==
    /\ conn = "none"
    /\ Create(Mine)
    /\ UNCHANGED <<users, toServer>>

\* The daemon dies; the new one knows no user.
Crash == conn # "none" /\ NoUser

----------------------------------------------------------------------------
(* Commands.                                                               *)

ChannelCommand == {OnChan(type, c) : type \in {"say", "join", "part"}, c \in Chan}

Command ==
    ChannelCommand
        \cup {About("nick", n) : n \in Nick \ {Spare}} \cup {OnChan("update", "")}

\* onUserCommand.  cmd_say opens the channel, unless redis fails, when the text is
\* on its way; cmd_update does nothing.
Obey(cmd) ==
    /\ Len(toServer) <= MaxBefore
    /\ IF cmd.type = "update" THEN UNCHANGED toServer ELSE Send(<<cmd>>)
    /\ \/ cmd.type = "say" /\ users' = AddUsers(cmd.chan, {})
       \/ UNCHANGED users

\* cmd_nick; self.nickname is read by onConnect only.
NicknameAfter(cmd, n) == IF cmd.type = "nick" THEN cmd.who ELSE n

\* CommandProcessor.update: the user is connected on demand, and what the command
\* sends stands before NICK and USER in the buffer then.  (If connecting raises,
\* the command is lost, and nothing happens.)
OnUserCommand(cmd) ==
    /\ Obey(cmd)
    /\ \/ /\ conn # "none"
          /\ nickname' = IF conn = "new" THEN NicknameAfter(cmd, nickname) ELSE nickname
          /\ UNCHANGED <<serverVars, toDaemon, conn, realNickname, chSettings,
                         autojoin, missed>>
       \/ conn = "none" /\ Create(NicknameAfter(cmd, Mine))

----------------------------------------------------------------------------
Init ==
    /\ Offline
    /\ conn = "none" /\ nickname = Mine /\ realNickname = NoNick
    /\ users = <<>> /\ chSettings = {} /\ autojoin = {} /\ missed = FALSE

Server ==
    /\ Serve \/ (OthersAct /\ UNCHANGED toServer)
    /\ UNCHANGED <<ircUser, autojoin, missed>>

Daemon ==
    \/ ReceiveLine \/ OnRaisingLine
    \/ OnConnect \/ DropDead \/ OnTimeout
    \/ \E cmd \in Command : OnUserCommand(cmd)

Next == Server \/ Daemon \/ OnClose \/ Crash

Spec == Init /\ [][Next]_vars

----------------------------------------------------------------------------
(* Properties.                                                             *)

\* The types, and that only a connected IRCUser is known to the server.
TypeOK ==
    /\ phase \in {"offline", "connected", "user", "registered"}
    /\ {nick, realNickname} \subseteq Nick \cup {NoNick}
    /\ members \in [Chan -> SUBSET (others \cup ({nick} \cap Nick))]
    /\ nick \notin others
    /\ conn \in {"none", "new", "up", "closed"}
    /\ nickname \in Nick
    /\ users \in UNION {[S -> SUBSET Nick] : S \in SUBSET Chan}
    /\ chSettings \subseteq Chan /\ autojoin \subseteq Chan
    /\ phase # "offline" => conn = "up"

\* The daemon is registered, has handled every line there is, and missed none.
UpToDate == phase = "registered" /\ toDaemon = <<>> /\ ~missed

\* The daemon knows its own nickname, through refused nicknames and renamings.
NicknameKnown == UpToDate => realNickname = nick

\* The members of a channel whose list has the daemon itself on it are exactly
\* those the server knows, however joins, kicks, renamings and the daemon's own
\* commands overtake each other.
MembersKnown ==
    UpToDate => \A c \in DOMAIN users : nick \in users[c] => users[c] = members[c]

\* Whatever connects a user anew, they come back to the channels they have not
\* left: all with autojoin, except those that do not let them in.
JoinsAgain ==
    UpToDate /\ toServer = <<>> =>
        \A c \in Chan : IsOn(c) = (c \in autojoin \ banned)

\* A connection that falls silent, and has lost no line, is registered: a nickname
\* in use is replaced until the server takes one.
Registered ==
    conn = "up" /\ ~missed /\ toServer = <<>> /\ toDaemon = <<>> => phase = "registered"
============================================================================
