----------------------------- MODULE IrcServer -----------------------------
(***************************************************************************)
(* External: the IRC server as the daemon uses it, seen from the           *)
(* connection of one user.  It reads the client's messages in order,       *)
(* answers each, and tells the client, in the order of events, of what     *)
(* happens on the channels the client is on.  Two channels of the same     *)
(* kind do not interact, nor do the users' connections.                    *)
(***************************************************************************)
EXTENDS Sequences, FiniteSets, Naturals

CONSTANTS
    Chan,        \* IRC channels
    Nick,        \* nicknames
    Spare,       \* the nickname with an underscore, which nobody else takes
    NoNick,      \* None
    MaxIn        \* bound: the server's messages on their way

ASSUME IrcServerAssumption ==
    /\ Spare \in Nick
    /\ NoNick \notin Nick
    /\ MaxIn \in Nat

VARIABLES
    phase,       \* "offline", "connected", "user" (USER has come), "registered"
    nick,        \* the nickname it knows the client by
    others,      \* the nicknames of everybody else
    members,     \* members[c]: who is on channel c
    banned,      \* the channels that do not let the client in (any more)
    toServer,    \* the client's messages on their way
    toDaemon     \* the server's messages on their way

wire == <<toServer, toDaemon>>
serverVars == <<phase, nick, others, members, banned>>

Msg(type, who, new, chan) == [type |-> type, who |-> who, new |-> new, chan |-> chan]

\* Messages about a channel, about a user, and about a user on a channel.
OnChan(type, c)      == Msg(type, NoNick, NoNick, c)
About(type, n)       == Msg(type, n, NoNick, "")
Event(type, n, c)    == Msg(type, n, NoNick, c)
NameReply(S, c)      == Msg("names", NoNick, S, c)

Tell(ms) == toDaemon' = toDaemon \o ms /\ Len(toDaemon') <= MaxIn

IsOn(c) == nick \in members[c]

\* The client sees a user when they share a channel.
Sees(n) == \E c \in Chan : IsOn(c) /\ n \in members[c]

Without(n) == [c \in Chan |-> members[c] \ {n}]

Renamed(old, new) ==
    [c \in Chan |-> IF old \in members[c] THEN (members[c] \ {old}) \cup {new} ELSE members[c]]

----------------------------------------------------------------------------
(* The client's messages.                                                  *)

Reads(type) ==
    /\ phase # "offline"
    /\ toServer # <<>> /\ Head(toServer).type = type
    /\ toServer' = Tail(toServer)

\* Commands are refused before the registration (451, of no effect).
Refused(type) ==
    /\ Reads(type)
    /\ phase # "registered"
    /\ UNCHANGED <<serverVars, toDaemon>>

\* NICK: in use (433), part of the registration, or a change of name.
ServeNick ==
    LET n == Head(toServer).who IN
    /\ Reads("nick")
    /\ UNCHANGED <<others, banned>>
    /\ \/ /\ n \in others
          /\ Tell(<<About("nicknameinuse", n)>>)
          /\ UNCHANGED <<phase, nick, members>>
       \/ /\ n \notin others /\ phase = "connected"
          /\ nick' = n
          /\ UNCHANGED <<phase, members, toDaemon>>
       \/ /\ n \notin others /\ phase = "user"
          /\ nick' = n /\ phase' = "registered"
          /\ Tell(<<About("welcome", n)>>)
          /\ UNCHANGED members
       \/ /\ n \notin others \cup {nick} /\ phase = "registered"
          /\ nick' = n /\ members' = Renamed(nick, n)
          /\ Tell(<<Msg("nick", nick, n, "")>>)
          /\ UNCHANGED phase
       \/ /\ n = nick /\ phase = "registered"
          /\ UNCHANGED <<phase, nick, members, toDaemon>>

\* USER completes the registration when there is a nickname (001).
ServeUser ==
    /\ Reads("user")
    /\ phase = "connected"
    /\ IF nick = NoNick THEN phase' = "user" /\ UNCHANGED toDaemon
                        ELSE phase' = "registered" /\ Tell(<<About("welcome", nick)>>)
    /\ UNCHANGED <<nick, others, members, banned>>

\* JOIN is answered by JOIN and the names, or refused; a member's is ignored.
ServeJoin ==
    LET c == Head(toServer).chan IN
    /\ Reads("join")
    /\ phase = "registered"
    /\ IF c \in banned \/ IsOn(c) THEN UNCHANGED <<members, toDaemon>>
       ELSE /\ members' = [members EXCEPT ![c] = @ \cup {nick}]
            /\ Tell(<<Event("join", nick, c), NameReply(members[c] \cup {nick}, c)>>)
    /\ UNCHANGED <<phase, nick, others, banned>>

\* PART is answered by PART, or by 442.
ServePart ==
    LET c == Head(toServer).chan IN
    /\ Reads("part")
    /\ phase = "registered"
    /\ members' = [members EXCEPT ![c] = @ \ {nick}]
    /\ Tell(<<IF IsOn(c) THEN Event("part", nick, c) ELSE OnChan("notonchannel", c)>>)
    /\ UNCHANGED <<phase, nick, others, banned>>

\* PRIVMSG has no answer; or 404, where one has to be on the channel to speak
\* (channel mode n), or may not speak though one is (mode m).
ServeSay ==
    LET c == Head(toServer).chan IN
    /\ Reads("say")
    /\ phase = "registered"
    /\ UNCHANGED toDaemon \/ Tell(<<OnChan("cannotsendtochan", c)>>)
    /\ UNCHANGED serverVars

Serve ==
    \/ ServeNick \/ ServeUser \/ ServeJoin \/ ServePart \/ ServeSay
    \/ Refused("join") \/ Refused("part") \/ Refused("say")

----------------------------------------------------------------------------
(* What the others do.                                                     *)

\* Whoever sees it is told.
TellIf(sees, m) == IF sees THEN Tell(<<m>>) ELSE UNCHANGED toDaemon

SignsOn(n) ==
    /\ n \notin others \cup {nick, Spare}
    /\ others' = others \cup {n}
    /\ UNCHANGED <<phase, nick, members, banned, toDaemon>>

Joins(n, c) ==
    /\ n \in others \ members[c]
    /\ members' = [members EXCEPT ![c] = @ \cup {n}]
    /\ TellIf(IsOn(c), Event("join", n, c))
    /\ UNCHANGED <<phase, nick, others, banned>>

\* how: by PART or by KICK.
Leaves(n, c, how) ==
    /\ n \in others \cap members[c]
    /\ members' = [members EXCEPT ![c] = @ \ {n}]
    /\ TellIf(IsOn(c), Event(how, n, c))
    /\ UNCHANGED <<phase, nick, others, banned>>

Quits(n) ==
    /\ n \in others
    /\ others' = others \ {n} /\ members' = Without(n)
    /\ TellIf(Sees(n), About("quit", n))
    /\ UNCHANGED <<phase, nick, banned>>

Renames(n, new) ==
    /\ n \in others /\ new \notin others \cup {nick, Spare}
    /\ others' = (others \ {n}) \cup {new} /\ members' = Renamed(n, new)
    /\ TellIf(Sees(n), Msg("nick", n, new, ""))
    /\ UNCHANGED <<phase, nick, banned>>

Talks(c) ==
    /\ IsOn(c)
    /\ Tell(<<OnChan("pubmsg", c)>>)
    /\ UNCHANGED serverVars

\* The client is kicked, and perhaps banned for good.
Kicks(c, ban) ==
    /\ IsOn(c)
    /\ members' = [members EXCEPT ![c] = @ \ {nick}]
    /\ banned' = banned \cup ban
    /\ Tell(<<Event("kick", nick, c)>>)
    /\ UNCHANGED <<phase, nick, others>>

OthersAct ==
    \/ \E n \in Nick : SignsOn(n) \/ Quits(n)
    \/ \E n, new \in Nick : Renames(n, new)
    \/ \E n \in Nick, c \in Chan : Joins(n, c) \/ Leaves(n, c, "part") \/ Leaves(n, c, "kick")
    \/ \E c \in Chan : Talks(c) \/ Kicks(c, {}) \/ Kicks(c, {c})

----------------------------------------------------------------------------
(* The connection.                                                         *)

Accept ==
    /\ phase' = "connected"
    /\ UNCHANGED <<nick, others, members, banned>>

\* The connection is gone, and the client with it from every channel.
Forget ==
    /\ phase' = "offline"
    /\ nick' = NoNick
    /\ members' = Without(nick)
    /\ UNCHANGED <<others, banned>>

Offline ==
    /\ phase = "offline" /\ nick = NoNick
    /\ others \in SUBSET (Nick \ {Spare})
    /\ members = [c \in Chan |-> {}]
    /\ banned = {}
    /\ toServer = <<>> /\ toDaemon = <<>>
============================================================================
