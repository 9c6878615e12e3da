------------------------ MODULE IrcSession_proofs ------------------------
(***************************************************************************)
(* Proofs about the daemon as an IRC client, for any channels, nicknames   *)
(* and bounds.                                                             *)
(***************************************************************************)
EXTENDS IrcSession, TLAPS, FiniteSetTheorems, SequenceTheorems

------------------------------------------------------------------------------
(* Types.                                                                   *)

Type == {"user", "nick", "say", "join", "part", "welcome", "nicknameinuse", "names", "kick",
         "quit", "pubmsg", "notonchannel", "cannotsendtochan"}

Message ==
    [type : Type, who : Nick \cup {NoNick}, new : Nick \cup {NoNick} \cup SUBSET Nick,
     chan : Chan \cup {""}]

\* What the daemon sends, and what it hears.
Query ==
    {m \in Message :
        \/ m.type = "user"
        \/ m.type = "nick" /\ m.who \in Nick
        \/ m.type \in {"say", "join", "part"} /\ m.chan \in Chan}

News ==
    {m \in Message :
        \/ m.type = "nicknameinuse"
        \/ m.type \in {"welcome", "quit"} /\ m.who \in Nick
        \/ m.type = "nick" /\ m.who \in Nick /\ m.new \in Nick
        \/ m.type \in {"join", "part", "kick"} /\ m.who \in Nick /\ m.chan \in Chan
        \/ m.type = "names" /\ m.new \subseteq Nick /\ m.chan \in Chan
        \/ m.type \in {"pubmsg", "notonchannel", "cannotsendtochan"} /\ m.chan \in Chan}

Types ==
    /\ TypeOK
    /\ others \subseteq Nick /\ banned \subseteq Chan
    /\ IF phase = "registered" THEN nick \in Nick ELSE \A c \in Chan : ~IsOn(c)
    /\ toServer \in Seq(Query) /\ toDaemon \in Seq(News)
    /\ IsFiniteSet(chSettings) /\ IsFiniteSet(autojoin)

\* A dictionary of open channels.
Users == UNION {[S -> SUBSET Nick] : S \in SUBSET Chan}

LEMMA UsersType ==
    ASSUME NEW u \in Users
    PROVE  /\ DOMAIN u \subseteq Chan /\ \A c \in DOMAIN u : u[c] \subseteq Nick
           /\ \A c \in Chan, S \in SUBSET Nick : Put(u, c, S) \in Users
           /\ \A c : Pop(u, c) \in Users
           /\ \A F \in [DOMAIN u -> SUBSET Nick] : F \in Users
<1>1. DOMAIN u \subseteq Chan /\ u \in [DOMAIN u -> SUBSET Nick]
  BY DEF Users
<1>2. ASSUME NEW T \in SUBSET Chan, NEW F \in [T -> SUBSET Nick] PROVE F \in Users
  BY <1>2 DEF Users
<1>3. ASSUME NEW c \in Chan, NEW S \in SUBSET Nick PROVE Put(u, c, S) \in Users
  <2>1. Put(u, c, S) \in [DOMAIN u \cup {c} -> SUBSET Nick]
    BY <1>1 DEF Put
  <2> QED
    BY <1>1, <1>2, <2>1
<1>4. ASSUME NEW c PROVE Pop(u, c) \in Users
  <2>1. Pop(u, c) \in [DOMAIN u \ {c} -> SUBSET Nick]
    BY <1>1 DEF Pop
  <2> QED
    BY <1>1, <1>2, <2>1
<1> QED
  BY <1>1, <1>2, <1>3, <1>4

LEMMA NobodyThere == <<>> \in Users /\ DOMAIN <<>> = {}
<1>1. <<>> = [c \in {} |-> {}]
  OBVIOUS
<1>2. [c \in {} |-> {}] \in [{} -> SUBSET Nick]
  OBVIOUS
<1>3. <<>> \in [{} -> SUBSET Nick]
  BY <1>1, <1>2
<1> QED
  BY <1>3 DEF Users

LEMMA Longer ==
    ASSUME NEW S, NEW s \in Seq(S), NEW t \in Seq(S)
    PROVE  /\ s \o t \in Seq(S) /\ Len(s \o t) = Len(s) + Len(t)
           /\ \A i \in 1 .. Len(s) : (s \o t)[i] = s[i]
           /\ \A i \in 1 .. Len(t) : (s \o t)[Len(s) + i] = t[i]
           /\ t # <<>> => s \o t # <<>>
BY ConcatProperties

LEMMA Shorter ==
    ASSUME NEW S, NEW s \in Seq(S), s # <<>>
    PROVE  /\ Len(s) \in Nat \ {0} /\ Head(s) = s[1] /\ Head(s) \in S
           /\ Tail(s) \in Seq(S) /\ Len(Tail(s)) = Len(s) - 1
           /\ \A i \in 1 .. Len(Tail(s)) : Tail(s)[i] = s[i + 1]
OBVIOUS

LEMMA NewsTypes ==
    /\ \A type \in {"welcome", "nicknameinuse", "quit"}, n \in Nick : About(type, n) \in News
    /\ \A n, new \in Nick : Msg("nick", n, new, "") \in News
    /\ \A type \in {"join", "part", "kick"}, n \in Nick, c \in Chan : Event(type, n, c) \in News
    /\ \A S \in SUBSET Nick, c \in Chan : NameReply(S, c) \in News
    /\ \A type \in {"pubmsg", "notonchannel", "cannotsendtochan"}, c \in Chan :
          OnChan(type, c) \in News
<1> USE DEF News, Message, Type, Msg
<1>1. ASSUME NEW type \in {"welcome", "nicknameinuse", "quit"}, NEW n \in Nick
      PROVE  About(type, n) \in News
  BY DEF About
<1>2. ASSUME NEW n \in Nick, NEW new \in Nick PROVE Msg("nick", n, new, "") \in News
  OBVIOUS
<1>3. ASSUME NEW type \in {"join", "part", "kick"}, NEW n \in Nick, NEW c \in Chan
      PROVE  Event(type, n, c) \in News
  BY DEF Event
<1>4. ASSUME NEW S \in SUBSET Nick, NEW c \in Chan PROVE NameReply(S, c) \in News
  BY DEF NameReply
<1>5. ASSUME NEW type \in {"pubmsg", "notonchannel", "cannotsendtochan"}, NEW c \in Chan
      PROVE  OnChan(type, c) \in News
  BY DEF OnChan
<1> QED
  BY Zenon, <1>1, <1>2, <1>3, <1>4, <1>5

LEMMA QueryTypes ==
    /\ About("user", NoNick) \in Query
    /\ \A n \in Nick : About("nick", n) \in Query
    /\ \A type \in {"say", "join", "part"}, c \in Chan : OnChan(type, c) \in Query
BY DEF Query, Message, Type, Msg, About, OnChan

LEMMA SendType == ASSUME Types, NEW ms \in Seq(Query), Send(ms) PROVE toServer' \in Seq(Query)
BY Longer DEF Send, Types

LEMMA TellType ==
    ASSUME Types
    PROVE  /\ \A m \in News : Tell(<<m>>) => toDaemon' \in Seq(News)
           /\ \A m1, m2 \in News : Tell(<<m1, m2>>) => toDaemon' \in Seq(News)
<1>1. ASSUME NEW ms \in Seq(News), Tell(ms) PROVE toDaemon' \in Seq(News)
  BY <1>1, Longer DEF Tell, Types
<1>2. ASSUME NEW m1 \in News, NEW m2 \in News
      PROVE  <<m1>> \in Seq(News) /\ <<m1, m2>> \in Seq(News)
  OBVIOUS
<1> QED
  BY <1>1, <1>2

\* What keeps the server's part of the types.
ServerTypes ==
    /\ phase \in {"offline", "connected", "user", "registered"}
    /\ nick \in Nick \cup {NoNick} /\ nick \notin others
    /\ members \in [Chan -> SUBSET (others \cup ({nick} \cap Nick))]
    /\ others \subseteq Nick /\ banned \subseteq Chan
    /\ IF phase = "registered" THEN nick \in Nick ELSE \A c \in Chan : ~IsOn(c)
    /\ toServer \in Seq(Query) /\ toDaemon \in Seq(News)

LEMMA ServeTypes ==
    ASSUME Types, Serve
    PROVE  ServerTypes' /\ (phase = "offline" <=> phase' = "offline")
<1> DEFINE m == Head(toServer)
<1>1. m \in Query /\ toServer' \in Seq(Query) /\ phase # "offline"
  <2>1. \E type : Reads(type)
    BY DEF Serve, Refused, ServeNick, ServeUser, ServeJoin, ServePart, ServeSay
  <2> QED
    BY <2>1, Shorter DEF Reads, Types
<1>2. /\ m.type = "nick" => m.who \in Nick
      /\ m.type \in {"say", "join", "part"} => m.chan \in Chan
  BY <1>1 DEF Query
<1> HIDE DEF m
<1> USE DEF Types, TypeOK, ServerTypes, Reads, IsOn
<1>3. CASE ServeNick
  <2> DEFINE n == m.who
  <2>1. n \in Nick
    BY <1>2, <1>3 DEF ServeNick, m
  <2>2. About("nicknameinuse", n) \in News /\ About("welcome", n) \in News
    BY <2>1, NewsTypes
  <2>3. nick \in Nick => Msg("nick", nick, n, "") \in News
    BY <2>1, NewsTypes
  <2>4. toDaemon' \in Seq(News)
    BY <1>3, <2>2, <2>3, TellType DEF ServeNick, m
  <2> HIDE DEF n
  <2>5. CASE UNCHANGED <<phase, nick, members, others, banned>>
    BY <1>1, <2>4, <2>5
  <2>6. CASE /\ n \notin others /\ nick' = n /\ UNCHANGED <<members, others, banned>>
             /\ phase \in {"connected", "user"} /\ phase' \in {phase, "registered"}
    BY <1>1, <2>1, <2>4, <2>6
  <2>7. CASE n \notin others \cup {nick} /\ phase = "registered" /\ nick' = n
             /\ members' = Renamed(nick, n) /\ UNCHANGED <<phase, others, banned>>
    BY <1>1, <2>1, <2>4, <2>7 DEF Renamed
  <2> QED
    BY <1>3, <2>5, <2>6, <2>7 DEF ServeNick, m, n
<1>4. CASE ServeUser
  <2>1. About("welcome", nick) \in News \/ nick = NoNick
    BY NewsTypes
  <2>2. toDaemon' \in Seq(News)
    BY <1>4, <2>1, TellType DEF ServeUser
  <2> QED
    BY <1>1, <1>4, <2>2 DEF ServeUser
<1>5. CASE ServeJoin
  <2> DEFINE c == m.chan
  <2>1. c \in Chan /\ nick \in Nick /\ members[c] \cup {nick} \subseteq Nick
    BY <1>2, <1>5 DEF ServeJoin, m
  <2>2. Event("join", nick, c) \in News /\ NameReply(members[c] \cup {nick}, c) \in News
    BY <2>1, NewsTypes
  <2>3. toDaemon' \in Seq(News)
    BY <1>5, <2>2, TellType DEF ServeJoin, m
  <2>4. phase = "registered" /\ UNCHANGED <<phase, nick, others, banned>>
        /\ (members' = members \/ members' = [members EXCEPT ![c] = @ \cup {nick}])
    BY <1>5 DEF ServeJoin, m
  <2> QED
    BY <1>1, <2>1, <2>3, <2>4
<1>6. CASE ServePart
  <2> DEFINE c == m.chan
  <2>1. c \in Chan /\ nick \in Nick
    BY <1>2, <1>6 DEF ServePart, m
  <2>2. Event("part", nick, c) \in News /\ OnChan("notonchannel", c) \in News
    BY <2>1, NewsTypes
  <2>3. toDaemon' \in Seq(News)
    BY <1>6, <2>2, TellType DEF ServePart, m
  <2>4. /\ UNCHANGED <<phase, nick, others, banned>>
        /\ members' = [members EXCEPT ![c] = @ \ {nick}]
    BY <1>6 DEF ServePart, m
  <2> QED
    BY <1>1, <2>1, <2>3, <2>4
<1>7. CASE ServeSay
  <2> DEFINE c == m.chan
  <2>1. OnChan("cannotsendtochan", c) \in News
    BY <1>2, <1>7, NewsTypes DEF ServeSay, m
  <2>2. toDaemon' \in Seq(News)
    BY <1>7, <2>1, TellType DEF ServeSay, m
  <2> QED
    BY <1>1, <1>7, <2>2 DEF ServeSay, serverVars
<1>8. CASE Refused("join") \/ Refused("part") \/ Refused("say")
  BY <1>1, <1>8 DEF Refused, serverVars
<1> QED
  BY <1>3, <1>4, <1>5, <1>6, <1>7, <1>8 DEF Serve

\* Who is on a channel is on the server, and whoever is not the client is another.
LEMMA OthersTypes ==
    ASSUME Types, OthersAct, UNCHANGED toServer PROVE ServerTypes' /\ UNCHANGED phase
<1> USE DEF Types, TypeOK, ServerTypes, IsOn
<1>1. ASSUME NEW n \in Nick, SignsOn(n) PROVE ServerTypes' /\ UNCHANGED phase
  BY <1>1 DEF SignsOn
<1>2. ASSUME NEW n \in Nick, Quits(n) PROVE ServerTypes' /\ UNCHANGED phase
  <2>1. toDaemon' \in Seq(News)
    BY <1>2, NewsTypes, TellType DEF Quits, TellIf
  <2> QED
    BY <1>2, <2>1 DEF Quits, Without
<1>3. ASSUME NEW n \in Nick, NEW new \in Nick, Renames(n, new)
      PROVE  ServerTypes' /\ UNCHANGED phase
  <2>1. Msg("nick", n, new, "") \in News
    BY NewsTypes
  <2>2. toDaemon' \in Seq(News)
    BY <1>3, <2>1, TellType DEF Renames, TellIf
  <2> QED
    BY <1>3, <2>2 DEF Renames, Renamed
<1>4. ASSUME NEW n \in Nick, NEW c \in Chan, Joins(n, c) PROVE ServerTypes' /\ UNCHANGED phase
  <2>1. Event("join", n, c) \in News
    BY NewsTypes
  <2>2. toDaemon' \in Seq(News)
    BY <1>4, <2>1, TellType DEF Joins, TellIf
  <2> QED
    BY <1>4, <2>2 DEF Joins
<1>5. ASSUME NEW n \in Nick, NEW c \in Chan, NEW how \in {"part", "kick"}, Leaves(n, c, how)
      PROVE  ServerTypes' /\ UNCHANGED phase
  <2>1. Event(how, n, c) \in News
    BY NewsTypes
  <2>2. toDaemon' \in Seq(News)
    BY <1>5, <2>1, TellType DEF Leaves, TellIf
  <2> QED
    BY <1>5, <2>2 DEF Leaves
<1>6. ASSUME NEW c \in Chan, Talks(c) PROVE ServerTypes' /\ UNCHANGED phase
  <2>1. OnChan("pubmsg", c) \in News
    BY NewsTypes
  <2> QED
    BY <1>6, <2>1, TellType DEF Talks, serverVars
<1>7. ASSUME NEW c \in Chan, NEW ban \in SUBSET Chan, Kicks(c, ban)
      PROVE  ServerTypes' /\ UNCHANGED phase
  <2>1. phase = "registered" /\ nick \in Nick
    BY <1>7 DEF Kicks
  <2>2. Event("kick", nick, c) \in News
    BY <2>1, NewsTypes
  <2>3. toDaemon' \in Seq(News)
    BY <1>7, <2>2, TellType DEF Kicks
  <2> QED
    BY <1>7, <2>1, <2>3 DEF Kicks
<1> QED
  BY <1>1, <1>2, <1>3, <1>4, <1>5, <1>6, <1>7 DEF OthersAct

\* The handlers keep the daemon's part of the types.
LEMMA ReceiveTypes == ASSUME Types, ReceiveLine PROVE Types'
<1> DEFINE m == Line
<1> USE DEF Types, TypeOK
<1>1. /\ toDaemon # <<>> /\ toDaemon' = Tail(toDaemon)
      /\ UNCHANGED <<serverVars, conn, nickname, missed>> /\ chSettings' \in {{}, chSettings}
  BY DEF ReceiveLine, OnWelcome, OnNicknameInUse, OnNick, OnJoin, OnNamReply, OnPart, OnKick,
         OnQuit, OnPubMsg, OnRefusal, Handles
<1>2. m \in News /\ toDaemon' \in Seq(News)
  BY <1>1, Shorter DEF Line
<1>3. toServer' \in Seq(Query)
  <2>1. CASE OnWelcome
    <3>1. PICK cs \in SetToSeqs(chSettings) : Send([i \in DOMAIN cs |-> OnChan("join", cs[i])])
      BY <2>1 DEF OnWelcome
    <3>2. Cardinality(chSettings) \in Nat /\ cs \in [1 .. Cardinality(chSettings) -> chSettings]
      BY <3>1, FS_CardinalityType DEF SetToSeqs
    <3>3. [i \in DOMAIN cs |-> OnChan("join", cs[i])] \in Seq(Query)
      <4> DEFINE js == [i \in DOMAIN cs |-> OnChan("join", cs[i])]
      <4>1. \A i \in DOMAIN cs : OnChan("join", cs[i]) \in Query
        BY <3>2, QueryTypes
      <4>2. PICK n \in Nat : js \in [1 .. n -> Query]
        BY <3>2, <4>1
      <4> HIDE DEF js
      <4>3. js \in Seq(Query)
        BY <4>2
      <4> QED
        BY <4>3 DEF js
    <3> QED
      BY <3>1, <3>3, SendType
  <2>2. CASE OnNicknameInUse
    <3>1. About("nick", Spare) \in Query
      BY QueryTypes, IrcServerAssumption
    <3>2. <<About("nick", Spare)>> \in Seq(Query)
      BY <3>1
    <3> QED
      BY <2>2, <3>2, SendType DEF OnNicknameInUse
  <2>3. CASE OnKick
    <3>1. OnChan("join", m.chan) \in Query
      BY <1>2, <2>3, QueryTypes DEF OnKick, Handles, News
    <3>2. <<OnChan("join", m.chan)>> \in Seq(Query)
      BY <3>1
    <3> QED
      BY <2>3, <3>2, SendType DEF OnKick
  <2> QED
    BY <2>1, <2>2, <2>3
    DEF ReceiveLine, OnNick, OnJoin, OnNamReply, OnPart, OnQuit, OnPubMsg, OnRefusal
<1>4. realNickname' \in Nick \cup {NoNick}
  <2>1. CASE OnWelcome
    BY <1>2, <2>1 DEF OnWelcome, Handles, News
  <2>2. CASE OnNick
    BY <1>2, <2>2 DEF OnNick, Handles, News
  <2> QED
    BY <2>1, <2>2 DEF ReceiveLine, OnNicknameInUse, OnJoin, OnNamReply, OnPart, OnKick, OnQuit,
       OnPubMsg, OnRefusal
<1>5. users' \in Users
  <2>1. users \in Users /\ \A c \in Chan : UsersOf(c) \in SUBSET Nick
    BY UsersType DEF Users, UsersOf
  <2>2. CASE OnNick
    <3>1. m.new \in Nick
      BY <1>2, <2>2 DEF OnNick, Handles, News
    <3>2. ChangeUserNick(m.who, m.new) \in [DOMAIN users -> SUBSET Nick]
      BY <2>1, <3>1, UsersType DEF ChangeUserNick
    <3> QED
      BY <2>1, <2>2, <3>2, UsersType DEF OnNick
  <2>3. CASE OnQuit
    <3>1. RemoveEverywhere(m.who) \in [DOMAIN users -> SUBSET Nick]
      BY <2>1, UsersType DEF RemoveEverywhere
    <3> QED
      BY <2>1, <2>3, <3>1, UsersType DEF OnQuit
  <2>4. CASE OnJoin \/ OnNamReply \/ OnPubMsg
    <3>1. m.chan \in Chan
      BY <1>2, <2>4 DEF OnJoin, OnNamReply, OnPubMsg, Handles, News
    <3>2. \E S \in SUBSET Nick : users' = AddUsers(m.chan, S)
      BY <1>2, <2>4 DEF OnJoin, OnNamReply, OnPubMsg, Handles, News
    <3> QED
      BY <2>1, <3>1, <3>2, UsersType DEF AddUsers
  <2>5. CASE OnPart \/ OnKick \/ OnRefusal
    <3>1. m.chan \in Chan
      BY <1>2, <2>5 DEF OnPart, OnKick, OnRefusal, Handles, News
    <3>2. users' = Pop(users, m.chan) \/ users' = RemoveUser(m.chan, m.who)
      BY <2>5 DEF OnPart, OnKick, OnRefusal
    <3>3. UsersOf(m.chan) \ {m.who} \in SUBSET Nick
      BY <2>1, <3>1
    <3> QED
      BY <2>1, <3>1, <3>2, <3>3, UsersType DEF RemoveUser
  <2> QED
    BY <2>1, <2>2, <2>3, <2>4, <2>5 DEF ReceiveLine, OnWelcome, OnNicknameInUse
<1>6. autojoin' \subseteq Chan /\ IsFiniteSet(autojoin')
  <2>1. \A c : IsFiniteSet(autojoin \cup {c}) /\ IsFiniteSet(autojoin \ {c})
    BY FS_AddElement, FS_RemoveElement
  <2>2. CASE OnJoin
    BY <1>2, <2>1, <2>2 DEF OnJoin, Handles, News
  <2>3. CASE OnPart
    BY <2>1, <2>3 DEF OnPart
  <2> QED
    BY <2>2, <2>3 DEF ReceiveLine, OnWelcome, OnNicknameInUse, OnNick, OnNamReply, OnKick,
          OnQuit, OnPubMsg, OnRefusal
<1>7. chSettings' \subseteq Chan /\ IsFiniteSet(chSettings')
  BY <1>1, FS_EmptySet
<1> HIDE DEF m
<1> QED
  BY <1>1, <1>2, <1>3, <1>4, <1>5, <1>6, <1>7 DEF serverVars, Users, IsOn

LEMMA CommandFields ==
    ASSUME NEW cmd \in Command
    PROVE  /\ cmd.type \in {"say", "join", "part"} => cmd.chan \in Chan
           /\ cmd.type = "nick" => cmd.who \in Nick
           /\ cmd.type # "update" => cmd \in Query
<1>1. CASE cmd \in ChannelCommand
  <2>1. PICK type \in {"say", "join", "part"}, c \in Chan : cmd = OnChan(type, c)
    BY <1>1 DEF ChannelCommand
  <2>2. cmd.type = type /\ cmd.chan = c
    BY <2>1 DEF OnChan, Msg
  <2> QED
    BY <2>1, <2>2, QueryTypes
<1>2. CASE \E n \in Nick : cmd = About("nick", n)
  <2>1. PICK n \in Nick : cmd = About("nick", n)
    BY <1>2
  <2>2. cmd.type = "nick" /\ cmd.who = n
    BY <2>1 DEF About, Msg
  <2> QED
    BY <2>1, <2>2, QueryTypes
<1>3. CASE cmd = OnChan("update", "")
  <2>1. cmd.type = "update"
    BY <1>3 DEF OnChan, Msg
  <2> QED
    BY <2>1
<1> QED
  BY <1>1, <1>2, <1>3 DEF Command

\* Commands: only what the daemon sends, the open channels and the nickname to connect with.
LEMMA CommandTypes == ASSUME Types, NEW cmd \in Command, OnUserCommand(cmd) PROVE Types'
<1> USE DEF Types, TypeOK
<1>1. Obey(cmd)
  BY DEF OnUserCommand
<1>2. /\ cmd.type \in {"say", "join", "part"} => cmd.chan \in Chan
      /\ cmd.type = "nick" => cmd.who \in Nick
      /\ cmd.type # "update" => cmd \in Query
  BY CommandFields
<1>3. toServer' \in Seq(Query)
  <2>1. CASE cmd.type = "update"
    BY <1>1, <2>1 DEF Obey
  <2>2. CASE cmd.type # "update"
    <3>1. <<cmd>> \in Seq(Query)
      BY <1>2, <2>2
    <3> QED
      BY <1>1, <2>2, <3>1, SendType DEF Obey
  <2> QED
    BY <2>1, <2>2
<1>4. users' \in Users
  <2>1. users \in Users /\ \A c \in Chan : UsersOf(c) \in SUBSET Nick
    BY UsersType DEF Users, UsersOf
  <2> QED
    BY <1>1, <1>2, <2>1, UsersType DEF Obey, AddUsers
<1>5. nickname' \in Nick /\ conn' \in {conn, "new"} /\ (conn' # conn => conn = "none")
  BY <1>2, IrcSessionAssumption DEF OnUserCommand, NicknameAfter, Create
<1>6. /\ UNCHANGED <<serverVars, toDaemon, realNickname, autojoin>>
      /\ chSettings' \in {chSettings, autojoin}
  BY DEF OnUserCommand, Create
<1> QED
  BY <1>3, <1>4, <1>5, <1>6 DEF serverVars, Users, IsOn

LEMMA ConnectTypes ==
    ASSUME Types, OnConnect \/ OnClose \/ DropDead \/ OnTimeout \/ Crash PROVE Types'
<1> USE DEF Types, TypeOK, IsOn
<1>1. CASE OnConnect
  <2>1. <<About("nick", nickname), About("user", NoNick)>> \in Seq(Query)
    BY QueryTypes
  <2>2. toServer' \in Seq(Query)
    BY <1>1, <2>1, SendType DEF OnConnect
  <2> QED
    BY <1>1, <2>2, IrcSessionAssumption DEF OnConnect, Accept
<1>2. CASE OnClose
  BY <1>2, IrcServerAssumption DEF OnClose, Forget, Without
<1>3. CASE DropDead \/ Crash
  <2>1. /\ conn' = "none" /\ nickname' = Mine /\ realNickname' = NoNick /\ users' = <<>>
        /\ chSettings' = {} /\ phase' = "offline" /\ nick' = NoNick
        /\ members' = [c \in Chan |-> members[c] \ {nick}]
        /\ UNCHANGED <<others, banned, autojoin>>
        /\ toServer' = <<>> /\ toDaemon' = <<>>
    BY <1>3 DEF DropDead, Crash, NoUser, Forget, Without
  <2>2. /\ members' \in [Chan -> SUBSET others] /\ NoNick \notin others
    BY <2>1, IrcServerAssumption
  <2>3. /\ \A c \in Chan : nick' \notin members'[c]
        /\ members' \in [Chan -> SUBSET (others' \cup ({nick'} \cap Nick))]
    BY <2>1, <2>2, IrcServerAssumption
  <2>4. toServer' \in Seq(Query) /\ toDaemon' \in Seq(News)
    BY <2>1
  <2>5. users' \in Users /\ nickname' \in Nick /\ IsFiniteSet(chSettings')
    BY <2>1, NobodyThere, FS_EmptySet, IrcSessionAssumption
  <2> QED
    BY <2>1, <2>2, <2>3, <2>4, <2>5 DEF Users
<1>4. CASE OnTimeout
  BY <1>4, IrcSessionAssumption DEF OnTimeout, Create, serverVars
<1> QED
  BY <1>1, <1>2, <1>3, <1>4

\* A handler that raises keeps the types wherever it stops.
LEMMA RaisingTypes == ASSUME Types, OnRaisingLine PROVE Types'
<1> DEFINE m == Line
<1> USE DEF Types, TypeOK
<1>1. PICK n \in 1 .. Len(toDaemon) : toDaemon' = SubSeq(toDaemon, n + 1, Len(toDaemon))
  BY DEF OnRaisingLine
<1>2. toDaemon' \in Seq(News) /\ m \in News
  BY <1>1 DEF Line
<1>3. /\ UNCHANGED <<phase, nick, others, members, banned, toServer, conn, nickname, chSettings>>
      /\ HandledInPart
  BY DEF OnRaisingLine, serverVars
<1>4. users \in Users /\ \A c \in Chan : UsersOf(c) \in SUBSET Nick
  BY UsersType DEF Users, UsersOf
<1>5. /\ realNickname' \in Nick \cup {NoNick} /\ users' \in Users
      /\ autojoin' \subseteq Chan /\ IsFiniteSet(autojoin')
  <2>1. CASE UNCHANGED <<realNickname, users, autojoin>>
    BY <1>4, <2>1
  <2>2. CASE m.type = "nick"
    <3>1. m.new \in Nick
      BY <1>2, <2>2 DEF News
    <3>2. ChangeUserNick(m.who, m.new) \in [DOMAIN users -> SUBSET Nick]
      BY <1>4, <3>1, UsersType DEF ChangeUserNick
    <3>3. /\ realNickname' \in {m.new, realNickname} /\ autojoin' = autojoin
          /\ users' \in [DOMAIN users -> SUBSET Nick] \/ users' = users
      BY <1>3, <1>4, <2>2, <3>2, UsersType DEF HandledInPart
    <3> QED
      BY <1>4, <3>1, <3>3, UsersType
  <2>3. CASE m.type = "quit"
    <3>1. /\ UNCHANGED <<realNickname, autojoin>>
          /\ users' \in [DOMAIN users -> SUBSET Nick] \/ users' = users
      BY <1>3, <1>4, <2>3, UsersType DEF HandledInPart
    <3> QED
      BY <1>4, <3>1, UsersType
  <2>4. CASE /\ m.type \notin {"nick", "quit"}
             /\ ~UNCHANGED <<realNickname, users, autojoin>>
    <3>1. m.type \in {"join", "names", "part", "kick", "notonchannel", "cannotsendtochan",
                       "pubmsg"}
      BY <1>3, <2>4 DEF HandledInPart
    <3>2. /\ m.chan \in Chan
          /\ m.type = "join" => m.who \in Nick
          /\ m.type = "names" => m.new \subseteq Nick
      BY <1>2, <3>1 DEF News
    <3>3. /\ realNickname' = realNickname
          /\ autojoin' \in {autojoin, autojoin \cup {m.chan}, autojoin \ {m.chan}}
      BY <1>3, <2>4 DEF HandledInPart
    <3>4. \E S \in SUBSET Nick : users' = Put(users, m.chan, S)
      <4>1. UsersOf(m.chan) \in SUBSET Nick
        BY <1>4, <3>2
      <4>2. \/ m.type = "join" /\ users' = AddUsers(m.chan, {m.who})
            \/ m.type = "names" /\ \E S \in SUBSET m.new : users' = AddUsers(m.chan, S)
            \/ \E u : users' = RemoveUser(m.chan, u)
            \/ users' = AddUsers(m.chan, {})
        BY <1>3, <2>4 DEF HandledInPart
      <4> QED
        BY <3>2, <4>1, <4>2 DEF AddUsers, RemoveUser
    <3>5. IsFiniteSet(autojoin')
      <4>1. \A c : IsFiniteSet(autojoin \cup {c}) /\ IsFiniteSet(autojoin \ {c})
        BY FS_AddElement, FS_RemoveElement
      <4> QED
        BY <3>3, <4>1
    <3> QED
      BY <1>4, <3>2, <3>3, <3>4, <3>5, UsersType
  <2> QED
    BY <2>1, <2>2, <2>3, <2>4
<1> QED
  BY <1>2, <1>3, <1>5 DEF Users, IsOn

LEMMA TypesInit == Init => Types
<1> SUFFICES ASSUME Init PROVE Types
  OBVIOUS
<1> QED
  BY NobodyThere, FS_EmptySet, IrcServerAssumption, IrcSessionAssumption
  DEF Init, Offline, Types, TypeOK, IsOn, Users

LEMMA TypesNext == Types /\ [Next]_vars => Types'
<1> SUFFICES ASSUME Types, [Next]_vars PROVE Types'
  OBVIOUS
<1>1. CASE Server
  <2>1. ServerTypes' /\ (phase = "offline" <=> phase' = "offline")
    BY <1>1, ServeTypes, OthersTypes DEF Server
  <2> QED
    BY <1>1, <2>1 DEF Server, ircUser, ServerTypes, Types, TypeOK
<1>3. CASE UNCHANGED vars
  BY <1>3 DEF vars, serverVars, wire, ircUser, Types, TypeOK, IsOn
<1> QED
  BY <1>1, <1>3, ReceiveTypes, RaisingTypes, CommandTypes, ConnectTypes DEF Next, Daemon

LEMMA TypesAlways == Spec => []Types
BY TypesInit, TypesNext, PTL DEF Spec

\* The types of both ends, and only a connected IRCUser is known to the server.
THEOREM TypeCorrect == Spec => []TypeOK
BY TypesAlways, PTL DEF Types

------------------------------------------------------------------------------
(* The registration.                                                        *)

Holds(q, type) == \E i \in 1 .. Len(q) : q[i].type = type

\* Until the registration, the daemon hears of refused nicknames only; unless one of these
\* lines has raised, USER is under way, and what the server still misses is a nickname, which comes or has been refused.
Registering ==
    /\ conn = "up" => phase # "offline"
    /\ ~missed =>
          /\ phase \in {"connected", "user"} =>
                /\ realNickname = NoNick
                /\ \A i \in 1 .. Len(toDaemon) : toDaemon[i].type = "nicknameinuse"
          /\ phase = "connected" => Holds(toServer, "user")
          /\ phase = "user" \/ (phase = "connected" /\ nick = NoNick) =>
                Holds(toServer, "nick") \/ toDaemon # <<>>

\* An IRCUser that is not connected yet has heard nothing, and is to join all channels
\* with autojoin.
Unheard ==
    /\ conn \in {"none", "new"} =>
          realNickname = NoNick /\ toDaemon = <<>> /\ \A c \in Chan : UsersOf(c) = {}
    /\ conn = "new" => chSettings = autojoin

LEMMA HoldsMore ==
    ASSUME NEW S, NEW s \in Seq(S), NEW t \in Seq(S), NEW type
    PROVE  /\ Holds(s, type) => Holds(s \o t, type)
           /\ Holds(t, type) => Holds(s \o t, type)
<1>1. /\ Len(s) \in Nat /\ Len(t) \in Nat /\ Len(s \o t) = Len(s) + Len(t)
      /\ \A i \in 1 .. Len(s) : (s \o t)[i] = s[i]
      /\ \A i \in 1 .. Len(t) : (s \o t)[Len(s) + i] = t[i]
  BY Longer
<1>2. ASSUME NEW i \in 1 .. Len(s), s[i].type = type PROVE Holds(s \o t, type)
  BY <1>1, <1>2 DEF Holds
<1>3. ASSUME NEW i \in 1 .. Len(t), t[i].type = type PROVE Holds(s \o t, type)
  <2>1. Len(s) + i \in 1 .. Len(s \o t)
    BY <1>1
  <2> QED
    BY <1>1, <1>3, <2>1 DEF Holds
<1> QED
  BY <1>2, <1>3 DEF Holds

LEMMA HoldsThose ==
    ASSUME NEW x, NEW y
    PROVE  Holds(<<x>>, x.type) /\ Holds(<<x, y>>, x.type) /\ Holds(<<x, y>>, y.type)
<1>1. 1 \in 1 .. Len(<<x>>) /\ <<x>>[1] = x
  OBVIOUS
<1>2. {1, 2} \subseteq 1 .. Len(<<x, y>>) /\ <<x, y>>[1] = x /\ <<x, y>>[2] = y
  OBVIOUS
<1> QED
  BY <1>1, <1>2 DEF Holds

LEMMA HoldsRest ==
    ASSUME NEW S, NEW s \in Seq(S), s # <<>>, NEW type, Holds(s, type)
    PROVE  Head(s).type = type \/ Holds(Tail(s), type)
<1>1. PICK i \in 1 .. Len(s) : s[i].type = type
  BY DEF Holds
<1>2. CASE i = 1
  BY <1>1, <1>2, Shorter
<1>3. CASE i # 1
  <2>1. i - 1 \in 1 .. Len(Tail(s)) /\ Tail(s)[i - 1] = s[i]
    BY <1>3, Shorter
  <2> QED
    BY <1>1, <2>1 DEF Holds
<1> QED
  BY <1>2, <1>3

LEMMA Sends ==
    ASSUME Types, NEW ms \in Seq(Query), Send(ms), NEW type
    PROVE  /\ Holds(toServer, type) => Holds(toServer', type)
           /\ conn # "closed" /\ Holds(ms, type) => Holds(toServer', type)
BY HoldsMore DEF Send, Types

\* What happens on the channels before the registration is not the client's concern.
LEMMA OthersUnheard ==
    ASSUME Types, OthersAct
    PROVE  phase' = phase /\ nick' = nick /\ (phase # "registered" => toDaemon' = toDaemon)
BY DEF OthersAct, SignsOn, Quits, Renames, Joins, Leaves, Talks, Kicks, TellIf, Sees,
      Types, serverVars

\* Commands do not get between.
LEMMA CommandSends ==
    ASSUME Types, NEW cmd \in Command, OnUserCommand(cmd)
    PROVE  /\ \A type : Holds(toServer, type) => Holds(toServer', type)
           /\ UNCHANGED <<serverVars, toDaemon, realNickname, autojoin, missed>>
           /\ \/ UNCHANGED <<conn, chSettings>>
              \/ conn = "none" /\ conn' = "new" /\ chSettings' = autojoin
           /\ \A c \in Chan : UsersOf(c)' = UsersOf(c)
<1>1. \A type : Holds(toServer, type) => Holds(toServer', type)
  <2>1. CASE cmd.type # "update"
    <3>1. <<cmd>> \in Seq(Query) /\ Send(<<cmd>>)
      BY <2>1, CommandFields DEF OnUserCommand, Obey
    <3> QED
      BY <3>1, Sends
  <2> QED
    BY <2>1 DEF OnUserCommand, Obey
<1>2. \A c \in Chan : UsersOf(c)' = UsersOf(c)
  <2>1. users' = users \/ \E c \in Chan : users' = Put(users, c, UsersOf(c))
    BY CommandFields DEF OnUserCommand, Obey, AddUsers
  <2> QED
    BY <2>1 DEF Put, UsersOf
<1> QED
  BY <1>1, <1>2 DEF OnUserCommand, Create

LEMMA RegisteringServe ==
    ASSUME Types, Registering, Serve, UNCHANGED <<realNickname, conn, missed>>
    PROVE  Registering'
<1> DEFINE m == Head(toServer)
<1> USE DEF Registering, Reads
<1>1. /\ toServer # <<>> /\ toServer \in Seq(Query) /\ toServer' = Tail(toServer)
      /\ phase # "offline"
  BY DEF Serve, Refused, ServeNick, ServeUser, ServeJoin, ServePart, ServeSay, Types
<1>2. \A type : m.type # type /\ Holds(toServer, type) => Holds(toServer', type)
  BY <1>1, HoldsRest
<1> HIDE DEF m
<1> SUFFICES ASSUME ~missed PROVE Registering'
  <2>1. phase' # "offline" /\ missed' = missed
    BY <1>1, ServeTypes
  <2> QED
    BY <2>1
<1>3. CASE ServeNick
  <2>1. m.type = "nick" /\ m.who \in Nick
    <3>1. m \in Query
      BY <1>1, Shorter DEF m
    <3>2. m.type = "nick"
      BY <1>3 DEF ServeNick, m
    <3> QED
      BY <3>1, <3>2 DEF Query
  <2>2. Holds(toServer, "user") => Holds(toServer', "user")
    BY <1>2, <2>1
  <2>3. CASE phase = "registered"
    <3>1. phase' = "registered"
      BY <1>3, <2>3 DEF ServeNick
    <3> QED
      BY <3>1
  <2>4. CASE phase # "registered" /\ m.who \in others
    <3>1. About("nicknameinuse", m.who) \in News
      BY <2>1, NewsTypes
    <3>2. About("nicknameinuse", m.who).type = "nicknameinuse"
      BY DEF About, Msg
    <3>3. toDaemon' = toDaemon \o <<About("nicknameinuse", m.who)>> /\ phase' = phase
      BY <1>3, <2>4 DEF ServeNick, Tell, m
    <3>4. toDaemon' # <<>>
      BY <3>1, <3>3, Longer DEF Types
    <3>5. ASSUME phase # "connected" \/ phase # "user",
                 \A i \in 1 .. Len(toDaemon) : toDaemon[i].type = "nicknameinuse",
                 NEW i \in 1 .. Len(toDaemon')
          PROVE  toDaemon'[i].type = "nicknameinuse"
      <4> DEFINE x == About("nicknameinuse", m.who)
      <4>1. x.type = "nicknameinuse" /\ x \in News /\ toDaemon' = Append(toDaemon, x)
        BY <3>1, <3>2, <3>3 DEF Types
      <4> HIDE DEF x
      <4> QED
        BY <3>5, <4>1 DEF Types
    <3> QED
      BY <1>1, <2>2, <3>3, <3>4, <3>5
  <2>5. CASE phase # "registered" /\ m.who \notin others
    <3>1. \/ phase = "connected" /\ nick' = m.who /\ UNCHANGED <<phase, toDaemon>>
          \/ phase' = "registered"
      BY <1>3, <2>5 DEF ServeNick, m
    <3>2. m.who # NoNick
      BY <2>1, IrcServerAssumption
    <3> QED
      BY <1>1, <2>2, <3>1, <3>2
  <2> QED
    BY <2>3, <2>4, <2>5
<1>4. CASE ServeUser
  <2>1. m.type = "user"
    BY <1>4 DEF ServeUser, m
  <2>2. Holds(toServer, "nick") => Holds(toServer', "nick")
    BY <1>2, <2>1
  <2> QED
    BY <1>4, <2>2 DEF ServeUser
<1>5. CASE ServeJoin \/ ServePart \/ ServeSay
  BY <1>5 DEF ServeJoin, ServePart, ServeSay, serverVars
<1>6. CASE Refused("join") \/ Refused("part") \/ Refused("say")
  <2>1. m.type \in {"join", "part", "say"} /\ UNCHANGED <<serverVars, toDaemon>>
    BY <1>6 DEF Refused, m
  <2> QED
    BY <1>2, <2>1 DEF serverVars
<1> QED
  BY <1>3, <1>4, <1>5, <1>6 DEF Serve

LEMMA RegisteringReceive ==
    ASSUME Types, Registering, ReceiveLine PROVE Registering'
<1>1. /\ conn = "up" /\ toDaemon # <<>> /\ toDaemon' = Tail(toDaemon)
      /\ UNCHANGED <<serverVars, conn, missed>>
      /\ Line = toDaemon[1] /\ 1 \in 1 .. Len(toDaemon)
  BY Shorter
  DEF ReceiveLine, OnWelcome, OnNicknameInUse, OnNick, OnJoin, OnNamReply, OnPart, OnKick,
      OnQuit, OnPubMsg, OnRefusal, Handles, Line, Types
<1>2. CASE phase = "registered" \/ missed
  BY <1>1, <1>2 DEF Registering, serverVars
<1>3. CASE phase # "registered" /\ ~missed
  <2>1. Line.type = "nicknameinuse" /\ realNickname = NoNick
    BY <1>1, <1>3 DEF Registering, Types, TypeOK
  <2>2. OnNicknameInUse
    BY <2>1 DEF ReceiveLine, OnWelcome, OnNick, OnJoin, OnNamReply, OnPart, OnKick,
      OnQuit, OnPubMsg, OnRefusal, Handles
  <2>3. <<About("nick", Spare)>> \in Seq(Query) /\ Send(<<About("nick", Spare)>>)
    BY <2>1, <2>2, QueryTypes, IrcServerAssumption DEF OnNicknameInUse
  <2>4. Holds(<<About("nick", Spare)>>, "nick")
    <3>1. About("nick", Spare).type = "nick"
      BY DEF About, Msg
    <3> QED
      BY <3>1, HoldsThose
  <2>5. Holds(toServer', "nick") /\ (Holds(toServer, "user") => Holds(toServer', "user"))
    BY <1>1, <2>3, <2>4, Sends
  <2>6. \A i \in 1 .. Len(toDaemon') :
            toDaemon'[i] = toDaemon[i + 1] /\ i + 1 \in 1 .. Len(toDaemon)
    BY <1>1, Shorter DEF Types
  <2> QED
    BY <1>1, <2>1, <2>2, <2>5, <2>6 DEF Registering, serverVars, OnNicknameInUse
<1> QED
  BY <1>2, <1>3

LEMMA RegisteringNext == Types /\ Registering /\ Unheard /\ [Next]_vars => Registering'
<1> SUFFICES ASSUME Types, Registering, Unheard, [Next]_vars PROVE Registering'
  OBVIOUS
<1>1. CASE Server
  BY <1>1, RegisteringServe, OthersUnheard DEF Server, Registering, ircUser
<1>2. CASE OnRaisingLine
  BY <1>2 DEF OnRaisingLine, Registering, serverVars
<1>3. CASE OnConnect
  <2> DEFINE ms == <<About("nick", nickname), About("user", NoNick)>>
  <2>1. ms \in Seq(Query) /\ Send(ms) /\ conn = "new"
    BY <1>3, QueryTypes DEF OnConnect, Types, TypeOK
  <2>2. Holds(ms, "nick") /\ Holds(ms, "user")
    <3>1. About("nick", nickname).type = "nick" /\ About("user", NoNick).type = "user"
      BY DEF About, Msg
    <3> QED
      BY <3>1, HoldsThose
  <2> HIDE DEF ms
  <2>3. Holds(toServer', "nick") /\ Holds(toServer', "user")
    BY <2>1, <2>2, Sends
  <2> QED
    BY <1>3, <2>1, <2>3 DEF OnConnect, Accept, Registering, Unheard
<1>4. CASE OnClose \/ DropDead \/ Crash
  BY <1>4 DEF OnClose, DropDead, Crash, NoUser, Forget, Registering
<1>5. CASE OnTimeout
  BY <1>5 DEF OnTimeout, Create, Registering, serverVars
<1>6. ASSUME NEW cmd \in Command, OnUserCommand(cmd) PROVE Registering'
  BY <1>6, CommandSends DEF Registering, serverVars
<1>7. CASE UNCHANGED vars
  BY <1>7 DEF vars, serverVars, wire, ircUser, Registering
<1> QED
  BY <1>1, <1>2, <1>3, <1>4, <1>5, <1>6, <1>7, RegisteringReceive DEF Next, Daemon

LEMMA UnheardNext == Types /\ Unheard /\ [Next]_vars => Unheard'
<1> SUFFICES ASSUME Types, Unheard, [Next]_vars PROVE Unheard'
  OBVIOUS
<1>1. CASE Server
  <2>1. conn = "up" \/ toDaemon' = toDaemon
    <3>1. CASE Serve
      BY <3>1 DEF Serve, Refused, ServeNick, ServeUser, ServeJoin, ServePart, ServeSay,
            Reads, Types, TypeOK
    <3> QED
      BY <1>1, <3>1, OthersUnheard DEF Server, Types, TypeOK
  <2> QED
    BY <1>1, <2>1 DEF Server, ircUser, Unheard, UsersOf
<1>2. CASE conn' = "up" \/ conn' = "closed"
  BY <1>2 DEF Unheard
<1>3. CASE DropDead \/ Crash
  BY <1>3, NobodyThere DEF DropDead, Crash, NoUser, Unheard, UsersOf
<1>4. CASE OnTimeout
  BY <1>4 DEF OnTimeout, Create, Unheard, UsersOf
<1>5. ASSUME NEW cmd \in Command, OnUserCommand(cmd) PROVE Unheard'
  BY <1>5, CommandSends DEF Unheard
<1>6. CASE UNCHANGED vars
  BY <1>6 DEF vars, wire, ircUser, Unheard, UsersOf
<1>7. CASE OnConnect \/ OnClose \/ OnRaisingLine
  BY <1>2, <1>7 DEF OnConnect, OnClose, OnRaisingLine, ircUser
<1>8. CASE ReceiveLine
  <2>1. conn = "up" /\ conn' = conn
    BY <1>8 DEF ReceiveLine, OnWelcome, OnNicknameInUse, OnNick, OnJoin, OnNamReply,
          OnPart, OnKick,
      OnQuit, OnPubMsg, OnRefusal, Handles
  <2> QED
    BY <1>2, <2>1
<1> QED
  BY <1>1, <1>3, <1>4, <1>5, <1>6, <1>7, <1>8 DEF Next, Daemon

LEMMA Always == Spec => [](Types /\ Registering /\ Unheard)
<1>1. Init => Types /\ Registering /\ Unheard
  BY TypesInit, NobodyThere DEF Init, Offline, Registering, Unheard, UsersOf
<1>2. Types /\ Registering /\ Unheard /\ [Next]_vars => (Types /\ Registering /\ Unheard)'
  BY TypesNext, RegisteringNext, UnheardNext
<1> QED
  BY <1>1, <1>2, PTL DEF Spec

\* A connection on which nothing is under way, and of which no line has raised, is
\* registered: NICK and USER come before anything else, and a nickname in use is replaced
\* until the server takes one.  (Where a line has raised, the refusal may have gone
\* unanswered, and only a NICK of the user's or the end of the connection mends it.)
THEOREM RegisteredAlways == Spec => []Registered
<1>1. Types /\ Registering => Registered
  BY DEF Types, TypeOK, Registering, Registered, Holds
<1> QED
  BY <1>1, Always, PTL

------------------------------------------------------------------------------
(* Who is on a channel.                                                     *)

\* Nobody is on a channel that does not let them in, and a client that is not connected has
\* no nickname.
Absent ==
    /\ \A c \in banned : ~IsOn(c)
    /\ phase = "offline" => nick = NoNick

\* Renaming somebody changes who is on a channel for nobody else.
LEMMA Renaming ==
    ASSUME Types, NEW n \in Nick, NEW new \in Nick \ (others \cup {nick}), NEW c \in Chan
    PROVE  /\ Renamed(n, new)[c] = IF n \in members[c] THEN (members[c] \ {n}) \cup {new}
                                                       ELSE members[c]
           /\ new \in Renamed(n, new)[c] <=> n \in members[c]
BY DEF Renamed, Types, TypeOK

LEMMA AbsentServer ==
    ASSUME Types, Absent, Server PROVE Absent'
<1>1. members \in [Chan -> SUBSET (others \cup ({nick} \cap Nick))] /\ banned \subseteq Chan
  BY DEF Types, TypeOK
<1>2. phase # "offline" \/ UNCHANGED <<phase, nick>>
  BY OthersUnheard
  DEF Server, Serve, Refused, ServeNick, ServeUser, ServeJoin, ServePart, ServeSay, Reads
<1>3. phase' = "offline" => phase = "offline"
  BY <1>2, ServeTypes, OthersUnheard DEF Server
<1>4. ASSUME NEW c \in banned' PROVE ~IsOn(c)'
  <2> USE DEF IsOn, Absent
  <2>1. CASE ServeNick
    <3> DEFINE n == Head(toServer).who
    <3>1. banned' = banned /\ \/ UNCHANGED <<nick, members>>
                              \/ n \notin others /\ nick' = n /\ UNCHANGED members
                              \/ /\ n \notin others \cup {nick} /\ nick' = n
                                 /\ members' = Renamed(nick, n)
      BY <2>1 DEF ServeNick
    <3> QED
      BY <1>1, <1>4, <3>1 DEF Renamed
  <2>2. CASE ServeJoin
    BY <1>1, <1>4, <2>2 DEF ServeJoin
  <2>3. CASE ServePart
    BY <1>1, <1>4, <2>3 DEF ServePart
  <2>4. CASE ServeUser \/ ServeSay \/ Refused("join") \/ Refused("part") \/ Refused("say")
    BY <1>4, <2>4 DEF ServeUser, ServeSay, Refused, serverVars
  <2>5. CASE OthersAct
    <3>1. ASSUME NEW n \in Nick, NEW new \in Nick, Renames(n, new) PROVE ~IsOn(c)'
      BY <1>1, <1>4, <3>1 DEF Renames, Renamed
    <3>2. ASSUME NEW n \in Nick, SignsOn(n) \/ Quits(n) PROVE ~IsOn(c)'
      BY <1>1, <1>4, <3>2 DEF SignsOn, Quits, Without
    <3>3. ASSUME NEW n \in Nick, NEW d \in Chan, NEW how, Joins(n, d) \/ Leaves(n, d, how)
          PROVE  ~IsOn(c)'
      BY <1>1, <1>4, <3>3 DEF Joins, Leaves, Types, TypeOK
    <3>4. ASSUME NEW d \in Chan, Talks(d) \/ Kicks(d, {}) \/ Kicks(d, {d}) PROVE ~IsOn(c)'
      BY <1>1, <1>4, <3>4 DEF Talks, Kicks, serverVars
    <3> QED
      BY <2>5, <3>1, <3>2, <3>3, <3>4 DEF OthersAct
  <2> QED
    BY <2>1, <2>2, <2>3, <2>4, <2>5 DEF Server, Serve
<1> QED
  BY <1>2, <1>3, <1>4 DEF Absent

LEMMA AbsentNext == Types /\ Absent /\ [Next]_vars => Absent'
<1> SUFFICES ASSUME Types, Absent, [Next]_vars PROVE Absent'
  OBVIOUS
<1>1. members \in [Chan -> SUBSET Nick] /\ banned \subseteq Chan
  BY DEF Types, TypeOK
<1>2. CASE OnClose \/ DropDead \/ Crash
  BY <1>1, <1>2, IrcServerAssumption
  DEF OnClose, DropDead, Crash, NoUser, Forget, Without, Absent, IsOn
<1>3. CASE ReceiveLine \/ OnRaisingLine
  BY <1>3 DEF ReceiveLine, OnWelcome, OnNicknameInUse, OnNick, OnJoin, OnNamReply, OnPart,
        OnKick, OnQuit, OnPubMsg, OnRefusal, Handles, OnRaisingLine, serverVars, Absent, IsOn
<1>4. CASE OnConnect
  BY <1>4 DEF OnConnect, Accept, Absent, IsOn
<1>5. CASE OnTimeout \/ \E cmd \in Command : OnUserCommand(cmd)
  BY <1>5, CommandSends DEF OnTimeout, Create, serverVars, Absent, IsOn
<1>6. CASE UNCHANGED vars
  BY <1>6 DEF vars, serverVars, Absent, IsOn
<1> QED
  BY <1>2, <1>3, <1>4, <1>5, <1>6, AbsentServer DEF Next, Daemon

------------------------------------------------------------------------------
(* What the daemon will know once it has heard the lines that are under way. *)

\* Nickname, members and autojoin, as the daemon keeps them; a closed channel is one with
\* nobody on it.
Knowledge == [n : Nick \cup {NoNick}, us : [Chan -> SUBSET Nick], aj : SUBSET Chan]

Here == [n |-> realNickname, us |-> [c \in Chan |-> UsersOf(c)], aj |-> autojoin]

\* What the handler of m makes of k.
NicknameHeard(k, m) ==
    IF m.type = "welcome" THEN m.who
    ELSE IF m.type = "nick" /\ m.who = k.n THEN m.new ELSE k.n

LeftHeard(k, m, c) == IF m.who = k.n THEN {} ELSE k.us[c] \ {m.who}

UsersHeard(k, m, c) ==
    CASE m.type = "nick" ->
            IF m.who \in k.us[c] THEN (k.us[c] \ {m.who}) \cup {m.new} ELSE k.us[c]
      [] m.type = "quit" -> k.us[c] \ {m.who}
      [] m.type = "join" /\ m.chan = c -> k.us[c] \cup {m.who}
      [] m.type = "names" /\ m.chan = c -> k.us[c] \cup m.new
      [] m.type \in {"part", "kick"} /\ m.chan = c -> LeftHeard(k, m, c)
      [] m.type \in {"notonchannel", "cannotsendtochan"} /\ m.chan = c -> {}
      [] OTHER -> k.us[c]

AutojoinHeard(k, m) ==
    CASE m.type = "join" /\ m.who = k.n -> k.aj \cup {m.chan}
      [] m.type = "part" /\ m.who = k.n -> k.aj \ {m.chan}
      [] OTHER -> k.aj

Heard(k, m) ==
    [n  |-> NicknameHeard(k, m),
     us |-> [c \in Chan |-> UsersHeard(k, m, c)],
     aj |-> AutojoinHeard(k, m)]

\* Hearing m, the daemon asks to join channel c.
AsksBack(cs, k, m, c) ==
    \/ m.type = "welcome" /\ c \in cs
    \/ m.type = "kick" /\ m.chan = c /\ m.who = k.n

\* Hearing the messages q in turn, k becomes t, and the daemon asks to join the channels J.
Ahead(cs, k, q, t, J) ==
    \E f \in [0 .. Len(q) -> Knowledge] :
        /\ f[0] = k /\ f[Len(q)] = t
        /\ \A i \in 1 .. Len(q) : f[i] = Heard(f[i - 1], q[i])
        /\ J = {c \in Chan : \E i \in 1 .. Len(q) : AsksBack(cs, f[i - 1], q[i], c)}

LEMMA HereType == Types => Here \in Knowledge
<1> SUFFICES ASSUME Types PROVE Here \in Knowledge
  OBVIOUS
<1>1. \A c \in Chan : UsersOf(c) \in SUBSET Nick
  BY UsersType DEF Users, UsersOf, Types, TypeOK
<1> QED
  BY <1>1 DEF Here, Knowledge, Types, TypeOK

LEMMA HeardType ==
    ASSUME NEW k \in Knowledge, NEW m \in News PROVE Heard(k, m) \in Knowledge
<1>1. NicknameHeard(k, m) \in Nick \cup {NoNick}
  BY DEF NicknameHeard, Knowledge, News
<1>2. ASSUME NEW c \in Chan PROVE UsersHeard(k, m, c) \in SUBSET Nick
  <2>1. /\ k.us[c] \in SUBSET Nick
        /\ m.type = "nick" => m.new \in Nick
        /\ m.type = "join" => m.who \in Nick
        /\ m.type = "names" => m.new \subseteq Nick
    BY DEF Knowledge, News
  <2> QED
    BY <2>1 DEF UsersHeard, LeftHeard
<1>3. AutojoinHeard(k, m) \in SUBSET Chan
  <2>1. k.aj \in SUBSET Chan /\ (m.type = "join" => m.chan \in Chan)
    BY DEF Knowledge, News
  <2> QED
    BY <2>1 DEF AutojoinHeard
<1>4. [c \in Chan |-> UsersHeard(k, m, c)] \in [Chan -> SUBSET Nick]
  BY <1>2
<1> QED
  BY <1>1, <1>3, <1>4 DEF Heard, Knowledge

LEMMA AheadNothing ==
    ASSUME NEW cs, NEW k, NEW t, NEW J
    PROVE  /\ Ahead(cs, k, <<>>, t, J) => k \in Knowledge /\ t = k /\ J = {}
           /\ k \in Knowledge => Ahead(cs, k, <<>>, k, {})
<1>1. Len(<<>>) = 0 /\ 0 .. 0 = {0} /\ 1 .. 0 = {}
  OBVIOUS
<1>2. ASSUME k \in Knowledge PROVE Ahead(cs, k, <<>>, k, {})
  <2> DEFINE f == [i \in {0} |-> k]
  <2>1. f \in [0 .. Len(<<>>) -> Knowledge] /\ f[0] = k /\ f[Len(<<>>)] = k
    BY <1>1, <1>2
  <2> HIDE DEF f
  <2> QED
    BY <1>1, <2>1 DEF Ahead
<1> QED
  BY <1>1, <1>2 DEF Ahead

\* One line more is under way.
LEMMA AheadMore ==
    ASSUME NEW cs, NEW k, NEW q \in Seq(News), NEW t, NEW J, Ahead(cs, k, q, t, J),
           NEW m \in News
    PROVE  Ahead(cs, k, q \o <<m>>, Heard(t, m), J \cup {c \in Chan : AsksBack(cs, t, m, c)})
<1>1. PICK f \in [0 .. Len(q) -> Knowledge] :
         /\ f[0] = k /\ f[Len(q)] = t
         /\ \A i \in 1 .. Len(q) : f[i] = Heard(f[i - 1], q[i])
         /\ J = {c \in Chan : \E i \in 1 .. Len(q) : AsksBack(cs, f[i - 1], q[i], c)}
  BY DEF Ahead
<1> DEFINE n == Len(q)
           p == q \o <<m>>
           g == [i \in 0 .. n + 1 |-> IF i = n + 1 THEN Heard(t, m) ELSE f[i]]
<1>2. /\ n \in Nat /\ p \in Seq(News) /\ Len(p) = n + 1 /\ p[n + 1] = m
      /\ \A i \in 1 .. n : p[i] = q[i]
  OBVIOUS
<1>3. t \in Knowledge /\ Heard(t, m) \in Knowledge
  BY <1>1, <1>2, HeardType
<1>4. /\ g \in [0 .. Len(p) -> Knowledge] /\ g[n + 1] = Heard(t, m)
      /\ \A i \in 0 .. n : g[i] = f[i]
  BY <1>1, <1>2, <1>3
<1> HIDE DEF n, p, g
<1>5. g[0] = k /\ g[n] = t /\ g[Len(p)] = Heard(t, m)
  BY <1>1, <1>2, <1>4 DEF n
<1>6. ASSUME NEW i \in 1 .. n PROVE g[i] = f[i] /\ g[i - 1] = f[i - 1] /\ p[i] = q[i]
  BY <1>2, <1>4
<1>7. ASSUME NEW i \in 1 .. Len(p) PROVE g[i] = Heard(g[i - 1], p[i])
  <2>1. CASE i = n + 1
    BY <1>2, <1>4, <1>5, <2>1
  <2>2. CASE i \in 1 .. n
    BY <1>1, <1>6, <2>2 DEF n
  <2> QED
    BY <1>2, <2>1, <2>2
<1>8. ASSUME NEW c \in Chan
      PROVE  (\E i \in 1 .. Len(p) : AsksBack(cs, g[i - 1], p[i], c))
                <=> (AsksBack(cs, t, m, c)
                        \/ \E i \in 1 .. n : AsksBack(cs, f[i - 1], q[i], c))
  <2>1. 1 .. Len(p) = (1 .. n) \cup {n + 1} /\ (n + 1) - 1 = n
    BY <1>2
  <2> QED
    BY <1>2, <1>5, <1>6, <2>1
<1>9. J \cup {c \in Chan : AsksBack(cs, t, m, c)}
        = {c \in Chan : \E i \in 1 .. Len(p) : AsksBack(cs, g[i - 1], p[i], c)}
  BY <1>1, <1>8 DEF n
<1>10. Ahead(cs, k, p, Heard(t, m), J \cup {c \in Chan : AsksBack(cs, t, m, c)})
  BY <1>4, <1>5, <1>7, <1>9 DEF Ahead
<1> QED
  BY <1>10 DEF p

\* The next line is heard; after a welcome there is nothing left to join.
LEMMA AheadRest ==
    ASSUME NEW cs, NEW k, NEW q \in Seq(News), NEW t, NEW J, Ahead(cs, k, q, t, J), q # <<>>
    PROVE  \E K \in SUBSET Chan :
              /\ Ahead(IF Head(q).type = "welcome" THEN {} ELSE cs, Heard(k, Head(q)),
                       Tail(q), t, K)
              /\ \A c \in J : c \in K \/ AsksBack(cs, k, Head(q), c)
<1>1. PICK f \in [0 .. Len(q) -> Knowledge] :
         /\ f[0] = k /\ f[Len(q)] = t
         /\ \A i \in 1 .. Len(q) : f[i] = Heard(f[i - 1], q[i])
         /\ J = {c \in Chan : \E i \in 1 .. Len(q) : AsksBack(cs, f[i - 1], q[i], c)}
  BY DEF Ahead
<1> DEFINE n == Len(q) - 1
           m == Head(q)
           p == Tail(q)
           cs1 == IF m.type = "welcome" THEN {} ELSE cs
           g == [i \in 0 .. n |-> f[i + 1]]
           K == {c \in Chan : \E i \in 1 .. Len(p) : AsksBack(cs1, g[i - 1], p[i], c)}
<1>2. n \in Nat /\ Len(q) = n + 1 /\ Len(p) = n /\ m = q[1] /\ \A i \in 1 .. n : p[i] = q[i + 1]
  BY Shorter
<1>3. g \in [0 .. n -> Knowledge] /\ \A i \in 0 .. n : g[i] = f[i + 1]
  BY <1>1, <1>2
<1> HIDE DEF n, m, p, g
<1>4. g[0] = Heard(k, m) /\ g[n] = t
  <2>1. 1 \in 1 .. Len(q) /\ 0 \in 0 .. n /\ n \in 0 .. n /\ 0 + 1 = 1 /\ 1 - 1 = 0
    BY <1>2
  <2> QED
    BY <1>1, <1>2, <1>3, <2>1
<1>5. ASSUME NEW i \in 1 .. n
      PROVE  /\ g[i] = f[i + 1] /\ g[i - 1] = f[i] /\ p[i] = q[i + 1]
             /\ i + 1 \in 1 .. Len(q) /\ (i + 1) - 1 = i
  BY <1>2, <1>3
<1>6. ASSUME NEW i \in 1 .. n PROVE g[i] = Heard(g[i - 1], p[i])
  BY <1>1, <1>5
<1>7. Ahead(cs1, Heard(k, m), p, t, K)
  <2> HIDE DEF cs1
  <2> QED
    BY <1>2, <1>3, <1>4, <1>6 DEF Ahead
<1>8. ASSUME NEW c \in J, ~AsksBack(cs, k, m, c) PROVE c \in K
  <2>1. PICK i \in 1 .. Len(q) : AsksBack(cs, f[i - 1], q[i], c)
    BY <1>1
  <2>2. i # 1
    BY <1>1, <1>2, <1>8, <2>1
  <2>3. i - 1 \in 1 .. n /\ (i - 1) + 1 = i
    BY <1>2, <2>2
  <2>4. AsksBack(cs, g[(i - 1) - 1], p[i - 1], c)
    BY <1>5, <2>1, <2>3
  <2>5. AsksBack(cs1, g[(i - 1) - 1], p[i - 1], c)
    BY <1>8, <2>4 DEF AsksBack
  <2>6. c \in Chan
    BY <1>1
  <2> QED
    BY <1>2, <2>3, <2>5, <2>6
<1>9. K \in SUBSET Chan
  OBVIOUS
<1> HIDE DEF K
<1> QED
  BY <1>7, <1>8, <1>9 DEF m, p, cs1

\* What each line changes.
LEMMA HeardAbout ==
    ASSUME NEW k, NEW n, NEW type \in {"welcome", "nicknameinuse", "quit"},
           NEW t, t = Heard(k, About(type, n))
    PROVE  /\ t.aj = k.aj /\ t.n = IF type = "welcome" THEN n ELSE k.n
           /\ type # "quit" => \A d \in Chan : t.us[d] = k.us[d]
           /\ type = "quit" =>
                 \A d \in Chan : \A x : x \in t.us[d] <=> x \in k.us[d] /\ x # n
BY DEF Heard, NicknameHeard, UsersHeard, AutojoinHeard, About, Msg

LEMMA HeardNick ==
    ASSUME NEW k, NEW m, m.type = "nick", NEW t, t = Heard(k, m)
    PROVE  /\ t.aj = k.aj /\ t.n = IF m.who = k.n THEN m.new ELSE k.n
           /\ \A d \in Chan : m.who \notin k.us[d] => t.us[d] = k.us[d]
           /\ \A d \in Chan : m.who \in k.us[d] =>
                 \A x : x \in t.us[d] <=> x = m.new \/ (x \in k.us[d] /\ x # m.who)
BY DEF Heard, NicknameHeard, UsersHeard, AutojoinHeard

LEMMA HeardJoin ==
    ASSUME NEW k, NEW m, m.type = "join", NEW t, t = Heard(k, m)
    PROVE  /\ t.n = k.n /\ (m.who # k.n => t.aj = k.aj)
           /\ m.who = k.n => \A d : d \in t.aj <=> d \in k.aj \/ d = m.chan
           /\ \A d \in Chan \ {m.chan} : t.us[d] = k.us[d]
           /\ m.chan \in Chan =>
                 \A x : x \in t.us[m.chan] <=> x \in k.us[m.chan] \/ x = m.who
BY DEF Heard, NicknameHeard, UsersHeard, AutojoinHeard

LEMMA HeardLeft ==
    ASSUME NEW k, NEW m, m.type \in {"part", "kick"}, NEW t, t = Heard(k, m)
    PROVE  /\ t.n = k.n /\ (m.type = "kick" \/ m.who # k.n => t.aj = k.aj)
           /\ m.type = "part" /\ m.who = k.n => \A d : d \in t.aj <=> d \in k.aj /\ d # m.chan
           /\ \A d \in Chan \ {m.chan} : t.us[d] = k.us[d]
           /\ m.chan \in Chan /\ m.who = k.n => t.us[m.chan] = {}
           /\ m.chan \in Chan /\ m.who # k.n =>
                 \A x : x \in t.us[m.chan] <=> x \in k.us[m.chan] /\ x # m.who
BY DEF Heard, NicknameHeard, UsersHeard, LeftHeard, AutojoinHeard

LEMMA EventFields ==
    ASSUME NEW type, NEW n, NEW c
    PROVE  /\ Event(type, n, c).type = type /\ Event(type, n, c).who = n
           /\ Event(type, n, c).chan = c
BY DEF Event, Msg

LEMMA AsksBackWelcomed ==
    ASSUME NEW cs, NEW k, NEW n, NEW d
    PROVE  AsksBack(cs, k, About("welcome", n), d) <=> d \in cs
BY DEF AsksBack, About, Msg

LEMMA AsksBackKicked ==
    ASSUME NEW cs, NEW k, NEW n, NEW c, NEW d
    PROVE  AsksBack(cs, k, Event("kick", n, c), d) <=> d = c /\ n = k.n
BY DEF AsksBack, Event, Msg

LEMMA HeardNames ==
    ASSUME NEW k, NEW m, m.type = "names", NEW t, t = Heard(k, m)
    PROVE  /\ t.n = k.n /\ t.aj = k.aj
           /\ \A d \in Chan \ {m.chan} : t.us[d] = k.us[d]
           /\ m.chan \in Chan =>
                 \A x : x \in t.us[m.chan] <=> x \in k.us[m.chan] \/ x \in m.new
BY DEF Heard, NicknameHeard, UsersHeard, AutojoinHeard

LEMMA HeardOnChannel ==
    ASSUME NEW k, NEW c, NEW type \in {"pubmsg", "notonchannel", "cannotsendtochan"},
           NEW t, t = Heard(k, OnChan(type, c))
    PROVE  /\ t.n = k.n /\ t.aj = k.aj
           /\ \A d \in Chan \ {c} : t.us[d] = k.us[d]
           /\ c \in Chan => t.us[c] = IF type = "pubmsg" THEN k.us[c] ELSE {}
BY DEF Heard, NicknameHeard, UsersHeard, AutojoinHeard, OnChan, Msg


------------------------------------------------------------------------------
(* The outlook.                                                             *)

Asks(q, c) == \E i \in 1 .. Len(q) : q[i].type = "join" /\ q[i].chan = c

AgreesOn(k, c) ==
    IF IsOn(c)
    THEN /\ k.us[c] \subseteq members[c]
         /\ nick \in k.us[c] => k.us[c] = members[c]
         /\ c \in k.aj
    ELSE k.us[c] = {}

\* Knowing k, the daemon is right about its nickname and about the channels it knows itself
\* to be on; it is to join, once registered, all that have autojoin.
Agrees(k) ==
    /\ IF phase = "registered" THEN k.n = nick ELSE k.aj \subseteq chSettings
    /\ \A c \in Chan : AgreesOn(k, c)

\* The client is on all channels with autojoin that let them in, or comes back to them.
Due(k, J) ==
    phase = "registered" =>
        \A c \in k.aj \ banned : IsOn(c) \/ Asks(toServer, c) \/ c \in J

Foreseen(k, J) == Ahead(chSettings, Here, toDaemon, k, J) /\ Agrees(k) /\ Due(k, J)

\* Of all the lines on their way to a daemon that has missed none, what it knows in the end
\* agrees with what the server knows now.
Outlook ==
    conn = "up" /\ ~missed => \E k \in Knowledge, J \in SUBSET Chan : Foreseen(k, J)

LEMMA AsksMore ==
    ASSUME NEW S, NEW s \in Seq(S), NEW t \in Seq(S), NEW c, Asks(s, c) \/ Asks(t, c)
    PROVE  Asks(s \o t, c)
<1>1. /\ Len(s) \in Nat /\ Len(t) \in Nat /\ Len(s \o t) = Len(s) + Len(t)
      /\ \A i \in 1 .. Len(s) : (s \o t)[i] = s[i]
      /\ \A i \in 1 .. Len(t) : (s \o t)[Len(s) + i] = t[i]
  BY Longer
<1>2. ASSUME NEW i \in 1 .. Len(s), s[i].type = "join", s[i].chan = c PROVE Asks(s \o t, c)
  BY <1>1, <1>2 DEF Asks
<1>3. ASSUME NEW i \in 1 .. Len(t), t[i].type = "join", t[i].chan = c PROVE Asks(s \o t, c)
  <2>1. Len(s) + i \in 1 .. Len(s \o t)
    BY <1>1
  <2> QED
    BY <1>1, <1>3, <2>1 DEF Asks
<1> QED
  BY <1>2, <1>3 DEF Asks

LEMMA AsksRest ==
    ASSUME NEW S, NEW s \in Seq(S), s # <<>>, NEW c, Asks(s, c)
    PROVE  (Head(s).type = "join" /\ Head(s).chan = c) \/ Asks(Tail(s), c)
<1>1. PICK i \in 1 .. Len(s) : s[i].type = "join" /\ s[i].chan = c
  BY DEF Asks
<1>2. CASE i = 1
  BY <1>1, <1>2, Shorter
<1>3. CASE i # 1
  <2>1. i - 1 \in 1 .. Len(Tail(s)) /\ Tail(s)[i - 1] = s[i]
    BY <1>3, Shorter
  <2> QED
    BY <1>1, <2>1 DEF Asks
<1> QED
  BY <1>2, <1>3

LEMMA HereStays == UNCHANGED <<ircUser, autojoin>> => Here' = Here
BY DEF Here, UsersOf, ircUser

\* The server says something more.
LEMMA Foresees ==
    ASSUME Types, NEW k, NEW J, Ahead(chSettings, Here, toDaemon, k, J),
           UNCHANGED <<ircUser, autojoin>>
    PROVE  /\ toDaemon' = toDaemon => Ahead(chSettings', Here', toDaemon', k, J)
           /\ \A m \in News : toDaemon' = toDaemon \o <<m>> =>
                 Ahead(chSettings', Here', toDaemon', Heard(k, m),
                       J \cup {c \in Chan : AsksBack(chSettings, k, m, c)})
<1>1. Here' = Here /\ chSettings' = chSettings /\ toDaemon \in Seq(News)
  BY HereStays DEF ircUser, Types
<1>2. ASSUME NEW m \in News
      PROVE  Ahead(chSettings, Here, toDaemon \o <<m>>, Heard(k, m),
                   J \cup {c \in Chan : AsksBack(chSettings, k, m, c)})
  BY <1>1, AheadMore
<1> QED
  BY <1>1, <1>2

LEMMA ForeseenStill ==
    ASSUME Types, UNCHANGED <<ircUser, autojoin>>, NEW k \in Knowledge, NEW J \in SUBSET Chan,
           Foreseen(k, J), toDaemon' = toDaemon, Agrees(k)', Due(k, J)'
    PROVE  \E t \in Knowledge, K \in SUBSET Chan : Foreseen(t, K)'
BY Foresees DEF Foreseen

LEMMA ForeseenNext ==
    ASSUME Types, UNCHANGED <<ircUser, autojoin>>, NEW k \in Knowledge, NEW J \in SUBSET Chan,
           Foreseen(k, J), NEW m \in News, toDaemon' = toDaemon \o <<m>>,
           \A t, K : /\ t = Heard(k, m) /\ J \subseteq K
                     /\ \A c \in Chan : AsksBack(chSettings, k, m, c) => c \in K
                     => Agrees(t)' /\ Due(t, K)'
    PROVE  \E t \in Knowledge, K \in SUBSET Chan : Foreseen(t, K)'
<1>1. PICK t : t = Heard(k, m)
  OBVIOUS
<1>2. PICK K : K = J \cup {c \in Chan : AsksBack(chSettings, k, m, c)}
  OBVIOUS
<1>3. t \in Knowledge /\ K \in SUBSET Chan
  BY <1>1, <1>2, HeardType
<1>4. Ahead(chSettings', Here', toDaemon', t, K)
  BY <1>1, <1>2, Foresees DEF Foreseen
<1>5. Agrees(t)' /\ Due(t, K)'
  BY <1>1, <1>2
<1> QED
  BY <1>3, <1>4, <1>5 DEF Foreseen

LEMMA Membership ==
    ASSUME Types
    PROVE  /\ members \in [Chan -> SUBSET Nick] /\ banned \subseteq Chan /\ nick \notin others
           /\ \A c \in Chan : members[c] \subseteq others \cup {nick}
           /\ IF phase = "registered" THEN nick \in Nick ELSE \A c \in Chan : ~IsOn(c)
           /\ chSettings \subseteq Chan
BY DEF Types, TypeOK

\* What the server reads was under way, and nothing else is gone.
LEMMA Reading ==
    ASSUME Types, NEW type, Reads(type)
    PROVE  /\ Head(toServer).type = type
           /\ type = "nick" => Head(toServer).who \in Nick
           /\ type \in {"join", "part", "say"} => Head(toServer).chan \in Chan
           /\ \A c : Asks(toServer, c) =>
                 (type = "join" /\ c = Head(toServer).chan) \/ Asks(toServer', c)
<1>1. toServer \in Seq(Query) /\ toServer # <<>> /\ Head(toServer).type = type
      /\ toServer' = Tail(toServer)
  BY DEF Types, Reads
<1>2. Head(toServer) \in Query
  BY <1>1, Shorter
<1>3. \A c : Asks(toServer, c) => (type = "join" /\ c = Head(toServer).chan) \/ Asks(toServer', c)
  BY <1>1, AsksRest
<1> QED
  BY <1>1, <1>2, <1>3 DEF Query

LEMMA ForeseeNick ==
    ASSUME Types, ServeNick, UNCHANGED <<ircUser, autojoin>>,
           NEW k \in Knowledge, NEW J \in SUBSET Chan, Foreseen(k, J)
    PROVE  \E t \in Knowledge, K \in SUBSET Chan : Foreseen(t, K)'
<1> DEFINE n == Head(toServer).who
<1>1. /\ n \in Nick /\ UNCHANGED <<others, banned, chSettings>>
      /\ \A c : Asks(toServer, c) => Asks(toServer', c)
  <2>1. Reads("nick") /\ UNCHANGED <<others, banned, chSettings>>
    BY DEF ServeNick, ircUser
  <2> QED
    BY <2>1, Reading
<1>2. Agrees(k) /\ Due(k, J)
  BY DEF Foreseen
<1>3. \/ /\ n \in others /\ UNCHANGED <<phase, nick, members>>
         /\ toDaemon' = toDaemon \o <<About("nicknameinuse", n)>>
      \/ /\ n \notin others /\ phase = "connected" /\ nick' = n
         /\ UNCHANGED <<phase, members, toDaemon>>
      \/ /\ n \notin others /\ phase = "user" /\ nick' = n /\ phase' = "registered"
         /\ UNCHANGED members /\ toDaemon' = toDaemon \o <<About("welcome", n)>>
      \/ /\ n \notin others \cup {nick} /\ phase = "registered" /\ nick' = n
         /\ UNCHANGED phase
         /\ members' = Renamed(nick, n) /\ toDaemon' = toDaemon \o <<Msg("nick", nick, n, "")>>
      \/ UNCHANGED <<phase, nick, members, toDaemon>>
  BY DEF ServeNick, Tell
<1> HIDE DEF n
<1>4. CASE UNCHANGED <<phase, nick, members>> /\ toDaemon' = toDaemon
  <2>1. Agrees(k)' /\ Due(k, J)'
    BY <1>1, <1>2, <1>4 DEF Agrees, AgreesOn, Due, IsOn
  <2> QED
    BY <1>4, <2>1, ForeseenStill
<1>5. CASE /\ UNCHANGED <<phase, nick, members>>
           /\ toDaemon' = toDaemon \o <<About("nicknameinuse", n)>>
  <2>1. ASSUME NEW t, NEW K, t = Heard(k, About("nicknameinuse", n)), J \subseteq K
        PROVE  Agrees(t)' /\ Due(t, K)'
    <3>1. t.n = k.n /\ t.aj = k.aj /\ \A d \in Chan : t.us[d] = k.us[d]
      BY <2>1, HeardAbout
    <3> QED
      BY <1>1, <1>2, <1>5, <2>1, <3>1 DEF Agrees, AgreesOn, Due, IsOn
  <2>2. About("nicknameinuse", n) \in News
    BY <1>1, NewsTypes
  <2> QED
    BY <1>5, <2>1, <2>2, ForeseenNext
<1>6. CASE /\ n \notin others /\ phase = "connected" /\ nick' = n
           /\ UNCHANGED <<phase, members, toDaemon>>
  <2>1. \A c \in Chan : ~IsOn(c) /\ ~IsOn(c)'
    BY <1>6, Membership DEF IsOn
  <2>2. Agrees(k)' /\ Due(k, J)'
    BY <1>1, <1>2, <1>6, <2>1 DEF Agrees, AgreesOn, Due
  <2> QED
    BY <1>6, <2>2, ForeseenStill
<1>7. CASE /\ n \notin others /\ phase = "user" /\ nick' = n /\ phase' = "registered"
           /\ UNCHANGED members /\ toDaemon' = toDaemon \o <<About("welcome", n)>>
  <2>1. \A c \in Chan : ~IsOn(c) /\ ~IsOn(c)'
    BY <1>7, Membership DEF IsOn
  <2>2. ASSUME NEW t, NEW K, t = Heard(k, About("welcome", n)),
               \A c \in Chan : AsksBack(chSettings, k, About("welcome", n), c) => c \in K
        PROVE  Agrees(t)' /\ Due(t, K)'
    <3>1. t.n = n /\ t.aj = k.aj /\ \A d \in Chan : t.us[d] = k.us[d]
      BY <2>2, HeardAbout
    <3>2. chSettings \subseteq K
      BY <2>2, AsksBackWelcomed, Membership
    <3> QED
      BY <1>1, <1>2, <1>7, <2>1, <3>1, <3>2 DEF Agrees, AgreesOn, Due
  <2>3. About("welcome", n) \in News
    BY <1>1, NewsTypes
  <2> QED
    BY <1>7, <2>2, <2>3, ForeseenNext
<1>8. CASE /\ n \notin others \cup {nick} /\ phase = "registered" /\ nick' = n
           /\ UNCHANGED phase
           /\ members' = Renamed(nick, n)
           /\ toDaemon' = toDaemon \o <<Msg("nick", nick, n, "")>>
  <2>1. ASSUME NEW t, NEW K, t = Heard(k, Msg("nick", nick, n, "")), J \subseteq K
        PROVE  Agrees(t)' /\ Due(t, K)'
    <3>1. /\ t.n = n /\ t.aj = k.aj
          /\ \A d \in Chan : nick \notin k.us[d] => t.us[d] = k.us[d]
          /\ \A d \in Chan : nick \in k.us[d] =>
                \A x : x \in t.us[d] <=> x = n \/ (x \in k.us[d] /\ x # nick)
      <4>1. PICK m : m = Msg("nick", nick, n, "")
        OBVIOUS
      <4>2. t = Heard(k, m) /\ m.type = "nick" /\ m.who = nick /\ m.new = n /\ k.n = nick
        BY <1>2, <1>8, <2>1, <4>1 DEF Msg, Agrees
      <4> QED
        BY <4>2, HeardNick
    <3>2. ASSUME NEW c \in Chan PROVE AgreesOn(t, c)' /\ (IsOn(c)' <=> IsOn(c))
      <4>1. /\ members'[c] = IF nick \in members[c] THEN (members[c] \ {nick}) \cup {n}
                                                    ELSE members[c]
            /\ n \notin members[c]
        BY <1>1, <1>8, Membership, Renaming DEF Types
      <4> QED
        BY ZenonT(60), <1>2, <1>8, <3>1, <4>1 DEF Agrees, AgreesOn, IsOn
    <3> QED
      BY <1>1, <1>2, <1>8, <2>1, <3>1, <3>2, Membership DEF Agrees, Due, Knowledge
  <2>2. Msg("nick", nick, n, "") \in News
    BY <1>1, <1>8, Membership, NewsTypes
  <2> QED
    BY <1>8, <2>1, <2>2, ForeseenNext
<1> QED
  BY <1>3, <1>4, <1>5, <1>6, <1>7, <1>8

LEMMA ForeseeUser ==
    ASSUME Types, ServeUser, UNCHANGED <<ircUser, autojoin>>,
           NEW k \in Knowledge, NEW J \in SUBSET Chan, Foreseen(k, J)
    PROVE  \E t \in Knowledge, K \in SUBSET Chan : Foreseen(t, K)'
<1>1. /\ UNCHANGED <<nick, members, others, banned, chSettings>> /\ phase = "connected"
      /\ \A c : Asks(toServer, c) => Asks(toServer', c)
  BY Reading DEF ServeUser, ircUser
<1>2. Agrees(k) /\ Due(k, J)
  BY DEF Foreseen
<1>3. \A c \in Chan : ~IsOn(c) /\ ~IsOn(c)'
  BY <1>1, Membership DEF IsOn
<1>4. CASE phase' = "user" /\ toDaemon' = toDaemon
  <2>1. Agrees(k)' /\ Due(k, J)'
    BY <1>1, <1>2, <1>3, <1>4 DEF Agrees, AgreesOn, Due
  <2> QED
    BY <1>4, <2>1, ForeseenStill
<1>5. CASE /\ nick # NoNick /\ phase' = "registered"
           /\ toDaemon' = toDaemon \o <<About("welcome", nick)>>
  <2>1. ASSUME NEW t, NEW K, t = Heard(k, About("welcome", nick)),
               \A c \in Chan : AsksBack(chSettings, k, About("welcome", nick), c) => c \in K
        PROVE  Agrees(t)' /\ Due(t, K)'
    <3>1. t.n = nick /\ t.aj = k.aj /\ \A d \in Chan : t.us[d] = k.us[d]
      BY <2>1, HeardAbout
    <3>2. chSettings \subseteq K
      BY <2>1, AsksBackWelcomed, Membership
    <3> QED
      BY <1>1, <1>2, <1>3, <1>5, <2>1, <3>1, <3>2 DEF Agrees, AgreesOn, Due
  <2>2. About("welcome", nick) \in News
    BY <1>5, NewsTypes DEF Types, TypeOK
  <2> QED
    BY <1>5, <2>1, <2>2, ForeseenNext
<1> QED
  BY <1>4, <1>5 DEF ServeUser, Tell

LEMMA OneByOne ==
    ASSUME NEW S, NEW s \in Seq(S), NEW a \in S, NEW b \in S
    PROVE  s \o <<a>> \in Seq(S) /\ s \o <<a, b>> = (s \o <<a>>) \o <<b>>
<1>1. /\ s \o <<a>> \in Seq(S) /\ s \o <<a, b>> \in Seq(S) /\ (s \o <<a>>) \o <<b>> \in Seq(S)
      /\ Len(s \o <<a, b>>) = Len((s \o <<a>>) \o <<b>>)
  OBVIOUS
<1>2. \A i \in 1 .. Len(s \o <<a, b>>) : (s \o <<a, b>>)[i] = ((s \o <<a>>) \o <<b>>)[i]
  OBVIOUS
<1> QED
  BY <1>1, <1>2, SeqEqual

LEMMA ForeseenAfterNext ==
    ASSUME Types, UNCHANGED <<ircUser, autojoin>>, NEW k \in Knowledge, NEW J \in SUBSET Chan,
           Foreseen(k, J), NEW m1 \in News, NEW m2 \in News, toDaemon' = toDaemon \o <<m1, m2>>,
           \A t, K : t = Heard(Heard(k, m1), m2) /\ J \subseteq K => Agrees(t)' /\ Due(t, K)'
    PROVE  \E t \in Knowledge, K \in SUBSET Chan : Foreseen(t, K)'
<1>1. PICK t : t = Heard(Heard(k, m1), m2)
  OBVIOUS
<1>2. PICK L : L = J \cup {c \in Chan : AsksBack(chSettings, k, m1, c)}
  OBVIOUS
<1>3. PICK K : K = L \cup {c \in Chan : AsksBack(chSettings, Heard(k, m1), m2, c)}
  OBVIOUS
<1>4. Heard(k, m1) \in Knowledge /\ t \in Knowledge /\ K \in SUBSET Chan /\ J \subseteq K
  BY <1>1, <1>2, <1>3, HeardType
<1>5. toDaemon \in Seq(News) /\ toDaemon \o <<m1>> \in Seq(News)
      /\ toDaemon' = (toDaemon \o <<m1>>) \o <<m2>>
  <2>1. toDaemon \in Seq(News)
    BY DEF Types
  <2> QED
    BY <2>1, OneByOne
<1>6. Ahead(chSettings, Here, toDaemon \o <<m1>>, Heard(k, m1), L)
  BY SMTT(30), <1>2, <1>5, AheadMore DEF Foreseen
<1>7. Ahead(chSettings, Here, toDaemon', t, K)
  <2>1. PICK q \in Seq(News) : q = toDaemon \o <<m1>>
    BY <1>5
  <2>2. PICK r : r = Heard(k, m1)
    OBVIOUS
  <2>3. Ahead(chSettings, Here, q, r, L)
    BY <1>6, <2>1, <2>2
  <2>4. Ahead(chSettings, Here, q \o <<m2>>, Heard(r, m2),
              L \cup {c \in Chan : AsksBack(chSettings, r, m2, c)})
    BY <2>3, AheadMore
  <2> QED
    BY <1>1, <1>3, <1>5, <2>1, <2>2, <2>4
<1>8. Ahead(chSettings', Here', toDaemon', t, K)
  BY <1>7, HereStays DEF ircUser
<1>9. Agrees(t)' /\ Due(t, K)'
  BY <1>1, <1>4
<1> QED
  BY <1>4, <1>8, <1>9 DEF Foreseen

LEMMA ForeseeJoin ==
    ASSUME Types, ServeJoin, UNCHANGED <<ircUser, autojoin>>,
           NEW k \in Knowledge, NEW J \in SUBSET Chan, Foreseen(k, J)
    PROVE  \E t \in Knowledge, K \in SUBSET Chan : Foreseen(t, K)'
<1>0. PICK c : c = Head(toServer).chan
  OBVIOUS
<1>1. /\ c \in Chan /\ phase = "registered"
      /\ UNCHANGED <<phase, nick, others, banned, chSettings>>
      /\ \A d : Asks(toServer, d) => d = c \/ Asks(toServer', d)
  <2>1. /\ Reads("join") /\ phase = "registered"
        /\ UNCHANGED <<phase, nick, others, banned, chSettings>>
    BY DEF ServeJoin, ircUser
  <2> QED
    BY <1>0, <2>1, Reading
<1>2. Agrees(k) /\ Due(k, J) /\ nick \in Nick
  BY <1>1, Membership DEF Foreseen
<1>3. CASE c \in banned \/ IsOn(c)
  <2>1. UNCHANGED <<members, toDaemon>>
    BY <1>0, <1>3 DEF ServeJoin
  <2>2. Agrees(k)' /\ Due(k, J)'
    BY <1>1, <1>2, <1>3, <2>1 DEF Agrees, AgreesOn, Due, IsOn
  <2> QED
    BY <2>1, <2>2, ForeseenStill
<1>4. CASE c \notin banned /\ ~IsOn(c)
  <2> DEFINE S == members[c] \cup {nick}
             m1 == Event("join", nick, c)
             m2 == NameReply(S, c)
  <2>1. members' = [members EXCEPT ![c] = @ \cup {nick}] /\ toDaemon' = toDaemon \o <<m1, m2>>
    BY <1>0, <1>4 DEF ServeJoin, Tell
  <2>2. m1 \in News /\ m2 \in News
    BY <1>1, <1>2, Membership, NewsTypes
  <2>3. members' \in [Chan -> SUBSET Nick] /\ members'[c] = S
        /\ \A d \in Chan \ {c} : members'[d] = members[d]
    BY <1>1, <1>2, <2>1, Membership
  <2>4. ASSUME NEW t, NEW K, t = Heard(Heard(k, m1), m2), J \subseteq K
        PROVE  Agrees(t)' /\ Due(t, K)'
    <3>1. PICK r : r = Heard(k, m1)
      OBVIOUS
    <3>2. /\ r.n = k.n /\ \A d \in Chan \ {c} : r.us[d] = k.us[d]
          /\ k.n = nick => \A d : d \in r.aj <=> d \in k.aj \/ d = c
          /\ \A x : x \in r.us[c] <=> x \in k.us[c] \/ x = nick
      <4>1. PICK m : m = m1
        OBVIOUS
      <4>2. r = Heard(k, m) /\ m.type = "join" /\ m.who = nick /\ m.chan = c
        BY <3>1, <4>1, EventFields
      <4> QED
        BY <1>1, <4>2, HeardJoin
    <3>3. /\ t.n = r.n /\ t.aj = r.aj /\ \A d \in Chan \ {c} : t.us[d] = r.us[d]
          /\ \A x : x \in t.us[c] <=> x \in r.us[c] \/ x \in S
      <4>1. PICK m : m = m2
        OBVIOUS
      <4>2. t = Heard(r, m) /\ m.type = "names" /\ m.new = S /\ m.chan = c
        BY <2>4, <3>1, <4>1 DEF NameReply, Msg
      <4> QED
        BY <1>1, <4>2, HeardNames
    <3>4. k.n = nick /\ k.us[c] = {}
      BY <1>1, <1>2, <1>4 DEF Agrees, AgreesOn
    <3>5. /\ t.n = nick /\ \A d : d \in t.aj <=> d \in k.aj \/ d = c
          /\ \A x : x \in t.us[c] <=> x \in S
          /\ \A d \in Chan \ {c} : t.us[d] = k.us[d]
      BY <1>1, <3>2, <3>3, <3>4
    <3>6. IsOn(c)' /\ \A d \in Chan \ {c} : IsOn(d)' <=> IsOn(d)
      BY <1>1, <2>3 DEF IsOn
    <3>7. ASSUME NEW d \in Chan PROVE AgreesOn(t, d)'
      <4>1. CASE d = c
        BY <2>3, <3>5, <3>6, <4>1 DEF AgreesOn
      <4>2. CASE d # c
        BY <1>1, <1>2, <2>3, <3>5, <3>6, <4>2 DEF Agrees, AgreesOn
      <4> QED
        BY <4>1, <4>2
    <3>8. Due(t, K)'
      BY <1>1, <1>2, <2>4, <3>5, <3>6 DEF Due, Knowledge
    <3> QED
      BY <1>1, <3>5, <3>7, <3>8 DEF Agrees
  <2>5. PICK a, b : a = m1 /\ b = m2
    OBVIOUS
  <2> HIDE DEF m1, m2
  <2>6. /\ a \in News /\ b \in News /\ toDaemon' = toDaemon \o <<a, b>>
        /\ \A t, K : t = Heard(Heard(k, a), b) /\ J \subseteq K => Agrees(t)' /\ Due(t, K)'
    BY <2>1, <2>2, <2>4, <2>5
  <2> QED
    BY ZenonT(60), <2>6, ForeseenAfterNext
<1> QED
  BY <1>3, <1>4

LEMMA ForeseePart ==
    ASSUME Types, ServePart, UNCHANGED <<ircUser, autojoin>>,
           NEW k \in Knowledge, NEW J \in SUBSET Chan, Foreseen(k, J)
    PROVE  \E t \in Knowledge, K \in SUBSET Chan : Foreseen(t, K)'
<1>0. PICK c : c = Head(toServer).chan
  OBVIOUS
<1>1. /\ c \in Chan /\ phase = "registered"
      /\ UNCHANGED <<phase, nick, others, banned, chSettings>>
      /\ \A d : Asks(toServer, d) => Asks(toServer', d)
  <2>1. /\ Reads("part") /\ phase = "registered"
        /\ UNCHANGED <<phase, nick, others, banned, chSettings>>
    BY DEF ServePart, ircUser
  <2> QED
    BY <1>0, <2>1, Reading
<1>2. members' = [members EXCEPT ![c] = @ \ {nick}]
      /\ toDaemon' = toDaemon \o
             <<IF IsOn(c) THEN Event("part", nick, c) ELSE OnChan("notonchannel", c)>>
  BY <1>0 DEF ServePart, Tell
<1>3. Agrees(k) /\ Due(k, J) /\ nick \in Nick /\ k.n = nick
  BY <1>1, Membership DEF Foreseen, Agrees
<1>4. /\ members'[c] = members[c] \ {nick} /\ \A d \in Chan \ {c} : members'[d] = members[d]
      /\ ~IsOn(c)' /\ \A d \in Chan \ {c} : IsOn(d)' <=> IsOn(d)
  BY <1>1, <1>2, Membership DEF IsOn
<1>5. ASSUME NEW t, NEW K, J \subseteq K, t.n = k.n, t.us[c] = {},
             \A d \in Chan \ {c} : t.us[d] = k.us[d],
             (t.aj = k.aj /\ ~IsOn(c)) \/ \A d : d \in t.aj <=> d \in k.aj /\ d # c
      PROVE  Agrees(t)' /\ Due(t, K)'
  <2>1. ASSUME NEW d \in Chan PROVE AgreesOn(t, d)'
    BY <1>1, <1>3, <1>4, <1>5 DEF Agrees, AgreesOn
  <2>2. Due(t, K)'
    BY <1>1, <1>3, <1>4, <1>5 DEF Due, Knowledge
  <2> QED
    BY <1>1, <1>3, <1>5, <2>1, <2>2 DEF Agrees
<1>6. CASE IsOn(c)
  <2>1. ASSUME NEW t, NEW K, t = Heard(k, Event("part", nick, c)), J \subseteq K
        PROVE  Agrees(t)' /\ Due(t, K)'
    <3>1. /\ t.n = k.n /\ \A d : d \in t.aj <=> d \in k.aj /\ d # c
          /\ t.us[c] = {} /\ \A d \in Chan \ {c} : t.us[d] = k.us[d]
      <4>1. PICK m : m = Event("part", nick, c)
        OBVIOUS
      <4>2. t = Heard(k, m) /\ m.type = "part" /\ m.who = k.n /\ m.chan = c
        BY <1>3, <2>1, <4>1, EventFields
      <4> QED
        BY <1>1, <4>2, HeardLeft
    <3> QED
      BY <1>5, <2>1, <3>1
  <2>2. Event("part", nick, c) \in News
    BY <1>1, <1>3, NewsTypes
  <2> QED
    BY <1>2, <1>6, <2>1, <2>2, ForeseenNext
<1>7. CASE ~IsOn(c)
  <2>1. ASSUME NEW t, NEW K, t = Heard(k, OnChan("notonchannel", c)), J \subseteq K
        PROVE  Agrees(t)' /\ Due(t, K)'
    <3>1. t.n = k.n /\ t.aj = k.aj /\ t.us[c] = {} /\ \A d \in Chan \ {c} : t.us[d] = k.us[d]
      BY <1>1, <2>1, HeardOnChannel
    <3> QED
      BY <1>5, <1>7, <2>1, <3>1
  <2>2. OnChan("notonchannel", c) \in News
    BY <1>1, NewsTypes
  <2> QED
    BY <1>2, <1>7, <2>1, <2>2, ForeseenNext
<1> QED
  BY <1>6, <1>7

LEMMA ForeseeRest ==
    ASSUME Types, ServeSay \/ Refused("join") \/ Refused("part") \/ Refused("say"),
           UNCHANGED <<ircUser, autojoin>>,
           NEW k \in Knowledge, NEW J \in SUBSET Chan, Foreseen(k, J)
    PROVE  \E t \in Knowledge, K \in SUBSET Chan : Foreseen(t, K)'
<1>1. UNCHANGED <<phase, nick, members, banned, chSettings>> /\ Agrees(k) /\ Due(k, J)
  BY DEF ServeSay, Refused, serverVars, ircUser, Foreseen
<1>2. CASE ServeSay
  <2> DEFINE c == Head(toServer).chan
  <2>1. /\ c \in Chan /\ \A d : Asks(toServer, d) => Asks(toServer', d)
    <3>1. Reads("say")
      BY <1>2 DEF ServeSay
    <3> QED
      BY <3>1, Reading
  <2>2. toDaemon' = toDaemon \/ toDaemon' = toDaemon \o <<OnChan("cannotsendtochan", c)>>
    BY <1>2 DEF ServeSay, Tell
  <2> HIDE DEF c
  <2>3. CASE toDaemon' = toDaemon
    <3>1. Agrees(k)' /\ Due(k, J)'
      BY <1>1, <2>1 DEF Agrees, AgreesOn, Due, IsOn
    <3> QED
      BY <2>3, <3>1, ForeseenStill
  <2>4. CASE toDaemon' = toDaemon \o <<OnChan("cannotsendtochan", c)>>
    <3>1. ASSUME NEW t, NEW K, t = Heard(k, OnChan("cannotsendtochan", c)), J \subseteq K
          PROVE  Agrees(t)' /\ Due(t, K)'
      <4>1. t.n = k.n /\ t.aj = k.aj /\ t.us[c] = {} /\ \A d \in Chan \ {c} : t.us[d] = k.us[d]
        BY <2>1, <3>1, HeardOnChannel
      <4> QED
        BY <1>1, <2>1, <3>1, <4>1 DEF Agrees, AgreesOn, Due, IsOn
    <3>2. OnChan("cannotsendtochan", c) \in News
      BY <2>1, NewsTypes
    <3> QED
      BY <2>4, <3>1, <3>2, ForeseenNext
  <2> QED
    BY <2>2, <2>3, <2>4
<1>3. CASE Refused("join") \/ Refused("part") \/ Refused("say")
  <2>1. phase # "registered" /\ toDaemon' = toDaemon
    BY <1>3 DEF Refused
  <2>2. Agrees(k)' /\ Due(k, J)'
    BY <1>1, <2>1 DEF Agrees, AgreesOn, Due, IsOn
  <2> QED
    BY <2>1, <2>2, ForeseenStill
<1> QED
  BY <1>2, <1>3

LEMMA ForeseeJoins ==
    ASSUME Types, UNCHANGED <<ircUser, autojoin, toServer>>,
           NEW k \in Knowledge, NEW J \in SUBSET Chan, Foreseen(k, J),
           NEW n \in Nick, NEW c \in Chan, Joins(n, c)
    PROVE  \E t \in Knowledge, K \in SUBSET Chan : Foreseen(t, K)'
<1>1. /\ n \in others \ members[c] /\ members' = [members EXCEPT ![c] = @ \cup {n}]
      /\ UNCHANGED <<phase, nick, others, banned, chSettings, toServer>>
      /\ IF IsOn(c) THEN toDaemon' = toDaemon \o <<Event("join", n, c)>>
                        ELSE toDaemon' = toDaemon
  BY DEF Joins, TellIf, Tell, ircUser
<1>2. Agrees(k) /\ Due(k, J) /\ n # nick
  BY <1>1, Membership DEF Foreseen
<1>3. /\ members'[c] = members[c] \cup {n} /\ \A d \in Chan \ {c} : members'[d] = members[d]
      /\ \A d \in Chan : IsOn(d)' <=> IsOn(d)
  BY <1>1, <1>2, Membership DEF IsOn
<1>4. ASSUME NEW t, NEW K, J \subseteq K, t.n = k.n, t.aj = k.aj,
             \A d \in Chan : d # c \/ ~IsOn(c) => t.us[d] = k.us[d],
             IsOn(c) => \A x : x \in t.us[c] <=> x \in k.us[c] \/ x = n
      PROVE  Agrees(t)' /\ Due(t, K)'
  <2>1. ASSUME NEW d \in Chan PROVE AgreesOn(t, d)'
    <3>1. CASE d = c /\ IsOn(c)
      BY <1>1, <1>2, <1>3, <1>4, <3>1 DEF Agrees, AgreesOn
    <3>2. CASE d = c /\ ~IsOn(c)
      BY <1>2, <1>3, <1>4, <3>2 DEF Agrees, AgreesOn
    <3>3. CASE d # c
      BY <1>1, <1>2, <1>3, <1>4, <3>3 DEF Agrees, AgreesOn
    <3> QED
      BY <3>1, <3>2, <3>3
  <2>2. Due(t, K)'
    BY <1>1, <1>2, <1>3, <1>4 DEF Due, Knowledge
  <2> QED
    BY <1>1, <1>2, <1>4, <2>1, <2>2 DEF Agrees
<1>5. CASE IsOn(c)
  <2>1. ASSUME NEW t, NEW K, t = Heard(k, Event("join", n, c)), J \subseteq K
        PROVE  Agrees(t)' /\ Due(t, K)'
    <3>1. PICK m : m = Event("join", n, c)
      OBVIOUS
    <3>2. t = Heard(k, m) /\ m.type = "join" /\ m.who = n /\ m.chan = c
      BY <2>1, <3>1, EventFields
    <3>3. m.who # k.n
      BY <1>2, <1>5, <3>2, Membership DEF Agrees
    <3> QED
      BY <1>4, <1>5, <2>1, <3>2, <3>3, HeardJoin
  <2>2. Event("join", n, c) \in News
    BY NewsTypes
  <2> QED
    BY SMTT(30), <1>1, <1>5, <2>1, <2>2, ForeseenNext
<1>6. CASE ~IsOn(c)
  <2>1. Agrees(k)' /\ Due(k, J)'
    BY <1>4, <1>6
  <2> QED
    BY <1>1, <1>6, <2>1, ForeseenStill
<1> QED
  BY <1>5, <1>6

LEMMA ForeseeLeaves ==
    ASSUME Types, UNCHANGED <<ircUser, autojoin, toServer>>,
           NEW k \in Knowledge, NEW J \in SUBSET Chan, Foreseen(k, J),
           NEW n \in Nick, NEW c \in Chan, NEW how \in {"part", "kick"}, Leaves(n, c, how)
    PROVE  \E t \in Knowledge, K \in SUBSET Chan : Foreseen(t, K)'
<1>1. /\ n \in others /\ members' = [members EXCEPT ![c] = @ \ {n}]
      /\ UNCHANGED <<phase, nick, others, banned, chSettings, toServer>>
      /\ IF IsOn(c) THEN toDaemon' = toDaemon \o <<Event(how, n, c)>> ELSE toDaemon' = toDaemon
  BY DEF Leaves, TellIf, Tell, ircUser
<1>2. Agrees(k) /\ Due(k, J) /\ n # nick
  BY <1>1, Membership DEF Foreseen
<1>3. /\ members'[c] = members[c] \ {n} /\ \A d \in Chan \ {c} : members'[d] = members[d]
      /\ \A d \in Chan : IsOn(d)' <=> IsOn(d)
  BY <1>1, <1>2, Membership DEF IsOn
<1>4. ASSUME NEW t, NEW K, J \subseteq K, t.n = k.n, t.aj = k.aj,
             \A d \in Chan : d # c \/ ~IsOn(c) => t.us[d] = k.us[d],
             IsOn(c) => \A x : x \in t.us[c] <=> x \in k.us[c] /\ x # n
      PROVE  Agrees(t)' /\ Due(t, K)'
  <2>1. ASSUME NEW d \in Chan PROVE AgreesOn(t, d)'
    <3>1. CASE d = c /\ IsOn(c)
      BY ZenonT(60), <1>1, <1>2, <1>3, <1>4, <3>1 DEF Agrees, AgreesOn
    <3>2. CASE d = c /\ ~IsOn(c)
      BY <1>2, <1>3, <1>4, <3>2 DEF Agrees, AgreesOn
    <3>3. CASE d # c
      BY <1>1, <1>2, <1>3, <1>4, <3>3 DEF Agrees, AgreesOn
    <3> QED
      BY <3>1, <3>2, <3>3
  <2>2. Due(t, K)'
    BY <1>1, <1>2, <1>3, <1>4 DEF Due, Knowledge
  <2> QED
    BY <1>1, <1>2, <1>4, <2>1, <2>2 DEF Agrees
<1>5. CASE IsOn(c)
  <2>1. ASSUME NEW t, NEW K, t = Heard(k, Event(how, n, c)), J \subseteq K
        PROVE  Agrees(t)' /\ Due(t, K)'
    <3>1. PICK m : m = Event(how, n, c)
      OBVIOUS
    <3>2. t = Heard(k, m) /\ m.type = how /\ m.who = n /\ m.chan = c
      BY <2>1, <3>1, EventFields
    <3>3. m.who # k.n
      BY <1>2, <1>5, <3>2, Membership DEF Agrees
    <3>4. /\ t.n = k.n /\ t.aj = k.aj /\ \A d \in Chan \ {c} : t.us[d] = k.us[d]
          /\ \A x : x \in t.us[c] <=> x \in k.us[c] /\ x # n
      BY <3>2, <3>3, HeardLeft
    <3> QED
      BY <1>4, <1>5, <2>1, <3>4
  <2>2. Event(how, n, c) \in News
    BY NewsTypes
  <2> QED
    BY <1>1, <1>5, <2>1, <2>2, ForeseenNext
<1>6. CASE ~IsOn(c)
  <2>1. Agrees(k)' /\ Due(k, J)'
    BY <1>4, <1>6
  <2> QED
    BY <1>1, <1>6, <2>1, ForeseenStill
<1> QED
  BY <1>5, <1>6

LEMMA ForeseeQuits ==
    ASSUME Types, UNCHANGED <<ircUser, autojoin, toServer>>,
           NEW k \in Knowledge, NEW J \in SUBSET Chan, Foreseen(k, J), NEW n \in Nick, Quits(n)
    PROVE  \E t \in Knowledge, K \in SUBSET Chan : Foreseen(t, K)'
<1>1. /\ n \in others /\ members' = Without(n)
      /\ UNCHANGED <<phase, nick, banned, chSettings, toServer>>
      /\ IF Sees(n) THEN toDaemon' = toDaemon \o <<About("quit", n)>> ELSE toDaemon' = toDaemon
  BY DEF Quits, TellIf, Tell, ircUser
<1>2. Agrees(k) /\ Due(k, J) /\ n # nick
  BY <1>1, Membership DEF Foreseen
<1>3. \A d \in Chan : members'[d] = members[d] \ {n} /\ (IsOn(d)' <=> IsOn(d))
  BY <1>1, <1>2, Membership DEF IsOn, Without
<1>4. ASSUME NEW t, NEW K, J \subseteq K, t.n = k.n, t.aj = k.aj,
             \/ ~Sees(n) /\ \A d \in Chan : t.us[d] = k.us[d]
             \/ \A d \in Chan : \A x : x \in t.us[d] <=> x \in k.us[d] /\ x # n
      PROVE  Agrees(t)' /\ Due(t, K)'
  <2>1. ASSUME NEW d \in Chan PROVE AgreesOn(t, d)'
    <3>1. AgreesOn(k, d) /\ members'[d] = members[d] \ {n} /\ (IsOn(d)' <=> IsOn(d))
      BY <1>2, <1>3 DEF Agrees
    <3>2. CASE ~Sees(n) /\ \A e \in Chan : t.us[e] = k.us[e]
      BY <1>1, <1>4, <3>1, <3>2 DEF AgreesOn, Sees
    <3>3. CASE \A e \in Chan : \A x : x \in t.us[e] <=> x \in k.us[e] /\ x # n
      <4>1. \A x : x \in t.us[d] <=> x \in k.us[d] /\ x # n
        BY <3>3
      <4> QED
        BY <1>1, <1>2, <1>4, <3>1, <4>1 DEF AgreesOn
    <3> QED
      BY <1>4, <3>2, <3>3
  <2>2. Due(t, K)'
    BY <1>1, <1>2, <1>3, <1>4 DEF Due, Knowledge
  <2> QED
    BY <1>1, <1>2, <1>4, <2>1, <2>2 DEF Agrees
<1>5. CASE Sees(n)
  <2>1. ASSUME NEW t, NEW K, t = Heard(k, About("quit", n)), J \subseteq K
        PROVE  Agrees(t)' /\ Due(t, K)'
    <3>1. /\ t.n = k.n /\ t.aj = k.aj
          /\ \A d \in Chan : \A x : x \in t.us[d] <=> x \in k.us[d] /\ x # n
      BY <2>1, HeardAbout
    <3> QED
      BY <1>4, <2>1, <3>1
  <2>2. About("quit", n) \in News
    BY NewsTypes
  <2> QED
    BY <1>1, <1>5, <2>1, <2>2, ForeseenNext
<1>6. CASE ~Sees(n)
  <2>1. Agrees(k)' /\ Due(k, J)'
    BY <1>4, <1>6
  <2> QED
    BY <1>1, <1>6, <2>1, ForeseenStill
<1> QED
  BY <1>5, <1>6

LEMMA ForeseeRenames ==
    ASSUME Types, UNCHANGED <<ircUser, autojoin, toServer>>,
           NEW k \in Knowledge, NEW J \in SUBSET Chan, Foreseen(k, J),
           NEW n \in Nick, NEW new \in Nick, Renames(n, new)
    PROVE  \E t \in Knowledge, K \in SUBSET Chan : Foreseen(t, K)'
<1>1. /\ n \in others /\ new \notin others \cup {nick} /\ members' = Renamed(n, new)
      /\ UNCHANGED <<phase, nick, banned, chSettings, toServer>>
      /\ IF Sees(n) THEN toDaemon' = toDaemon \o <<Msg("nick", n, new, "")>>
                    ELSE toDaemon' = toDaemon
  BY DEF Renames, TellIf, Tell, ircUser
<1>2. Agrees(k) /\ Due(k, J) /\ n # nick /\ new # nick
  BY <1>1, Membership DEF Foreseen
<1>3. ASSUME NEW d \in Chan
      PROVE  /\ n \in members[d] =>
                    \A x : x \in members'[d] <=> x = new \/ (x \in members[d] /\ x # n)
             /\ n \notin members[d] => members'[d] = members[d]
             /\ IsOn(d)' <=> IsOn(d)
  BY <1>1, <1>2, Membership DEF IsOn, Renamed
<1>4. ASSUME NEW t, NEW K, J \subseteq K, t.n = k.n, t.aj = k.aj,
             \A d \in Chan : ~Sees(n) \/ n \notin k.us[d] => t.us[d] = k.us[d],
             Sees(n) => \A d \in Chan : n \in k.us[d] =>
                           \A x : x \in t.us[d] <=> x = new \/ (x \in k.us[d] /\ x # n)
      PROVE  Agrees(t)' /\ Due(t, K)'
  <2>1. ASSUME NEW d \in Chan PROVE AgreesOn(t, d)'
    <3>1. AgreesOn(k, d)
      BY <1>2 DEF Agrees
    <3>2. CASE ~IsOn(d)
      BY <1>3, <1>4, <3>1, <3>2 DEF AgreesOn
    <3>3. CASE IsOn(d) /\ n \notin members[d]
      BY <1>1, <1>3, <1>4, <3>1, <3>3 DEF AgreesOn
    <3>4. CASE IsOn(d) /\ n \in members[d]
      <4>1. Sees(n) /\ IsOn(d)' /\ nick' = nick
            /\ \A x : x \in members'[d] <=> x = new \/ (x \in members[d] /\ x # n)
        BY <1>1, <1>3, <3>4 DEF Sees
      <4>2. CASE n \in k.us[d]
        <5>1. \A x : x \in t.us[d] <=> x = new \/ (x \in k.us[d] /\ x # n)
          BY <1>4, <4>1, <4>2
        <5>2. t.us[d] \subseteq members'[d] /\ d \in t.aj
          BY <1>4, <3>1, <3>4, <4>1, <5>1 DEF AgreesOn
        <5>3. nick \in t.us[d] => t.us[d] = members'[d]
          BY <1>2, <3>1, <3>4, <4>1, <5>1 DEF AgreesOn
        <5> QED
          BY <4>1, <5>2, <5>3 DEF AgreesOn
      <4>3. CASE n \notin k.us[d]
        <5>1. t.us[d] = k.us[d]
          BY <1>4, <4>3
        <5> QED
          BY <1>2, <1>4, <3>1, <3>4, <4>1, <4>3, <5>1 DEF AgreesOn
      <4> QED
        BY <4>2, <4>3
    <3> QED
      BY <3>2, <3>3, <3>4
  <2>2. Due(t, K)'
    BY <1>1, <1>2, <1>3, <1>4 DEF Due, Knowledge
  <2> QED
    BY <1>1, <1>2, <1>4, <2>1, <2>2 DEF Agrees
<1>5. CASE Sees(n)
  <2>1. ASSUME NEW t, NEW K, t = Heard(k, Msg("nick", n, new, "")), J \subseteq K
        PROVE  Agrees(t)' /\ Due(t, K)'
    <3>1. PICK m : m = Msg("nick", n, new, "")
      OBVIOUS
    <3>2. t = Heard(k, m) /\ m.type = "nick" /\ m.who = n /\ m.new = new
      BY <2>1, <3>1 DEF Msg
    <3>3. m.who # k.n
      BY <1>2, <1>5, <3>2, Membership DEF Agrees, Sees
    <3>4. /\ t.n = k.n /\ t.aj = k.aj
          /\ \A d \in Chan : n \notin k.us[d] => t.us[d] = k.us[d]
          /\ \A d \in Chan : n \in k.us[d] =>
                \A x : x \in t.us[d] <=> x = new \/ (x \in k.us[d] /\ x # n)
      BY <3>2, <3>3, HeardNick
    <3> QED
      BY <1>4, <1>5, <2>1, <3>4
  <2>2. Msg("nick", n, new, "") \in News
    BY NewsTypes
  <2> QED
    BY <1>1, <1>5, <2>1, <2>2, ForeseenNext
<1>6. CASE ~Sees(n)
  <2>1. Agrees(k)' /\ Due(k, J)'
    BY <1>4, <1>6
  <2> QED
    BY <1>1, <1>6, <2>1, ForeseenStill
<1> QED
  BY <1>5, <1>6

LEMMA ForeseeKicks ==
    ASSUME Types, UNCHANGED <<ircUser, autojoin, toServer>>,
           NEW k \in Knowledge, NEW J \in SUBSET Chan, Foreseen(k, J),
           NEW c \in Chan, NEW ban \in SUBSET {c}, Kicks(c, ban)
    PROVE  \E t \in Knowledge, K \in SUBSET Chan : Foreseen(t, K)'
<1>1. /\ IsOn(c) /\ members' = [members EXCEPT ![c] = @ \ {nick}] /\ banned' = banned \cup ban
      /\ UNCHANGED <<phase, nick, others, chSettings, toServer>>
      /\ toDaemon' = toDaemon \o <<Event("kick", nick, c)>>
  BY DEF Kicks, Tell, ircUser
<1>2. Agrees(k) /\ Due(k, J) /\ nick \in Nick /\ k.n = nick
  BY <1>1, Membership DEF Foreseen, Agrees
<1>3. /\ members'[c] = members[c] \ {nick} /\ \A d \in Chan \ {c} : members'[d] = members[d]
      /\ ~IsOn(c)' /\ \A d \in Chan \ {c} : IsOn(d)' <=> IsOn(d)
  BY <1>1, Membership DEF IsOn
<1>4. ASSUME NEW t, NEW K, t = Heard(k, Event("kick", nick, c)), J \subseteq K,
             \A d \in Chan : AsksBack(chSettings, k, Event("kick", nick, c), d) => d \in K
      PROVE  Agrees(t)' /\ Due(t, K)'
  <2>1. PICK m : m = Event("kick", nick, c)
    OBVIOUS
  <2>2. t = Heard(k, m) /\ m.type = "kick" /\ m.who = k.n /\ m.chan = c
    BY <1>2, <1>4, <2>1, EventFields
  <2>3. t.n = k.n /\ t.aj = k.aj /\ t.us[c] = {} /\ \A d \in Chan \ {c} : t.us[d] = k.us[d]
    BY <2>2, HeardLeft
  <2>4. c \in K
    BY <1>2, <1>4, AsksBackKicked
  <2>5. ASSUME NEW d \in Chan PROVE AgreesOn(t, d)'
    <3>1. CASE d = c
      BY <1>3, <2>3, <3>1 DEF AgreesOn
    <3>2. CASE d # c
      BY <1>1, <1>2, <1>3, <2>3, <3>2 DEF Agrees, AgreesOn
    <3> QED
      BY <3>1, <3>2
  <2>6. Due(t, K)'
    BY <1>1, <1>2, <1>3, <1>4, <2>3, <2>4 DEF Due, Knowledge
  <2> QED
    BY <1>1, <1>2, <2>3, <2>5, <2>6 DEF Agrees
<1>5. Event("kick", nick, c) \in News
  BY <1>2, NewsTypes
<1> QED
  BY <1>1, <1>4, <1>5, ForeseenNext

LEMMA ForeseeTalks ==
    ASSUME Types, UNCHANGED <<ircUser, autojoin, toServer>>,
           NEW k \in Knowledge, NEW J \in SUBSET Chan, Foreseen(k, J),
           NEW c \in Chan, Talks(c)
    PROVE  \E t \in Knowledge, K \in SUBSET Chan : Foreseen(t, K)'
<1>1. /\ UNCHANGED <<phase, nick, members, banned, chSettings, toServer>>
      /\ toDaemon' = toDaemon \o <<OnChan("pubmsg", c)>>
      /\ Agrees(k) /\ Due(k, J)
  BY DEF Talks, Tell, serverVars, ircUser, Foreseen
<1>2. ASSUME NEW t, NEW K, t = Heard(k, OnChan("pubmsg", c)), J \subseteq K
      PROVE  Agrees(t)' /\ Due(t, K)'
  <2>1. t.n = k.n /\ t.aj = k.aj /\ \A d \in Chan : t.us[d] = k.us[d]
    BY <1>2, HeardOnChannel
  <2> QED
    BY <1>1, <1>2, <2>1 DEF Agrees, AgreesOn, Due, IsOn
<1>3. OnChan("pubmsg", c) \in News
  BY NewsTypes
<1> QED
  BY <1>1, <1>2, <1>3, ForeseenNext

LEMMA ForeseeSignsOn ==
    ASSUME Types, UNCHANGED <<ircUser, autojoin, toServer>>,
           NEW k \in Knowledge, NEW J \in SUBSET Chan, Foreseen(k, J),
           NEW n \in Nick, SignsOn(n)
    PROVE  \E t \in Knowledge, K \in SUBSET Chan : Foreseen(t, K)'
<1>1. UNCHANGED <<phase, nick, members, banned, chSettings, toServer, toDaemon>>
      /\ Agrees(k) /\ Due(k, J)
  BY DEF SignsOn, ircUser, Foreseen
<1>2. Agrees(k)' /\ Due(k, J)'
  BY <1>1 DEF Agrees, AgreesOn, Due, IsOn
<1> QED
  BY <1>1, <1>2, ForeseenStill

\* Whatever the server does, it tells the client enough to follow.
LEMMA OutlookServer == ASSUME Types, Outlook, Server PROVE Outlook'
<1> SUFFICES ASSUME conn' = "up", ~missed'
             PROVE  \E t \in Knowledge, K \in SUBSET Chan : Foreseen(t, K)'
  BY DEF Outlook
<1>1. UNCHANGED <<ircUser, autojoin>> /\ conn = "up" /\ ~missed
  BY DEF Server, ircUser
<1>2. PICK k \in Knowledge, J \in SUBSET Chan : Foreseen(k, J)
  BY <1>1 DEF Outlook
<1>3. CASE Serve
  BY <1>1, <1>2, <1>3, ForeseeNick, ForeseeUser, ForeseeJoin, ForeseePart, ForeseeRest DEF Serve
<1>4. CASE OthersAct /\ UNCHANGED toServer
  <2>1. UNCHANGED <<ircUser, autojoin, toServer>>
    BY <1>1, <1>4
  <2>2. ASSUME NEW c \in Chan, Kicks(c, {}) \/ Kicks(c, {c})
        PROVE  \E t \in Knowledge, K \in SUBSET Chan : Foreseen(t, K)'
    <3>1. {} \in SUBSET {c} /\ {c} \in SUBSET {c}
      OBVIOUS
    <3> QED
      BY <1>2, <2>1, <2>2, <3>1, ForeseeKicks
  <2> QED
    BY <1>2, <1>4, <2>1, <2>2, ForeseeSignsOn, ForeseeQuits, ForeseeRenames, ForeseeJoins,
       ForeseeLeaves, ForeseeTalks
    DEF OthersAct
<1> QED
  BY <1>3, <1>4 DEF Server

\* A sequence of all elements of a finite set names each of them.
LEMMA AllNamed ==
    ASSUME NEW S, IsFiniteSet(S), NEW q \in SetToSeqs(S), NEW x \in S
    PROVE  \E i \in 1 .. Cardinality(S) : q[i] = x
<1>1. /\ q \in [1 .. Cardinality(S) -> S]
      /\ \A i, j \in 1 .. Cardinality(S) : i # j => q[i] # q[j]
  BY DEF SetToSeqs
<1>2. Cardinality(S) \in Nat
  BY FS_CardinalityType
<1> SUFFICES ASSUME \A i \in 1 .. Cardinality(S) : q[i] # x PROVE FALSE
  OBVIOUS
<1>3. q \in [1 .. Cardinality(S) -> S \ {x}]
  BY <1>1
<1>4. IsFiniteSet(S \ {x}) /\ Cardinality(S \ {x}) = Cardinality(S) - 1
  BY FS_RemoveElement
<1>5. IsFiniteSet(1 .. Cardinality(S)) /\ Cardinality(1 .. Cardinality(S)) = Cardinality(S)
  BY <1>2, FS_Interval
<1>6. \E i, j \in 1 .. Cardinality(S) : i # j /\ q[i] = q[j]
  BY <1>2, <1>3, <1>4, <1>5, FS_PigeonHole
<1> QED
  BY <1>1, <1>6

LEMMA Unlisted ==
    ASSUME Types
    PROVE  /\ \A c, S : users' = Put(users, c, S) =>
                 UsersOf(c)' = S /\ \A d \in Chan \ {c} : UsersOf(d)' = UsersOf(d)
           /\ \A c : users' = Pop(users, c) =>
                 UsersOf(c)' = {} /\ \A d \in Chan \ {c} : UsersOf(d)' = UsersOf(d)
BY DEF Put, Pop, UsersOf

\* The handlers do what Heard says.
LEMMA HearsUsers ==
    ASSUME Types, ReceiveLine, NEW c \in Chan
    PROVE  UsersOf(c)' = UsersHeard(Here, Line, c)
<1>1. PICK m, u, n : m = Line /\ u = UsersOf(c) /\ n = realNickname
  OBVIOUS
<1>2. UsersHeard(Here, Line, c) =
         CASE m.type = "nick" -> IF m.who \in u THEN (u \ {m.who}) \cup {m.new} ELSE u
           [] m.type = "quit" -> u \ {m.who}
           [] m.type = "join" /\ m.chan = c -> u \cup {m.who}
           [] m.type = "names" /\ m.chan = c -> u \cup m.new
           [] m.type \in {"part", "kick"} /\ m.chan = c -> IF m.who = n THEN {} ELSE u \ {m.who}
           [] m.type \in {"notonchannel", "cannotsendtochan"} /\ m.chan = c -> {}
           [] OTHER -> u
  <2>1. Here.n = n /\ Here.us[c] = u
    BY <1>1 DEF Here
  <2> QED
    BY <1>1, <2>1 DEF UsersHeard, LeftHeard
<1>3. CASE OnWelcome \/ OnNicknameInUse
  <2>1. m.type \in {"welcome", "nicknameinuse"} /\ users' = users
    BY <1>1, <1>3 DEF OnWelcome, OnNicknameInUse, Handles
  <2> QED
    BY <1>1, <1>2, <2>1 DEF UsersOf
<1>4. CASE OnNick
  <2>1. m.type = "nick" /\ users' = ChangeUserNick(m.who, m.new)
    BY <1>1, <1>4 DEF OnNick, Handles
  <2> QED
    BY <1>1, <1>2, <2>1 DEF UsersOf, ChangeUserNick
<1>5. CASE OnQuit
  <2>1. m.type = "quit" /\ users' = RemoveEverywhere(m.who)
    BY <1>1, <1>5 DEF OnQuit, Handles
  <2> QED
    BY <1>1, <1>2, <2>1 DEF UsersOf, RemoveEverywhere
<1>6. CASE OnJoin
  <2>1. m.type = "join" /\ users' = Put(users, m.chan, UsersOf(m.chan) \cup {m.who})
    BY <1>1, <1>6 DEF OnJoin, Handles, AddUsers
  <2>2. IF m.chan = c THEN UsersOf(c)' = UsersOf(c) \cup {m.who} ELSE UsersOf(c)' = UsersOf(c)
    BY <2>1, Unlisted
  <2> QED
    BY <1>1, <1>2, <2>1, <2>2
<1>7. CASE OnNamReply
  <2>1. m.type = "names" /\ users' = Put(users, m.chan, UsersOf(m.chan) \cup m.new)
    BY <1>1, <1>7 DEF OnNamReply, Handles, AddUsers
  <2>2. IF m.chan = c THEN UsersOf(c)' = UsersOf(c) \cup m.new ELSE UsersOf(c)' = UsersOf(c)
    BY <2>1, Unlisted
  <2> QED
    BY <1>1, <1>2, <2>1, <2>2
<1>8. CASE OnPart \/ OnKick
  <2>1. /\ m.type \in {"part", "kick"}
        /\ users' = IF m.who = n THEN Pop(users, m.chan)
                                 ELSE Put(users, m.chan, UsersOf(m.chan) \ {m.who})
    BY <1>1, <1>8 DEF OnPart, OnKick, Handles, RemoveUser
  <2>2. /\ m.chan # c => UsersOf(c)' = UsersOf(c)
        /\ m.chan = c /\ m.who = n => UsersOf(c)' = {}
        /\ m.chan = c /\ m.who # n => UsersOf(c)' = UsersOf(c) \ {m.who}
    BY <2>1, Unlisted
  <2> QED
    BY <1>1, <1>2, <2>1, <2>2
<1>9. CASE OnPubMsg
  <2>1. m.type = "pubmsg" /\ users' = Put(users, m.chan, UsersOf(m.chan) \cup {})
    BY <1>1, <1>9 DEF OnPubMsg, Handles, AddUsers
  <2>2. UsersOf(c)' = UsersOf(c)
    BY <2>1, Unlisted
  <2> QED
    BY <1>1, <1>2, <2>1, <2>2
<1>10. CASE OnRefusal
  <2>1. m.type \in {"notonchannel", "cannotsendtochan"} /\ users' = Pop(users, m.chan)
    BY <1>1, <1>10 DEF OnRefusal, Handles
  <2>2. IF m.chan = c THEN UsersOf(c)' = {} ELSE UsersOf(c)' = UsersOf(c)
    BY <2>1, Unlisted
  <2> QED
    BY <1>1, <1>2, <2>1, <2>2
<1> QED
  BY <1>3, <1>4, <1>5, <1>6, <1>7, <1>8, <1>9, <1>10 DEF ReceiveLine

LEMMA Hears ==
    ASSUME Types, ReceiveLine
    PROVE  Here' = Heard(Here, Line)
<1>1. realNickname' = NicknameHeard(Here, Line)
  <2>1. Here.n = realNickname
    BY DEF Here
  <2> QED
    BY <2>1 DEF ReceiveLine, OnWelcome, OnNicknameInUse, OnNick, OnJoin, OnNamReply,
          OnPart, OnKick,
         OnQuit, OnPubMsg, OnRefusal, Handles, NicknameHeard
<1>2. autojoin' = AutojoinHeard(Here, Line)
  <2>1. Here.n = realNickname /\ Here.aj = autojoin
    BY DEF Here
  <2> QED
    BY <2>1 DEF ReceiveLine, OnWelcome, OnNicknameInUse, OnNick, OnJoin, OnNamReply,
          OnPart, OnKick,
         OnQuit, OnPubMsg, OnRefusal, Handles, AutojoinHeard
<1>3. [c \in Chan |-> UsersOf(c)'] = [c \in Chan |-> UsersHeard(Here, Line, c)]
  BY HearsUsers
<1> QED
  BY <1>1, <1>2, <1>3 DEF Here, Heard

LEMMA AsksNow ==
    ASSUME Types, ReceiveLine
    PROVE  /\ \A c : Asks(toServer, c) => Asks(toServer', c)
           /\ \A c : AsksBack(chSettings, Here, Line, c) => Asks(toServer', c)
<1>1. /\ conn = "up" /\ toServer \in Seq(Query) /\ chSettings \subseteq Chan
      /\ IsFiniteSet(chSettings)
  BY DEF ReceiveLine, OnWelcome, OnNicknameInUse, OnNick, OnJoin, OnNamReply, OnPart, OnKick,
         OnQuit, OnPubMsg, OnRefusal, Handles, Types, TypeOK
<1>2. ASSUME NEW ms \in Seq(Query), Send(ms), NEW c, Asks(toServer, c) \/ Asks(ms, c)
      PROVE  Asks(toServer', c)
  BY <1>1, <1>2, AsksMore DEF Send
<1>3. CASE OnWelcome
  <2>1. PICK cs \in SetToSeqs(chSettings) : Send([i \in DOMAIN cs |-> OnChan("join", cs[i])])
    BY <1>3 DEF OnWelcome
  <2> DEFINE js == [i \in DOMAIN cs |-> OnChan("join", cs[i])]
             n == Cardinality(chSettings)
  <2>2. n \in Nat /\ cs \in [1 .. n -> chSettings]
    BY <1>1, FS_CardinalityType DEF SetToSeqs
  <2>3. /\ js \in [1 .. n -> Query]
        /\ \A i \in 1 .. n : js[i].type = "join" /\ js[i].chan = cs[i]
    <3>1. ASSUME NEW i \in 1 .. n
          PROVE  OnChan("join", cs[i]) \in Query /\ OnChan("join", cs[i]).type = "join"
                 /\ OnChan("join", cs[i]).chan = cs[i]
      <4>1. cs[i] \in Chan
        BY <1>1, <2>2
      <4>2. OnChan("join", cs[i]) \in Query
        BY <4>1, QueryTypes
      <4> QED
        BY <4>2 DEF OnChan, Msg
    <3> QED
      BY <2>2, <3>1
  <2> HIDE DEF js
  <2>4. js \in Seq(Query) /\ Len(js) = n
    BY <2>2, <2>3, SeqDef
  <2>5. ASSUME NEW c \in chSettings PROVE Asks(js, c)
    BY <1>1, <2>3, <2>4, AllNamed DEF Asks
  <2>6. Line.type = "welcome"
    BY <1>3 DEF OnWelcome, Handles
  <2> QED
    BY <1>2, <2>1, <2>4, <2>5, <2>6 DEF AsksBack, js
<1>4. CASE OnKick
  <2>1. Line.type = "kick" /\ Line.chan \in Chan /\ Here.n = realNickname
    BY <1>4, Shorter DEF OnKick, Handles, Line, Types, News, Here
  <2>2. CASE Line.who = realNickname
    <3>1. PICK m : m = OnChan("join", Line.chan)
      OBVIOUS
    <3>2. <<m>> \in Seq(Query) /\ Send(<<m>>) /\ m.type = "join" /\ m.chan = Line.chan
      <4>1. m \in Query /\ m.type = "join" /\ m.chan = Line.chan
        BY <2>1, <3>1, QueryTypes DEF OnChan, Msg
      <4> QED
        BY <1>4, <2>2, <3>1, <4>1 DEF OnKick
    <3>3. Asks(<<m>>, Line.chan)
      <4>1. 1 \in 1 .. Len(<<m>>) /\ <<m>>[1] = m
        OBVIOUS
      <4> QED
        BY <3>2, <4>1 DEF Asks
    <3> QED
      BY <1>2, <2>1, <3>2, <3>3 DEF AsksBack
  <2>3. CASE Line.who # realNickname
    BY <1>4, <2>1, <2>3 DEF OnKick, AsksBack
  <2> QED
    BY <2>2, <2>3
<1>5. CASE OnNicknameInUse
  <2>1. Line.type = "nicknameinuse"
    BY <1>5 DEF OnNicknameInUse, Handles
  <2>2. <<About("nick", Spare)>> \in Seq(Query)
    <3>1. About("nick", Spare) \in Query
      BY QueryTypes, IrcServerAssumption
    <3> QED
      BY <3>1
  <2>3. \A c : Asks(toServer, c) => Asks(toServer', c)
    BY <1>2, <1>5, <2>2 DEF OnNicknameInUse
  <2> QED
    BY <2>1, <2>3 DEF AsksBack
<1>6. CASE OnNick \/ OnJoin \/ OnNamReply \/ OnPart \/ OnQuit \/ OnPubMsg \/ OnRefusal
  BY <1>6 DEF OnNick, OnJoin, OnNamReply, OnPart, OnQuit, OnPubMsg, OnRefusal, Handles, AsksBack
<1> QED
  BY <1>3, <1>4, <1>5, <1>6 DEF ReceiveLine

\* Hearing a line brings the daemon nearer to what it will know.
LEMMA OutlookReceive ==
    ASSUME Types, Registering, Outlook, ReceiveLine PROVE Outlook'
<1> SUFFICES ASSUME conn' = "up", ~missed'
             PROVE  \E t \in Knowledge, K \in SUBSET Chan : Foreseen(t, K)'
  BY DEF Outlook
<1>1. /\ UNCHANGED <<serverVars, conn, missed>> /\ conn = "up" /\ ~missed
      /\ toDaemon # <<>> /\ toDaemon' = Tail(toDaemon)
      /\ chSettings' = IF Line.type = "welcome" THEN {} ELSE chSettings
  BY DEF ReceiveLine, OnWelcome, OnNicknameInUse, OnNick, OnJoin, OnNamReply, OnPart, OnKick,
         OnQuit, OnPubMsg, OnRefusal, Handles
<1>2. PICK k \in Knowledge, J \in SUBSET Chan : Foreseen(k, J)
  BY <1>1 DEF Outlook
<1>3. PICK K \in SUBSET Chan :
         /\ Ahead(IF Line.type = "welcome" THEN {} ELSE chSettings, Heard(Here, Line),
                  Tail(toDaemon), k, K)
         /\ \A c \in J : c \in K \/ AsksBack(chSettings, Here, Line, c)
  <2>1. toDaemon \in Seq(News) /\ Ahead(chSettings, Here, toDaemon, k, J)
    BY <1>2 DEF Types, Foreseen
  <2> QED
    BY <1>1, <2>1, AheadRest DEF Line
<1>4. Ahead(chSettings', Here', toDaemon', k, K)
  BY <1>1, <1>3, Hears
<1>5. phase # "registered" => chSettings' = chSettings
  <2>1. Line = toDaemon[1] /\ 1 \in 1 .. Len(toDaemon)
    BY <1>1, Shorter DEF Line, Types
  <2> QED
    BY <1>1, <2>1 DEF Registering, Types, TypeOK
<1>6. Agrees(k)' /\ Due(k, K)'
  BY <1>1, <1>2, <1>3, <1>5, AsksNow DEF Foreseen, Agrees, AgreesOn, Due, IsOn, serverVars
<1> QED
  BY <1>4, <1>6 DEF Foreseen

LEMMA OutlookNext ==
    Types /\ Registering /\ Unheard /\ Outlook /\ [Next]_vars => Outlook'
<1> SUFFICES ASSUME Types, Registering, Unheard, Outlook, [Next]_vars PROVE Outlook'
  OBVIOUS
<1>1. CASE OnRaisingLine \/ OnClose \/ DropDead \/ Crash \/ OnTimeout
  BY <1>1 DEF OnRaisingLine, OnClose, DropDead, Crash, OnTimeout, NoUser, Create, Outlook
<1>2. CASE OnConnect
  <2>1. /\ conn = "new" /\ phase' = "connected"
        /\ UNCHANGED <<nick, members, toDaemon, realNickname, users, chSettings, autojoin>>
    BY <1>2 DEF OnConnect, Accept
  <2>2. Here' = Here /\ Here \in Knowledge /\ toDaemon = <<>> /\ Here.aj = chSettings
        /\ \A c \in Chan : Here.us[c] = {}
    BY <2>1, HereType DEF Here, UsersOf, Unheard
  <2>3. \A c \in Chan : ~IsOn(c)'
    BY <2>1, Membership DEF IsOn, Types, TypeOK
  <2>4. PICK h : h = Here
    OBVIOUS
  <2>5. Ahead(chSettings', Here', toDaemon', h, {})
    BY <2>1, <2>2, <2>4, AheadNothing
  <2>6. Agrees(h)' /\ Due(h, {})'
    BY <2>1, <2>2, <2>3, <2>4 DEF Agrees, AgreesOn, Due
  <2> QED
    BY <2>2, <2>4, <2>5, <2>6 DEF Outlook, Foreseen
<1>3. ASSUME NEW cmd \in Command, OnUserCommand(cmd) PROVE Outlook'
  <2>1. /\ UNCHANGED <<serverVars, toDaemon, realNickname, autojoin, missed>>
        /\ UNCHANGED <<conn, chSettings>> \/ conn' = "new"
        /\ \A c \in Chan : UsersOf(c)' = UsersOf(c)
    BY <1>3, CommandSends
  <2>2. Here' = Here
    BY <2>1 DEF Here
  <2>3. \A c : Asks(toServer, c) => Asks(toServer', c)
    <3>1. CASE cmd.type # "update"
      <4>1. <<cmd>> \in Seq(Query) /\ Send(<<cmd>>)
        BY <1>3, <3>1, CommandFields DEF OnUserCommand, Obey
      <4>2. toServer \in Seq(Query) /\ (toServer' = toServer \/ toServer' = toServer \o <<cmd>>)
        BY <4>1 DEF Send, Types
      <4>3. \A c : Asks(toServer, c) => Asks(toServer \o <<cmd>>, c)
        BY <4>1, <4>2, AsksMore
      <4> QED
        BY <4>2, <4>3
    <3> QED
      BY <1>3, <3>1 DEF OnUserCommand, Obey
  <2> SUFFICES ASSUME conn' = "up", ~missed'
               PROVE  \E t \in Knowledge, K \in SUBSET Chan : Foreseen(t, K)'
    BY DEF Outlook
  <2>4. PICK k \in Knowledge, J \in SUBSET Chan : Foreseen(k, J)
    BY <2>1 DEF Outlook
  <2>5. Foreseen(k, J)'
    BY <2>1, <2>2, <2>3, <2>4 DEF Foreseen, Agrees, AgreesOn, Due, IsOn, serverVars
  <2> QED
    BY <2>5
<1>4. CASE UNCHANGED vars
  <2>1. Here' = Here
    BY <1>4 DEF vars, ircUser, Here, UsersOf
  <2> QED
    BY <1>4, <2>1
    DEF vars, serverVars, wire, ircUser, Outlook, Foreseen, Agrees, AgreesOn, Due, IsOn
<1> QED
  BY <1>1, <1>2, <1>3, <1>4, OutlookServer, OutlookReceive DEF Next, Daemon

------------------------------------------------------------------------------
(* What it comes to when nothing is under way.                              *)

Session == Types /\ Registering /\ Unheard /\ Absent /\ Outlook

LEMMA SessionAlways == Spec => []Session
<1>1. Init => Absent /\ Outlook
  BY DEF Init, Offline, Absent, Outlook
<1>2. /\ Types /\ Registering /\ Unheard
      /\ Absent /\ Outlook /\ [Next]_vars
      => (Absent /\ Outlook)'
  BY AbsentNext, OutlookNext
<1> QED
  BY <1>1, <1>2, Always, PTL DEF Spec, Session

\* The daemon that has handled every line is right about where it is, and has nothing to
\* join but what it has asked for.
LEMMA WhatItKnows ==
    ASSUME Session, UpToDate
    PROVE  /\ Agrees(Here)
           /\ \A c \in autojoin \ banned : IsOn(c) \/ Asks(toServer, c)
<1>1. conn = "up" /\ ~missed /\ toDaemon = <<>> /\ phase = "registered"
  BY DEF UpToDate, Session, Types, TypeOK
<1>2. PICK k \in Knowledge, J \in SUBSET Chan : Foreseen(k, J)
  BY <1>1 DEF Session, Outlook
<1>3. k = Here /\ J = {}
  BY <1>1, <1>2, AheadNothing DEF Foreseen
<1>4. Here.aj = autojoin
  BY DEF Here
<1> QED
  BY <1>1, <1>2, <1>3, <1>4 DEF Foreseen, Due

\* The daemon that has handled every line knows the nickname the server knows it by, however
\* the renamings, its own and refused ones, have overtaken each other.
THEOREM NicknameKnownAlways == Spec => []NicknameKnown
<1>1. Session => NicknameKnown
  BY WhatItKnows DEF NicknameKnown, UpToDate, Agrees, Here
<1> QED
  BY <1>1, SessionAlways, PTL

\* On the channels whose list has the daemon itself on it, the list of a daemon that has
\* handled every line is exactly the server's.
THEOREM MembersKnownAlways == Spec => []MembersKnown
<1>1. ASSUME Session, UpToDate, NEW c \in DOMAIN users, nick \in users[c]
      PROVE  users[c] = members[c]
  <2>1. c \in Chan /\ UsersOf(c) = users[c]
    BY <1>1, UsersType DEF Session, Types, TypeOK, Users, UsersOf
  <2>2. Here.us[c] = users[c]
    BY <2>1 DEF Here
  <2>3. AgreesOn(Here, c)
    BY <1>1, <2>1, WhatItKnows DEF Agrees
  <2> QED
    BY <1>1, <2>2, <2>3 DEF AgreesOn
<1>2. Session => MembersKnown
  BY <1>1 DEF MembersKnown
<1> QED
  BY <1>2, SessionAlways, PTL

\* A client that is registered, with nothing under way either way, is on exactly the channels
\* it has not left and that let it in, whatever has broken the connection before and whoever
\* has reconnected it.
THEOREM JoinsAgainAlways == Spec => []JoinsAgain
<1>1. ASSUME Session, UpToDate, toServer = <<>>, NEW c \in Chan
      PROVE  IsOn(c) = (c \in autojoin \ banned)
  <2>1. ~Asks(toServer, c)
    BY <1>1 DEF Asks
  <2>2. c \in autojoin \ banned => IsOn(c)
    BY <1>1, <2>1, WhatItKnows
  <2>3. IsOn(c) => c \in autojoin
    BY <1>1, WhatItKnows DEF Agrees, AgreesOn, Here
  <2>4. IsOn(c) => c \notin banned
    BY <1>1 DEF Session, Absent
  <2>5. IsOn(c) \in BOOLEAN
    BY DEF IsOn
  <2> QED
    BY <2>2, <2>3, <2>4, <2>5
<1>2. Session => JoinsAgain
  BY <1>1 DEF JoinsAgain
<1> QED
  BY <1>2, SessionAlways, PTL
=============================================================================
