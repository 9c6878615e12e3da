------------------------------- MODULE Screen -------------------------------
(***************************************************************************)
(* What a page does with an answer: the callbacks of static/sencha         *)
(* (index.js) and static/mvc (Main.js) as operators on a screen, which is  *)
(* a record of                                                             *)
(*    tabs    the channels in the order they were added, both of chanDict  *)
(*            and of the carousel's items;                                 *)
(*    info    chanDict: topic, oldestLogID and newestLogID of a channel;   *)
(*    store   the log store of a channel: ids of its lines, as displayed;  *)
(*    active  the carousel's active item: a tab, NoTab before there was    *)
(*            one, Gone for a tab that has been destroyed;                 *)
(*    thrown  has the callback thrown?                                     *)
(* A line is known by its id, a topic by the id of the line that set it.   *)
(***************************************************************************)
EXTENDS Dict, SequencesExt

CONSTANTS NoTab, Gone

Blank == [tabs |-> <<>>, info |-> <<>>, store |-> <<>>, active |-> NoTab, thrown |-> FALSE]

Tabs(s) == Range(s.tabs)

\* The ids of an answer, the lowest first.
InOrder(ids) ==
    CHOOSE q \in [1 .. Cardinality(ids) -> ids] : \A i, j \in DOMAIN q : i < j => q[i] < q[j]

\* The store's sorter: a line comes behind those of the same id.
Insert(store, id) ==
    InsertAt(store, 1 + Cardinality({k \in DOMAIN store : store[k] <= id}), id)

Display(s, c, id) == [s EXCEPT !.store[c] = Insert(@, id)]

\* GetCurrentChannelInfo: the active item's entry in chanDict, if there is one.
HasCurrent(s) == s.active \in Tabs(s)

----------------------------------------------------------------------------
(* The carousel.                                                           *)

\* Mutant: the first tab does not become active.
AddTabBehind(s, c) == [s EXCEPT !.tabs = Append(@, c)]

\* Container.add: the first item becomes active; an item that is gone counts.
AddTab(s, c) ==
    [s EXCEPT !.tabs = Append(@, c), !.active = IF @ = NoTab THEN c ELSE @]

\* Mutant: the channel dictionary keeps what is closed.
RemoveTabOnly(s, c) ==
    LET rest == RemoveFirst(s.tabs, c)
    IN  [s EXCEPT !.tabs = rest, !.active = IF rest = <<>> THEN Gone ELSE Head(rest)]

\* Container.remove: the first of the others takes over, if there are others;
\* the last one stays the active item though it is destroyed.
RemoveTab(s, c) ==
    LET rest == RemoveFirst(s.tabs, c)
        next == IF s.active # c THEN s.active ELSE IF rest = <<>> THEN Gone ELSE Head(rest)
    IN  [s EXCEPT !.tabs = rest, !.active = next, !.info = Pop(@, c), !.store = Pop(@, c)]

----------------------------------------------------------------------------
(* Lines.                                                                  *)

\* ParseLog: a topic line of new logs sets the topic, and looks whether its channel
\* is the current one, which throws if there is none.
ParseLine(s, c, id, kind, isOldLog) ==
    IF kind # "topic" \/ isOldLog THEN s
    ELSE [s EXCEPT !.info[c].topic = id, !.thrown = ~HasCurrent(s)]

\* oldestLogID and newestLogID, after lines have come.
NoteBounds(s, c, lines) ==
    IF s.thrown \/ lines = <<>> THEN s
    ELSE [s EXCEPT !.info[c].oldest = Head(s.store[c]), !.info[c].newest = Last(s.store[c])]

\* A line of an update is displayed when it is newer than those in the store.
UpdateLine(s, c, id, kind) ==
    LET parsed == ParseLine(s, c, id, kind, FALSE)
    IN  IF s.thrown THEN s
        ELSE IF parsed.thrown \/ (s.store[c] # <<>> /\ Last(s.store[c]) >= id) THEN parsed
        ELSE Display(parsed, c, id)

\* Mutant: no comparison with the oldest one.
OldLineAnyhow(s, c, id, kind, isFirst, isOldLog) ==
    LET parsed == ParseLine(s, c, id, kind, isOldLog)
    IN  IF s.thrown \/ parsed.thrown THEN parsed ELSE Display(parsed, c, id)

\* The first old line is displayed in any case, the others if they are older than
\* the oldest one of the store was.
OldLine(s, c, id, kind, isFirst, isOldLog) ==
    LET parsed == ParseLine(s, c, id, kind, isOldLog)
    IN  IF s.thrown THEN s
        ELSE IF parsed.thrown \/ (~isFirst /\ id >= s.info[c].oldest) THEN parsed
        ELSE Display(parsed, c, id)

----------------------------------------------------------------------------
(* Answers: a channel of one has a name, a topic, and lines, kind by id.   *)

\* AddChannel and CreateChannelElement.
AddChannel(s, ch) ==
    [AddTab(s, ch.name) EXCEPT
        !.info = Put(@, ch.name, [topic |-> ch.topic, oldest |-> Nil, newest |-> Nil]),
        !.store = Put(@, ch.name, <<>>)]

ApplyChannel(s, ch) ==
    LET opened == IF ch.name \in Tabs(s) THEN s ELSE AddChannel(s, ch)
        Line(t, id) == UpdateLine(t, ch.name, id, ch.log[id])
    IN  IF s.thrown THEN s
        ELSE NoteBounds(FoldLeft(Line, opened, InOrder(DOMAIN ch.log)), ch.name, ch.log)

\* Mutant: the new channel is not turned to.
ApplyLogUpdateBehind(s, channels) == FoldLeft(ApplyChannel, s, channels)

\* ApplyLogUpdate / logUpdate: the last of the new channels becomes active.
ApplyLogUpdate(s, channels) ==
    LET applied == FoldLeft(ApplyChannel, s, channels)
        new     == {i \in DOMAIN channels : channels[i].name \notin Tabs(s)}
    IN  IF applied.thrown \/ new = {} THEN applied
        ELSE [applied EXCEPT !.active = channels[Max(new)].name]

\* Mutant: what is old is forgotten.
ShowOldLogAsNew(s, ch, isOldLog) ==
    LET ids == InOrder(DOMAIN ch.log)
        Line(t, id) == OldLine(t, ch.name, id, ch.log[id], id = Head(ids), FALSE)
    IN  IF ch.name \notin Tabs(s) THEN s
        ELSE NoteBounds(FoldLeft(Line, s, ids), ch.name, ch.log)

\* ShowOldLog / oldLog: only mvc says that the lines are old ones.
ShowOldLog(s, ch, isOldLog) ==
    LET ids == InOrder(DOMAIN ch.log)
        Line(t, id) == OldLine(t, ch.name, id, ch.log[id], id = Head(ids), isOldLog)
    IN  IF ch.name \notin Tabs(s) THEN s
        ELSE NoteBounds(FoldLeft(Line, s, ids), ch.name, ch.log)

\* CloseChannel: the tabs that the answer does not name go.  An active one first
\* hands over to the channel updated last, which is the answer's last one, since
\* lines are arrays and have no date to compare.
CloseChannel(s, channels) ==
    LET named == {channels[i].name : i \in DOMAIN channels}
        Close(t, c) ==
            IF c \in named THEN t
            ELSE IF t.active = c /\ channels # <<>>
                 THEN RemoveTab([t EXCEPT !.active = Last(channels).name], c)
            ELSE RemoveTab(t, c)
    IN  FoldLeft(Close, s, s.tabs)

\* Mutant: one line is left out.
LastIDsNext(s) ==
    [c \in {d \in Tabs(s) : s.info[d].newest # Nil} |-> s.info[c].newest + 1]

\* RequestLogUpdate: the newest line of every channel that has one.
LastIDs(s) ==
    [c \in {d \in Tabs(s) : s.info[d].newest # Nil} |-> s.info[c].newest]
=============================================================================
