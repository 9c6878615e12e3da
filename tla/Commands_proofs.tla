--------------------------- MODULE Commands_proofs ---------------------------
(***************************************************************************)
(* For any number of requests, texts, waiting commands and crashes:        *)
(* Commands keeps its types, a dropped user has a reconnect coming, no     *)
(* text of a sencha page is lost on its way to the daemon, and none is     *)
(* said behind a later one, or more often than it was entered.             *)
(***************************************************************************)
EXTENDS Commands, FiniteSetTheorems, TLAPS

Outside == UNCHANGED <<mvc, boxVars, webVars>>

----------------------------------------------------------------------------
(* What the page waits for.                                                *)

\* The request that sencha waits for is the only one, it carries what the box still
\* says, and its success means that this has been published.
Waits ==
    ~mvc => \A s \in Slot : xhr[s].heard =>
        /\ xhr[s].text = box
        /\ xhr[s].at = "done" /\ box # Empty => box \in published
        /\ \A u \in Slot : xhr[u].heard => u = s

\* Who has been connected has settings.
Served == (owed \/ client # "none") => hasServer

IInv == TypeOK /\ Waits /\ Served /\ ReconnectReserved

LEMMA InitInv == Init => IInv
<1> SUFFICES ASSUME Init PROVE IInv
    OBVIOUS
<1>1. TypeOK
    <2>1. \A s \in Slot : ~xhr[s].heard
        BY DEF Init, Free
    <2>2. cmdQueue \in Seq(Text \cup {Update}) /\ said \in Seq(Text)
        BY DEF Init
    <2>3. xhr \in [Slot -> [text : Text \cup {Empty},
                            at : {"free", "sent", "done", "failed"}, heard : BOOLEAN]]
        BY DEF Init, Free
    <2>4. timers \in 0 .. MaxTimers
        BY CommandsAssumption DEF Init
    <2>5. ~enabled <=> ~mvc /\ \E s \in Slot : xhr[s].heard
        BY <2>1 DEF Init
    <2> QED
        BY <2>2, <2>3, <2>4, <2>5 DEF Init, TypeOK, Empty
<1>2. Waits /\ Served /\ ReconnectReserved
    BY DEF Init, Waits, Served, ReconnectReserved, Free
<1> QED
    BY <1>1, <1>2 DEF IInv

LEMMA PageStep == IInv /\ Page => IInv'
<1> SUFFICES ASSUME IInv, Page PROVE IInv'
    OBVIOUS
<1> USE CommandsAssumption
<1>0. UNCHANGED <<hasServer, published, cmdQueue, listening, daemonVars, mvc>>
    BY DEF Page, Type, Enter, Send, OnSuccess, OnFailure, webVars
<1>1. Served' /\ ReconnectReserved'
    BY <1>0 DEF IInv, Served, ReconnectReserved, daemonVars
<1>2. CASE Type
    BY <1>0, <1>1, <1>2
    DEF Type, IInv, TypeOK, Waits, Text, Empty, Update, webVars, daemonVars
<1>3. ASSUME NEW s \in Slot, Enter(s) PROVE IInv'
    <2>1. xhr' = [xhr EXCEPT ![s] = [text |-> box, at |-> "sent", heard |-> TRUE]]
              /\ enabled /\ enabled' = mvc /\ UNCHANGED <<box, typed>>
        BY <1>3 DEF Enter, Send
    <2>2. TypeOK'
        BY <1>0, <2>1 DEF IInv, TypeOK, Text, Empty, Update, daemonVars
    <2>3. Waits'
        BY <1>0, <2>1 DEF IInv, TypeOK, Waits
    <2> QED
        BY <1>1, <2>2, <2>3 DEF IInv
<1>4. ASSUME NEW s \in Slot, OnSuccess(s) PROVE IInv'
    <2>1. xhr' = [xhr EXCEPT ![s] = Free] /\ enabled' /\ enabled' \in BOOLEAN
              /\ box' = Empty /\ xhr[s].heard /\ UNCHANGED typed
        BY <1>4 DEF OnSuccess
    <2>2. ~mvc => \A u \in Slot : ~xhr'[u].heard
        BY <2>1 DEF IInv, TypeOK, Waits, Free
    <2>3. TypeOK'
        BY <1>0, <2>1, <2>2 DEF IInv, TypeOK, Text, Empty, Update, Free, daemonVars
    <2>4. Waits'
        BY <1>0, <2>2 DEF Waits
    <2> QED
        BY <1>1, <2>3, <2>4 DEF IInv
<1>5. ASSUME NEW s \in Slot, OnFailure(s) PROVE IInv'
    <2>1. enabled' /\ enabled' \in BOOLEAN /\ xhr[s].heard /\ UNCHANGED <<box, typed>>
        BY <1>5 DEF OnFailure
    <2>2. xhr' = [xhr EXCEPT ![s] = Free] \/ xhr' = [xhr EXCEPT ![s].heard = FALSE]
        BY <1>5 DEF OnFailure
    <2>3. ~mvc => \A u \in Slot : ~xhr'[u].heard
        BY <2>1, <2>2 DEF IInv, TypeOK, Waits, Free
    <2>t. xhr' \in [Slot -> [text : Text \cup {Empty},
                             at : {"free", "sent", "done", "failed"}, heard : BOOLEAN]]
        <3>1. CASE xhr' = [xhr EXCEPT ![s] = Free]
            BY <3>1 DEF IInv, TypeOK, Free
        <3>2. CASE xhr' = [xhr EXCEPT ![s].heard = FALSE]
            BY ZenonT(60), <3>2 DEF IInv, TypeOK
        <3> QED
            BY <2>2, <3>1, <3>2
    <2>4. TypeOK'
        BY <1>0, <2>1, <2>3, <2>t DEF IInv, TypeOK, Text, Empty, Update, daemonVars
    <2>5. Waits'
        BY <1>0, <2>3 DEF Waits
    <2> QED
        BY <1>1, <2>4, <2>5 DEF IInv
<1> QED
    BY <1>2, <1>3, <1>4, <1>5 DEF Page

LEMMA WebChange == IInv /\ Web => IInv'
<1> SUFFICES ASSUME IInv, Web PROVE IInv'
    OBVIOUS
<1> USE CommandsAssumption
<1>0. UNCHANGED <<mvc, boxVars, listening, daemonVars>>
    BY DEF Web, Cmd, Poll, SetServer
<1>1. ASSUME NEW msg \in Text \cup {Update}, Publish(msg)
      PROVE cmdQueue' \in Seq(Text \cup {Update})
    BY <1>1 DEF Publish, IInv, TypeOK
<1>2. ASSUME NEW s \in Slot, Cmd(s) PROVE IInv'
    <2>1. UNCHANGED hasServer
        BY <1>2 DEF Cmd
    <2>2. cmdQueue' \in Seq(Text \cup {Update})
        <3>1. CASE UNCHANGED cmdQueue
            BY <3>1 DEF IInv, TypeOK
        <3>2. CASE xhr[s].text # Empty /\ Publish(xhr[s].text)
            BY <1>1, <3>2 DEF IInv, TypeOK, Empty
        <3> QED
            BY <1>2, <3>1, <3>2 DEF Cmd
    <2>3. PICK outcome \in {"done", "failed"} :
              /\ xhr' = [xhr EXCEPT ![s] = IF @.heard THEN [@ EXCEPT !.at = outcome] ELSE Free]
              /\ outcome = "done" => xhr[s].text \in published'
              /\ published \subseteq published'
        BY <1>2 DEF Cmd, Answered
    <2>4. \A u \in Slot : xhr'[u].heard = xhr[u].heard
                              /\ (xhr'[u].heard => xhr'[u].text = xhr[u].text)
        BY <2>3 DEF IInv, TypeOK, Free
    <2>5. xhr' \in [Slot -> [text : Text \cup {Empty},
                             at : {"free", "sent", "done", "failed"}, heard : BOOLEAN]]
        BY SMTT(30), <2>3 DEF IInv, TypeOK, Free
    <2>6. TypeOK'
        BY <1>0, <2>1, <2>2, <2>4, <2>5
        DEF IInv, TypeOK, Text, Empty, Update, boxVars, daemonVars
    <2>7. Waits'
        BY <1>0, <2>3, <2>4 DEF IInv, TypeOK, Waits, Free, boxVars
    <2> QED
        BY <1>0, <2>1, <2>6, <2>7 DEF IInv, Served, ReconnectReserved, daemonVars
<1>3. CASE Poll
    <2>1. cmdQueue' \in Seq(Text \cup {Update})
        BY <1>1, <1>3 DEF Poll
    <2> QED
        BY <1>0, <1>3, <2>1
        DEF Poll, IInv, TypeOK, Waits, Served, ReconnectReserved, Text, Empty, Update,
            boxVars, webVars, daemonVars
<1>4. CASE SetServer
    BY <1>0, <1>4
    DEF SetServer, IInv, TypeOK, Waits, Served, ReconnectReserved, Text, Empty, Update,
        boxVars, daemonVars
<1> QED
    BY <1>2, <1>3, <1>4 DEF Web

----------------------------------------------------------------------------
(* The daemon.                                                             *)

\* A step that leaves page and web server alone keeps Waits, and the types of both.
LEMMA Elsewhere ==
    ASSUME IInv, Outside,
           listening' \in BOOLEAN, cmdQueue' \in Seq(Text \cup {Update}),
           said' \in Seq(Text), phase' \in {"io", "commands", "timers", "dead"},
           client' \in {"none", "new", "up", "closed"}, timers' \in 0 .. MaxTimers,
           owed' \in BOOLEAN, Served', ReconnectReserved'
    PROVE  IInv'
  BY DEF Outside, IInv, TypeOK, Waits, Text, Empty, Update, boxVars, webVars

\* What is left of the queue are commands.
LEMMA RestOfQueue ==
    ASSUME TypeOK, cmdQueue # <<>>, cmdQueue' = Tail(cmdQueue)
    PROVE  Head(cmdQueue) \in Text \cup {Update} /\ cmdQueue' \in Seq(Text \cup {Update})
<1> DEFINE S == Text \cup {Update}
<1>1. cmdQueue \in Seq(S)
    BY DEF TypeOK
<1> HIDE DEF S
<1>2. Head(cmdQueue) \in S /\ Tail(cmdQueue) \in Seq(S)
    BY <1>1
<1> QED
    BY <1>2 DEF S

LEMMA LoopStep == IInv /\ MainLoop => IInv'
<1> SUFFICES ASSUME IInv, MainLoop PROVE IInv'
    OBVIOUS
<1> USE CommandsAssumption
<1>0. Outside
    BY DEF MainLoop, Io, Obey, Drop, QueueEmpty, Timers, DropDead, Outside
<1>t. TypeOK /\ Served /\ ReconnectReserved
    BY DEF IInv
<1>1. CASE Io
    BY <1>0, <1>t, <1>1, Elsewhere
    DEF Io, TypeOK, Served, ReconnectReserved, webVars
<1>2. CASE Obey
    <2>1. UNCHANGED <<listening, timers, hasServer>> /\ Get /\ cmdQueue # <<>>
              /\ OnUserCommand(Head(cmdQueue)) /\ cmdQueue' = Tail(cmdQueue)
        BY <1>2 DEF Obey, webVars
    <2>2. /\ client' \in {"none", "new", "up", "closed"} /\ owed' \in BOOLEAN
          /\ Served' /\ ReconnectReserved'
        <3>1. CASE UNCHANGED <<client, owed>>
            BY <1>t, <2>1, <3>1 DEF TypeOK, Served, ReconnectReserved
        <3>2. CASE hasServer /\ client' = "new" /\ owed' = FALSE
            BY <2>1, <3>2 DEF Served, ReconnectReserved
        <3> QED
            BY <2>1, <3>1, <3>2 DEF Get
    <2>3. Head(cmdQueue) \in Text \cup {Update} /\ cmdQueue' \in Seq(Text \cup {Update})
        BY <1>t, <2>1, RestOfQueue
    <2>4. said' \in Seq(Text) /\ phase' \in {"io", "commands", "timers", "dead"}
        BY <1>t, <2>1, <2>3 DEF OnUserCommand, TypeOK
    <2> QED
        BY <1>0, <1>t, <2>1, <2>2, <2>3, <2>4, Elsewhere DEF TypeOK
<1>3. CASE Drop
    <2>1. UNCHANGED <<listening, timers, hasServer, said, client>> /\ cmdQueue # <<>>
              /\ cmdQueue' = Tail(cmdQueue) /\ UNCHANGED owed
              /\ (phase' = phase \/ phase' = "timers")
        BY <1>3 DEF Drop, NoServer, webVars
    <2>2. cmdQueue' \in Seq(Text \cup {Update})
        BY <1>t, <2>1, RestOfQueue
    <2>3. Served' /\ ReconnectReserved'
        BY <1>t, <2>1 DEF Served, ReconnectReserved
    <2> QED
        BY <1>0, <1>t, <2>1, <2>2, <2>3, Elsewhere DEF TypeOK
<1>4. CASE QueueEmpty
    BY <1>0, <1>t, <1>4, Elsewhere
    DEF QueueEmpty, TypeOK, Served, ReconnectReserved, webVars
<1>5. CASE Timers
    <2>1. UNCHANGED <<listening, cmdQueue, hasServer, said>> /\ phase' = "dead"
        BY <1>5 DEF Timers, webVars
    <2>2. CASE UNCHANGED <<timers, client, owed>>
        BY <1>0, <1>t, <2>1, <2>2, Elsewhere DEF TypeOK, Served, ReconnectReserved
    <2>3. CASE /\ timers' \in 0 .. timers - 1 \cup (IF timers = MaxTimers THEN {timers} ELSE {})
               /\ Get \/ NoServer \/ (client = "none" /\ UNCHANGED client /\ owed' = FALSE)
        <3>1. timers' \in 0 .. MaxTimers
            BY <1>t, <2>3 DEF TypeOK
        <3>2. client' \in {"none", "new", "up", "closed"} /\ owed' = FALSE /\ Served'
            BY <1>t, <2>1, <2>3 DEF Get, NoServer, TypeOK, Served, ReconnectReserved
        <3> QED
            BY <1>0, <1>t, <2>1, <3>1, <3>2, Elsewhere DEF TypeOK, ReconnectReserved
    <2> QED
        BY <1>5, <2>2, <2>3 DEF Timers
<1>6. CASE DropDead
    <2>1. UNCHANGED <<listening, cmdQueue, hasServer, said>> /\ phase' = "io"
        BY <1>6 DEF DropDead, webVars
    <2>2. CASE UNCHANGED <<client, timers, owed>>
        BY <1>0, <1>t, <2>1, <2>2, Elsewhere DEF TypeOK, Served, ReconnectReserved
    <2>3. CASE client # "none" /\ client' = "none" /\ Reserved /\ owed' = TRUE
        <3>1. timers' \in 0 .. MaxTimers /\ timers' > 0
            BY <1>t, <2>3 DEF Reserved, TypeOK
        <3> QED
            BY <1>0, <1>t, <2>1, <2>3, <3>1, Elsewhere
            DEF TypeOK, Served, ReconnectReserved
    <2> QED
        BY <1>6, <2>2, <2>3 DEF DropDead
<1> QED
    BY <1>1, <1>2, <1>3, <1>4, <1>5, <1>6 DEF MainLoop

LEMMA StepInv == IInv /\ [Next]_vars => IInv'
<1> SUFFICES ASSUME IInv, [Next]_vars PROVE IInv'
    OBVIOUS
<1> USE CommandsAssumption
<1>1. CASE Subscribe
    BY <1>1, Elsewhere
    DEF Subscribe, Outside, IInv, TypeOK, Served, ReconnectReserved, webVars, daemonVars
<1>2. CASE Crash
    <2>1. Outside /\ listening' = FALSE /\ cmdQueue' = <<>> /\ phase' = "io"
              /\ client' = "none" /\ timers' = 0 /\ owed' = FALSE /\ UNCHANGED said
        BY <1>2 DEF Crash, Outside
    <2>2. timers' \in 0 .. MaxTimers /\ cmdQueue' \in Seq(Text \cup {Update})
        BY <2>1
    <2>3. Served' /\ ReconnectReserved'
        BY <2>1 DEF Served, ReconnectReserved
    <2> QED
        BY <2>1, <2>2, <2>3, Elsewhere DEF IInv, TypeOK
<1>3. CASE UNCHANGED vars
    BY <1>3, Elsewhere
    DEF vars, Outside, IInv, TypeOK, Served, ReconnectReserved, webVars, daemonVars
<1> QED
    BY PageStep, WebChange, LoopStep, <1>1, <1>2, <1>3 DEF Next

LEMMA Invariance == Spec => []IInv
  BY InitInv, StepInv, PTL DEF Spec

----------------------------------------------------------------------------
\* The state of the pipeline has its types, and the sencha box is closed exactly while
\* the page waits for the answer to a command.
THEOREM CommandsTypeCorrect == Spec => []TypeOK
  BY Invariance, PTL DEF IInv

\* A user whose client ConnectionManager.update has dropped has a timer in the heap,
\* until something has connected them or was tried.
THEOREM ReconnectReservedAlways == Spec => []ReconnectReserved
  BY Invariance, PTL DEF IInv

\* The sencha box is never emptied of a text that xhrCmd has not published.
THEOREM NothingTypedIsLost == Spec => NothingTypedLost
<1>1. IInv /\ [Next]_vars => [~mvc /\ box # Empty /\ box' = Empty => box \in published]_vars
    <2> SUFFICES ASSUME IInv, Next, ~mvc, box # Empty, box' = Empty
                 PROVE  box \in published
        BY DEF vars, boxVars
    <2>1. ASSUME NEW s \in Slot, OnSuccess(s) PROVE box \in published
        BY <2>1 DEF OnSuccess, IInv, Waits
    <2>2. CASE Type
        BY <2>2, CommandsAssumption DEF Type, IInv, TypeOK, Text, Empty
    <2>3. CASE UNCHANGED box
        BY <2>3
    <2>4. (\E s \in Slot : OnSuccess(s)) \/ Type \/ UNCHANGED box
        BY DEF Next, Page, Web, MainLoop, Subscribe, Crash, Enter, Send, OnFailure, Cmd, Poll,
               SetServer, Io, Obey, Drop, QueueEmpty, Timers, DropDead, boxVars
    <2> QED
        BY <2>1, <2>2, <2>3, <2>4
<1> QED
    BY <1>1, Invariance, PTL DEF Spec, NothingTypedLost

----------------------------------------------------------------------------
(* In what order texts are said.                                           *)

Histories == tries \in [Text -> Nat] /\ acked \subseteq Text \cup {Empty}

\* Nothing is under way that was not typed, and the box says what was typed last.
Known ==
    /\ box \in {Empty, typed}
    /\ \A s \in Slot : xhr[s].text <= typed
    /\ \A i \in DOMAIN said : said[i] <= typed
    /\ \A i \in DOMAIN cmdQueue : cmdQueue[i] # Update => cmdQueue[i] <= typed

Carries(s, u) == xhr[s].at # "free" /\ xhr[s].text = u

\* A text that was entered once has one request, which is over when it was confirmed.
Requests ==
    \A u \in Text :
        /\ tries[u] = 0 => u \notin acked /\ \A s \in Slot : ~Carries(s, u)
        /\ tries[u] = 1 =>
              /\ \A s, v \in Slot : Carries(s, u) /\ Carries(v, u) => s = v
              /\ u \in acked => \A s \in Slot : ~Carries(s, u)

\* The texts entered once of which the page knows, or is about to be told, that they
\* were published.
Confirmed ==
    {u \in Text : /\ tries[u] = 1
                  /\ \/ u \in acked
                     \/ \E s \in Slot : xhr[s].heard /\ xhr[s].at = "done" /\ xhr[s].text = u}

Order ==
    ~mvc =>
        /\ \A i, j \in DOMAIN said : i < j /\ said[j] \in Confirmed => said[i] <= said[j]
        /\ \A i \in DOMAIN said, j \in DOMAIN cmdQueue :
              cmdQueue[j] \in Confirmed => said[i] <= cmdQueue[j]
        /\ \A i, j \in DOMAIN cmdQueue :
              i < j /\ cmdQueue[i] # Update /\ cmdQueue[j] \in Confirmed
                  => cmdQueue[i] <= cmdQueue[j]

OrderInv == Histories /\ Known /\ Requests /\ Order

LEMMA Texts == Empty \notin Text /\ Update \notin Text /\ Update # Empty
BY CommandsAssumption DEF Text, Empty, Update

\* Who takes commands, or forgets them, changes no order.
LEMMA SameOrder ==
    ASSUME TypeOK, Order, UNCHANGED <<mvc, said>>,
           \/ cmdQueue' = cmdQueue
           \/ cmdQueue' = <<>>
           \/ cmdQueue # <<>> /\ cmdQueue' = Tail(cmdQueue),
           Confirmed' \subseteq Confirmed
    PROVE  Order'
<1>1. cmdQueue \in Seq(Text \cup {Update}) /\ said \in Seq(Text)
    BY DEF TypeOK
<1>2. \A i \in DOMAIN said : said[i] \in Text
    BY <1>1
<1>3. \A i \in DOMAIN cmdQueue : cmdQueue[i] \in Text \cup {Update}
    BY <1>1
<1>4. PICK k \in {0, 1} : \A i \in DOMAIN cmdQueue' :
          /\ i \in Nat /\ i + k \in DOMAIN cmdQueue /\ cmdQueue'[i] = cmdQueue[i + k]
    <2>1. CASE cmdQueue' = cmdQueue
        BY <1>1, <2>1
    <2>2. CASE cmdQueue' = <<>>
        BY <2>2
    <2>3. CASE cmdQueue # <<>> /\ cmdQueue' = Tail(cmdQueue)
        <3>1. \A i \in DOMAIN Tail(cmdQueue) :
                  i \in Nat /\ i + 1 \in DOMAIN cmdQueue /\ Tail(cmdQueue)[i] = cmdQueue[i + 1]
            BY <1>1, <2>3
        <3> QED
            BY <2>3, <3>1
    <2> QED
        BY <2>1, <2>2, <2>3
<1>5. ASSUME ~mvc
      PROVE  \A i, j \in DOMAIN said : i < j /\ said[j] \in Confirmed' => said[i] <= said[j]
    BY <1>5 DEF Order
<1>6. ASSUME ~mvc
      PROVE  \A i \in DOMAIN said, j \in DOMAIN cmdQueue' :
                cmdQueue'[j] \in Confirmed' => said[i] <= cmdQueue'[j]
    BY <1>4, <1>6 DEF Order
<1>7. ASSUME ~mvc
      PROVE  \A i, j \in DOMAIN cmdQueue' :
                i < j /\ cmdQueue'[i] # Update /\ cmdQueue'[j] \in Confirmed'
                    => cmdQueue'[i] <= cmdQueue'[j]
    BY <1>4, <1>7 DEF Order
<1> QED
    BY <1>5, <1>6, <1>7 DEF Order, Update

LEMMA OrderInit == Init => OrderInv
<1> SUFFICES ASSUME Init PROVE OrderInv
    OBVIOUS
<1>1. DOMAIN said = {} /\ DOMAIN cmdQueue = {}
    BY DEF Init
<1>2. Histories /\ Known /\ Order
    BY <1>1 DEF Init, Histories, Known, Order, Free, Empty
<1>3. Requests
    BY DEF Init, Requests, Carries, Free
<1> QED
    BY <1>2, <1>3 DEF OrderInv

\* What is said and waits is not newer than it was.
LEMMA SameKnown ==
    ASSUME TypeOK, Known, box' \in {Empty, typed'}, typed' \in Nat, typed <= typed',
           \A s \in Slot : xhr'[s].text <= typed', UNCHANGED <<said, cmdQueue>>
    PROVE  Known'
<1>1. typed \in Nat
    BY CommandsAssumption DEF TypeOK, Text, Empty
<1>2. \A i \in DOMAIN said : said[i] \in Nat
    BY SMTT(30), CommandsAssumption DEF TypeOK, Text
<1>3. \A i \in DOMAIN cmdQueue : cmdQueue[i] \in Nat
    BY SMTT(30), CommandsAssumption DEF TypeOK, Text, Update
<1> QED
    BY <1>1, <1>2, <1>3 DEF Known

LEMMA OrderPage == IInv /\ OrderInv /\ Page => OrderInv'
<1> SUFFICES ASSUME IInv, OrderInv, Page PROVE OrderInv'
    OBVIOUS
<1>0. UNCHANGED <<cmdQueue, said, mvc>>
    BY DEF Page, Type, Enter, Send, OnSuccess, OnFailure, daemonVars
<1>t. /\ typed \in Nat /\ box \in Text \cup {Empty} /\ Text \subseteq Nat /\ Empty \in Nat
      /\ \A s \in Slot : xhr[s].text \in Text \cup {Empty}
    BY CommandsAssumption DEF IInv, TypeOK, Text, Empty
<1>x. xhr \in [Slot -> [text : Text \cup {Empty}, at : {"free", "sent", "done", "failed"},
                        heard : BOOLEAN]]
    BY DEF IInv, TypeOK
<1>h. Histories /\ Known /\ Requests /\ Order
    BY DEF OrderInv
<1>1. CASE Type
    <2>1. /\ typed' = typed + 1 /\ box' = typed' /\ UNCHANGED <<tries, acked, xhr>>
        BY <1>1 DEF Type, webVars
    <2>2. Known'
        <3>1. typed' \in Nat /\ typed <= typed' /\ box' \in {Empty, typed'}
            BY <1>t, <2>1
        <3>2. \A s \in Slot : xhr[s].text \in Nat /\ xhr[s].text <= typed
            BY <1>h, <1>t DEF Known
        <3>3. \A s \in Slot : xhr'[s].text <= typed'
            BY <1>t, <2>1, <3>2
        <3> QED
            BY <1>0, <1>h, <3>1, <3>3, SameKnown DEF IInv
    <2>3. Histories' /\ Requests' /\ Confirmed' = Confirmed
        BY <1>h, <2>1 DEF Histories, Requests, Carries, Confirmed
    <2> QED
        BY <1>0, <1>h, <2>2, <2>3, SameOrder DEF IInv, OrderInv
<1>2. ASSUME NEW s \in Slot, Enter(s) PROVE OrderInv'
    <2>1. /\ xhr[s].at = "free" /\ UNCHANGED <<box, typed, acked>>
          /\ xhr' = [xhr EXCEPT ![s] = [text |-> box, at |-> "sent", heard |-> TRUE]]
          /\ IF box = Empty THEN UNCHANGED tries ELSE tries' = [tries EXCEPT ![box] = @ + 1]
        BY <1>2 DEF Enter, Send
    <2>2. /\ xhr'[s].text = box /\ xhr'[s].at = "sent"
          /\ \A v \in Slot \ {s} : xhr'[v] = xhr[v]
        BY <1>x, <2>1
    <2>3. \A v \in Slot : xhr'[v].text <= typed'
        BY <1>h, <1>t, <2>1, <2>2 DEF Known, Empty
    <2>4. Known'
        BY <1>0, <1>t, <1>h, <2>1, <2>3, SameKnown DEF IInv, Known
    <2>5. Histories'
        BY <1>h, <1>t, <2>1 DEF Histories
    <2>6. \A u \in Text : /\ tries[u] \in Nat
                          /\ tries'[u] = IF u = box THEN tries[u] + 1 ELSE tries[u]
        BY <1>h, <2>1, Texts DEF Histories
    <2>7. \A u \in Text : /\ ~Carries(s, u) /\ (Carries(s, u)' <=> u = box)
                          /\ \A v \in Slot \ {s} : Carries(v, u)' <=> Carries(v, u)
        BY <2>1, <2>2 DEF Carries
    <2>8. Requests'
        BY <1>h, <2>1, <2>6, <2>7 DEF Requests
    <2>9. Confirmed' \subseteq Confirmed
        <3> SUFFICES ASSUME NEW u \in Confirmed' PROVE u \in Confirmed
            OBVIOUS
        <3>1. u \in Text /\ tries'[u] = 1
            BY DEF Confirmed
        <3>2. CASE u \in acked'
            BY <1>h, <2>1, <2>6, <3>1, <3>2 DEF Confirmed, Requests
        <3>3. ASSUME NEW v \in Slot, xhr'[v].heard, xhr'[v].at = "done", xhr'[v].text = u
              PROVE  u \in Confirmed
            <4>1. v # s /\ xhr'[v] = xhr[v] /\ Carries(v, u)
                BY <2>2, <3>3 DEF Carries
            <4> QED
                BY <1>h, <2>6, <3>1, <3>3, <4>1 DEF Confirmed, Requests
        <3> QED
            BY <3>2, <3>3 DEF Confirmed
    <2> QED
        BY <1>0, <1>h, <2>4, <2>5, <2>8, <2>9, SameOrder DEF IInv, OrderInv
<1>3. ASSUME NEW s \in Slot, OnSuccess(s) \/ OnFailure(s) PROVE OrderInv'
    <2>1. /\ xhr[s].heard /\ UNCHANGED <<typed, tries>> /\ box' \in {Empty, box}
          /\ \/ /\ acked' = acked \cup {xhr[s].text} /\ xhr[s].at = "done"
                /\ xhr' = [xhr EXCEPT ![s] = Free]
             \/ acked' = acked /\ xhr' = [xhr EXCEPT ![s] = Free]
             \/ acked' = acked /\ xhr' = [xhr EXCEPT ![s].heard = FALSE]
        BY <1>3 DEF OnSuccess, OnFailure
    <2>2. /\ \A v \in Slot \ {s} : xhr'[v] = xhr[v]
          /\ xhr'[s].text \in {Empty, xhr[s].text} /\ ~xhr'[s].heard
          /\ xhr'[s].at = "free" \/ (xhr'[s].text = xhr[s].text /\ xhr'[s].at = xhr[s].at)
          /\ acked' # acked => xhr'[s].at = "free"
        BY <1>x, <2>1 DEF Free
    <2>3. Known'
        <3>1. \A v \in Slot : xhr'[v].text <= typed'
            BY <1>h, <1>t, <2>1, <2>2 DEF Known, Empty
        <3> QED
            BY <1>0, <1>t, <1>h, <2>1, <3>1, SameKnown DEF IInv, Known
    <2>4. Histories'
        BY <1>h, <1>t, <2>1 DEF Histories
    <2>5. \A u \in Text, v \in Slot : Carries(v, u)' => Carries(v, u)
        BY <2>2 DEF Carries
    <2>6. Requests'
        <3>1. ASSUME NEW u \in Text, u \in acked', u \notin acked
              PROVE  Carries(s, u) /\ ~Carries(s, u)'
            BY <2>1, <2>2, <3>1 DEF Carries
        <3> QED
            BY <1>h, <2>1, <2>5, <3>1 DEF Requests
    <2>7. Confirmed' \subseteq Confirmed
        BY <2>1, <2>2 DEF Confirmed
    <2> QED
        BY <1>0, <1>h, <2>3, <2>4, <2>6, <2>7, SameOrder DEF IInv, OrderInv
<1> QED
    BY <1>1, <1>2, <1>3 DEF Page

\* One more command waits: if it counts as confirmed, nothing newer is before it.
LEMMA AppendOrder ==
    ASSUME TypeOK, Order, UNCHANGED <<mvc, said>>,
           NEW u \in Text \cup {Update},
           cmdQueue' = cmdQueue \/ cmdQueue' = Append(cmdQueue, u),
           Confirmed' \subseteq Confirmed \cup {u},
           u \in Confirmed' =>
               /\ \A i \in DOMAIN said : said[i] <= u
               /\ \A i \in DOMAIN cmdQueue : cmdQueue[i] # Update => cmdQueue[i] <= u
    PROVE  Order'
<1>1. cmdQueue \in Seq(Text \cup {Update}) /\ said \in Seq(Text)
    BY DEF TypeOK
<1>2. Text \cup {Update} \subseteq Nat
    BY CommandsAssumption DEF Text, Update
<1>3. \A j \in DOMAIN cmdQueue' :
          \/ j \in DOMAIN cmdQueue /\ cmdQueue'[j] = cmdQueue[j]
          \/ /\ cmdQueue'[j] = u
             /\ \A i \in DOMAIN cmdQueue' : i # j => i \in DOMAIN cmdQueue /\ i < j
    BY <1>1
<1>4. u \in Nat /\ u <= u
    BY <1>2
<1>5. ASSUME ~mvc
      PROVE  \A i, j \in DOMAIN said : i < j /\ said[j] \in Confirmed' => said[i] <= said[j]
    <2>1. SUFFICES ASSUME NEW i \in DOMAIN said, NEW j \in DOMAIN said,
                          i < j, said[j] \in Confirmed'
                   PROVE  said[i] <= said[j]
        OBVIOUS
    <2> QED
        BY <1>5, <2>1 DEF Order
<1>6. ASSUME ~mvc
      PROVE  \A i \in DOMAIN said, j \in DOMAIN cmdQueue' :
                cmdQueue'[j] \in Confirmed' => said[i] <= cmdQueue'[j]
    <2>1. SUFFICES ASSUME NEW i \in DOMAIN said, NEW j \in DOMAIN cmdQueue',
                          cmdQueue'[j] \in Confirmed'
                   PROVE  said[i] <= cmdQueue'[j]
        OBVIOUS
    <2>2. CASE cmdQueue'[j] = u
        BY <2>1, <2>2
    <2>3. CASE cmdQueue'[j] # u
        BY <1>3, <1>6, <2>1, <2>3 DEF Order
    <2> QED
        BY <2>2, <2>3
<1>7. ASSUME ~mvc
      PROVE  \A i, j \in DOMAIN cmdQueue' :
                i < j /\ cmdQueue'[i] # Update /\ cmdQueue'[j] \in Confirmed'
                    => cmdQueue'[i] <= cmdQueue'[j]
    <2>1. SUFFICES ASSUME NEW i \in DOMAIN cmdQueue', NEW j \in DOMAIN cmdQueue', i < j,
                          cmdQueue'[i] # Update, cmdQueue'[j] \in Confirmed'
                   PROVE  cmdQueue'[i] <= cmdQueue'[j]
        OBVIOUS
    <2>2. i \in DOMAIN cmdQueue /\ cmdQueue'[i] = cmdQueue[i]
        BY SMTT(30), <1>1, <2>1
    <2>3. CASE cmdQueue'[j] = u
        BY <2>1, <2>2, <2>3
    <2>4. CASE cmdQueue'[j] # u
        <3>1. j \in DOMAIN cmdQueue /\ cmdQueue'[j] = cmdQueue[j] /\ cmdQueue[j] \in Confirmed
            BY <1>3, <2>1, <2>4
        <3> QED
            BY <1>7, <2>1, <2>2, <3>1 DEF Order
    <2> QED
        BY <2>3, <2>4
<1> QED
    BY <1>5, <1>6, <1>7 DEF Order, Update

\* The request of a slot has been answered, with or without being published.
LEMMA OrderCmd == ASSUME IInv, OrderInv, NEW s \in Slot, Cmd(s) PROVE OrderInv'
<1>h. /\ Histories /\ Known /\ Requests /\ Order /\ Waits
      /\ UNCHANGED <<mvc, box, typed, tries, acked, said>> /\ xhr[s].at = "sent"
    BY DEF OrderInv, IInv, Cmd, boxVars, daemonVars
<1>x. xhr \in [Slot -> [text : Text \cup {Empty}, at : {"free", "sent", "done", "failed"},
                        heard : BOOLEAN]]
    BY DEF IInv, TypeOK
<1>t. /\ typed \in Nat /\ Text \subseteq Nat /\ Empty \in Nat /\ Update \in Nat
      /\ xhr[s].text \in Text \cup {Empty} /\ cmdQueue \in Seq(Text \cup {Update})
    BY <1>x, CommandsAssumption DEF IInv, TypeOK, Text, Empty, Update
<1>1. /\ \A v \in Slot \ {s} : xhr'[v] = xhr[v]
      /\ \/ ~xhr[s].heard /\ xhr'[s] = Free
         \/ xhr[s].heard /\ xhr'[s].text = xhr[s].text /\ xhr'[s].at \in {"done", "failed"}
    BY <1>x DEF Cmd, Answered
<1>2. \A u \in Text, v \in Slot : Carries(v, u)' => Carries(v, u)
    BY <1>1, <1>h DEF Carries, Free
<1>3. Requests'
    BY <1>2, <1>h DEF Requests
<1>4. Histories'
    BY <1>h DEF Histories
<1>5. \A v \in Slot : xhr'[v].text <= typed'
    BY <1>h, <1>t, <1>1 DEF Known, Free, Empty
<1>6. CASE cmdQueue' = cmdQueue /\ Answered(s, "failed")
    <2>1. Known'
        BY <1>h, <1>t, <1>5, <1>6, SameKnown DEF IInv, Known
    <2>2. xhr'[s].at # "done"
        BY <1>6, <1>x DEF Answered, Free
    <2>3. Confirmed' \subseteq Confirmed
        BY <1>1, <1>h, <2>2 DEF Confirmed
    <2> QED
        BY <1>h, <1>3, <1>4, <1>6, <2>1, <2>3, SameOrder DEF IInv, OrderInv
<1>7. ASSUME xhr[s].text # Empty, Publish(xhr[s].text) PROVE OrderInv'
    <2>1. PICK u \in Text : u = xhr[s].text
        BY <1>7, <1>t
    <2>2. u <= typed /\ Carries(s, u) /\ u # Update
        BY <1>h, <2>1, Texts DEF Known, Carries
    <2>3. cmdQueue' = cmdQueue \/ cmdQueue' = Append(cmdQueue, u)
        BY <1>7, <2>1 DEF Publish
    <2>4. Known'
        <3>1. \A i \in DOMAIN cmdQueue' :
                  cmdQueue'[i] = u \/ (i \in DOMAIN cmdQueue /\ cmdQueue'[i] = cmdQueue[i])
            BY <1>t, <2>3
        <3> QED
            BY <1>h, <1>5, <2>2, <3>1 DEF Known, Update
    <2>5. Confirmed' \subseteq Confirmed \cup {u}
        <3>1. \A v \in Slot : xhr'[v] = xhr[v] \/ xhr'[v].text = u \/ ~xhr'[v].heard
            BY <1>1, <2>1 DEF Free
        <3> QED
            BY <1>h, <3>1 DEF Confirmed
    <2>6. ASSUME ~mvc, u \in Confirmed'
          PROVE  u = typed
        <3>1. CASE xhr[s].heard
            BY <1>h, <1>7, <2>1, <2>6, <3>1 DEF Waits, Known
        <3>2. CASE ~xhr[s].heard
            <4>1. tries[u] = 1 /\ u \notin acked
                BY <1>h, <2>2, <2>6 DEF Confirmed, Requests
            <4>2. PICK v \in Slot : xhr'[v].at = "done" /\ xhr'[v].text = u
                BY <1>h, <2>6, <4>1 DEF Confirmed
            <4>3. v # s /\ Carries(v, u)
                BY <1>1, <3>2, <4>2 DEF Carries, Free
            <4> QED
                BY <1>h, <2>2, <4>1, <4>3 DEF Requests
        <3> QED
            BY <3>1, <3>2
    <2>7. ASSUME ~mvc PROVE Order'
        BY <1>h, <2>2, <2>3, <2>5, <2>6, <2>7, AppendOrder DEF IInv, Known
    <2>8. Order'
        BY <1>h, <2>7 DEF Order
    <2> QED
        BY <1>3, <1>4, <2>4, <2>8 DEF OrderInv
<1> QED
    BY <1>6, <1>7 DEF Cmd

LEMMA OrderWeb == IInv /\ OrderInv /\ Web => OrderInv'
<1> SUFFICES ASSUME IInv, OrderInv, Web PROVE OrderInv'
    OBVIOUS
<1>h. Histories /\ Known /\ Requests /\ Order
    BY DEF OrderInv
<1>1. CASE \E s \in Slot : Cmd(s)
    BY <1>1, OrderCmd
<1>2. ASSUME Poll PROVE OrderInv'
    <2>1. /\ UNCHANGED <<mvc, box, typed, tries, acked, xhr, said>>
          /\ cmdQueue' = cmdQueue \/ cmdQueue' = Append(cmdQueue, Update)
          /\ cmdQueue \in Seq(Text \cup {Update})
        BY <1>2 DEF Poll, Publish, boxVars, webVars, daemonVars, IInv, TypeOK
    <2>2. Confirmed' = Confirmed
        BY <2>1 DEF Confirmed
    <2>3. Update \notin Confirmed'
        BY Texts DEF Confirmed
    <2>4. Order'
        BY <1>h, <2>1, <2>2, <2>3, AppendOrder DEF IInv
    <2>5. \A i \in DOMAIN cmdQueue' :
              cmdQueue'[i] = Update \/ (i \in DOMAIN cmdQueue /\ cmdQueue'[i] = cmdQueue[i])
        BY <2>1
    <2>6. Known'
        BY <1>h, <2>1, <2>5 DEF Known, Update
    <2>7. Histories' /\ Requests'
        BY <1>h, <2>1 DEF Histories, Requests, Carries
    <2> QED
        BY <2>4, <2>6, <2>7 DEF OrderInv
<1>3. CASE SetServer
    <2>1. UNCHANGED <<mvc, box, typed, tries, acked, xhr, said, cmdQueue>>
        BY <1>3 DEF SetServer, boxVars, daemonVars
    <2>2. Confirmed' = Confirmed
        BY <2>1 DEF Confirmed
    <2> QED
        BY <1>h, <2>1, <2>2, SameOrder
        DEF IInv, OrderInv, Histories, Known, Requests, Carries, Update
<1> QED
    BY <1>1, <1>2, <1>3 DEF Web

\* What the daemon does moves the first command into what is said, or forgets it.
LEMMA OrderDaemon == IInv /\ OrderInv /\ (MainLoop \/ Subscribe \/ Crash) => OrderInv'
<1> SUFFICES ASSUME IInv, OrderInv, MainLoop \/ Subscribe \/ Crash PROVE OrderInv'
    OBVIOUS
<1>h. /\ Histories /\ Known /\ Requests /\ Order
      /\ cmdQueue \in Seq(Text \cup {Update}) /\ said \in Seq(Text)
    BY DEF OrderInv, IInv, TypeOK
<1>1. UNCHANGED <<mvc, box, typed, tries, acked, xhr>>
    BY DEF MainLoop, Io, Obey, Drop, QueueEmpty, Timers, DropDead, Subscribe, Crash,
           boxVars, webVars
<1>2. Confirmed' = Confirmed /\ Histories' /\ Requests'
    BY <1>h, <1>1 DEF Confirmed, Histories, Requests, Carries
<1>3. \/ cmdQueue' = cmdQueue /\ said' = said
      \/ cmdQueue' = <<>> /\ said' = said
      \/ cmdQueue # <<>> /\ cmdQueue' = Tail(cmdQueue) /\ said' = said
      \/ /\ cmdQueue # <<>> /\ cmdQueue' = Tail(cmdQueue)
         /\ Head(cmdQueue) # Update /\ said' = Append(said, Head(cmdQueue))
    BY DEF MainLoop, Io, Obey, OnUserCommand, Drop, QueueEmpty, Timers, DropDead, Subscribe,
           Crash, daemonVars
<1>4. \A i \in DOMAIN Tail(cmdQueue) :
          cmdQueue # <<>> =>
              i \in Nat /\ i + 1 \in DOMAIN cmdQueue /\ Tail(cmdQueue)[i] = cmdQueue[i + 1]
    BY <1>h
<1>5. cmdQueue # <<>> => 1 \in DOMAIN cmdQueue /\ Head(cmdQueue) = cmdQueue[1]
    BY <1>h
<1>6. \A i \in DOMAIN cmdQueue' : \E j \in DOMAIN cmdQueue : cmdQueue'[i] = cmdQueue[j]
    <2>1. CASE cmdQueue' = <<>>
        BY <2>1
    <2> QED
        BY <1>3, <1>4, <2>1
<1>7. CASE said' = said
    BY <1>h, <1>1, <1>2, <1>3, <1>6, <1>7, SameOrder DEF IInv, OrderInv, Known, Update
<1>8. ASSUME cmdQueue # <<>>, cmdQueue' = Tail(cmdQueue), Head(cmdQueue) # Update,
             said' = Append(said, Head(cmdQueue))
      PROVE  OrderInv'
    <2>1. PICK u \in Text : u = cmdQueue[1] /\ u # Update /\ said' = Append(said, u)
        BY <1>h, <1>5, <1>8
    <2>2. \A j \in DOMAIN said' :
              \/ j \in DOMAIN said /\ said'[j] = said[j]
              \/ said'[j] = u /\ \A i \in DOMAIN said' : i # j => i \in DOMAIN said /\ i < j
        BY <1>h, <2>1
    <2>3. \A i, j \in DOMAIN said' : i < j => i \in DOMAIN said /\ said'[i] = said[i]
        BY <1>h, <2>1
    <2>4. Known'
        <3>1. u <= typed
            BY <1>h, <1>5, <1>8, <2>1 DEF Known
        <3> QED
            BY <1>h, <1>1, <1>6, <2>2, <3>1 DEF Known, Update
    <2>5. ASSUME ~mvc
          PROVE  \A i, j \in DOMAIN said' :
                    i < j /\ said'[j] \in Confirmed => said'[i] <= said'[j]
        BY <1>h, <1>5, <1>8, <2>1, <2>2, <2>3, <2>5 DEF Order
    <2>6. ASSUME ~mvc
          PROVE  \A i \in DOMAIN said', j \in DOMAIN cmdQueue' :
                    cmdQueue'[j] \in Confirmed => said'[i] <= cmdQueue'[j]
        <3> SUFFICES ASSUME NEW i \in DOMAIN said', NEW j \in DOMAIN cmdQueue',
                            cmdQueue'[j] \in Confirmed
                     PROVE  said'[i] <= cmdQueue'[j]
            OBVIOUS
        <3>1. /\ j \in Nat /\ 1 < j + 1 /\ j + 1 \in DOMAIN cmdQueue
              /\ cmdQueue'[j] = cmdQueue[j + 1]
            BY <1>4, <1>8, <1>h
        <3>2. u <= cmdQueue'[j]
            BY <1>5, <1>8, <2>1, <2>6, <3>1, <1>h DEF Order
        <3>3. \A k \in DOMAIN said : said[k] <= cmdQueue'[j]
            BY <2>6, <3>1, <1>h DEF Order
        <3> QED
            BY <2>2, <3>2, <3>3
    <2>7. ASSUME ~mvc
          PROVE  \A i, j \in DOMAIN cmdQueue' :
                    i < j /\ cmdQueue'[i] # Update /\ cmdQueue'[j] \in Confirmed
                        => cmdQueue'[i] <= cmdQueue'[j]
        <3> SUFFICES ASSUME NEW i \in DOMAIN cmdQueue', NEW j \in DOMAIN cmdQueue', i < j,
                            cmdQueue'[i] # Update, cmdQueue'[j] \in Confirmed
                     PROVE  cmdQueue'[i] <= cmdQueue'[j]
            OBVIOUS
        <3>1. /\ i \in Nat /\ j \in Nat /\ i + 1 < j + 1
              /\ i + 1 \in DOMAIN cmdQueue /\ cmdQueue'[i] = cmdQueue[i + 1]
              /\ j + 1 \in DOMAIN cmdQueue /\ cmdQueue'[j] = cmdQueue[j + 1]
            BY <1>4, <1>8, <1>h
        <3> QED
            BY <2>7, <3>1, <1>h DEF Order
    <2> QED
        BY <1>1, <1>2, <2>4, <2>5, <2>6, <2>7 DEF OrderInv, Order, Update
<1> QED
    BY <1>3, <1>7, <1>8

LEMMA OrderStep == IInv /\ OrderInv /\ [Next]_vars => OrderInv'
<1> SUFFICES ASSUME IInv, OrderInv, [Next]_vars PROVE OrderInv'
    OBVIOUS
<1>1. CASE UNCHANGED vars
    <2>1. UNCHANGED <<mvc, box, typed, tries, acked, xhr, said, cmdQueue>>
        BY <1>1 DEF vars, boxVars, webVars, daemonVars
    <2>2. Confirmed' = Confirmed
        BY <2>1 DEF Confirmed
    <2> QED
        BY <2>1, <2>2, SameOrder
        DEF IInv, OrderInv, Histories, Known, Requests, Carries, Update
<1> QED
    BY <1>1, OrderPage, OrderWeb, OrderDaemon DEF Next

LEMMA OrderAlways == Spec => [](IInv /\ OrderInv)
<1> QED
    BY InitInv, StepInv, OrderInit, OrderStep, PTL DEF Spec

\* However requests overtake each other, fail or are retried: what the page knows to be
\* published was published when nothing newer was on its way.
THEOREM SaidInOrderAlways == Spec => []SaidInOrder
<1>1. IInv /\ OrderInv => SaidInOrder
    <2> SUFFICES ASSUME IInv, OrderInv, ~mvc,
                        NEW i \in DOMAIN said, NEW j \in DOMAIN said, i < j,
                        said[j] \in acked, tries[said[j]] = 1
                 PROVE  said[i] <= said[j]
        BY DEF SaidInOrder
    <2>1. said[j] \in Confirmed
        BY DEF IInv, TypeOK, Confirmed
    <2> QED
        BY <2>1 DEF OrderInv, Order
<1> QED
    BY <1>1, OrderAlways, PTL

----------------------------------------------------------------------------
(* How often texts are said.                                               *)

Sent(t) == {s \in Slot : xhr[s].at = "sent" /\ xhr[s].text = t}

In(q, t) == {i \in DOMAIN q : q[i] = t}

\* Each time a text was entered it is on its way, waits, has been said, or was lost.
Counted ==
    /\ tries \in [Text -> Nat]
    /\ \A t \in Text :
          /\ IsFiniteSet(Sent(t))
          /\ Cardinality(Sent(t)) + Cardinality(In(cmdQueue, t)) + Cardinality(In(said, t))
                <= tries[t]

LEMMA InFinite ==
    ASSUME NEW S, NEW q \in Seq(S), NEW t
    PROVE  IsFiniteSet(In(q, t)) /\ Cardinality(In(q, t)) \in Nat
<1>1. Len(q) \in Nat /\ In(q, t) \in SUBSET (1 .. Len(q))
    BY DEF In
<1>2. IsFiniteSet(1 .. Len(q))
    BY <1>1, FS_Interval
<1>3. IsFiniteSet(In(q, t))
    BY <1>1, <1>2, FS_Subset
<1> QED
    BY <1>3, FS_CardinalityType

LEMMA InEmpty == ASSUME NEW t PROVE Cardinality(In(<<>>, t)) = 0
<1>1. In(<<>>, t) = {}
    BY DEF In
<1> QED
    BY <1>1, FS_EmptySet

LEMMA InAppend ==
    ASSUME NEW S, NEW q \in Seq(S), NEW x \in S, NEW t
    PROVE  Cardinality(In(Append(q, x), t)) = Cardinality(In(q, t)) + (IF x = t THEN 1 ELSE 0)
<1>1. IsFiniteSet(In(q, t)) /\ Cardinality(In(q, t)) \in Nat
    BY InFinite
<1>2. CASE x = t
    <2>1. In(Append(q, x), t) = In(q, t) \cup {Len(q) + 1} /\ Len(q) + 1 \notin In(q, t)
        BY <1>2 DEF In
    <2> QED
        BY <1>1, <1>2, <2>1, FS_AddElement
<1>3. CASE x # t
    <2>1. In(Append(q, x), t) = In(q, t)
        BY <1>3 DEF In
    <2> QED
        BY <1>1, <1>3, <2>1
<1> QED
    BY <1>2, <1>3

LEMMA InTail ==
    ASSUME NEW S, NEW q \in Seq(S), q # <<>>, NEW t
    PROVE  Cardinality(In(Tail(q), t)) + (IF Head(q) = t THEN 1 ELSE 0) <= Cardinality(In(q, t))
<1> DEFINE R == In(q, t) \ {1}
           f == [i \in R |-> i - 1]
<1>1. IsFiniteSet(In(q, t)) /\ Cardinality(In(q, t)) \in Nat
    BY InFinite
<1>2. Tail(q) \in Seq(S) /\ Cardinality(In(Tail(q), t)) \in Nat
    <2>1. Tail(q) \in Seq(S)
        OBVIOUS
    <2> QED
        BY <2>1, InFinite
<1>3. 1 \in In(q, t) <=> Head(q) = t
    BY DEF In
<1>4. IsFiniteSet(R) /\ Cardinality(R) = Cardinality(In(q, t)) - (IF Head(q) = t THEN 1 ELSE 0)
    BY <1>1, <1>3, FS_RemoveElement
<1>5. \A i \in R : i - 1 \in In(Tail(q), t)
    BY DEF In
<1>6. \A j \in In(Tail(q), t) : j + 1 \in R /\ (j + 1) - 1 = j
    BY DEF In
<1>7. f \in Surjection(R, In(Tail(q), t))
    <2>1. f \in [R -> In(Tail(q), t)]
        BY <1>5
    <2>2. \A j \in In(Tail(q), t) : \E i \in R : f[i] = j
        BY <1>6
    <2> HIDE DEF f, R
    <2> QED
        BY <2>1, <2>2 DEF Surjection
<1>8. Cardinality(In(Tail(q), t)) <= Cardinality(R)
    <2> HIDE DEF f, R
    <2> QED
        BY <1>4, <1>7, FS_Surjection
<1> QED
    BY <1>1, <1>2, <1>4, <1>8

LEMMA CountedInit == Init => Counted
<1> SUFFICES ASSUME Init PROVE Counted
    OBVIOUS
<1>1. \A t : Cardinality(In(said, t)) = 0 /\ Cardinality(In(cmdQueue, t)) = 0
    BY InEmpty DEF Init
<1>2. \A t : Sent(t) = {}
    BY DEF Init, Sent, Free
<1>3. \A t \in Text : tries[t] = 0 /\ tries \in [Text -> Nat]
    BY DEF Init
<1>4. \A t : IsFiniteSet(Sent(t)) /\ Cardinality(Sent(t)) = 0
    BY <1>2, FS_EmptySet
<1>5. tries \in [Text -> Nat]
    BY DEF Init
<1> QED
    BY <1>1, <1>3, <1>4, <1>5 DEF Counted

\* Requests that end, and commands that are obeyed or forgotten, count no more.
LEMMA CountedLess ==
    ASSUME TypeOK, Counted, tries' = tries, \A t \in Text : Sent(t)' \subseteq Sent(t),
           \A t \in Text : Cardinality(In(cmdQueue', t)) + Cardinality(In(said', t))
                              <= Cardinality(In(cmdQueue, t)) + Cardinality(In(said, t)),
           cmdQueue' \in Seq(Text \cup {Update}), said' \in Seq(Text)
    PROVE  Counted'
<1> SUFFICES ASSUME NEW t \in Text
             PROVE  /\ IsFiniteSet(Sent(t)')
                    /\ Cardinality(Sent(t)') + Cardinality(In(cmdQueue', t))
                          + Cardinality(In(said', t)) <= tries[t]
    BY DEF Counted
<1>1. /\ Cardinality(In(cmdQueue', t)) \in Nat /\ Cardinality(In(said', t)) \in Nat
      /\ Cardinality(In(cmdQueue, t)) \in Nat /\ Cardinality(In(said, t)) \in Nat
    BY InFinite DEF TypeOK
<1>2. IsFiniteSet(Sent(t)) /\ Cardinality(Sent(t)) \in Nat /\ tries[t] \in Nat
    BY FS_CardinalityType DEF Counted
<1>3. /\ IsFiniteSet(Sent(t)') /\ Cardinality(Sent(t)') \in Nat
      /\ Cardinality(Sent(t)') <= Cardinality(Sent(t))
    BY <1>2, FS_Subset, FS_CardinalityType
<1>4. Cardinality(Sent(t)) + Cardinality(In(cmdQueue, t)) + Cardinality(In(said, t)) <= tries[t]
    BY DEF Counted
<1>5. Cardinality(In(cmdQueue', t)) + Cardinality(In(said', t))
          <= Cardinality(In(cmdQueue, t)) + Cardinality(In(said, t))
    OBVIOUS
<1> QED
    BY SMTT(30), <1>1, <1>2, <1>3, <1>4, <1>5

LEMMA CountedEnter ==
    ASSUME TypeOK, Counted, NEW s \in Slot, Enter(s)
    PROVE  Counted'
<1>1. /\ xhr[s].at = "free" /\ UNCHANGED <<cmdQueue, said>>
      /\ xhr' = [xhr EXCEPT ![s] = [text |-> box, at |-> "sent", heard |-> TRUE]]
      /\ IF box = Empty THEN UNCHANGED tries ELSE tries' = [tries EXCEPT ![box] = @ + 1]
    BY DEF Enter, Send, daemonVars
<1>2. box \in Text \cup {Empty} /\ tries \in [Text -> Nat]
    BY DEF TypeOK, Counted
<1>3. /\ tries' \in [Text -> Nat]
      /\ \A t \in Text : tries'[t] = tries[t] + (IF t = box THEN 1 ELSE 0)
    BY <1>1, <1>2, Texts
<1>4. /\ xhr'[s].text = box /\ xhr'[s].at = "sent"
      /\ \A v \in Slot \ {s} : xhr'[v] = xhr[v]
    BY <1>1 DEF TypeOK
<1>5. ASSUME NEW t \in Text
      PROVE  /\ IsFiniteSet(Sent(t)')
             /\ Cardinality(Sent(t)') + Cardinality(In(cmdQueue', t))
                   + Cardinality(In(said', t)) <= tries'[t]
    <2>1. /\ IsFiniteSet(Sent(t)) /\ Cardinality(Sent(t)) \in Nat /\ tries[t] \in Nat
          /\ Cardinality(Sent(t)) + Cardinality(In(cmdQueue, t))
                + Cardinality(In(said, t)) <= tries[t]
        BY FS_CardinalityType DEF Counted
    <2>2. Cardinality(In(cmdQueue, t)) \in Nat /\ Cardinality(In(said, t)) \in Nat
        BY InFinite DEF TypeOK
    <2>3. s \notin Sent(t) /\ Sent(t)' = IF t = box THEN Sent(t) \cup {s} ELSE Sent(t)
        BY <1>1, <1>4 DEF Sent
    <2>4. /\ IsFiniteSet(Sent(t)')
          /\ Cardinality(Sent(t)') = Cardinality(Sent(t)) + (IF t = box THEN 1 ELSE 0)
        <3>1. /\ IsFiniteSet(Sent(t) \cup {s})
              /\ Cardinality(Sent(t) \cup {s}) = Cardinality(Sent(t)) + 1
            BY <2>1, <2>3, FS_AddElement
        <3>2. CASE t = box
            BY <2>3, <3>1, <3>2
        <3>3. CASE t # box
            BY <2>1, <2>3, <3>3
        <3> QED
            BY <3>2, <3>3
    <2>5. In(cmdQueue', t) = In(cmdQueue, t) /\ In(said', t) = In(said, t)
        BY <1>1
    <2> QED
        BY <1>3, <2>1, <2>2, <2>4, <2>5
<1> QED
    BY <1>3, <1>5 DEF Counted

\* A request that is published waits in the queue and is no longer on its way.
LEMMA CountedCmd ==
    ASSUME TypeOK, TypeOK', Counted, NEW s \in Slot, Cmd(s)
    PROVE  Counted'
<1>1. /\ xhr[s].at = "sent" /\ UNCHANGED <<tries, said>>
      /\ \A v \in Slot \ {s} : xhr'[v] = xhr[v]
      /\ xhr'[s].at # "sent"
    BY DEF Cmd, Answered, TypeOK, Free, boxVars, daemonVars
<1>2. \A t \in Text : Sent(t)' = Sent(t) \ {s}
    BY <1>1 DEF Sent
<1>3. CASE cmdQueue' = cmdQueue
    <2>1. \A t : Cardinality(In(cmdQueue, t)) \in Nat /\ Cardinality(In(said, t)) \in Nat
        BY InFinite DEF TypeOK
    <2>2. \A t \in Text : Cardinality(In(cmdQueue', t)) + Cardinality(In(said', t))
                             <= Cardinality(In(cmdQueue, t)) + Cardinality(In(said, t))
        BY <1>1, <1>3, <2>1
    <2>3. cmdQueue' \in Seq(Text \cup {Update}) /\ said' \in Seq(Text)
        BY DEF TypeOK
    <2>4. \A t \in Text : Sent(t)' \subseteq Sent(t)
        BY <1>2
    <2> QED
        BY <1>1, <2>2, <2>3, <2>4, CountedLess
<1>4. ASSUME NEW u \in Text, u = xhr[s].text, cmdQueue' = Append(cmdQueue, u) PROVE Counted'
    <2>1. ASSUME NEW t \in Text
          PROVE  /\ IsFiniteSet(Sent(t)')
                 /\ Cardinality(Sent(t)') + Cardinality(In(cmdQueue', t))
                       + Cardinality(In(said', t)) <= tries'[t]
        <3>1. /\ IsFiniteSet(Sent(t)) /\ Cardinality(Sent(t)) \in Nat /\ tries[t] \in Nat
              /\ Cardinality(Sent(t)) + Cardinality(In(cmdQueue, t))
                    + Cardinality(In(said, t)) <= tries[t]
            BY FS_CardinalityType DEF Counted
        <3>2. Cardinality(In(cmdQueue, t)) \in Nat /\ Cardinality(In(said, t)) \in Nat
            BY InFinite DEF TypeOK
        <3>3. Cardinality(In(cmdQueue', t))
                  = Cardinality(In(cmdQueue, t)) + (IF u = t THEN 1 ELSE 0)
            BY SMTT(30), <1>4, InAppend DEF TypeOK
        <3>4. u = t <=> s \in Sent(t)
            BY <1>1, <1>4 DEF Sent
        <3>5. /\ IsFiniteSet(Sent(t)')
              /\ Cardinality(Sent(t)') = Cardinality(Sent(t)) - (IF u = t THEN 1 ELSE 0)
            BY <1>2, <3>1, <3>4, FS_RemoveElement
        <3>6. In(said', t) = In(said, t) /\ tries'[t] = tries[t]
            BY <1>1
        <3> QED
            BY <3>1, <3>2, <3>3, <3>5, <3>6
    <2> QED
        BY <1>1, <2>1 DEF Counted
<1>5. xhr[s].text \in Text \cup {Empty}
    BY DEF TypeOK
<1> QED
    BY <1>3, <1>4, <1>5 DEF Cmd, Publish

LEMMA CountedStep == IInv /\ Counted /\ [Next]_vars => Counted'
<1> SUFFICES ASSUME IInv, Counted, [Next]_vars PROVE Counted'
    OBVIOUS
<1>0. TypeOK /\ TypeOK'
    BY StepInv DEF IInv
<1>t. /\ cmdQueue \in Seq(Text \cup {Update}) /\ said \in Seq(Text)
      /\ cmdQueue' \in Seq(Text \cup {Update}) /\ said' \in Seq(Text)
    BY <1>0 DEF TypeOK
<1>n. \A t : Cardinality(In(cmdQueue, t)) \in Nat /\ Cardinality(In(said, t)) \in Nat
    BY <1>t, InFinite
<1>1. ASSUME UNCHANGED <<tries, cmdQueue, said>>, \A t \in Text : Sent(t)' \subseteq Sent(t)
      PROVE  Counted'
    BY <1>0, <1>t, <1>n, <1>1, CountedLess
<1>2. ASSUME NEW s \in Slot, Enter(s) PROVE Counted'
    BY <1>0, <1>2, CountedEnter
<1>3. ASSUME NEW s \in Slot, Cmd(s) PROVE Counted'
    BY <1>0, <1>3, CountedCmd
<1>4. ASSUME NEW s \in Slot, OnSuccess(s) \/ OnFailure(s) PROVE Counted'
    <2>1. UNCHANGED <<tries, cmdQueue, said>>
        BY <1>4 DEF OnSuccess, OnFailure, daemonVars
    <2>2. \/ xhr' = [xhr EXCEPT ![s] = Free]
          \/ xhr' = [xhr EXCEPT ![s].heard = FALSE]
        BY <1>4 DEF OnSuccess, OnFailure
    <2>x. xhr \in [Slot -> [text : Text \cup {Empty}, at : {"free", "sent", "done", "failed"},
                            heard : BOOLEAN]]
        BY <1>0 DEF TypeOK
    <2>3. \A v \in Slot :
              xhr'[v].at = "sent" => xhr'[v].text = xhr[v].text /\ xhr[v].at = "sent"
        <3>1. CASE xhr' = [xhr EXCEPT ![s] = Free]
            BY <2>x, <3>1 DEF Free
        <3>2. CASE xhr' = [xhr EXCEPT ![s].heard = FALSE]
            BY <2>x, <3>2
        <3> QED
            BY <2>2, <3>1, <3>2
    <2>4. \A t \in Text : Sent(t)' \subseteq Sent(t)
        BY <2>3 DEF Sent
    <2> QED
        BY <1>1, <2>1, <2>4
<1>5. ASSUME UNCHANGED <<tries, cmdQueue, said, xhr>> PROVE Counted'
    BY <1>1, <1>5 DEF Sent
<1>6. CASE Type \/ SetServer \/ UNCHANGED vars
    BY <1>5, <1>6 DEF Type, SetServer, vars, boxVars, webVars, daemonVars
<1>7. ASSUME UNCHANGED <<tries, xhr, said>>,
             \/ cmdQueue' = Append(cmdQueue, Update)
             \/ cmdQueue' = <<>>
             \/ cmdQueue # <<>> /\ cmdQueue' = Tail(cmdQueue)
      PROVE  Counted'
    <2>1. ASSUME NEW t \in Text
          PROVE  Cardinality(In(cmdQueue', t)) <= Cardinality(In(cmdQueue, t))
        <3>1. CASE cmdQueue' = Append(cmdQueue, Update)
            BY SMTT(30), <1>t, <1>n, <3>1, Texts, InAppend
        <3>2. CASE cmdQueue' = <<>>
            BY <1>n, <3>2, InEmpty
        <3>3. CASE cmdQueue # <<>> /\ cmdQueue' = Tail(cmdQueue)
            <4>1. Cardinality(In(cmdQueue', t)) \in Nat
                BY <1>t, InFinite
            <4> QED
                BY <1>t, <1>n, <3>3, <4>1, InTail
        <3> QED
            BY <1>7, <3>1, <3>2, <3>3
    <2>2. \A t \in Text : Cardinality(In(cmdQueue', t)) \in Nat
        BY <1>t, InFinite
    <2>3. \A t \in Text : Sent(t)' \subseteq Sent(t)
        BY <1>7 DEF Sent
    <2> QED
        BY <1>0, <1>t, <1>n, <1>7, <2>1, <2>2, <2>3, CountedLess
<1>8. CASE Obey
    <2>1. /\ UNCHANGED <<tries, xhr>> /\ cmdQueue # <<>> /\ cmdQueue' = Tail(cmdQueue)
          /\ \/ said' = said
             \/ Head(cmdQueue) # Update /\ said' = Append(said, Head(cmdQueue))
        BY <1>8 DEF Obey, OnUserCommand, boxVars, webVars
    <2>2. CASE said' = said
        BY <1>7, <2>1, <2>2
    <2>3. CASE Head(cmdQueue) # Update /\ said' = Append(said, Head(cmdQueue))
        <3>1. Head(cmdQueue) \in Text
            BY <1>t, <2>1, <2>3
        <3>2. ASSUME NEW t \in Text
              PROVE  Cardinality(In(cmdQueue', t)) + Cardinality(In(said', t))
                        <= Cardinality(In(cmdQueue, t)) + Cardinality(In(said, t))
            <4>1. Cardinality(In(said', t))
                      = Cardinality(In(said, t)) + (IF Head(cmdQueue) = t THEN 1 ELSE 0)
                BY <1>t, <2>3, <3>1, InAppend
            <4>2. Cardinality(In(cmdQueue', t)) + (IF Head(cmdQueue) = t THEN 1 ELSE 0)
                      <= Cardinality(In(cmdQueue, t))
                BY <1>t, <2>1, InTail
            <4>3. Cardinality(In(cmdQueue', t)) \in Nat
                BY <1>t, InFinite
            <4> QED
                BY <1>n, <4>1, <4>2, <4>3
        <3>3. \A t \in Text : Sent(t)' \subseteq Sent(t)
            BY <2>1 DEF Sent
        <3> QED
            BY <1>0, <1>t, <2>1, <3>2, <3>3, CountedLess
    <2> QED
        BY <2>1, <2>2, <2>3
<1>9. CASE Poll \/ Drop \/ Crash
    BY <1>5, <1>7, <1>9 DEF Poll, Publish, Drop, Crash, boxVars, webVars, daemonVars
<1>10. CASE Io \/ QueueEmpty \/ Timers \/ DropDead \/ Subscribe
    BY <1>5, <1>10 DEF Io, QueueEmpty, Timers, DropDead, Subscribe, boxVars, webVars, daemonVars
<1> QED
    BY <1>2, <1>3, <1>4, <1>6, <1>8, <1>9, <1>10 DEF Next, Page, Web, MainLoop

\* However often requests fail, and though the daemon raises after it said a text and
\* dies: nothing is said more often than it was entered.
THEOREM SaidAsEnteredAlways == Spec => []SaidAsEntered
<1>1. IInv /\ Counted => SaidAsEntered
    <2> SUFFICES ASSUME IInv, Counted, NEW t \in Text PROVE Times(t) <= tries[t]
        BY DEF SaidAsEntered
    <2>1. Times(t) = Cardinality(In(said, t))
        BY DEF Times, In
    <2>2. Cardinality(In(cmdQueue, t)) \in Nat /\ Cardinality(In(said, t)) \in Nat
        BY InFinite DEF IInv, TypeOK
    <2>3. /\ IsFiniteSet(Sent(t)) /\ Cardinality(Sent(t)) \in Nat /\ tries[t] \in Nat
          /\ Cardinality(Sent(t)) + Cardinality(In(cmdQueue, t))
                + Cardinality(In(said, t)) <= tries[t]
        BY FS_CardinalityType DEF Counted
    <2> QED
        BY <2>1, <2>2, <2>3
<1> QED
    BY <1>1, InitInv, StepInv, CountedInit, CountedStep, PTL DEF Spec
=============================================================================
