----------------------------- MODULE Page_proofs -----------------------------
(***************************************************************************)
(* For any channels, lines and pulls: Page keeps its types, a page that    *)
(* polls has a current tab if it has tabs at all, and an answer ends the   *)
(* polling only on a page that has lost its last one.  The callbacks are   *)
(* folds over the lines and channels of an answer; FoldLemmas says what    *)
(* each of them runs through.                                              *)
(***************************************************************************)
EXTENDS Page, FiniteSetTheorems, SequenceTheorems, TLAPS

----------------------------------------------------------------------------
(* Screens.                                                                *)

Ids == 0 .. MaxLines - 1

\* Lines as answers have them: kinds by id.
Logs == UNION {[S -> {"say", "topic"}] : S \in SUBSET Ids}

Entries == [name : Chan, topic : Ids \cup {Nil}, log : Logs]

Infos == [topic : Ids \cup {Nil}, oldest : Ids \cup {Nil}, newest : Ids \cup {Nil}]

\* Tabs, dictionary and stores of a screen are of the same channels, each once.
Proper(s) ==
    /\ s = [tabs |-> s.tabs, info |-> s.info, store |-> s.store, active |-> s.active,
            thrown |-> s.thrown]
    /\ s.tabs \in Seq(Chan) /\ IsInjective(s.tabs)
    /\ DOMAIN s.info = Tabs(s) /\ \A c \in Tabs(s) : s.info[c] \in Infos
    /\ DOMAIN s.store = Tabs(s) /\ \A c \in Tabs(s) : s.store[c] \in Seq(Ids)
    /\ s.active \in Chan \cup {NoTab, Gone}
    /\ s.thrown \in BOOLEAN

\* t has the tabs of s, and differs in what it shows of c only.
OnlyOf(c, s, t) ==
    /\ t.tabs = s.tabs /\ t.active = s.active
    /\ \A d \in Tabs(s) \ {c} : t.info[d] = s.info[d] /\ t.store[d] = s.store[d]

\* There is a tab to type into, or none at all.
Current(s) == HasCurrent(s) \/ (s.tabs = <<>> /\ s.active \in {NoTab, Gone})

UpdatedBy(ch, t, id) == UpdateLine(t, ch.name, id, ch.log[id])
Updates == INSTANCE FoldLemmas WITH op <- UpdatedBy

OldBy(a, t, id) == OldLine(t, a.ch.name, id, a.ch.log[id], id = Head(a.ids), a.isOldLog)
Olds == INSTANCE FoldLemmas WITH op <- OldBy

AppliedBy(a, t, ch) == ApplyChannel(t, ch)
Applies == INSTANCE FoldLemmas WITH op <- AppliedBy

ClosedBy(channels, t, c) ==
    IF c \in {channels[i].name : i \in DOMAIN channels} THEN t
    ELSE IF t.active = c /\ channels # <<>>
         THEN RemoveTab([t EXCEPT !.active = Last(channels).name], c)
    ELSE RemoveTab(t, c)
Closes == INSTANCE FoldLemmas WITH op <- ClosedBy

\* A finite set of numbers has a greatest one.
LEMMA Greatest ==
    ASSUME NEW S, S \subseteq Nat, IsFiniteSet(S), S # {}
    PROVE  \E m \in S : \A x \in S : x <= m
<1> DEFINE G == {n \in Nat : \A R \in SUBSET S :
                     R # {} /\ Cardinality(R) = n => \E m \in R : \A x \in R : x <= m}
<1>0. \A R \in SUBSET S : IsFiniteSet(R) /\ Cardinality(R) \in Nat
    BY FS_Subset, FS_CardinalityType
<1>1. 0 \in G
    BY <1>0, FS_EmptySet
<1>2. ASSUME NEW n \in 1 .. Cardinality(S), n - 1 \in G PROVE n \in G
    <2>1. ASSUME NEW R \in SUBSET S, R # {}, Cardinality(R) = n
          PROVE  \E m \in R : \A x \in R : x <= m
        <3>1. PICK r \in R : TRUE
            BY <2>1
        <3>2. R \ {r} \in SUBSET S /\ Cardinality(R \ {r}) = n - 1
            BY <1>0, <2>1, FS_RemoveElement
        <3>3. CASE R \ {r} = {}
            BY <3>3
        <3>4. CASE R \ {r} # {}
            <4>1. PICK m \in R \ {r} : \A x \in R \ {r} : x <= m
                BY <1>2, <3>2, <3>4
            <4>2. CASE m <= r
                BY <4>1, <4>2
            <4>3. CASE ~(m <= r)
                BY <4>1, <4>3
            <4> QED
                BY <4>2, <4>3
        <3> QED
            BY <3>3, <3>4
    <2> QED
        BY <2>1
<1>3. Cardinality(S) \in G
    <2> HIDE DEF G
    <2> QED
        BY <1>0, <1>1, <1>2, Updates!Induction
<1> QED
    BY <1>3

LEMMA InOrderExists ==
    ASSUME NEW S, S \subseteq Nat, IsFiniteSet(S)
    PROVE  /\ InOrder(S) \in [1 .. Cardinality(S) -> S]
           /\ \A i, j \in DOMAIN InOrder(S) : i < j => InOrder(S)[i] < InOrder(S)[j]
<1> DEFINE Sorted(q, R) == /\ q \in [1 .. Cardinality(R) -> R]
                           /\ \A i, j \in DOMAIN q : i < j => q[i] < q[j]
           G == {n \in Nat : \A R \in SUBSET S : Cardinality(R) = n => \E q : Sorted(q, R)}
<1>0. \A R \in SUBSET S : IsFiniteSet(R) /\ Cardinality(R) \in Nat
    BY FS_Subset, FS_CardinalityType
<1>1. 0 \in G
    <2>1. ASSUME NEW R \in SUBSET S, Cardinality(R) = 0 PROVE Sorted(<<>>, R)
        <3>1. R = {} /\ 1 .. Cardinality(R) = {}
            BY <1>0, <2>1, FS_EmptySet
        <3> QED
            BY <3>1
    <2> QED
        BY <2>1
<1>2. ASSUME NEW n \in 1 .. Cardinality(S), n - 1 \in G PROVE n \in G
    <2>1. ASSUME NEW R \in SUBSET S, Cardinality(R) = n PROVE \E q : Sorted(q, R)
        <3>1. R # {}
            BY <2>1, FS_EmptySet
        <3>2. PICK m \in R : \A x \in R : x <= m
            BY <1>0, <3>1, Greatest
        <3>3. R \ {m} \in SUBSET S /\ Cardinality(R \ {m}) = n - 1
            BY <1>0, <2>1, FS_RemoveElement
        <3>4. PICK q : Sorted(q, R \ {m})
            BY <1>2, <3>3
        <3>5. PICK p : p = [i \in 1 .. n |-> IF i = n THEN m ELSE q[i]]
            OBVIOUS
        <3>6. \A i \in 1 .. n - 1 : q[i] \in R /\ q[i] # m /\ q[i] < m
            <4>1. \A i \in 1 .. n - 1 : q[i] \in R \ {m}
                BY <3>3, <3>4
            <4>2. ASSUME NEW x \in R \ {m} PROVE x < m
                <5>1. x \in Nat /\ m \in Nat /\ x <= m /\ x # m
                    BY <3>2
                <5> QED
                    BY <5>1
            <4> QED
                BY <4>1, <4>2
        <3>7. p \in [1 .. Cardinality(R) -> R]
            BY <2>1, <3>5, <3>6
        <3>8. ASSUME NEW i \in 1 .. n, NEW j \in 1 .. n, i < j PROVE p[i] < p[j]
            <4>1. CASE j = n
                BY <3>5, <3>6, <3>8, <4>1
            <4>2. CASE j # n
                <5>1. i \in DOMAIN q /\ j \in DOMAIN q
                    BY <3>3, <3>4, <3>8, <4>2
                <5>2. q[i] < q[j]
                    BY <3>4, <3>8, <5>1
                <5> QED
                    BY <3>5, <3>8, <4>2, <5>2
            <4> QED
                BY <4>1, <4>2
        <3> QED
            BY <2>1, <3>7, <3>8
    <2> QED
        BY <2>1
<1>3. Cardinality(S) \in G
    <2> HIDE DEF G
    <2> QED
        BY <1>0, <1>1, <1>2, Updates!Induction
<1>4. \E q : Sorted(q, S)
    BY <1>3
<1> QED
    BY <1>4 DEF InOrder

----------------------------------------------------------------------------
(* What each callback does to a screen.                                    *)

LEMMA InsertIs ==
    ASSUME NEW q \in Seq(Ids), NEW id \in Ids
    PROVE  /\ Insert(q, id) \in Seq(Ids) /\ Insert(q, id) # <<>>
           /\ Cardinality({k \in DOMAIN q : q[k] <= id}) \in 0 .. Len(q)
<1>1. PICK n : n = Cardinality({k \in DOMAIN q : q[k] <= id})
    OBVIOUS
<1>2. n \in 0 .. Len(q)
    <2>1. Len(q) \in Nat /\ {k \in DOMAIN q : q[k] <= id} \in SUBSET (1 .. Len(q))
        OBVIOUS
    <2>2. IsFiniteSet(1 .. Len(q)) /\ Cardinality(1 .. Len(q)) = Len(q)
        <3>1. PICK m \in Nat : m = Len(q)
            BY <2>1
        <3>2. 1 \in Int /\ m \in Int
            OBVIOUS
        <3>3. /\ IsFiniteSet(1 .. m)
              /\ Cardinality(1 .. m) = IF 1 > m THEN 0 ELSE m - 1 + 1
            BY Zenon, <3>2, FS_Interval
        <3> QED
            BY <3>1, <3>3
    <2>3. IsFiniteSet({k \in DOMAIN q : q[k] <= id}) /\ n <= Len(q)
        BY <1>1, <2>1, <2>2, FS_Subset
    <2>4. n \in Nat
        BY <1>1, <2>3, FS_CardinalityType
    <2> QED
        BY <2>1, <2>3, <2>4
<1>3. Insert(q, id) = SubSeq(q, 1, n) \o <<id>> \o SubSeq(q, n + 1, Len(q))
    <2>1. Insert(q, id) = InsertAt(q, 1 + n, id)
        BY <1>1 DEF Insert
    <2>2. (1 + n) - 1 = n /\ 1 + n = n + 1
        BY <1>2
    <2> QED
        BY <2>1, <2>2 DEF InsertAt
<1>4. SubSeq(q, 1, n) \in Seq(Ids) /\ SubSeq(q, n + 1, Len(q)) \in Seq(Ids) /\ <<id>> \in Seq(Ids)
    BY <1>2
<1>5. /\ SubSeq(q, 1, n) \o <<id>> \in Seq(Ids)
      /\ Len(SubSeq(q, 1, n) \o <<id>>) = Len(SubSeq(q, 1, n)) + 1
    BY <1>4, ConcatProperties
<1>6. Insert(q, id) \in Seq(Ids) /\ Len(Insert(q, id)) # 0
    BY <1>3, <1>4, <1>5, ConcatProperties
<1> QED
    BY <1>1, <1>2, <1>6

LEMMA DisplayIs ==
    ASSUME NEW s, Proper(s), NEW c \in Tabs(s), NEW id \in Ids, NEW t, t = Display(s, c, id)
    PROVE  /\ Proper(t) /\ OnlyOf(c, s, t)
           /\ t.store[c] = Insert(s.store[c], id) /\ t.store[c] # <<>>
           /\ t.info = s.info /\ t.thrown = s.thrown
<1>1. t = [s EXCEPT !.store = [s.store EXCEPT ![c] = Insert(s.store[c], id)]]
    BY DEF Display
<1>2. /\ t.tabs = s.tabs /\ t.info = s.info /\ t.active = s.active /\ t.thrown = s.thrown
      /\ t.store = [s.store EXCEPT ![c] = Insert(s.store[c], id)]
      /\ t = [tabs |-> t.tabs, info |-> t.info, store |-> t.store, active |-> t.active,
              thrown |-> t.thrown]
    BY <1>1 DEF Proper
<1>3. Insert(s.store[c], id) \in Seq(Ids) /\ Insert(s.store[c], id) # <<>>
    BY InsertIs DEF Proper
<1>4. /\ DOMAIN t.store = DOMAIN s.store
      /\ \A d \in Tabs(s) : t.store[d] = IF d = c THEN Insert(s.store[c], id) ELSE s.store[d]
    BY <1>2 DEF Proper
<1> QED
    BY <1>2, <1>3, <1>4 DEF Proper, OnlyOf, Tabs

LEMMA ParseLineKeeps ==
    ASSUME NEW s, Proper(s), NEW c \in Tabs(s), NEW id \in Ids, NEW kind, NEW isOldLog \in BOOLEAN,
           NEW t, t = ParseLine(s, c, id, kind, isOldLog)
    PROVE  /\ Proper(t) /\ OnlyOf(c, s, t) /\ t.store = s.store
           /\ t.thrown => s.thrown \/ ~HasCurrent(s)
           /\ isOldLog => t = s
<1>1. CASE kind # "topic" \/ isOldLog
    BY <1>1 DEF ParseLine, OnlyOf
<1>2. CASE ~(kind # "topic" \/ isOldLog)
    <2>1. t = [s EXCEPT !.info = [s.info EXCEPT ![c] = [s.info[c] EXCEPT !.topic = id]],
                        !.thrown = ~HasCurrent(s)]
        BY <1>2 DEF ParseLine
    <2>2. /\ t.tabs = s.tabs /\ t.store = s.store /\ t.active = s.active
          /\ t.thrown = ~HasCurrent(s)
          /\ t.info = [s.info EXCEPT ![c] = [s.info[c] EXCEPT !.topic = id]]
          /\ t = [tabs |-> t.tabs, info |-> t.info, store |-> t.store, active |-> t.active,
                  thrown |-> t.thrown]
        BY <2>1 DEF Proper
    <2>3. /\ DOMAIN t.info = DOMAIN s.info /\ \A d \in Tabs(s) \ {c} : t.info[d] = s.info[d]
          /\ t.info[c] \in Infos
        BY ZenonT(60), <2>2 DEF Proper, Infos
    <2>4. t.thrown \in BOOLEAN
        BY <2>2 DEF HasCurrent
    <2> QED
        BY <1>2, <2>2, <2>3, <2>4 DEF Proper, OnlyOf, Tabs
<1> QED
    BY <1>1, <1>2

LEMMA ParseLineIs ==
    ASSUME NEW s, Proper(s), NEW c \in Tabs(s), NEW id \in Ids, NEW kind, NEW isOldLog \in BOOLEAN,
           NEW t, t = ParseLine(s, c, id, kind, isOldLog)
    PROVE  t.info = s.info \/ t.info = [s.info EXCEPT ![c] = [@ EXCEPT !.topic = id]]
BY DEF ParseLine, Proper

LEMMA NoteBoundsKeeps ==
    ASSUME NEW s, Proper(s), NEW c \in Tabs(s), NEW lines, NEW t, t = NoteBounds(s, c, lines),
           ~s.thrown /\ lines # <<>> => s.store[c] # <<>>
    PROVE  /\ Proper(t) /\ OnlyOf(c, s, t) /\ t.store = s.store /\ t.thrown = s.thrown
<1>1. CASE s.thrown \/ lines = <<>>
    BY <1>1 DEF NoteBounds, OnlyOf
<1>2. CASE ~(s.thrown \/ lines = <<>>)
    <2>1. t = [s EXCEPT !.info = [s.info EXCEPT ![c] =
                  [s.info[c] EXCEPT !.oldest = Head(s.store[c]), !.newest = Last(s.store[c])]]]
        BY <1>2 DEF NoteBounds
    <2>2. /\ t.tabs = s.tabs /\ t.store = s.store /\ t.active = s.active /\ t.thrown = s.thrown
          /\ t.info = [s.info EXCEPT ![c] =
                  [s.info[c] EXCEPT !.oldest = Head(s.store[c]), !.newest = Last(s.store[c])]]
          /\ t = [tabs |-> t.tabs, info |-> t.info, store |-> t.store, active |-> t.active,
                  thrown |-> t.thrown]
        BY <2>1 DEF Proper
    <2>0. Head(s.store[c]) \in Ids /\ Last(s.store[c]) \in Ids
        BY <1>2 DEF Proper, Last
    <2>3. /\ DOMAIN t.info = DOMAIN s.info /\ \A d \in Tabs(s) \ {c} : t.info[d] = s.info[d]
          /\ t.info[c] \in Infos
        BY ZenonT(60), <2>0, <2>2 DEF Proper, Infos
    <2> QED
        BY <1>2, <2>2, <2>3 DEF Proper, OnlyOf, Tabs
<1> QED
    BY <1>1, <1>2

LEMMA NoteBoundsIs ==
    ASSUME NEW s, Proper(s), NEW c \in Tabs(s), NEW lines, NEW t, t = NoteBounds(s, c, lines)
    PROVE  /\ s.thrown \/ lines = <<>> => t = s
           /\ ~s.thrown /\ lines # <<>> =>
                  t.info = [s.info EXCEPT ![c] = [@ EXCEPT !.oldest = Head(s.store[c]),
                                                           !.newest = Last(s.store[c])]]
BY DEF NoteBounds, Proper


LEMMA OnlyOfTransitive ==
    ASSUME NEW s, NEW t, NEW u, NEW c, OnlyOf(c, s, t), OnlyOf(c, t, u)
    PROVE  OnlyOf(c, s, u)
BY DEF OnlyOf, Tabs

LEMMA UpdateLineIs ==
    ASSUME NEW s, Proper(s), NEW c \in Tabs(s), NEW id \in Ids, NEW kind,
           NEW t, t = UpdateLine(s, c, id, kind)
    PROVE  /\ Proper(t) /\ OnlyOf(c, s, t)
           /\ t.thrown => s.thrown \/ ~HasCurrent(s)
           /\ ~t.thrown => t.store[c] # <<>>
<1>1. PICK p : p = ParseLine(s, c, id, kind, FALSE)
    OBVIOUS
<1>0. PICK old \in BOOLEAN : ~old /\ p = ParseLine(s, c, id, kind, old)
    BY <1>1
<1>2. /\ Proper(p) /\ OnlyOf(c, s, p) /\ p.store = s.store
      /\ p.thrown => s.thrown \/ ~HasCurrent(s)
    BY <1>0, ParseLineKeeps
<1>3. CASE s.thrown /\ t = s
    BY <1>3 DEF OnlyOf
<1>4. CASE t = p /\ (p.thrown \/ s.store[c] # <<>>)
    BY <1>2, <1>4
<1>5. CASE t = Display(p, c, id)
    <2>1. c \in Tabs(p)
        BY <1>2 DEF OnlyOf, Tabs
    <2>2. Proper(t) /\ OnlyOf(c, p, t) /\ t.thrown = p.thrown /\ t.store[c] # <<>>
        BY <1>2, <1>5, <2>1, DisplayIs
    <2> QED
        BY <1>2, <2>2, OnlyOfTransitive
<1> QED
    BY <1>1, <1>3, <1>4, <1>5 DEF UpdateLine

LEMMA OldLineIs ==
    ASSUME NEW s, Proper(s), NEW c \in Tabs(s), NEW id \in Ids, NEW kind,
           NEW first \in BOOLEAN, NEW isOldLog \in BOOLEAN,
           NEW t, t = OldLine(s, c, id, kind, first, isOldLog)
    PROVE  /\ Proper(t) /\ OnlyOf(c, s, t)
           /\ first \/ s.thrown \/ s.store[c] # <<>> => t.thrown \/ t.store[c] # <<>>
<1>1. PICK p : p = ParseLine(s, c, id, kind, isOldLog)
    OBVIOUS
<1>2. Proper(p) /\ OnlyOf(c, s, p) /\ p.store = s.store
    BY <1>1, ParseLineKeeps
<1>3. CASE t = s /\ s.thrown
    BY <1>3 DEF OnlyOf
<1>4. CASE t = p /\ ~s.thrown /\ (p.thrown \/ ~first)
    BY <1>2, <1>4
<1>5. CASE t = Display(p, c, id)
    <2>1. c \in Tabs(p)
        BY <1>2 DEF OnlyOf, Tabs
    <2>2. Proper(t) /\ OnlyOf(c, p, t) /\ t.store[c] # <<>>
        BY <1>2, <1>5, <2>1, DisplayIs
    <2> QED
        BY <1>2, <2>2, OnlyOfTransitive
<1> QED
    BY <1>1, <1>3, <1>4, <1>5 DEF OldLine

\* The lines of an answer, the lowest id first.
LEMMA LinesInOrder ==
    ASSUME NEW lines \in Logs
    PROVE  \E n \in Nat : /\ DOMAIN InOrder(DOMAIN lines) = 1 .. n
                          /\ \A i \in 1 .. n : InOrder(DOMAIN lines)[i] \in DOMAIN lines
                          /\ InOrder(DOMAIN lines) \in Seq(Ids)
                          /\ lines # <<>> => n # 0
<1>1. DOMAIN lines \in SUBSET Ids
    BY DEF Logs
<1>2. DOMAIN lines \subseteq Nat /\ IsFiniteSet(DOMAIN lines)
    <2>1. MaxLines \in Nat
        BY PageAssumption
    <2>2. IsFiniteSet(Ids) /\ Ids \subseteq Nat
        BY <2>1, FS_Interval DEF Ids
    <2> QED
        BY <1>1, <2>2, FS_Subset
<1>3. InOrder(DOMAIN lines) \in [1 .. Cardinality(DOMAIN lines) -> DOMAIN lines]
    BY <1>2, InOrderExists
<1>4. Cardinality(DOMAIN lines) \in Nat
    BY <1>2, FS_CardinalityType
<1>5. InOrder(DOMAIN lines) \in Seq(Ids)
    BY <1>1, <1>3, <1>4
<1>6. ASSUME Cardinality(DOMAIN lines) = 0 PROVE lines = <<>>
    <2>1. DOMAIN lines = {}
        BY <1>2, <1>6, FS_EmptySet
    <2> QED
        BY <2>1 DEF Logs
<1> QED
    BY <1>3, <1>4, <1>5, <1>6

\* All lines of a channel in an update.
LEMMA UpdatesAre ==
    ASSUME NEW s, Proper(s), NEW ch \in Entries, ch.name \in Tabs(s),
           NEW t, t = Updates!Fold(ch, s, InOrder(DOMAIN ch.log))
    PROVE  /\ Proper(t) /\ OnlyOf(ch.name, s, t)
           /\ t.thrown => s.thrown \/ ~HasCurrent(s)
           /\ ~t.thrown /\ ch.log # <<>> => t.store[ch.name] # <<>>
<1>1. PICK q : q = InOrder(DOMAIN ch.log)
    OBVIOUS
<1>2. PICK N \in Nat : /\ DOMAIN q = 1 .. N /\ \A i \in 1 .. N : q[i] \in Ids
                       /\ ch.log # <<>> => N # 0
    BY <1>1, LinesInOrder DEF Entries, Logs
<1>r. PICK f : Updates!Runs(f, ch, s, q, N) /\ t = f[N]
    BY <1>1, <1>2, Updates!FoldRuns
<1>3. /\ f[0] = s /\ t = f[N]
      /\ \A i \in 1 .. N : f[i] = UpdatedBy(ch, f[i - 1], q[i])
    BY <1>r DEF Updates!Runs
<1> DEFINE G == {i \in 0 .. N : /\ Proper(f[i]) /\ OnlyOf(ch.name, s, f[i])
                                /\ f[i].thrown => s.thrown \/ ~HasCurrent(s)
                                /\ i # 0 /\ ~f[i].thrown => f[i].store[ch.name] # <<>>}
<1>4. 0 \in G
    BY <1>3 DEF OnlyOf
<1>5. ASSUME NEW i \in 1 .. N, i - 1 \in G PROVE i \in G
    <2>1. PICK u : u = f[i - 1]
        OBVIOUS
    <2>2. Proper(u) /\ OnlyOf(ch.name, s, u) /\ (u.thrown => s.thrown \/ ~HasCurrent(s))
        BY <1>5, <2>1
    <2>3. f[i] = UpdateLine(u, ch.name, q[i], ch.log[q[i]])
        BY <1>3, <2>1 DEF UpdatedBy
    <2>4. ch.name \in Tabs(u) /\ HasCurrent(u) = HasCurrent(s)
        BY <2>2 DEF OnlyOf, Tabs, HasCurrent
    <2>5. /\ Proper(f[i]) /\ OnlyOf(ch.name, u, f[i])
          /\ f[i].thrown => u.thrown \/ ~HasCurrent(u)
          /\ ~f[i].thrown => f[i].store[ch.name] # <<>>
        BY <1>2, <2>2, <2>3, <2>4, UpdateLineIs
    <2>6. OnlyOf(ch.name, s, f[i])
        BY <2>2, <2>5, OnlyOfTransitive
    <2> QED
        BY <2>2, <2>4, <2>5, <2>6
<1>6. N \in G
    <2> HIDE DEF G
    <2> QED
        BY <1>4, <1>5, Updates!Induction
<1>7. /\ Proper(t) /\ OnlyOf(ch.name, s, t)
      /\ t.thrown => s.thrown \/ ~HasCurrent(s)
      /\ N # 0 /\ ~t.thrown => t.store[ch.name] # <<>>
    BY <1>3, <1>6
<1> QED
    BY <1>2, <1>7

\* Old lines.
LEMMA OldsAre ==
    ASSUME NEW s, Proper(s), NEW a, a.ch.name \in Tabs(s), a.ch.log \in Logs,
           a.ids = InOrder(DOMAIN a.ch.log), a.isOldLog \in BOOLEAN,
           NEW t, t = Olds!Fold(a, s, a.ids)
    PROVE  /\ Proper(t) /\ OnlyOf(a.ch.name, s, t)
           /\ ~t.thrown /\ a.ch.log # <<>> => t.store[a.ch.name] # <<>>
<1>1. PICK q : q = a.ids
    OBVIOUS
<1>2. PICK N \in Nat : /\ DOMAIN q = 1 .. N /\ \A i \in 1 .. N : q[i] \in Ids
                       /\ a.ch.log # <<>> => N # 0
    BY <1>1, LinesInOrder DEF Logs
<1>0. N # 0 => Head(a.ids) = q[1]
    <2>1. q \in Seq(Ids)
        BY <1>1, LinesInOrder
    <2> QED
        BY <1>1, <1>2, <2>1
<1>r. PICK f : Olds!Runs(f, a, s, q, N) /\ t = f[N]
    BY <1>1, <1>2, Olds!FoldRuns
<1>3. /\ f[0] = s /\ t = f[N]
      /\ \A i \in 1 .. N : f[i] = OldBy(a, f[i - 1], q[i])
    BY <1>r DEF Olds!Runs
<1> DEFINE G == {i \in 0 .. N : /\ Proper(f[i]) /\ OnlyOf(a.ch.name, s, f[i])
                                /\ i # 0 /\ ~f[i].thrown => f[i].store[a.ch.name] # <<>>}
<1>4. 0 \in G
    BY <1>3 DEF OnlyOf
<1>5. ASSUME NEW i \in 1 .. N, i - 1 \in G PROVE i \in G
    <2>1. PICK u : u = f[i - 1]
        OBVIOUS
    <2>2. Proper(u) /\ OnlyOf(a.ch.name, s, u)
        BY <1>5, <2>1
    <2>3. f[i] = OldLine(u, a.ch.name, q[i], a.ch.log[q[i]], q[i] = Head(a.ids), a.isOldLog)
        BY <1>3, <2>1 DEF OldBy
    <2>4. a.ch.name \in Tabs(u)
        BY <2>2 DEF OnlyOf, Tabs
    <2>5. /\ Proper(f[i]) /\ OnlyOf(a.ch.name, u, f[i])
          /\ q[i] = Head(a.ids) \/ u.thrown \/ u.store[a.ch.name] # <<>>
                => f[i].thrown \/ f[i].store[a.ch.name] # <<>>
        <3>1. PICK first \in BOOLEAN : first = (q[i] = Head(a.ids))
            OBVIOUS
        <3>2. f[i] = OldLine(u, a.ch.name, q[i], a.ch.log[q[i]], first, a.isOldLog)
            BY <2>3, <3>1
        <3>3. /\ Proper(f[i]) /\ OnlyOf(a.ch.name, u, f[i])
              /\ first \/ u.thrown \/ u.store[a.ch.name] # <<>>
                    => f[i].thrown \/ f[i].store[a.ch.name] # <<>>
            BY <1>2, <2>2, <2>4, <3>2, OldLineIs
        <3> QED
            BY <3>1, <3>3
    <2>6. i = 1 \/ u.thrown \/ u.store[a.ch.name] # <<>>
        BY <1>5, <2>1
    <2>7. OnlyOf(a.ch.name, s, f[i])
        BY <2>2, <2>5, OnlyOfTransitive
    <2> QED
        BY <1>0, <1>1, <2>5, <2>6, <2>7
<1>6. N \in G
    <2> HIDE DEF G
    <2> QED
        BY <1>4, <1>5, Olds!Induction
<1>7. /\ Proper(t) /\ OnlyOf(a.ch.name, s, t)
      /\ N # 0 /\ ~t.thrown => t.store[a.ch.name] # <<>>
    BY <1>3, <1>6
<1> QED
    BY <1>2, <1>7

LEMMA ConcatIs ==
    ASSUME NEW u \in Seq(Chan), NEW v \in Seq(Chan), NEW r, r = u \o v
    PROVE  /\ r \in Seq(Chan) /\ Len(r) = Len(u) + Len(v)
           /\ \A i \in 1 .. Len(u) + Len(v) : r[i] = IF i <= Len(u) THEN u[i] ELSE v[i - Len(u)]
BY ConcatProperties

\* A tab is taken out of the sequence of tabs.
LEMMA RemoveFirstIs ==
    ASSUME NEW q \in Seq(Chan), IsInjective(q), NEW c, NEW r, r = RemoveFirst(q, c)
    PROVE  r \in Seq(Chan) /\ IsInjective(r) /\ Range(r) = Range(q) \ {c}
<1>1. CASE \A i \in 1 .. Len(q) : q[i] # c
    <2>1. r = q
        BY <1>1 DEF RemoveFirst
    <2> QED
        BY <1>1, <2>1 DEF Range
<1>2. ASSUME NEW k \in 1 .. Len(q), q[k] = c
      PROVE  r \in Seq(Chan) /\ IsInjective(r) /\ Range(r) = Range(q) \ {c}
    <2>1. SelectInSeq(q, LAMBDA v : v = c) = k
        <3>1. {i \in 1 .. Len(q) : q[i] = c} = {k}
            BY <1>2 DEF IsInjective
        <3>2. k \in {k} /\ \A y \in {k} : k =< y
            OBVIOUS
        <3>3. Min({k}) = k
            BY <3>2 DEF Min
        <3> QED
            BY <3>1, <3>3 DEF SelectInSeq
    <2>2. r = RemoveAt(q, k)
        BY <1>2, <2>1 DEF RemoveFirst
    <2>3. r = SubSeq(q, 1, k - 1) \o SubSeq(q, k + 1, Len(q))
        BY <2>2 DEF RemoveAt
    <2>4. /\ r \in Seq(Chan) /\ Len(r) = Len(q) - 1 /\ DOMAIN r = 1 .. Len(q) - 1
          /\ \A i \in 1 .. Len(q) - 1 : r[i] = IF i < k THEN q[i] ELSE q[i + 1]
        <3>1. PICK u, v : u = SubSeq(q, 1, k - 1) /\ v = SubSeq(q, k + 1, Len(q)) /\ r = u \o v
            BY <2>3
        <3>2. /\ u \in Seq(Chan) /\ Len(u) = k - 1
              /\ \A i \in 1 .. k - 1 : u[i] = q[i]
            BY <3>1
        <3>3. /\ v \in Seq(Chan) /\ Len(v) = Len(q) - k
              /\ \A i \in 1 .. Len(q) - k : v[i] = q[k + i]
            BY <3>1
        <3>9. /\ r \in Seq(Chan) /\ Len(r) = Len(u) + Len(v)
              /\ \A i \in 1 .. Len(u) + Len(v) : r[i] = IF i <= Len(u) THEN u[i] ELSE v[i - Len(u)]
            <4>1. u \in Seq(Chan) /\ v \in Seq(Chan) /\ r = u \o v
                BY <3>1, <3>2, <3>3
            <4> QED
                BY ONLY <4>1, ConcatIs
        <3>4. r \in Seq(Chan) /\ Len(r) = Len(q) - 1 /\ DOMAIN r = 1 .. Len(q) - 1
            <4>1. r \in Seq(Chan) /\ Len(r) = (k - 1) + (Len(q) - k)
                BY <3>9, <3>2, <3>3
            <4>2. (k - 1) + (Len(q) - k) = Len(q) - 1
                BY <1>2
            <4> QED
                BY <4>1, <4>2
        <3>0. \A i \in 1 .. Len(q) - 1 : r[i] = IF i <= k - 1 THEN u[i] ELSE v[i - (k - 1)]
            <4>2. Len(u) + Len(v) = Len(q) - 1
                BY <3>2, <3>3, <1>2
            <4> QED
                BY <3>2, <3>9, <4>2
        <3>5. ASSUME NEW i \in 1 .. Len(q) - 1 PROVE r[i] = IF i < k THEN q[i] ELSE q[i + 1]
            <4>1. CASE i < k
                BY <3>0, <3>2, <4>1
            <4>2. CASE ~(i < k)
                <5>1. i - (k - 1) \in 1 .. Len(q) - k /\ k + (i - (k - 1)) = i + 1
                    BY <4>2
                <5>2. r[i] = v[i - (k - 1)]
                    BY <3>0, <4>2
                <5> QED
                    BY <3>3, <4>2, <5>1, <5>2
            <4> QED
                BY <4>1, <4>2
        <3> QED
            BY <3>4, <3>5
    <2>5. IsInjective(r)
        <3> SUFFICES ASSUME NEW i \in 1 .. Len(q) - 1, NEW j \in 1 .. Len(q) - 1, r[i] = r[j]
                     PROVE  i = j
            BY <2>4 DEF IsInjective
        <3>1. PICK m \in 1 .. Len(q) : r[i] = q[m] /\ m = IF i < k THEN i ELSE i + 1
            BY <2>4
        <3>2. PICK n \in 1 .. Len(q) : r[j] = q[n] /\ n = IF j < k THEN j ELSE j + 1
            BY <2>4
        <3>3. m = n
            <4>0. DOMAIN q = 1 .. Len(q)
                OBVIOUS
            <4>1. q[m] = q[n] /\ m \in DOMAIN q /\ n \in DOMAIN q
                <5>1. r[i] = q[m] /\ r[j] = q[n]
                    BY <3>1, <3>2
                <5> QED
                    BY <4>0, <5>1
            <4> QED
                BY <4>1 DEF IsInjective
        <3> QED
            BY <3>1, <3>2, <3>3
    <2>6. ASSUME NEW i \in 1 .. Len(q) - 1 PROVE r[i] \in Range(q) \ {c}
        <3>1. PICK m \in 1 .. Len(q) : r[i] = q[m] /\ m = IF i < k THEN i ELSE i + 1
            BY <2>4
        <3>2. q[m] # c
            BY <1>2, <3>1 DEF IsInjective
        <3> QED
            BY <3>1, <3>2 DEF Range
    <2>7. ASSUME NEW m \in 1 .. Len(q), q[m] # c PROVE q[m] \in Range(r)
        <3>1. m # k
            BY <1>2, <2>7
        <3>2. PICK i \in 1 .. Len(q) - 1 : r[i] = q[m]
            <4>1. CASE m < k
                BY <2>4, <4>1
            <4>2. CASE m > k
                <5>1. m - 1 \in 1 .. Len(q) - 1 /\ ~(m - 1 < k) /\ (m - 1) + 1 = m
                    BY <4>2
                <5> QED
                    BY <2>4, <5>1
            <4> QED
                BY <3>1, <4>1, <4>2
        <3> QED
            BY <2>4, <3>2 DEF Range
    <2> QED
        <3>1. Range(r) \subseteq Range(q) \ {c}
            BY <2>4, <2>6 DEF Range
        <3>2. Range(q) \ {c} \subseteq Range(r)
            BY <2>7 DEF Range
        <3> QED
            BY <2>4, <2>5, <3>1, <3>2
<1> QED
    BY <1>1, <1>2

LEMMA RemoveTabIs ==
    ASSUME NEW s, Proper(s), NEW c, NEW t, t = RemoveTab(s, c)
    PROVE  /\ Proper(t) /\ Tabs(t) = Tabs(s) \ {c} /\ t.thrown = s.thrown
           /\ Current(s) => Current(t)
<1>1. PICK rest : rest = RemoveFirst(s.tabs, c)
    OBVIOUS
<1>2. rest \in Seq(Chan) /\ IsInjective(rest) /\ Range(rest) = Tabs(s) \ {c}
    BY <1>1, RemoveFirstIs DEF Proper, Tabs
<1>3. /\ t.tabs = rest /\ t.info = Pop(s.info, c) /\ t.store = Pop(s.store, c)
      /\ t.active = IF s.active # c THEN s.active ELSE IF rest = <<>> THEN Gone ELSE Head(rest)
      /\ t.thrown = s.thrown
      /\ t = [tabs |-> t.tabs, info |-> t.info, store |-> t.store, active |-> t.active,
              thrown |-> t.thrown]
    BY <1>1 DEF RemoveTab, Proper
<1>4. /\ DOMAIN t.info = Tabs(s) \ {c} /\ DOMAIN t.store = Tabs(s) \ {c}
      /\ \A d \in Tabs(s) \ {c} : t.store[d] \in Seq(Ids) /\ t.info[d] \in Infos
    BY <1>3 DEF Pop, Proper
<1>5. Tabs(t) = Tabs(s) \ {c}
    BY <1>2, <1>3 DEF Tabs
<1>6. rest # <<>> => Head(rest) \in Chan /\ Head(rest) \in Tabs(t)
    BY <1>2, <1>3 DEF Tabs, Range
<1>7. Proper(t)
    BY <1>2, <1>3, <1>4, <1>5, <1>6 DEF Proper
<1>8. ASSUME Current(s) PROVE Current(t)
    <2>1. CASE s.active # c
        <3>1. CASE HasCurrent(s)
            BY <1>3, <1>5, <2>1, <3>1 DEF Current, HasCurrent
        <3>2. CASE s.tabs = <<>> /\ s.active \in {NoTab, Gone}
            <4>1. Range(rest) = {}
                BY <1>2, <3>2 DEF Tabs, Range
            <4>2. rest = <<>>
                BY <1>2, <4>1 DEF Range
            <4> QED
                BY <1>3, <2>1, <3>2, <4>2 DEF Current
        <3> QED
            BY <1>8, <3>1, <3>2 DEF Current
    <2>2. CASE s.active = c
        BY <1>3, <1>6, <2>2 DEF Current, HasCurrent
    <2> QED
        BY <2>1, <2>2
<1> QED
    BY <1>3, <1>5, <1>7, <1>8

LEMMA AddChannelIs ==
    ASSUME NEW s, Proper(s), NEW ch \in Entries, ch.name \notin Tabs(s),
           NEW t, t = AddChannel(s, ch)
    PROVE  /\ Proper(t) /\ t.tabs = Append(s.tabs, ch.name) /\ Tabs(t) = Tabs(s) \cup {ch.name}
           /\ t.active = IF s.active = NoTab THEN ch.name ELSE s.active
           /\ t.thrown = s.thrown
           /\ t.info = Put(s.info, ch.name, [topic |-> ch.topic, oldest |-> Nil, newest |-> Nil])
           /\ t.store = Put(s.store, ch.name, <<>>)
<1>1. /\ t.tabs = Append(s.tabs, ch.name) /\ t.thrown = s.thrown
      /\ t.active = IF s.active = NoTab THEN ch.name ELSE s.active
      /\ t.info = Put(s.info, ch.name, [topic |-> ch.topic, oldest |-> Nil, newest |-> Nil])
      /\ t.store = Put(s.store, ch.name, <<>>)
      /\ t = [tabs |-> t.tabs, info |-> t.info, store |-> t.store, active |-> t.active,
              thrown |-> t.thrown]
    BY DEF AddChannel, AddTab, Proper
<1>2. ch.name \in Chan
    BY DEF Entries
<1>3. t.tabs \in Seq(Chan) /\ IsInjective(t.tabs) /\ Tabs(t) = Tabs(s) \cup {ch.name}
    <2>1. s.tabs \in Seq(Chan) /\ IsInjective(s.tabs) /\ ch.name \notin Range(s.tabs)
        BY DEF Proper, Tabs
    <2>2. /\ DOMAIN t.tabs = 1 .. Len(s.tabs) + 1 /\ t.tabs[Len(s.tabs) + 1] = ch.name
          /\ \A i \in 1 .. Len(s.tabs) : t.tabs[i] = s.tabs[i]
        BY <1>1, <1>2, <2>1
    <2>3. IsInjective(t.tabs)
        <3> SUFFICES ASSUME NEW i \in 1 .. Len(s.tabs) + 1, NEW j \in 1 .. Len(s.tabs) + 1,
                            t.tabs[i] = t.tabs[j]
                     PROVE  i = j
            BY <2>2 DEF IsInjective
        <3>1. \A k \in 1 .. Len(s.tabs) : s.tabs[k] # ch.name
            BY <2>1 DEF Range
        <3> QED
            BY <2>1, <2>2, <3>1 DEF IsInjective
    <2>4. Range(t.tabs) = Range(s.tabs) \cup {ch.name}
        BY <2>1, <2>2 DEF Range
    <2> QED
        BY <1>1, <1>2, <2>1, <2>3, <2>4 DEF Tabs
<1>4. /\ DOMAIN t.info = Tabs(t) /\ DOMAIN t.store = Tabs(t)
      /\ \A d \in Tabs(t) : t.store[d] \in Seq(Ids) /\ t.info[d] \in Infos
    <2>1. [topic |-> ch.topic, oldest |-> Nil, newest |-> Nil] \in Infos
        BY DEF Entries, Infos
    <2>2. \A d \in Tabs(s) : s.info[d] \in Infos /\ s.store[d] \in Seq(Ids)
        BY DEF Proper
    <2>3. DOMAIN s.info = Tabs(s) /\ DOMAIN s.store = Tabs(s)
        BY DEF Proper
    <2> QED
        BY <1>1, <1>3, <2>1, <2>2, <2>3 DEF Put
<1> QED
    BY <1>1, <1>2, <1>3, <1>4 DEF Proper

\* A screen that has never lost all its tabs has a current one as soon as it has any.
Settled(s) == HasCurrent(s) \/ (s.active = NoTab /\ s.tabs = <<>>)

LEMMA NoTabIsNone == NoTab \notin Chan /\ Gone \notin Chan /\ NoTab # Gone
BY PageAssumption

LEMMA ApplyChannelIs ==
    ASSUME NEW s, Proper(s), NEW ch \in Entries, NEW t, t = ApplyChannel(s, ch)
    PROVE  /\ Proper(t) /\ Tabs(s) \subseteq Tabs(t) /\ Tabs(t) \subseteq Tabs(s) \cup {ch.name}
           /\ s.thrown => t.thrown
           /\ ~t.thrown => ch.name \in Tabs(t)
           /\ HasCurrent(s) => HasCurrent(t)
           /\ Settled(s) /\ ~s.thrown => Settled(t) /\ ~t.thrown
<1>1. CASE s.thrown
    <2>1. t = s
        BY <1>1 DEF ApplyChannel
    <2> QED
        BY <1>1, <2>1
<1>2. CASE ~s.thrown
    <2>1. PICK u : u = IF ch.name \in Tabs(s) THEN s ELSE AddChannel(s, ch)
        OBVIOUS
    <2>2. PICK v : v = Updates!Fold(ch, u, InOrder(DOMAIN ch.log))
        OBVIOUS
    <2>3. t = NoteBounds(v, ch.name, ch.log)
        BY <1>2, <2>1, <2>2
        DEF ApplyChannel, Updates!Fold, UpdatedBy, FoldLeft, Updates!FoldLeft, MapThenFoldSet,
            Updates!MapThenFoldSet, Max, Updates!Max
    <2>4. /\ Proper(u) /\ Tabs(u) = Tabs(s) \cup {ch.name} /\ ~u.thrown
          /\ HasCurrent(s) => HasCurrent(u)
          /\ Settled(s) => HasCurrent(u)
        <3>1. CASE ch.name \in Tabs(s)
            BY <1>2, <2>1, <3>1 DEF Settled, Tabs, Range
        <3>2. CASE ch.name \notin Tabs(s)
            <4>1. /\ Proper(u) /\ Tabs(u) = Tabs(s) \cup {ch.name} /\ u.thrown = s.thrown
                  /\ u.active = IF s.active = NoTab THEN ch.name ELSE s.active
                <5>1. u = AddChannel(s, ch)
                    BY <2>1, <3>2
                <5> QED
                    BY ZenonT(60), <3>2, <5>1, AddChannelIs
            <4>2. Tabs(s) \subseteq Chan
                BY DEF Proper, Tabs, Range
            <4> QED
                BY <1>2, <4>1, <4>2, NoTabIsNone DEF Settled, HasCurrent
        <3> QED
            BY <3>1, <3>2
    <2>5. /\ Proper(v) /\ v.tabs = u.tabs /\ v.active = u.active
          /\ v.thrown => ~HasCurrent(u)
          /\ ~v.thrown /\ ch.log # <<>> => v.store[ch.name] # <<>>
        BY <2>2, <2>4, UpdatesAre DEF OnlyOf
    <2>6. Tabs(v) = Tabs(u)
        BY <2>5 DEF Tabs
    <2>7. Proper(t) /\ t.tabs = v.tabs /\ t.active = v.active /\ t.thrown = v.thrown
        <3>1. Proper(v) /\ ch.name \in Tabs(v)
              /\ (~v.thrown /\ ch.log # <<>> => v.store[ch.name] # <<>>)
            BY <2>4, <2>5, <2>6
        <3>2. Proper(t) /\ OnlyOf(ch.name, v, t) /\ t.thrown = v.thrown
            BY <2>3, <3>1, NoteBoundsKeeps
        <3> QED
            BY <3>2 DEF OnlyOf
    <2>8. Tabs(t) = Tabs(u) /\ HasCurrent(t) = HasCurrent(u)
        BY <2>5, <2>6, <2>7 DEF Tabs, HasCurrent
    <2> QED
        BY <1>2, <2>4, <2>5, <2>7, <2>8 DEF Settled
<1> QED
    BY <1>1, <1>2

LEMMA ApplyLogUpdateIs ==
    ASSUME NEW s, Proper(s), ~s.thrown, NEW channels \in Seq(Entries),
           NEW t, t = ApplyLogUpdate(s, channels)
    PROVE  /\ Proper(t)
           /\ ~t.thrown => \A i \in DOMAIN channels : channels[i].name \in Tabs(t)
           /\ Current(s) /\ ~t.thrown => Current(t)
           /\ Settled(s) => Settled(t) /\ ~t.thrown
<1>1. PICK N \in Nat : DOMAIN channels = 1 .. N /\ \A i \in 1 .. N : channels[i] \in Entries
    OBVIOUS
<1>2. PICK u : u = Applies!Fold(0, s, channels)
    OBVIOUS
<1>3. FoldLeft(ApplyChannel, s, channels) = u
    BY <1>2 DEF Applies!Fold, AppliedBy, FoldLeft, Applies!FoldLeft, MapThenFoldSet,
                Applies!MapThenFoldSet, Max, Applies!Max
<1>r. PICK f : Applies!Runs(f, 0, s, channels, N) /\ u = f[N]
    BY <1>1, <1>2, Applies!FoldRuns
<1>4. /\ f[0] = s /\ u = f[N]
      /\ \A i \in 1 .. N : f[i] = AppliedBy(0, f[i - 1], channels[i])
    BY <1>r DEF Applies!Runs
<1> DEFINE G == {i \in 0 .. N :
                    /\ Proper(f[i])
                    /\ Tabs(f[i]) \subseteq Tabs(s) \cup {channels[j].name : j \in 1 .. i}
                    /\ Tabs(s) \subseteq Tabs(f[i])
                    /\ ~f[i].thrown => \A j \in 1 .. i : channels[j].name \in Tabs(f[i])
                    /\ HasCurrent(s) => HasCurrent(f[i])
                    /\ Settled(s) => Settled(f[i]) /\ ~f[i].thrown}
<1>5. 0 \in G
    BY <1>4
<1>6. ASSUME NEW i \in 1 .. N, i - 1 \in G PROVE i \in G
    <2>1. PICK w : w = f[i - 1]
        OBVIOUS
    <2>2. f[i] = ApplyChannel(w, channels[i])
        BY <1>4, <2>1 DEF AppliedBy
    <2>3. PICK v : v = f[i]
        OBVIOUS
    <2>4. /\ Proper(v) /\ Tabs(w) \subseteq Tabs(v)
          /\ Tabs(v) \subseteq Tabs(w) \cup {channels[i].name}
          /\ w.thrown => v.thrown
          /\ ~v.thrown => channels[i].name \in Tabs(v)
          /\ HasCurrent(w) => HasCurrent(v)
          /\ Settled(w) /\ ~w.thrown => Settled(v) /\ ~v.thrown
        <3>1. Proper(w)
            BY <1>6, <2>1
        <3>2. v = ApplyChannel(w, channels[i]) /\ channels[i] \in Entries
            BY <1>1, <2>2, <2>3
        <3> HIDE DEF G
        <3> QED
            BY <3>1, <3>2, ApplyChannelIs
    <2>5. /\ Tabs(w) \subseteq Tabs(s) \cup {channels[j].name : j \in 1 .. i - 1}
          /\ Tabs(s) \subseteq Tabs(w)
          /\ ~w.thrown => \A j \in 1 .. i - 1 : channels[j].name \in Tabs(w)
          /\ HasCurrent(s) => HasCurrent(w)
          /\ Settled(s) => Settled(w) /\ ~w.thrown
          /\ w.thrown \in BOOLEAN
        BY <1>6, <2>1 DEF Proper
    <2>6. \A j \in 1 .. i : j = i \/ j \in 1 .. i - 1
        OBVIOUS
    <2>7. {channels[j].name : j \in 1 .. i} =
              {channels[j].name : j \in 1 .. i - 1} \cup {channels[i].name}
        BY <2>6
    <2>8. ~v.thrown => \A j \in 1 .. i : channels[j].name \in Tabs(v)
        BY <2>4, <2>5, <2>6
    <2> QED
        BY <2>3, <2>4, <2>5, <2>7, <2>8
<1>7. N \in G
    <2> HIDE DEF G
    <2>1. \A i \in 1 .. N : i - 1 \in G => i \in G
        BY <1>6
    <2>2. \A i \in 0 .. N : i \in G
        BY <1>5, <2>1, Applies!Induction
    <2> QED
        BY <2>2
<1>8. /\ Proper(u) /\ Tabs(s) \subseteq Tabs(u)
      /\ Tabs(u) \subseteq Tabs(s) \cup {channels[j].name : j \in 1 .. N}
      /\ ~u.thrown => \A j \in 1 .. N : channels[j].name \in Tabs(u)
      /\ HasCurrent(s) => HasCurrent(u)
      /\ Settled(s) => Settled(u) /\ ~u.thrown
    BY <1>4, <1>7
<1> HIDE DEF G
<1>9. PICK new : new = {i \in DOMAIN channels : channels[i].name \notin Tabs(s)}
    OBVIOUS
<1>10. t = IF u.thrown \/ new = {} THEN u ELSE [u EXCEPT !.active = channels[Max(new)].name]
    BY <1>3, <1>9 DEF ApplyLogUpdate
<1>11. CASE u.thrown
    BY <1>8, <1>10, <1>11
<1>12. CASE ~u.thrown /\ new = {}
    <2>1. t = u
        BY <1>10, <1>12
    <2>2. ASSUME Current(s) PROVE Current(u)
        <3>1. CASE HasCurrent(s)
            BY <1>8, <3>1 DEF Current
        <3>2. CASE s.tabs = <<>>
            <4>1. N = 0
                <5>1. ASSUME N # 0 PROVE FALSE
                    <6>1. 1 \in DOMAIN channels /\ channels[1].name \in Tabs(s)
                        BY <1>1, <1>9, <1>12, <5>1
                    <6> QED
                        BY <3>2, <6>1 DEF Tabs, Range
                <5> QED
                    BY <5>1
            <4> QED
                BY <1>4, <2>2, <4>1
        <3> QED
            BY <2>2, <3>1, <3>2 DEF Current
    <2> QED
        BY <1>1, <1>8, <1>12, <2>1, <2>2
<1>13. CASE ~u.thrown /\ new # {}
    <2>1. PICK m \in new : \A i \in new : i <= m
        <3>1. IsFiniteSet(1 .. N) /\ new \in SUBSET (1 .. N)
            BY <1>1, <1>9, FS_Interval
        <3>2. IsFiniteSet(new)
            BY <3>1, FS_Subset
        <3>3. new \subseteq Nat
            BY <1>1, <1>9
        <3> QED
            BY <1>13, <3>2, <3>3, Greatest
    <2>2. Max(new) = m /\ m \in DOMAIN channels
        <3>1. m \in Nat /\ new \in SUBSET (1 .. m)
            BY <1>1, <1>9, <2>1
        <3>2. Updates!Max(new) = m
            BY <2>1, <3>1, Updates!MaxIs
        <3> QED
            BY <1>9, <2>1, <3>2 DEF Max, Updates!Max
    <2>3. PICK c : c = channels[m].name
        OBVIOUS
    <2>4. t = [u EXCEPT !.active = c] /\ c \in Tabs(u) /\ c \in Chan
        BY <1>1, <1>8, <1>10, <1>13, <2>2, <2>3 DEF Entries
    <2>5. /\ t.tabs = u.tabs /\ t.info = u.info /\ t.store = u.store /\ t.active = c
          /\ t.thrown = u.thrown
          /\ t = [tabs |-> t.tabs, info |-> t.info, store |-> t.store, active |-> t.active,
                  thrown |-> t.thrown]
        BY <1>8, <2>4 DEF Proper
    <2>6. Tabs(t) = Tabs(u)
        BY <2>5 DEF Tabs
    <2>7. Proper(t) /\ HasCurrent(t)
        BY <1>8, <2>4, <2>5, <2>6 DEF Proper, HasCurrent
    <2> QED
        BY <1>1, <1>8, <1>13, <2>5, <2>6, <2>7 DEF Current, Settled
<1> QED
    BY <1>8, <1>11, <1>12, <1>13 DEF Proper

LEMMA CloseChannelIs ==
    ASSUME NEW s, Proper(s), Current(s), NEW channels \in Seq(Entries),
           \A i \in DOMAIN channels : channels[i].name \in Tabs(s),
           NEW t, t = CloseChannel(s, channels)
    PROVE  Proper(t) /\ Current(t) /\ t.thrown = s.thrown
<1>1. PICK N \in Nat : DOMAIN s.tabs = 1 .. N
    BY DEF Proper
<1>2. PICK u : u = Closes!Fold(channels, s, s.tabs)
    OBVIOUS
<1>3. t = u
    BY <1>2 DEF CloseChannel, Closes!Fold, ClosedBy, FoldLeft, Closes!FoldLeft, MapThenFoldSet,
                Closes!MapThenFoldSet, Max, Closes!Max
<1>r. PICK f : Closes!Runs(f, channels, s, s.tabs, N) /\ u = f[N]
    BY <1>1, <1>2, Closes!FoldRuns
<1>4. /\ f[0] = s /\ u = f[N]
      /\ \A i \in 1 .. N : f[i] = ClosedBy(channels, f[i - 1], s.tabs[i])
    BY <1>r DEF Closes!Runs
<1>5. PICK named : named = {channels[i].name : i \in DOMAIN channels}
    OBVIOUS
<1>6. named \subseteq Tabs(s) /\ (channels # <<>> => Last(channels).name \in named)
    BY <1>5 DEF Last
<1> DEFINE G == {i \in 0 .. N : /\ Proper(f[i]) /\ Current(f[i]) /\ f[i].thrown = s.thrown
                                /\ named \subseteq Tabs(f[i])}
<1>7. 0 \in G
    BY <1>4, <1>6
<1>8. ASSUME NEW i \in 1 .. N, i - 1 \in G PROVE i \in G
    <2>1. PICK w, v, c : w = f[i - 1] /\ v = f[i] /\ c = s.tabs[i]
        OBVIOUS
    <2>0. SUFFICES Proper(v) /\ Current(v) /\ v.thrown = s.thrown /\ named \subseteq Tabs(v)
        BY <2>1
    <2>2. Proper(w) /\ Current(w) /\ w.thrown = s.thrown /\ named \subseteq Tabs(w)
        BY <1>8, <2>1
    <2>3. v = IF c \in named THEN w
              ELSE IF w.active = c /\ channels # <<>>
                   THEN RemoveTab([w EXCEPT !.active = Last(channels).name], c)
              ELSE RemoveTab(w, c)
        BY <1>4, <1>5, <2>1 DEF ClosedBy
    <2> HIDE DEF G
    <2>4. CASE c \in named
        BY <2>2, <2>3, <2>4
    <2>5. CASE c \notin named /\ w.active = c /\ channels # <<>>
        <3>1. PICK x : x = [w EXCEPT !.active = Last(channels).name]
            OBVIOUS
        <3>2. Last(channels).name \in Tabs(w) /\ Last(channels).name \in Chan
            BY <1>6, <2>2, <2>5 DEF Proper, Tabs, Range
        <3>3. /\ x.tabs = w.tabs /\ x.info = w.info /\ x.store = w.store
              /\ x.active = Last(channels).name /\ x.thrown = w.thrown
              /\ x = [tabs |-> x.tabs, info |-> x.info, store |-> x.store, active |-> x.active,
                      thrown |-> x.thrown]
            BY <2>2, <3>1 DEF Proper
        <3>4. Proper(x) /\ Current(x) /\ Tabs(x) = Tabs(w)
            BY <2>2, <3>2, <3>3 DEF Proper, Current, HasCurrent, Tabs
        <3>5. v = RemoveTab(x, c)
            BY <2>3, <2>5, <3>1
        <3> QED
            <4>1. Proper(v) /\ Tabs(v) = Tabs(x) \ {c} /\ v.thrown = x.thrown /\ Current(v)
                BY <3>4, <3>5, RemoveTabIs
            <4> QED
                BY <2>2, <2>5, <3>3, <3>4, <4>1
    <2>6. CASE c \notin named /\ ~(w.active = c /\ channels # <<>>)
        <3>1. v = RemoveTab(w, c)
            BY <2>3, <2>6
        <3> QED
            <4>1. Proper(v) /\ Tabs(v) = Tabs(w) \ {c} /\ v.thrown = w.thrown /\ Current(v)
                BY <2>2, <3>1, RemoveTabIs
            <4> QED
                BY <2>2, <2>6, <4>1
    <2> QED
        BY <2>4, <2>5, <2>6
<1>9. N \in G
    <2> HIDE DEF G
    <2>1. \A i \in 1 .. N : i - 1 \in G => i \in G
        BY <1>8
    <2>2. \A i \in 0 .. N : i \in G
        BY <1>7, <2>1, Closes!Induction
    <2> QED
        BY <2>2
<1> QED
    BY <1>3, <1>4, <1>9

LEMMA ShowOldLogIs ==
    ASSUME NEW s, Proper(s), NEW ch, ch.log \in Logs, NEW isOldLog \in BOOLEAN,
           NEW t, t = ShowOldLog(s, ch, isOldLog)
    PROVE  Proper(t) /\ t.tabs = s.tabs /\ t.active = s.active
<1>1. CASE ch.name \notin Tabs(s)
    BY <1>1 DEF ShowOldLog
<1>2. CASE ch.name \in Tabs(s)
    <2>1. PICK a : a = [ch |-> ch, ids |-> InOrder(DOMAIN ch.log), isOldLog |-> isOldLog]
        OBVIOUS
    <2>2. PICK v : v = Olds!Fold(a, s, a.ids)
        OBVIOUS
    <2>3. t = NoteBounds(v, ch.name, ch.log)
        BY <1>2, <2>1, <2>2
        DEF ShowOldLog, Olds!Fold, OldBy, FoldLeft, Olds!FoldLeft, MapThenFoldSet,
            Olds!MapThenFoldSet, Max, Olds!Max
    <2>4. /\ a.ch = ch /\ a.ids = InOrder(DOMAIN a.ch.log) /\ a.isOldLog \in BOOLEAN
        BY <2>1
    <2>5. /\ Proper(v) /\ OnlyOf(ch.name, s, v)
          /\ ~v.thrown /\ ch.log # <<>> => v.store[ch.name] # <<>>
        BY <1>2, <2>2, <2>4, OldsAre
    <2>6. ch.name \in Tabs(v)
        BY <1>2, <2>5 DEF OnlyOf, Tabs
    <2>7. Proper(t) /\ OnlyOf(ch.name, v, t)
        BY <2>3, <2>5, <2>6, NoteBoundsKeeps
    <2> QED
        BY <2>5, <2>7 DEF OnlyOf
<1> QED
    BY <1>1, <1>2

----------------------------------------------------------------------------
(* Logs and answers.                                                       *)

Hashes == [begin : {Nil, 0}, end : Nat \cup {Nil}, joined : BOOLEAN, lines : Logs]

\* A log has all of its lines, not more than n, and both bounds or none.
Whole(h, n) ==
    /\ h \in Hashes
    /\ DOMAIN h.lines = 0 .. EndOf(h) - 1 /\ EndOf(h) <= n
    /\ h.begin = Nil <=> h.end = Nil
    /\ h.joined => h.end # Nil

Pulls == [at : {"server", "answered"}, chan : Chan, lines : Logs, lastid : Ids \cup {0}]

Polls == [at : {"none", "server", "answered"}, asked : UNION {[S -> Ids] : S \in SUBSET Chan},
          body : Seq(Entries)]

Types ==
    /\ written \in 0 .. MaxLines /\ mvc \in BOOLEAN /\ cleared \in BOOLEAN
    /\ log \in [Chan -> Hashes] /\ \A c \in Chan : Whole(log[c], written)
    /\ loop \in {"init", "poll", "deaf", "stopped"}
    /\ poll \in Polls
    /\ pulls \in Seq(Pulls) /\ Len(pulls) <= MaxPulls
    /\ Proper(screen) /\ ~screen.thrown

LEMMA IdsIs == IsFiniteSet(Ids) /\ Ids \subseteq Nat
<1>1. MaxLines \in Nat
    BY PageAssumption
<1> QED
    BY <1>1, FS_Interval DEF Ids

LEMMA GetLogIs ==
    ASSUME NEW h \in Hashes, NEW S
    PROVE  GetLog(h, S) \in Logs /\ DOMAIN GetLog(h, S) = S \cap DOMAIN h.lines
<1>1. h.lines \in Logs
    BY DEF Hashes
<1>2. PICK R \in SUBSET Ids : h.lines \in [R -> {"say", "topic"}]
    BY <1>1 DEF Logs
<1>3. S \cap DOMAIN h.lines \in SUBSET Ids
    BY <1>2
<1>4. GetLog(h, S) \in [S \cap DOMAIN h.lines -> {"say", "topic"}]
    BY <1>2 DEF GetLog, Restrict
<1> QED
    BY <1>3, <1>4 DEF Logs

LEMMA TopicIs ==
    ASSUME NEW h \in Hashes PROVE Topic(h) \in Ids \cup {Nil}
<1>1. CASE TopicLines(h) = {}
    BY <1>1 DEF Topic
<1>2. CASE TopicLines(h) # {}
    <2>1. TopicLines(h) \subseteq Ids
        BY DEF TopicLines, Hashes, Logs
    <2>2. IsFiniteSet(Ids) /\ Ids \subseteq Nat
        BY IdsIs
    <2>3. PICK m \in TopicLines(h) : \A x \in TopicLines(h) : x <= m
        <3>1. TopicLines(h) \subseteq Nat /\ IsFiniteSet(TopicLines(h))
            BY <2>1, <2>2, FS_Subset
        <3> QED
            BY <1>2, <3>1, Greatest
    <2>4. \A x \in TopicLines(h) : m >= x
        BY <2>1, <2>2, <2>3
    <2>5. Max(TopicLines(h)) \in TopicLines(h)
        BY <2>3, <2>4 DEF Max
    <2> QED
        BY <1>2, <2>1, <2>5 DEF Topic
<1> QED
    BY <1>1, <1>2

LEMMA EntryIs ==
    ASSUME Types, NEW c \in Chan
    PROVE  Entry(c) \in Entries /\ Unchanged(c) \in Entries
<1>1. log[c] \in Hashes
    BY DEF Types
<1>2. Topic(log[c]) \in Ids \cup {Nil}
    BY <1>1, TopicIs
<1>3. Entry(c).log \in Logs
    BY <1>1, GetLogIs DEF Entry
<1>4. <<>> \in Logs
    <2>1. <<>> \in [{} -> {"say", "topic"}]
        OBVIOUS
    <2> QED
        BY <2>1 DEF Logs
<1> QED
    BY <1>2, <1>3, <1>4 DEF Entry, Unchanged, Entries

LEMMA LastIDsIs ==
    ASSUME NEW s, Proper(s)
    PROVE  LastIDs(s) \in UNION {[S -> Ids] : S \in SUBSET Chan}
<1>1. {d \in Tabs(s) : s.info[d].newest # Nil} \in SUBSET Chan
    BY DEF Proper, Tabs, Range
<1>2. \A d \in Tabs(s) : s.info[d].newest \in Ids \cup {Nil}
    BY DEF Proper, Infos
<1>3. LastIDs(s) \in [{d \in Tabs(s) : s.info[d].newest # Nil} -> Ids]
    BY <1>2 DEF LastIDs
<1> QED
    BY <1>1, <1>3

LEMMA RemoveAtIs ==
    ASSUME NEW S, NEW q \in Seq(S), NEW i \in 1 .. Len(q)
    PROVE  /\ RemoveAt(q, i) \in Seq(S) /\ Len(RemoveAt(q, i)) = Len(q) - 1
           /\ \A p \in Range(RemoveAt(q, i)) : p \in Range(q)
<1>1. PICK u, v : u = SubSeq(q, 1, i - 1) /\ v = SubSeq(q, i + 1, Len(q))
    OBVIOUS
<1>2. /\ u \in Seq(S) /\ Len(u) = i - 1
      /\ \A k \in 1 .. i - 1 : u[k] = q[k]
    BY <1>1
<1>3. /\ v \in Seq(S) /\ Len(v) = Len(q) - i
      /\ \A k \in 1 .. Len(q) - i : v[k] = q[i + k]
    BY <1>1
<1>4. PICK r : r = u \o v
    OBVIOUS
<1>5. RemoveAt(q, i) = r
    BY <1>1, <1>4 DEF RemoveAt
<1>6. /\ r \in Seq(S) /\ Len(r) = Len(u) + Len(v)
      /\ \A k \in 1 .. Len(u) + Len(v) : r[k] = IF k <= Len(u) THEN u[k] ELSE v[k - Len(u)]
    <2>1. u \in Seq(S) /\ v \in Seq(S)
        BY <1>2, <1>3
    <2> QED
        BY ONLY <1>4, <2>1, ConcatProperties
<1>7. Len(r) = Len(q) - 1
    BY <1>2, <1>3, <1>6
<1>8. ASSUME NEW k \in 1 .. Len(r) PROVE \E m \in 1 .. Len(q) : r[k] = q[m]
    <2>1. CASE k <= i - 1
        BY <1>2, <1>6, <1>7, <2>1
    <2>2. CASE ~(k <= i - 1)
        <3>1. k - (i - 1) \in 1 .. Len(q) - i /\ i + (k - (i - 1)) = k + 1 /\ k + 1 \in 1 .. Len(q)
            BY <1>7, <2>2
        <3>2. r[k] = v[k - (i - 1)]
            BY <1>2, <1>6, <2>2
        <3> QED
            BY <1>3, <3>1, <3>2
    <2> QED
        BY <2>1, <2>2
<1>9. \A p \in Range(r) : p \in Range(q)
    <2>1. DOMAIN r = 1 .. Len(r) /\ DOMAIN q = 1 .. Len(q)
        BY <1>6
    <2> QED
        BY <1>8, <2>1 DEF Range
<1> QED
    BY <1>5, <1>6, <1>7, <1>9

----------------------------------------------------------------------------
(* The types, and the current tab of a page that polls.                    *)

TypesAndTab ==
    /\ Types
    /\ loop # "stopped" => Current(screen)
    /\ loop = "stopped" => poll.at = "none"

LEMMA InitTypes == Init => TypesAndTab
<1> SUFFICES ASSUME Init PROVE TypesAndTab
    OBVIOUS
<1>1. NoLog \in Hashes /\ Whole(NoLog, 0)
    <2>1. <<>> \in [{} -> {"say", "topic"}] /\ DOMAIN <<>> = {}
        OBVIOUS
    <2>2. <<>> \in Logs
        BY <2>1 DEF Logs
    <2> QED
        BY <2>1, <2>2 DEF NoLog, Hashes, Whole, EndOf
<1>2. Proper(Blank) /\ Current(Blank)
    BY DEF Blank, Proper, Current, Tabs, Range, IsInjective
<1>3. Request(<<>>) \in Polls
    <2>1. <<>> \in [{} -> Ids] /\ <<>> \in Seq(Entries)
        OBVIOUS
    <2> QED
        BY <2>1 DEF Request, Polls
<1>4. MaxLines \in Nat /\ MaxPulls \in Nat
    BY PageAssumption
<1>5. /\ log = [c \in Chan |-> NoLog] /\ mvc \in BOOLEAN /\ cleared = FALSE /\ written = 0
      /\ screen = Blank /\ loop = "init" /\ poll = Request(<<>>) /\ pulls = <<>>
    BY DEF Init
<1>6. ~screen.thrown
    BY <1>5 DEF Blank
<1>7. pulls \in Seq(Pulls) /\ Len(pulls) <= MaxPulls
    BY <1>4, <1>5
<1>8. log \in [Chan -> Hashes] /\ \A c \in Chan : Whole(log[c], written)
    BY <1>1, <1>5
<1>9. Types
    <2>1. written \in 0 .. MaxLines
        BY <1>4, <1>5
    <2>2. cleared \in BOOLEAN /\ mvc \in BOOLEAN
        BY <1>5
    <2>3. Proper(screen) /\ poll \in Polls /\ loop \in {"init", "poll", "deaf", "stopped"}
        BY <1>2, <1>3, <1>5
    <2> QED
        BY <1>6, <1>7, <1>8, <2>1, <2>2, <2>3 DEF Types
<1> QED
    BY <1>2, <1>5, <1>9 DEF TypesAndTab

LEMMA DaemonTypes ==
    ASSUME Types, Daemon
    PROVE  /\ log' \in [Chan -> Hashes] /\ \A c \in Chan : Whole(log'[c], written')
           /\ written' \in 0 .. MaxLines /\ cleared' \in BOOLEAN
           /\ UNCHANGED <<mvc, screen, loop, poll, pulls>>
<1>1. ASSUME NEW c \in Chan, NEW kind \in {"say", "topic"}, AppendLog(c, kind)
      PROVE  /\ log' \in [Chan -> Hashes] /\ \A d \in Chan : Whole(log'[d], written')
             /\ written' \in 0 .. MaxLines /\ cleared' \in BOOLEAN
             /\ UNCHANGED <<mvc, screen, loop, poll, pulls>>
    <2>1. PICK h, e : h = log[c] /\ e = EndOf(h)
        OBVIOUS
    <2>2. h \in Hashes /\ Whole(h, written) /\ written \in 0 .. MaxLines
        BY <2>1 DEF Types
    <2>3. e \in Nat /\ e <= written /\ DOMAIN h.lines = 0 .. e - 1
        BY <2>1, <2>2 DEF EndOf, Whole, Hashes
    <2>4. e \in Ids /\ MaxLines \in Nat
        BY <1>1, <2>2, <2>3, PageAssumption DEF AppendLog, Ids
    <2>5. PICK ls : ls = Put(h.lines, e, kind)
        OBVIOUS
    <2>6. ls \in Logs /\ DOMAIN ls = 0 .. (e + 1) - 1
        <3>1. PICK R \in SUBSET Ids : h.lines \in [R -> {"say", "topic"}]
            BY <2>2 DEF Hashes, Logs
        <3>2. ls \in [R \cup {e} -> {"say", "topic"}] /\ R \cup {e} \in SUBSET Ids
            BY <2>4, <2>5, <3>1 DEF Put
        <3>3. DOMAIN ls = (0 .. e - 1) \cup {e}
            BY <2>3, <2>5 DEF Put
        <3>4. (0 .. e - 1) \cup {e} = 0 .. (e + 1) - 1
            BY <2>3
        <3> QED
            BY <3>2, <3>3, <3>4 DEF Logs
    <2>7. PICK g : g = [begin |-> 0, end |-> e + 1, joined |-> TRUE, lines |-> ls]
        OBVIOUS
    <2>8. g \in Hashes /\ Whole(g, written + 1)
        BY <2>2, <2>3, <2>6, <2>7 DEF Hashes, Whole, EndOf, Nil
    <2>9. log' = [log EXCEPT ![c] = g] /\ written' = written + 1 /\ cleared' = cleared
        BY <1>1, <2>1, <2>5, <2>7 DEF AppendLog
    <2>10. \A d \in Chan : Whole(log[d], written + 1)
        <3>1. \A d \in Chan : log[d] \in Hashes /\ Whole(log[d], written)
            BY DEF Types
        <3>2. ASSUME NEW d \in Chan PROVE EndOf(log[d]) \in Nat
            BY <3>1 DEF Hashes, EndOf
        <3> QED
            BY <2>2, <3>1, <3>2 DEF Whole
    <2>11. written + 1 \in 0 .. MaxLines
        BY <1>1, <2>2, <2>4 DEF AppendLog
    <2> QED
        BY <1>1, <2>8, <2>9, <2>10, <2>11 DEF Types, AppendLog
<1>2. ASSUME NEW c \in Chan, NEW keep \in BOOLEAN, Leave(c, keep)
      PROVE  /\ log' \in [Chan -> Hashes] /\ \A d \in Chan : Whole(log'[d], written')
             /\ written' \in 0 .. MaxLines /\ cleared' \in BOOLEAN
             /\ UNCHANGED <<mvc, screen, loop, poll, pulls>>
    <2>1. PICK g : g = IF keep THEN [log[c] EXCEPT !.joined = FALSE] ELSE NoLog
        OBVIOUS
    <2>2. log[c] \in Hashes /\ Whole(log[c], written) /\ written \in 0 .. MaxLines
        BY DEF Types
    <2>3. CASE keep
        <3>1. g = [log[c] EXCEPT !.joined = FALSE]
            BY <2>1, <2>3
        <3>2. /\ g.begin = log[c].begin /\ g.end = log[c].end /\ g.lines = log[c].lines
              /\ g.joined = FALSE /\ g \in Hashes
            BY <2>2, <3>1 DEF Hashes
        <3>3. Whole(g, written)
            BY <2>2, <3>2 DEF Whole, EndOf
        <3> QED
            BY <1>2, <2>1, <3>2, <3>3 DEF Types, Leave
    <2>4. CASE ~keep
        <3>1. g = NoLog
            BY <2>1, <2>4
        <3>2. <<>> \in [{} -> {"say", "topic"}] /\ DOMAIN <<>> = {}
            OBVIOUS
        <3>3. <<>> \in Logs
            BY <3>2 DEF Logs
        <3>4. g \in Hashes /\ Whole(g, written)
            BY <2>2, <3>1, <3>2, <3>3 DEF NoLog, Hashes, Whole, EndOf
        <3> QED
            BY <1>2, <2>1, <3>4 DEF Types, Leave
    <2> QED
        BY <2>3, <2>4
<1> QED
    BY <1>1, <1>2 DEF Daemon

LEMMA OrderIs ==
    ASSUME NEW cs \in SetToSeqs(Joined)
    PROVE  cs \in Seq(Chan) /\ \A i \in DOMAIN cs : cs[i] \in Joined
<1>1. Joined \in SUBSET Chan /\ Cardinality(Joined) \in Nat
    BY PageAssumption, FS_Subset, FS_CardinalityType DEF Joined
<1>2. cs \in [1 .. Cardinality(Joined) -> Joined]
    BY DEF SetToSeqs
<1> QED
    BY <1>1, <1>2

LEMMA AnswerTypes ==
    ASSUME Types, Answer
    PROVE  /\ poll' \in Polls /\ poll.at = "server"
           /\ UNCHANGED <<log, mvc, screen, loop, pulls, cleared, written>>
<1>1. PICK cs \in SetToSeqs(Joined) :
          \/ AnswerWith([i \in DOMAIN cs |-> Entry(cs[i])])
          \/ AnswerWith([i \in DOMAIN cs |-> Unchanged(cs[i])])
    BY DEF Answer
<1>2. PICK body : /\ \/ body = [i \in DOMAIN cs |-> Entry(cs[i])]
                     \/ body = [i \in DOMAIN cs |-> Unchanged(cs[i])]
                  /\ AnswerWith(body)
    BY <1>1
<1>3. body \in Seq(Entries)
    <2>1. cs \in Seq(Chan) /\ \A i \in DOMAIN cs : cs[i] \in Chan
        BY OrderIs
    <2>2. \A i \in DOMAIN cs : Entry(cs[i]) \in Entries /\ Unchanged(cs[i]) \in Entries
        BY <2>1, EntryIs
    <2>3. \A i \in DOMAIN cs : body[i] \in Entries
        BY <1>2, <2>2
    <2>4. body \in [1 .. Len(cs) -> Entries] /\ Len(cs) \in Nat
        BY <1>2, <2>1, <2>3
    <2> QED
        BY <2>4
<1>4. poll' = [poll EXCEPT !.at = "answered", !.body = body] /\ poll \in Polls
    BY <1>2 DEF AnswerWith, Types
<1> QED
    BY <1>3, <1>4 DEF Polls, Answer

LEMMA LoopTypes ==
    ASSUME TypesAndTab, Loop
    PROVE  /\ poll' \in Polls /\ Proper(screen') /\ ~screen'.thrown
           /\ loop' \in {"init", "poll", "deaf", "stopped"}
           /\ loop' # "stopped" => Current(screen')
           /\ loop' = "stopped" => poll'.at = "none"
           /\ UNCHANGED <<log, mvc, pulls, cleared, written>>
<1>1. Proper(screen) /\ ~screen.thrown /\ poll \in Polls /\ (loop # "stopped" => Current(screen))
    BY DEF TypesAndTab, Types
<1>2. NoRequest \in Polls /\ NoRequest.at = "none"
    <2>1. <<>> \in [{} -> Ids] /\ <<>> \in Seq(Entries)
        OBVIOUS
    <2> QED
        BY <2>1 DEF NoRequest, Polls
<1>3. ASSUME NEW s, Proper(s) PROVE Request(LastIDs(s)) \in Polls
    <2>1. LastIDs(s) \in UNION {[S -> Ids] : S \in SUBSET Chan} /\ <<>> \in Seq(Entries)
        BY <1>3, LastIDsIs
    <2> QED
        BY <2>1 DEF Request, Polls
<1>4. CASE OnAnswer
    <2>1. PICK channels, applied :
              channels = poll.body /\ applied = ApplyLogUpdate(screen, channels)
        OBVIOUS
    <2>2. channels \in Seq(Entries)
        BY <1>1, <2>1 DEF Polls
    <2>3. /\ Proper(applied)
          /\ ~applied.thrown => \A i \in DOMAIN channels : channels[i].name \in Tabs(applied)
          /\ Current(screen) /\ ~applied.thrown => Current(applied)
        BY <1>1, <2>1, <2>2, ApplyLogUpdateIs
    <2>4. CASE applied.thrown
        <3>1. screen' = [applied EXCEPT !.thrown = FALSE] /\ loop' = "stopped" /\ poll' = NoRequest
            BY <1>4, <2>1, <2>4 DEF OnAnswer, Stop
        <3>2. Proper(screen') /\ ~screen'.thrown
            <4>1. PICK t : t = [applied EXCEPT !.thrown = FALSE]
                OBVIOUS
            <4>2. /\ t.tabs = applied.tabs /\ t.info = applied.info /\ t.store = applied.store
                  /\ t.active = applied.active /\ t.thrown = FALSE
                  /\ t = [tabs |-> t.tabs, info |-> t.info, store |-> t.store,
                          active |-> t.active, thrown |-> t.thrown]
                BY <2>3, <4>1 DEF Proper
            <4>3. Proper(t)
                BY <2>3, <4>2 DEF Proper, Tabs
            <4> QED
                BY <3>1, <4>1, <4>2, <4>3
        <3> QED
            BY <1>2, <1>4, <3>1, <3>2 DEF OnAnswer
    <2>5. CASE ~applied.thrown
        <3>1. PICK t : t = IF mvc THEN applied ELSE CloseChannel(applied, channels)
            OBVIOUS
        <3>2. Current(applied)
            BY <1>1, <1>4, <2>3, <2>5 DEF OnAnswer
        <3>3. Proper(t) /\ Current(t) /\ ~t.thrown
            <4>1. CASE mvc
                BY <2>3, <2>5, <3>1, <3>2, <4>1
            <4>2. CASE ~mvc
                <5>1. t = CloseChannel(applied, channels)
                    BY <3>1, <4>2
                <5>2. Proper(t) /\ Current(t) /\ t.thrown = applied.thrown
                    BY <2>2, <2>3, <2>5, <3>2, <5>1, CloseChannelIs
                <5> QED
                    BY <2>5, <5>2
            <4> QED
                BY <4>1, <4>2
        <3>4. screen' = t /\ loop' = "poll" /\ poll' = Request(LastIDs(screen'))
            BY <1>4, <2>1, <2>5, <3>1 DEF OnAnswer
        <3>5. poll' = Request(LastIDs(t))
            BY <3>4
        <3> QED
            BY <1>3, <1>4, <3>3, <3>4, <3>5 DEF OnAnswer
    <2> QED
        BY <2>4, <2>5
<1>5. CASE OnAnswerDeaf
    BY <1>1, <1>2, <1>5 DEF OnAnswerDeaf, Stop
<1>6. CASE OnServerError
    BY <1>1, <1>2, <1>6 DEF OnServerError, Stop
<1>7. CASE OnNetworkError
    <2>1. Proper(screen') /\ ~screen'.thrown /\ screen' = screen
        BY <1>1, <1>7 DEF OnNetworkError
    <2>2. CASE loop = "init"
        BY <1>1, <1>2, <1>7, <2>1, <2>2 DEF OnNetworkError, Stop
    <2>3. CASE loop # "init"
        <3>1. poll' = Request(LastIDs(screen)) /\ loop' \in {"poll", "deaf"}
            BY <1>7, <2>3 DEF OnNetworkError
        <3>2. loop # "stopped"
            <4>1. poll.at # "none"
                BY <1>7 DEF OnNetworkError
            <4> QED
                BY <4>1 DEF TypesAndTab
        <3> QED
            BY <1>1, <1>3, <1>7, <2>1, <3>1, <3>2 DEF OnNetworkError
    <2> QED
        BY <2>2, <2>3
<1> QED
    BY <1>4, <1>5, <1>6, <1>7 DEF Loop

LEMMA TablessIs ==
    ASSUME NEW s, Proper(s)
    PROVE  s.tabs = <<>> <=> Tabs(s) = {}
<1>1. PICK q \in Seq(Chan) : q = s.tabs
    BY DEF Proper
<1>2. q = <<>> <=> DOMAIN q = {}
    <2>1. Len(q) \in Nat /\ DOMAIN q = 1 .. Len(q) /\ (q = <<>> <=> Len(q) = 0)
        OBVIOUS
    <2>2. Len(q) # 0 => 1 \in DOMAIN q
        BY <2>1
    <2>3. Len(q) = 0 => DOMAIN q = {}
        BY <2>1
    <2> QED
        BY <2>1, <2>2, <2>3
<1>3. DOMAIN q = {} <=> Range(q) = {}
    BY DEF Range
<1> QED
    BY <1>1, <1>2, <1>3 DEF Tabs

LEMMA PullsTypes ==
    ASSUME Types,
           Pull \/ \E i \in DOMAIN pulls : AnswerOld(i) \/ OnOldError(i)
    PROVE  /\ pulls' \in Seq(Pulls) /\ Len(pulls') <= MaxPulls
           /\ UNCHANGED <<log, mvc, screen, loop, poll, cleared, written>>
<1>1. pulls \in Seq(Pulls) /\ Len(pulls) <= MaxPulls /\ DOMAIN pulls = 1 .. Len(pulls)
    BY DEF Types
<1>2. MaxPulls \in Nat
    BY PageAssumption
<1>3. CASE Pull
    <2>1. PICK c, id : c = screen.active /\ id = screen.info[c].oldest
        OBVIOUS
    <2>2. c \in Tabs(screen)
        BY <1>3, <2>1 DEF Pull, HasCurrent
    <2>3. c \in Chan /\ id \in Ids \cup {Nil}
        BY <2>1, <2>2 DEF Types, Proper, Tabs, Range, Infos
    <2>4. PICK p : p = [at |-> "server", chan |-> c, lines |-> <<>>,
                        lastid |-> IF id = Nil THEN 0 ELSE id]
        OBVIOUS
    <2>5. p \in Pulls
        <3>1. <<>> \in [{} -> {"say", "topic"}]
            OBVIOUS
        <3>2. <<>> \in Logs
            BY <3>1 DEF Logs
        <3> QED
            BY <2>3, <2>4, <3>2 DEF Pulls
    <2>6. pulls' = Append(pulls, p) /\ Len(pulls) < MaxPulls
        BY <1>3, <2>1, <2>4 DEF Pull
    <2> QED
        BY <1>1, <1>2, <1>3, <2>5, <2>6 DEF Pull
<1>4. ASSUME NEW i \in DOMAIN pulls, AnswerOld(i)
      PROVE  /\ pulls' \in Seq(Pulls) /\ Len(pulls') <= MaxPulls
             /\ UNCHANGED <<log, mvc, screen, loop, poll, cleared, written>>
    <2>1. PICK ls, p : /\ ls = GetLog(log[pulls[i].chan],
                                      IdsBefore(log[pulls[i].chan], pulls[i].lastid))
                       /\ p = [pulls[i] EXCEPT !.at = "answered", !.lines = ls]
        OBVIOUS
    <2>2. pulls[i] \in Pulls
        BY <1>1
    <2>3. ls \in Logs
        <3>1. log[pulls[i].chan] \in Hashes
            BY <2>2 DEF Types, Pulls
        <3> QED
            BY <2>1, <3>1, GetLogIs
    <2>4. p \in Pulls
        BY <2>1, <2>2, <2>3 DEF Pulls
    <2>5. pulls' = [pulls EXCEPT ![i] = p]
        BY <1>4, <2>1 DEF AnswerOld
    <2> QED
        BY <1>1, <1>4, <2>4, <2>5 DEF AnswerOld
<1>5. ASSUME NEW i \in DOMAIN pulls, OnOldError(i)
      PROVE  /\ pulls' \in Seq(Pulls) /\ Len(pulls') <= MaxPulls
             /\ UNCHANGED <<log, mvc, screen, loop, poll, cleared, written>>
    <2>1. RemoveAt(pulls, i) \in Seq(Pulls) /\ Len(RemoveAt(pulls, i)) = Len(pulls) - 1
        BY Zenon, <1>1, RemoveAtIs
    <2>2. /\ pulls' = RemoveAt(pulls, i)
          /\ UNCHANGED <<log, mvc, screen, loop, poll, cleared, written>>
        BY <1>5 DEF OnOldError
    <2>3. Len(RemoveAt(pulls, i)) <= MaxPulls
        <3>1. PICK m, n : m = Len(pulls) /\ n = Len(RemoveAt(pulls, i))
            OBVIOUS
        <3>2. m \in Nat /\ n = m - 1 /\ m <= MaxPulls
            BY <1>1, <2>1, <3>1
        <3> QED
            BY <1>2, <3>1, <3>2
    <2> QED
        BY Zenon, <2>1, <2>2, <2>3
<1> QED
    BY <1>3, <1>4, <1>5

LEMMA OnOldAnswerTypes ==
    ASSUME Types, NEW i \in DOMAIN pulls, OnOldAnswer(i)
    PROVE  /\ pulls' \in Seq(Pulls) /\ Len(pulls') <= MaxPulls
           /\ Proper(screen') /\ ~screen'.thrown
           /\ Tabs(screen') = Tabs(screen) /\ screen'.active = screen.active
           /\ UNCHANGED <<log, mvc, loop, poll, cleared, written>>
<1>1. pulls \in Seq(Pulls) /\ Len(pulls) <= MaxPulls /\ DOMAIN pulls = 1 .. Len(pulls)
    BY DEF Types
<1>2. RemoveAt(pulls, i) \in Seq(Pulls) /\ Len(RemoveAt(pulls, i)) = Len(pulls) - 1
    BY Zenon, <1>1, RemoveAtIs
<1>3. MaxPulls \in Nat
    BY PageAssumption
<1>4. pulls' \in Seq(Pulls) /\ Len(pulls') <= MaxPulls
    BY <1>1, <1>2, <1>3 DEF OnOldAnswer
<1>5. PICK ch, t : /\ ch = [name |-> pulls[i].chan, log |-> pulls[i].lines]
                   /\ t = ShowOldLog(screen, ch, mvc)
    OBVIOUS
<1>6. ch.log \in Logs /\ mvc \in BOOLEAN /\ Proper(screen)
    <2>1. pulls[i] \in Pulls
        BY <1>1
    <2>2. ch.log \in Logs
        BY <1>5, <2>1 DEF Pulls
    <2> QED
        BY <2>2 DEF Types
<1>7. Proper(t) /\ t.tabs = screen.tabs /\ t.active = screen.active
    BY <1>5, <1>6, ShowOldLogIs
<1>8. PICK u : u = [t EXCEPT !.thrown = FALSE]
    OBVIOUS
<1>9. /\ u.tabs = t.tabs /\ u.info = t.info /\ u.store = t.store
      /\ u.active = t.active /\ u.thrown = FALSE
      /\ u = [tabs |-> u.tabs, info |-> u.info, store |-> u.store,
              active |-> u.active, thrown |-> u.thrown]
    BY <1>7, <1>8 DEF Proper
<1>10. Proper(u)
    BY <1>7, <1>9 DEF Proper, Tabs
<1>11. screen' = u
    BY <1>5, <1>8 DEF OnOldAnswer
<1>12. Tabs(u) = Tabs(screen) /\ u.active = screen.active
    BY <1>7, <1>9 DEF Tabs
<1> QED
    BY <1>4, <1>9, <1>10, <1>11, <1>12 DEF OnOldAnswer

LEMMA TurnTypes ==
    ASSUME Types, NEW c \in Chan, Turn(c)
    PROVE  /\ Proper(screen') /\ ~screen'.thrown /\ HasCurrent(screen')
           /\ UNCHANGED <<log, mvc, loop, poll, pulls, cleared, written>>
<1>1. PICK u : u = [screen EXCEPT !.active = c]
    OBVIOUS
<1>2. Proper(screen) /\ ~screen.thrown
    BY DEF Types
<1>3. /\ u.tabs = screen.tabs /\ u.info = screen.info /\ u.store = screen.store
      /\ u.active = c /\ u.thrown = screen.thrown
      /\ u = [tabs |-> u.tabs, info |-> u.info, store |-> u.store,
              active |-> u.active, thrown |-> u.thrown]
    BY <1>1, <1>2 DEF Proper
<1>4. Proper(u) /\ Tabs(u) = Tabs(screen)
    BY <1>2, <1>3 DEF Proper, Tabs
<1>5. screen' = u /\ c \in Tabs(screen)
    BY <1>1 DEF Turn
<1> QED
    BY <1>2, <1>3, <1>4, <1>5 DEF Turn, HasCurrent

LEMMA StepTypes == TypesAndTab /\ [Next]_vars => TypesAndTab'
<1> SUFFICES ASSUME TypesAndTab, [Next]_vars PROVE TypesAndTab'
    OBVIOUS
<1>0. Types
    BY DEF TypesAndTab
<1>1. CASE Daemon
    BY <1>0, <1>1, DaemonTypes DEF TypesAndTab, Types
<1>2. CASE Answer
    BY <1>0, <1>2, AnswerTypes DEF TypesAndTab, Types
<1>3. CASE Loop
    BY <1>0, <1>3, LoopTypes DEF TypesAndTab, Types
<1>4. CASE Pull \/ \E i \in DOMAIN pulls : AnswerOld(i) \/ OnOldError(i)
    BY <1>0, <1>4, PullsTypes DEF TypesAndTab, Types
<1>5. ASSUME NEW i \in DOMAIN pulls, OnOldAnswer(i) PROVE TypesAndTab'
    <2>1. /\ pulls' \in Seq(Pulls) /\ Len(pulls') <= MaxPulls
          /\ Proper(screen') /\ ~screen'.thrown
          /\ Tabs(screen') = Tabs(screen) /\ screen'.active = screen.active
          /\ UNCHANGED <<log, mvc, loop, poll, cleared, written>>
        BY <1>0, <1>5, OnOldAnswerTypes
    <2>2. Current(screen) => Current(screen')
        <3>1. screen.tabs = <<>> => screen'.tabs = <<>>
            <4>1. ASSUME screen.tabs = <<>> PROVE screen'.tabs = <<>>
                <5>1. Proper(screen)
                    BY <1>0 DEF Types
                <5>2. Tabs(screen) = {}
                    BY <4>1, <5>1, TablessIs
                <5> QED
                    BY <2>1, <5>2, TablessIs
            <4> QED
                BY <4>1
        <3> QED
            BY <2>1, <3>1 DEF Current, HasCurrent
    <2> QED
        BY <1>0, <2>1, <2>2 DEF TypesAndTab, Types
<1>6. ASSUME NEW c \in Chan, Turn(c) PROVE TypesAndTab'
    <2>1. /\ Proper(screen') /\ ~screen'.thrown /\ HasCurrent(screen')
          /\ UNCHANGED <<log, mvc, loop, poll, pulls, cleared, written>>
        BY <1>0, <1>6, TurnTypes
    <2>2. Current(screen')
        BY <2>1 DEF Current
    <2> QED
        BY <1>0, <2>1, <2>2 DEF TypesAndTab, Types
<1>7. CASE Reload
    <2>1. Proper(Blank) /\ Current(Blank) /\ ~Blank.thrown
        BY DEF Blank, Proper, Current, Tabs, Range, IsInjective
    <2>2. Request(<<>>) \in Polls /\ Request(<<>>).at = "server"
        <3>1. <<>> \in [{} -> Ids] /\ <<>> \in Seq(Entries)
            OBVIOUS
        <3> QED
            BY <3>1 DEF Request, Polls
    <2>3. <<>> \in Seq(Pulls) /\ Len(<<>>) = 0 /\ MaxPulls \in Nat
        BY PageAssumption
    <2>4. /\ screen' = Blank /\ loop' = "init" /\ poll' = Request(<<>>) /\ pulls' = <<>>
          /\ cleared' = FALSE /\ UNCHANGED <<log, mvc, written>>
        BY <1>7 DEF Reload, Loaded
    <2>5. Proper(screen') /\ Current(screen') /\ ~screen'.thrown
        BY <2>1, <2>4
    <2>6. poll' \in Polls /\ pulls' \in Seq(Pulls) /\ Len(pulls') <= MaxPulls
        BY <2>2, <2>3, <2>4
    <2>7. cleared' \in BOOLEAN
        BY <2>4
    <2> QED
        BY <1>0, <2>2, <2>4, <2>5, <2>6, <2>7 DEF TypesAndTab, Types
<1>8. CASE UNCHANGED vars
    BY <1>0, <1>8 DEF vars, TypesAndTab, Types
<1> QED
    BY <1>1, <1>2, <1>3, <1>4, <1>5, <1>6, <1>7, <1>8 DEF Next

----------------------------------------------------------------------------
(* Theorems.                                                               *)

LEMMA TypesAlways == Spec => []TypesAndTab
BY InitTypes, StepTypes, PTL DEF Spec

\* Dictionary, stores and tabs of the page name the same channels, each once, and the
\* stores hold ids of lines, whatever answers come in whatever order.
THEOREM TypesHold == Spec => []TypeOK
<1>1. TypesAndTab => TypeOK
    <2> SUFFICES ASSUME TypesAndTab PROVE TypeOK
        OBVIOUS
    <2>1. Proper(screen) /\ Tabs(screen) \subseteq Chan
        BY DEF TypesAndTab, Types, Proper, Tabs, Range
    <2>2. poll \in Polls
        BY DEF TypesAndTab, Types
    <2> QED
        BY <2>1, <2>2 DEF TypesAndTab, Types, TypeOK, Proper, Polls, Shown, Ids
<1> QED
    BY <1>1, TypesAlways, PTL

\* A polling page that has tabs has one of them for its current one: what the user
\* types has a channel to go to.
THEOREM CurrentIsTab == Spec => []ActiveIsTab
<1>1. TypesAndTab => ActiveIsTab
    <2> SUFFICES ASSUME TypesAndTab, loop = "poll", Shown # {} PROVE HasCurrent(screen)
        BY DEF ActiveIsTab
    <2>1. Current(screen)
        BY DEF TypesAndTab
    <2>2. screen.tabs # <<>>
        BY DEF Shown, Tabs, Range
    <2> QED
        BY <2>1, <2>2 DEF Current
<1> QED
    BY <1>1, TypesAlways, PTL

\* The topic line that ends the polling finds a page that has lost its last tab.
THEOREM PollingStops == Spec => StopsOnlyTabless
<1>1. TypesAndTab /\ [Next]_vars => [AnswerStops => screen.active = Gone]_vars
    <2> SUFFICES ASSUME TypesAndTab, Next, AnswerStops PROVE screen.active = Gone
        BY DEF vars
    <2>1. /\ Proper(screen) /\ ~screen.thrown /\ poll \in Polls /\ Current(screen)
          /\ loop = "poll" /\ poll.at = "answered" /\ loop' = "stopped"
        BY DEF TypesAndTab, Types, AnswerStops
    <2>2. OnAnswer
        BY <2>1 DEF Next, Daemon, AppendLog, Leave, Answer, Loop, OnAnswerDeaf, OnServerError,
            OnNetworkError, Pull, AnswerOld, OnOldAnswer, OnOldError, Turn, Reload, Loaded
    <2>3. PICK channels, applied :
              channels = poll.body /\ applied = ApplyLogUpdate(screen, channels)
        OBVIOUS
    <2>4. applied.thrown
        BY <2>1, <2>2, <2>3 DEF OnAnswer
    <2>5. channels \in Seq(Entries)
        BY <2>1, <2>3 DEF Polls
    <2>6. ~Settled(screen)
        BY <2>1, <2>3, <2>4, <2>5, ApplyLogUpdateIs
    <2> QED
        BY <2>1, <2>6 DEF Settled, Current
<1> QED
    BY <1>1, TypesAlways, PTL DEF Spec, StopsOnlyTabless
=============================================================================
