-------------------------- MODULE PageLines_proofs --------------------------
(***************************************************************************)
(* What the pages show of a log, for any channels, lines, windows and      *)
(* pulls: on mvc no gap and no topic that goes back, as long as no log is  *)
(* thrown away, and on either page at most one line twice per answer while *)
(* it polls.                                                               *)
(***************************************************************************)
EXTENDS Page_proofs

----------------------------------------------------------------------------
(* A store.                                                                *)

Sorted(q) == \A i, j \in 1 .. Len(q) : i <= j => q[i] <= q[j]

Twice(q) == Len(q) - Cardinality(Range(q))

LEMMA RangeIs ==
    ASSUME NEW q \in Seq(Ids)
    PROVE  /\ IsFiniteSet(Range(q)) /\ Range(q) \subseteq Ids /\ Cardinality(Range(q)) \in Nat
           /\ Range(q) = {q[i] : i \in 1 .. Len(q)}
<1>1. Range(q) \subseteq Ids
    BY DEF Range
<1>2. IsFiniteSet(Range(q))
    BY <1>1, IdsIs, FS_Subset
<1>3. DOMAIN q = 1 .. Len(q)
    OBVIOUS
<1> QED
    BY <1>1, <1>2, <1>3, FS_CardinalityType DEF Range

\* The ends of a sorted store.
LEMMA EndsAre ==
    ASSUME NEW q \in Seq(Ids), Sorted(q), q # <<>>
    PROVE  /\ Head(q) \in Range(q) /\ Last(q) \in Range(q)
           /\ \A y \in Range(q) : Head(q) <= y /\ y <= Last(q)
<1>1. /\ Len(q) \in Nat \ {0} /\ Head(q) = q[1] /\ Last(q) = q[Len(q)]
      /\ DOMAIN q = 1 .. Len(q)
    BY DEF Last
<1>2. Range(q) = {q[i] : i \in 1 .. Len(q)}
    BY RangeIs
<1>3. \A i \in 1 .. Len(q) : q[1] <= q[i] /\ q[i] <= q[Len(q)]
    BY <1>1 DEF Sorted
<1>4. 1 \in 1 .. Len(q) /\ Len(q) \in 1 .. Len(q)
    BY <1>1
<1> QED
    BY <1>1, <1>2, <1>3, <1>4

LEMMA InsertShows ==
    ASSUME NEW q \in Seq(Ids), Sorted(q), NEW id \in Ids, NEW r, r = Insert(q, id)
    PROVE  /\ r \in Seq(Ids) /\ Sorted(r) /\ Range(r) = Range(q) \cup {id} /\ r # <<>>
           /\ Twice(r) = IF id \in Range(q) THEN Twice(q) + 1 ELSE Twice(q)
<1>1. PICK K, n : K = {k \in DOMAIN q : q[k] <= id} /\ n = Cardinality(K)
    OBVIOUS
<1>0. /\ Len(q) \in Nat /\ DOMAIN q = 1 .. Len(q) /\ id \in Nat
      /\ \A k \in 1 .. Len(q) : q[k] \in Nat
    <2>1. Ids \subseteq Nat
        BY IdsIs
    <2>2. \A k \in 1 .. Len(q) : q[k] \in Ids
        OBVIOUS
    <2>3. \A k \in 1 .. Len(q) : q[k] \in Nat
        BY <2>1, <2>2
    <2>4. Len(q) \in Nat /\ DOMAIN q = 1 .. Len(q)
        OBVIOUS
    <2> QED
        BY <2>1, <2>3, <2>4
<1>2. n \in 0 .. Len(q) /\ K = 1 .. n
    <2>1. CASE K = {}
        <3>1. Cardinality({}) = 0
            BY FS_EmptySet
        <3>2. n = 0
            BY <1>1, <2>1, <3>1
        <3>3. 1 .. 0 = {}
            OBVIOUS
        <3> QED
            BY <1>0, <2>1, <3>2, <3>3
    <2>2. CASE K # {}
        <3>1. K \subseteq 1 .. Len(q) /\ K \subseteq Nat
            BY <1>0, <1>1
        <3>2. IsFiniteSet(K)
            <4>1. IsFiniteSet(1 .. Len(q)) /\ K \in SUBSET (1 .. Len(q))
                BY <1>0, <3>1, FS_Interval
            <4> QED
                BY <4>1, FS_Subset
        <3>3. PICK m \in K : \A k \in K : k <= m
            BY <2>2, <3>1, <3>2, Greatest
        <3>4. m \in 1 .. Len(q) /\ q[m] <= id
            BY <1>0, <1>1, <3>3
        <3>5. ASSUME NEW k \in 1 .. m PROVE k \in K
            <4>1. k \in 1 .. Len(q) /\ k <= m
                BY <3>4
            <4>2. q[k] <= q[m]
                BY <3>4, <4>1 DEF Sorted
            <4>3. q[k] \in Nat /\ q[m] \in Nat /\ id \in Nat
                BY <1>0, <3>4, <4>1
            <4>4. q[k] <= id
                BY <3>4, <4>2, <4>3
            <4> QED
                BY <1>0, <1>1, <4>1, <4>4
        <3>6. K = 1 .. m
            <4>1. ASSUME NEW k \in K PROVE k \in 1 .. m
                <5>1. k \in 1 .. Len(q) /\ k <= m
                    BY <3>1, <3>3
                <5> QED
                    BY <3>4, <5>1
            <4> QED
                BY <3>5, <4>1
        <3>7. Cardinality(1 .. m) = m
            BY <3>4, FS_Interval
        <3>8. n = m
            BY <1>1, <3>6, <3>7
        <3> QED
            BY <1>0, <3>4, <3>6, <3>8
    <2> QED
        BY <2>1, <2>2
<1>3. PICK u, v : u = SubSeq(q, 1, n) /\ v = SubSeq(q, n + 1, Len(q))
    OBVIOUS
<1>4. r = u \o <<id>> \o v
    <2>1. r = InsertAt(q, 1 + n, id)
        BY <1>1 DEF Insert
    <2>2. (1 + n) - 1 = n /\ 1 + n = n + 1
        BY <1>2
    <2> QED
        BY <1>3, <2>1, <2>2 DEF InsertAt
<1>5. u \in Seq(Ids) /\ Len(u) = n /\ \A i \in 1 .. n : u[i] = q[i]
    BY <1>2, <1>3
<1>6. v \in Seq(Ids) /\ Len(v) = Len(q) - n /\ \A i \in 1 .. Len(q) - n : v[i] = q[n + i]
    BY <1>2, <1>3
<1>7. PICK w : w = u \o <<id>>
    OBVIOUS
<1>8. /\ w \in Seq(Ids) /\ Len(w) = n + 1
      /\ \A i \in 1 .. n + 1 : w[i] = IF i <= n THEN u[i] ELSE id
    <2>1. u \in Seq(Ids) /\ n \in Nat
        BY <1>2, <1>5
    <2>2. w = Append(u, id)
        BY <1>7, <2>1
    <2> QED
        BY <1>5, <2>1, <2>2
<1>9. r \in Seq(Ids) /\ Len(r) = Len(w) + Len(v)
      /\ \A i \in 1 .. Len(w) + Len(v) : r[i] = IF i <= Len(w) THEN w[i] ELSE v[i - Len(w)]
    <2>1. w \in Seq(Ids) /\ v \in Seq(Ids) /\ r = w \o v
        BY <1>4, <1>6, <1>7, <1>8
    <2> QED
        BY ONLY <2>1, ConcatProperties
<1>10. Len(r) = Len(q) + 1
    BY <1>0, <1>2, <1>6, <1>8, <1>9
<1>11. ASSUME NEW i \in 1 .. Len(q) + 1
       PROVE  r[i] = IF i <= n THEN q[i] ELSE IF i = n + 1 THEN id ELSE q[i - 1]
    <2>1. CASE i <= n
        BY <1>2, <1>5, <1>8, <1>9, <1>10, <2>1
    <2>2. CASE i = n + 1
        BY <1>2, <1>8, <1>9, <1>10, <2>2
    <2>3. CASE i > n + 1
        <3>1. i - (n + 1) \in 1 .. Len(q) - n /\ n + (i - (n + 1)) = i - 1
            BY <1>0, <1>2, <2>3
        <3>2. r[i] = v[i - (n + 1)]
            BY <1>2, <1>8, <1>9, <1>10, <2>3
        <3> QED
            BY SMTT(30), <1>2, <1>6, <2>3, <3>1, <3>2
    <2> QED
        BY <1>2, <2>1, <2>2, <2>3
<1>12. \A k \in 1 .. Len(q) : q[k] \in Nat /\ (k <= n => q[k] <= id) /\ (k > n => id < q[k])
    <2> SUFFICES ASSUME NEW k \in 1 .. Len(q)
                 PROVE  q[k] \in Nat /\ (k <= n => q[k] <= id) /\ (k > n => id < q[k])
        OBVIOUS
    <2>1. k \in K <=> k <= n
        BY <1>2
    <2>2. q[k] \in Nat /\ id \in Nat
        BY <1>0
    <2> QED
        BY <1>0, <1>1, <1>2, <2>1, <2>2
<1>13. Sorted(r)
    <2> SUFFICES ASSUME NEW i \in 1 .. Len(q) + 1, NEW j \in 1 .. Len(q) + 1, i <= j
                 PROVE  r[i] <= r[j]
        BY <1>10 DEF Sorted
    <2>0. id \in Nat
        BY <1>0
    <2>1. CASE j <= n
        BY <1>2, <1>11, <2>1 DEF Sorted
    <2>2. CASE j = n + 1
        BY <1>2, <1>11, <1>12, <2>0, <2>2
    <2>3. CASE j > n + 1
        <3>1. r[j] = q[j - 1] /\ j - 1 \in 1 .. Len(q) /\ j - 1 > n
            BY <1>0, <1>2, <1>11, <2>3
        <3>2. CASE i <= n
            BY <1>0, <1>2, <1>11, <3>1, <3>2 DEF Sorted
        <3>3. CASE i = n + 1
            <4>1. r[i] = id
                BY <1>2, <1>11, <3>3
            <4>2. id < q[j - 1] /\ q[j - 1] \in Nat
                BY <1>12, <3>1
            <4> QED
                BY <2>0, <3>1, <4>1, <4>2
        <3>4. CASE i > n + 1
            <4>1. r[i] = q[i - 1] /\ i - 1 \in 1 .. Len(q) /\ i - 1 <= j - 1
                BY <1>0, <1>2, <1>11, <3>4
            <4> QED
                BY <3>1, <4>1 DEF Sorted
        <3> QED
            BY <1>2, <3>2, <3>3, <3>4
    <2> QED
        BY <1>2, <2>1, <2>2, <2>3
<1>14. Range(r) = Range(q) \cup {id}
    <2>1. Range(r) = {r[i] : i \in 1 .. Len(q) + 1} /\ Range(q) = {q[i] : i \in 1 .. Len(q)}
        BY <1>9, <1>10, RangeIs
    <2>2. \A i \in 1 .. Len(q) + 1 : r[i] \in Range(q) \cup {id}
        <3> SUFFICES ASSUME NEW i \in 1 .. Len(q) + 1 PROVE r[i] \in Range(q) \cup {id}
            OBVIOUS
        <3>1. (i <= n => i \in 1 .. Len(q)) /\ (i > n + 1 => i - 1 \in 1 .. Len(q))
            BY <1>0, <1>2
        <3> QED
            BY <1>2, <1>11, <2>1, <3>1
    <2>3. ASSUME NEW k \in 1 .. Len(q) PROVE q[k] \in Range(r)
        <3>1. CASE k <= n
            <4>1. k \in 1 .. Len(q) + 1 /\ r[k] = q[k]
                BY <1>0, <1>2, <1>11, <3>1
            <4> QED
                BY <2>1, <4>1
        <3>2. CASE k > n
            <4>1. k + 1 \in 1 .. Len(q) + 1 /\ r[k + 1] = q[k]
                <5>1. k + 1 \in 1 .. Len(q) + 1 /\ ~(k + 1 <= n) /\ k + 1 # n + 1 /\ (k + 1) - 1 = k
                    BY <1>0, <1>2, <3>2
                <5> QED
                    BY <1>11, <5>1
            <4> QED
                BY <2>1, <4>1
        <3> QED
            BY <1>2, <3>1, <3>2
    <2>4. id \in Range(r)
        <3>1. n + 1 \in 1 .. Len(q) + 1 /\ r[n + 1] = id
            BY <1>0, <1>2, <1>11
        <3> QED
            BY <2>1, <3>1
    <2> QED
        BY <2>1, <2>2, <2>3, <2>4
<1>15. Twice(r) = IF id \in Range(q) THEN Twice(q) + 1 ELSE Twice(q)
    <2>1. /\ Cardinality(Range(q)) \in Nat
          /\ Cardinality(Range(q) \cup {id}) = IF id \in Range(q) THEN Cardinality(Range(q))
                                               ELSE Cardinality(Range(q)) + 1
        BY RangeIs, FS_AddElement
    <2>2. PICK a, b : a = Cardinality(Range(q)) /\ b = Cardinality(Range(r))
        OBVIOUS
    <2>3. a \in Nat /\ b = IF id \in Range(q) THEN a ELSE a + 1
        BY <1>14, <2>1, <2>2
    <2>4. Twice(r) = (Len(q) + 1) - b /\ Twice(q) = Len(q) - a
        BY <1>10, <2>2 DEF Twice
    <2> QED
        BY <1>0, <2>3, <2>4
<1>16. r # <<>>
    <2>1. Len(r) # 0
        BY <1>0, <1>10
    <2> QED
        BY <1>9, <2>1
<1> QED
    BY <1>9, <1>13, <1>14, <1>15, <1>16

\* q has the elements of S, n of them, the lower ones first.
Enumerates(q, n, S) ==
    /\ q \in Seq(Ids) /\ DOMAIN q = 1 .. n
    /\ S = {q[i] : i \in 1 .. n}
    /\ \A i, j \in 1 .. n : i < j => q[i] < q[j]

\* Every line of an answer has its turn.
LEMMA InOrderAll ==
    ASSUME NEW lines \in Logs
    PROVE  \E n \in Nat : Enumerates(InOrder(DOMAIN lines), n, DOMAIN lines)
<1>0. PICK q : q = InOrder(DOMAIN lines)
    OBVIOUS
<1>1. PICK S, n : S = DOMAIN lines /\ n = Cardinality(S)
    OBVIOUS
<1>2. S \in SUBSET Ids /\ Ids \subseteq Nat
    BY <1>1, IdsIs DEF Logs
<1>3. IsFiniteSet(S) /\ n \in Nat
    BY <1>1, <1>2, IdsIs, FS_Subset, FS_CardinalityType
<1>4. q \in [1 .. n -> S] /\ \A i, j \in DOMAIN q : i < j => q[i] < q[j]
    BY <1>0, <1>1, <1>2, <1>3, InOrderExists
<1>5. q \in Injection(1 .. n, S)
    <2> SUFFICES ASSUME NEW i \in 1 .. n, NEW j \in 1 .. n, q[i] = q[j] PROVE i = j
        BY <1>4 DEF Injection, IsInjective
    <2>1. q[i] \in Nat /\ q[j] \in Nat /\ i \in DOMAIN q /\ j \in DOMAIN q
        <3>1. q[i] \in S /\ q[j] \in S /\ DOMAIN q = 1 .. n
            BY <1>4
        <3> QED
            BY <1>2, <3>1
    <2>2. ~(q[i] < q[j]) /\ ~(q[j] < q[i])
        BY <2>1
    <2>3. ~(i < j) /\ ~(j < i)
        BY <1>4, <2>1, <2>2
    <2> QED
        BY <1>3, <2>3
<1>6. Cardinality(1 .. n) = n
    BY <1>3, FS_Interval
<1>7. q \in Surjection(1 .. n, S)
    BY <1>1, <1>3, <1>5, <1>6, FS_Injection
<1>8. S = {q[i] : i \in 1 .. n}
    BY <1>4, <1>7 DEF Surjection
<1>9. q \in Seq(Ids)
    <2>1. q \in [1 .. n -> Ids]
        BY <1>2, <1>4
    <2> QED
        BY <1>3, <2>1
<1>10. Enumerates(q, n, S)
    BY <1>4, <1>8, <1>9 DEF Enumerates
<1> QED
    BY <1>0, <1>1, <1>3, <1>10

----------------------------------------------------------------------------
(* Lines of an answer.                                                     *)

SameBounds(c, s, t) ==
    t.info[c].oldest = s.info[c].oldest /\ t.info[c].newest = s.info[c].newest

\* The ids that are higher than all of a store's.
Newer(S, R) == {x \in S : \A y \in R : y < x}

LEMMA ParseLineShows ==
    ASSUME NEW s, Proper(s), NEW c \in Tabs(s), NEW id \in Ids, NEW kind, NEW isOldLog \in BOOLEAN,
           NEW t, t = ParseLine(s, c, id, kind, isOldLog)
    PROVE  SameBounds(c, s, t) /\ t.info[c].topic \in {s.info[c].topic, id}
<1>1. s.info[c] \in Infos /\ c \in DOMAIN s.info
    BY DEF Proper
<1>2. CASE t.info = s.info
    BY <1>2 DEF SameBounds
<1>3. CASE t.info = [s.info EXCEPT ![c] = [@ EXCEPT !.topic = id]]
    <2>1. t.info[c] = [s.info[c] EXCEPT !.topic = id]
        BY <1>1, <1>3
    <2> QED
        BY <1>1, <2>1 DEF SameBounds, Infos
<1> QED
    BY <1>2, <1>3, ParseLineIs

LEMMA DisplayShows ==
    ASSUME NEW s, Proper(s), NEW c \in Tabs(s), Sorted(s.store[c]), NEW id \in Ids,
           NEW t, t = Display(s, c, id)
    PROVE  /\ Sorted(t.store[c]) /\ Range(t.store[c]) = Range(s.store[c]) \cup {id}
           /\ Twice(t.store[c]) = IF id \in Range(s.store[c]) THEN Twice(s.store[c]) + 1
                                  ELSE Twice(s.store[c])
           /\ t.info = s.info
<1>1. t.store[c] = Insert(s.store[c], id) /\ t.info = s.info
    BY DisplayIs
<1>2. s.store[c] \in Seq(Ids)
    BY DEF Proper
<1> QED
    BY <1>1, <1>2, InsertShows

\* What a line of an update, and an old line, change.
LineShown(c, s, id, t) ==
    /\ Sorted(t.store[c]) /\ Twice(t.store[c]) = Twice(s.store[c])
    /\ SameBounds(c, s, t) /\ t.info[c].topic \in {s.info[c].topic, id}
    /\ ~t.thrown => /\ ~s.thrown
                    /\ Range(t.store[c]) = Range(s.store[c]) \cup Newer({id}, Range(s.store[c]))

OldLineShown(c, s, id, first, isOldLog, t) ==
    /\ Sorted(t.store[c]) /\ SameBounds(c, s, t)
    /\ isOldLog => t.info[c].topic = s.info[c].topic
    /\ t.thrown => s.thrown \/ (~isOldLog /\ ~HasCurrent(s))
    /\ s.thrown => t = s
    /\ IF ~t.thrown /\ (first \/ id < s.info[c].oldest)
       THEN /\ Range(t.store[c]) = Range(s.store[c]) \cup {id}
            /\ Twice(t.store[c]) = IF id \in Range(s.store[c]) THEN Twice(s.store[c]) + 1
                                   ELSE Twice(s.store[c])
       ELSE t.store[c] = s.store[c]

LEMMA UpdateLineShows ==
    ASSUME NEW s, Proper(s), NEW c \in Tabs(s), Sorted(s.store[c]), NEW id \in Ids, NEW kind,
           NEW t, t = UpdateLine(s, c, id, kind)
    PROVE  LineShown(c, s, id, t)
<1> USE DEF LineShown
<1>1. PICK p, q : p = ParseLine(s, c, id, kind, FALSE) /\ q = s.store[c]
    OBVIOUS
<1>2. PICK old \in BOOLEAN : ~old /\ p = ParseLine(s, c, id, kind, old)
    BY <1>1
<1>3. Proper(p) /\ p.store = s.store /\ OnlyOf(c, s, p)
    BY <1>2, ParseLineKeeps
<1>4. SameBounds(c, s, p) /\ p.info[c].topic \in {s.info[c].topic, id}
    BY <1>2, ParseLineShows
<1>5. q \in Seq(Ids) /\ Sorted(q) /\ c \in Tabs(p)
    BY <1>1, <1>3 DEF Proper, OnlyOf, Tabs
<1>6. id \in Nat /\ Range(q) \subseteq Nat
    BY <1>5, IdsIs, RangeIs
<1>7. CASE s.thrown /\ t = s
    BY <1>7 DEF SameBounds
<1>8. CASE t = p /\ ~s.thrown /\ p.thrown
    BY <1>3, <1>4, <1>8
<1>9. CASE t = p /\ ~s.thrown /\ q # <<>> /\ Last(q) >= id
    <2>1. Last(q) \in Range(q) /\ Last(q) \in Nat
        BY <1>5, <1>6, <1>9, EndsAre
    <2>2. ~(Last(q) < id)
        BY <1>6, <1>9, <2>1
    <2>3. Newer({id}, Range(q)) = {}
        BY <2>1, <2>2 DEF Newer
    <2> QED
        BY <1>1, <1>3, <1>4, <1>9, <2>3
<1>10. CASE t = Display(p, c, id) /\ ~s.thrown /\ ~(q # <<>> /\ Last(q) >= id)
    <2>1. ASSUME NEW y \in Range(q) PROVE y < id
        <3>1. q # <<>>
            BY <2>1 DEF Range
        <3>2. y <= Last(q) /\ Last(q) \in Nat /\ y \in Nat
            BY <1>5, <1>6, <2>1, <3>1, EndsAre
        <3>3. ~(Last(q) >= id)
            BY <1>10, <3>1
        <3> QED
            BY <1>6, <3>2, <3>3
    <2>2. Newer({id}, Range(q)) = {id} /\ id \notin Range(q)
        <3>1. id \notin Range(q)
            BY <1>6, <2>1
        <3> QED
            BY <2>1, <3>1 DEF Newer
    <2>3. /\ Sorted(t.store[c]) /\ Range(t.store[c]) = Range(q) \cup {id}
          /\ Twice(t.store[c]) = Twice(q) /\ t.info = p.info
        <3>1. Proper(p) /\ c \in Tabs(p) /\ Sorted(p.store[c]) /\ p.store[c] = q
            BY <1>1, <1>3, <1>5
        <3> QED
            BY SMTT(30), <1>10, <2>2, <3>1, DisplayShows
    <2> QED
        BY <1>1, <1>4, <1>10, <2>2, <2>3 DEF SameBounds
<1> QED
    BY <1>1, <1>3, <1>7, <1>8, <1>9, <1>10 DEF UpdateLine

LEMMA OldLineShows ==
    ASSUME NEW s, Proper(s), NEW c \in Tabs(s), Sorted(s.store[c]), NEW id \in Ids, NEW kind,
           NEW first \in BOOLEAN, NEW isOldLog \in BOOLEAN,
           NEW t, t = OldLine(s, c, id, kind, first, isOldLog)
    PROVE  OldLineShown(c, s, id, first, isOldLog, t)
<1> USE DEF OldLineShown
<1>1. PICK p, q : p = ParseLine(s, c, id, kind, isOldLog) /\ q = s.store[c]
    OBVIOUS
<1>2. /\ Proper(p) /\ p.store = s.store /\ OnlyOf(c, s, p)
      /\ p.thrown => s.thrown \/ ~HasCurrent(s)
      /\ isOldLog => p = s
    BY <1>1, ParseLineKeeps
<1>3. SameBounds(c, s, p)
    BY <1>1, ParseLineShows
<1>4. Sorted(q) /\ c \in Tabs(p) /\ s.info[c] \in Infos /\ id \in Int
    <2>1. id \in Nat
        BY IdsIs
    <2> QED
        BY <1>1, <1>2, <2>1 DEF Proper, OnlyOf, Tabs
<1>5. s.info[c].oldest \in Int
    <2> HIDE DEF OldLineShown
    <2>1. s.info[c].oldest \in Ids \cup {Nil}
        BY <1>4 DEF Infos
    <2>2. Ids \cup {Nil} \subseteq Int
        BY IdsIs DEF Nil
    <2> QED
        BY <2>1, <2>2
<1>6. CASE s.thrown /\ t = s
    BY <1>6 DEF SameBounds
<1>7. CASE ~s.thrown /\ t = p /\ (p.thrown \/ (~first /\ id >= s.info[c].oldest))
    <2>1. ~(~t.thrown /\ (first \/ id < s.info[c].oldest))
        BY <1>4, <1>5, <1>7
    <2> QED
        BY <1>1, <1>2, <1>3, <1>7, <2>1
<1>8. CASE ~s.thrown /\ t = Display(p, c, id) /\ ~p.thrown /\ ~(~first /\ id >= s.info[c].oldest)
    <2>1. first \/ id < s.info[c].oldest
        BY <1>4, <1>5, <1>8
    <2>2. /\ Sorted(t.store[c]) /\ Range(t.store[c]) = Range(q) \cup {id}
          /\ Twice(t.store[c]) = IF id \in Range(q) THEN Twice(q) + 1 ELSE Twice(q)
          /\ t.info = p.info
        BY <1>1, <1>2, <1>4, <1>8, DisplayShows
    <2>3. t.thrown = p.thrown
        BY <1>2, <1>4, <1>8, DisplayIs
    <2> QED
        BY <1>1, <1>2, <1>3, <1>8, <2>1, <2>2, <2>3 DEF SameBounds
<1> QED
    BY <1>1, <1>6, <1>7, <1>8 DEF OldLine

LEMMA OneMore == \A i \in Nat \ {0} : 1 .. i = (1 .. i - 1) \cup {i}
OBVIOUS

\* All lines of a channel in an update: those above the store are shown, each once.
LEMMA UpdatesShow ==
    ASSUME NEW s, Proper(s), NEW ch \in Entries, NEW c, c = ch.name, c \in Tabs(s),
           Sorted(s.store[c]),
           NEW t, t = Updates!Fold(ch, s, InOrder(DOMAIN ch.log))
    PROVE  /\ Sorted(t.store[c]) /\ Twice(t.store[c]) = Twice(s.store[c])
           /\ SameBounds(c, s, t) /\ t.info[c].topic \in {s.info[c].topic} \cup DOMAIN ch.log
           /\ ~t.thrown => Range(t.store[c]) =
                               Range(s.store[c]) \cup Newer(DOMAIN ch.log, Range(s.store[c]))
<1>1. PICK q, R : q = InOrder(DOMAIN ch.log) /\ R = Range(s.store[c])
    OBVIOUS
<1>2. ch.log \in Logs
    BY DEF Entries
<1>0. PICK N \in Nat : Enumerates(q, N, DOMAIN ch.log)
    BY <1>1, <1>2, InOrderAll
<1>3. /\ q \in Seq(Ids) /\ DOMAIN q = 1 .. N
      /\ DOMAIN ch.log = {q[i] : i \in 1 .. N}
      /\ \A i, j \in 1 .. N : i < j => q[i] < q[j]
    BY <1>0 DEF Enumerates
<1>10. DOMAIN q = 1 .. N
    BY <1>3
<1>r. PICK f : Updates!Runs(f, ch, s, q, N) /\ t = f[N]
    BY <1>1, <1>10, Updates!FoldRuns
<1>4. /\ f[0] = s /\ t = f[N]
      /\ \A i \in 1 .. N : f[i] = UpdatedBy(ch, f[i - 1], q[i])
    BY <1>r DEF Updates!Runs
<1> DEFINE So(i) == {q[j] : j \in 1 .. i}
           G == {i \in 0 .. N :
                    /\ Proper(f[i]) /\ OnlyOf(c, s, f[i])
                    /\ Sorted(f[i].store[c]) /\ Twice(f[i].store[c]) = Twice(s.store[c])
                    /\ SameBounds(c, s, f[i])
                    /\ f[i].info[c].topic \in {s.info[c].topic} \cup So(i)
                    /\ ~f[i].thrown => Range(f[i].store[c]) = R \cup Newer(So(i), R)}
<1>5. 0 \in G
    <2>1. So(0) = {}
        OBVIOUS
    <2>2. Newer({}, R) = {}
        BY SMTT(30) DEF Newer
    <2> HIDE DEF So
    <2> QED
        BY <1>1, <1>4, <2>1, <2>2 DEF OnlyOf, SameBounds
<1>6. ASSUME NEW i \in 1 .. N, i - 1 \in G PROVE i \in G
    <2>1. PICK u, v, id, T : u = f[i - 1] /\ v = f[i] /\ id = q[i] /\ T = So(i - 1)
        OBVIOUS
    <2>2. /\ Proper(u) /\ OnlyOf(c, s, u)
          /\ Sorted(u.store[c]) /\ Twice(u.store[c]) = Twice(s.store[c])
          /\ SameBounds(c, s, u)
          /\ u.info[c].topic \in {s.info[c].topic} \cup T
          /\ ~u.thrown => Range(u.store[c]) = R \cup Newer(T, R)
        BY <1>6, <2>1
    <2>3. v = UpdateLine(u, c, id, ch.log[id]) /\ id \in Ids
        BY <1>3, <1>4, <2>1 DEF UpdatedBy
    <2>4. c \in Tabs(u)
        BY <2>2 DEF OnlyOf, Tabs
    <2>5. /\ Sorted(v.store[c]) /\ Twice(v.store[c]) = Twice(u.store[c])
          /\ SameBounds(c, u, v) /\ v.info[c].topic \in {u.info[c].topic, id}
          /\ ~v.thrown => /\ ~u.thrown
                          /\ Range(v.store[c]) = Range(u.store[c]) \cup Newer({id}, Range(u.store[c]))
        <3>1. LineShown(c, u, id, v)
            BY <2>2, <2>3, <2>4, UpdateLineShows
        <3> QED
            BY <3>1 DEF LineShown
    <2>6. Proper(v) /\ OnlyOf(c, s, v)
        <3>1. Proper(v) /\ OnlyOf(c, u, v)
            BY <2>2, <2>3, <2>4, UpdateLineIs
        <3> QED
            BY <2>2, <3>1, OnlyOfTransitive
    <2>7. So(i) = T \cup {id}
        <3>1. i \in Nat \ {0}
            OBVIOUS
        <3>2. 1 .. i = (1 .. i - 1) \cup {i}
            BY Zenon, <3>1, OneMore
        <3> QED
            BY <2>1, <3>2
    <2>8. Newer({id}, R \cup Newer(T, R)) = Newer({id}, R)
        <3>1. ASSUME NEW y \in T PROVE y < id
            <4>1. PICK j \in 1 .. i - 1 : y = q[j]
                BY <2>1
            <4>2. j \in 1 .. N /\ j < i
                OBVIOUS
            <4> QED
                BY <1>3, <2>1, <4>1, <4>2
        <3> QED
            BY <3>1 DEF Newer
    <2>9. Newer(T \cup {id}, R) = Newer(T, R) \cup Newer({id}, R)
        BY DEF Newer
    <2>10. ~v.thrown => Range(v.store[c]) = R \cup Newer(T \cup {id}, R)
        BY <2>2, <2>5, <2>8, <2>9
    <2>11. SameBounds(c, s, v)
        BY <2>2, <2>5 DEF SameBounds
    <2>12. v.info[c].topic \in {s.info[c].topic} \cup (T \cup {id})
        BY <2>2, <2>5
    <2>13. Sorted(v.store[c]) /\ Twice(v.store[c]) = Twice(s.store[c])
        BY <2>2, <2>5
    <2> HIDE DEF So
    <2>14. /\ v.info[c].topic \in {s.info[c].topic} \cup So(i)
           /\ ~v.thrown => Range(v.store[c]) = R \cup Newer(So(i), R)
        BY <2>7, <2>10, <2>12
    <2>15. i \in 0 .. N
        OBVIOUS
    <2> QED
        BY <2>1, <2>6, <2>11, <2>13, <2>14, <2>15
<1>7. N \in G
    <2> HIDE DEF G
    <2>1. \A i \in 1 .. N : i - 1 \in G => i \in G
        BY <1>6
    <2>2. \A i \in 0 .. N : i \in G
        BY <1>5, <2>1, Updates!Induction
    <2> QED
        BY <2>2
<1>8. So(N) = DOMAIN ch.log
    BY ZenonT(30), <1>3
<1> QED
    <2> HIDE DEF So
    <2> QED
        BY <1>1, <1>4, <1>7, <1>8

\* Old lines: the first one is shown, and those below what the page had.
OldsShown(c, s, a, t) ==
    /\ ~t.thrown
    /\ Sorted(t.store[c]) /\ Twice(t.store[c]) <= Twice(s.store[c]) + 1
    /\ SameBounds(c, s, t) /\ (a.isOldLog => t.info[c].topic = s.info[c].topic)
    /\ Range(t.store[c]) =
           Range(s.store[c]) \cup {x \in DOMAIN a.ch.log :
               x < s.info[c].oldest \/ \A y \in DOMAIN a.ch.log : x <= y}

LEMMA OldsShow ==
    ASSUME NEW s, Proper(s), NEW a, NEW c, c = a.ch.name, c \in Tabs(s), a.ch.log \in Logs,
           a.ids = InOrder(DOMAIN a.ch.log), a.isOldLog \in BOOLEAN, Sorted(s.store[c]),
           \A y \in Range(s.store[c]) : s.info[c].oldest <= y,
           ~s.thrown, a.isOldLog \/ HasCurrent(s),
           NEW t, t = Olds!Fold(a, s, a.ids)
    PROVE  OldsShown(c, s, a, t)
<1>1. PICK q, R, o : q = a.ids /\ R = Range(s.store[c]) /\ o = s.info[c].oldest
    OBVIOUS
<1>0. PICK N \in Nat : Enumerates(q, N, DOMAIN a.ch.log)
    BY <1>1, InOrderAll
<1>2. /\ q \in Seq(Ids) /\ DOMAIN q = 1 .. N
      /\ DOMAIN a.ch.log = {q[i] : i \in 1 .. N}
      /\ \A i, j \in 1 .. N : i < j => q[i] < q[j]
    BY <1>0 DEF Enumerates
<1>12. DOMAIN q = 1 .. N
    BY <1>2
<1>r. PICK f : Olds!Runs(f, a, s, q, N) /\ t = f[N]
    BY <1>1, <1>12, Olds!FoldRuns
<1>3. /\ f[0] = s /\ t = f[N]
      /\ \A i \in 1 .. N : f[i] = OldBy(a, f[i - 1], q[i])
    BY <1>r DEF Olds!Runs
<1>4. N # 0 => Head(q) = q[1]
    BY <1>2
<1>5. /\ \A i \in 1 .. N : q[i] \in Ids /\ q[i] \in Nat
      /\ Twice(s.store[c]) \in Int /\ o \in Int
    <2>1. \A i \in 1 .. N : q[i] \in Ids
        BY <1>2
    <2>2. s.store[c] \in Seq(Ids) /\ s.info[c] \in Infos
        BY DEF Proper
    <2>3. Len(s.store[c]) \in Nat /\ Cardinality(Range(s.store[c])) \in Nat
        BY <2>2, RangeIs
    <2>4. Twice(s.store[c]) \in Int
        BY <2>3 DEF Twice
    <2>5. o \in Ids \cup {Nil}
        BY <1>1, <2>2 DEF Infos
    <2>6. Ids \subseteq Nat
        BY IdsIs
    <2>7. o \in Int
        BY <2>5, <2>6 DEF Nil
    <2>8. \A i \in 1 .. N : q[i] \in Nat
        BY <2>1, <2>6
    <2> QED
        BY <2>1, <2>4, <2>7, <2>8
<1> DEFINE Shows(i) == {q[j] : j \in {k \in 1 .. i : k = 1 \/ q[k] < o}}
           G == {i \in 0 .. N :
                    /\ Proper(f[i]) /\ OnlyOf(c, s, f[i]) /\ ~f[i].thrown
                    /\ Sorted(f[i].store[c])
                    /\ Twice(f[i].store[c]) <= Twice(s.store[c]) + (IF i = 0 THEN 0 ELSE 1)
                    /\ SameBounds(c, s, f[i])
                    /\ a.isOldLog => f[i].info[c].topic = s.info[c].topic
                    /\ Range(f[i].store[c]) = R \cup Shows(i)}
<1>6. 0 \in G
    <2>1. Shows(0) = {}
        OBVIOUS
    <2> HIDE DEF Shows
    <2> QED
        BY <1>1, <1>3, <1>5, <2>1 DEF OnlyOf, SameBounds
<1>7. ASSUME NEW i \in 1 .. N, i - 1 \in G PROVE i \in G
    <2>1. PICK u, v, id : u = f[i - 1] /\ v = f[i] /\ id = q[i]
        OBVIOUS
    <2>2. PICK first \in BOOLEAN : first = (id = Head(q))
        OBVIOUS
    <2>3. v = OldLine(u, c, id, a.ch.log[id], first, a.isOldLog) /\ id \in Ids
        <3>1. v = OldLine(u, a.ch.name, id, a.ch.log[id], id = Head(a.ids), a.isOldLog)
            BY <1>3, <2>1 DEF OldBy
        <3>2. v = OldLine(u, c, id, a.ch.log[id], id = Head(q), a.isOldLog)
            BY <1>1, <3>1
        <3> QED
            BY <1>5, <2>1, <2>2, <3>2
    <2>4. first <=> i = 1
        <3>1. N # 0
            OBVIOUS
        <3>5. first <=> q[i] = q[1]
            BY <1>4, <2>1, <2>2, <3>1
        <3>2. i # 1 => q[1] < q[i]
            BY <1>2
        <3>3. q[1] \in Nat /\ q[i] \in Nat
            BY <1>5
        <3>4. ~(q[i] < q[i])
            BY <3>3
        <3> QED
            BY <3>2, <3>4, <3>5
    <2>7. /\ Proper(u) /\ OnlyOf(c, s, u) /\ ~u.thrown
          /\ Sorted(u.store[c])
          /\ Twice(u.store[c]) <= Twice(s.store[c]) + (IF i = 1 THEN 0 ELSE 1)
          /\ SameBounds(c, s, u)
          /\ a.isOldLog => u.info[c].topic = s.info[c].topic
          /\ Range(u.store[c]) = R \cup Shows(i - 1)
        BY <1>7, <2>1
    <2> HIDE DEF G
    <2>8. c \in Tabs(u)
        BY <2>7 DEF OnlyOf, Tabs
    <2>9. /\ ~v.thrown
          /\ Sorted(v.store[c]) /\ SameBounds(c, u, v)
          /\ a.isOldLog => v.info[c].topic = u.info[c].topic
          /\ IF first \/ id < u.info[c].oldest
             THEN /\ Range(v.store[c]) = Range(u.store[c]) \cup {id}
                  /\ Twice(v.store[c]) = IF id \in Range(u.store[c]) THEN Twice(u.store[c]) + 1
                                         ELSE Twice(u.store[c])
             ELSE v.store[c] = u.store[c]
        <3>1. OldLineShown(c, u, id, first, a.isOldLog, v)
            BY <2>3, <2>7, <2>8, OldLineShows
        <3>2. a.isOldLog \/ HasCurrent(u)
            BY <2>7 DEF OnlyOf, HasCurrent, Tabs
        <3>3. ~v.thrown
            BY <2>7, <3>1, <3>2 DEF OldLineShown
        <3> QED
            BY <3>1, <3>3 DEF OldLineShown
    <2>10. Proper(v) /\ OnlyOf(c, s, v)
        <3>1. Proper(v) /\ OnlyOf(c, u, v)
            <4>1. first \in BOOLEAN /\ a.isOldLog \in BOOLEAN
                OBVIOUS
            <4> QED
                BY ONLY <2>3, <2>7, <2>8, <4>1, OldLineIs
        <3> QED
            BY <2>7, <3>1, OnlyOfTransitive
    <2>11. u.info[c].oldest = o /\ SameBounds(c, s, v)
        BY Zenon, <1>1, <2>7, <2>9 DEF SameBounds
    <2>12. Shows(i) = Shows(i - 1) \cup (IF i = 1 \/ q[i] < o THEN {q[i]} ELSE {})
        <3>1. i \in Nat \ {0}
            OBVIOUS
        <3>2. 1 .. i = (1 .. i - 1) \cup {i}
            BY Zenon, <3>1, OneMore
        <3> QED
            BY <3>2
    <2>13. Range(v.store[c]) = R \cup Shows(i)
        <3> HIDE DEF Shows
        <3> QED
            BY <2>1, <2>4, <2>7, <2>9, <2>11, <2>12
    <2>14. i # 1 /\ q[i] < o => id \notin Range(u.store[c])
        <3> SUFFICES ASSUME i # 1, q[i] < o, q[i] \in R \cup Shows(i - 1) PROVE FALSE
            BY <2>1, <2>7
        <3>1. CASE q[i] \in R
            <4>1. o <= q[i]
                BY <1>1, <3>1
            <4> QED
                BY <1>5, <4>1
        <3>2. CASE q[i] \in Shows(i - 1)
            <4>1. PICK j \in 1 .. i - 1 : q[i] = q[j]
                BY <3>2
            <4>2. q[j] < q[i] /\ q[i] \in Nat
                BY <1>2, <1>5
            <4> QED
                BY <4>1, <4>2
        <3> QED
            BY <3>1, <3>2
    <2>15. Twice(v.store[c]) <= Twice(s.store[c]) + 1
        <3>1. PICK m, n, k : m = Twice(s.store[c]) /\ n = Twice(u.store[c]) /\ k = Twice(v.store[c])
            OBVIOUS
        <3>2. m \in Int /\ n \in Int
            <4>1. u.store[c] \in Seq(Ids)
                BY <2>7, <2>8 DEF Proper
            <4>2. Len(u.store[c]) \in Nat /\ Cardinality(Range(u.store[c])) \in Nat
                BY <4>1, RangeIs
            <4>3. Twice(u.store[c]) \in Int
                BY <4>2 DEF Twice
            <4> QED
                BY <1>5, <3>1, <4>3
        <3>3. (i = 1 => n <= m + 0) /\ (i # 1 => n <= m + 1)
            BY <2>7, <3>1
        <3>4. CASE i = 1
            <4>1. k = n + 1 \/ k = n
                BY <2>4, <2>9, <3>1, <3>4
            <4>2. n <= m + 0
                BY <3>3, <3>4
            <4>3. k <= m + 1
                BY ONLY <3>2, <4>1, <4>2
            <4> QED
                BY <3>1, <4>3
        <3>5. CASE i # 1
            <4>1. k = n
                BY <2>1, <2>4, <2>9, <2>11, <2>14, <3>1, <3>5
            <4>2. k <= m + 1
                BY <3>3, <3>5, <4>1
            <4> QED
                BY <3>1, <4>2
        <3> QED
            BY <3>4, <3>5
    <2>16. a.isOldLog => v.info[c].topic = s.info[c].topic
        BY Zenon, <2>7, <2>9
    <2> HIDE DEF Shows
    <2>17. /\ Proper(f[i]) /\ OnlyOf(c, s, f[i]) /\ ~f[i].thrown
           /\ Sorted(f[i].store[c]) /\ SameBounds(c, s, f[i])
           /\ Twice(f[i].store[c]) <= Twice(s.store[c]) + 1
           /\ a.isOldLog => f[i].info[c].topic = s.info[c].topic
           /\ Range(f[i].store[c]) = R \cup Shows(i)
        BY <2>1, <2>9, <2>10, <2>11, <2>13, <2>15, <2>16
    <2> QED
        BY <2>17 DEF G
<1>8. N \in G
    <2> HIDE DEF G
    <2>1. \A i \in 1 .. N : i - 1 \in G => i \in G
        BY <1>7
    <2>2. \A i \in 0 .. N : i \in G
        BY <1>6, <2>1, Olds!Induction
    <2> QED
        BY <2>2
<1>9. Shows(N) = {x \in DOMAIN a.ch.log : x < o \/ \A y \in DOMAIN a.ch.log : x <= y}
    <2>1. ASSUME NEW k \in 1 .. N PROVE k = 1 <=> \A j \in 1 .. N : q[k] <= q[j]
        <3>1. ASSUME k = 1, NEW j \in 1 .. N PROVE q[k] <= q[j]
            <4>1. q[k] \in Nat /\ q[j] \in Nat
                BY <1>5
            <4>2. j = k \/ q[k] < q[j]
                BY <1>2, <3>1
            <4> QED
                BY <4>1, <4>2
        <3>2. ASSUME k # 1, q[k] <= q[1] PROVE FALSE
            <4>1. 1 \in 1 .. N /\ q[1] \in Nat /\ q[k] \in Nat
                BY <1>5
            <4>2. q[1] < q[k]
                BY <1>2, <3>2, <4>1
            <4> QED
                BY <3>2, <4>1, <4>2
        <3> QED
            BY <3>1, <3>2
    <2> QED
        BY <1>2, <2>1
<1>10. /\ ~t.thrown
       /\ Sorted(t.store[c]) /\ SameBounds(c, s, t)
       /\ a.isOldLog => t.info[c].topic = s.info[c].topic
       /\ Range(t.store[c]) = R \cup Shows(N)
       /\ Twice(t.store[c]) <= Twice(s.store[c]) + (IF N = 0 THEN 0 ELSE 1)
    <2> HIDE DEF Shows
    <2> QED
        BY <1>3, <1>8
<1>11. Twice(t.store[c]) <= Twice(s.store[c]) + 1
    <2>1. CASE N # 0
        BY <1>10, <2>1
    <2>2. CASE N = 0
        <3>1. t = s
            BY <1>3, <2>2
        <3> QED
            BY <1>5, <3>1
    <2> QED
        BY <2>1, <2>2
<1> QED
    <2> HIDE DEF Shows
    <2> QED
        BY <1>1, <1>9, <1>10, <1>11 DEF OldsShown

----------------------------------------------------------------------------
(* Channels of an answer.                                                  *)

\* The bounds that a page has noted for a channel are those of its store.
Noted(s, c) ==
    IF s.store[c] = <<>> THEN s.info[c].oldest = Nil /\ s.info[c].newest = Nil
    ELSE s.info[c].oldest = Head(s.store[c]) /\ s.info[c].newest = Last(s.store[c])

\* The stores are in order, and as long as nothing is thrown their bounds known.
InPlace(s) == \A c \in Tabs(s) : Sorted(s.store[c]) /\ (~s.thrown => Noted(s, c))

SameIn(s, t, c) ==
    /\ c \in Tabs(s) <=> c \in Tabs(t)
    /\ c \in Tabs(s) => t.info[c] = s.info[c] /\ t.store[c] = s.store[c]

SameTwice(s, t) == \A c \in Tabs(s) \cap Tabs(t) : Twice(t.store[c]) = Twice(s.store[c])

\* The lines that are shown of a channel.
Had(s, c) == IF c \in Tabs(s) THEN Range(s.store[c]) ELSE {}

TopicOf(s, ch) == IF ch.name \in Tabs(s) THEN s.info[ch.name].topic ELSE ch.topic

\* t shows what s does of a channel and the lines above.
Applied(s, ch, t) ==
    /\ ch.name \in Tabs(t)
    /\ Had(t, ch.name) = Had(s, ch.name) \cup Newer(DOMAIN ch.log, Had(s, ch.name))
    /\ t.info[ch.name].topic \in {TopicOf(s, ch)} \cup DOMAIN ch.log

LEMMA AddChannelShows ==
    ASSUME NEW s, Proper(s), NEW ch \in Entries, ch.name \notin Tabs(s), InPlace(s), ~s.thrown,
           NEW t, t = AddChannel(s, ch)
    PROVE  /\ Proper(t) /\ InPlace(t) /\ ~t.thrown
           /\ \A d \in Chan \ {ch.name} : SameIn(s, t, d)
           /\ SameTwice(s, t)
           /\ ch.name \in Tabs(t) /\ Had(t, ch.name) = {} /\ t.info[ch.name].topic = ch.topic
<1>1. /\ Proper(t) /\ Tabs(t) = Tabs(s) \cup {ch.name} /\ ~t.thrown
      /\ t.info = Put(s.info, ch.name, [topic |-> ch.topic, oldest |-> Nil, newest |-> Nil])
      /\ t.store = Put(s.store, ch.name, <<>>)
    <2>1. Proper(t) /\ Tabs(t) = Tabs(s) \cup {ch.name} /\ t.thrown = s.thrown
        BY ZenonT(60), AddChannelIs
    <2>2. /\ t.info = Put(s.info, ch.name, [topic |-> ch.topic, oldest |-> Nil, newest |-> Nil])
          /\ t.store = Put(s.store, ch.name, <<>>)
        BY DEF AddChannel, AddTab, Proper
    <2> QED
        BY <2>1, <2>2
<1>2. DOMAIN s.info = Tabs(s) /\ DOMAIN s.store = Tabs(s)
    BY DEF Proper
<1>3. \A d \in Tabs(s) : d # ch.name /\ t.info[d] = s.info[d] /\ t.store[d] = s.store[d]
    BY <1>1, <1>2 DEF Put
<1>4. /\ t.info[ch.name] = [topic |-> ch.topic, oldest |-> Nil, newest |-> Nil]
      /\ t.store[ch.name] = <<>>
    BY <1>1, <1>2 DEF Put
<1>5. Sorted(<<>>) /\ Range(<<>>) = {}
    BY DEF Sorted, Range
<1>6. InPlace(t)
    <2>1. ASSUME NEW d \in Tabs(t), d = ch.name PROVE Sorted(t.store[d]) /\ Noted(t, d)
        BY <1>4, <1>5, <2>1 DEF Noted
    <2>2. ASSUME NEW d \in Tabs(t), d # ch.name PROVE Sorted(t.store[d]) /\ Noted(t, d)
        BY <1>1, <1>3, <2>2 DEF InPlace, Noted
    <2> QED
        BY <2>1, <2>2 DEF InPlace
<1> QED
    BY <1>1, <1>3, <1>4, <1>5, <1>6 DEF SameIn, SameTwice, Had

LEMMA NoUpdates ==
    ASSUME NEW s, NEW ch \in Entries, ch.log = <<>>
    PROVE  Updates!Fold(ch, s, InOrder(DOMAIN ch.log)) = s
<1>1. ch.log \in Logs /\ DOMAIN ch.log = {}
    BY DEF Entries
<1>2. PICK q : q = InOrder(DOMAIN ch.log)
    OBVIOUS
<1>3. PICK N \in Nat : Enumerates(q, N, DOMAIN ch.log)
    BY <1>1, <1>2, InOrderAll
<1>4. DOMAIN q = 1 .. N /\ {q[i] : i \in 1 .. N} = {}
    BY <1>1, <1>3 DEF Enumerates
<1>5. N = 0
    <2>1. N # 0 => 1 \in 1 .. N
        OBVIOUS
    <2>2. N # 0 => q[1] \in {q[i] : i \in 1 .. N}
        BY <2>1
    <2> QED
        BY <1>4, <2>2
<1>6. DOMAIN q = 1 .. N
    BY <1>4
<1>r. PICK f : Updates!Runs(f, ch, s, q, N) /\ Updates!Fold(ch, s, q) = f[N]
    BY <1>6, Updates!FoldRuns
<1>7. f[0] = s /\ Updates!Fold(ch, s, q) = f[N]
    BY <1>r DEF Updates!Runs
<1> QED
    BY <1>2, <1>5, <1>7

LEMMA NoteBoundsNotes ==
    ASSUME NEW s, Proper(s), NEW c \in Tabs(s), NEW lines, NEW t, t = NoteBounds(s, c, lines)
    PROVE  /\ t.info[c].topic = s.info[c].topic
           /\ ~s.thrown /\ lines # <<>> => /\ t.info[c].oldest = Head(s.store[c])
                                           /\ t.info[c].newest = Last(s.store[c])
           /\ s.thrown \/ lines = <<>> => t = s
<1>1. c \in DOMAIN s.info /\ s.info[c] \in Infos
    BY DEF Proper
<1>2. CASE s.thrown \/ lines = <<>>
    BY <1>2 DEF NoteBounds
<1>3. CASE ~(s.thrown \/ lines = <<>>)
    <2>1. PICK h, l : h = Head(s.store[c]) /\ l = Last(s.store[c])
        OBVIOUS
    <2>2. t = [s EXCEPT !.info[c].oldest = h, !.info[c].newest = l]
        BY <1>3, <2>1 DEF NoteBounds
    <2>3. t.info = [s.info EXCEPT ![c] = [@ EXCEPT !.oldest = h, !.newest = l]]
        BY ZenonT(60), <2>2 DEF Proper
    <2>4. t.info[c] = [s.info[c] EXCEPT !.oldest = h, !.newest = l]
        BY <1>1, <2>3
    <2> QED
        BY <1>1, <1>3, <2>1, <2>4 DEF Infos
<1> QED
    BY <1>2, <1>3

\* Lines are added to a channel that the page shows, and its bounds noted.
LEMMA LinesShow ==
    ASSUME NEW s, Proper(s), NEW ch \in Entries, NEW c, c = ch.name, c \in Tabs(s),
           InPlace(s), ~s.thrown,
           NEW v, v = Updates!Fold(ch, s, InOrder(DOMAIN ch.log)),
           NEW t, t = NoteBounds(v, c, ch.log)
    PROVE  /\ Proper(t) /\ OnlyOf(c, s, t) /\ InPlace(t) /\ SameTwice(s, t)
           /\ t.info[c].topic \in {s.info[c].topic} \cup DOMAIN ch.log
           /\ t.thrown \/ Range(t.store[c]) =
                               Range(s.store[c]) \cup Newer(DOMAIN ch.log, Range(s.store[c]))
<1>1. /\ Proper(v) /\ OnlyOf(c, s, v)
      /\ ~v.thrown /\ ch.log # <<>> => v.store[c] # <<>>
    BY UpdatesAre
<1>2. Sorted(s.store[c]) /\ Noted(s, c)
    BY DEF InPlace
<1>3. /\ Sorted(v.store[c]) /\ Twice(v.store[c]) = Twice(s.store[c])
      /\ SameBounds(c, s, v) /\ v.info[c].topic \in {s.info[c].topic} \cup DOMAIN ch.log
      /\ ~v.thrown => Range(v.store[c]) =
                          Range(s.store[c]) \cup Newer(DOMAIN ch.log, Range(s.store[c]))
    BY <1>2, UpdatesShow
<1>4. c \in Tabs(v) /\ Tabs(v) = Tabs(s)
    BY <1>1 DEF OnlyOf, Tabs
<1>5. Proper(t) /\ OnlyOf(c, v, t) /\ t.store = v.store /\ t.thrown = v.thrown
    BY <1>1, <1>4, NoteBoundsKeeps
<1>6. OnlyOf(c, s, t) /\ Tabs(t) = Tabs(s)
    <2>1. OnlyOf(c, s, t)
        BY <1>1, <1>5, OnlyOfTransitive
    <2> QED
        BY <2>1 DEF OnlyOf, Tabs
<1>7. /\ t.info[c].topic = v.info[c].topic
      /\ ~v.thrown /\ ch.log # <<>> => /\ t.info[c].oldest = Head(v.store[c])
                                       /\ t.info[c].newest = Last(v.store[c])
      /\ v.thrown \/ ch.log = <<>> => t = v
    BY <1>1, <1>4, NoteBoundsNotes
<1>8. ~t.thrown => Noted(t, c)
    <2>1. CASE v.thrown
        BY <1>5, <2>1
    <2>2. CASE ch.log = <<>>
        <3>1. v = s
            BY <2>2, NoUpdates
        <3>2. t = v
            BY <1>7, <2>2
        <3> QED
            BY <1>2, <3>1, <3>2
    <2>3. CASE ~v.thrown /\ ch.log # <<>>
        <3>4. t.info[c].oldest = Head(v.store[c]) /\ t.info[c].newest = Last(v.store[c])
            BY <1>7, <2>3
        <3>5. t.store[c] = v.store[c] /\ v.store[c] # <<>>
            BY <1>1, <1>5, <2>3
        <3> QED
            BY <3>4, <3>5 DEF Noted
    <2> QED
        BY <2>1, <2>2, <2>3
<1>9. ASSUME NEW d \in Tabs(t) PROVE Sorted(t.store[d]) /\ (~t.thrown => Noted(t, d))
    <2>1. CASE d = c
        BY <1>3, <1>5, <1>8, <2>1
    <2>2. CASE d # c
        <3>1. t.info[d] = s.info[d] /\ t.store[d] = s.store[d] /\ d \in Tabs(s)
            BY <1>6, <2>2 DEF OnlyOf
        <3> QED
            BY <3>1 DEF InPlace, Noted
    <2> QED
        BY <2>1, <2>2
<1>10. SameTwice(s, t)
    BY <1>3, <1>5, <1>6 DEF SameTwice, OnlyOf
<1>11. InPlace(t)
    BY <1>9 DEF InPlace
<1> QED
    BY <1>3, <1>5, <1>6, <1>7, <1>10, <1>11

LEMMA ApplyChannelShows ==
    ASSUME NEW s, Proper(s), NEW ch \in Entries, InPlace(s), ~s.thrown,
           NEW t, t = ApplyChannel(s, ch)
    PROVE  /\ InPlace(t) /\ SameTwice(s, t)
           /\ \A d \in Chan \ {ch.name} : SameIn(s, t, d)
           /\ ~t.thrown => Applied(s, ch, t)
<1>1. PICK u : u = IF ch.name \in Tabs(s) THEN s ELSE AddChannel(s, ch)
    OBVIOUS
<1>2. PICK v : v = Updates!Fold(ch, u, InOrder(DOMAIN ch.log))
    OBVIOUS
<1>3. t = NoteBounds(v, ch.name, ch.log)
    BY <1>1, <1>2
    DEF ApplyChannel, Updates!Fold, UpdatedBy, FoldLeft, Updates!FoldLeft, MapThenFoldSet,
        Updates!MapThenFoldSet, Max, Updates!Max
<1>4. PICK c \in Chan : c = ch.name
    BY DEF Entries
<1>5. /\ Proper(u) /\ InPlace(u) /\ ~u.thrown /\ SameTwice(s, u)
      /\ \A d \in Chan \ {c} : SameIn(s, u, d)
      /\ c \in Tabs(u) /\ Had(u, c) = Had(s, c) /\ u.info[c].topic = TopicOf(s, ch)
    <2>1. CASE c \in Tabs(s)
        BY <1>1, <1>4, <2>1 DEF SameIn, SameTwice, TopicOf
    <2>2. CASE c \notin Tabs(s)
        <3>1. u = AddChannel(s, ch)
            BY <1>1, <1>4, <2>2
        <3>2. /\ Proper(u) /\ InPlace(u) /\ ~u.thrown
              /\ \A d \in Chan \ {ch.name} : SameIn(s, u, d)
              /\ SameTwice(s, u)
              /\ ch.name \in Tabs(u) /\ Had(u, ch.name) = {} /\ u.info[ch.name].topic = ch.topic
            BY <1>4, <2>2, <3>1, AddChannelShows
        <3>3. Had(s, c) = {} /\ TopicOf(s, ch) = ch.topic
            BY <1>4, <2>2 DEF Had, TopicOf
        <3> QED
            BY <1>4, <3>2, <3>3
    <2> QED
        BY <2>1, <2>2
<1>6. /\ Proper(t) /\ OnlyOf(c, u, t) /\ InPlace(t) /\ SameTwice(u, t)
      /\ t.info[c].topic \in {u.info[c].topic} \cup DOMAIN ch.log
      /\ t.thrown \/ Range(t.store[c]) =
                          Range(u.store[c]) \cup Newer(DOMAIN ch.log, Range(u.store[c]))
    <2>1. t = NoteBounds(v, c, ch.log)
        BY <1>3, <1>4
    <2> QED
        BY SMTT(30), <1>2, <1>4, <1>5, <2>1, LinesShow
<1>7. Tabs(t) = Tabs(u)
    BY <1>6 DEF OnlyOf, Tabs
<1>8. ASSUME NEW d \in Chan \ {c} PROVE SameIn(s, t, d)
    <2>1. SameIn(s, u, d) /\ SameIn(u, t, d)
        BY <1>5, <1>6, <1>7 DEF SameIn, OnlyOf
    <2> QED
        BY <2>1 DEF SameIn
<1>9. SameTwice(s, t)
    <2>1. ASSUME NEW d \in Tabs(s) \cap Tabs(t) PROVE Twice(t.store[d]) = Twice(s.store[d])
        BY <1>5, <1>6, <1>7, <2>1 DEF SameTwice
    <2> QED
        BY <2>1 DEF SameTwice
<1>10. ASSUME ~t.thrown PROVE Applied(s, ch, t)
    <2>1. Had(t, c) = Range(t.store[c]) /\ Had(u, c) = Range(u.store[c])
        BY <1>5, <1>7 DEF Had
    <2>2. Had(t, c) = Had(s, c) \cup Newer(DOMAIN ch.log, Had(s, c))
        BY <1>5, <1>6, <1>10, <2>1
    <2> QED
        BY <1>4, <1>5, <1>6, <1>7, <1>10, <2>2 DEF Applied
<1> QED
    BY <1>4, <1>6, <1>8, <1>9, <1>10

----------------------------------------------------------------------------
(* An answer, channel by channel.                                          *)

\* No channel is named twice.
Apart(channels) ==
    \A i, j \in DOMAIN channels : channels[i].name = channels[j].name => i = j

\* t shows what s does and the lines of the first n channels.
Updated(s, channels, n, t) ==
    /\ \A j \in 1 .. n : Applied(s, channels[j], t)
    /\ \A d \in Chan : (\A j \in 1 .. n : channels[j].name # d) => SameIn(s, t, d)

LEMMA AppliedStays ==
    ASSUME NEW s, NEW t, NEW v, NEW ch, Applied(s, ch, t), SameIn(t, v, ch.name)
    PROVE  Applied(s, ch, v)
BY DEF Applied, SameIn, Had

LEMMA AppliedFrom ==
    ASSUME NEW s, NEW t, NEW v, NEW ch, Applied(t, ch, v), SameIn(s, t, ch.name)
    PROVE  Applied(s, ch, v)
BY DEF Applied, SameIn, Had, TopicOf

LEMMA SameInTransitive ==
    ASSUME NEW s, NEW t, NEW v, NEW d, SameIn(s, t, d), SameIn(t, v, d)
    PROVE  SameIn(s, v, d)
BY DEF SameIn

LEMMA UpdatedOneMore ==
    ASSUME NEW s, NEW w, NEW v, NEW channels \in Seq(Entries), Apart(channels),
           NEW i \in DOMAIN channels, Updated(s, channels, i - 1, w), Applied(w, channels[i], v),
           \A d \in Chan \ {channels[i].name} : SameIn(w, v, d)
    PROVE  Updated(s, channels, i, v)
<1>1. DOMAIN channels = 1 .. Len(channels) /\ Len(channels) \in Nat
      /\ \A j \in DOMAIN channels : channels[j] \in Entries
    OBVIOUS
<1>2. \A j \in 1 .. i - 1 : j \in DOMAIN channels /\ j # i /\ j \in 1 .. i
    BY <1>1
<1>3. \A j \in 1 .. i : j = i \/ j \in 1 .. i - 1
    BY <1>1
<1>4. \A j \in DOMAIN channels : channels[j].name \in Chan
    BY <1>1 DEF Entries
<1>5. \A j \in 1 .. i - 1 : channels[j].name # channels[i].name
    BY <1>2 DEF Apart
<1>6. ASSUME NEW j \in 1 .. i - 1 PROVE Applied(s, channels[j], v)
    <2>1. Applied(s, channels[j], w)
        BY DEF Updated
    <2>2. SameIn(w, v, channels[j].name)
        BY <1>2, <1>4, <1>5
    <2> QED
        BY <2>1, <2>2, AppliedStays
<1>7. Applied(s, channels[i], v)
    <2>1. SameIn(s, w, channels[i].name)
        BY <1>4, <1>5 DEF Updated
    <2> QED
        BY <2>1, AppliedFrom
<1>8. ASSUME NEW d \in Chan, \A j \in 1 .. i : channels[j].name # d PROVE SameIn(s, v, d)
    <2>1. i \in 1 .. i
        BY <1>1
    <2>2. SameIn(s, w, d)
        BY <1>2, <1>8 DEF Updated
    <2>3. SameIn(w, v, d)
        BY <1>8, <2>1
    <2> QED
        BY <2>2, <2>3, SameInTransitive
<1> QED
    BY <1>3, <1>6, <1>7, <1>8 DEF Updated

\* Nothing of this is about the active item.
LEMMA SameShown ==
    ASSUME NEW s, NEW u, NEW t, NEW channels, NEW n, t.tabs = u.tabs, t.info = u.info,
           t.store = u.store, t.thrown = u.thrown, InPlace(u), SameTwice(s, u)
    PROVE  /\ InPlace(t) /\ SameTwice(s, t) /\ Tabs(t) = Tabs(u)
           /\ Updated(s, channels, n, u) => Updated(s, channels, n, t)
<1>1. Tabs(t) = Tabs(u)
    BY DEF Tabs
<1>2. InPlace(t) /\ SameTwice(s, t)
    BY <1>1 DEF InPlace, Noted, SameTwice
<1>3. \A d \in Chan : SameIn(s, u, d) => SameIn(s, t, d)
    BY <1>1 DEF SameIn
<1>4. \A j \in 1 .. n : Applied(s, channels[j], u) => Applied(s, channels[j], t)
    BY <1>1 DEF Applied, Had
<1> QED
    BY <1>1, <1>2, <1>3, <1>4 DEF Updated

\* An answer is applied: no line comes twice, and the bounds are noted.  A page that
\* cannot throw shows all of it.
LEMMA UpdateShows ==
    ASSUME NEW s, Proper(s), ~s.thrown, InPlace(s), NEW channels \in Seq(Entries),
           NEW t, t = ApplyLogUpdate(s, channels)
    PROVE  /\ InPlace(t) /\ SameTwice(s, t) /\ Tabs(s) \subseteq Tabs(t)
           /\ Apart(channels) /\ ~t.thrown => Updated(s, channels, Len(channels), t)
<1>1. PICK N \in Nat : N = Len(channels) /\ DOMAIN channels = 1 .. N
                       /\ \A i \in 1 .. N : channels[i] \in Entries
    OBVIOUS
<1>2. PICK u : u = Applies!Fold(0, s, channels)
    OBVIOUS
<1>3. FoldLeft(ApplyChannel, s, channels) = u
    BY <1>2 DEF Applies!Fold, AppliedBy, FoldLeft, Applies!FoldLeft, MapThenFoldSet,
                Applies!MapThenFoldSet, Max, Applies!Max
<1>10. DOMAIN channels = 1 .. N
    BY <1>1
<1>r. PICK f : Applies!Runs(f, 0, s, channels, N) /\ u = f[N]
    BY <1>2, <1>10, Applies!FoldRuns
<1>4. /\ f[0] = s /\ u = f[N]
      /\ \A i \in 1 .. N : f[i] = AppliedBy(0, f[i - 1], channels[i])
    BY <1>r DEF Applies!Runs
<1> DEFINE G == {i \in 0 .. N :
                    /\ Proper(f[i]) /\ InPlace(f[i]) /\ SameTwice(s, f[i])
                    /\ Tabs(s) \subseteq Tabs(f[i])
                    /\ Apart(channels) /\ ~f[i].thrown => Updated(s, channels, i, f[i])}
<1>5. 0 \in G
    <2>1. SameTwice(s, s) /\ \A d \in Chan : SameIn(s, s, d)
        BY DEF SameTwice, SameIn
    <2>2. Updated(s, channels, 0, s)
        BY <2>1 DEF Updated
    <2> QED
        BY <1>4, <2>1, <2>2
<1>6. ASSUME NEW i \in 1 .. N, i - 1 \in G PROVE i \in G
    <2>1. PICK w, v : w = f[i - 1] /\ v = f[i]
        OBVIOUS
    <2>2. /\ Proper(w) /\ InPlace(w) /\ SameTwice(s, w) /\ Tabs(s) \subseteq Tabs(w)
          /\ Apart(channels) /\ ~w.thrown => Updated(s, channels, i - 1, w)
        BY <1>6, <2>1
    <2>3. v = ApplyChannel(w, channels[i])
        BY <1>4, <2>1 DEF AppliedBy
    <2>4. channels[i] \in Entries
        BY <1>1
    <2>5. Proper(v) /\ Tabs(w) \subseteq Tabs(v)
        BY <2>2, <2>3, <2>4, ApplyChannelIs
    <2>0. SUFFICES /\ InPlace(v) /\ SameTwice(s, v)
                   /\ Apart(channels) /\ ~v.thrown => Updated(s, channels, i, v)
        BY <2>1, <2>2, <2>5
    <2> HIDE DEF G
    <2>6. CASE w.thrown
        <3>1. v = w
            BY <2>3, <2>6 DEF ApplyChannel
        <3> QED
            BY <2>2, <2>6, <3>1
    <2>7. CASE ~w.thrown
        <3>1. /\ InPlace(v) /\ SameTwice(w, v)
              /\ \A d \in Chan \ {channels[i].name} : SameIn(w, v, d)
              /\ ~v.thrown => Applied(w, channels[i], v)
            BY <2>2, <2>3, <2>4, <2>7, ApplyChannelShows
        <3>2. SameTwice(s, v)
            <4>1. \A d \in Tabs(s) : d \in Tabs(w) /\ d \in Tabs(v)
                BY <2>2, <2>5
            <4> QED
                BY <2>2, <3>1, <4>1 DEF SameTwice
        <3>3. ASSUME Apart(channels), ~v.thrown PROVE Updated(s, channels, i, v)
            <4>1. i \in DOMAIN channels
                BY <1>1
            <4>2. Updated(s, channels, i - 1, w) /\ Applied(w, channels[i], v)
                BY <2>2, <2>7, <3>1, <3>3
            <4> QED
                BY <3>1, <3>3, <4>1, <4>2, UpdatedOneMore
        <3> QED
            BY <3>1, <3>2, <3>3
    <2> QED
        BY <2>6, <2>7
<1>7. N \in G
    <2> HIDE DEF G
    <2>1. \A i \in 1 .. N : i - 1 \in G => i \in G
        BY <1>6
    <2>2. \A i \in 0 .. N : i \in G
        BY <1>5, <2>1, Applies!Induction
    <2> QED
        BY <2>2
<1>8. /\ Proper(u) /\ InPlace(u) /\ SameTwice(s, u) /\ Tabs(s) \subseteq Tabs(u)
      /\ Apart(channels) /\ ~u.thrown => Updated(s, channels, N, u)
    BY <1>4, <1>7
<1> HIDE DEF G
<1>9. t.tabs = u.tabs /\ t.info = u.info /\ t.store = u.store /\ t.thrown = u.thrown
    <2>1. PICK new : new = {i \in DOMAIN channels : channels[i].name \notin Tabs(s)}
        OBVIOUS
    <2>2. t = IF u.thrown \/ new = {} THEN u ELSE [u EXCEPT !.active = channels[Max(new)].name]
        BY <1>3, <2>1 DEF ApplyLogUpdate
    <2> QED
        BY <1>8, <2>2 DEF Proper
<1>11. /\ InPlace(t) /\ SameTwice(s, t) /\ Tabs(t) = Tabs(u)
       /\ Updated(s, channels, N, u) => Updated(s, channels, N, t)
    BY <1>8, <1>9, SameShown
<1> QED
    BY <1>1, <1>8, <1>9, <1>11

----------------------------------------------------------------------------
(* Tabs that are closed.                                                   *)

\* What t shows of a channel is what s showed of it.
Kept(s, t) ==
    \A d \in Tabs(t) : d \in Tabs(s) /\ t.info[d] = s.info[d] /\ t.store[d] = s.store[d]

LEMMA RemoveTabKeeps ==
    ASSUME NEW s, Proper(s), NEW c, NEW t, t = RemoveTab(s, c)
    PROVE  Kept(s, t) /\ Proper(t) /\ t.thrown = s.thrown
<1>1. Proper(t) /\ Tabs(t) = Tabs(s) \ {c} /\ t.thrown = s.thrown
    BY RemoveTabIs
<1>2. t.info = Pop(s.info, c) /\ t.store = Pop(s.store, c)
    BY DEF RemoveTab, Proper
<1>3. DOMAIN s.info = Tabs(s) /\ DOMAIN s.store = Tabs(s)
    BY DEF Proper
<1> QED
    BY <1>1, <1>2, <1>3 DEF Kept, Pop

LEMMA CloseChannelKeeps ==
    ASSUME NEW s, Proper(s), NEW channels \in Seq(Entries), NEW t, t = CloseChannel(s, channels)
    PROVE  Kept(s, t) /\ t.thrown = s.thrown
<1>1. PICK N \in Nat : DOMAIN s.tabs = 1 .. N
    BY DEF Proper
<1>2. PICK u : u = Closes!Fold(channels, s, s.tabs)
    OBVIOUS
<1>3. t = u
    BY <1>2 DEF CloseChannel, Closes!Fold, ClosedBy, FoldLeft, Closes!FoldLeft, MapThenFoldSet,
                Closes!MapThenFoldSet, Max, Closes!Max
<1>r. PICK f : Closes!Runs(f, channels, s, s.tabs, N) /\ u = f[N]
    BY <1>1, <1>2, Closes!FoldRuns
<1>4. /\ f[0] = s /\ u = f[N]
      /\ \A i \in 1 .. N : f[i] = ClosedBy(channels, f[i - 1], s.tabs[i])
    BY <1>r DEF Closes!Runs
<1>5. channels # <<>> => Last(channels).name \in Chan
    <2>1. channels # <<>> => Len(channels) \in DOMAIN channels
        OBVIOUS
    <2>2. channels # <<>> => channels[Len(channels)] \in Entries
        BY <2>1
    <2> QED
        BY <2>2 DEF Last, Entries
<1> DEFINE G == {i \in 0 .. N : Proper(f[i]) /\ Kept(s, f[i]) /\ f[i].thrown = s.thrown}
<1>6. 0 \in G
    BY <1>4 DEF Kept
<1>7. ASSUME NEW i \in 1 .. N, i - 1 \in G PROVE i \in G
    <2>1. PICK w, v, c : w = f[i - 1] /\ v = f[i] /\ c = s.tabs[i]
        OBVIOUS
    <2>2. Proper(w) /\ Kept(s, w) /\ w.thrown = s.thrown
        BY <1>7, <2>1
    <2>3. SUFFICES Proper(v) /\ Kept(w, v) /\ v.thrown = w.thrown
        BY <2>1, <2>2 DEF Kept
    <2> HIDE DEF G
    <2>4. PICK x : x = [w EXCEPT !.active = Last(channels).name]
        OBVIOUS
    <2>5. \/ v = w
          \/ channels # <<>> /\ v = RemoveTab(x, c)
          \/ v = RemoveTab(w, c)
        BY <1>4, <2>1, <2>4 DEF ClosedBy
    <2>6. CASE v = w
        BY <2>2, <2>6 DEF Kept
    <2>7. CASE channels # <<>> /\ v = RemoveTab(x, c)
        <3>1. /\ x.tabs = w.tabs /\ x.info = w.info /\ x.store = w.store /\ x.thrown = w.thrown
              /\ x.active = Last(channels).name
              /\ x = [tabs |-> x.tabs, info |-> x.info, store |-> x.store, active |-> x.active,
                      thrown |-> x.thrown]
            BY <2>2, <2>4 DEF Proper
        <3>2. Tabs(x) = Tabs(w)
            BY <3>1 DEF Tabs
        <3>3. Proper(x)
            BY <1>5, <2>2, <2>7, <3>1, <3>2 DEF Proper
        <3>4. Kept(x, v) /\ Proper(v) /\ v.thrown = x.thrown
            BY <2>7, <3>3, RemoveTabKeeps
        <3> QED
            BY <3>1, <3>2, <3>4 DEF Kept
    <2>8. CASE v = RemoveTab(w, c)
        BY <2>2, <2>8, RemoveTabKeeps
    <2> QED
        BY <2>5, <2>6, <2>7, <2>8
<1>8. N \in G
    <2> HIDE DEF G
    <2>1. \A i \in 1 .. N : i - 1 \in G => i \in G
        BY <1>7
    <2>2. \A i \in 0 .. N : i \in G
        BY <1>6, <2>1, Closes!Induction
    <2> QED
        BY <2>2
<1> QED
    BY <1>3, <1>4, <1>8

LEMMA KeptInPlace ==
    ASSUME NEW s, NEW t, Kept(s, t), t.thrown = s.thrown, InPlace(s)
    PROVE  InPlace(t) /\ SameTwice(s, t)
BY DEF Kept, InPlace, Noted, SameTwice

----------------------------------------------------------------------------
(* Old lines.                                                              *)

\* Old lines are shown of channel ch: the first one, and those below what was there.
OldShown(s, ch, isOldLog, t) ==
    /\ isOldLog => t.info[ch.name].topic = s.info[ch.name].topic
    /\ Range(t.store[ch.name]) =
           Range(s.store[ch.name]) \cup {x \in DOMAIN ch.log :
               x < s.info[ch.name].oldest \/ \A y \in DOMAIN ch.log : x <= y}

LEMMA NoOlds ==
    ASSUME NEW s, NEW a, a.ch.log \in Logs, a.ch.log = <<>>, a.ids = InOrder(DOMAIN a.ch.log)
    PROVE  Olds!Fold(a, s, a.ids) = s
<1>1. DOMAIN a.ch.log = {}
    OBVIOUS
<1>2. PICK q : q = a.ids
    OBVIOUS
<1>3. PICK N \in Nat : Enumerates(q, N, DOMAIN a.ch.log)
    BY <1>2, InOrderAll
<1>4. DOMAIN q = 1 .. N /\ {q[i] : i \in 1 .. N} = {}
    BY <1>1, <1>3 DEF Enumerates
<1>5. N = 0
    <2>1. N # 0 => 1 \in 1 .. N
        OBVIOUS
    <2>2. N # 0 => q[1] \in {q[i] : i \in 1 .. N}
        BY <2>1
    <2> QED
        BY <1>4, <2>2
<1>6. DOMAIN q = 1 .. N
    BY <1>4
<1>r. PICK f : Olds!Runs(f, a, s, q, N) /\ Olds!Fold(a, s, q) = f[N]
    BY <1>6, Olds!FoldRuns
<1>7. f[0] = s /\ Olds!Fold(a, s, q) = f[N]
    BY <1>r DEF Olds!Runs
<1> QED
    BY <1>2, <1>5, <1>7

LEMMA ShowOldLogShows ==
    ASSUME NEW s, Proper(s), InPlace(s), ~s.thrown, NEW ch, ch.log \in Logs, NEW c, c = ch.name,
           NEW isOldLog \in BOOLEAN, isOldLog \/ HasCurrent(s), c \in Tabs(s),
           NEW t, t = ShowOldLog(s, ch, isOldLog)
    PROVE  /\ ~t.thrown /\ InPlace(t) /\ OnlyOf(c, s, t)
           /\ Twice(t.store[c]) <= Twice(s.store[c]) + 1
           /\ OldShown(s, ch, isOldLog, t)
<1>1. PICK a : a = [ch |-> ch, ids |-> InOrder(DOMAIN ch.log), isOldLog |-> isOldLog]
    OBVIOUS
<1>2. PICK v : v = Olds!Fold(a, s, a.ids)
    OBVIOUS
<1>3. t = NoteBounds(v, ch.name, ch.log)
    BY <1>1, <1>2
    DEF ShowOldLog, Olds!Fold, OldBy, FoldLeft, Olds!FoldLeft, MapThenFoldSet,
        Olds!MapThenFoldSet, Max, Olds!Max
<1>4. /\ a.ch = ch /\ a.ids = InOrder(DOMAIN a.ch.log) /\ a.isOldLog = isOldLog
      /\ a.ch.log \in Logs /\ a.isOldLog \in BOOLEAN
    BY <1>1
<1>5. /\ Proper(v) /\ OnlyOf(c, s, v)
      /\ ~v.thrown /\ ch.log # <<>> => v.store[c] # <<>>
    BY <1>2, <1>4, OldsAre
<1>6. Sorted(s.store[c]) /\ Noted(s, c) /\ s.store[c] \in Seq(Ids)
    BY DEF InPlace, Proper
<1>7. \A y \in Range(s.store[c]) : s.info[c].oldest <= y
    <2>1. CASE s.store[c] = <<>>
        BY <2>1 DEF Range
    <2>2. CASE s.store[c] # <<>>
        BY <1>6, <2>2, EndsAre DEF Noted
    <2> QED
        BY <2>1, <2>2
<1>8. /\ ~v.thrown
      /\ Sorted(v.store[c]) /\ Twice(v.store[c]) <= Twice(s.store[c]) + 1
      /\ SameBounds(c, s, v) /\ (a.isOldLog => v.info[c].topic = s.info[c].topic)
      /\ Range(v.store[c]) =
             Range(s.store[c]) \cup {x \in DOMAIN a.ch.log :
                 x < s.info[c].oldest \/ \A y \in DOMAIN a.ch.log : x <= y}
    <2>1. c = a.ch.name /\ (a.isOldLog \/ HasCurrent(s))
        BY <1>4
    <2>2. OldsShown(c, s, a, v)
        BY <1>2, <1>4, <1>6, <1>7, <2>1, OldsShow
    <2> QED
        BY <2>2 DEF OldsShown
<1>9. c \in Tabs(v)
    BY <1>5 DEF OnlyOf, Tabs
<1>10. Proper(t) /\ OnlyOf(c, v, t) /\ t.store = v.store /\ t.thrown = v.thrown
    BY <1>3, <1>5, <1>9, NoteBoundsKeeps
<1>11. /\ t.info[c].topic = v.info[c].topic
       /\ ~v.thrown /\ ch.log # <<>> => /\ t.info[c].oldest = Head(v.store[c])
                                        /\ t.info[c].newest = Last(v.store[c])
       /\ v.thrown \/ ch.log = <<>> => t = v
    <2>1. t = NoteBounds(v, c, ch.log)
        BY <1>3
    <2> QED
        BY <1>5, <1>9, <2>1, NoteBoundsNotes
<1>12. OnlyOf(c, s, t)
    BY <1>5, <1>10, OnlyOfTransitive
<1>13. Noted(t, c)
    <2>1. CASE ch.log = <<>>
        <3>1. v = s
            BY <1>2, <1>4, <2>1, NoOlds
        <3> QED
            BY <1>6, <1>11, <2>1, <3>1
    <2>2. CASE ch.log # <<>>
        BY <1>5, <1>8, <1>10, <1>11, <2>2 DEF Noted
    <2> QED
        BY <2>1, <2>2
<1>14. InPlace(t)
    <2>1. ASSUME NEW d \in Tabs(t), d # c PROVE Sorted(t.store[d]) /\ Noted(t, d)
        <3>1. d \in Tabs(s) /\ t.info[d] = s.info[d] /\ t.store[d] = s.store[d]
            BY <1>12, <2>1 DEF OnlyOf, Tabs
        <3> QED
            BY <3>1 DEF InPlace, Noted
    <2>2. Sorted(t.store[c])
        BY <1>8, <1>10
    <2> QED
        BY <1>13, <2>1, <2>2 DEF InPlace
<1>15. OldShown(s, ch, isOldLog, t)
    BY <1>4, <1>8, <1>10, <1>11 DEF OldShown
<1> QED
    BY <1>8, <1>10, <1>12, <1>14, <1>15

----------------------------------------------------------------------------
(* At most one line twice.                                                 *)

OnceMore(s, t) == \A c \in Tabs(s) \cap Tabs(t) : Twice(t.store[c]) <= Twice(s.store[c]) + 1

LEMMA SameIsOnceMore ==
    ASSUME NEW s, NEW t, Proper(s), SameTwice(s, t)
    PROVE  OnceMore(s, t)
<1> SUFFICES ASSUME NEW c \in Tabs(s) \cap Tabs(t)
             PROVE  Twice(t.store[c]) <= Twice(s.store[c]) + 1
    BY DEF OnceMore
<1>1. s.store[c] \in Seq(Ids)
    BY DEF Proper
<1>2. Len(s.store[c]) \in Nat /\ Cardinality(Range(s.store[c])) \in Nat
    BY <1>1, RangeIs
<1>3. PICK m \in Int : m = Twice(s.store[c])
    BY <1>2 DEF Twice
<1>4. Twice(t.store[c]) = m
    BY <1>3 DEF SameTwice
<1> QED
    BY <1>3, <1>4

\* The bounds of a page that polls are those of its stores.
LinesInPlace == TypesAndTab /\ (loop # "stopped" => InPlace(screen))

LEMMA OnAnswerInPlace ==
    ASSUME LinesInPlace, OnAnswer
    PROVE  (loop' # "stopped" => InPlace(screen')) /\ OnceMore(screen, screen')
<1>1. /\ Proper(screen) /\ ~screen.thrown /\ poll \in Polls /\ mvc \in BOOLEAN
      /\ InPlace(screen) /\ loop # "stopped"
    BY DEF LinesInPlace, TypesAndTab, Types, OnAnswer
<1>2. PICK channels, applied :
          channels = poll.body /\ applied = ApplyLogUpdate(screen, channels)
    OBVIOUS
<1>3. channels \in Seq(Entries)
    BY <1>1, <1>2 DEF Polls
<1>4. Proper(applied)
    BY <1>1, <1>2, <1>3, ApplyLogUpdateIs
<1>5. InPlace(applied) /\ SameTwice(screen, applied) /\ Tabs(screen) \subseteq Tabs(applied)
    BY <1>1, <1>2, <1>3, UpdateShows
<1>6. CASE applied.thrown
    <2>1. screen' = [applied EXCEPT !.thrown = FALSE] /\ loop' = "stopped"
        BY <1>2, <1>6 DEF OnAnswer, Stop
    <2>2. screen'.tabs = applied.tabs /\ screen'.store = applied.store
        BY <1>4, <2>1 DEF Proper
    <2>3. SameTwice(screen, screen')
        BY <1>5, <2>2 DEF SameTwice, Tabs
    <2> QED
        BY <1>1, <2>1, <2>3, SameIsOnceMore
<1>7. CASE ~applied.thrown /\ mvc
    <2>1. screen' = applied
        BY <1>2, <1>7 DEF OnAnswer
    <2> QED
        BY <1>1, <1>5, <2>1, SameIsOnceMore
<1>8. CASE ~applied.thrown /\ ~mvc
    <2>1. PICK closed : closed = CloseChannel(applied, channels)
        OBVIOUS
    <2>2. screen' = closed
        BY <1>2, <1>8, <2>1 DEF OnAnswer
    <2>3. Kept(applied, closed) /\ closed.thrown = applied.thrown
        BY <1>3, <1>4, <2>1, CloseChannelKeeps
    <2>4. InPlace(closed) /\ SameTwice(applied, closed)
        BY <1>5, <2>3, KeptInPlace
    <2>5. SameTwice(screen, closed)
        BY <1>5, <2>4 DEF SameTwice
    <2> QED
        BY <1>1, <2>2, <2>4, <2>5, SameIsOnceMore
<1> QED
    BY <1>1, <1>6, <1>7, <1>8

LEMMA OnOldAnswerInPlace ==
    ASSUME LinesInPlace, loop # "stopped", NEW i \in DOMAIN pulls, OnOldAnswer(i)
    PROVE  InPlace(screen') /\ OnceMore(screen, screen')
<1>1. /\ Proper(screen) /\ ~screen.thrown /\ mvc \in BOOLEAN /\ InPlace(screen)
      /\ Current(screen) /\ pulls \in Seq(Pulls)
    BY DEF LinesInPlace, TypesAndTab, Types
<1>2. PICK ch : ch = [name |-> pulls[i].chan, log |-> pulls[i].lines]
    OBVIOUS
<1>3. pulls[i] \in Pulls
    BY <1>1
<1>4. ch.log \in Logs /\ ch.name \in Chan
    BY <1>2, <1>3 DEF Pulls
<1>5. PICK u : u = ShowOldLog(screen, ch, mvc)
    OBVIOUS
<1>6. screen' = [u EXCEPT !.thrown = FALSE]
    BY <1>2, <1>5 DEF OnOldAnswer
<1>7. /\ InPlace(u) /\ ~u.thrown /\ Proper(u) /\ OnceMore(screen, u)
    <2>1. CASE ch.name \notin Tabs(screen)
        <3>1. u = screen
            BY <1>5, <2>1 DEF ShowOldLog
        <3>2. SameTwice(screen, u)
            BY <3>1 DEF SameTwice
        <3> QED
            BY <1>1, <3>1, <3>2, SameIsOnceMore
    <2>2. CASE ch.name \in Tabs(screen)
        <3>1. HasCurrent(screen)
            BY <1>1, <2>2 DEF Current, Tabs, Range
        <3>2. PICK c : c = ch.name
            OBVIOUS
        <3>3. /\ ~u.thrown /\ InPlace(u) /\ OnlyOf(c, screen, u)
              /\ Twice(u.store[c]) <= Twice(screen.store[c]) + 1
            BY <1>1, <1>4, <1>5, <2>2, <3>1, <3>2, ShowOldLogShows
        <3>4. Proper(u)
            BY <1>1, <1>4, <1>5, ShowOldLogIs
        <3>5. ASSUME NEW d \in Tabs(screen) \cap Tabs(u), d # c
              PROVE  Twice(u.store[d]) <= Twice(screen.store[d]) + 1
            <4>1. u.store[d] = screen.store[d] /\ screen.store[d] \in Seq(Ids)
                BY <1>1, <3>3, <3>5 DEF OnlyOf, Proper
            <4>2. Len(screen.store[d]) \in Nat /\ Cardinality(Range(screen.store[d])) \in Nat
                BY <4>1, RangeIs
            <4>3. Twice(screen.store[d]) \in Int
                BY <4>2 DEF Twice
            <4> QED
                BY <4>1, <4>3
        <3>6. OnceMore(screen, u)
            BY <3>3, <3>5 DEF OnceMore
        <3> QED
            BY <3>3, <3>4, <3>6
    <2> QED
        BY <2>1, <2>2
<1>8. screen'.tabs = u.tabs /\ screen'.info = u.info /\ screen'.store = u.store
      /\ screen'.thrown = u.thrown
    BY <1>6, <1>7 DEF Proper
<1> QED
    BY <1>7, <1>8 DEF InPlace, Noted, OnceMore, Tabs

LEMMA LinesStep ==
    ASSUME LinesInPlace, [Next]_vars
    PROVE  /\ loop' # "stopped" => InPlace(screen')
           /\ loop # "stopped" => OnceMore(screen, screen')
<1>1. Proper(screen) /\ (loop = "stopped" => poll.at = "none")
    BY DEF LinesInPlace, TypesAndTab, Types
<1>2. ASSUME screen' = screen, loop' # "stopped" => loop # "stopped"
      PROVE  /\ loop' # "stopped" => InPlace(screen')
             /\ loop # "stopped" => OnceMore(screen, screen')
    <2>1. SameTwice(screen, screen)
        BY DEF SameTwice
    <2>2. OnceMore(screen, screen)
        BY <1>1, <2>1, SameIsOnceMore
    <2> QED
        BY <1>2, <2>2 DEF LinesInPlace
<1>3. CASE Daemon \/ Answer \/ OnAnswerDeaf \/ OnServerError \/ Pull \/ UNCHANGED vars
    BY <1>2, <1>3 DEF Daemon, AppendLog, Leave, Answer, OnAnswerDeaf, OnServerError, Pull, vars, Stop
<1>4. CASE OnNetworkError
    BY <1>1, <1>2, <1>4 DEF OnNetworkError
<1>5. CASE \E i \in DOMAIN pulls : AnswerOld(i) \/ OnOldError(i)
    BY <1>2, <1>5 DEF AnswerOld, OnOldError
<1>6. CASE OnAnswer
    BY <1>6, OnAnswerInPlace
<1>7. ASSUME NEW i \in DOMAIN pulls, OnOldAnswer(i)
      PROVE  /\ loop' # "stopped" => InPlace(screen')
             /\ loop # "stopped" => OnceMore(screen, screen')
    <2>1. loop' = loop
        BY <1>7 DEF OnOldAnswer
    <2> QED
        BY <1>7, <2>1, OnOldAnswerInPlace
<1>8. ASSUME NEW c \in Chan, Turn(c)
      PROVE  /\ loop' # "stopped" => InPlace(screen')
             /\ loop # "stopped" => OnceMore(screen, screen')
    <2>1. screen' = [screen EXCEPT !.active = c] /\ loop' = loop
        BY <1>8 DEF Turn
    <2>2. screen'.tabs = screen.tabs /\ screen'.info = screen.info /\ screen'.store = screen.store
          /\ screen'.thrown = screen.thrown
        BY <1>1, <2>1 DEF Proper
    <2>3. loop # "stopped" => InPlace(screen')
        BY <2>2 DEF LinesInPlace, InPlace, Noted, Tabs
    <2>4. SameTwice(screen, screen')
        BY <2>2 DEF SameTwice
    <2>5. OnceMore(screen, screen')
        BY <1>1, <2>4, SameIsOnceMore
    <2> QED
        BY <2>1, <2>3, <2>5
<1>9. CASE Reload
    <2>1. screen' = Blank
        BY <1>9 DEF Reload, Loaded
    <2>2. Tabs(screen') = {}
        BY <2>1 DEF Blank, Tabs, Range
    <2> QED
        BY <2>2 DEF InPlace, OnceMore
<1> QED
    BY <1>3, <1>4, <1>5, <1>6, <1>7, <1>8, <1>9 DEF Next, Loop

LEMMA InPlaceAlways == Spec => []LinesInPlace
<1>1. Init => LinesInPlace
    <2>1. Init => Tabs(screen) = {}
        BY DEF Init, Blank, Tabs, Range
    <2> QED
        BY <2>1, InitTypes DEF LinesInPlace, InPlace
<1>2. LinesInPlace /\ [Next]_vars => LinesInPlace'
    BY LinesStep, StepTypes DEF LinesInPlace
<1> QED
    BY <1>1, <1>2, PTL DEF Spec

\* While a page polls, an answer to its requests shows at most one line of a channel a
\* second time, whatever pulls and polls overtake each other: the comparisons with the
\* newest and the oldest line in ApplyLogUpdate and ShowOldLog do what they are for.
THEOREM AtMostOneTwice == Spec => DoublesOne
<1>1. LinesInPlace /\ [Next]_vars =>
          [loop # "stopped" =>
              \A c \in DOMAIN screen.store \cap DOMAIN screen'.store :
                  Doubles(screen', c) <= Doubles(screen, c) + 1]_vars
    <2> SUFFICES ASSUME LinesInPlace, Next, loop # "stopped",
                        NEW c \in DOMAIN screen.store \cap DOMAIN screen'.store
                 PROVE  Doubles(screen', c) <= Doubles(screen, c) + 1
        BY DEF vars
    <2>1. OnceMore(screen, screen')
        BY LinesStep
    <2>2. TypesAndTab /\ TypesAndTab'
        BY StepTypes DEF LinesInPlace
    <2>3. DOMAIN screen.store = Tabs(screen) /\ DOMAIN screen'.store = Tabs(screen')
        BY <2>2 DEF TypesAndTab, Types, Proper
    <2> QED
        BY <2>1, <2>3 DEF OnceMore, Doubles, Twice
<1> QED
    BY <1>1, InPlaceAlways, PTL DEF Spec, DoublesOne

----------------------------------------------------------------------------
(* What the mvc page shows of a log.                                       *)

\* Ids without a gap.
Convex(S) == \A x, y \in S : \A z \in Nat : x <= z /\ z <= y => z \in S

\* A topic is not younger than all of these lines.
Recalls(topic, S) == topic = Nil \/ \E y \in S : topic <= y

\* A channel's lines are a window of a log that ends before end, its topic no later.
ShownFits(s, c, end) ==
    /\ Convex(Range(s.store[c])) /\ Range(s.store[c]) \subseteq 0 .. end - 1
    /\ Recalls(s.info[c].topic, Range(s.store[c]))

\* The lines of an answer are a window, too, which begins with the line asked for.
EntryFits(ch, asked, end) ==
    /\ Convex(DOMAIN ch.log) /\ DOMAIN ch.log \subseteq 0 .. end - 1
    /\ Recalls(ch.topic, DOMAIN ch.log)
    /\ ch.name \in DOMAIN asked /\ DOMAIN ch.log # {} =>
          /\ asked[ch.name] + 1 \in DOMAIN ch.log
          /\ \A x \in DOMAIN ch.log : asked[ch.name] < x

\* Old lines end before one that is shown.
PullFits(p, s) ==
    /\ p.lastid # 0 => p.chan \in Tabs(s) /\ p.lastid \in Range(s.store[p.chan])
    /\ p.at = "answered" =>
          \A x \in DOMAIN p.lines :
              x < p.lastid /\ \A z \in Nat : x <= z /\ z < p.lastid => z \in DOMAIN p.lines

LEMMA ConvexAbove ==
    ASSUME NEW R, R \subseteq Nat, Convex(R), NEW S, S \subseteq Nat, Convex(S),
           NEW m \in R, \A y \in R : y <= m,
           S # {} => m + 1 \in S /\ \A x \in S : m < x
    PROVE  Convex(R \cup Newer(S, R))
<1>1. CASE S = {}
    <2>1. Newer(S, R) = {}
        BY <1>1 DEF Newer
    <2> QED
        BY <2>1
<1>2. CASE S # {}
    <2>1. m \in Nat /\ m + 1 \in S /\ \A x \in S : x \in Nat /\ m < x
        BY <1>2
    <2>2. \A y \in R : y \in Nat /\ y <= m
        OBVIOUS
    <2>3. Newer(S, R) = S
        <3>1. \A x \in S : \A y \in R : y \in Nat /\ m \in Nat /\ x \in Nat /\ y <= m /\ m < x
            BY <2>1, <2>2
        <3>2. \A x \in S : \A y \in R : y < x
            BY <3>1
        <3> QED
            BY <3>2 DEF Newer
    <2>4. SUFFICES ASSUME NEW x \in R \cup S, NEW y \in R \cup S, NEW z \in Nat, x <= z, z <= y
                   PROVE  z \in R \cup S
        BY <2>3 DEF Convex
    <2>5. CASE x \in R /\ y \in R
        BY <2>4, <2>5 DEF Convex
    <2>6. CASE x \in S /\ y \in S
        BY <2>4, <2>6 DEF Convex
    <2>7. CASE x \in R /\ y \in S
        <3>1. CASE z <= m
            BY <2>4, <2>7, <3>1 DEF Convex
        <3>2. CASE m + 1 <= z
            BY <2>1, <2>4, <2>7, <3>2 DEF Convex
        <3> QED
            BY <2>1, <2>4, <3>1, <3>2
    <2>8. CASE x \in S /\ y \in R
        BY <2>1, <2>2, <2>4, <2>8
    <2> QED
        BY <2>4, <2>5, <2>6, <2>7, <2>8
<1> QED
    BY <1>1, <1>2

\* The request for new lines names the last one of every store that is not empty.
LEMMA AskedIs ==
    ASSUME NEW s, Proper(s), InPlace(s), ~s.thrown, NEW c \in Tabs(s)
    PROVE  /\ s.store[c] = <<>> <=> c \notin DOMAIN LastIDs(s)
           /\ s.store[c] # <<>> => LastIDs(s)[c] = Last(s.store[c])
<1>1. Noted(s, c) /\ Sorted(s.store[c]) /\ s.store[c] \in Seq(Ids)
    BY DEF InPlace, Proper
<1>2. DOMAIN LastIDs(s) = {d \in Tabs(s) : s.info[d].newest # Nil}
    BY DEF LastIDs
<1>3. CASE s.store[c] = <<>>
    BY <1>1, <1>2, <1>3 DEF Noted
<1>4. CASE s.store[c] # <<>>
    <2>1. Last(s.store[c]) \in Range(s.store[c]) /\ Range(s.store[c]) \subseteq Ids
        BY <1>1, <1>4, EndsAre, RangeIs
    <2>2. s.info[c].newest = Last(s.store[c]) /\ Last(s.store[c]) \in Nat
        BY <1>1, <1>4, <2>1, IdsIs DEF Noted
    <2>3. s.info[c].newest # Nil
        BY <2>2 DEF Nil
    <2>4. LastIDs(s)[c] = s.info[c].newest
        BY <2>3 DEF LastIDs
    <2> QED
        BY <1>2, <1>4, <2>2, <2>3, <2>4
<1> QED
    BY <1>3, <1>4

LEMMA EmptyIs ==
    ASSUME NEW q \in Seq(Ids)
    PROVE  q = <<>> <=> Range(q) = {}
<1>1. Range(q) = {q[i] : i \in 1 .. Len(q)}
    BY RangeIs
<1>2. CASE q = <<>>
    BY <1>1, <1>2
<1>3. CASE q # <<>>
    <2>1. 1 \in 1 .. Len(q)
        BY <1>3
    <2>2. q[1] \in Range(q)
        BY <1>1, <2>1
    <2> QED
        BY <1>3, <2>2
<1> QED
    BY <1>2, <1>3

\* A channel after an answer: still a window, with a topic that has not gone back.
LEMMA AppliedFits ==
    ASSUME NEW s, Proper(s), InPlace(s), ~s.thrown, NEW ch \in Entries, NEW c, c = ch.name,
           NEW end \in Nat, EntryFits(ch, LastIDs(s), end),
           c \in Tabs(s) => ShownFits(s, c, end),
           NEW t, Proper(t), Applied(s, ch, t)
    PROVE  /\ ShownFits(t, c, end)
           /\ c \in Tabs(s) => /\ Range(s.store[c]) \subseteq Range(t.store[c])
                               /\ t.info[c].topic >= s.info[c].topic
<1>1. PICK S : S = DOMAIN ch.log
    OBVIOUS
<1>2. /\ c \in Tabs(t) /\ Had(t, c) = Had(s, c) \cup Newer(S, Had(s, c))
      /\ t.info[c].topic \in {TopicOf(s, ch)} \cup S
    BY <1>1 DEF Applied
<1>3. Had(t, c) = Range(t.store[c])
    BY <1>2 DEF Had
<1>4. /\ Convex(S) /\ S \subseteq 0 .. end - 1 /\ Recalls(ch.topic, S)
      /\ c \in DOMAIN LastIDs(s) /\ S # {} =>
             LastIDs(s)[c] + 1 \in S /\ \A x \in S : LastIDs(s)[c] < x
    BY <1>1 DEF EntryFits
<1>5. \A x \in S : x \in Nat /\ x <= x
    BY <1>4
<1>6. CASE Had(s, c) = {}
    <2>1. Had(t, c) = S
        BY <1>2, <1>6 DEF Newer
    <2>2. TopicOf(s, ch) = Nil \/ TopicOf(s, ch) = ch.topic
        <3>1. CASE c \in Tabs(s)
            <4>1. Range(s.store[c]) = {} /\ Recalls(s.info[c].topic, Range(s.store[c]))
                BY <1>6, <3>1 DEF Had, ShownFits
            <4> QED
                BY <3>1, <4>1 DEF TopicOf, Recalls
        <3>2. CASE c \notin Tabs(s)
            BY <3>2 DEF TopicOf
        <3> QED
            BY <3>1, <3>2
    <2>3. Recalls(t.info[c].topic, S)
        <3>1. CASE t.info[c].topic \in S
            BY <1>5, <3>1 DEF Recalls
        <3>2. CASE t.info[c].topic = TopicOf(s, ch)
            BY <1>4, <2>2, <3>2 DEF Recalls
        <3> QED
            BY <1>2, <3>1, <3>2
    <2>4. ShownFits(t, c, end)
        BY <1>3, <1>4, <2>1, <2>3 DEF ShownFits
    <2>5. c \in Tabs(s) => /\ Range(s.store[c]) \subseteq Range(t.store[c])
                           /\ t.info[c].topic >= s.info[c].topic
        <3>1. SUFFICES ASSUME c \in Tabs(s)
                       PROVE  /\ Range(s.store[c]) \subseteq Range(t.store[c])
                              /\ t.info[c].topic >= s.info[c].topic
            OBVIOUS
        <3>2. Range(s.store[c]) = {} /\ s.info[c].topic = Nil
            BY <1>6, <3>1 DEF Had, ShownFits, Recalls
        <3>3. t.info[c].topic \in Ids \cup {Nil}
            BY <1>2 DEF Proper, Infos
        <3>4. t.info[c].topic \in Nat \cup {Nil}
            BY <3>3, IdsIs
        <3> QED
            BY <3>2, <3>4 DEF Nil
    <2> QED
        BY <2>4, <2>5
<1>7. CASE Had(s, c) # {}
    <2>1. PICK R : R = Range(s.store[c]) /\ R = Had(s, c) /\ c \in Tabs(s)
        BY <1>7 DEF Had
    <2>2. s.store[c] \in Seq(Ids) /\ Sorted(s.store[c]) /\ s.store[c] # <<>>
        BY <1>7, <2>1, EmptyIs DEF Proper, InPlace
    <2>3. PICK m : m = Last(s.store[c]) /\ m = LastIDs(s)[c] /\ c \in DOMAIN LastIDs(s)
        BY <2>1, <2>2, AskedIs
    <2>4. m \in R /\ (\A y \in R : y <= m) /\ R \subseteq Ids
        BY <2>1, <2>2, <2>3, EndsAre, RangeIs
    <2>5. R \subseteq Nat /\ S \subseteq Nat
        BY <1>5, <2>4, IdsIs
    <2>6. Convex(R) /\ R \subseteq 0 .. end - 1 /\ Recalls(s.info[c].topic, R)
        BY <2>1 DEF ShownFits
    <2>7. S # {} => m + 1 \in S /\ \A x \in S : m < x
        BY <1>4, <2>3
    <2>8. Convex(R \cup Newer(S, R))
        BY <1>4, <2>4, <2>5, <2>6, <2>7, ConvexAbove
    <2>9. Newer(S, R) = S
        <3>1. \A x \in S : \A y \in R : y \in Nat /\ m \in Nat /\ x \in Nat /\ y <= m /\ m < x
            BY <2>4, <2>5, <2>7
        <3> QED
            BY <3>1 DEF Newer
    <2>10. Range(t.store[c]) = R \cup S
        BY <1>2, <1>3, <2>1, <2>9
    <2>11. TopicOf(s, ch) = s.info[c].topic
        BY <2>1 DEF TopicOf
    <2>12. Recalls(t.info[c].topic, R \cup S)
        <3>1. CASE t.info[c].topic \in S
            BY <1>5, <3>1 DEF Recalls
        <3>2. CASE t.info[c].topic = s.info[c].topic
            BY <2>6, <3>2 DEF Recalls
        <3> QED
            BY <1>2, <2>11, <3>1, <3>2
    <2>13. ShownFits(t, c, end)
        BY <1>4, <2>6, <2>8, <2>9, <2>10, <2>12 DEF ShownFits
    <2>14. t.info[c].topic >= s.info[c].topic
        <3>1. PICK old, new : old = s.info[c].topic /\ new = t.info[c].topic
            OBVIOUS
        <3>2. old \in Nat \cup {Nil}
            BY <2>1, <3>1, IdsIs DEF Proper, Infos
        <3>3. CASE new = old
            BY <3>1, <3>2, <3>3 DEF Nil
        <3>4. CASE new \in S
            <4>1. new \in Nat /\ m < new /\ m \in Nat
                BY <2>4, <2>5, <2>7, <3>4
            <4>2. CASE old = Nil
                BY <3>1, <4>1, <4>2 DEF Nil
            <4>3. CASE old # Nil
                <5>1. PICK y \in R : old <= y
                    BY <2>6, <3>1, <4>3 DEF Recalls
                <5>2. y \in Nat /\ y <= m /\ old \in Nat
                    BY <2>4, <2>5, <3>2, <4>3, <5>1
                <5> QED
                    BY <3>1, <4>1, <5>1, <5>2
            <4> QED
                BY <4>2, <4>3
        <3> QED
            BY <1>2, <2>11, <3>1, <3>3, <3>4
    <2> QED
        BY <2>1, <2>10, <2>13, <2>14
<1> QED
    BY <1>6, <1>7

\* A channel after old lines: still a window, the newest line and the topic the same.
StillFits(s, t, c, end) ==
    /\ ShownFits(t, c, end) /\ Range(s.store[c]) \subseteq Range(t.store[c])
    /\ t.info[c].topic = s.info[c].topic /\ LastIDs(t) = LastIDs(s)

LEMMA OldFits ==
    ASSUME NEW s, Proper(s), InPlace(s), ~s.thrown, NEW p \in Pulls, p.at = "answered",
           PullFits(p, s), NEW ch, ch.name = p.chan, ch.log = p.lines,
           NEW c \in Tabs(s), c = p.chan, NEW end \in Nat, ShownFits(s, c, end),
           NEW t, Proper(t), InPlace(t), ~t.thrown, OnlyOf(c, s, t), OldShown(s, ch, TRUE, t)
    PROVE  StillFits(s, t, c, end)
<1> USE DEF StillFits
<1>1. PICK R, T, L, o, last : /\ R = Range(s.store[c]) /\ T = Range(t.store[c])
                              /\ L = DOMAIN p.lines /\ o = s.info[c].oldest /\ last = p.lastid
    OBVIOUS
<1>2. /\ t.info[c].topic = s.info[c].topic
      /\ T = R \cup {x \in L : x < o \/ \A y \in L : x <= y}
    BY <1>1 DEF OldShown
<1>3. Convex(R) /\ R \subseteq 0 .. end - 1 /\ Recalls(s.info[c].topic, R)
    BY <1>1 DEF ShownFits
<1>4. /\ last # 0 => last \in R
      /\ \A x \in L : x < last /\ \A z \in Nat : x <= z /\ z < last => z \in L
    BY <1>1 DEF PullFits
<1>5. L \subseteq Nat /\ last \in Nat /\ R \subseteq Nat
    <2>1. L \subseteq Ids /\ last \in Ids \cup {0}
        BY <1>1 DEF Pulls, Logs
    <2> QED
        BY <1>3, <2>1, IdsIs
<1>6. L # {} => last \in R
    <2>1. \A x \in L : x \in Nat /\ x < last
        BY <1>4, <1>5
    <2>2. L # {} => last # 0
        BY <2>1
    <2> QED
        BY <1>4, <2>2
<1>7. /\ s.store[c] \in Seq(Ids) /\ Sorted(s.store[c]) /\ Noted(s, c)
      /\ t.store[c] \in Seq(Ids) /\ Sorted(t.store[c]) /\ Noted(t, c) /\ Tabs(t) = Tabs(s)
    BY DEF Proper, InPlace, OnlyOf, Tabs
<1>8. Recalls(t.info[c].topic, T) /\ R \subseteq T
    BY <1>2, <1>3 DEF Recalls
<1>9. CASE R = {}
    <2>1. T = {}
        BY <1>2, <1>6, <1>9
    <2>2. s.store[c] = <<>> /\ t.store[c] = <<>>
        BY <1>1, <1>7, <1>9, <2>1, EmptyIs
    <2>3. t.info[c].newest = s.info[c].newest
        BY <1>7, <2>2 DEF Noted
    <2>4. LastIDs(t) = LastIDs(s)
        <3>1. \A d \in Tabs(s) : t.info[d].newest = s.info[d].newest
            BY <2>3 DEF OnlyOf
        <3> QED
            BY <1>7, <3>1 DEF LastIDs
    <2> QED
        BY <1>1, <1>2, <1>3, <1>8, <1>9, <2>1, <2>4 DEF ShownFits
<1>10. CASE R # {}
    <2>1. s.store[c] # <<>>
        BY <1>1, <1>7, <1>10, EmptyIs
    <2>2. PICK m : m = Last(s.store[c]) /\ m \in R /\ (\A y \in R : y <= m)
                   /\ m = s.info[c].newest
        BY <1>1, <1>7, <2>1, EndsAre DEF Noted
    <2>3. o \in R /\ \A y \in R : o <= y
        BY <1>1, <1>7, <2>1, EndsAre DEF Noted
    <2>4. \A x \in T : x \in R \/ x \in L
        BY <1>2
    <2>5. \A x \in L : x \in Nat /\ last \in Nat /\ x < last /\ last \in R
        BY <1>4, <1>5, <1>6
    <2>6. \A x \in T : x <= m /\ x \in Nat
        <3>1. ASSUME NEW x \in L PROVE x <= m
            <4>1. x \in Nat /\ last \in Nat /\ m \in Nat /\ x < last /\ last <= m
                BY <1>5, <2>2, <2>5
            <4> QED
                BY <4>1
        <3> QED
            BY <1>5, <2>2, <2>4, <3>1
    <2>7. T \subseteq 0 .. end - 1
        <3>1. ASSUME NEW x \in L PROVE x \in 0 .. end - 1
            <4>1. x \in Nat /\ last \in Nat /\ x < last /\ last \in 0 .. end - 1
                BY <1>3, <2>5
            <4> QED
                BY <4>1
        <3> QED
            BY <1>3, <2>4, <3>1
    <2>8. Convex(T)
        <3>1. SUFFICES ASSUME NEW x \in T, NEW y \in T, NEW z \in Nat, x <= z, z <= y PROVE z \in T
            BY DEF Convex
        <3>2. o \in Nat /\ x \in Nat /\ y \in Nat
            BY <1>5, <2>3, <2>6
        <3>3. CASE o <= z
            <4>1. \E w \in R : z <= w
                <5>1. CASE y \in R
                    BY <3>1, <5>1
                <5>2. CASE y \in L
                    BY <2>5, <3>1, <3>2, <5>2
                <5> QED
                    BY <2>4, <5>1, <5>2
            <4> QED
                BY <1>2, <1>3, <2>3, <3>3, <4>1 DEF Convex
        <3>4. CASE z < o
            <4>1. x \notin R
                <5>1. x \in R => o <= x
                    BY <2>3
                <5> QED
                    BY <3>1, <3>2, <3>4, <5>1
            <4>2. x \in L
                BY <2>4, <4>1
            <4>3. z < last
                <5>1. last \in Nat /\ o <= last
                    BY <2>3, <2>5, <4>2
                <5> QED
                    BY <3>2, <3>4, <5>1
            <4>4. z \in L
                BY <1>4, <3>1, <4>2, <4>3
            <4> QED
                BY <1>2, <3>4, <4>4
        <3> QED
            BY <3>2, <3>3, <3>4
    <2>9. Last(t.store[c]) = m /\ t.store[c] # <<>>
        <3>1. T # {} /\ m \in T
            BY <1>8, <2>2
        <3>2. t.store[c] # <<>>
            BY <1>1, <1>7, <3>1, EmptyIs
        <3>3. PICK n : n = Last(t.store[c]) /\ n \in T /\ \A y \in T : y <= n
            BY <1>1, <1>7, <3>2, EndsAre
        <3>4. n \in Nat /\ m \in Nat /\ n <= m /\ m <= n
            BY <2>6, <3>1, <3>3
        <3>5. n = m
            BY <3>4
        <3> QED
            BY <3>2, <3>3, <3>5
    <2>10. t.info[c].newest = s.info[c].newest
        BY <1>7, <2>2, <2>9 DEF Noted
    <2>11. LastIDs(t) = LastIDs(s)
        <3>1. \A d \in Tabs(s) : t.info[d].newest = s.info[d].newest
            BY <2>10 DEF OnlyOf
        <3> QED
            BY <1>7, <3>1 DEF LastIDs
    <2>12. ShownFits(t, c, end)
        BY <1>1, <1>8, <2>7, <2>8 DEF ShownFits
    <2> QED
        BY <1>1, <1>2, <1>8, <2>11, <2>12
<1> QED
    BY <1>9, <1>10

----------------------------------------------------------------------------
(* What the server answers.                                                *)

LEMMA WholeIs ==
    ASSUME NEW h, NEW n, Whole(h, n), n \in Nat
    PROVE  /\ EndOf(h) \in Nat /\ DOMAIN h.lines = 0 .. EndOf(h) - 1
           /\ h.end # Nil => Readable(h) /\ h.begin = 0 /\ h.end = EndOf(h)
           /\ h.end = Nil => EndOf(h) = 0
<1>1. h.end \in Nat \cup {Nil} /\ h.begin \in {Nil, 0} /\ (h.begin = Nil <=> h.end = Nil)
    BY DEF Whole, Hashes
<1> QED
    BY <1>1 DEF Whole, EndOf, Readable

LEMMA EntryFitsLog ==
    ASSUME Types, NEW c \in Joined, c \in DOMAIN poll.asked => loop # "init"
    PROVE  EntryFits(Entry(c), poll.asked, EndOf(log[c]))
<1>1. PICK h, end : h = log[c] /\ end = EndOf(h)
    OBVIOUS
<1>2. h \in Hashes /\ h.joined /\ Whole(h, written) /\ written \in Nat
    BY <1>1, PageAssumption DEF Types, Joined, Whole
<1>3. h.end # Nil
    BY <1>2 DEF Whole
<1>4. /\ end \in Nat /\ DOMAIN h.lines = 0 .. end - 1
      /\ Readable(h) /\ h.begin = 0 /\ h.end = end
    BY <1>1, <1>2, <1>3, WholeIs
<1>5. INIT_LOG_LINES \in Nat \ {0} /\ UPDATE_LOG_LINES \in Nat \ {0}
    BY LogLinesAssumption
<1>6. PICK S, ids : /\ S = DOMAIN Entry(c).log
                    /\ ids = IF c \in DOMAIN poll.asked THEN IdsAfter(h, poll.asked[c] + 1)
                             ELSE RecentIds(h)
    OBVIOUS
<1>7. S = ids \cap (0 .. end - 1)
    <2>1. Entry(c).log = GetLog(h, ids)
        BY <1>1, <1>6 DEF Entry
    <2>2. DOMAIN GetLog(h, ids) = ids \cap DOMAIN h.lines
        BY <1>2, GetLogIs
    <2> QED
        BY <1>4, <1>6, <2>1, <2>2
<1>8. Entry(c).name = c /\ Entry(c).topic = IF loop = "init" THEN Topic(h) ELSE Nil
    BY <1>1 DEF Entry
<1>9. CASE c \in DOMAIN poll.asked
    <2>1. PICK k : k = poll.asked[c] /\ k \in Nat
        <3>1. poll.asked \in UNION {[D -> Ids] : D \in SUBSET Chan}
            BY DEF Types, Polls
        <3>2. poll.asked[c] \in Ids
            BY <1>9, <3>1
        <3> QED
            BY <3>2, IdsIs
    <2>2. ids = k + 1 .. Smaller(end, k + 1 + UPDATE_LOG_LINES) - 1
        <3>1. Larger(0, k + 1) = k + 1
            BY <2>1 DEF Larger
        <3> QED
            BY <1>4, <1>6, <1>9, <2>1, <3>1 DEF IdsAfter
    <2>3. PICK r \in Int : r = Smaller(end, k + 1 + UPDATE_LOG_LINES) /\ r <= end
        BY <1>4, <1>5, <2>1 DEF Smaller
    <2>4. S = k + 1 .. r - 1
        BY <1>4, <1>7, <2>1, <2>2, <2>3
    <2>5. Convex(S) /\ S \subseteq 0 .. end - 1
        <3>1. k \in Nat /\ r \in Int /\ end \in Nat /\ r <= end
            BY <1>4, <2>1, <2>3
        <3>2. S \subseteq 0 .. end - 1
            BY ONLY <2>4, <3>1
        <3>3. Convex(k + 1 .. r - 1)
            BY ONLY <3>1 DEF Convex
        <3> QED
            BY <2>4, <3>2, <3>3
    <2>6. S # {} => k + 1 \in S /\ \A x \in S : k < x
        BY <2>1, <2>3, <2>4
    <2>7. Recalls(Entry(c).topic, S)
        BY <1>8, <1>9 DEF Recalls
    <2> QED
        BY <1>1, <1>6, <1>8, <2>1, <2>5, <2>6, <2>7 DEF EntryFits
<1>10. CASE c \notin DOMAIN poll.asked
    <2>1. PICK b \in Nat : b = Larger(0, end - INIT_LOG_LINES) /\ (end # 0 => b <= end - 1)
        <3>1. PICK n : n = Larger(0, end - INIT_LOG_LINES)
            OBVIOUS
        <3>2. n = IF 0 > end - INIT_LOG_LINES THEN 0 ELSE end - INIT_LOG_LINES
            BY <3>1 DEF Larger
        <3>3. n \in Nat /\ (end # 0 => n <= end - 1)
            BY <1>4, <1>5, <3>2
        <3> QED
            BY <3>1, <3>3
    <2>2. ids = b .. end - 1
        BY <1>4, <1>6, <1>10, <2>1 DEF RecentIds
    <2>3. S = b .. end - 1
        BY <1>4, <1>7, <2>1, <2>2
    <2>4. Convex(S) /\ S \subseteq 0 .. end - 1
        BY <1>4, <2>1, <2>3 DEF Convex
    <2>5. Recalls(Entry(c).topic, S)
        <3>1. CASE Entry(c).topic = Nil
            BY <3>1 DEF Recalls
        <3>2. CASE Entry(c).topic # Nil
            <4>1. Entry(c).topic = Topic(h) /\ Topic(h) # Nil
                BY <1>8, <3>2
            <4>2. TopicLines(h) # {} /\ Topic(h) = Max(TopicLines(h))
                BY <4>1 DEF Topic
            <4>3. TopicLines(h) \subseteq 0 .. end - 1
                BY <1>4 DEF TopicLines
            <4>4. Topic(h) \in 0 .. end - 1
                <5>1. IsFiniteSet(TopicLines(h)) /\ TopicLines(h) \subseteq Nat
                    <6>1. 0 \in Int /\ end - 1 \in Int
                        BY <1>4
                    <6>2. IsFiniteSet(0 .. end - 1)
                        BY <6>1, FS_Interval
                    <6>3. IsFiniteSet(TopicLines(h))
                        BY <4>3, <6>2, FS_Subset
                    <6>4. \A x \in 0 .. end - 1 : x \in Nat
                        BY <1>4
                    <6> QED
                        BY <4>3, <6>3, <6>4
                <5>2. PICK m \in TopicLines(h) : \A x \in TopicLines(h) : x <= m
                    BY <4>2, <5>1, Greatest
                <5>3. \A x \in TopicLines(h) : m >= x
                    BY <5>1, <5>2
                <5>4. Max(TopicLines(h)) \in TopicLines(h)
                    BY <5>2, <5>3 DEF Max
                <5> QED
                    BY <4>2, <4>3, <5>4
            <4>5. end # 0 /\ end - 1 \in S /\ Topic(h) <= end - 1
                BY <1>4, <2>1, <2>3, <4>4
            <4> QED
                BY <4>1, <4>5 DEF Recalls
        <3> QED
            BY <3>1, <3>2
    <2> QED
        BY <1>1, <1>6, <1>8, <1>10, <2>4, <2>5 DEF EntryFits
<1> QED
    BY <1>9, <1>10

LEMMA UnchangedFits ==
    ASSUME NEW c \in Chan, NEW asked, NEW end
    PROVE  EntryFits(Unchanged(c), asked, end)
<1>1. Unchanged(c).topic = Nil /\ DOMAIN Unchanged(c).log = {}
    BY DEF Unchanged
<1> QED
    BY <1>1 DEF EntryFits, Convex, Recalls

----------------------------------------------------------------------------
(* The mvc page and its log.                                               *)

\* What is shown of each channel is a window of its log.
LinesFit == \A c \in Tabs(screen) : ShownFits(screen, c, EndOf(log[c]))

\* The loop's request is for what follows the newest lines.
AskedFits == poll.at # "none" => poll.asked = LastIDs(screen)

AnswerFits ==
    poll.at = "answered" =>
        /\ Apart(poll.body)
        /\ \A i \in DOMAIN poll.body :
               EntryFits(poll.body[i], poll.asked, EndOf(log[poll.body[i].name]))

PullsFit == \A p \in Range(pulls) : PullFits(p, screen)

\* A page without channels asks for everything.
Starts == loop = "init" => poll.asked = <<>>

\* The mvc page always has a current tab and knows its bounds; it shows windows of the
\* logs as long as none has been thrown away.
Windows == Settled(screen) /\ InPlace(screen)
Fits == LinesFit /\ AskedFits /\ AnswerFits /\ PullsFit

WindowInv == TypesAndTab /\ Starts /\ (mvc => Windows /\ (~cleared => Fits))

LEMMA ShownFitsLonger ==
    ASSUME NEW s, NEW c, NEW m \in Nat, NEW n \in Nat, m <= n, ShownFits(s, c, m)
    PROVE  ShownFits(s, c, n)
<1>1. \A x \in 0 .. m - 1 : x \in 0 .. n - 1
    OBVIOUS
<1> QED
    BY <1>1 DEF ShownFits

LEMMA EntryFitsLonger ==
    ASSUME NEW ch, NEW asked, NEW m \in Nat, NEW n \in Nat, m <= n, EntryFits(ch, asked, m)
    PROVE  EntryFits(ch, asked, n)
<1>1. \A x \in 0 .. m - 1 : x \in 0 .. n - 1
    OBVIOUS
<1>2. DOMAIN ch.log \subseteq 0 .. n - 1
    BY <1>1 DEF EntryFits
<1> QED
    BY <1>2 DEF EntryFits

LEMMA EndIs ==
    ASSUME Types, NEW c \in Chan
    PROVE  EndOf(log[c]) \in Nat
<1>1. Whole(log[c], written) /\ written \in Nat
    BY PageAssumption DEF Types
<1> QED
    BY <1>1, WholeIs

LEMMA LogsGrow ==
    ASSUME Types, Daemon, ~cleared'
    PROVE  ~cleared /\ \A c \in Chan : EndOf(log'[c]) \in Nat /\ EndOf(log[c]) <= EndOf(log'[c])
<1>1. \A c \in Chan : EndOf(log[c]) \in Nat
    BY EndIs
<1>2. log \in [Chan -> Hashes]
    BY DEF Types
<1>3. ASSUME NEW c \in Chan, NEW kind \in {"say", "topic"}, AppendLog(c, kind)
      PROVE  ~cleared /\ \A d \in Chan : EndOf(log'[d]) \in Nat /\ EndOf(log[d]) <= EndOf(log'[d])
    <2>1. log' = [log EXCEPT ![c] = [begin |-> 0, end |-> EndOf(log[c]) + 1, joined |-> TRUE,
                                     lines |-> Put(log[c].lines, EndOf(log[c]), kind)]]
        BY <1>3 DEF AppendLog
    <2>2. log'[c].end = EndOf(log[c]) + 1
        BY <1>2, <2>1
    <2>3. EndOf(log'[c]) = EndOf(log[c]) + 1
        BY <1>1, <2>2 DEF EndOf, Nil
    <2>4. \A d \in Chan \ {c} : log'[d] = log[d]
        BY <1>2, <2>1
    <2>5. cleared' = cleared
        BY <1>3 DEF AppendLog
    <2>6. ASSUME NEW d \in Chan PROVE EndOf(log'[d]) \in Nat /\ EndOf(log[d]) <= EndOf(log'[d])
        <3>1. EndOf(log[d]) \in Nat /\ EndOf(log[c]) \in Nat
            BY <1>1
        <3>2. CASE d = c
            BY <2>3, <3>1, <3>2
        <3>3. CASE d # c
            BY <2>4, <3>1, <3>3
        <3> QED
            BY <3>2, <3>3
    <2> QED
        BY <2>5, <2>6
<1>4. ASSUME NEW c \in Chan, NEW keep \in BOOLEAN, Leave(c, keep)
      PROVE  ~cleared /\ \A d \in Chan : EndOf(log'[d]) \in Nat /\ EndOf(log[d]) <= EndOf(log'[d])
    <2>1. keep /\ ~cleared
        BY <1>4 DEF Leave
    <2>2. log' = [log EXCEPT ![c] = [log[c] EXCEPT !.joined = FALSE]]
        BY <1>4, <2>1 DEF Leave
    <2>3. \A d \in Chan : log'[d].end = log[d].end
        <3>1. log[c] \in Hashes /\ log'[c] = [log[c] EXCEPT !.joined = FALSE]
            BY <1>2, <2>2
        <3>2. log'[c].end = log[c].end
            BY <3>1 DEF Hashes
        <3>3. \A d \in Chan \ {c} : log'[d] = log[d]
            BY <1>2, <2>2
        <3> QED
            BY <3>2, <3>3
    <2>4. ASSUME NEW d \in Chan PROVE EndOf(log'[d]) = EndOf(log[d])
        BY <2>3 DEF EndOf
    <2>5. ASSUME NEW d \in Chan PROVE EndOf(log'[d]) \in Nat /\ EndOf(log[d]) <= EndOf(log'[d])
        <3>1. EndOf(log[d]) \in Nat
            BY <1>1
        <3> QED
            BY <2>4, <3>1
    <2> QED
        BY <2>1, <2>5
<1> QED
    BY <1>3, <1>4 DEF Daemon

LEMMA DaemonFits ==
    ASSUME WindowInv, Daemon, mvc, ~cleared'
    PROVE  Fits'
<1>1. /\ ~cleared /\ Types /\ Fits
      /\ \A c \in Chan : EndOf(log'[c]) \in Nat /\ EndOf(log[c]) <= EndOf(log'[c])
    BY LogsGrow DEF WindowInv, TypesAndTab
<1>2. UNCHANGED <<screen, poll, pulls>>
    BY <1>1, DaemonTypes
<1>3. \A c \in Chan : EndOf(log[c]) \in Nat
    BY <1>1, EndIs
<1>4. ASSUME NEW c \in Tabs(screen) PROVE ShownFits(screen, c, EndOf(log'[c]))
    <2>1. c \in Chan
        BY <1>1 DEF Types, Proper, Tabs, Range
    <2>2. ShownFits(screen, c, EndOf(log[c]))
        BY <1>1 DEF Fits, LinesFit
    <2> QED
        BY <1>1, <1>3, <2>1, <2>2, ShownFitsLonger
<1>5. ASSUME poll.at = "answered"
      PROVE  /\ Apart(poll.body)
             /\ \A i \in DOMAIN poll.body :
                    EntryFits(poll.body[i], poll.asked, EndOf(log'[poll.body[i].name]))
    <2>1. Apart(poll.body)
        BY <1>1, <1>5 DEF Fits, AnswerFits
    <2>2. ASSUME NEW i \in DOMAIN poll.body
          PROVE  EntryFits(poll.body[i], poll.asked, EndOf(log'[poll.body[i].name]))
        <3>1. poll.body[i] \in Entries
            BY <1>1 DEF Types, Polls
        <3>2. poll.body[i].name \in Chan
            BY <3>1 DEF Entries
        <3>3. EntryFits(poll.body[i], poll.asked, EndOf(log[poll.body[i].name]))
            BY <1>1, <1>5 DEF Fits, AnswerFits
        <3> QED
            BY <1>1, <1>3, <3>2, <3>3, EntryFitsLonger
    <2> QED
        BY <2>1, <2>2
<1>6. LinesFit'
    BY <1>2, <1>4 DEF LinesFit
<1>7. AnswerFits'
    BY <1>2, <1>5 DEF AnswerFits
<1>8. AskedFits' /\ PullsFit'
    BY <1>1, <1>2 DEF Fits, AskedFits, PullsFit
<1> QED
    BY <1>6, <1>7, <1>8 DEF Fits

LEMMA AnswerFitsLogs ==
    ASSUME WindowInv, Answer, mvc, ~cleared
    PROVE  Fits'
<1>1. Types /\ Fits /\ Starts
    BY DEF WindowInv, TypesAndTab
<1>2. PICK cs \in SetToSeqs(Joined) :
          \/ AnswerWith([i \in DOMAIN cs |-> Entry(cs[i])])
          \/ AnswerWith([i \in DOMAIN cs |-> Unchanged(cs[i])])
    BY DEF Answer
<1>3. PICK body : /\ \/ body = [i \in DOMAIN cs |-> Entry(cs[i])]
                     \/ body = [i \in DOMAIN cs |-> Unchanged(cs[i])]
                  /\ AnswerWith(body)
    BY <1>2
<1>4. /\ poll' = [poll EXCEPT !.at = "answered", !.body = body] /\ poll \in Polls
      /\ poll.at = "server" /\ UNCHANGED <<log, screen, pulls>>
    BY <1>1, <1>3 DEF AnswerWith, Types, Answer
<1>5. poll'.asked = poll.asked /\ poll'.body = body
    BY <1>4 DEF Polls
<1>6. \A i \in DOMAIN cs : cs[i] \in Joined /\ cs[i] \in Chan
    BY OrderIs DEF Joined
<1>7. \A i, j \in DOMAIN cs : cs[i] = cs[j] => i = j
    BY DEF SetToSeqs
<1>8. DOMAIN body = DOMAIN cs
    BY <1>3
<1>9. \A i \in DOMAIN cs : body[i].name = cs[i]
    BY <1>3 DEF Entry, Unchanged
<1>10. Apart(body)
    BY <1>7, <1>8, <1>9 DEF Apart
<1>11. ASSUME NEW i \in DOMAIN cs PROVE EntryFits(body[i], poll.asked, EndOf(log[cs[i]]))
    <2>1. CASE body[i] = Entry(cs[i])
        <3>1. cs[i] \in DOMAIN poll.asked => loop # "init"
            BY <1>1 DEF Starts
        <3> QED
            BY <1>1, <1>6, <2>1, <3>1, EntryFitsLog
    <2>2. CASE body[i] = Unchanged(cs[i])
        BY <1>6, <2>2, UnchangedFits
    <2> QED
        BY <1>3, <2>1, <2>2
<1>12. AnswerFits'
    BY <1>4, <1>5, <1>8, <1>9, <1>10, <1>11 DEF AnswerFits
<1>13. LinesFit' /\ AskedFits' /\ PullsFit'
    BY <1>1, <1>4, <1>5 DEF Fits, LinesFit, AskedFits, PullsFit
<1> QED
    BY <1>12, <1>13 DEF Fits

\* More is shown, and no channel goes.
Grows(s, t) ==
    \A c \in Tabs(s) : c \in Tabs(t) /\ Range(s.store[c]) \subseteq Range(t.store[c])

\* No topic goes back.
Advances(s, t) ==
    \A c \in Tabs(s) \cap Tabs(t) : t.info[c].topic >= s.info[c].topic

LEMMA PullFitsMore ==
    ASSUME NEW p, NEW s, NEW t, Grows(s, t), PullFits(p, s)
    PROVE  PullFits(p, t)
BY DEF Grows, PullFits

LEMMA TopicInt ==
    ASSUME NEW s, Proper(s), NEW c \in Tabs(s)
    PROVE  s.info[c].topic \in Int
<1>1. s.info[c].topic \in Ids \cup {Nil}
    BY DEF Proper, Infos
<1>2. s.info[c].topic \in Nat \cup {Nil}
    BY <1>1, IdsIs
<1> QED
    BY <1>2 DEF Nil

LEMMA SameAdvances ==
    ASSUME NEW s, NEW t, Proper(s), \A c \in Tabs(s) \cap Tabs(t) : t.info[c].topic = s.info[c].topic
    PROVE  Advances(s, t)
<1> SUFFICES ASSUME NEW c \in Tabs(s) \cap Tabs(t) PROVE t.info[c].topic >= s.info[c].topic
    BY DEF Advances
<1>1. s.info[c].topic \in Int
    BY TopicInt
<1> QED
    BY <1>1

LEMMA OnAnswerFits ==
    ASSUME WindowInv, OnAnswer, mvc
    PROVE  /\ Windows' /\ loop' = "poll"
           /\ ~cleared => Fits' /\ Advances(screen, screen')
<1>1. /\ Types /\ Windows /\ Proper(screen) /\ ~screen.thrown /\ poll \in Polls
      /\ Settled(screen) /\ InPlace(screen) /\ poll.at = "answered"
    BY DEF WindowInv, TypesAndTab, Types, Windows, OnAnswer
<1>2. PICK channels, t : channels = poll.body /\ t = ApplyLogUpdate(screen, channels)
    OBVIOUS
<1>3. channels \in Seq(Entries)
    BY <1>1, <1>2 DEF Polls
<1>4. Proper(t) /\ Settled(t) /\ ~t.thrown
    BY <1>1, <1>2, <1>3, ApplyLogUpdateIs
<1>5. /\ InPlace(t) /\ Tabs(screen) \subseteq Tabs(t)
      /\ Apart(channels) /\ ~t.thrown => Updated(screen, channels, Len(channels), t)
    BY <1>1, <1>2, <1>3, UpdateShows
<1>6. /\ screen' = t /\ loop' = "poll" /\ poll' = Request(LastIDs(t))
      /\ UNCHANGED <<log, mvc, pulls, cleared>>
    BY <1>2, <1>4 DEF OnAnswer
<1>7. Windows'
    BY <1>4, <1>5, <1>6 DEF Windows
<1>8. ASSUME ~cleared PROVE Fits' /\ Advances(screen, t)
    <2>1. LinesFit /\ AskedFits /\ AnswerFits /\ PullsFit
        BY <1>8 DEF WindowInv, Fits
    <2>2. poll.asked = LastIDs(screen)
        BY <1>1, <2>1 DEF AskedFits
    <2>3. /\ Apart(channels)
          /\ \A i \in DOMAIN channels :
                 EntryFits(channels[i], LastIDs(screen), EndOf(log[channels[i].name]))
        BY <1>1, <1>2, <2>1, <2>2 DEF AnswerFits
    <2>4. Updated(screen, channels, Len(channels), t)
        BY <1>4, <1>5, <2>3
    <2>5. DOMAIN channels = 1 .. Len(channels) /\ \A i \in DOMAIN channels : channels[i] \in Entries
        BY <1>3
    <2>6. ASSUME NEW c \in Tabs(t)
          PROVE  /\ ShownFits(t, c, EndOf(log[c]))
                 /\ c \in Tabs(screen) => /\ Range(screen.store[c]) \subseteq Range(t.store[c])
                                          /\ t.info[c].topic >= screen.info[c].topic
        <3>1. c \in Chan
            BY <1>4 DEF Proper, Tabs, Range
        <3>2. EndOf(log[c]) \in Nat
            BY <1>1, <3>1, EndIs
        <3>3. c \in Tabs(screen) => ShownFits(screen, c, EndOf(log[c]))
            BY <2>1 DEF LinesFit
        <3>4. ASSUME NEW i \in DOMAIN channels, channels[i].name = c
              PROVE  /\ ShownFits(t, c, EndOf(log[c]))
                     /\ c \in Tabs(screen) => /\ Range(screen.store[c]) \subseteq Range(t.store[c])
                                              /\ t.info[c].topic >= screen.info[c].topic
            <4>1. PICK ch \in Entries : ch = channels[i]
                BY <2>5
            <4>2. Applied(screen, ch, t) /\ EntryFits(ch, LastIDs(screen), EndOf(log[c]))
                BY <2>3, <2>4, <2>5, <3>4, <4>1 DEF Updated
            <4> QED
                BY <1>1, <1>4, <3>2, <3>3, <3>4, <4>1, <4>2, AppliedFits
        <3>5. CASE \A i \in DOMAIN channels : channels[i].name # c
            <4>1. SameIn(screen, t, c)
                BY <2>4, <2>5, <3>1, <3>5 DEF Updated
            <4>2. /\ c \in Tabs(screen) /\ t.info[c] = screen.info[c]
                  /\ t.store[c] = screen.store[c]
                BY <4>1 DEF SameIn
            <4>3. ShownFits(t, c, EndOf(log[c]))
                BY <3>3, <4>2 DEF ShownFits
            <4>5. screen.info[c].topic \in Int
                BY <1>1, <4>2, TopicInt
            <4> QED
                BY <4>2, <4>3, <4>5
        <3> QED
            BY <3>4, <3>5
    <2>7. LinesFit'
        BY <1>6, <2>6 DEF LinesFit
    <2>8. Grows(screen, t) /\ Advances(screen, t)
        BY <1>5, <2>6 DEF Grows, Advances
    <2>9. PullsFit'
        BY <1>6, <2>1, <2>8, PullFitsMore DEF PullsFit
    <2>10. AskedFits' /\ AnswerFits'
        BY <1>6 DEF AskedFits, AnswerFits, Request
    <2> QED
        BY <2>7, <2>8, <2>9, <2>10 DEF Fits
<1> QED
    BY <1>6, <1>7, <1>8

\* The other ends of a request change nothing that is shown.
LEMMA LoopFits ==
    ASSUME WindowInv, OnAnswerDeaf \/ OnServerError \/ OnNetworkError, mvc
    PROVE  /\ screen' = screen /\ Windows' /\ loop' # "init" /\ (~cleared => Fits')
<1>1. UNCHANGED <<log, mvc, screen, pulls, cleared>>
    BY DEF OnAnswerDeaf, OnServerError, OnNetworkError
<1>2. /\ loop' # "init"
      /\ poll' = NoRequest \/ poll' = Request(LastIDs(screen))
    BY DEF OnAnswerDeaf, OnServerError, OnNetworkError, Stop
<1>3. Windows'
    BY <1>1 DEF WindowInv, Windows
<1>4. AskedFits' /\ AnswerFits'
    BY <1>1, <1>2 DEF AskedFits, AnswerFits, Request, NoRequest
<1>5. ~cleared => LinesFit' /\ PullsFit'
    BY <1>1 DEF WindowInv, Fits, LinesFit, PullsFit
<1> QED
    BY <1>1, <1>2, <1>3, <1>4, <1>5 DEF Fits

LEMMA PullFitsScreen ==
    ASSUME WindowInv, Pull, mvc, ~cleared
    PROVE  Fits'
<1>1. /\ Types /\ Fits /\ InPlace(screen) /\ Proper(screen) /\ ~screen.thrown
      /\ pulls \in Seq(Pulls)
    BY DEF WindowInv, TypesAndTab, Types, Windows
<1>2. PICK c : c = screen.active
    OBVIOUS
<1>3. PICK p : p = [at |-> "server", chan |-> c, lines |-> <<>>,
                    lastid |-> IF screen.info[c].oldest = Nil THEN 0 ELSE screen.info[c].oldest]
    OBVIOUS
<1>4. /\ pulls' = Append(pulls, p) /\ c \in Tabs(screen)
      /\ UNCHANGED <<log, screen, poll>>
    BY <1>2, <1>3 DEF Pull, HasCurrent
<1>5. PullFits(p, screen)
    <2>1. p.lastid # 0 => p.lastid \in Range(screen.store[c])
        <3>1. ASSUME p.lastid # 0 PROVE p.lastid \in Range(screen.store[c])
            <4>1. screen.info[c].oldest # Nil /\ p.lastid = screen.info[c].oldest
                BY <1>3, <3>1
            <4>2. /\ Noted(screen, c) /\ Sorted(screen.store[c])
                  /\ screen.store[c] \in Seq(Ids)
                BY <1>1, <1>4 DEF InPlace, Proper
            <4>3. screen.store[c] # <<>> /\ p.lastid = Head(screen.store[c])
                BY <4>1, <4>2 DEF Noted
            <4> QED
                BY <4>2, <4>3, EndsAre
        <3> QED
            BY <3>1
    <2> QED
        BY <1>3, <1>4, <2>1 DEF PullFits
<1>6. \A q \in Range(pulls') : q \in Range(pulls) \/ q = p
    <2>1. /\ DOMAIN pulls' = 1 .. Len(pulls) + 1 /\ pulls'[Len(pulls) + 1] = p
          /\ \A i \in 1 .. Len(pulls) : pulls'[i] = pulls[i]
        BY <1>1, <1>4
    <2>2. DOMAIN pulls = 1 .. Len(pulls)
        BY <1>1
    <2> QED
        BY <2>1, <2>2 DEF Range
<1>7. PullsFit'
    BY <1>1, <1>4, <1>5, <1>6 DEF PullsFit, Fits
<1>8. LinesFit' /\ AskedFits' /\ AnswerFits'
    BY <1>1, <1>4 DEF Fits, LinesFit, AskedFits, AnswerFits
<1> QED
    BY <1>7, <1>8 DEF Fits

LEMMA OldLinesFit ==
    ASSUME WindowInv, NEW i \in DOMAIN pulls, AnswerOld(i), mvc, ~cleared
    PROVE  Fits'
<1>1. Types /\ Fits /\ pulls \in Seq(Pulls)
    BY DEF WindowInv, TypesAndTab, Types
<1>2. PICK p, c, h : p = pulls[i] /\ c = p.chan /\ h = log[c]
    OBVIOUS
<1>3. PICK lines : lines = GetLog(h, IdsBefore(h, p.lastid))
    OBVIOUS
<1>4. p \in Pulls /\ p \in Range(pulls)
    BY <1>1, <1>2 DEF Range
<1>5. c \in Chan /\ p.lastid \in Nat
    <2>1. c \in Chan /\ p.lastid \in Ids \cup {0}
        BY <1>2, <1>4 DEF Pulls
    <2>2. Ids \cup {0} \subseteq Nat
        BY IdsIs
    <2> QED
        BY <2>1, <2>2
<1>6. PICK r : r = [p EXCEPT !.at = "answered", !.lines = lines]
    OBVIOUS
<1>7. pulls' = [pulls EXCEPT ![i] = r] /\ UNCHANGED <<log, screen, poll>>
    BY <1>1, <1>2, <1>3, <1>6 DEF AnswerOld
<1>8. r.chan = c /\ r.lastid = p.lastid /\ r.lines = lines
    BY <1>2, <1>4, <1>6 DEF Pulls
<1>9. PullFits(p, screen)
    BY <1>1, <1>4 DEF Fits, PullsFit
<1>10. Whole(h, written) /\ written \in Nat /\ h \in Hashes
    BY <1>1, <1>2, <1>5, PageAssumption DEF Types
<1>11. PICK end \in Nat : /\ end = EndOf(h) /\ DOMAIN h.lines = 0 .. end - 1
                          /\ h.end # Nil => Readable(h) /\ h.begin = 0 /\ h.end = end
                          /\ h.end = Nil => end = 0
    BY <1>10, WholeIs
<1>12. DOMAIN lines = IdsBefore(h, p.lastid) \cap (0 .. end - 1)
    BY <1>3, <1>10, <1>11, GetLogIs
<1>13. p.lastid <= end
    <2>1. CASE p.lastid = 0
        BY <1>11, <2>1
    <2>2. CASE p.lastid # 0
        <3>1. c \in Tabs(screen) /\ p.lastid \in Range(screen.store[c])
            BY <1>2, <1>9, <2>2 DEF PullFits
        <3>2. ShownFits(screen, c, end)
            BY <1>1, <1>2, <1>11, <3>1 DEF Fits, LinesFit
        <3>3. p.lastid \in 0 .. end - 1
            BY <3>1, <3>2 DEF ShownFits
        <3> QED
            BY <1>11, <3>3
    <2> QED
        BY <2>1, <2>2
<1>14. ASSUME NEW x \in DOMAIN lines
       PROVE  x < p.lastid /\ \A z \in Nat : x <= z /\ z < p.lastid => z \in DOMAIN lines
    <2>1. x \in 0 .. end - 1 /\ x \in IdsBefore(h, p.lastid)
        BY <1>12, <1>14
    <2>2. h.end # Nil
        BY <1>11, <2>1
    <2>3. h.begin = 0 /\ h.end = end /\ Readable(h)
        BY <1>11, <2>2
    <2>4. Smaller(end, p.lastid) = p.lastid
        BY <1>5, <1>13 DEF Smaller
    <2>5. PICK b : b = Larger(0, p.lastid - OLD_LOG_LINES)
        OBVIOUS
    <2>6. b = IF 0 > p.lastid - OLD_LOG_LINES THEN 0 ELSE p.lastid - OLD_LOG_LINES
        BY <2>5 DEF Larger
    <2>7. b \in Nat
        BY <1>5, <2>6, LogLinesAssumption
    <2>8. IdsBefore(h, p.lastid) = b .. p.lastid - 1
        BY <2>3, <2>4, <2>5 DEF IdsBefore
    <2> QED
        BY <1>5, <1>12, <1>13, <2>1, <2>7, <2>8
<1>15. PullFits(r, screen)
    BY <1>2, <1>8, <1>9, <1>14 DEF PullFits
<1>16. \A q \in Range(pulls') : q \in Range(pulls) \/ q = r
    BY <1>7 DEF Range
<1>17. PullsFit'
    BY <1>1, <1>7, <1>15, <1>16 DEF PullsFit, Fits
<1>18. LinesFit' /\ AskedFits' /\ AnswerFits'
    BY <1>1, <1>7 DEF Fits, LinesFit, AskedFits, AnswerFits
<1> QED
    BY <1>17, <1>18 DEF Fits

LEMMA OnOldErrorFits ==
    ASSUME WindowInv, NEW i \in DOMAIN pulls, OnOldError(i), mvc, ~cleared
    PROVE  Fits'
<1>1. Fits /\ pulls \in Seq(Pulls)
    BY DEF WindowInv, TypesAndTab, Types
<1>2. pulls' = RemoveAt(pulls, i) /\ UNCHANGED <<log, screen, poll>>
    BY DEF OnOldError
<1>3. i \in 1 .. Len(pulls)
    BY <1>1
<1>4. \A p \in Range(pulls') : p \in Range(pulls)
    BY <1>1, <1>2, <1>3, RemoveAtIs
<1> QED
    BY <1>1, <1>2, <1>4 DEF Fits, LinesFit, AskedFits, AnswerFits, PullsFit

LEMMA OnOldAnswerFits ==
    ASSUME WindowInv, NEW i \in DOMAIN pulls, OnOldAnswer(i), mvc
    PROVE  /\ Windows'
           /\ ~cleared => Fits' /\ Advances(screen, screen')
<1>1. /\ Types /\ Settled(screen) /\ InPlace(screen) /\ Proper(screen) /\ ~screen.thrown
      /\ pulls \in Seq(Pulls)
    BY DEF WindowInv, TypesAndTab, Types, Windows
<1>2. PICK p, c, ch : p = pulls[i] /\ c = p.chan /\ ch = [name |-> p.chan, log |-> p.lines]
    OBVIOUS
<1>3. p \in Pulls /\ p \in Range(pulls) /\ p.at = "answered"
    BY <1>1, <1>2 DEF Range, OnOldAnswer
<1>4. ch.log \in Logs /\ ch.name = c /\ c \in Chan
    BY <1>2, <1>3 DEF Pulls
<1>5. PICK isOldLog \in BOOLEAN : isOldLog
    OBVIOUS
<1>6. PICK t : t = ShowOldLog(screen, ch, isOldLog)
    OBVIOUS
<1>7. /\ screen' = [t EXCEPT !.thrown = FALSE] /\ pulls' = RemoveAt(pulls, i)
      /\ UNCHANGED <<log, mvc, loop, poll, cleared>>
    <2>1. ShowOldLog(screen, ch, mvc) = t
        <3>1. mvc = isOldLog
            BY <1>1, <1>5 DEF Types
        <3> QED
            BY <1>6, <3>1
    <2> QED
        BY <1>2, <2>1 DEF OnOldAnswer
<1>8. Proper(t) /\ t.tabs = screen.tabs /\ t.active = screen.active
    BY <1>1, <1>4, <1>6, ShowOldLogIs
<1>9. /\ ~t.thrown /\ InPlace(t)
      /\ c \notin Tabs(screen) => t = screen
      /\ c \in Tabs(screen) => OnlyOf(c, screen, t) /\ OldShown(screen, ch, isOldLog, t)
    <2>1. CASE c \notin Tabs(screen)
        <3>1. t = screen
            BY <1>4, <1>6, <2>1 DEF ShowOldLog
        <3> QED
            BY <1>1, <2>1, <3>1
    <2>2. CASE c \in Tabs(screen)
        <3>1. ~t.thrown /\ InPlace(t) /\ OnlyOf(c, screen, t) /\ OldShown(screen, ch, isOldLog, t)
            BY <1>1, <1>4, <1>5, <1>6, <2>2, ShowOldLogShows
        <3> QED
            BY <2>2, <3>1
    <2> QED
        BY <2>1, <2>2
<1>10. screen' = t
    <2>1. t.thrown = FALSE
        BY <1>8, <1>9 DEF Proper
    <2> QED
        BY <1>7, <1>8, <2>1 DEF Proper
<1>11. Windows'
    BY <1>1, <1>8, <1>9, <1>10 DEF Windows, Settled, HasCurrent, Tabs
<1>12. ASSUME ~cleared PROVE Fits' /\ Advances(screen, t)
    <2>1. LinesFit /\ AskedFits /\ AnswerFits /\ PullsFit
        BY <1>12 DEF WindowInv, Fits
    <2>2. Tabs(t) = Tabs(screen)
        BY <1>8 DEF Tabs
    <2>3. /\ \A d \in Tabs(screen) : /\ ShownFits(t, d, EndOf(log[d]))
                                     /\ Range(screen.store[d]) \subseteq Range(t.store[d])
                                     /\ t.info[d].topic = screen.info[d].topic
          /\ LastIDs(t) = LastIDs(screen)
        <3>1. CASE c \notin Tabs(screen)
            BY <1>9, <2>1, <3>1 DEF LinesFit
        <3>2. CASE c \in Tabs(screen)
            <4>1. EndOf(log[c]) \in Nat
                BY <1>1, <1>4, EndIs
            <4>2. ShownFits(screen, c, EndOf(log[c])) /\ PullFits(p, screen)
                BY <1>3, <2>1, <3>2 DEF LinesFit, PullsFit
            <4>3. OnlyOf(c, screen, t) /\ OldShown(screen, ch, TRUE, t)
                <5>1. isOldLog = TRUE
                    BY <1>5
                <5> QED
                    BY <1>9, <3>2, <5>1
            <4>4. /\ ShownFits(t, c, EndOf(log[c]))
                  /\ Range(screen.store[c]) \subseteq Range(t.store[c])
                  /\ t.info[c].topic = screen.info[c].topic /\ LastIDs(t) = LastIDs(screen)
                <5>1. ch.name = p.chan /\ ch.log = p.lines /\ c = p.chan
                    BY <1>2
                <5>2. PICK end \in Nat : end = EndOf(log[c])
                    BY <4>1
                <5>3. ShownFits(screen, c, end)
                    BY <4>2, <5>2
                <5>4. PullFits(p, screen)
                    BY <4>2
                <5>5. StillFits(screen, t, c, end)
                    BY <1>1, <1>3, <1>8, <1>9, <3>2, <4>3, <5>1, <5>3, <5>4, OldFits
                <5> QED
                    BY <5>2, <5>5 DEF StillFits
            <4>5. ASSUME NEW d \in Tabs(screen), d # c
                  PROVE  /\ ShownFits(t, d, EndOf(log[d]))
                         /\ Range(screen.store[d]) \subseteq Range(t.store[d])
                         /\ t.info[d].topic = screen.info[d].topic
                <5>1. t.info[d] = screen.info[d] /\ t.store[d] = screen.store[d]
                    BY <4>3, <4>5 DEF OnlyOf
                <5>2. ShownFits(screen, d, EndOf(log[d]))
                    BY <2>1 DEF LinesFit
                <5> QED
                    BY <5>1, <5>2 DEF ShownFits
            <4> QED
                BY <4>4, <4>5
        <3> QED
            BY <3>1, <3>2
    <2>4. LinesFit'
        BY <1>7, <1>10, <2>2, <2>3 DEF LinesFit
    <2>5. AskedFits' /\ AnswerFits'
        BY <1>7, <1>10, <2>1, <2>3 DEF AskedFits, AnswerFits
    <2>6. Grows(screen, t)
        BY <2>2, <2>3 DEF Grows
    <2>7. PullsFit'
        <3>1. i \in 1 .. Len(pulls)
            BY <1>1
        <3>2. \A q \in Range(pulls') : q \in Range(pulls)
            BY <1>1, <1>7, <3>1, RemoveAtIs
        <3>3. \A q \in Range(pulls') : PullFits(q, t)
            BY <2>1, <2>6, <3>2, PullFitsMore DEF PullsFit
        <3> QED
            BY <1>10, <3>3 DEF PullsFit
    <2>8. Advances(screen, t)
        BY <1>1, <2>3, SameAdvances
    <2> QED
        BY <2>4, <2>5, <2>7, <2>8 DEF Fits
<1> QED
    BY <1>10, <1>11, <1>12

LEMMA TurnFits ==
    ASSUME WindowInv, NEW c \in Chan, Turn(c), mvc
    PROVE  /\ Windows' /\ (~cleared => Fits')
           /\ screen'.tabs = screen.tabs /\ screen'.info = screen.info
<1>1. /\ Types /\ Settled(screen) /\ InPlace(screen) /\ Proper(screen) /\ ~screen.thrown
    BY DEF WindowInv, TypesAndTab, Types, Windows
<1>2. /\ screen' = [screen EXCEPT !.active = c] /\ c \in Tabs(screen)
      /\ UNCHANGED <<log, mvc, poll, pulls, cleared>>
    BY DEF Turn
<1>3. PICK t : t = screen'
    OBVIOUS
<1>4. /\ t.tabs = screen.tabs /\ t.info = screen.info /\ t.store = screen.store
      /\ t.thrown = screen.thrown /\ t.active = c
    BY <1>1, <1>2, <1>3 DEF Proper
<1>5. Tabs(t) = Tabs(screen)
    BY <1>4 DEF Tabs
<1>6. Settled(t) /\ InPlace(t)
    BY <1>1, <1>2, <1>4, <1>5 DEF Settled, HasCurrent, InPlace, Noted
<1>7. Windows'
    BY <1>3, <1>6 DEF Windows
<1>8. LastIDs(t) = LastIDs(screen)
    BY <1>4, <1>5 DEF LastIDs
<1>9. ASSUME ~cleared PROVE Fits'
    <2>1. LinesFit /\ AskedFits /\ AnswerFits /\ PullsFit
        BY <1>9 DEF WindowInv, Fits
    <2>2. \A d \in Tabs(screen) : ShownFits(t, d, EndOf(log[d]))
        BY <1>4, <2>1 DEF LinesFit, ShownFits
    <2>3. \A p \in Range(pulls) : PullFits(p, t)
        BY <1>4, <1>5, <2>1 DEF PullsFit, PullFits
    <2> QED
        BY <1>2, <1>3, <1>5, <1>8, <2>1, <2>2, <2>3 DEF Fits, LinesFit, AskedFits, AnswerFits, PullsFit
<1> QED
    BY <1>3, <1>4, <1>7, <1>9

LEMMA BlankFits ==
    ASSUME NEW s, s = Blank
    PROVE  Settled(s) /\ InPlace(s) /\ Tabs(s) = {} /\ LastIDs(s) = <<>>
<1>1. Tabs(s) = {}
    BY DEF Blank, Tabs, Range
<1>2. s.tabs = <<>> /\ s.active = NoTab
    BY DEF Blank
<1>3. LastIDs(s) = <<>>
    <2>1. {d \in Tabs(s) : s.info[d].newest # Nil} = {}
        BY <1>1
    <2>2. LastIDs(s) = [c \in {} |-> s.info[c].newest]
        BY <2>1 DEF LastIDs
    <2> QED
        BY <2>2
<1> QED
    BY <1>1, <1>2, <1>3 DEF Settled, InPlace

LEMMA InitFits == Init => WindowInv
<1> SUFFICES ASSUME Init PROVE WindowInv
    OBVIOUS
<1>1. screen = Blank /\ poll = Request(<<>>) /\ pulls = <<>>
    BY DEF Init
<1>2. Settled(screen) /\ InPlace(screen) /\ Tabs(screen) = {} /\ LastIDs(screen) = <<>>
    BY <1>1, BlankFits
<1>3. poll.asked = <<>> /\ poll.at = "server"
    BY <1>1 DEF Request
<1>4. Range(pulls) = {}
    BY <1>1 DEF Range
<1> QED
    BY <1>2, <1>3, <1>4, InitTypes
    DEF WindowInv, Starts, Windows, Fits, LinesFit, AskedFits, AnswerFits, PullsFit

LEMMA ReloadFits ==
    ASSUME Reload
    PROVE  Windows' /\ Fits' /\ Starts' /\ Tabs(screen') = {}
<1>1. screen' = Blank /\ poll' = Request(<<>>) /\ pulls' = <<>>
    BY DEF Reload, Loaded
<1>2. PICK t : t = screen'
    OBVIOUS
<1>3. Settled(t) /\ InPlace(t) /\ Tabs(t) = {} /\ LastIDs(t) = <<>>
    BY <1>1, <1>2, BlankFits
<1>4. poll'.asked = <<>> /\ poll'.at = "server"
    BY <1>1 DEF Request
<1>5. Range(pulls') = {}
    BY <1>1 DEF Range
<1> QED
    BY <1>2, <1>3, <1>4, <1>5
    DEF Starts, Windows, Fits, LinesFit, AskedFits, AnswerFits, PullsFit

LEMMA StartsStep ==
    ASSUME WindowInv, [Next]_vars
    PROVE  Starts'
<1>1. Types /\ Starts
    BY DEF WindowInv, TypesAndTab
<1>2. CASE Daemon
    BY <1>1, <1>2, DaemonTypes DEF Starts
<1>3. CASE Answer
    <2>1. /\ loop' = loop /\ poll \in Polls
          /\ \E body : poll' = [poll EXCEPT !.at = "answered", !.body = body]
        BY <1>1, <1>3 DEF Answer, AnswerWith, Types
    <2>2. poll'.asked = poll.asked
        BY <2>1 DEF Polls
    <2> QED
        BY <1>1, <2>1, <2>2 DEF Starts
<1>4. CASE Loop
    BY <1>4 DEF Loop, OnAnswer, OnAnswerDeaf, OnServerError, OnNetworkError, Stop, Starts
<1>5. CASE Pull \/ \E i \in DOMAIN pulls : AnswerOld(i) \/ OnOldAnswer(i) \/ OnOldError(i)
    BY <1>1, <1>5 DEF Pull, AnswerOld, OnOldAnswer, OnOldError, Starts
<1>6. CASE \E c \in Chan : Turn(c)
    BY <1>1, <1>6 DEF Turn, Starts
<1>7. CASE Reload
    BY <1>7, ReloadFits
<1>8. CASE UNCHANGED vars
    BY <1>1, <1>8 DEF vars, Starts
<1> QED
    BY <1>2, <1>3, <1>4, <1>5, <1>6, <1>7, <1>8 DEF Next

\* What a step does to what the mvc page shows.
LEMMA WindowStep ==
    ASSUME WindowInv, [Next]_vars, mvc
    PROVE  /\ mvc' /\ Windows' /\ (~cleared' => Fits')
           /\ ~cleared => Advances(screen, screen')
<1>1. Types /\ Windows /\ Proper(screen)
    BY DEF WindowInv, TypesAndTab, Types
<1>2. (~cleared => Fits) /\ Advances(screen, screen)
    BY <1>1, SameAdvances DEF WindowInv
<1>3. CASE Daemon
    <2>1. UNCHANGED <<mvc, screen>>
        BY <1>1, <1>3, DaemonTypes
    <2> QED
        BY <1>1, <1>2, <1>3, <2>1, DaemonFits DEF Windows
<1>4. CASE Answer
    <2>1. UNCHANGED <<mvc, screen, cleared>>
        BY <1>4 DEF Answer
    <2> QED
        BY <1>1, <1>2, <1>4, <2>1, AnswerFitsLogs DEF Windows
<1>5. CASE OnAnswer
    <2>1. UNCHANGED <<mvc, cleared>>
        BY <1>5 DEF OnAnswer
    <2> QED
        BY <1>5, <2>1, OnAnswerFits
<1>6. CASE OnAnswerDeaf \/ OnServerError \/ OnNetworkError
    <2>1. UNCHANGED <<mvc, cleared>>
        BY <1>6 DEF OnAnswerDeaf, OnServerError, OnNetworkError
    <2> QED
        BY <1>2, <1>6, <2>1, LoopFits
<1>7. CASE Pull
    <2>1. UNCHANGED <<mvc, screen, cleared>>
        BY <1>7 DEF Pull
    <2> QED
        BY <1>1, <1>2, <1>7, <2>1, PullFitsScreen DEF Windows
<1>8. ASSUME NEW i \in DOMAIN pulls, AnswerOld(i) \/ OnOldError(i)
      PROVE  /\ mvc' /\ Windows' /\ (~cleared' => Fits')
             /\ ~cleared => Advances(screen, screen')
    <2>1. UNCHANGED <<mvc, screen, cleared>>
        BY <1>8 DEF AnswerOld, OnOldError
    <2>2. ~cleared => Fits'
        BY <1>8, OldLinesFit, OnOldErrorFits
    <2> QED
        BY <1>1, <1>2, <2>1, <2>2 DEF Windows
<1>9. ASSUME NEW i \in DOMAIN pulls, OnOldAnswer(i)
      PROVE  /\ mvc' /\ Windows' /\ (~cleared' => Fits')
             /\ ~cleared => Advances(screen, screen')
    <2>1. UNCHANGED <<mvc, cleared>>
        BY <1>9 DEF OnOldAnswer
    <2> QED
        BY <1>9, <2>1, OnOldAnswerFits
<1>10. ASSUME NEW c \in Chan, Turn(c)
       PROVE  /\ mvc' /\ Windows' /\ (~cleared' => Fits')
              /\ ~cleared => Advances(screen, screen')
    <2>1. UNCHANGED <<mvc, cleared>>
        BY <1>10 DEF Turn
    <2>2. /\ Windows' /\ (~cleared => Fits')
          /\ screen'.tabs = screen.tabs /\ screen'.info = screen.info
        BY <1>10, TurnFits
    <2>3. Advances(screen, screen')
        BY <1>2, <2>2 DEF Advances, Tabs
    <2> QED
        BY <2>1, <2>2, <2>3
<1>11. CASE Reload
    <2>1. mvc' = mvc
        BY <1>11 DEF Reload
    <2>2. Windows' /\ Fits' /\ Tabs(screen') = {}
        BY <1>11, ReloadFits
    <2> QED
        BY <2>1, <2>2 DEF Advances
<1>12. CASE UNCHANGED vars
    <2>1. UNCHANGED <<log, mvc, screen, poll, pulls, cleared>>
        BY <1>12 DEF vars
    <2>2. ~cleared => Fits'
        BY <1>2, <2>1 DEF Fits, LinesFit, AskedFits, AnswerFits, PullsFit
    <2> QED
        BY <1>1, <1>2, <2>1, <2>2 DEF Windows
<1> QED
    BY <1>3, <1>4, <1>5, <1>6, <1>7, <1>8, <1>9, <1>10, <1>11, <1>12 DEF Next, Loop

LEMMA WindowAlways == Spec => []WindowInv
<1>1. WindowInv /\ [Next]_vars => WindowInv'
    <2> SUFFICES ASSUME WindowInv, [Next]_vars PROVE WindowInv'
        OBVIOUS
    <2>1. TypesAndTab'
        BY StepTypes DEF WindowInv
    <2>2. mvc' = mvc
        BY DEF Next, Daemon, AppendLog, Leave, Answer, Loop, OnAnswer, OnAnswerDeaf, OnServerError,
            OnNetworkError, Pull, AnswerOld, OnOldAnswer, OnOldError, Turn, Reload, vars
    <2>3. Starts'
        BY StartsStep
    <2>4. mvc => Windows' /\ (~cleared' => Fits')
        BY WindowStep
    <2> QED
        BY <2>1, <2>2, <2>3, <2>4 DEF WindowInv
<1> QED
    BY <1>1, InitFits, PTL DEF Spec

\* A window in order leaves nothing out: from one line to the next the id stays, if the
\* line is doubled, or goes up by one.
LEMMA InOrderWithoutGap ==
    ASSUME NEW q \in Seq(Ids), Sorted(q), Convex(Range(q)), NEW k \in 1 .. Len(q) - 1
    PROVE  q[k + 1] - q[k] \in {0, 1}
<1>1. Len(q) \in Nat /\ Range(q) = {q[i] : i \in 1 .. Len(q)}
    BY RangeIs
<1>2. k \in 1 .. Len(q) /\ k + 1 \in 1 .. Len(q) /\ k <= k + 1
    BY <1>1
<1>3. \A i \in 1 .. Len(q) : q[i] \in Ids
    OBVIOUS
<1>4. \A i \in 1 .. Len(q) : q[i] \in Nat
    BY <1>3, IdsIs
<1>5. PICK x \in Nat, y \in Nat : x = q[k] /\ y = q[k + 1]
    BY <1>2, <1>4
<1>6. x <= y
    BY <1>2, <1>5 DEF Sorted
<1>7. SUFFICES ASSUME x + 1 < y PROVE FALSE
    BY <1>5, <1>6
<1>8. x + 1 \in Range(q)
    <2>1. x \in Range(q) /\ y \in Range(q)
        BY <1>1, <1>2, <1>5
    <2>2. x <= x + 1 /\ x + 1 <= y /\ x + 1 \in Nat
        BY <1>7
    <2> QED
        BY <2>1, <2>2 DEF Convex
<1>9. PICK i \in 1 .. Len(q) : q[i] = x + 1
    BY <1>1, <1>8
<1>10. CASE i <= k
    <2>1. x + 1 <= x
        BY <1>2, <1>5, <1>9, <1>10 DEF Sorted
    <2> QED
        BY <2>1
<1>11. CASE k + 1 <= i
    <2>1. y <= x + 1
        BY <1>2, <1>5, <1>9, <1>11 DEF Sorted
    <2> QED
        BY <1>7, <2>1
<1> QED
    BY <1>2, <1>10, <1>11

\* The mvc page shows a channel's lines in order and without a gap, whatever pulls and
\* polls overtake each other, as long as no log is thrown away: asking for what follows
\* the newest line and for what precedes the oldest one is enough.
THEOREM NoGaps == Spec => []WindowOfLog
<1>1. WindowInv => WindowOfLog
    <2> SUFFICES ASSUME WindowInv, mvc, ~cleared, NEW c \in Tabs(screen),
                        NEW k \in 1 .. Len(screen.store[c]) - 1
                 PROVE  screen.store[c][k + 1] - screen.store[c][k] \in {0, 1}
        BY DEF WindowOfLog, Shown
    <2>1. screen.store[c] \in Seq(Ids)
        BY DEF WindowInv, TypesAndTab, Types, Proper
    <2>2. Sorted(screen.store[c]) /\ Convex(Range(screen.store[c]))
        BY DEF WindowInv, Windows, InPlace, Fits, LinesFit, ShownFits
    <2> QED
        BY <2>1, <2>2, InOrderWithoutGap
<1> QED
    BY <1>1, WindowAlways, PTL

\* The topic of a channel on the mvc page is never replaced by an older one: topic lines
\* of updates are newer than all that is shown, and old ones do not count.
THEOREM TopicNeverBack == Spec => TopicsAdvance
<1>1. WindowInv /\ [Next]_vars =>
          [mvc /\ ~cleared =>
              \A c \in DOMAIN screen.info \cap DOMAIN screen'.info :
                  screen'.info[c].topic >= screen.info[c].topic]_vars
    <2> SUFFICES ASSUME WindowInv, Next, mvc, ~cleared,
                        NEW c \in DOMAIN screen.info \cap DOMAIN screen'.info
                 PROVE  screen'.info[c].topic >= screen.info[c].topic
        BY DEF vars
    <2>1. Advances(screen, screen')
        BY WindowStep
    <2>2. TypesAndTab /\ TypesAndTab'
        BY StepTypes DEF WindowInv
    <2>3. DOMAIN screen.info = Tabs(screen) /\ DOMAIN screen'.info = Tabs(screen')
        BY <2>2 DEF TypesAndTab, Types, Proper
    <2> QED
        BY <2>1, <2>3 DEF Advances
<1> QED
    BY <1>1, WindowAlways, PTL DEF Spec, TopicsAdvance
=============================================================================
