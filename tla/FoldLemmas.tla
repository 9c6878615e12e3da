----------------------------- MODULE FoldLemmas -----------------------------
(***************************************************************************)
(* What a left fold computes: a run of states, each made of the one before *)
(* and the next element.  op is the operation of the fold, with a          *)
(* parameter that stays the same throughout; what is proved here of any op *)
(* holds of the callbacks of a page, see Page_proofs.                      *)
(***************************************************************************)
EXTENDS Naturals, SequencesExt, WellFoundedInduction, TLAPS

CONSTANT op(_, _, _)

----------------------------------------------------------------------------
(* Induction over numbers, for sets instead of predicates.                 *)

LEMMA Least ==
    ASSUME NEW T, T \subseteq Nat, T # {}
    PROVE  \E n \in T : \A m \in T : n <= m
<1>1. PICK R : R = {ss \in Nat \X Nat : ss[1] < ss[2]}
    OBVIOUS
<1>2. IsWellFoundedOn(R, Nat)
    BY <1>1, NatLessThanWellFounded DEF OpToRel
<1>3. PICK x \in T : \A y \in T : <<y, x>> \notin R
    BY <1>2, WFMin
<1>4. \A y \in T : ~(y < x)
    BY <1>1, <1>3
<1>5. \A y \in T : x <= y
    BY <1>4
<1> QED
    BY <1>5

LEMMA Induction ==
    ASSUME NEW N \in Nat, NEW G, 0 \in G, \A i \in 1 .. N : i - 1 \in G => i \in G
    PROVE  \A i \in 0 .. N : i \in G
<1> DEFINE T == {i \in 0 .. N : i \notin G}
<1>1. SUFFICES ASSUME T # {} PROVE FALSE
    OBVIOUS
<1>2. PICK n \in T : \A m \in T : n <= m
    <2>1. T \subseteq Nat
        OBVIOUS
    <2> HIDE DEF T
    <2> QED
        BY <1>1, <2>1, Least
<1>3. n # 0 /\ n - 1 \in 0 .. N /\ n - 1 \notin T
    BY <1>2
<1> QED
    BY <1>2, <1>3

----------------------------------------------------------------------------
(* Folds.                                                                  *)

Fold(a, base, q) == FoldLeft(LAMBDA x, y : op(a, x, y), base, q)

\* The function by which MapThenFoldSet defines a fold over 1 .. n.
Iter(g, n, a, base, q) ==
    g = [s \in SUBSET (1 .. n) |-> IF s = {} THEN base
                                   ELSE op(a, g[s \ {Max(s)}], q[Max(s)])]

LEMMA FoldIs ==
    ASSUME NEW a, NEW base, NEW q, NEW N \in Nat, DOMAIN q = 1 .. N
    PROVE  Fold(a, base, q) = (CHOOSE g : Iter(g, N, a, base, q))[1 .. N]
BY DEF Fold, FoldLeft, MapThenFoldSet, Iter

LEMMA MaxIs ==
    ASSUME NEW n \in Nat, NEW s \in SUBSET (1 .. n), n \in s
    PROVE  Max(s) = n
<1>1. \A y \in s : n >= y
    OBVIOUS
<1>2. \E x \in s : \A y \in s : x >= y
    BY <1>1
<1>3. Max(s) \in s /\ \A y \in s : Max(s) >= y
    BY <1>2 DEF Max
<1>4. PICK m : m = Max(s)
    OBVIOUS
<1>5. m \in 1 .. n /\ m >= n
    BY <1>3, <1>4
<1> QED
    BY <1>4, <1>5

LEMMA IterExists ==
    ASSUME NEW a, NEW base, NEW q, NEW N \in Nat
    PROVE  \E g : Iter(g, N, a, base, q)
<1> DEFINE G == {n \in Nat : \E g : Iter(g, n, a, base, q)}
<1>1. 0 \in G
    <2>1. SUBSET (1 .. 0) = {{}}
        OBVIOUS
    <2>2. Iter([s \in SUBSET (1 .. 0) |-> base], 0, a, base, q)
        BY <2>1 DEF Iter
    <2> QED
        BY <2>2
<1>2. ASSUME NEW n \in 1 .. N, n - 1 \in G PROVE n \in G
    <2>1. PICK g : Iter(g, n - 1, a, base, q)
        BY <1>2
    <2>2. PICK h : h = [s \in SUBSET (1 .. n) |->
                           IF n \in s THEN op(a, g[s \ {n}], q[n]) ELSE g[s]]
        OBVIOUS
    <2>3. \A t \in SUBSET (1 .. n) : n \notin t => t \in SUBSET (1 .. n - 1) /\ h[t] = g[t]
        BY <2>2
    <2>4. ASSUME NEW s \in SUBSET (1 .. n)
          PROVE  h[s] = IF s = {} THEN base ELSE op(a, h[s \ {Max(s)}], q[Max(s)])
        <3>1. CASE n \in s
            <4>1. Max(s) = n
                BY <3>1, MaxIs
            <4>2. h[s] = op(a, g[s \ {n}], q[n])
                BY <2>2, <3>1
            <4>3. g[s \ {n}] = h[s \ {n}]
                BY <2>3
            <4> QED
                BY <3>1, <4>1, <4>2, <4>3
        <3>2. CASE n \notin s
            <4>1. h[s] = g[s] /\ s \in SUBSET (1 .. n - 1)
                BY <2>3, <3>2
            <4>2. h[s \ {Max(s)}] = g[s \ {Max(s)}]
                BY <2>3, <3>2
            <4>3. g[s] = IF s = {} THEN base ELSE op(a, g[s \ {Max(s)}], q[Max(s)])
                BY <2>1, <4>1 DEF Iter
            <4> QED
                BY <4>1, <4>2, <4>3
        <3> QED
            BY <3>1, <3>2
    <2>5. Iter(h, n, a, base, q)
        BY <2>2, <2>4 DEF Iter
    <2> QED
        BY <2>5
<1>3. N \in G
    <2> HIDE DEF G
    <2> QED
        BY <1>1, <1>2, Induction
<1> QED
    BY <1>3

\* f[0], f[1], ... f[N] are states from base on, each made of the one before and the
\* next element.
Runs(f, a, base, q, N) ==
    /\ f[0] = base
    /\ \A i \in 1 .. N : f[i] = op(a, f[i - 1], q[i])

\* A fold runs through such states.
LEMMA FoldRuns ==
    ASSUME NEW a, NEW base, NEW q, NEW N \in Nat, DOMAIN q = 1 .. N
    PROVE  \E f : Runs(f, a, base, q, N) /\ Fold(a, base, q) = f[N]
<1>1. PICK g : Iter(g, N, a, base, q) /\ Fold(a, base, q) = g[1 .. N]
    <2>1. PICK g : g = CHOOSE h : Iter(h, N, a, base, q)
        OBVIOUS
    <2>2. Iter(g, N, a, base, q)
        BY <2>1, IterExists
    <2> QED
        BY <2>1, <2>2, FoldIs
<1>2. PICK f : f = [i \in 0 .. N |-> g[1 .. i]]
    OBVIOUS
<1>3. f[0] = base
    BY <1>1, <1>2 DEF Iter
<1>4. ASSUME NEW i \in 1 .. N PROVE f[i] = op(a, f[i - 1], q[i])
    <2>1. Max(1 .. i) = i
        BY MaxIs
    <2>2. (1 .. i) \ {i} = 1 .. i - 1 /\ 1 .. i \in SUBSET (1 .. N) /\ 1 .. i # {}
        OBVIOUS
    <2>3. g[1 .. i] = op(a, g[1 .. i - 1], q[i])
        BY <1>1, <2>1, <2>2 DEF Iter
    <2> QED
        BY <1>2, <2>3
<1>5. Fold(a, base, q) = f[N]
    BY <1>1, <1>2
<1>6. Runs(f, a, base, q, N)
    BY <1>3, <1>4 DEF Runs
<1> QED
    BY <1>5, <1>6
=============================================================================
