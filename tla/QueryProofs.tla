---------------------------- MODULE QueryProofs ----------------------------
(***************************************************************************)
(* QueryTexts and QueryExecution: what the parser and the optimizer make   *)
(* of any text, of any length, whatever indexes there are; and what a scan *)
(* finds, for any number of documents and indexes, whatever other clients  *)
(* do in the middle of it.                                                 *)
(***************************************************************************)
EXTENDS QueryExecution, QueryTexts, StorageProofs

-----------------------------------------------------------------------------
(***************************************************************************)
(* Induction, for what is computed element by element.                     *)
(***************************************************************************)
LEMMA Induction ==
    ASSUME NEW T, 0 \in T, \A n \in Nat : n \in T => n + 1 \in T
    PROVE  Nat \subseteq T
<1> DEFINE S == Nat \ T
<1> SUFFICES ASSUME S # {} PROVE FALSE
    OBVIOUS
<1>1. PICK m \in S : \A x \in S : m =< x
    <2> HIDE DEF S
    <2>1. S \subseteq Nat
        BY DEF S
    <2> QED BY <2>1, MinIsLeast
<1>2. m \in Nat /\ m # 0
    OBVIOUS
<1>3. m - 1 \in Nat /\ (m - 1) + 1 = m /\ ~ (m =< m - 1)
    BY <1>2
<1>4. m - 1 \in T
    BY <1>1, <1>3
<1> QED BY <1>1, <1>3, <1>4

-----------------------------------------------------------------------------
(***************************************************************************)
(* How often an element is in a sequence.                                  *)
(***************************************************************************)
LEMMA PositionsAreFinite ==
    ASSUME NEW n \in Nat, NEW P
    PROVE  IsFiniteSet({i \in 1 .. n : i \in P}) /\ Cardinality({i \in 1 .. n : i \in P}) \in Nat
<1>1. IsFiniteSet(1 .. n)
    BY FS_Interval
<1> QED BY <1>1, FS_Subset, FS_CardinalityType

\* One position more.
LEMMA OnePositionMore ==
    ASSUME NEW n \in Nat, NEW P
    PROVE  Cardinality({i \in 1 .. n + 1 : i \in P})
           = Cardinality({i \in 1 .. n : i \in P}) + (IF n + 1 \in P THEN 1 ELSE 0)
<1> DEFINE A == {i \in 1 .. n : i \in P}
           B == {i \in 1 .. n + 1 : i \in P}
<1>1. IsFiniteSet(A) /\ Cardinality(A) \in Nat
    BY PositionsAreFinite
<1>2. n + 1 \notin A
    OBVIOUS
<1>3. CASE n + 1 \in P
    <2>1. B = A \cup {n + 1}
        BY <1>3
    <2> HIDE DEF A, B
    <2> QED BY <1>1, <1>2, <1>3, <2>1, FS_AddElement DEF A, B
<1>4. CASE n + 1 \notin P
    <2>1. B = A
        BY <1>4
    <2> HIDE DEF A, B
    <2> QED BY <1>1, <1>4, <2>1 DEF A, B
<1> QED BY <1>3, <1>4

LEMMA TimesOfAppend ==
    ASSUME NEW S, NEW s \in Seq(S), NEW x \in S, NEW e
    PROVE  /\ Times(s, e) \in Nat
           /\ Times(Append(s, x), e) = Times(s, e) + (IF x = e THEN 1 ELSE 0)
<1> DEFINE t == Append(s, x)
           n == Len(s)
           P == {i \in DOMAIN t : t[i] = e}
<1>1. n \in Nat /\ DOMAIN s = 1 .. n /\ DOMAIN t = 1 .. n + 1
    OBVIOUS
<1>2. (\A i \in 1 .. n : t[i] = s[i]) /\ t[n + 1] = x
    OBVIOUS
<1> HIDE DEF t, n
<1>3. {i \in DOMAIN s : s[i] = e} = {i \in 1 .. n : i \in P}
    BY <1>1, <1>2
<1>4. {i \in DOMAIN t : t[i] = e} = {i \in 1 .. n + 1 : i \in P}
    BY <1>1
<1>5. n + 1 \in P <=> x = e
    BY <1>1, <1>2
<1>6. Times(s, e) = Cardinality({i \in 1 .. n : i \in P})
    BY <1>3 DEF Times
<1>7. Times(t, e) = Cardinality({i \in 1 .. n + 1 : i \in P})
    BY <1>4 DEF Times
<1> HIDE DEF P
<1>8. Times(t, e) = Times(s, e) + (IF n + 1 \in P THEN 1 ELSE 0) /\ Times(s, e) \in Nat
    <2>1. Cardinality({i \in 1 .. n : i \in P}) \in Nat
        BY <1>1, PositionsAreFinite
    <2>2. Cardinality({i \in 1 .. n + 1 : i \in P})
          = Cardinality({i \in 1 .. n : i \in P}) + (IF n + 1 \in P THEN 1 ELSE 0)
        BY <1>1, OnePositionMore
    <2> QED BY <1>6, <1>7, <2>1, <2>2
<1> QED BY <1>5, <1>8 DEF t

LEMMA TimesIsNat ==
    ASSUME NEW S, NEW s \in Seq(S)
    PROVE  \A e : Times(s, e) \in Nat
<1>1. IsFiniteSet(DOMAIN s)
    BY FS_Interval
<1>2. \A e : {i \in DOMAIN s : s[i] = e} \subseteq DOMAIN s
    OBVIOUS
<1> QED BY <1>1, <1>2, FS_Subset, FS_CardinalityType DEF Times

-----------------------------------------------------------------------------
(***************************************************************************)
(* What Selected returns.                                                  *)
(***************************************************************************)
\* The function that Selected recurses over, up to position n.
SelectsUpTo(f, s, P, n) ==
    f = [i \in 0 .. n |->
           IF i = 0 THEN <<>> ELSE IF i \in P THEN Append(f[i - 1], s[i]) ELSE f[i - 1]]

LEMMA SelectionExists ==
    ASSUME NEW s, NEW P
    PROVE  \A n \in Nat : \E f : SelectsUpTo(f, s, P, n)
<1> DEFINE T == {n \in Nat : \E f : SelectsUpTo(f, s, P, n)}
<1>1. 0 \in T
    <2> DEFINE f == [i \in 0 .. 0 |-> <<>>]
    <2>1. SelectsUpTo(f, s, P, 0)
        BY DEF SelectsUpTo
    <2> QED BY <2>1
<1>2. ASSUME NEW n \in Nat, n \in T PROVE n + 1 \in T
    <2>1. PICK f : SelectsUpTo(f, s, P, n)
        BY <1>2
    <2> DEFINE last == IF n + 1 \in P THEN Append(f[n], s[n + 1]) ELSE f[n]
               g    == [i \in 0 .. n + 1 |-> IF i = n + 1 THEN last ELSE f[i]]
               h    == [i \in 0 .. n + 1 |->
                          IF i = 0 THEN <<>>
                          ELSE IF i \in P THEN Append(g[i - 1], s[i]) ELSE g[i - 1]]
    <2>2. ASSUME NEW i \in 0 .. n + 1 PROVE g[i] = h[i]
        <3>1. CASE i = 0
            BY <2>1, <3>1 DEF SelectsUpTo
        <3>2. CASE i \in 1 .. n
            <4>1. i \in 0 .. n /\ i - 1 \in 0 .. n /\ i # n + 1 /\ i - 1 # n + 1 /\ i # 0
                  /\ i - 1 \in 0 .. n + 1
                BY <3>2
            <4>2. f[i] = IF i \in P THEN Append(f[i - 1], s[i]) ELSE f[i - 1]
                BY <2>1, <4>1 DEF SelectsUpTo
            <4>3. g[i] = f[i] /\ g[i - 1] = f[i - 1]
                BY <4>1
            <4> QED BY <4>1, <4>2, <4>3
        <3>3. CASE i = n + 1
            <4>1. i # 0 /\ i - 1 = n /\ n \in 0 .. n + 1 /\ n # n + 1
                BY <3>3
            <4>2. g[n] = f[n]
                BY <4>1
            <4> QED BY <3>3, <4>1, <4>2
        <3> QED BY <3>1, <3>2, <3>3
    <2>3. g = h
        BY <2>2
    <2>4. SelectsUpTo(g, s, P, n + 1)
        BY <2>3 DEF SelectsUpTo
    <2> QED BY <2>4
<1> HIDE DEF T
<1>3. Nat \subseteq T
    BY <1>1, <1>2, Induction
<1> QED BY <1>3 DEF T

\* Up to each position, what is chosen of the elements so far.
Chosen(t, s, P, n) ==
    /\ Len(t) = Cardinality({i \in 1 .. n : i \in P})
    /\ \A k \in 1 .. Len(t) : \E i \in 1 .. n : i \in P /\ t[k] = s[i]
    /\ \A e : Times(t, e) = Cardinality({i \in 1 .. n : i \in P \cap {j \in 1 .. Len(s) : s[j] = e}})

LEMMA SelectedProperties ==
    ASSUME NEW S, NEW s \in Seq(S), NEW P
    PROVE  /\ Selected(s, P) \in Seq(S)
           /\ Chosen(Selected(s, P), s, P, Len(s))
<1> DEFINE N == Len(s)
           f == CHOOSE f : SelectsUpTo(f, s, P, N)
<1>1. N \in Nat
    OBVIOUS
<1>2. SelectsUpTo(f, s, P, N)
    BY <1>1, SelectionExists
<1>3. Selected(s, P) = f[N]
    BY DEF Selected, SelectsUpTo
<1> HIDE DEF f, N
<1> DEFINE T == {n \in Nat : n <= N => f[n] \in Seq(S) /\ Chosen(f[n], s, P, n)}
<1>4. 0 \in T
    <2>1. f[0] = <<>>
        BY <1>1, <1>2 DEF SelectsUpTo
    <2>2. \A Q : {i \in 1 .. 0 : i \in Q} = {}
        OBVIOUS
    <2>3. \A e : Times(<<>>, e) = 0
        <3>1. \A e : {i \in DOMAIN <<>> : <<>>[i] = e} = {}
            OBVIOUS
        <3> QED BY <3>1, FS_EmptySet DEF Times
    <2>4. <<>> \in Seq(S) /\ Len(<<>>) = 0
        OBVIOUS
    <2> QED BY <2>1, <2>2, <2>3, <2>4, FS_EmptySet DEF Chosen
<1>5. ASSUME NEW n \in Nat, n \in T PROVE n + 1 \in T
    <2> SUFFICES ASSUME n + 1 <= N
                 PROVE  f[n + 1] \in Seq(S) /\ Chosen(f[n + 1], s, P, n + 1)
        OBVIOUS
    <2>1. f[n] \in Seq(S) /\ Chosen(f[n], s, P, n)
        BY <1>1, <1>5
    <2>2. f[n + 1] = IF n + 1 \in P THEN Append(f[n], s[n + 1]) ELSE f[n]
        <3>1. n + 1 \in 0 .. N /\ n + 1 # 0 /\ (n + 1) - 1 = n
            BY <1>1
        <3> QED BY <1>2, <3>1 DEF SelectsUpTo
    <2>3. n + 1 \in 1 .. Len(s) /\ s[n + 1] \in S
        BY <1>1 DEF N
    <2> DEFINE t == f[n]
               x == s[n + 1]
    <2> HIDE DEF t, x
    <2>4. \A Q : Cardinality({i \in 1 .. n + 1 : i \in Q})
                 = Cardinality({i \in 1 .. n : i \in Q}) + (IF n + 1 \in Q THEN 1 ELSE 0)
        BY OnePositionMore
    <2>5. \A Q : Cardinality({i \in 1 .. n : i \in Q}) \in Nat
        BY PositionsAreFinite
    <2> DEFINE At(e) == P \cap {j \in 1 .. Len(s) : s[j] = e}
    <2>6. \A e : n + 1 \in At(e) <=> n + 1 \in P /\ x = e
        BY <2>3 DEF x
    <2>7. CASE n + 1 \in P
        <3>1. f[n + 1] = Append(t, x) /\ Append(t, x) \in Seq(S) /\ Len(Append(t, x)) = Len(t) + 1
            BY <2>1, <2>2, <2>3, <2>7 DEF t, x
        <3>2. Len(Append(t, x)) = Cardinality({i \in 1 .. n + 1 : i \in P})
            BY <2>1, <2>4, <2>7, <3>1 DEF Chosen, t
        <3>3. ASSUME NEW k \in 1 .. Len(Append(t, x))
              PROVE  \E i \in 1 .. n + 1 : i \in P /\ Append(t, x)[k] = s[i]
            <4>1. CASE k = Len(t) + 1
                <5>1. Append(t, x)[k] = s[n + 1]
                    BY <2>1, <4>1 DEF t, x
                <5> QED BY <2>7, <5>1
            <4>2. CASE k # Len(t) + 1
                <5>1. k \in 1 .. Len(t) /\ Append(t, x)[k] = t[k]
                    BY <2>1, <3>1, <4>2 DEF t
                <5>2. \E i \in 1 .. n : i \in P /\ t[k] = s[i]
                    BY <2>1, <5>1 DEF Chosen, t
                <5>3. \A i \in 1 .. n : i \in 1 .. n + 1
                    OBVIOUS
                <5> QED BY <5>1, <5>2, <5>3
            <4> QED BY <4>1, <4>2
        <3>4. ASSUME NEW e
              PROVE  Times(Append(t, x), e) = Cardinality({i \in 1 .. n + 1 : i \in At(e)})
            <4>1. Times(t, e) = Cardinality({i \in 1 .. n : i \in At(e)})
                BY <2>1 DEF Chosen, t
            <4>2. Times(Append(t, x), e) = Times(t, e) + (IF x = e THEN 1 ELSE 0)
                BY <2>1, <2>3, TimesOfAppend DEF t, x
            <4>3. Cardinality({i \in 1 .. n + 1 : i \in At(e)})
                  = Cardinality({i \in 1 .. n : i \in At(e)}) + (IF n + 1 \in At(e) THEN 1 ELSE 0)
                BY <2>4
            <4>4. n + 1 \in At(e) <=> x = e
                BY <2>6, <2>7
            <4> HIDE DEF At
            <4> QED BY <4>1, <4>2, <4>3, <4>4
        <3> QED BY <3>1, <3>2, <3>3, <3>4 DEF Chosen
    <2>8. CASE n + 1 \notin P
        <3>1. f[n + 1] = t
            BY <2>2, <2>8 DEF t
        <3>2. Len(t) = Cardinality({i \in 1 .. n + 1 : i \in P})
            BY <2>1, <2>4, <2>5, <2>8 DEF Chosen, t
        <3>3. \A k \in 1 .. Len(t) : \E i \in 1 .. n + 1 : i \in P /\ t[k] = s[i]
            <4>1. \A k \in 1 .. Len(t) : \E i \in 1 .. n : i \in P /\ t[k] = s[i]
                BY <2>1 DEF Chosen, t
            <4>2. \A i \in 1 .. n : i \in 1 .. n + 1
                OBVIOUS
            <4> QED BY <4>1, <4>2
        <3>4. ASSUME NEW e
              PROVE  Times(t, e) = Cardinality({i \in 1 .. n + 1 : i \in At(e)})
            <4>1. Times(t, e) = Cardinality({i \in 1 .. n : i \in At(e)})
                BY <2>1 DEF Chosen, t
            <4>2. n + 1 \notin At(e)
                BY <2>8
            <4> HIDE DEF At
            <4>3. Cardinality({i \in 1 .. n + 1 : i \in At(e)})
                  = Cardinality({i \in 1 .. n : i \in At(e)}) + 0
                BY <2>4, <4>2
            <4>4. Cardinality({i \in 1 .. n : i \in At(e)}) \in Nat
                BY <2>5
            <4> QED BY <4>1, <4>3, <4>4
        <3> QED BY <2>1, <3>1, <3>2, <3>3, <3>4 DEF Chosen, t
    <2> QED BY <2>7, <2>8
<1> HIDE DEF T
<1>6. Nat \subseteq T
    BY <1>4, <1>5, Induction
<1>7. f[N] \in Seq(S) /\ Chosen(f[N], s, P, N)
    BY <1>1, <1>6 DEF T
<1> QED BY <1>3, <1>7 DEF N

-----------------------------------------------------------------------------
(***************************************************************************)
(* What whereClause returns.                                               *)
(***************************************************************************)
Has(parts, i, t) == i <= Len(parts) /\ parts[i] = t

\* The function that whereClause recurses over, at position i.
ClauseAt(f, parts, i) ==
    IF Has(parts, i, Word("SIMILAR")) /\ Has(parts, i + 1, Word("TO"))
    THEN [NoQuery EXCEPT !.similarTo =
             IF i + 2 <= Len(parts) /\ parts[i + 2].kind \in {"vector", "number"}
             THEN <<parts[i + 2]>> ELSE <<>>]
    ELSE IF Has(parts, i, Word("LIMIT"))
    THEN [NoQuery EXCEPT !.limit = IF i + 1 <= Len(parts) THEN parts[i + 1].number ELSE 0]
    ELSE IF i + 2 <= Len(parts)
    THEN [f[i + 3] EXCEPT !.filters = <<Triple(parts, i)>> \o @]
    ELSE NoQuery

\* It, from a position on.
ClauseFrom(f, parts, i) == f = [j \in i .. Len(parts) + 3 |-> ClauseAt(f, parts, j)]

LEMMA ClauseLooksAhead ==
    ASSUME NEW parts, NEW i, NEW f, NEW g, i + 2 <= Len(parts) => f[i + 3] = g[i + 3]
    PROVE  ClauseAt(f, parts, i) = ClauseAt(g, parts, i)
BY DEF ClauseAt

LEMMA ClauseExists ==
    ASSUME NEW S, NEW parts \in Seq(S)
    PROVE  \E f : ClauseFrom(f, parts, 1)
<1> DEFINE N == Len(parts) + 3
           T == {n \in Nat : n < N => \E f : ClauseFrom(f, parts, N - n)}
<1>1. N \in Nat /\ N >= 3 /\ N = Len(parts) + 3 /\ Len(parts) \in Nat
    OBVIOUS
<1> HIDE DEF N
<1>2. 0 \in T
    <2> DEFINE f == [j \in N .. N |-> ClauseAt(<<>>, parts, j)]
    <2>1. ASSUME NEW j \in N .. N PROVE ClauseAt(f, parts, j) = ClauseAt(<<>>, parts, j)
        <3>1. ~ (j + 2 <= Len(parts))
            BY <1>1
        <3> HIDE DEF f
        <3> QED BY <3>1, ClauseLooksAhead
    <2>2. f = [j \in N .. N |-> ClauseAt(f, parts, j)]
        BY <2>1
    <2>3. ClauseFrom(f, parts, N - 0)
        BY <1>1, <2>2 DEF ClauseFrom
    <2> HIDE DEF f
    <2> QED BY <2>3
<1>3. ASSUME NEW n \in Nat, n \in T PROVE n + 1 \in T
    <2> SUFFICES ASSUME n + 1 < N PROVE \E f : ClauseFrom(f, parts, N - (n + 1))
        OBVIOUS
    <2>1. PICK f : ClauseFrom(f, parts, N - n)
        BY <1>1, <1>3
    <2> DEFINE lo == N - (n + 1)
               g  == [j \in lo .. N |-> IF j = lo THEN ClauseAt(f, parts, j) ELSE f[j]]
    <2>2. lo \in Nat /\ lo + 1 = N - n /\ lo < N
        BY <1>1
    <2> HIDE DEF lo
    <2>3. ASSUME NEW j \in lo .. N PROVE g[j] = ClauseAt(g, parts, j)
        <3>1. j + 2 <= Len(parts) => j + 3 \in lo .. N /\ j + 3 # lo
            BY <1>1, <2>2
        <3>2. j + 2 <= Len(parts) => f[j + 3] = g[j + 3]
            BY <3>1
        <3>3. g[j] = ClauseAt(f, parts, j)
            <4>1. CASE j = lo
                BY <4>1
            <4>2. CASE j # lo
                <5>1. j \in lo + 1 .. N
                    BY <2>2, <4>2
                <5>2. f[j] = ClauseAt(f, parts, j)
                    BY <1>1, <2>1, <2>2, <5>1 DEF ClauseFrom
                <5> QED BY <4>2, <5>2
            <4> QED BY <4>1, <4>2
        <3> HIDE DEF g
        <3>4. ClauseAt(f, parts, j) = ClauseAt(g, parts, j)
            BY <3>2, ClauseLooksAhead
        <3> QED BY <3>3, <3>4
    <2>4. g = [j \in lo .. N |-> ClauseAt(g, parts, j)]
        BY <2>3
    <2> HIDE DEF g
    <2>5. ClauseFrom(g, parts, lo)
        BY <1>1, <2>4 DEF ClauseFrom
    <2> QED BY <2>5 DEF lo
<1> HIDE DEF T
<1>4. Nat \subseteq T
    BY <1>2, <1>3, Induction
<1>5. N - 1 \in T
    BY <1>1, <1>4
<1> QED BY <1>1, <1>5 DEF T

LEMMA Prepended ==
    ASSUME NEW S, NEW s \in Seq(S), NEW x \in S
    PROVE  LET t == <<x>> \o s
           IN  /\ t \in Seq(S) /\ Len(t) = Len(s) + 1 /\ t[1] = x
               /\ \A k \in 2 .. Len(s) + 1 : k - 1 \in 1 .. Len(s) /\ t[k] = s[k - 1]
<1> DEFINE a == <<x>>
<1>1. a \in Seq(S) /\ Len(a) = 1 /\ a[1] = x
    OBVIOUS
<1> HIDE DEF a
<1>2. /\ a \o s \in Seq(S) /\ Len(a \o s) = Len(a) + Len(s)
      /\ \A i \in 1 .. Len(a) + Len(s) :
             (a \o s)[i] = IF i <= Len(a) THEN a[i] ELSE s[i - Len(a)]
    BY <1>1, ConcatProperties
<1>3. Len(s) \in Nat
    OBVIOUS
<1>4. (a \o s)[1] = x
    BY <1>1, <1>2, <1>3
<1>5. \A k \in 2 .. Len(s) + 1 : k - 1 \in 1 .. Len(s) /\ (a \o s)[k] = s[k - 1]
    BY <1>1, <1>2, <1>3
<1> QED BY <1>1, <1>2, <1>3, <1>4, <1>5 DEF a

Filters(S) == [key : S, operator : S, value : S]

\* What follows the filters, if it is SIMILAR TO or LIMIT.
SimilarAt(parts, i) ==
    IF /\ Has(parts, i, Word("SIMILAR")) /\ Has(parts, i + 1, Word("TO"))
       /\ i + 2 <= Len(parts) /\ parts[i + 2].kind \in {"vector", "number"}
    THEN <<parts[i + 2]>> ELSE <<>>

LimitAt(parts, i) ==
    IF /\ ~ (Has(parts, i, Word("SIMILAR")) /\ Has(parts, i + 1, Word("TO")))
       /\ Has(parts, i, Word("LIMIT")) /\ i + 1 <= Len(parts)
    THEN parts[i + 1].number ELSE 0

\* A query is what the clause says from a position on.
ReadsFrom(S, q, parts, i) ==
    LET n    == Len(q.filters)
        last == i + 3 * n
    IN  /\ q.filters \in Seq(Filters(S))
        /\ q = [NoQuery EXCEPT !.filters = q.filters, !.similarTo = q.similarTo, !.limit = q.limit]
        /\ \A k \in 1 .. n : /\ ~ EndsFilters(parts, i + 3 * (k - 1))
                             /\ q.filters[k] = Triple(parts, i + 3 * (k - 1))
        /\ EndsFilters(parts, last) /\ last <= Len(parts) + 1
        /\ q.similarTo = SimilarAt(parts, last)
        /\ q.limit = LimitAt(parts, last)

LEMMA ReadsNoFilter ==
    ASSUME NEW S, NEW parts \in Seq(S), NEW i \in 1 .. Len(parts) + 1, NEW f,
           EndsFilters(parts, i)
    PROVE  ReadsFrom(S, ClauseAt(f, parts, i), parts, i)
<1> DEFINE q == ClauseAt(f, parts, i)
<1>1. /\ q = [NoQuery EXCEPT !.similarTo = q.similarTo, !.limit = q.limit]
      /\ q.filters = <<>>
      /\ q.similarTo = SimilarAt(parts, i) /\ q.limit = LimitAt(parts, i)
    <2>1. CASE Has(parts, i, Word("SIMILAR")) /\ Has(parts, i + 1, Word("TO"))
        BY <2>1 DEF ClauseAt, NoQuery, SimilarAt, LimitAt
    <2>2. CASE /\ ~ (Has(parts, i, Word("SIMILAR")) /\ Has(parts, i + 1, Word("TO")))
               /\ Has(parts, i, Word("LIMIT"))
        BY <2>2 DEF ClauseAt, NoQuery, SimilarAt, LimitAt
    <2>3. CASE /\ ~ (Has(parts, i, Word("SIMILAR")) /\ Has(parts, i + 1, Word("TO")))
               /\ ~ Has(parts, i, Word("LIMIT"))
        <3>1. ~ (i + 2 <= Len(parts))
            BY <2>3 DEF EndsFilters, Has
        <3>2. q = NoQuery
            BY <2>3, <3>1 DEF ClauseAt
        <3>3. SimilarAt(parts, i) = <<>> /\ LimitAt(parts, i) = 0
            BY <2>3 DEF SimilarAt, LimitAt
        <3> HIDE DEF q
        <3>4. q.filters = <<>> /\ q.similarTo = <<>> /\ q.limit = 0
            BY <3>2 DEF NoQuery
        <3>5. NoQuery = [NoQuery EXCEPT !.similarTo = NoQuery.similarTo, !.limit = NoQuery.limit]
            BY DEF NoQuery
        <3>6. q = [NoQuery EXCEPT !.similarTo = q.similarTo, !.limit = q.limit]
            BY <3>2, <3>5, Zenon
        <3> QED BY <3>3, <3>4, <3>6
    <2> QED BY <2>1, <2>2, <2>3
<1> HIDE DEF q
<1>2. q = [NoQuery EXCEPT !.filters = q.filters, !.similarTo = q.similarTo, !.limit = q.limit]
    BY <1>1 DEF NoQuery
<1>3. q.filters \in Seq(Filters(S)) /\ Len(q.filters) = 0 /\ i + 3 * 0 = i /\ i <= Len(parts) + 1
    BY <1>1
<1> QED BY <1>1, <1>2, <1>3 DEF ReadsFrom, q

LEMMA ReadsOneFilter ==
    ASSUME NEW S, NEW parts \in Seq(S), NEW i \in 1 .. Len(parts) + 1, NEW f,
           ~ EndsFilters(parts, i), ReadsFrom(S, f[i + 3], parts, i + 3)
    PROVE  ReadsFrom(S, ClauseAt(f, parts, i), parts, i)
<1> DEFINE q == ClauseAt(f, parts, i)
           r == f[i + 3]
           x == Triple(parts, i)
<1>1. i + 2 <= Len(parts) /\ {i, i + 1, i + 2} \subseteq 1 .. Len(parts)
    BY DEF EndsFilters
<1>2. q = [r EXCEPT !.filters = <<x>> \o @]
    BY <1>1 DEF EndsFilters, ClauseAt, Has
<1>3. x \in Filters(S)
    BY <1>1 DEF Triple, Filters
<1> HIDE DEF q, r, x
<1>4. /\ r.filters \in Seq(Filters(S))
      /\ r = [NoQuery EXCEPT !.filters = r.filters, !.similarTo = r.similarTo, !.limit = r.limit]
    BY DEF ReadsFrom, r
<1>5. /\ q = [NoQuery EXCEPT !.filters = q.filters, !.similarTo = q.similarTo, !.limit = q.limit]
      /\ q.filters = <<x>> \o r.filters /\ q.similarTo = r.similarTo /\ q.limit = r.limit
    BY <1>2, <1>4 DEF NoQuery
<1> DEFINE n == Len(r.filters)
<1>6. /\ q.filters \in Seq(Filters(S)) /\ Len(q.filters) = n + 1 /\ q.filters[1] = x
      /\ \A k \in 2 .. n + 1 : k - 1 \in 1 .. n /\ q.filters[k] = r.filters[k - 1]
    BY <1>3, <1>4, <1>5, Prepended
<1>7. n \in Nat /\ i \in Nat /\ Len(parts) \in Nat
    BY <1>4
<1>8. /\ \A k \in 1 .. n : /\ ~ EndsFilters(parts, i + 3 + 3 * (k - 1))
                           /\ r.filters[k] = Triple(parts, i + 3 + 3 * (k - 1))
      /\ EndsFilters(parts, i + 3 + 3 * n) /\ i + 3 + 3 * n <= Len(parts) + 1
      /\ r.similarTo = SimilarAt(parts, i + 3 + 3 * n) /\ r.limit = LimitAt(parts, i + 3 + 3 * n)
    BY DEF ReadsFrom, r
<1> HIDE DEF n
<1>9. i + 3 + 3 * n = i + 3 * (n + 1)
    BY <1>7
<1>10. ASSUME NEW k \in 1 .. n + 1
       PROVE  /\ ~ EndsFilters(parts, i + 3 * (k - 1))
              /\ q.filters[k] = Triple(parts, i + 3 * (k - 1))
    <2>1. CASE k = 1
        <3>1. i + 3 * (k - 1) = i
            BY <1>7, <2>1
        <3> QED BY <1>6, <2>1, <3>1 DEF x
    <2>2. CASE k # 1
        <3>1. k - 1 \in 1 .. n /\ k \in 2 .. n + 1 /\ i + 3 + 3 * ((k - 1) - 1) = i + 3 * (k - 1)
            BY <1>7, <2>2
        <3> QED BY <1>6, <1>8, <3>1
    <2> QED BY <2>1, <2>2
<1>11. /\ EndsFilters(parts, i + 3 * (n + 1)) /\ i + 3 * (n + 1) <= Len(parts) + 1
       /\ q.similarTo = SimilarAt(parts, i + 3 * (n + 1)) /\ q.limit = LimitAt(parts, i + 3 * (n + 1))
    BY <1>5, <1>8, <1>9
<1> QED BY <1>5, <1>6, <1>10, <1>11 DEF ReadsFrom, q

LEMMA ClauseProperties ==
    ASSUME NEW S, NEW parts \in Seq(S)
    PROVE  ReadsFrom(S, whereClause(parts), parts, 1)
<1> DEFINE N == Len(parts)
           f == CHOOSE f : ClauseFrom(f, parts, 1)
<1>1. N \in Nat
    OBVIOUS
<1>2. ClauseFrom(f, parts, 1)
    BY ClauseExists
<1>3. whereClause(parts) = f[1]
    BY DEF whereClause, ClauseFrom, ClauseAt, Has
<1> HIDE DEF f
<1>4. \A i \in 1 .. N + 3 : f[i] = ClauseAt(f, parts, i)
    <2> HIDE DEF N
    <2>1. f = [j \in 1 .. N + 3 |-> ClauseAt(f, parts, j)]
        BY <1>2 DEF ClauseFrom, N
    <2> QED BY <2>1
<1> DEFINE At(i) == ReadsFrom(S, f[i], parts, i)
           T == {n \in Nat : \A m \in 0 .. n : m <= N => At(N + 1 - m)}
<1>5. ASSUME NEW i \in 1 .. N + 1, i + 3 <= N + 1 => At(i + 3)
      PROVE  At(i)
    <2>1. f[i] = ClauseAt(f, parts, i)
        BY <1>1, <1>4
    <2>2. CASE EndsFilters(parts, i)
        BY <2>1, <2>2, ReadsNoFilter
    <2>3. CASE ~ EndsFilters(parts, i)
        <3>1. i + 3 <= N + 1
            BY <1>1, <2>3 DEF EndsFilters
        <3> QED BY <1>5, <2>1, <2>3, <3>1, ReadsOneFilter
    <2> QED BY <2>2, <2>3
<1> HIDE DEF At, N
<1>6. 0 \in T
    <2> SUFFICES At(N + 1)
        BY <1>1
    <2>1. N + 1 \in 1 .. N + 1 /\ ~ (N + 1 + 3 <= N + 1)
        BY <1>1
    <2> QED BY <1>5, <2>1
<1>7. ASSUME NEW n \in Nat, n \in T PROVE n + 1 \in T
    <2> SUFFICES ASSUME n + 1 <= N PROVE At(N + 1 - (n + 1))
        BY <1>7
    <2>1. N + 1 - (n + 1) \in 1 .. N + 1
        BY <1>1
    <2>2. ASSUME N + 1 - (n + 1) + 3 <= N + 1 PROVE At(N + 1 - (n + 1) + 3)
        <3>1. n - 2 \in 0 .. n /\ n - 2 <= N /\ N + 1 - (n - 2) = N + 1 - (n + 1) + 3
            BY <1>1, <2>2
        <3> QED BY <1>7, <3>1
    <2> QED BY <1>5, <2>1, <2>2
<1> HIDE DEF T
<1>8. Nat \subseteq T
    BY <1>6, <1>7, Induction
<1>9. At(1)
    <2>1. CASE N = 0
        <3>1. 0 \in T
            BY <1>8
        <3> QED BY <3>1, <2>1 DEF T
    <2>2. CASE N # 0
        <3>1. N \in T /\ N \in 0 .. N /\ N + 1 - N = 1
            BY <1>1, <1>8
        <3> QED BY <3>1 DEF T
    <2> QED BY <2>1, <2>2
<1> QED BY <1>3, <1>9 DEF At

-----------------------------------------------------------------------------
(***************************************************************************)
(* The kinds of text.                                                      *)
(***************************************************************************)
Texts(S) == Seq(S) \ {<<>>}

LEMMA TailOfText ==
    ASSUME NEW S, NEW t \in Texts(S)
    PROVE  /\ Tail(t) \in Seq(S) /\ Len(t) \in Nat /\ Len(t) >= 1
           /\ Len(Tail(t)) = Len(t) - 1
           /\ \A i \in 1 .. Len(t) - 1 : Tail(t)[i] = t[i + 1]
BY DEF Texts

LEMMA OtherKinds ==
    ASSUME NEW parts
    PROVE  /\ parseSet(parts).type \in {"invalid", "set"}
           /\ parseDelete(parts).type \in {"invalid", "panics", "delete"}
           /\ parseCreate(parts).type \in {"invalid", "create_index", "create_collection"}
           /\ parseDrop(parts).type \in {"invalid", "drop_index", "drop_collection"}
           /\ parseSet(parts).filters = <<>> /\ parseDelete(parts).filters = <<>>
           /\ parseCreate(parts).filters = <<>> /\ parseDrop(parts).filters = <<>>
<1>1. Invalid.type = "invalid" /\ Invalid.filters = <<>>
      /\ Panics.type = "panics" /\ Panics.filters = <<>>
    BY DEF Invalid, Panics, NoQuery
<1>2. parseSet(parts).type \in {"invalid", "set"} /\ parseSet(parts).filters = <<>>
    BY DEF parseSet, Invalid, NoQuery
<1>3. parseDelete(parts).type \in {"invalid", "panics", "delete"} /\ parseDelete(parts).filters = <<>>
    BY DEF parseDelete, Invalid, Panics, NoQuery
<1>4. \A p : parseCreateIndex(p).type \in {"invalid", "create_index"}
             /\ parseCreateIndex(p).filters = <<>>
    BY DEF parseCreateIndex, Invalid, NoQuery
<1>5. \A p : parseDropIndex(p).type \in {"invalid", "drop_index"} /\ parseDropIndex(p).filters = <<>>
    BY DEF parseDropIndex, Invalid, NoQuery
<1>6. \A type, p : parseCollection(type, p).type = type /\ parseCollection(type, p).filters = <<>>
    BY DEF parseCollection, NoQuery
<1>7. parseCreate(parts).type \in {"invalid", "create_index", "create_collection"}
      /\ parseCreate(parts).filters = <<>>
    BY <1>1, <1>4, <1>6 DEF parseCreate
<1>8. parseDrop(parts).type \in {"invalid", "drop_index", "drop_collection"}
      /\ parseDrop(parts).filters = <<>>
    BY <1>1, <1>5, <1>6 DEF parseDrop
<1> QED BY <1>2, <1>3, <1>7, <1>8

Command(t) == ToUpper(t[1])

LEMMA ClauseType ==
    ASSUME NEW S, NEW parts \in Seq(S)
    PROVE  whereClause(parts) = [NoQuery EXCEPT !.filters = whereClause(parts).filters,
                                                !.similarTo = whereClause(parts).similarTo,
                                                !.limit = whereClause(parts).limit]
BY ClauseProperties DEF ReadsFrom

LEMMA GetKind ==
    ASSUME NEW S, NEW parts \in Seq(S)
    PROVE  parseGet(parts).type \in {"invalid", "get"}
<1>1. SubSeq(parts, 3, Len(parts)) \in Seq(S)
    OBVIOUS
<1> DEFINE c == whereClause(SubSeq(parts, 3, Len(parts)))
<1>2. c = [NoQuery EXCEPT !.filters = c.filters, !.similarTo = c.similarTo, !.limit = c.limit]
    BY <1>1, ClauseType
<1> HIDE DEF c
<1>3. CASE Len(parts) < 2
    BY <1>3 DEF parseGet, Invalid, NoQuery
<1>4. CASE ~ (Len(parts) < 2)
    <2>1. [c EXCEPT !.type = "get", !.entryType = ToUpper(parts[1])].type = "get"
        BY <1>2 DEF NoQuery
    <2>2. [NoQuery EXCEPT !.type = "get", !.entryType = ToUpper(parts[1])].type = "get"
        BY DEF NoQuery
    <2> QED BY <1>4, <2>1, <2>2 DEF parseGet, c
<1> QED BY <1>3, <1>4

\* Which parser a query comes from.
LEMMA KindIsCommand ==
    ASSUME NEW S, NEW t \in Texts(S)
    PROVE  /\ Parse(t).type = "get" => Command(t) = Word("GET") /\ Parse(t) = parseGet(Tail(t))
           /\ Parse(t).type = "set" => Command(t) = Word("SET") /\ Parse(t) = parseSet(Tail(t))
           /\ Parse(t).type \in {"delete", "panics"} =>
                  Command(t) = Word("DELETE") /\ Parse(t) = parseDelete(Tail(t))
           /\ Parse(t).type \in {"create_index", "create_collection"} =>
                  Command(t) = Word("CREATE") /\ Parse(t) = parseCreate(Tail(t))
           /\ Parse(t).type \in {"drop_index", "drop_collection"} =>
                  Command(t) = Word("DROP") /\ Parse(t) = parseDrop(Tail(t))
           /\ Parse(t).type # "get" => Parse(t).filters = <<>>
           /\ Parse(t).type \in {"invalid", "panics", "get", "set", "delete", "create_index",
                                 "create_collection", "drop_index", "drop_collection"}
<1> DEFINE parts == Tail(t)
<1>1. parts \in Seq(S) /\ t # <<>>
    BY TailOfText DEF Texts
<1> HIDE DEF parts
<1>2. parseGet(parts).type \in {"invalid", "get"}
    BY <1>1, GetKind
<1>3. parseGet(parts).type = "invalid" => parseGet(parts).filters = <<>>
    <2>1. Invalid.filters = <<>>
        BY DEF Invalid, NoQuery
    <2> DEFINE c == whereClause(SubSeq(parts, 3, Len(parts)))
    <2>2. SubSeq(parts, 3, Len(parts)) \in Seq(S)
        BY <1>1
    <2>3. c = [NoQuery EXCEPT !.filters = c.filters, !.similarTo = c.similarTo, !.limit = c.limit]
        BY <2>2, ClauseType
    <2> HIDE DEF c
    <2>4. [c EXCEPT !.type = "get", !.entryType = ToUpper(parts[1])].type = "get"
        BY <2>3 DEF NoQuery
    <2>5. [NoQuery EXCEPT !.type = "get", !.entryType = ToUpper(parts[1])].type = "get"
        BY DEF NoQuery
    <2> QED BY <2>1, <2>4, <2>5 DEF parseGet, c
<1>4. /\ parseSet(parts).type \in {"invalid", "set"}
      /\ parseDelete(parts).type \in {"invalid", "panics", "delete"}
      /\ parseCreate(parts).type \in {"invalid", "create_index", "create_collection"}
      /\ parseDrop(parts).type \in {"invalid", "drop_index", "drop_collection"}
      /\ parseSet(parts).filters = <<>> /\ parseDelete(parts).filters = <<>>
      /\ parseCreate(parts).filters = <<>> /\ parseDrop(parts).filters = <<>>
    BY OtherKinds
<1>5. Invalid.type = "invalid" /\ Invalid.filters = <<>>
    BY DEF Invalid, NoQuery
<1>6. \/ Parse(t) = Invalid
      \/ Command(t) = Word("GET") /\ Parse(t) = parseGet(parts)
      \/ Command(t) = Word("SET") /\ Parse(t) = parseSet(parts)
      \/ Command(t) = Word("DELETE") /\ Parse(t) = parseDelete(parts)
      \/ Command(t) = Word("CREATE") /\ Parse(t) = parseCreate(parts)
      \/ Command(t) = Word("DROP") /\ Parse(t) = parseDrop(parts)
    BY <1>1 DEF Parse, Command, parts
<1>7. CASE Parse(t) = Invalid
    BY <1>5, <1>7
<1>8. CASE Command(t) = Word("GET") /\ Parse(t) = parseGet(parts)
    BY <1>2, <1>3, <1>8 DEF parts
<1>9. CASE Command(t) = Word("SET") /\ Parse(t) = parseSet(parts)
    BY <1>4, <1>9 DEF parts
<1>10. CASE Command(t) = Word("DELETE") /\ Parse(t) = parseDelete(parts)
    BY <1>4, <1>10 DEF parts
<1>11. CASE Command(t) = Word("CREATE") /\ Parse(t) = parseCreate(parts)
    BY <1>4, <1>11 DEF parts
<1>12. CASE Command(t) = Word("DROP") /\ Parse(t) = parseDrop(parts)
    BY <1>4, <1>12 DEF parts
<1> QED BY <1>6, <1>7, <1>8, <1>9, <1>10, <1>11, <1>12

LEMMA WordsDiffer ==
    ASSUME NEW v, NEW w
    PROVE  Word(v) = Word(w) <=> v = w
BY DEF Word, Token

LEMMA ShortSequences ==
    ASSUME NEW S, NEW s \in Seq(S)
    PROVE  /\ Len(s) = 1 => s = <<s[1]>>
           /\ Len(s) = 2 => s = <<s[1], s[2]>>
           /\ Len(s) = 3 => s = <<s[1], s[2], s[3]>>
<1>1. s = [i \in 1 .. Len(s) |-> s[i]] /\ Len(s) \in Nat
    OBVIOUS
<1>2. ASSUME Len(s) = 1 PROVE s = <<s[1]>>
    BY <1>1, <1>2
<1>3. ASSUME Len(s) = 2 PROVE s = <<s[1], s[2]>>
    BY <1>1, <1>3
<1>4. ASSUME Len(s) = 3 PROVE s = <<s[1], s[2], s[3]>>
    BY <1>1, <1>4
<1> QED BY <1>2, <1>3, <1>4

LEMMA SequencesOfMore ==
    ASSUME NEW S, NEW T, S \subseteq T
    PROVE  Seq(S) \subseteq Seq(T)
<1> SUFFICES ASSUME NEW s \in Seq(S) PROVE s \in Seq(T)
    OBVIOUS
<1>1. s = [i \in 1 .. Len(s) |-> s[i]] /\ Len(s) \in Nat /\ \A i \in 1 .. Len(s) : s[i] \in T
    OBVIOUS
<1> QED BY <1>1

LEMMA CommandIsKind ==
    ASSUME NEW S, NEW t \in Texts(S)
    PROVE  /\ Command(t) = Word("GET") => Parse(t) = parseGet(Tail(t))
           /\ Command(t) = Word("SET") => Parse(t) = parseSet(Tail(t))
           /\ Command(t) = Word("DELETE") => Parse(t) = parseDelete(Tail(t))
           /\ Command(t) = Word("CREATE") => Parse(t) = parseCreate(Tail(t))
           /\ Command(t) = Word("DROP") => Parse(t) = parseDrop(Tail(t))
BY WordsDiffer DEF Parse, Command, Texts

-----------------------------------------------------------------------------
(***************************************************************************)
(* The texts that are typed.                                               *)
(***************************************************************************)
TextTyped == text \in Texts(TokenSet)

\* What a client types, token by token, is a text and never empty: Parse has a
\* first token to look at (Type).
THEOREM TextsAreTyped == TextSpec => []TextTyped
<1>1. TextInit => TextTyped
    BY TextAssumption DEF TextInit, TextTyped, Texts
<1>2. TextTyped /\ [TextNext]_textVars => TextTyped'
    <2> SUFFICES ASSUME TextTyped, [TextNext]_textVars PROVE TextTyped'
        OBVIOUS
    <2>1. CASE UNCHANGED textVars
        BY <2>1 DEF TextTyped, textVars
    <2>2. ASSUME NEW t \in Tokens, Type(t) PROVE TextTyped'
        <3>1. t \in TokenSet /\ text \in Seq(TokenSet) /\ text' = Append(text, t)
            BY <2>2, TextAssumption DEF TextTyped, Texts, Type
        <3>2. Append(text, t) \in Seq(TokenSet) /\ Append(text, t) # <<>>
            BY <3>1
        <3> QED BY <3>1, <3>2 DEF TextTyped, Texts
    <2> QED BY <2>1, <2>2 DEF TextNext
<1> QED BY <1>1, <1>2, PTL DEF TextSpec

LEMMA PanicsAreShort ==
    ASSUME NEW S, NEW t \in Texts(S)
    PROVE  Parse(t).type = "panics" <=> Command(t) = Word("DELETE") /\ Tail(t) \in CutOff
<1> DEFINE parts == Tail(t)
<1>1. parts \in Seq(S) /\ Len(parts) \in Nat
    BY TailOfText
<1> HIDE DEF parts
<1>2. parseDelete(parts).type = "panics" <=> parts \in CutOff
    <2>1. Invalid.type # "panics" /\ Panics.type = "panics"
        BY DEF Invalid, Panics, NoQuery
    <2>2. [NoQuery EXCEPT !.type = "delete", !.id = parts[4]].type # "panics"
        BY DEF NoQuery
    <2>3. ASSUME parseDelete(parts).type = "panics" PROVE parts \in CutOff
        <3>1. /\ ~ (Len(parts) < 2) /\ parts[1] = Word("WHERE") /\ parts[2] = Word("id")
              /\ Len(parts) < 3 \/ (parts[3] = Word("=") /\ Len(parts) < 4)
            BY <2>1, <2>2, <2>3 DEF parseDelete
        <3>2. CASE Len(parts) < 3
            <4>1. Len(parts) = 2
                <5>1. \A n \in Nat : ~ (n < 2) /\ n < 3 => n = 2
                    OBVIOUS
                <5> QED BY <1>1, <3>1, <3>2, <5>1, Zenon
            <4> QED BY <1>1, <3>1, <4>1, ShortSequences DEF CutOff
        <3>3. CASE ~ (Len(parts) < 3)
            <4>1. Len(parts) = 3
                <5>1. \A n \in Nat : ~ (n < 3) /\ n < 4 => n = 3
                    OBVIOUS
                <5> QED BY <1>1, <3>1, <3>3, <5>1, Zenon
            <4> QED BY <1>1, <3>1, <4>1, ShortSequences DEF CutOff
        <3> QED BY <3>2, <3>3
    <2>4. CASE parts = <<Word("WHERE"), Word("id")>>
        <3>1. Len(parts) = 2 /\ parts[1] = Word("WHERE") /\ parts[2] = Word("id")
            BY <2>4
        <3> QED BY <2>1, <2>4, <3>1 DEF parseDelete, CutOff
    <2>5. CASE parts = <<Word("WHERE"), Word("id"), Word("=")>>
        <3>1. /\ Len(parts) = 3 /\ parts[1] = Word("WHERE") /\ parts[2] = Word("id")
              /\ parts[3] = Word("=")
            BY <2>5
        <3> QED BY <2>1, <2>5, <3>1 DEF parseDelete, CutOff
    <2> QED BY <2>3, <2>4, <2>5 DEF CutOff
<1>3. Parse(t).type = "panics" => Command(t) = Word("DELETE") /\ Parse(t) = parseDelete(parts)
    BY KindIsCommand DEF parts
<1>4. Command(t) = Word("DELETE") => Parse(t) = parseDelete(parts)
    BY CommandIsKind DEF parts
<1> QED BY <1>2, <1>3, <1>4 DEF parts

(***************************************************************************)
(* Of all texts, the parser reads beyond the end of no other than the two  *)
(* DELETEs that are cut off (parseDelete).                                 *)
(***************************************************************************)
THEOREM NoOtherPanics == TextSpec => []OnlyShortDeletesPanic
<1>1. TextTyped => OnlyShortDeletesPanic
    BY PanicsAreShort DEF TextTyped, OnlyShortDeletesPanic, Command
<1> QED BY <1>1, TextsAreTyped, PTL

-----------------------------------------------------------------------------
(***************************************************************************)
(* The filters of a GET.                                                   *)
(***************************************************************************)
\* A GET is its clause, if it has one.
LEMMA GetIsClause ==
    ASSUME NEW S, NEW t \in Texts(S), Parse(t).type = "get"
    PROVE  LET clause == SubSeq(t, 4, Len(t))
               read   == IF t[3] = Word("WHERE") THEN whereClause(clause) ELSE NoQuery
           IN  /\ Len(t) >= 3 /\ Command(t) = Word("GET")
               /\ clause \in Seq(S) /\ Len(clause) = Len(t) - 3
               /\ \A i \in 1 .. Len(t) - 3 : clause[i] = t[i + 3]
               /\ read = [NoQuery EXCEPT !.filters = read.filters,
                                         !.similarTo = read.similarTo, !.limit = read.limit]
               /\ Parse(t) = [read EXCEPT !.type = "get", !.entryType = ToUpper(t[2])]
               /\ Parse(t).filters = read.filters /\ Parse(t).similarTo = read.similarTo
               /\ Parse(t).limit = read.limit
<1> DEFINE parts == Tail(t)
           clause == SubSeq(t, 4, Len(t))
           read == IF t[3] = Word("WHERE") THEN whereClause(clause) ELSE NoQuery
<1>1. /\ t \in Seq(S) /\ Len(t) \in Nat /\ parts \in Seq(S)
      /\ Len(parts) = Len(t) - 1 /\ \A i \in 1 .. Len(t) - 1 : parts[i] = t[i + 1]
    BY TailOfText DEF Texts
<1>2. Command(t) = Word("GET") /\ Parse(t) = parseGet(parts)
    BY KindIsCommand
<1> HIDE DEF parts
<1>3. ~ (Len(parts) < 2)
    BY <1>2 DEF parseGet, Invalid, NoQuery
<1>4. Len(t) >= 3 /\ parts[1] = t[2] /\ parts[2] = t[3]
    <2>1. Len(t) >= 3
        BY <1>1, <1>3
    <2>2. 1 \in 1 .. Len(t) - 1 /\ 2 \in 1 .. Len(t) - 1
        BY <1>1, <2>1
    <2> QED BY <1>1, <2>1, <2>2
<1>5. /\ clause \in Seq(S) /\ Len(clause) = Len(t) - 3
      /\ \A i \in 1 .. Len(t) - 3 : clause[i] = t[i + 3]
    BY <1>1, <1>4
<1>6. SubSeq(parts, 3, Len(parts)) = clause
    <2> DEFINE other == SubSeq(parts, 3, Len(parts))
    <2>1. /\ other \in Seq(S) /\ Len(other) = Len(t) - 3
          /\ \A i \in 1 .. Len(t) - 3 : other[i] = parts[i + 2]
        BY <1>1, <1>4
    <2>2. \A i \in 1 .. Len(t) - 3 : other[i] = clause[i]
        BY <1>1, <1>4, <1>5, <2>1
    <2> HIDE DEF other, clause
    <2>3. other = clause
        BY <1>5, <2>1, <2>2
    <2> QED BY <2>3 DEF other
<1> HIDE DEF clause
<1>7. read = [NoQuery EXCEPT !.filters = read.filters,
                             !.similarTo = read.similarTo, !.limit = read.limit]
    <2>1. CASE t[3] = Word("WHERE")
        BY <1>5, <2>1, ClauseType
    <2>2. NoQuery = [NoQuery EXCEPT !.filters = NoQuery.filters,
                             !.similarTo = NoQuery.similarTo, !.limit = NoQuery.limit]
        BY DEF NoQuery
    <2> QED BY <2>1, <2>2, Zenon
<1>8. Parse(t) = [read EXCEPT !.type = "get", !.entryType = ToUpper(t[2])]
    BY <1>2, <1>3, <1>4, <1>6 DEF parseGet
<1> HIDE DEF read
<1>9. /\ Parse(t).filters = read.filters /\ Parse(t).similarTo = read.similarTo
      /\ Parse(t).limit = read.limit
    BY <1>7, <1>8 DEF NoQuery
<1> QED BY <1>2, <1>4, <1>5, <1>7, <1>8, <1>9 DEF read, clause

LEMMA FiltersOfText ==
    ASSUME NEW S, NEW t \in Texts(S)
    PROVE  /\ Parse(t).filters \in Seq(Filters(S))
           /\ Parse(t).type = "get" /\ t[3] = Word("WHERE") =>
                 ReadsFrom(S, whereClause(SubSeq(t, 4, Len(t))), SubSeq(t, 4, Len(t)), 1)
<1> DEFINE clause == SubSeq(t, 4, Len(t))
<1>1. CASE Parse(t).type = "get"
    <2>1. /\ clause \in Seq(S)
          /\ Parse(t).filters = IF t[3] = Word("WHERE") THEN whereClause(clause).filters
                                ELSE NoQuery.filters
        BY <1>1, GetIsClause
    <2>2. ReadsFrom(S, whereClause(clause), clause, 1)
        BY <2>1, ClauseProperties
    <2>3. NoQuery.filters \in Seq(Filters(S))
        BY DEF NoQuery
    <2>4. whereClause(clause).filters \in Seq(Filters(S))
        BY <2>2 DEF ReadsFrom
    <2> HIDE DEF clause
    <2>5. Parse(t).filters \in Seq(Filters(S))
        BY <2>1, <2>3, <2>4
    <2> QED BY <2>2, <2>5 DEF clause
<1>2. CASE Parse(t).type # "get"
    <2>1. Parse(t).filters = <<>>
        BY <1>2, KindIsCommand
    <2> QED BY <1>2, <2>1
<1> QED BY <1>1, <1>2

(***************************************************************************)
(* Of a WHERE clause of any length, parseGet takes one triple of tokens    *)
(* after the other, in order and without a gap, up to the first that       *)
(* begins with SIMILAR TO or LIMIT, or that is cut off.                    *)
(***************************************************************************)
THEOREM ClausesAreReadInOrder == TextSpec => []FiltersReadInOrder
<1>1. TextTyped => FiltersReadInOrder
    <2> SUFFICES ASSUME TextTyped, Parse(text).type = "get", text[3] = Word("WHERE")
                 PROVE  LET filters == Parse(text).filters
                            clause  == SubSeq(text, 4, Len(text))
                            n       == Len(filters)
                        IN  /\ \A i \in 1 .. n : /\ ~ EndsFilters(clause, 3 * i - 2)
                                                 /\ filters[i] = Triple(clause, 3 * i - 2)
                            /\ EndsFilters(clause, 3 * n + 1)
        BY DEF FiltersReadInOrder
    <2> DEFINE clause == SubSeq(text, 4, Len(text))
               filters == Parse(text).filters
               n == Len(filters)
    <2>1. text \in Texts(TokenSet)
        BY DEF TextTyped
    <2>2. filters = whereClause(clause).filters
        BY <2>1, GetIsClause
    <2>3. ReadsFrom(TokenSet, whereClause(clause), clause, 1)
        BY <2>1, FiltersOfText
    <2> HIDE DEF filters, clause
    <2>4. /\ \A k \in 1 .. n : /\ ~ EndsFilters(clause, 1 + 3 * (k - 1))
                               /\ filters[k] = Triple(clause, 1 + 3 * (k - 1))
          /\ EndsFilters(clause, 1 + 3 * n) /\ n \in Nat
        BY <2>2, <2>3 DEF ReadsFrom
    <2> HIDE DEF n
    <2>5. (\A k \in 1 .. n : 1 + 3 * (k - 1) = 3 * k - 2) /\ 1 + 3 * n = 3 * n + 1
        BY <2>4
    <2>6. /\ \A k \in 1 .. n : /\ ~ EndsFilters(clause, 3 * k - 2)
                               /\ filters[k] = Triple(clause, 3 * k - 2)
          /\ EndsFilters(clause, 3 * n + 1)
        BY <2>4, <2>5
    <2> QED BY <2>6 DEF n, filters, clause
<1> QED BY <1>1, TextsAreTyped, PTL

-----------------------------------------------------------------------------
(***************************************************************************)
(* Plans.                                                                  *)
(***************************************************************************)
\* How many positions there are in a set.
Among(n, P) == Cardinality({i \in 1 .. n : i \in P})

LEMMA PositionsSplit ==
    ASSUME NEW n \in Nat, NEW A, NEW B, NEW C,
           \A i \in 1 .. n : (i \in C <=> i \in A \/ i \in B) /\ ~ (i \in A /\ i \in B)
    PROVE  Among(n, A) + Among(n, B) = Among(n, C)
<1> DEFINE a == {i \in 1 .. n : i \in A}
           b == {i \in 1 .. n : i \in B}
           c == {i \in 1 .. n : i \in C}
<1>1. /\ IsFiniteSet(a) /\ Cardinality(a) \in Nat
      /\ IsFiniteSet(b) /\ Cardinality(b) \in Nat
    BY PositionsAreFinite
<1>2. c = a \cup b /\ a \cap b = {}
    OBVIOUS
<1> HIDE DEF a, b, c
<1>3. Cardinality(a \cup b) = Cardinality(a) + Cardinality(b) - Cardinality({})
    BY <1>1, <1>2, FS_Union
<1>4. Cardinality(a) + Cardinality(b) = Cardinality(c)
    BY <1>1, <1>2, <1>3, FS_EmptySet
<1> QED BY <1>4 DEF a, b, c, Among

LEMMA TimesOfNothing == \A e : Times(<<>>, e) = 0
<1>1. \A e : {i \in DOMAIN <<>> : <<>>[i] = e} = {}
    OBVIOUS
<1> QED BY <1>1, FS_EmptySet DEF Times

\* What an index takes and what is left, together, is all there was.
LEMMA FiltersArePartitioned ==
    ASSUME NEW S, NEW s \in Seq(S), NEW idx
    PROVE  /\ IndexFilters(idx, s) \in Seq(S) /\ PostFilters(idx, s) \in Seq(S)
           /\ Len(IndexFilters(idx, s)) + Len(PostFilters(idx, s)) = Len(s)
           /\ \A e : Times(IndexFilters(idx, s), e) + Times(PostFilters(idx, s), e) = Times(s, e)
<1> DEFINE n == Len(s)
           U == Usable(idx, s)
           R == DOMAIN s \ U
           At(e) == {j \in 1 .. n : s[j] = e}
<1>1. n \in Nat /\ DOMAIN s = 1 .. n
    OBVIOUS
<1>2. U \subseteq 1 .. n /\ R = 1 .. n \ U
    BY <1>1 DEF Usable
<1>3. /\ IndexFilters(idx, s) \in Seq(S) /\ Chosen(IndexFilters(idx, s), s, U, n)
      /\ PostFilters(idx, s) \in Seq(S) /\ Chosen(PostFilters(idx, s), s, R, n)
    BY SelectedProperties DEF IndexFilters, PostFilters
<1> HIDE DEF n, U, R
<1>4. Len(IndexFilters(idx, s)) + Len(PostFilters(idx, s)) = n
    <2> DEFINE all == 1 .. n
    <2>1. Among(n, U) + Among(n, R) = Among(n, all)
        <3>1. \A i \in 1 .. n : (i \in all <=> i \in U \/ i \in R) /\ ~ (i \in U /\ i \in R)
            BY <1>2
        <3> HIDE DEF all
        <3> QED BY <1>1, <3>1, PositionsSplit
    <2>2. {i \in 1 .. n : i \in 1 .. n} = 1 .. n
        OBVIOUS
    <2>3. Cardinality(1 .. n) = n
        BY <1>1, FS_Interval
    <2>4. /\ Len(IndexFilters(idx, s)) = Cardinality({i \in 1 .. n : i \in U})
          /\ Len(PostFilters(idx, s)) = Cardinality({i \in 1 .. n : i \in R})
        BY <1>3 DEF Chosen
    <2> QED BY <2>1, <2>2, <2>3, <2>4 DEF Among
<1>5. ASSUME NEW e
      PROVE  Times(IndexFilters(idx, s), e) + Times(PostFilters(idx, s), e) = Times(s, e)
    <2>1. /\ Times(IndexFilters(idx, s), e) = Cardinality({i \in 1 .. n : i \in U \cap At(e)})
          /\ Times(PostFilters(idx, s), e) = Cardinality({i \in 1 .. n : i \in R \cap At(e)})
        BY <1>3 DEF Chosen, n
    <2>2. Times(s, e) = Cardinality({i \in 1 .. n : i \in At(e)})
        <3>1. {i \in DOMAIN s : s[i] = e} = {i \in 1 .. n : i \in At(e)}
            BY <1>1
        <3> QED BY <3>1 DEF Times
    <2> DEFINE A == U \cap At(e)
               B == R \cap At(e)
               C == At(e)
    <2>3. \A i \in 1 .. n : (i \in C <=> i \in A \/ i \in B) /\ ~ (i \in A /\ i \in B)
        BY <1>2
    <2>4. Among(n, A) + Among(n, B) = Among(n, C)
        <3> HIDE DEF A, B, C
        <3> QED BY <1>1, <2>3, PositionsSplit
    <2> QED BY <2>1, <2>2, <2>4 DEF Among
<1> QED BY <1>3, <1>4, <1>5 DEF n

LEMMA PlansAre ==
    ASSUME NEW query, NEW indexes_, NEW plan \in Optimize(query, indexes_)
    PROVE  \/ /\ BestIndexes(query.filters, indexes_) = {}
              /\ plan.scanType = "full" /\ plan.index = NoIndex
              /\ plan.indexFilters = <<>> /\ plan.postFilters = query.filters
           \/ /\ plan.index \in BestIndexes(query.filters, indexes_)
              /\ plan.scanType \in {"index", "index_only"}
              /\ plan.indexFilters = IndexFilters(plan.index, query.filters)
              /\ plan.postFilters = PostFilters(plan.index, query.filters)
BY DEF Optimize

(***************************************************************************)
(* Whatever filters there are, and whatever indexes: a plan keeps every    *)
(* filter, and as often as it was given (analyzeIndexSuitability, for the  *)
(* index that selectBestIndex chose).                                      *)
(***************************************************************************)
THEOREM PlansKeepFilters == TextSpec => []PlanKeepsFilters
<1>1. TextTyped => PlanKeepsFilters
    <2> SUFFICES ASSUME TextTyped, NEW some \in SUBSET Indexes,
                        NEW plan \in Optimize(Parse(text), some)
                 PROVE  LET filters == Parse(text).filters
                        IN  /\ \A f \in ToSet(filters) :
                                  Times(plan.indexFilters, f) + Times(plan.postFilters, f)
                                  = Times(filters, f)
                            /\ Len(plan.indexFilters) + Len(plan.postFilters) = Len(filters)
                            /\ plan.scanType = "full" <=> plan.indexFilters = <<>>
                            /\ plan.scanType # "full" => plan.index \in some
        BY DEF PlanKeepsFilters
    <2> DEFINE filters == Parse(text).filters
    <2>1. filters \in Seq(Filters(TokenSet))
        BY FiltersOfText DEF TextTyped
    <2>2. CASE plan.scanType = "full"
        <3>1. plan.indexFilters = <<>> /\ plan.postFilters = filters
            BY <2>2, PlansAre
        <3>2. \A e : Times(filters, e) \in Nat
            BY <2>1, TimesIsNat
        <3> HIDE DEF filters
        <3>3. Len(<<>>) = 0 /\ Len(filters) \in Nat
            BY <2>1
        <3> QED BY <2>2, <3>1, <3>2, <3>3, TimesOfNothing DEF filters
    <2>3. CASE plan.scanType # "full"
        <3>1. /\ plan.index \in BestIndexes(filters, some)
              /\ plan.indexFilters = IndexFilters(plan.index, filters)
              /\ plan.postFilters = PostFilters(plan.index, filters)
            BY <2>3, PlansAre
        <3> HIDE DEF filters
        <3>2. plan.index \in some /\ IndexFilters(plan.index, filters) # <<>>
            BY <3>1 DEF BestIndexes
        <3>3. /\ Len(plan.indexFilters) + Len(plan.postFilters) = Len(filters)
              /\ \A f : Times(plan.indexFilters, f) + Times(plan.postFilters, f) = Times(filters, f)
            BY <2>1, <3>1, FiltersArePartitioned
        <3>4. plan.indexFilters # <<>>
            BY <3>1, <3>2
        <3> QED BY <2>3, <3>2, <3>3, <3>4 DEF filters
    <2> QED BY <2>2, <2>3
<1> QED BY <1>1, TextsAreTyped, PTL

\* One filter leaves ten rows, and two leave one, which is as few as it gets.
LEMMA CostIsTwofold ==
    ASSUME NEW S, NEW s \in Seq(S), s # <<>>
    PROVE  estimateIndexCost(s) = IF Len(s) = 1 THEN 101 ELSE 11
<1> DEFINE N == Len(s)
           Halving(f) == f = [i \in 0 .. N |-> IF i = 0 THEN 1000 ELSE f[i - 1] \div 100]
           left == CHOOSE f : Halving(f)
<1>1. N \in Nat /\ N >= 1
    OBVIOUS
<1>2. 1000 \div 100 = 10 /\ 10 \div 100 = 0 /\ 0 \div 100 = 0
    OBVIOUS
<1> DEFINE g == [i \in 0 .. N |-> IF i = 0 THEN 1000 ELSE IF i = 1 THEN 10 ELSE 0]
           h == [i \in 0 .. N |-> IF i = 0 THEN 1000 ELSE g[i - 1] \div 100]
<1> HIDE DEF N
<1>3. ASSUME NEW i \in 0 .. N PROVE g[i] = h[i]
    <2>1. CASE i = 0
        BY <2>1
    <2>2. CASE i = 1
        <3>1. g[0] = 1000 /\ i - 1 = 0
            BY <1>1, <2>2
        <3> HIDE DEF g
        <3>2. h[i] = 10
            BY <1>2, <2>2, <3>1
        <3> QED BY <2>2, <3>2 DEF g
    <2>3. CASE i = 2
        <3>1. g[1] = 10 /\ i - 1 = 1
            BY <1>1, <2>3
        <3> HIDE DEF g
        <3>2. h[i] = 0
            BY <1>2, <2>3, <3>1
        <3> QED BY <2>3, <3>2 DEF g
    <2>4. CASE i \notin {0, 1, 2}
        <3>1. i - 1 \in 0 .. N /\ i - 1 \notin {0, 1}
            BY <1>1, <2>4
        <3>2. g[i - 1] = 0
            BY <3>1
        <3> HIDE DEF g
        <3>3. h[i] = 0
            BY <1>2, <2>4, <3>2
        <3> QED BY <2>4, <3>3 DEF g
    <2> QED BY <2>1, <2>2, <2>3, <2>4
<1>4. Halving(g)
    BY <1>3
<1> HIDE DEF g, h, Halving
<1>5. Halving(left)
    BY <1>4
<1> HIDE DEF left
<1>6. /\ left[0] = 1000
      /\ \A i \in 0 .. N : i # 0 => left[i] = left[i - 1] \div 100
    BY <1>1, <1>5 DEF Halving
<1>7. left[1] = 10
    <2>1. 1 \in 0 .. N /\ 1 # 0 /\ 1 - 1 = 0
        BY <1>1
    <2> QED BY <1>2, <1>6, <2>1
<1> DEFINE T == {n \in Nat : n + 2 <= N => left[n + 2] = 0}
<1>8. 0 \in T
    <2> SUFFICES ASSUME 2 <= N PROVE left[2] = 0
        OBVIOUS
    <2>1. 2 \in 0 .. N /\ 2 # 0 /\ 2 - 1 = 1
        BY <1>1
    <2> QED BY <1>2, <1>6, <1>7, <2>1
<1>9. ASSUME NEW n \in Nat, n \in T PROVE n + 1 \in T
    <2> SUFFICES ASSUME n + 1 + 2 <= N PROVE left[n + 1 + 2] = 0
        OBVIOUS
    <2>1. n + 1 + 2 \in 0 .. N /\ n + 1 + 2 # 0 /\ n + 1 + 2 - 1 = n + 2 /\ n + 2 <= N
        BY <1>1
    <2>2. left[n + 2] = 0
        BY <1>9, <2>1
    <2> QED BY <1>2, <1>6, <2>1, <2>2
<1> HIDE DEF T
<1>10. Nat \subseteq T
    BY <1>8, <1>9, Induction
<1>11. left[N] = IF N = 1 THEN 10 ELSE 0
    <2>1. CASE N = 1
        BY <1>7, <2>1
    <2>2. CASE N # 1
        <3>1. N - 2 \in T /\ N - 2 + 2 = N
            BY <1>1, <1>10, <2>2
        <3> QED BY <1>1, <2>2, <3>1 DEF T
    <2> QED BY <2>1, <2>2
<1>12. estimateIndexRows(s) = IF left[N] < 1 THEN 1 ELSE left[N]
    BY DEF estimateIndexRows, TotalDocuments, Cardinality100, left, Halving, N
<1>13. estimateIndexRows(s) = IF N = 1 THEN 10 ELSE 1
    BY <1>11, <1>12
<1> QED BY <1>13 DEF estimateIndexCost, AvgBucketSize, N

(***************************************************************************)
(* selectBestIndex, whatever filters and indexes there are: an index that  *)
(* takes a filter is used, and none takes more than the one chosen, where  *)
(* one filter and two make a difference to the estimate.                   *)
(***************************************************************************)
THEOREM BestIndexesTakeMost == TextSpec => []BestIndexTakesMost
<1>1. TextTyped => BestIndexTakesMost
    <2> SUFFICES ASSUME TextTyped, NEW some \in SUBSET Indexes,
                        NEW plan \in Optimize(Parse(text), some), NEW idx \in some
                 PROVE  Taken(idx, Parse(text).filters) <= Taken(plan.index, Parse(text).filters)
        BY DEF BestIndexTakesMost
    <2> DEFINE filters == Parse(text).filters
               best == BestIndexes(filters, some)
               cost(i) == estimateIndexCost(IndexFilters(i, filters))
    <2>1. filters \in Seq(Filters(TokenSet))
        BY FiltersOfText DEF TextTyped
    <2>2. best = {} \/ plan.index \in best
        BY PlansAre
    <2> HIDE DEF filters
    <2>3. \A i : IndexFilters(i, filters) \in Seq(Filters(TokenSet))
        BY <2>1, FiltersArePartitioned
    <2>4. \A i : Len(IndexFilters(i, filters)) \in Nat /\ Taken(i, filters) \in 0 .. 2
        <3>1. \A s \in Seq(Filters(TokenSet)) : Len(s) \in Nat
            OBVIOUS
        <3>2. \A i : Len(IndexFilters(i, filters)) \in Nat
            BY <2>3, <3>1
        <3>3. ASSUME NEW i PROVE Taken(i, filters) \in 0 .. 2
            <4> DEFINE n == Len(IndexFilters(i, filters))
            <4>1. n \in Nat /\ Taken(i, filters) = IF n < 2 THEN n ELSE 2
                BY <3>2 DEF Taken
            <4> HIDE DEF n
            <4> QED BY <4>1
        <3> QED BY <3>2, <3>3
    <2>5. ASSUME NEW i, IndexFilters(i, filters) # <<>>
          PROVE  /\ cost(i) = IF Taken(i, filters) = 1 THEN 101 ELSE 11
                 /\ Taken(i, filters) \in {1, 2}
        <3>1. cost(i) = IF Len(IndexFilters(i, filters)) = 1 THEN 101 ELSE 11
            BY <2>3, <2>5, CostIsTwofold
        <3>2. Len(IndexFilters(i, filters)) # 0
            <4>1. \A s \in Seq(Filters(TokenSet)) : s # <<>> => Len(s) # 0
                OBVIOUS
            <4> QED BY <2>3, <2>5, <4>1
        <3> DEFINE n == Len(IndexFilters(i, filters))
        <3>3. n \in Nat /\ n # 0 /\ Taken(i, filters) = IF n < 2 THEN n ELSE 2
            BY <2>4, <3>2 DEF Taken
        <3>4. cost(i) = IF n = 1 THEN 101 ELSE 11
            BY <3>1
        <3> HIDE DEF n, cost
        <3> QED BY <3>3, <3>4
    <2>6. CASE IndexFilters(idx, filters) = <<>>
        <3>1. Taken(idx, filters) = 0
            BY <2>6 DEF Taken
        <3>2. Taken(plan.index, filters) \in 0 .. 2
            BY <2>4
        <3> QED BY <3>1, <3>2 DEF filters
    <2>7. CASE IndexFilters(idx, filters) # <<>>
        <3>1. best # {}
            <4>1. CASE \E i \in some : IndexFilters(i, filters) # <<>> /\ cost(i) = 11
                <5>1. PICK i \in some : IndexFilters(i, filters) # <<>> /\ cost(i) = 11
                    BY <4>1
                <5>2. \A other \in some : IndexFilters(other, filters) # <<>> => cost(i) <= cost(other)
                    BY <2>5, <5>1
                <5>3. i \in best
                    BY <5>1, <5>2 DEF BestIndexes
                <5> QED BY <5>3
            <4>2. CASE ~ \E i \in some : IndexFilters(i, filters) # <<>> /\ cost(i) = 11
                <5>1. \A i \in some : IndexFilters(i, filters) # <<>> => cost(i) = 101
                    BY <2>5, <4>2
                <5>2. \A other \in some :
                          IndexFilters(other, filters) # <<>> => cost(idx) <= cost(other)
                    BY <2>7, <5>1
                <5>3. idx \in best
                    BY <2>7, <5>2 DEF BestIndexes
                <5> QED BY <5>3
            <4> QED BY <4>1, <4>2
        <3>2. plan.index \in best
            BY <2>2, <3>1
        <3>3. IndexFilters(plan.index, filters) # <<>> /\ cost(plan.index) <= cost(idx)
            BY <2>7, <3>2 DEF BestIndexes
        <3> HIDE DEF cost
        <3>4. Taken(idx, filters) <= Taken(plan.index, filters)
            BY <2>5, <2>7, <3>3
        <3> QED BY <3>4 DEF filters
    <2> QED BY <2>6, <2>7
<1> QED BY <1>1, TextsAreTyped, PTL

-----------------------------------------------------------------------------
(***************************************************************************)
(* What a query says.                                                      *)
(***************************************************************************)
LEMMA TokenKinds ==
    ASSUME NEW t \in TokenSet
    PROVE  /\ t.kind = "reference" =>
                  t = Reference(t.parts[1], t.parts[2]) /\ {t.parts[1], t.parts[2]} \subseteq STRING
           /\ t.kind = "list" => t = List(t.parts)
           /\ t.number # 0 => t = Number(t.number)
BY DEF TokenSet, Reference, List, Number, Token

LEMMA CapitalsStay ==
    /\ \A t \in TokenSet : ToUpper(ToUpper(t)) = ToUpper(t)
    /\ \A w \in {"GET", "SET", "DELETE", "CREATE", "DROP", "INDEX", "COLLECTION", "UNIQUE"} :
           ToUpper(Word(w)) = Word(w)
<1>1. \A t \in TokenSet : ToUpper(ToUpper(t)) = ToUpper(t)
    BY DEF ToUpper, Capital, Word, Token
<1>2. \A w \in {"GET", "SET", "DELETE", "CREATE", "DROP", "INDEX", "COLLECTION", "UNIQUE"} :
          ToUpper(Word(w)) = Word(w)
    BY DEF ToUpper, Capital, Word, Token
<1> QED BY <1>1, <1>2

\* The tokens of a query that is written back.
Said == TokenSet \cup {ToUpper(t) : t \in TokenSet}
        \cup {Word(w) : w \in {"GET", "SET", "DELETE", "CREATE", "DROP", "INDEX", "COLLECTION",
                               "UNIQUE", "WHERE", "ON", "id", "=", "SIMILAR", "TO", "LIMIT"}}

LEMMA TokensAreSaid == Seq(TokenSet) \subseteq Seq(Said)
<1>1. TokenSet \subseteq Said
    BY DEF Said
<1> QED BY <1>1, SequencesOfMore

SaysIt(t, w) ==
    /\ Len(w) <= Len(t)
    /\ \A i \in DOMAIN w : ToUpper(t[i]) = ToUpper(w[i])
    /\ Parse(w) = Parse(t)

LEMMA SetIsItsText ==
    ASSUME NEW t \in Texts(TokenSet), Parse(t).type = "set"
    PROVE  SaysIt(t, Written(Parse(t)))
<1> DEFINE parts == Tail(t)
           q == Parse(t)
           w == Written(q)
           v == SubSeq(parts, 3, Len(parts))
<1>1. /\ t \in Seq(TokenSet) /\ Len(t) \in Nat /\ parts \in Seq(TokenSet) /\ Len(parts) = Len(t) - 1
      /\ \A i \in 1 .. Len(t) - 1 : parts[i] = t[i + 1]
    BY TailOfText DEF Texts
<1>2. Command(t) = Word("SET") /\ q = parseSet(parts)
    BY KindIsCommand
<1> HIDE DEF parts
<1>3. ~ (Len(parts) < 3) /\ parts[2] = Word("=")
    BY <1>2 DEF parseSet, Invalid, NoQuery
<1>4. q.type = "set" /\ q.key = parts[1] /\ q.value = v
    BY <1>2, <1>3 DEF parseSet, NoQuery
<1> HIDE DEF q
<1>5. w = <<Word("SET"), parts[1], Word("=")>> \o v
    BY <1>4 DEF Written
<1>6. parts[1] \in Said /\ Word("SET") \in Said /\ Word("=") \in Said
    <2>1. 1 \in 1 .. Len(parts)
        BY <1>1, <1>3
    <2> QED BY <1>1, <2>1 DEF Said
<1>7. v \in Seq(Said) /\ Len(v) = Len(t) - 3 /\ \A i \in 1 .. Len(t) - 3 : v[i] = parts[i + 2]
    <2>1. v \in Seq(TokenSet) /\ Len(v) = Len(t) - 3 /\ \A i \in 1 .. Len(t) - 3 : v[i] = parts[i + 2]
        BY <1>1, <1>3
    <2> QED BY <2>1, TokensAreSaid
<1> HIDE DEF v
<1>8. /\ w \in Seq(Said) /\ Len(w) = Len(t) /\ w[1] = Word("SET") /\ w[2] = parts[1]
      /\ w[3] = Word("=") /\ \A i \in 1 .. Len(t) - 3 : w[i + 3] = v[i]
    BY <1>1, <1>3, <1>5, <1>6, <1>7
<1> HIDE DEF w
<1>9. \A i \in 1 .. Len(t) - 1 : w[i + 1] = parts[i]
    <2> TAKE i \in 1 .. Len(t) - 1
    <2>1. CASE i \in {1, 2}
        BY <1>3, <1>8, <2>1
    <2>2. CASE i \notin {1, 2}
        <3>1. i - 2 \in 1 .. Len(t) - 3 /\ (i - 2) + 3 = i + 1 /\ (i - 2) + 2 = i
            BY <1>1, <1>3, <2>2
        <3> QED BY <1>7, <1>8, <3>1
    <2> QED BY <2>1, <2>2
<1>10. w \in Texts(Said)
    <2>1. Len(w) # 0
        BY <1>1, <1>3, <1>8
    <2> QED BY <1>8, <2>1 DEF Texts
<1>11. Tail(w) = parts
    <2>1. Tail(w) \in Seq(Said) /\ Len(Tail(w)) = Len(parts)
        BY <1>1, <1>8, <1>10, TailOfText
    <2>2. \A i \in 1 .. Len(parts) : Tail(w)[i] = parts[i]
        BY <1>1, <1>8, <1>9, <1>10, TailOfText
    <2> QED BY <1>1, <2>1, <2>2
<1>12. Command(w) = Word("SET")
    BY <1>8, CapitalsStay DEF Command
<1>13. Parse(w) = q
    BY <1>2, <1>10, <1>11, <1>12, CommandIsKind
<1>14. \A i \in 1 .. Len(t) : ToUpper(t[i]) = ToUpper(w[i])
    <2> TAKE i \in 1 .. Len(t)
    <2>1. CASE i = 1
        BY <1>2, <1>12, <2>1 DEF Command
    <2>2. CASE i # 1
        <3>1. i - 1 \in 1 .. Len(t) - 1 /\ (i - 1) + 1 = i
            BY <1>1, <2>2
        <3> QED BY <1>1, <1>9, <3>1
    <2> QED BY <2>1, <2>2
<1>15. DOMAIN w = 1 .. Len(t)
    BY <1>8
<1>16. Len(w) <= Len(t)
    BY <1>1, <1>8
<1> QED BY <1>13, <1>14, <1>15, <1>16 DEF SaysIt, w, q

LEMMA DeleteIsItsText ==
    ASSUME NEW t \in Texts(TokenSet), Parse(t).type = "delete"
    PROVE  SaysIt(t, Written(Parse(t)))
<1> DEFINE parts == Tail(t)
           q == Parse(t)
           w == Written(q)
<1>1. /\ t \in Seq(TokenSet) /\ Len(t) \in Nat /\ parts \in Seq(TokenSet) /\ Len(parts) = Len(t) - 1
      /\ \A i \in 1 .. Len(t) - 1 : parts[i] = t[i + 1]
    BY TailOfText DEF Texts
<1>2. Command(t) = Word("DELETE") /\ q = parseDelete(parts)
    BY KindIsCommand
<1> HIDE DEF parts
<1>3. /\ ~ (Len(parts) < 4) /\ parts[1] = Word("WHERE") /\ parts[2] = Word("id")
      /\ parts[3] = Word("=") /\ q = [NoQuery EXCEPT !.type = "delete", !.id = parts[4]]
    BY <1>2 DEF parseDelete, Invalid, Panics, NoQuery
<1>4. q.type = "delete" /\ q.id = parts[4]
    BY <1>3 DEF NoQuery
<1> HIDE DEF q
<1>5. Len(t) >= 5 /\ \A i \in 1 .. 4 : i \in 1 .. Len(t) - 1 /\ parts[i] = t[i + 1]
    BY SMTT(30), <1>1, <1>3
<1>6. /\ t[2] = Word("WHERE") /\ t[3] = Word("id") /\ t[4] = Word("=") /\ t[5] = parts[4]
      /\ parts[4] \in Said
    BY <1>1, <1>3, <1>5 DEF Said
<1>7. w = <<Word("DELETE"), Word("WHERE"), Word("id"), Word("="), parts[4]>>
    BY <1>4 DEF Written
<1>8. w \in Seq(Said) /\ Len(w) = 5 /\ w # <<>>
    BY <1>6, <1>7 DEF Said
<1>9. Tail(w) = <<Word("WHERE"), Word("id"), Word("="), parts[4]>>
    BY <1>7
<1>10. Command(w) = Word("DELETE")
    BY <1>7, CapitalsStay DEF Command
<1>11. Parse(w) = q
    <2>1. Parse(w) = parseDelete(Tail(w))
        BY <1>8, <1>10, CommandIsKind DEF Texts
    <2> DEFINE p == <<Word("WHERE"), Word("id"), Word("="), parts[4]>>
    <2>2. /\ Len(p) = 4 /\ p[1] = Word("WHERE") /\ p[2] = Word("id") /\ p[3] = Word("=")
          /\ p[4] = parts[4]
        OBVIOUS
    <2> HIDE DEF p
    <2>3. parseDelete(p) = [NoQuery EXCEPT !.type = "delete", !.id = parts[4]]
        BY <2>2 DEF parseDelete
    <2> QED BY <1>3, <1>9, <2>1, <2>3 DEF p
<1>12. ToUpper(t[1]) = ToUpper(w[1])
    BY <1>2, <1>10 DEF Command
<1>13. /\ w[2] = Word("WHERE") /\ w[3] = Word("id") /\ w[4] = Word("=") /\ w[5] = parts[4]
       /\ DOMAIN w = 1 .. 5
    BY <1>7
<1> HIDE DEF w
<1>14. \A i \in 1 .. 5 : ToUpper(t[i]) = ToUpper(w[i])
    <2>1. \A i \in 1 .. 5 : i = 1 \/ t[i] = w[i]
        BY <1>6, <1>13
    <2> QED BY <1>12, <2>1
<1>15. Len(w) <= Len(t)
    BY <1>1, <1>5, <1>8
<1> QED BY <1>11, <1>13, <1>14, <1>15 DEF SaysIt, w, q

\* CREATE INDEX, by the positions of its tokens.
CreatesIndex(t) ==
    /\ Command(t) = Word("CREATE") /\ Len(t) >= 5 /\ ToUpper(t[2]) = Word("INDEX")
    /\ t[3].kind = "reference" /\ t[4] = Word("ON") /\ t[5] = Word(t[3].parts[1])

IndexCreated(t) ==
    LET listed == Len(t) >= 6 /\ t[6].kind = "list"
        next   == IF listed THEN 7 ELSE 6
    IN  [NoQuery EXCEPT !.type       = "create_index",
                        !.collection = Word(t[3].parts[1]),
                        !.indexName  = Word(t[3].parts[2]),
                        !.fields     = IF listed THEN t[6].parts ELSE <<>>,
                        !.unique     = next <= Len(t) /\ ToUpper(t[next]) = Word("UNIQUE")]

LEMMA IndexesAreCreated ==
    ASSUME NEW S, NEW t \in Texts(S)
    PROVE  /\ Parse(t).type = "create_index" => CreatesIndex(t)
           /\ CreatesIndex(t) => Parse(t) = IndexCreated(t)
<1> DEFINE parts == Tail(t)
           words == Tail(parts)
<1>1. /\ t \in Seq(S) /\ Len(t) \in Nat /\ parts \in Seq(S) /\ Len(parts) = Len(t) - 1
      /\ \A i \in 1 .. Len(t) - 1 : parts[i] = t[i + 1]
    BY TailOfText DEF Texts
<1> HIDE DEF parts
<1>2. Len(parts) >= 2 =>
          /\ Len(words) = Len(t) - 2 /\ \A i \in 1 .. Len(t) - 2 : words[i] = t[i + 2]
          /\ parts[1] = t[2]
    <2> SUFFICES ASSUME Len(parts) >= 2
                 PROVE  /\ Len(words) = Len(t) - 2 /\ \A i \in 1 .. Len(t) - 2 : words[i] = t[i + 2]
                        /\ parts[1] = t[2]
        OBVIOUS
    <2>1. parts \in Texts(S) /\ 1 \in 1 .. Len(t) - 1
        <3>1. parts # <<>>
            BY <1>1
        <3> QED BY <1>1, <3>1 DEF Texts
    <2>2. Len(words) = Len(parts) - 1 /\ \A i \in 1 .. Len(parts) - 1 : words[i] = parts[i + 1]
        BY <2>1, TailOfText
    <2>3. \A i \in 1 .. Len(t) - 2 : i \in 1 .. Len(parts) - 1 /\ i + 1 \in 1 .. Len(t) - 1
                                     /\ (i + 1) + 1 = i + 2
        BY <1>1
    <2>4. \A i \in 1 .. Len(t) - 2 : words[i] = t[i + 2]
        BY <1>1, <2>2, <2>3
    <2>5. Len(words) = Len(t) - 2 /\ parts[1] = t[2]
        BY <1>1, <2>1, <2>2
    <2> QED BY <2>4, <2>5
<1> HIDE DEF words
<1> DEFINE Given == /\ ~ (Len(words) < 3) /\ words[1].kind = "reference"
                    /\ words[2] = Word("ON") /\ words[3] = Word(words[1].parts[1])
           Made == [NoQuery EXCEPT
                      !.type       = "create_index",
                      !.collection = Word(words[1].parts[1]),
                      !.indexName  = Word(words[1].parts[2]),
                      !.fields     = IF Len(words) >= 4 /\ words[4].kind = "list"
                                     THEN words[4].parts ELSE <<>>,
                      !.unique     = LET next == IF Len(words) >= 4 /\ words[4].kind = "list"
                                                 THEN 5 ELSE 4
                                     IN  next <= Len(words) /\ ToUpper(words[next]) = Word("UNIQUE")]
<1>3. (parseCreateIndex(words).type = "create_index" => Given)
      /\ (Given => parseCreateIndex(words) = Made)
    <2>1. Invalid.type # "create_index"
        BY DEF Invalid, NoQuery
    <2>2. Given => parseCreateIndex(words) = Made
        BY DEF parseCreateIndex
    <2>3. ~ Given => parseCreateIndex(words) = Invalid
        BY DEF parseCreateIndex
    <2> QED BY <2>1, <2>2, <2>3
<1>4. Len(words) >= 3 /\ Len(parts) >= 2 =>
          /\ words[1] = t[3] /\ words[2] = t[4] /\ words[3] = t[5] /\ Len(t) >= 5
          /\ Len(words) >= 4 => words[4] = t[6]
          /\ Len(words) >= 5 => words[5] = t[7]
    BY <1>1, <1>2
<1>5. ASSUME Parse(t).type = "create_index" PROVE CreatesIndex(t)
    <2>1. Command(t) = Word("CREATE") /\ Parse(t) = parseCreate(parts)
        BY <1>5, KindIsCommand DEF parts
    <2>2. \A p : Invalid.type # "create_index"
                 /\ parseCollection("create_collection", p).type # "create_index"
        BY DEF Invalid, NoQuery, parseCollection
    <2>3. /\ ~ (Len(parts) < 2) /\ ToUpper(parts[1]) = Word("INDEX")
          /\ parseCreateIndex(words).type = "create_index"
        BY <1>5, <2>1, <2>2 DEF parseCreate, words
    <2>4. Len(parts) >= 2
        BY <1>1, <2>3
    <2>5. Given
        BY <1>3, <2>3
    <2>6. Len(words) >= 3
        BY <1>1, <1>2, <2>4, <2>5
    <2> QED BY <1>2, <1>4, <2>1, <2>3, <2>4, <2>5, <2>6 DEF CreatesIndex
<1>6. ASSUME CreatesIndex(t) PROVE Parse(t) = IndexCreated(t)
    <2>1. Len(parts) >= 2 /\ Len(words) >= 3 /\ Len(words) = Len(t) - 2 /\ ~ (Len(parts) < 2)
          /\ ~ (Len(words) < 3)
        BY <1>1, <1>2, <1>6 DEF CreatesIndex
    <2>2. Given
        BY <1>4, <1>6, <2>1 DEF CreatesIndex
    <2>3. Parse(t) = parseCreate(parts)
        BY <1>6, CommandIsKind DEF CreatesIndex, parts
    <2>4. parseCreate(parts) = parseCreateIndex(words)
        BY <1>2, <1>6, <2>1, WordsDiffer DEF parseCreate, CreatesIndex, words
    <2>5. Made = IndexCreated(t)
        <3>1. (Len(words) >= 4 <=> Len(t) >= 6) /\ (5 <= Len(words) <=> 7 <= Len(t))
              /\ (4 <= Len(words) <=> 6 <= Len(t)) /\ (Len(words) >= 5 <=> 7 <= Len(t))
            BY <1>1, <2>1
        <3>2. Len(t) >= 6 <=> 6 <= Len(t)
            BY <1>1
        <3> DEFINE listed == Len(words) >= 4 /\ words[4].kind = "list"
                   next   == IF listed THEN 5 ELSE 4
                   fields == IF listed THEN words[4].parts ELSE <<>>
                   unique == next <= Len(words) /\ ToUpper(words[next]) = Word("UNIQUE")
                   listedT == Len(t) >= 6 /\ t[6].kind = "list"
                   nextT   == IF listedT THEN 7 ELSE 6
                   fieldsT == IF listedT THEN t[6].parts ELSE <<>>
                   uniqueT == nextT <= Len(t) /\ ToUpper(t[nextT]) = Word("UNIQUE")
                   Created(r, f, u) == [NoQuery EXCEPT !.type       = "create_index",
                                                       !.collection = Word(r.parts[1]),
                                                       !.indexName  = Word(r.parts[2]),
                                                       !.fields     = f,
                                                       !.unique     = u]
        <3>3. listed <=> listedT
            BY <1>4, <2>1, <3>1
        <3>4. fields = fieldsT
            BY <1>4, <2>1, <3>1, <3>3
        <3>5. unique <=> uniqueT
            <4>1. CASE listed
                BY <1>4, <2>1, <3>1, <3>3, <4>1
            <4>2. CASE ~ listed
                BY <1>4, <2>1, <3>1, <3>2, <3>3, <4>2
            <4> QED BY <4>1, <4>2
        <3>6. unique = uniqueT
            <4>1. unique \in BOOLEAN /\ uniqueT \in BOOLEAN
                OBVIOUS
            <4> HIDE DEF unique, uniqueT
            <4> QED BY <3>5, <4>1
        <3>7. Made = Created(words[1], fields, unique)
            OBVIOUS
        <3>8. IndexCreated(t) = Created(t[3], fieldsT, uniqueT)
            BY DEF IndexCreated
        <3>9. words[1] = t[3]
            BY <1>4, <2>1
        <3> HIDE DEF Made, fields, unique, fieldsT, uniqueT, Created
        <3> QED BY <3>4, <3>6, <3>7, <3>8, <3>9
    <2> QED BY <1>3, <2>2, <2>3, <2>4, <2>5
<1> QED BY <1>5, <1>6

LEMMA CreateIndexIsItsText ==
    ASSUME NEW t \in Texts(TokenSet), Parse(t).type = "create_index",
           ~ (Len(t) >= 6 /\ t[6] = List(<<>>))
    PROVE  SaysIt(t, Written(Parse(t)))
<1> DEFINE q == Parse(t)
           w == Written(q)
           r == t[3]
           listed == Len(t) >= 6 /\ t[6].kind = "list"
           next   == IF listed THEN 7 ELSE 6
           unique == next <= Len(t) /\ ToUpper(t[next]) = Word("UNIQUE")
           head   == <<Word("CREATE"), Word("INDEX"), r, Word("ON"), t[5]>>
           list   == IF listed THEN <<t[6]>> ELSE <<>>
           last   == IF unique THEN <<Word("UNIQUE")>> ELSE <<>>
<1>1. t \in Seq(TokenSet) /\ Len(t) \in Nat /\ t \in Texts(TokenSet)
    BY TailOfText DEF Texts
<1>2. CreatesIndex(t) /\ q = IndexCreated(t)
    BY IndexesAreCreated
<1>3. /\ Command(t) = Word("CREATE") /\ Len(t) >= 5 /\ ToUpper(t[2]) = Word("INDEX")
      /\ r.kind = "reference" /\ t[4] = Word("ON") /\ t[5] = Word(r.parts[1])
    BY <1>2 DEF CreatesIndex
<1>4. /\ r \in TokenSet /\ t[5] \in TokenSet
      /\ Len(t) >= 6 => t[6] \in TokenSet
      /\ r = Reference(r.parts[1], r.parts[2])
    BY <1>1, <1>3, TokenKinds
<1>5. listed => t[6] = List(t[6].parts) /\ t[6].parts # <<>>
    <2> SUFFICES ASSUME listed PROVE t[6] = List(t[6].parts) /\ t[6].parts # <<>>
        OBVIOUS
    <2>1. t[6] = List(t[6].parts)
        BY <1>4, TokenKinds
    <2>2. t[6].parts # <<>>
        BY <2>1
    <2> QED BY <2>1, <2>2
<1>6. /\ q.type = "create_index" /\ q.collection = t[5] /\ q.collection.parts[1] = r.parts[1]
      /\ q.indexName.parts[1] = r.parts[2]
      /\ q.fields = IF listed THEN t[6].parts ELSE <<>>
      /\ q.unique = unique
    BY <1>2, <1>3 DEF IndexCreated, NoQuery, Word, Token
<1> HIDE DEF q
<1>7. w = head \o list \o last
    <2>1. w = <<Word("CREATE"), Word("INDEX"), Reference(r.parts[1], r.parts[2]), Word("ON"), t[5]>>
              \o If(q.fields # <<>>, <<List(q.fields)>>)
              \o If(q.unique, <<Word("UNIQUE")>>)
        BY <1>6 DEF Written
    <2>2. If(q.fields # <<>>, <<List(q.fields)>>) = list
        BY <1>5, <1>6 DEF If
    <2>3. If(q.unique, <<Word("UNIQUE")>>) = last
        BY <1>6 DEF If
    <2> HIDE DEF list, last
    <2> QED BY <1>4, <2>1, <2>2, <2>3
<1>8. /\ w \in Texts(Said) /\ Len(w) \in Nat /\ DOMAIN w = 1 .. Len(w) /\ Len(w) >= 5
      /\ w[1] = Word("CREATE") /\ w[2] = Word("INDEX") /\ w[3] = r
      /\ w[4] = Word("ON") /\ w[5] = t[5]
      /\ listed => Len(w) >= 6 /\ w[6] = t[6]
      /\ unique => Len(w) = next /\ w[next] = Word("UNIQUE")
      /\ ~ unique => Len(w) = next - 1
    <2>1. /\ {Word("CREATE"), Word("INDEX"), r, Word("ON"), t[5], Word("UNIQUE")} \subseteq Said
          /\ listed => t[6] \in Said
        BY <1>4 DEF Said
    <2>2. /\ head \in Seq(Said) /\ Len(head) = 5 /\ head[1] = Word("CREATE")
          /\ head[2] = Word("INDEX") /\ head[3] = r /\ head[4] = Word("ON") /\ head[5] = t[5]
        BY <2>1
    <2>3. /\ list \in Seq(Said) /\ Len(list) = next - 6
          /\ listed => list[1] = t[6]
        BY <2>1
    <2>4. /\ last \in Seq(Said) /\ Len(last) = IF unique THEN 1 ELSE 0
          /\ unique => last[1] = Word("UNIQUE")
        <3> HIDE DEF unique
        <3> QED BY <2>1
    <2> DEFINE u == head \o list
    <2>5. next \in {6, 7} /\ (listed <=> next = 7)
        OBVIOUS
    <2> HIDE DEF head, list, last, w, listed, next, unique
    <2>6. /\ u \in Seq(Said) /\ Len(u) = next - 1
          /\ \A i \in 1 .. next - 1 : u[i] = IF i <= 5 THEN head[i] ELSE list[i - 5]
        <3>1. /\ u \in Seq(Said) /\ Len(u) = Len(head) + Len(list)
              /\ \A i \in 1 .. Len(head) + Len(list) :
                     u[i] = IF i <= Len(head) THEN head[i] ELSE list[i - Len(head)]
            BY <2>2, <2>3, ConcatProperties
        <3>2. Len(head) = 5 /\ Len(head) + Len(list) = next - 1
            BY <2>2, <2>3, <2>5
        <3> HIDE DEF u
        <3> QED BY <3>1, <3>2
    <2> HIDE DEF u
    <2>7. /\ w \in Seq(Said) /\ Len(w) = next - 1 + Len(last)
          /\ \A i \in 1 .. next - 1 + Len(last) :
                 w[i] = IF i <= next - 1 THEN u[i] ELSE last[i - (next - 1)]
        BY <1>7, <2>4, <2>5, <2>6, ConcatProperties DEF u
    <2>8. Len(w) >= 5 /\ Len(w) \in Nat /\ w \in Texts(Said) /\ DOMAIN w = 1 .. Len(w)
        <3>1. Len(w) >= 5
            BY <2>4, <2>5, <2>7
        <3>2. w # <<>>
            BY <3>1
        <3> QED BY <2>7, <3>1, <3>2 DEF Texts
    <2>9. \A i \in 1 .. 5 : w[i] = head[i]
        <3>1. \A i \in 1 .. 5 : i \in 1 .. next - 1 + Len(last) /\ i <= next - 1 /\ i <= 5
                               /\ i \in 1 .. next - 1
            BY <2>4, <2>5
        <3> QED BY <2>6, <2>7, <3>1
    <2>10. ASSUME listed PROVE Len(w) >= 6 /\ w[6] = t[6]
        <3>1. 6 \in 1 .. next - 1 + Len(last) /\ 6 <= next - 1 /\ 6 \in 1 .. next - 1 /\ 6 - 5 = 1
            BY <2>4, <2>5, <2>10
        <3> QED BY <2>3, <2>6, <2>7, <2>10, <3>1
    <2>11. ASSUME unique PROVE Len(w) = next /\ w[next] = Word("UNIQUE")
        <3>1. next \in 1 .. next - 1 + Len(last) /\ ~ (next <= next - 1) /\ next - (next - 1) = 1
            BY <2>4, <2>5, <2>11
        <3> QED BY <2>4, <2>5, <2>7, <2>11, <3>1
    <2>12. ~ unique => Len(w) = next - 1
        BY <2>4, <2>5, <2>7
    <2> QED BY <2>2, <2>8, <2>9, <2>10, <2>11, <2>12
<1> HIDE DEF w
<1>9. CreatesIndex(w)
    BY <1>3, <1>8, CapitalsStay DEF CreatesIndex, Command
<1>10. Parse(w) = IndexCreated(w)
    BY <1>8, <1>9, IndexesAreCreated
<1> DEFINE listedW == Len(w) >= 6 /\ w[6].kind = "list"
           nextW   == IF listedW THEN 7 ELSE 6
           uniqueW == nextW <= Len(w) /\ ToUpper(w[nextW]) = Word("UNIQUE")
<1>11. listedW <=> listed
    <2>1. CASE listed
        BY <1>8, <2>1
    <2>2. CASE ~ listed
        <3>1. Word("UNIQUE").kind # "list"
            BY DEF Word, Token
        <3> QED BY <1>8, <2>2, <3>1
    <2> QED BY <2>1, <2>2
<1>12. uniqueW = unique
    <2>1. CASE unique
        <3>1. nextW = next /\ next <= Len(w) /\ ToUpper(w[next]) = Word("UNIQUE")
            BY <1>8, <1>11, <2>1, CapitalsStay
        <3> QED BY <2>1, <3>1
    <2>2. CASE ~ unique
        <3>1. nextW = next /\ ~ (next <= Len(w))
            BY <1>8, <1>11, <2>2
        <3> HIDE DEF next
        <3> QED BY <2>2, <3>1
    <2> QED BY <2>1, <2>2
<1>13. IndexCreated(w) = IndexCreated(t)
    <2> DEFINE fields  == IF listed THEN t[6].parts ELSE <<>>
               fieldsW == IF listedW THEN w[6].parts ELSE <<>>
               Created(f, u) == [NoQuery EXCEPT !.type       = "create_index",
                                                !.collection = Word(r.parts[1]),
                                                !.indexName  = Word(r.parts[2]),
                                                !.fields     = f,
                                                !.unique     = u]
    <2>1. fieldsW = fields
        BY <1>8, <1>11
    <2>2. IndexCreated(t) = Created(fields, unique)
        BY DEF IndexCreated
    <2>3. IndexCreated(w) = Created(fieldsW, uniqueW)
        BY <1>8 DEF IndexCreated
    <2> HIDE DEF fields, fieldsW, unique, uniqueW, Created
    <2> QED BY <1>12, <2>1, <2>2, <2>3
<1>14. Len(w) <= Len(t)
    <2>1. CASE unique
        BY <1>8, <2>1
    <2>2. CASE ~ unique /\ listed
        BY <1>8, <2>2
    <2>3. CASE ~ unique /\ ~ listed
        BY <1>1, <1>3, <1>8, <2>3
    <2> QED BY <2>1, <2>2, <2>3
<1>15. ASSUME NEW i \in 1 .. Len(w) PROVE ToUpper(t[i]) = ToUpper(w[i])
    <2>1. CASE i = 1
        BY <1>3, <1>8, <2>1, CapitalsStay DEF Command
    <2>2. CASE i = 2
        BY <1>3, <1>8, <2>2, CapitalsStay
    <2>3. CASE i \in {3, 4, 5}
        BY <1>3, <1>8, <2>3
    <2>4. CASE i > 5 /\ listed /\ i = 6
        BY <1>8, <2>4
    <2>5. CASE i > 5 /\ ~ (listed /\ i = 6)
        <3>1. unique /\ i = next
            BY SMTT(30), <1>8, <2>5
        <3> QED BY <1>8, <3>1, CapitalsStay
    <2> QED BY <1>8, <2>1, <2>2, <2>3, <2>4, <2>5
<1> QED BY <1>2, <1>8, <1>10, <1>13, <1>14, <1>15 DEF SaysIt, w, q

\* The statements that are read up to their third token.
Third(t, command, what) ==
    Command(t) = Word(command) /\ Len(t) >= 3 /\ ToUpper(t[2]) = Word(what)

LEMMA ThirdTokens ==
    ASSUME NEW S, NEW t \in Texts(S)
    PROVE  /\ Parse(t).type = "drop_index" <=>
                  Third(t, "DROP", "INDEX") /\ t[3].kind = "reference"
           /\ Parse(t).type = "drop_index" =>
                  Parse(t) = [NoQuery EXCEPT !.type       = "drop_index",
                                             !.collection = Word(t[3].parts[1]),
                                             !.indexName  = Word(t[3].parts[2])]
           /\ Parse(t).type = "create_collection" <=> Third(t, "CREATE", "COLLECTION")
           /\ Parse(t).type = "create_collection" =>
                  Parse(t) = [NoQuery EXCEPT !.type = "create_collection", !.collection = t[3]]
           /\ Parse(t).type = "drop_collection" <=> Third(t, "DROP", "COLLECTION")
           /\ Parse(t).type = "drop_collection" =>
                  Parse(t) = [NoQuery EXCEPT !.type = "drop_collection", !.collection = t[3]]
<1> DEFINE parts == Tail(t)
           words == Tail(parts)
<1>1. /\ t \in Seq(S) /\ Len(t) \in Nat /\ parts \in Seq(S) /\ Len(parts) = Len(t) - 1
      /\ \A i \in 1 .. Len(t) - 1 : parts[i] = t[i + 1]
    BY TailOfText DEF Texts
<1> HIDE DEF parts
<1>2. Len(parts) < 2 <=> ~ (Len(t) >= 3)
    BY <1>1
<1>3. ASSUME Len(t) >= 3 PROVE parts[1] = t[2] /\ words[1] = t[3]
    <2>1. parts \in Texts(S) /\ 1 \in 1 .. Len(t) - 1 /\ 2 \in 1 .. Len(t) - 1
          /\ 1 \in 1 .. Len(parts) - 1
        <3>1. parts # <<>>
            BY <1>1, <1>3
        <3> QED BY <1>1, <1>3, <3>1 DEF Texts
    <2>2. words[1] = parts[2]
        BY <2>1, TailOfText
    <2> QED BY <1>1, <2>1, <2>2
<1> HIDE DEF words
<1> DEFINE dropped == [NoQuery EXCEPT !.type       = "drop_index",
                                      !.collection = Word(t[3].parts[1]),
                                      !.indexName  = Word(t[3].parts[2])]
           made    == [NoQuery EXCEPT !.type = "create_collection", !.collection = t[3]]
           undone  == [NoQuery EXCEPT !.type = "drop_collection", !.collection = t[3]]
<1>4. /\ dropped.type = "drop_index" /\ made.type = "create_collection"
      /\ undone.type = "drop_collection" /\ Invalid.type = "invalid"
    BY DEF NoQuery, Invalid
<1>5. ASSUME Len(t) >= 3
      PROVE  /\ parseDropIndex(words) = IF t[3].kind # "reference" THEN Invalid ELSE dropped
             /\ parseCollection("create_collection", words) = made
             /\ parseCollection("drop_collection", words) = undone
    BY <1>3, <1>5 DEF parseDropIndex, parseCollection
<1>6. parseCreateIndex(words).type \in {"invalid", "create_index"}
    BY DEF parseCreateIndex, Invalid, NoQuery
<1> HIDE DEF dropped, made, undone
<1>7. parseDrop(parts) =
          IF ~ (Len(t) >= 3) THEN Invalid
          ELSE IF ToUpper(t[2]) = Word("INDEX")
               THEN (IF t[3].kind # "reference" THEN Invalid ELSE dropped)
               ELSE IF ToUpper(t[2]) = Word("COLLECTION") THEN undone ELSE Invalid
    BY <1>2, <1>3, <1>5, WordsDiffer DEF parseDrop, words
<1>8. parseCreate(parts) =
          IF ~ (Len(t) >= 3) THEN Invalid
          ELSE IF ToUpper(t[2]) = Word("INDEX") THEN parseCreateIndex(words)
               ELSE IF ToUpper(t[2]) = Word("COLLECTION") THEN made ELSE Invalid
    BY <1>2, <1>3, <1>5, WordsDiffer DEF parseCreate, words
<1>9. Word("INDEX") # Word("COLLECTION")
    BY WordsDiffer
<1>10. CASE Command(t) = Word("DROP")
    <2>1. Parse(t) = parseDrop(parts) /\ Word("DROP") # Word("CREATE")
        BY <1>10, CommandIsKind, WordsDiffer DEF parts
    <2> QED BY <1>4, <1>7, <1>9, <1>10, <2>1 DEF Third, dropped, undone
<1>11. CASE Command(t) = Word("CREATE")
    <2>1. Parse(t) = parseCreate(parts) /\ Word("DROP") # Word("CREATE")
        BY <1>11, CommandIsKind, WordsDiffer DEF parts
    <2> QED BY <1>4, <1>6, <1>8, <1>9, <1>11, <2>1 DEF Third, made
<1>12. CASE Command(t) \notin {Word("DROP"), Word("CREATE")}
    <2>1. Parse(t).type \notin {"drop_index", "create_collection", "drop_collection"}
        BY <1>12, KindIsCommand
    <2> QED BY <1>12, <2>1 DEF Third
<1> QED BY <1>10, <1>11, <1>12

LEMMA ThirdIsItsText ==
    ASSUME NEW t \in Texts(TokenSet),
           Parse(t).type \in {"drop_index", "create_collection", "drop_collection"}
    PROVE  SaysIt(t, Written(Parse(t)))
<1> DEFINE q == Parse(t)
           command == IF q.type = "create_collection" THEN "CREATE" ELSE "DROP"
           what    == IF q.type = "drop_index" THEN "INDEX" ELSE "COLLECTION"
           w == <<Word(command), Word(what), t[3]>>
<1>1. /\ Third(t, command, what)
      /\ q.type = "drop_index" => t[3].kind = "reference"
    BY ThirdTokens
<1>2. t \in Seq(TokenSet) /\ Len(t) \in Nat /\ Len(t) >= 3 /\ t[3] \in TokenSet
    <2>1. t \in Seq(TokenSet) /\ Len(t) \in Nat /\ Len(t) >= 3
        BY <1>1, TailOfText DEF Texts, Third
    <2> QED BY <2>1
<1>3. Written(q) = w
    <2>1. CASE q.type = "drop_index"
        <3>1. q = [NoQuery EXCEPT !.type       = "drop_index",
                                  !.collection = Word(t[3].parts[1]),
                                  !.indexName  = Word(t[3].parts[2])]
            BY <2>1, ThirdTokens
        <3>2. q.collection.parts[1] = t[3].parts[1] /\ q.indexName.parts[1] = t[3].parts[2]
            BY <3>1 DEF NoQuery, Word, Token
        <3>3. t[3] = Reference(t[3].parts[1], t[3].parts[2])
            BY <1>1, <1>2, <2>1, TokenKinds
        <3> HIDE DEF q
        <3> QED BY <2>1, <3>2, <3>3 DEF Written
    <2>2. CASE q.type # "drop_index"
        <3>1. q.collection = t[3]
            <4>1. \A type : [NoQuery EXCEPT !.type = type, !.collection = t[3]].collection = t[3]
                BY DEF NoQuery
            <4>2. CASE q.type = "create_collection"
                <5>1. q = [NoQuery EXCEPT !.type = "create_collection", !.collection = t[3]]
                    BY <4>2, ThirdTokens
                <5> QED BY <4>1, <5>1
            <4>3. CASE q.type = "drop_collection"
                <5>1. q = [NoQuery EXCEPT !.type = "drop_collection", !.collection = t[3]]
                    BY <4>3, ThirdTokens
                <5> QED BY <4>1, <5>1
            <4> QED BY <2>2, <4>2, <4>3
        <3> HIDE DEF q
        <3> QED BY <2>2, <3>1 DEF Written, q
    <2> QED BY <2>1, <2>2
<1>4. w \in Texts(Said) /\ Len(w) = 3 /\ DOMAIN w = 1 .. 3
    BY <1>2 DEF Said, Texts
<1>5. ToUpper(Word(command)) = Word(command) /\ ToUpper(Word(what)) = Word(what)
    BY CapitalsStay
<1>6. Third(w, command, what) /\ w[3] = t[3]
    BY <1>5 DEF Third, Command
<1>7. Parse(w) = q
    <2> HIDE DEF w
    <2>1. Parse(w).type = q.type
        BY <1>1, <1>4, <1>6, ThirdTokens
    <2>2. w[3] = t[3] /\ t \in Texts(TokenSet)
        BY <1>6
    <2> HIDE DEF q
    <2>3. CASE q.type = "drop_index"
        <3> DEFINE Dropped(r) == [NoQuery EXCEPT !.type       = "drop_index",
                                                 !.collection = Word(r.parts[1]),
                                                 !.indexName  = Word(r.parts[2])]
        <3>1. Parse(w) = Dropped(w[3])
            BY <1>4, <2>1, <2>3, ThirdTokens
        <3>2. q = Dropped(t[3])
            BY <2>3, ThirdTokens DEF q
        <3> QED BY <2>2, <3>1, <3>2
    <2>4. CASE q.type \in {"create_collection", "drop_collection"}
        <3> DEFINE Of(type, c) == [NoQuery EXCEPT !.type = type, !.collection = c]
        <3>1. Parse(w) = Of(q.type, w[3])
            BY <1>4, <2>1, <2>4, ThirdTokens
        <3>2. q = Of(q.type, t[3])
            BY <2>4, ThirdTokens DEF q
        <3> QED BY <2>2, <3>1, <3>2
    <2> QED BY <2>3, <2>4 DEF q
<1>8. \A i \in 1 .. 3 : ToUpper(t[i]) = ToUpper(w[i])
    <2>1. Word(command) = ToUpper(t[1]) /\ Word(what) = ToUpper(t[2])
        BY <1>1 DEF Third, Command
    <2> QED BY <1>5, <2>1
<1> QED BY <1>2, <1>3, <1>4, <1>7, <1>8 DEF SaysIt

LEMMA WhereIsRead ==
    ASSUME NEW S, NEW t \in Texts(S), Command(t) = Word("GET"), Len(t) >= 3, t[3] = Word("WHERE")
    PROVE  Parse(t) = [whereClause(SubSeq(t, 4, Len(t))) EXCEPT !.type = "get",
                                                                !.entryType = ToUpper(t[2])]
<1> DEFINE parts == Tail(t)
           clause == SubSeq(parts, 3, Len(parts))
           read == IF parts[2] = Word("WHERE") THEN whereClause(clause) ELSE NoQuery
<1>1. Parse(t) = parseGet(parts)
    BY CommandIsKind
<1>2. parts \in Seq(S) /\ ~ (Len(parts) < 2)
    BY TailOfText
<1> HIDE DEF parts
<1>3. Parse(t) = [read EXCEPT !.type = "get", !.entryType = ToUpper(parts[1])]
    BY <1>1, <1>2 DEF parseGet
<1>4. read = [NoQuery EXCEPT !.filters = read.filters,
                             !.similarTo = read.similarTo, !.limit = read.limit]
    <2>1. clause \in Seq(S)
        BY <1>2
    <2>2. CASE parts[2] = Word("WHERE")
        BY <2>1, <2>2, ClauseType
    <2>3. NoQuery = [NoQuery EXCEPT !.filters = NoQuery.filters,
                             !.similarTo = NoQuery.similarTo, !.limit = NoQuery.limit]
        BY DEF NoQuery
    <2> QED BY <2>2, <2>3, Zenon
<1> HIDE DEF read
<1>5. Parse(t).type = "get"
    BY <1>3, <1>4 DEF NoQuery
<1> QED BY <1>5, GetIsClause

\* What has the same beginning, and no more than that, is read alike.
LEMMA ReadAlike ==
    ASSUME NEW S, NEW T, NEW c \in Seq(S), NEW d \in Seq(T), NEW q, NEW r,
           ReadsFrom(S, q, c, 1), ReadsFrom(T, r, d, 1),
           3 * Len(q.filters) <= Len(d), EndsFilters(d, 1 + 3 * Len(q.filters)),
           \A i \in 1 .. 3 * Len(q.filters) : d[i] = c[i]
    PROVE  /\ r.filters = q.filters
           /\ r.similarTo = SimilarAt(d, 1 + 3 * Len(q.filters))
           /\ r.limit = LimitAt(d, 1 + 3 * Len(q.filters))
<1> DEFINE n == Len(q.filters)
           m == Len(r.filters)
<1>1. /\ n \in Nat /\ m \in Nat /\ Len(c) \in Nat /\ Len(d) \in Nat
      /\ q.filters \in Seq(Filters(S)) /\ r.filters \in Seq(Filters(T))
    BY DEF ReadsFrom
<1>2. /\ \A k \in 1 .. n : /\ ~ EndsFilters(c, 1 + 3 * (k - 1))
                           /\ q.filters[k] = Triple(c, 1 + 3 * (k - 1))
      /\ \A k \in 1 .. m : /\ ~ EndsFilters(d, 1 + 3 * (k - 1))
                           /\ r.filters[k] = Triple(d, 1 + 3 * (k - 1))
      /\ EndsFilters(d, 1 + 3 * m)
      /\ r.similarTo = SimilarAt(d, 1 + 3 * m) /\ r.limit = LimitAt(d, 1 + 3 * m)
    BY DEF ReadsFrom
<1>3. 3 * n <= Len(d) /\ EndsFilters(d, 1 + 3 * n) /\ \A i \in 1 .. 3 * n : d[i] = c[i]
    OBVIOUS
<1> HIDE DEF n, m
<1>4. ASSUME NEW k \in 1 .. n
      PROVE  /\ d[1 + 3 * (k - 1)] = c[1 + 3 * (k - 1)]
             /\ d[1 + 3 * (k - 1) + 1] = c[1 + 3 * (k - 1) + 1]
             /\ d[1 + 3 * (k - 1) + 2] = c[1 + 3 * (k - 1) + 2]
             /\ ~ (1 + 3 * (k - 1) + 2 > Len(d))
    <2>1. {1 + 3 * (k - 1), 1 + 3 * (k - 1) + 1, 1 + 3 * (k - 1) + 2} \subseteq 1 .. 3 * n
        BY <1>1
    <2>2. ~ (1 + 3 * (k - 1) + 2 > Len(d))
        BY <1>1, <1>3
    <2> QED BY <1>3, <2>1, <2>2
<1>5. n <= m
    <2> SUFFICES ASSUME ~ (n <= m) PROVE FALSE
        OBVIOUS
    <2>1. m + 1 \in 1 .. n /\ (m + 1) - 1 = m
        BY <1>1
    <2>2. ~ EndsFilters(c, 1 + 3 * m)
        BY <1>2, <2>1
    <2>3. /\ d[1 + 3 * m] = c[1 + 3 * m] /\ d[1 + 3 * m + 1] = c[1 + 3 * m + 1]
          /\ ~ (1 + 3 * m + 2 > Len(d))
        BY <1>4, <2>1
    <2> QED BY <1>2, <2>2, <2>3 DEF EndsFilters
<1>6. m <= n
    <2> SUFFICES ASSUME ~ (m <= n) PROVE FALSE
        OBVIOUS
    <2>1. n + 1 \in 1 .. m /\ (n + 1) - 1 = n
        BY <1>1
    <2> QED BY <1>2, <1>3, <2>1
<1>7. m = n
    BY <1>1, <1>5, <1>6
<1>8. \A k \in 1 .. n : r.filters[k] = q.filters[k]
    <2> SUFFICES ASSUME NEW k \in 1 .. n PROVE r.filters[k] = q.filters[k]
        OBVIOUS
    <2>1. q.filters[k] = Triple(c, 1 + 3 * (k - 1)) /\ r.filters[k] = Triple(d, 1 + 3 * (k - 1))
        BY <1>2, <1>7
    <2> QED BY <1>4, <2>1 DEF Triple
<1>9. r.filters = q.filters
    <2> DEFINE f == q.filters
               g == r.filters
    <2>1. f \in Seq(Filters(S)) /\ g \in Seq(Filters(T)) /\ Len(f) = n /\ Len(g) = n
        BY <1>1, <1>7 DEF n, m
    <2>2. \A k \in 1 .. n : g[k] = f[k]
        BY <1>8
    <2> HIDE DEF f, g
    <2>3. f = [k \in 1 .. n |-> f[k]] /\ g = [k \in 1 .. n |-> g[k]]
        BY <2>1
    <2>4. [k \in 1 .. n |-> f[k]] = [k \in 1 .. n |-> g[k]]
        BY <2>2
    <2>5. g = f
        BY <2>3, <2>4
    <2> QED BY <2>5 DEF f, g
<1> QED BY <1>2, <1>7, <1>9 DEF n

LEMMA Thirds ==
    ASSUME NEW n \in Nat, NEW i \in 1 .. 3 * n
    PROVE  LET k == (i + 2) \div 3
           IN  /\ k \in 1 .. n
               /\ \/ i % 3 = 1 /\ i = 1 + 3 * (k - 1)
                  \/ i % 3 = 2 /\ i = 1 + 3 * (k - 1) + 1
                  \/ i % 3 = 0 /\ i = 1 + 3 * (k - 1) + 2
OBVIOUS

\* The filters written back are the tokens they were read from.
LEMMA FiltersAreTokens ==
    ASSUME NEW S, NEW q, NEW c \in Seq(S), ReadsFrom(S, q, c, 1)
    PROVE  LET n == 3 * Len(q.filters)
               f == FilterTokens(q.filters)
           IN  /\ n \in Nat /\ n <= Len(c)
               /\ f \in Seq(S) /\ Len(f) = n
               /\ \A i \in 1 .. n : f[i] = c[i]
<1> DEFINE n == Len(q.filters)
           f == FilterTokens(q.filters)
<1>1. n \in Nat /\ Len(c) \in Nat /\ 1 + 3 * n <= Len(c) + 1
    BY DEF ReadsFrom
<1>2. \A k \in 1 .. n : q.filters[k] = Triple(c, 1 + 3 * (k - 1))
    BY DEF ReadsFrom
<1>3. f = [i \in 1 .. 3 * n |->
             LET filter == q.filters[(i + 2) \div 3]
             IN  CASE i % 3 = 1 -> filter.key
                   [] i % 3 = 2 -> filter.operator
                   [] i % 3 = 0 -> filter.value]
    BY DEF FilterTokens
<1> HIDE DEF n, f
<1>4. ASSUME NEW i \in 1 .. 3 * n PROVE f[i] = c[i]
    <2> DEFINE k == (i + 2) \div 3
               filter == q.filters[k]
    <2>1. /\ k \in 1 .. n
          /\ \/ i % 3 = 1 /\ i = 1 + 3 * (k - 1)
             \/ i % 3 = 2 /\ i = 1 + 3 * (k - 1) + 1
             \/ i % 3 = 0 /\ i = 1 + 3 * (k - 1) + 2
        BY <1>1, Thirds
    <2>2. f[i] = CASE i % 3 = 1 -> filter.key
                   [] i % 3 = 2 -> filter.operator
                   [] i % 3 = 0 -> filter.value
        BY <1>3
    <2> HIDE DEF k
    <2>3. filter = Triple(c, 1 + 3 * (k - 1))
        BY <1>2, <2>1
    <2> HIDE DEF filter
    <2>4. /\ filter.key = c[1 + 3 * (k - 1)] /\ filter.operator = c[1 + 3 * (k - 1) + 1]
          /\ filter.value = c[1 + 3 * (k - 1) + 2]
        BY <2>3 DEF Triple
    <2>5. CASE i % 3 = 1
        <3>1. f[i] = filter.key /\ i = 1 + 3 * (k - 1)
            BY <2>1, <2>2, <2>5
        <3> QED BY <2>4, <3>1
    <2>6. CASE i % 3 = 2
        <3>1. f[i] = filter.operator /\ i = 1 + 3 * (k - 1) + 1
            BY <2>1, <2>2, <2>6
        <3> QED BY <2>4, <3>1
    <2>7. CASE i % 3 = 0
        <3>1. f[i] = filter.value /\ i = 1 + 3 * (k - 1) + 2
            BY <2>1, <2>2, <2>7
        <3> QED BY <2>4, <3>1
    <2> QED BY <2>1, <2>5, <2>6, <2>7
<1>5. \A i \in 1 .. 3 * n : c[i] \in S
    <2>1. \A i \in 1 .. 3 * n : i \in 1 .. Len(c)
        BY <1>1
    <2> QED BY <2>1
<1>6. DOMAIN f = 1 .. 3 * n /\ 3 * n \in Nat /\ 3 * n <= Len(c)
    BY <1>1, <1>3
<1>7. f \in Seq(S) /\ Len(f) = 3 * n
    <2>1. f = [i \in 1 .. 3 * n |-> f[i]]
        BY <1>3
    <2>2. \A i \in 1 .. 3 * n : f[i] \in S
        BY <1>4, <1>5
    <2> DEFINE m == 3 * n
    <2>3. m \in Nat /\ f = [i \in 1 .. m |-> f[i]] /\ \A i \in 1 .. m : f[i] \in S
        BY <1>6, <2>1, <2>2
    <2> HIDE DEF m
    <2>4. f \in Seq(S) /\ Len(f) = m
        BY <2>3
    <2> QED BY <2>4 DEF m
<1> QED BY <1>4, <1>6, <1>7 DEF n, f

LEMMA GetIsItsText ==
    ASSUME NEW t \in Texts(TokenSet), Parse(t).type = "get", t[3] = Word("WHERE")
    PROVE  SaysIt(t, Written(Parse(t)))
<1> DEFINE q    == Parse(t)
           w    == Written(q)
           c    == SubSeq(t, 4, Len(t))
           read == whereClause(c)
           n    == 3 * Len(read.filters)
           head == <<Word("GET"), ToUpper(t[2]), Word("WHERE")>>
           list == FilterTokens(read.filters)
           sim  == If(read.similarTo # <<>>, <<Word("SIMILAR"), Word("TO")>> \o read.similarTo)
           lim  == If(read.limit # 0, <<Word("LIMIT"), Number(read.limit)>>)
<1>1. /\ Len(t) >= 3 /\ Command(t) = Word("GET") /\ t \in Seq(TokenSet) /\ Len(t) \in Nat
      /\ c \in Seq(TokenSet) /\ Len(c) = Len(t) - 3
      /\ \A i \in 1 .. Len(t) - 3 : c[i] = t[i + 3]
      /\ q = [read EXCEPT !.type = "get", !.entryType = ToUpper(t[2])]
      /\ q.filters = read.filters /\ q.similarTo = read.similarTo /\ q.limit = read.limit
    BY GetIsClause, TailOfText DEF Texts
<1> HIDE DEF c, read
<1>2. ReadsFrom(TokenSet, read, c, 1)
    BY <1>1, ClauseProperties DEF read
<1>3. q.type = "get" /\ q.entryType = ToUpper(t[2])
    <2>1. read = [NoQuery EXCEPT !.filters = read.filters, !.similarTo = read.similarTo,
                                 !.limit = read.limit]
        BY <1>2 DEF ReadsFrom
    <2> QED BY <1>1, <2>1 DEF NoQuery
<1> HIDE DEF q
<1>4. w = head \o list \o sim \o lim
    BY <1>1, <1>3 DEF Written
<1>5. /\ n \in Nat /\ n <= Len(c) /\ list \in Seq(TokenSet) /\ Len(list) = n
      /\ \A i \in 1 .. n : list[i] = c[i]
    BY <1>1, <1>2, FiltersAreTokens
<1>6. /\ EndsFilters(c, 1 + n) /\ read.similarTo = SimilarAt(c, 1 + n)
      /\ read.limit = LimitAt(c, 1 + n)
    BY <1>2 DEF ReadsFrom
<1> HIDE DEF w, n, list
<1>7. t[2] \in TokenSet /\ head \in Seq(Said) /\ Len(head) = 3 /\ head[1] = Word("GET")
      /\ head[2] = ToUpper(t[2]) /\ head[3] = Word("WHERE")
    <2>1. t[2] \in TokenSet
        BY <1>1
    <2> QED BY <2>1 DEF Said
<1>8. list \in Seq(Said)
    BY <1>5, TokensAreSaid
<1> HIDE DEF head
\* What comes after the filters is what there was.
<1> DEFINE rest == sim \o lim
<1>9. /\ sim \in Seq(Said) /\ lim \in Seq(Said)
      /\ rest \in Seq(Said) /\ Len(rest) \in {0, 2, 3} /\ n + Len(rest) <= Len(c)
      /\ \A i \in 1 .. Len(rest) : rest[i] = c[n + i]
      /\ Len(rest) = 0 => read.similarTo = <<>> /\ read.limit = 0
      /\ Len(rest) = 2 => /\ read.similarTo = <<>> /\ read.limit = rest[2].number
                          /\ rest[1] = Word("LIMIT")
      /\ Len(rest) = 3 => /\ read.similarTo = <<rest[3]>> /\ read.limit = 0
                          /\ rest[3].kind \in {"vector", "number"}
                          /\ rest[1] = Word("SIMILAR") /\ rest[2] = Word("TO")
    <2>1. /\ (1 + n) + 1 = n + 2 /\ (1 + n) + 2 = n + 3 /\ 1 + n = n + 1 /\ Len(c) \in Nat
          /\ {n + 1, n + 2, n + 3} \subseteq Nat
        BY <1>1, <1>5
    <2>2. CASE read.similarTo # <<>>
        <3>1. /\ c[n + 1] = Word("SIMILAR") /\ c[n + 2] = Word("TO") /\ n + 3 <= Len(c)
              /\ c[n + 3].kind \in {"vector", "number"} /\ read.similarTo = <<c[n + 3]>>
              /\ Has(c, n + 1, Word("SIMILAR")) /\ Has(c, n + 2, Word("TO"))
            BY <1>6, <2>1, <2>2 DEF SimilarAt, Has
        <3>2. read.limit = 0
            BY <1>6, <2>1, <3>1 DEF LimitAt
        <3> DEFINE one == <<Word("SIMILAR"), Word("TO")>>
                   two == <<c[n + 3]>>
        <3>3. sim = one \o two /\ lim = <<>>
            BY <2>2, <3>1, <3>2 DEF If
        <3>4. c[n + 3] \in TokenSet
            BY <1>1, <1>5, <3>1
        <3>5. {Word("SIMILAR"), Word("TO"), c[n + 3]} \subseteq Said
            BY <3>4 DEF Said
        <3>6. /\ one \in Seq(Said) /\ Len(one) = 2 /\ one[1] = Word("SIMILAR") /\ one[2] = Word("TO")
              /\ two \in Seq(Said) /\ Len(two) = 1 /\ two[1] = c[n + 3]
            BY <3>5
        <3> HIDE DEF one, two, sim, lim
        <3>7. sim \in Seq(Said) /\ Len(sim) = 2 + 1
              /\ \A i \in 1 .. 2 + 1 : sim[i] = IF i <= 2 THEN one[i] ELSE two[i - 2]
            <4>1. /\ one \o two \in Seq(Said) /\ Len(one \o two) = Len(one) + Len(two)
                  /\ \A i \in 1 .. Len(one) + Len(two) :
                        (one \o two)[i] = IF i <= Len(one) THEN one[i] ELSE two[i - Len(one)]
                BY <3>6, ConcatProperties
            <4>2. Len(one) = 2 /\ Len(two) = 1
                BY <3>6
            <4> QED BY <3>3, <4>1, <4>2
        <3>8. Len(sim) = 3 /\ sim[1] = one[1] /\ sim[2] = one[2] /\ sim[3] = two[1]
            BY <3>7
        <3>9. rest = sim /\ lim \in Seq(Said)
            BY <3>3, <3>7, ConcatEmptySeq
        <3> HIDE DEF rest
        <3>10. /\ Len(rest) = 3 /\ rest[1] = c[n + 1] /\ rest[2] = c[n + 2] /\ rest[3] = c[n + 3]
               /\ rest \in Seq(Said)
            BY <3>1, <3>6, <3>7, <3>8, <3>9
        <3>11. \A i \in 1 .. Len(rest) : rest[i] = c[n + i]
            <4>1. \A i \in 1 .. Len(rest) : i \in {1, 2, 3}
                BY <3>10
            <4> QED BY <3>10, <4>1
        <3>12. n + 3 <= Len(c) /\ read.similarTo = <<rest[3]>> /\ rest[3].kind \in {"vector", "number"}
            BY <3>1, <3>10
        <3>13. /\ rest[1] = Word("SIMILAR") /\ rest[2] = Word("TO")
               /\ Len(rest) # 0 /\ Len(rest) # 2
            BY <3>1, <3>10
        <3>14. n + Len(rest) <= Len(c) /\ Len(rest) \in {0, 2, 3}
            BY <3>10, <3>12
        <3> QED BY <3>2, <3>7, <3>9, <3>10, <3>11, <3>12, <3>13, <3>14, Zenon
    <2>3. CASE read.similarTo = <<>> /\ read.limit # 0
        <3>1. c[n + 1] = Word("LIMIT") /\ n + 2 <= Len(c) /\ read.limit = c[n + 2].number
            BY <1>6, <2>1, <2>3 DEF LimitAt, Has
        <3>2. c[n + 2] \in TokenSet
            BY <1>1, <1>5, <3>1
        <3>3. c[n + 2] = Number(read.limit)
            BY <2>3, <3>1, <3>2, TokenKinds
        <3>4. sim = <<>> /\ lim = <<Word("LIMIT"), c[n + 2]>>
            BY <2>3, <3>3 DEF If
        <3>5. {Word("LIMIT"), c[n + 2]} \subseteq Said
            BY <3>2 DEF Said
        <3>6. lim \in Seq(Said) /\ Len(lim) = 2 /\ lim[1] = Word("LIMIT") /\ lim[2] = c[n + 2]
            <4> HIDE DEF lim
            <4> QED BY <3>4, <3>5
        <3> HIDE DEF sim, lim
        <3>7. rest = lim /\ sim \in Seq(Said)
            BY <3>4, <3>6, ConcatEmptySeq
        <3> HIDE DEF rest
        <3>8. /\ Len(rest) = 2 /\ rest[1] = c[n + 1] /\ rest[2] = c[n + 2]
              /\ rest \in Seq(Said)
            BY <3>1, <3>6, <3>7
        <3>9. \A i \in 1 .. Len(rest) : rest[i] = c[n + i]
            <4>1. \A i \in 1 .. Len(rest) : i \in {1, 2}
                BY <3>8
            <4> QED BY <3>8, <4>1
        <3>10. read.limit = rest[2].number /\ rest[1] = Word("LIMIT") /\ Len(rest) # 0 /\ Len(rest) # 3
            BY <3>1, <3>8
        <3>11. n + Len(rest) <= Len(c) /\ Len(rest) \in {0, 2, 3}
            BY <3>1, <3>8
        <3> QED BY <2>3, <3>6, <3>7, <3>8, <3>9, <3>10, <3>11, Zenon
    <2>4. CASE read.similarTo = <<>> /\ read.limit = 0
        <3>1. sim = <<>> /\ lim = <<>>
            BY <2>4 DEF If
        <3>2. rest = <<>>
            <4> HIDE DEF sim, lim
            <4> QED BY <3>1
        <3> HIDE DEF rest, sim, lim
        <3>3. sim \in Seq(Said) /\ lim \in Seq(Said)
            BY <3>1
        <3>4. Len(rest) = 0 /\ rest \in Seq(Said) /\ n + Len(rest) <= Len(c)
            BY <1>1, <1>5, <3>2
        <3> QED BY <2>4, <3>3, <3>4
    <2> QED BY <2>2, <2>3, <2>4
<1> HIDE DEF sim, lim, rest
<1> DEFINE front == head \o list
           m     == Len(rest)
<1>10. /\ front \in Seq(Said) /\ Len(front) = 3 + n
       /\ \A i \in 1 .. 3 + n : front[i] = IF i <= 3 THEN head[i] ELSE list[i - 3]
    <2>1. /\ front \in Seq(Said) /\ Len(front) = Len(head) + Len(list)
          /\ \A i \in 1 .. Len(head) + Len(list) :
                 front[i] = IF i <= Len(head) THEN head[i] ELSE list[i - Len(head)]
        BY <1>7, <1>8, ConcatProperties
    <2>2. Len(head) = 3 /\ Len(list) = n
        BY <1>5, <1>7
    <2> HIDE DEF front
    <2> QED BY <2>1, <2>2
<1> HIDE DEF front
<1>11. w = front \o rest
    <2>1. front \in Seq(Said) /\ sim \in Seq(Said) /\ lim \in Seq(Said)
        BY <1>9, <1>10
    <2>2. (front \o sim) \o lim = front \o (sim \o lim)
        BY <2>1, ConcatAssociative
    <2> QED BY <1>4, <2>2, Zenon DEF front, rest
<1>12. /\ w \in Seq(Said) /\ Len(w) = 3 + n + m
       /\ \A i \in 1 .. 3 + n + m : w[i] = IF i <= 3 + n THEN front[i] ELSE rest[i - (3 + n)]
    <2> DEFINE u == front \o rest
    <2>1. front \in Seq(Said) /\ rest \in Seq(Said)
        BY <1>9, <1>10
    <2>2. /\ u \in Seq(Said) /\ Len(u) = Len(front) + Len(rest)
          /\ \A i \in 1 .. Len(front) + Len(rest) :
                 u[i] = IF i <= Len(front) THEN front[i] ELSE rest[i - Len(front)]
        BY <2>1, ConcatProperties
    <2>3. w = u /\ Len(front) = 3 + n
        BY <1>10, <1>11
    <2> HIDE DEF u
    <2> QED BY <2>2, <2>3
<1>13. m \in Nat /\ n + m <= Len(c)
    BY <1>9
<1> HIDE DEF m
<1>14. w[1] = Word("GET") /\ w[2] = ToUpper(t[2]) /\ w[3] = Word("WHERE")
    <2>1. \A i \in 1 .. 3 : w[i] = head[i]
        <3>1. \A i \in 1 .. 3 : i \in 1 .. 3 + n + m /\ i <= 3 + n /\ i \in 1 .. 3 + n
            BY <1>5, <1>13
        <3> QED BY <1>10, <1>12, <3>1
    <2> QED BY <1>7, <2>1
<1>15. ASSUME NEW i \in 1 .. n + m PROVE w[i + 3] = c[i]
    <2>1. CASE i <= n
        <3>1. /\ i + 3 \in 1 .. 3 + n + m /\ i + 3 <= 3 + n /\ i + 3 \in 1 .. 3 + n
              /\ ~ (i + 3 <= 3) /\ (i + 3) - 3 = i /\ i \in 1 .. n
            BY <1>5, <1>13, <2>1
        <3>2. w[i + 3] = front[i + 3] /\ front[i + 3] = list[(i + 3) - 3]
            BY <1>10, <1>12, <3>1
        <3> QED BY <1>5, <3>1, <3>2
    <2>2. CASE ~ (i <= n)
        <3>1. /\ i + 3 \in 1 .. 3 + n + m /\ ~ (i + 3 <= 3 + n) /\ (i + 3) - (3 + n) = i - n
              /\ i - n \in 1 .. m /\ n + (i - n) = i
            BY <1>5, <1>13, <2>2
        <3>2. w[i + 3] = rest[i - n]
            BY <1>12, <3>1
        <3> QED BY <1>9, <3>1, <3>2 DEF m
    <2> QED BY <2>1, <2>2
<1>16. w \in Texts(Said) /\ Len(w) >= 3 /\ Len(w) \in Nat
    <2>1. Len(w) >= 3 /\ Len(w) \in Nat
        BY <1>5, <1>12, <1>13
    <2>2. w # <<>>
        BY <2>1
    <2> QED BY <1>12, <2>1, <2>2 DEF Texts
<1>17. Command(w) = Word("GET")
    BY <1>14, CapitalsStay DEF Command
<1> DEFINE d   == SubSeq(w, 4, Len(w))
           red == whereClause(d)
<1>18. Parse(w) = [red EXCEPT !.type = "get", !.entryType = ToUpper(w[2])]
    BY <1>14, <1>16, <1>17, WhereIsRead
<1>19. /\ d \in Seq(Said) /\ Len(d) = n + m
       /\ \A i \in 1 .. n + m : d[i] = c[i]
    <2>1. d \in Seq(Said) /\ Len(d) = Len(w) - 3 /\ \A i \in 1 .. Len(w) - 3 : d[i] = w[i + 3]
        BY <1>12, <1>16
    <2>2. Len(w) - 3 = n + m
        BY <1>5, <1>12, <1>13
    <2> HIDE DEF d
    <2> QED BY <1>15, <2>1, <2>2
<1> HIDE DEF d
<1>20. ReadsFrom(Said, red, d, 1)
    BY <1>19, ClauseProperties
<1> HIDE DEF red
<1>21. /\ EndsFilters(d, 1 + n) /\ SimilarAt(d, 1 + n) = read.similarTo
       /\ LimitAt(d, 1 + n) = read.limit
    <2>1. /\ (1 + n) + 1 = n + 2 /\ (1 + n) + 2 = n + 3 /\ 1 + n = n + 1
          /\ Len(d) = n + m /\ n \in Nat
        BY <1>5, <1>19
    <2>2. \A i \in 1 .. m : n + i \in 1 .. n + m /\ d[n + i] = rest[i]
        <3>1. \A i \in 1 .. m : n + i \in 1 .. n + m
            BY <1>5, <1>13
        <3> QED BY <1>9, <1>19, <3>1 DEF m
    <2>3. CASE m = 0
        <3>1. /\ ~ (n + 1 <= Len(d)) /\ n + 3 > Len(d) /\ read.similarTo = <<>> /\ read.limit = 0
            BY <1>9, <2>1, <2>3 DEF m
        <3> QED BY <2>1, <3>1 DEF EndsFilters, SimilarAt, LimitAt, Has
    <2>4. CASE m = 2
        <3>1. /\ d[n + 1] = Word("LIMIT") /\ d[n + 2].number = read.limit
              /\ n + 1 <= Len(d) /\ n + 2 <= Len(d)
            BY <1>9, <2>1, <2>2, <2>4 DEF m
        <3>2. d[n + 1] # Word("SIMILAR") /\ read.similarTo = <<>>
            BY <1>9, <2>4, <3>1, WordsDiffer DEF m
        <3> QED BY <2>1, <3>1, <3>2 DEF EndsFilters, SimilarAt, LimitAt, Has
    <2>5. CASE m = 3
        <3>1. /\ d[n + 1] = Word("SIMILAR") /\ d[n + 2] = Word("TO") /\ read.similarTo = <<d[n + 3]>>
              /\ n + 1 <= Len(d) /\ n + 2 <= Len(d) /\ n + 3 <= Len(d)
              /\ d[n + 3].kind \in {"vector", "number"} /\ read.limit = 0
            BY <1>9, <2>1, <2>2, <2>5 DEF m
        <3> QED BY <2>1, <3>1 DEF EndsFilters, SimilarAt, LimitAt, Has
    <2> QED BY <1>9, <2>3, <2>4, <2>5 DEF m
<1>22. red.filters = read.filters /\ red.similarTo = read.similarTo /\ red.limit = read.limit
    <2>1. n <= Len(d) /\ \A i \in 1 .. n : d[i] = c[i]
        <3>1. \A i \in 1 .. n : i \in 1 .. n + m
            BY <1>5, <1>13
        <3> QED BY <1>5, <1>13, <1>19, <3>1
    <2> QED BY <1>1, <1>2, <1>19, <1>20, <1>21, <2>1, ReadAlike DEF n
<1>23. red = read
    <2>1. /\ read = [NoQuery EXCEPT !.filters = read.filters, !.similarTo = read.similarTo,
                                    !.limit = read.limit]
          /\ red = [NoQuery EXCEPT !.filters = red.filters, !.similarTo = red.similarTo,
                                   !.limit = red.limit]
        BY <1>2, <1>20 DEF ReadsFrom
    <2> QED BY <1>22, <2>1, Zenon
<1>24. Parse(w) = q
    <2>1. ToUpper(w[2]) = ToUpper(t[2])
        BY <1>7, <1>14, CapitalsStay
    <2> QED BY <1>1, <1>18, <1>23, <2>1
<1>25. ASSUME NEW i \in 1 .. Len(w) PROVE ToUpper(t[i]) = ToUpper(w[i])
    <2>1. CASE i = 1
        BY <1>1, <1>17, <2>1 DEF Command
    <2>2. CASE i = 2
        BY <1>7, <1>14, <2>2, CapitalsStay
    <2>3. CASE i = 3
        BY <1>14, <2>3
    <2>4. CASE i \notin {1, 2, 3}
        <3>1. i - 3 \in 1 .. n + m /\ (i - 3) + 3 = i /\ i - 3 \in 1 .. Len(t) - 3
            BY SMTT(30), <1>1, <1>5, <1>12, <1>13, <2>4
        <3> QED BY <1>1, <1>15, <3>1
    <2> QED BY <2>1, <2>2, <2>3, <2>4
<1>26. Len(w) <= Len(t) /\ DOMAIN w = 1 .. Len(w)
    BY <1>1, <1>5, <1>12, <1>13
<1> QED BY <1>24, <1>25, <1>26 DEF SaysIt, w, q

(***************************************************************************)
(* Of every text that the parser of KNIRVQL accepts, the query says what   *)
(* the text says, and no more: Parse loses, moves or confuses no token     *)
(* that it does not ignore.                                                *)
(***************************************************************************)
THEOREM QueriesAreTheirTexts == TextSpec => []QueryIsTheText
<1>1. TextTyped => QueryIsTheText
    <2> SUFFICES ASSUME TextTyped, Parse(text).type \notin {"invalid", "panics"},
                        ~ SaysMore(Parse(text))
                 PROVE  SaysIt(text, Written(Parse(text)))
        BY DEF QueryIsTheText, SaysIt
    <2>1. text \in Texts(TokenSet)
        BY DEF TextTyped
    <2>2. Parse(text).type = "get" => text[3] = Word("WHERE")
        BY DEF SaysMore
    <2>3. Parse(text).type = "create_index" => ~ (Len(text) >= 6 /\ text[6] = List(<<>>))
        BY DEF SaysMore
    <2>4. Parse(text).type \in {"get", "set", "delete", "create_index", "create_collection",
                                "drop_index", "drop_collection"}
        BY <2>1, KindIsCommand
    <2> QED BY <2>1, <2>2, <2>3, <2>4, GetIsItsText, SetIsItsText, DeleteIsItsText,
               CreateIndexIsItsText, ThirdIsItsText
<1> QED BY <1>1, TextsAreTyped, PTL

-----------------------------------------------------------------------------
(***************************************************************************)
(* A slice that others write to, beside what it was when it was given out: *)
(* of a document and of all that stood before it nothing has moved, and    *)
(* the document has not come anywhere else.                                *)
(***************************************************************************)
Agrees(s, a, id) ==
    /\ \A j \in DOMAIN a : a[j] = id => \A i \in 1 .. j : i \in DOMAIN s /\ s[i] = a[i]
    /\ \A i \in DOMAIN s : s[i] = id => i \in DOMAIN a /\ a[i] = id

LEMMA AgreesWithItself ==
    ASSUME NEW S, NEW a \in Seq(S), NEW id
    PROVE  Agrees(a, a, id)
<1>1. DOMAIN a = 1 .. Len(a) /\ Len(a) \in Nat
    OBVIOUS
<1>2. \A j \in 1 .. Len(a) : \A i \in 1 .. j : i \in 1 .. Len(a)
    BY <1>1
<1> QED BY <1>1, <1>2 DEF Agrees

\* A slice of which some elements are overwritten.
LEMMA AgreesMixed ==
    ASSUME NEW s, NEW r, NEW t, NEW a, NEW id, Agrees(s, a, id), Agrees(r, a, id),
           DOMAIN t = DOMAIN s,
           \A i \in DOMAIN t : t[i] = s[i] \/ (i \in DOMAIN r /\ t[i] = r[i])
    PROVE  Agrees(t, a, id)
BY DEF Agrees

LEMMA AgreesInPlace ==
    ASSUME NEW s, NEW r, NEW a, NEW id, Agrees(s, a, id), Agrees(r, a, id)
    PROVE  Agrees(InPlace(s, r), a, id)
<1> DEFINE t == InPlace(s, r)
<1>1. /\ DOMAIN t = DOMAIN s
      /\ \A i \in DOMAIN t : t[i] = s[i] \/ (i \in DOMAIN r /\ t[i] = r[i])
    BY DEF InPlace
<1> HIDE DEF t
<1>2. Agrees(t, a, id)
    BY <1>1, AgreesMixed
<1> QED BY <1>2 DEF t

\* A slice to which other documents are appended.
LEMMA AgreesLonger ==
    ASSUME NEW s, NEW t, NEW a, NEW id, Agrees(s, a, id), DOMAIN s \subseteq DOMAIN t,
           \A i \in DOMAIN t : IF i \in DOMAIN s THEN t[i] = s[i] ELSE t[i] # id
    PROVE  Agrees(t, a, id)
BY DEF Agrees

\* A slice from which another document is removed, which stood behind.
LEMMA AgreesShorter ==
    ASSUME NEW S, NEW s \in Seq(S), NEW a \in Seq(S), NEW id, NEW e, Agrees(s, a, id), e # id,
           \A i, j \in DOMAIN a : i < j /\ a[j] = id => a[i] # e
    PROVE  Agrees(RemoveFirst(s, e), a, id)
<1> DEFINE t == RemoveFirst(s, e)
<1> SUFFICES ASSUME t # s PROVE Agrees(t, a, id)
    OBVIOUS
<1>1. PICK m \in 1 .. Len(s) :
             /\ s[m] = e /\ t \in Seq(S) /\ Len(t) = Len(s) - 1
             /\ \A j \in 1 .. Len(s) - 1 : t[j] = IF j < m THEN s[j] ELSE s[j + 1]
    BY RemoveFirstAt
<1> HIDE DEF t
<1>2. /\ DOMAIN s = 1 .. Len(s) /\ Len(s) \in Nat /\ DOMAIN a = 1 .. Len(a) /\ Len(a) \in Nat
      /\ DOMAIN t = 1 .. Len(s) - 1
    BY <1>1
\* The document removed stands behind every occurrence of the other.
<1>3. ASSUME NEW j \in DOMAIN a, a[j] = id PROVE j < m
    <2> SUFFICES ASSUME m <= j PROVE FALSE
        BY <1>2
    <2>1. s[m] = a[m] /\ m \in DOMAIN a
        BY <1>2, <1>3 DEF Agrees
    <2>2. CASE m = j
        BY <1>1, <1>3, <2>1, <2>2
    <2>3. CASE m < j
        BY <1>1, <1>3, <2>1, <2>3
    <2> QED BY <1>2, <2>2, <2>3
<1>4. ASSUME NEW j \in DOMAIN a, a[j] = id, NEW i \in 1 .. j
      PROVE  i \in DOMAIN t /\ t[i] = a[i]
    <2>1. s[i] = a[i]
        BY <1>4 DEF Agrees
    <2>2. j < m
        BY <1>3, <1>4
    <2>3. i < m /\ i \in 1 .. Len(s) - 1
        BY <1>2, <2>2
    <2> QED BY <1>1, <1>2, <2>1, <2>3
<1>5. ASSUME NEW i \in DOMAIN t, t[i] = id PROVE i \in DOMAIN a /\ a[i] = id
    <2>1. CASE i < m
        <3>1. s[i] = id /\ i \in DOMAIN s
            BY <1>1, <1>2, <1>5, <2>1
        <3> QED BY <3>1 DEF Agrees
    <2>2. CASE ~ (i < m)
        <3>1. s[i + 1] = id /\ i + 1 \in DOMAIN s
            BY <1>1, <1>2, <1>5, <2>2
        <3>2. i + 1 \in DOMAIN a /\ a[i + 1] = id
            BY <3>1 DEF Agrees
        <3>3. i + 1 < m
            BY <1>3, <3>2
        <3> QED BY <1>2, <2>2, <3>3
    <2> QED BY <2>1, <2>2
<1> QED BY <1>4, <1>5 DEF Agrees
-----------------------------------------------------------------------------
(***************************************************************************)
(* Statements do to the storage what its operations can do, and nothing    *)
(* else: the client of IndexedStorage is any client of KNIRVQL.            *)
(***************************************************************************)
LEMMA StatementsAreTyped ==
    ASSUME NEW s \in Statements
    PROVE  /\ Parse(s).type = "set" =>
                 Value(Parse(s).key) \in IDs /\ SetDocument(Parse(s)) \in Docs
           /\ Parse(s).type = "delete" => Value(Parse(s).id) \in IDs
           /\ Parse(s).type = "create_index" => Value(Parse(s).indexName) \in Names
BY StatementAssumption DEF StatementAssumption

LEMMA StatementIsStorageStep ==
    ASSUME Typed, NEW s \in Statements, Execute(Parse(s))
    PROVE  [Next]_vars
<1> DEFINE q == Parse(s)
<1>1. CASE Get(q)
    BY <1>1 DEF Get
<1>2. CASE ExecuteSet(q)
    <2>1. Insert(Value(q.key), SetDocument(q)) /\ Value(q.key) \in IDs /\ SetDocument(q) \in Docs
        BY <1>2, StatementsAreTyped DEF ExecuteSet
    <2> QED BY <2>1 DEF Next
<1>3. CASE ExecuteDelete(q)
    <2>1. Delete(Value(q.id)) /\ Value(q.id) \in IDs
        BY <1>3, StatementsAreTyped DEF ExecuteDelete
    <2> QED BY <2>1 DEF Next
<1>4. CASE ExecuteCreateIndex(q)
    <2>1. CreateIndex(Value(q.indexName)) /\ Value(q.indexName) \in Names
        BY <1>4, StatementsAreTyped DEF ExecuteCreateIndex
    <2> QED BY <2>1 DEF Next
<1>5. CASE ExecuteDropIndex(q)
    <2>1. DropIndex(Value(q.indexName)) /\ Value(q.indexName) \in Names
        BY <1>5 DEF ExecuteDropIndex, DropIndex, Typed
    <2> QED BY <2>1 DEF Next
<1> QED BY <1>1, <1>2, <1>3, <1>4, <1>5 DEF Execute

LEMMA QueryStepIsStorageStep == Typed /\ [QueryNext]_queryVars => [Next]_vars
<1> SUFFICES ASSUME Typed, [QueryNext]_queryVars PROVE [Next]_vars
    OBVIOUS
<1>1. CASE \E s \in Statements : Execute(Parse(s))
    BY <1>1, StatementIsStorageStep
<1>2. CASE executeFullScan \/ QueryIndex \/ NextID \/ Fetch \/ executeIndexScan
           \/ executeIndexOnlyScan \/ Drop
    BY <1>2 DEF executeFullScan, QueryIndex, NextID, Fetch, executeIndexScan,
               executeIndexOnlyScan, Drop
<1>3. CASE StorageStep
    BY <1>3 DEF StorageStep, Next
<1>4. CASE UNCHANGED queryVars
    BY <1>4 DEF queryVars
<1> QED BY <1>1, <1>2, <1>3, <1>4 DEF QueryNext

StorageInv == TypeInv /\ OperationInv

LEMMA StorageInvariant ==
    /\ QueryInit => StorageInv
    /\ StorageInv /\ [QueryNext]_queryVars => StorageInv' /\ [Next]_vars
<1>1. QueryInit => StorageInv
    BY TypeInit, OperationInit DEF QueryInit, StorageInv
<1>2. StorageInv /\ [QueryNext]_queryVars => StorageInv' /\ [Next]_vars
    BY QueryStepIsStorageStep, TypeNext, OperationNext DEF StorageInv, TypeInv
<1> QED BY <1>1, <1>2

(***************************************************************************)
(* Executing statements (Query.Execute) takes no step on files and indexes *)
(* that IndexedStorage does not: a GET takes none at all, the others those *)
(* of one operation.                                                       *)
(***************************************************************************)
THEOREM StatementsImplementStorage == QuerySpec => Spec
<1>1. QueryInit => Init
    BY DEF QueryInit
<1> QED BY <1>1, StorageInvariant, PTL DEF QuerySpec, Spec
-----------------------------------------------------------------------------
(***************************************************************************)
(* What a GET starts with.                                                 *)
(***************************************************************************)
LEMMA StatementsAreTexts ==
    ASSUME NEW s \in Statements, Parse(s).type # "invalid"
    PROVE  s \in Texts(TokenSet)
BY StatementAssumption DEF StatementAssumption, Texts, Parse, Invalid, NoQuery

LEMMA LimitsAreNumbers ==
    ASSUME NEW t \in Texts(TokenSet), Parse(t).type = "get"
    PROVE  Parse(t).limit \in Nat
<1> DEFINE clause == SubSeq(t, 4, Len(t))
           read   == IF t[3] = Word("WHERE") THEN whereClause(clause) ELSE NoQuery
<1>1. clause \in Seq(TokenSet) /\ Parse(t).limit = read.limit
    BY GetIsClause
<1> HIDE DEF clause
<1>2. CASE t[3] # Word("WHERE")
    BY <1>1, <1>2 DEF NoQuery
<1>3. CASE t[3] = Word("WHERE")
    <2> DEFINE q    == whereClause(clause)
               last == 1 + 3 * Len(q.filters)
    <2>1. q.filters \in Seq(Filters(TokenSet)) /\ q.limit = LimitAt(clause, last)
        BY <1>1, ClauseProperties DEF ReadsFrom
    <2>2. last \in Nat /\ last >= 1
        BY <2>1
    <2> HIDE DEF last, q
    <2>3. LimitAt(clause, last) \in Nat
        <3>1. CASE last + 1 <= Len(clause)
            <4>1. clause[last + 1] \in TokenSet
                BY <1>1, <2>2, <3>1
            <4>2. clause[last + 1].number \in Nat
                BY <4>1 DEF TokenSet
            <4> QED BY <4>2 DEF LimitAt
        <3>2. CASE ~ (last + 1 <= Len(clause))
            BY <3>2 DEF LimitAt
        <3> QED BY <3>1, <3>2
    <2> QED BY <1>1, <1>3, <2>1, <2>3 DEF q
<1> QED BY <1>2, <1>3

\* The index of a plan is one of those there are, and its key is one there may be.
KeyOf(plan) == <<Value(plan.indexFilters[1].value)>>

LEMMA PlansAreForIndexes ==
    ASSUME Typed, NEW s \in Statements, Parse(s).type = "get", NEW c,
           NEW plan \in Optimize(Parse(s), IndexesOf(c))
    PROVE  /\ plan.scanType \in {"full", "index", "index_only"}
           /\ plan.scanType # "full" =>
                 /\ plan.index.name \in indexes /\ plan.index.name \in Names
                 /\ KeyOf(plan) \in Keys
<1> DEFINE q == Parse(s)
<1>1. CASE plan.scanType = "full"
    BY <1>1
<1>2. CASE plan.scanType # "full"
    <2>1. /\ plan.index \in BestIndexes(q.filters, IndexesOf(c))
          /\ plan.scanType \in {"index", "index_only"}
          /\ plan.indexFilters = IndexFilters(plan.index, q.filters)
        BY <1>2, PlansAre
    <2>2. plan.index \in IndexesOf(c) /\ plan.indexFilters # <<>>
        BY <2>1 DEF BestIndexes
    <2>3. plan.index.name \in indexes
        BY <2>2 DEF IndexesOf, Index
    <2>4. KeyOf(plan) \in Keys
        <3> DEFINE filters == q.filters
                   taken   == plan.indexFilters
                   usable  == Usable(plan.index, filters)
        <3>1. filters \in Seq(Filters(TokenSet))
            BY StatementsAreTexts, FiltersOfText
        <3>2. taken \in Seq(Filters(TokenSet)) /\ Chosen(taken, filters, usable, Len(filters))
            <4> HIDE DEF usable
            <4>1. /\ Selected(filters, usable) \in Seq(Filters(TokenSet))
                  /\ Chosen(Selected(filters, usable), filters, usable, Len(filters))
                <5> HIDE DEF filters
                <5> QED BY <3>1, SelectedProperties
            <4> QED BY <2>1, <4>1 DEF IndexFilters, usable
        <3>3. 1 \in 1 .. Len(taken)
            <4>1. taken # <<>>
                BY <2>2
            <4> HIDE DEF taken
            <4> QED BY <3>2, <4>1
        <3>4. PICK i \in 1 .. Len(filters) : taken[1] = filters[i]
            <4> HIDE DEF taken, filters, usable
            <4> QED BY <3>2, <3>3 DEF Chosen
        <3>5. i \in DOMAIN filters
            <4> HIDE DEF filters
            <4> QED BY <3>1
        <3>6. Value(filters[i].value) \in Values
            BY <3>5, StatementAssumption DEF StatementAssumption
        <3> DEFINE v == Value(taken[1].value)
        <3>7. v \in Values
            BY <3>4, <3>6
        <3> HIDE DEF v
        <3>8. <<v>> \in [1 .. 1 -> Values] /\ 1 \in 0 .. 2
            BY <3>7
        <3>9. <<v>> \in Keys
            BY <3>8 DEF Keys
        <3> QED BY <3>9 DEF KeyOf, v
    <2> QED BY <2>1, <2>3, <2>4 DEF Typed
<1> QED BY <1>1, <1>2
-----------------------------------------------------------------------------
(***************************************************************************)
(* The GET that is executed.                                               *)
(***************************************************************************)
Touch == {"untouched", "insert", "delete"}

GetShape ==
    get = [phase |-> get.phase, plan |-> get.plan, limit |-> get.limit, slice |-> get.slice,
           shared |-> get.shared, next |-> get.next, docID |-> get.docID, answer |-> get.answer,
           asked |-> get.asked, since |-> get.since, dropped |-> get.dropped]

GetTyped ==
    /\ GetShape
    /\ get.phase \in {"planned", "scanning", "answered", "failed"}
    /\ {get.slice, get.docID, get.asked} \subseteq Seq(IDs)
    /\ get.plan.scanType # "full" => get.answer \in Seq(IDs)
    /\ get.limit \in Nat /\ get.next \in Nat \ {0}
    /\ get.shared \in BOOLEAN /\ get.dropped \in BOOLEAN
    /\ get.since \in [IDs -> Touch]

\* A plan is for an index that is there until it is dropped, and looks up a key
\* that there may be.
PlanOK ==
    /\ get.plan.scanType \in {"full", "index", "index_only"}
    /\ get.plan.scanType # "full" =>
          /\ get.plan.index.name \in Names /\ Key \in Keys
          /\ get.dropped \/ get.plan.index.name \in indexes

\* How far a GET may be.
ProgressOK ==
    /\ get.phase = "planned" =>
          get.asked = <<>> /\ ~ get.shared /\ get.docID = <<>> /\ get.answer = <<>> /\ get.next = 1
    /\ get.plan.scanType = "full" => get.asked = <<>> /\ ~ get.shared
    /\ get.docID # <<>> =>
          get.phase = "scanning" /\ get.plan.scanType = "index" /\ get.docID = <<get.docID[1]>>
    /\ get.shared => get.asked # <<>>
    /\ get.phase = "failed" => get.plan.index.name # Collection \/ get.dropped

\* Who operates on a document has been seen to do so.
OperationIsMarked ==
    get.asked # <<>> /\ op # Idle =>
        /\ get.since[op.id] # "untouched"
        /\ op.type = "delete" => get.since[op.id] = "delete"

Kept == entries[get.plan.index.name][Key]

Steady(id) ==
    /\ Agrees(get.slice, get.asked, id)
    /\ get.shared => Agrees(Kept, get.asked, id)

\* The slice is still read, by the scan or by the caller.
Watched ==
    \/ get.phase = "scanning"
    \/ get.phase = "answered" /\ get.plan.scanType = "index_only" /\ get.limit = 0

Matches(id) == id \in FindAll /\ matchesFilters(files[id], get.plan.postFilters)

\* How often the scan has passed a document, and how often it has taken it.
Passed(id) == Cardinality({i \in DOMAIN get.asked : i < get.next /\ get.asked[i] = id})

Counted(id) == Times(get.answer, id) + Times(get.docID, id) = Passed(id)

ScanOK ==
    \A id \in ToSet(get.asked) : StandsFirm(id) =>
        /\ Watched => Steady(id)
        /\ get.plan.scanType = "index" /\ Matches(id) =>
              /\ get.phase = "scanning" => Counted(id)
              /\ get.phase = "answered" /\ get.limit = 0 =>
                     Times(get.answer, id) = Times(get.asked, id)

GetOK == GetTyped /\ PlanOK /\ ProgressOK /\ OperationIsMarked

GetInv == get # NoGet => GetOK /\ ScanOK

-----------------------------------------------------------------------------
(***************************************************************************)
(* What others do in the middle of a GET: they write to the slice, take    *)
(* the index away, and mark the documents they operate on.                 *)
(***************************************************************************)
Meanwhile ==
    /\ get' = [get EXCEPT !.slice = get'.slice, !.shared = get'.shared,
                          !.since = get'.since, !.dropped = get'.dropped]
    /\ get'.slice \in Seq(IDs)
    /\ get'.shared \in BOOLEAN /\ (get'.shared => get.shared)
    /\ get'.dropped \in BOOLEAN /\ (get.dropped => get'.dropped)
    /\ get'.since \in [IDs -> Touch]
    /\ \A id \in IDs : /\ get.since[id] # "untouched" => get'.since[id] # "untouched"
                       /\ get.since[id] = "delete" => get'.since[id] = "delete"

LEMMA MeanwhileFields ==
    ASSUME GetTyped, Meanwhile
    PROVE  /\ GetTyped'
           /\ get'.phase = get.phase /\ get'.plan = get.plan /\ get'.limit = get.limit
           /\ get'.next = get.next /\ get'.docID = get.docID /\ get'.answer = get.answer
           /\ get'.asked = get.asked
<1>1. /\ GetShape'
      /\ get'.phase = get.phase /\ get'.plan = get.plan /\ get'.limit = get.limit
      /\ get'.next = get.next /\ get'.docID = get.docID /\ get'.answer = get.answer
      /\ get'.asked = get.asked
    BY DEF GetTyped, GetShape, Meanwhile
<1> QED BY <1>1 DEF GetTyped, Meanwhile

LEMMA UnchangedIsMeanwhile ==
    ASSUME GetTyped, UNCHANGED get
    PROVE  Meanwhile
<1>1. get = [get EXCEPT !.slice = get.slice, !.shared = get.shared,
                        !.since = get.since, !.dropped = get.dropped]
    BY DEF GetTyped, GetShape
<1> QED BY <1>1 DEF GetTyped, Meanwhile

LEMMA AskedAreIDs ==
    ASSUME GetTyped
    PROVE  /\ \A i \in DOMAIN get.asked : get.asked[i] \in IDs
           /\ \A id \in ToSet(get.asked) : id \in IDs
<1>1. get.asked \in Seq(IDs)
    BY DEF GetTyped
<1>2. \A i \in DOMAIN get.asked : get.asked[i] \in IDs
    BY <1>1
<1> QED BY <1>2 DEF ToSet

\* A document that stands firm has stood firm before.
LEMMA FirmBefore ==
    ASSUME GetTyped, Meanwhile, NEW id \in ToSet(get.asked), StandsFirm(id)'
    PROVE  StandsFirm(id) /\ id \in IDs
<1>1. get'.asked = get.asked
    BY MeanwhileFields
<1> QED BY <1>1, AskedAreIDs DEF StandsFirm, Meanwhile

LEMMA MeanwhileGetOK ==
    ASSUME GetOK, Meanwhile, OperationIsMarked',
           get.plan.index.name \in indexes => get'.dropped \/ get.plan.index.name \in indexes'
    PROVE  GetOK'
<1>1. /\ GetTyped'
      /\ get'.phase = get.phase /\ get'.plan = get.plan
      /\ get'.next = get.next /\ get'.docID = get.docID /\ get'.answer = get.answer
      /\ get'.asked = get.asked
    BY MeanwhileFields DEF GetOK
<1>2. PlanOK'
    BY <1>1 DEF GetOK, PlanOK, Meanwhile, Key
<1>3. ProgressOK'
    BY <1>1 DEF GetOK, ProgressOK, Meanwhile
<1> QED BY <1>1, <1>2, <1>3 DEF GetOK

LEMMA MeanwhileScanOK ==
    ASSUME GetOK, ScanOK, Meanwhile,
           \A id \in ToSet(get.asked) : StandsFirm(id)' /\ StandsFirm(id) =>
               /\ files'[id] = files[id]
               /\ Watched /\ Steady(id) => Steady(id)'
    PROVE  ScanOK'
<1>1. /\ get'.phase = get.phase /\ get'.plan = get.plan /\ get'.limit = get.limit
      /\ get'.next = get.next /\ get'.docID = get.docID /\ get'.answer = get.answer
      /\ get'.asked = get.asked
    BY MeanwhileFields DEF GetOK
<1> SUFFICES ASSUME NEW id \in ToSet(get.asked), StandsFirm(id)'
             PROVE  /\ Watched' => Steady(id)'
                    /\ get.plan.scanType = "index" /\ Matches(id)' =>
                          /\ get.phase = "scanning" => Counted(id)'
                          /\ get.phase = "answered" /\ get.limit = 0 =>
                                 Times(get.answer, id) = Times(get.asked, id)
    BY <1>1 DEF ScanOK
<1>2. StandsFirm(id) /\ id \in IDs
    BY FirmBefore DEF GetOK
<1>3. Watched' => Steady(id)'
    BY <1>1, <1>2 DEF ScanOK, Watched
<1>4. Matches(id)' => Matches(id)
    BY <1>1, <1>2 DEF Matches, FindAll
<1>5. Counted(id)' <=> Counted(id)
    BY <1>1 DEF Counted, Passed
<1> QED BY <1>2, <1>3, <1>4, <1>5 DEF ScanOK
-----------------------------------------------------------------------------
(***************************************************************************)
(* Operations on documents and on indexes.                                 *)
(***************************************************************************)
LEMMA OthersOperate ==
    ASSUME GetOK, op # Idle, NEW id \in ToSet(get.asked), StandsFirm(id)
    PROVE  /\ id # op.id
           /\ op.type = "delete" =>
                 \A i, j \in DOMAIN get.asked : i < j /\ get.asked[j] = id => get.asked[i] # op.id
<1>1. get.asked # <<>>
    BY DEF ToSet
<1> QED BY <1>1 DEF GetOK, OperationIsMarked, StandsFirm

\* The operation goes on, or returns.
LEMMA OperationStaysMarked ==
    ASSUME GetOK, Meanwhile,
           op' = Idle \/ (op # Idle /\ op'.id = op.id /\ op'.type = op.type /\ op.id \in IDs)
    PROVE  OperationIsMarked'
<1>1. get'.asked = get.asked
    BY MeanwhileFields DEF GetOK
<1> QED BY <1>1 DEF GetOK, OperationIsMarked, Meanwhile

LEMMA OperationGoesOn ==
    ASSUME Typed, \/ WriteFile \/ WriteFileFails \/ GetIndexes \/ Return
                  \/ \E n \in Names : InsertIntoIndex(n) \/ DeleteFromIndex(n) \/ DropIndex(n)
                  \/ \E n \in Names : CreateIndex(n)
    PROVE  op' = Idle \/ (op # Idle /\ op'.id = op.id /\ op'.type = op.type /\ op.id \in IDs)
<1>1. op \in Operation \cup {Idle}
    BY DEF Typed
<1>2. CASE WriteFile
    BY <1>1, <1>2 DEF WriteFile, Operation
<1>3. CASE WriteFileFails \/ Return
    BY <1>3 DEF WriteFileFails, Return
<1>4. CASE GetIndexes
    BY <1>1, <1>4 DEF GetIndexes, Operation
<1>5. ASSUME NEW n \in Names, InsertIntoIndex(n) \/ DeleteFromIndex(n)
      PROVE  op # Idle /\ op'.id = op.id /\ op'.type = op.type /\ op.id \in IDs
    <2>1. op # Idle /\ op' = Without(n)
        BY <1>5 DEF InsertIntoIndex, DeleteFromIndex, Without
    <2> QED BY <1>1, <2>1, TodoShrinks, OperationSteps
<1>6. ASSUME NEW n \in Names, DropIndex(n)
      PROVE  op' = Idle \/ (op # Idle /\ op'.id = op.id /\ op'.type = op.type /\ op.id \in IDs)
    <2>1. op' = IF op = Idle THEN Idle ELSE Without(n)
        BY <1>6 DEF DropIndex, Without
    <2> QED BY <1>1, <2>1, TodoShrinks, OperationSteps
<1>7. ASSUME NEW n \in Names, CreateIndex(n)
      PROVE  op' = Idle \/ (op # Idle /\ op'.id = op.id /\ op'.type = op.type /\ op.id \in IDs)
    BY <1>1, <1>7, OperationSteps DEF CreateIndex
<1> QED BY <1>2, <1>3, <1>4, <1>5, <1>6, <1>7

\* Steps that leave the GET, the indexes and their entries alone.
LEMMA FileSteps ==
    ASSUME StorageInv, GetOK, ScanOK, UNCHANGED get,
           WriteFile \/ WriteFileFails \/ GetIndexes \/ Return
    PROVE  GetOK' /\ ScanOK'
<1>1. Meanwhile
    BY UnchangedIsMeanwhile DEF GetOK
<1>2. OperationIsMarked'
    BY <1>1, OperationStaysMarked, OperationGoesOn DEF StorageInv, TypeInv
<1>3. UNCHANGED <<indexes, entries>>
    BY DEF WriteFile, WriteFileFails, GetIndexes, Return
<1>4. GetOK'
    BY <1>1, <1>2, <1>3, MeanwhileGetOK
<1>5. ASSUME NEW id \in ToSet(get.asked), StandsFirm(id) PROVE files'[id] = files[id]
    <2>1. op # Idle => id # op.id
        BY <1>5, OthersOperate
    <2>2. files' = files \/ (op # Idle /\ files' = [files EXCEPT ![op.id] = op.doc])
        BY DEF WriteFile, WriteFileFails, GetIndexes, Return
    <2>3. id \in IDs /\ DOMAIN files = IDs
        BY AskedAreIDs DEF GetOK, StorageInv, TypeInv, Typed
    <2> QED BY <2>1, <2>2, <2>3
<1>6. \A id : Steady(id) => Steady(id)'
    BY <1>3 DEF Steady, Kept, Key
<1>7. ScanOK'
    BY <1>1, <1>5, <1>6, MeanwhileScanOK
<1> QED BY <1>4, <1>7

\* Creating an index touches none that there is.
LEMMA CreateStep ==
    ASSUME StorageInv, GetOK, ScanOK, UNCHANGED get, NEW n \in Names, CreateIndex(n)
    PROVE  GetOK' /\ ScanOK'
<1>1. Meanwhile
    BY UnchangedIsMeanwhile DEF GetOK
<1>2. OperationIsMarked'
    BY <1>1, OperationStaysMarked, OperationGoesOn DEF StorageInv, TypeInv
<1>3. indexes \subseteq indexes' /\ UNCHANGED <<files, entries>>
    BY DEF CreateIndex
<1>4. GetOK'
    BY <1>1, <1>2, <1>3, MeanwhileGetOK
<1>5. \A id : Steady(id) => Steady(id)'
    BY <1>3 DEF Steady, Kept, Key
<1>6. ScanOK'
    BY <1>1, <1>3, <1>5, MeanwhileScanOK
<1> QED BY <1>4, <1>6

\* An operation begins: from now on its document does not stand firm.
LEMMA OperationBegins ==
    ASSUME StorageInv, GetOK, ScanOK, NEW d \in IDs, NEW how \in {"insert", "delete"},
           Touches(d, how), op' # Idle, op'.id = d, op'.type = how,
           \E file : files' = [files EXCEPT ![d] = file], UNCHANGED <<indexes, entries>>
    PROVE  get # NoGet => GetOK' /\ ScanOK'
<1> SUFFICES ASSUME get # NoGet PROVE GetOK' /\ ScanOK'
    OBVIOUS
<1> DEFINE marked == [get.since EXCEPT ![d] = IF @ = "delete" THEN @ ELSE how]
<1>1. marked \in [IDs -> Touch] /\ marked[d] # "untouched" /\ (how = "delete" => marked[d] = "delete")
      /\ \A id \in IDs : /\ get.since[id] # "untouched" => marked[id] # "untouched"
                         /\ get.since[id] = "delete" => marked[id] = "delete"
    BY DEF GetOK, GetTyped, Touch
<1> HIDE DEF marked
<1>2. Meanwhile /\ (get.asked # <<>> => get'.since = marked)
    <2>1. CASE get.asked = <<>>
        <3>1. UNCHANGED get
            BY <2>1 DEF Touches
        <3> QED BY <2>1, <3>1, UnchangedIsMeanwhile DEF GetOK
    <2>2. CASE get.asked # <<>>
        <3>1. get' = [get EXCEPT !.since = marked]
            BY <2>2 DEF Touches, marked
        <3>2. /\ get'.since = marked /\ get'.slice = get.slice /\ get'.shared = get.shared
              /\ get'.dropped = get.dropped
            BY <3>1 DEF GetOK, GetTyped, GetShape
        <3>3. get' = [get EXCEPT !.slice = get'.slice, !.shared = get'.shared,
                                 !.since = get'.since, !.dropped = get'.dropped]
            BY <3>1, <3>2 DEF GetOK, GetTyped, GetShape
        <3> QED BY <1>1, <3>2, <3>3 DEF GetOK, GetTyped, Meanwhile
    <2> QED BY <2>1, <2>2
<1>3. get'.asked = get.asked /\ get'.plan = get.plan
    BY <1>2, MeanwhileFields DEF GetOK
<1>4. OperationIsMarked'
    BY <1>1, <1>2, <1>3 DEF OperationIsMarked
<1>5. GetOK'
    BY <1>2, <1>4, MeanwhileGetOK
<1>6. ASSUME NEW id \in ToSet(get.asked), StandsFirm(id)' PROVE files'[id] = files[id]
    <2>1. get.asked # <<>>
        BY <1>6 DEF ToSet
    <2>2. id # d
        BY <1>1, <1>2, <1>6, <2>1 DEF StandsFirm
    <2>3. PICK file : files' = [files EXCEPT ![d] = file]
        OBVIOUS
    <2>4. id \in IDs /\ DOMAIN files = IDs
        BY AskedAreIDs DEF GetOK, StorageInv, TypeInv, Typed
    <2> QED BY <2>2, <2>3, <2>4
<1>7. get'.slice = get.slice /\ get'.shared = get.shared
    BY DEF Touches, GetOK, GetTyped, GetShape
<1>8. \A id : Steady(id) => Steady(id)'
    BY <1>3, <1>7 DEF Steady, Kept, Key
<1>9. ScanOK'
    BY <1>2, <1>6, <1>8, MeanwhileScanOK
<1> QED BY <1>5, <1>9
-----------------------------------------------------------------------------
(***************************************************************************)
(* An operation reaches an index.                                          *)
(***************************************************************************)
Grown(s, t, e) ==
    /\ DOMAIN s \subseteq DOMAIN t
    /\ \A i \in DOMAIN t : IF i \in DOMAIN s THEN t[i] = s[i] ELSE t[i] = e

LEMMA AppendGrows ==
    ASSUME NEW S, NEW s \in Seq(S), NEW e
    PROVE  Grown(s, Append(s, e), e)
<1>1. /\ DOMAIN s = 1 .. Len(s) /\ Len(s) \in Nat /\ DOMAIN Append(s, e) = 1 .. Len(s) + 1
      /\ \A i \in 1 .. Len(s) : Append(s, e)[i] = s[i]
      /\ Append(s, e)[Len(s) + 1] = e
    OBVIOUS
<1> QED BY <1>1 DEF Grown

LEMMA RepeatGrows ==
    ASSUME NEW S, NEW s \in Seq(S), NEW e \in S, NEW c \in Nat
    PROVE  Grown(s, s \o [i \in 1 .. c |-> e], e)
<1> DEFINE more_ == [i \in 1 .. c |-> e]
           t     == s \o more_
<1>1. more_ \in Seq(S) /\ Len(more_) = c /\ \A i \in 1 .. c : more_[i] = e
    OBVIOUS
<1> HIDE DEF more_
<1>2. /\ t \in Seq(S) /\ Len(t) = Len(s) + Len(more_)
      /\ \A i \in 1 .. Len(s) + Len(more_) :
             t[i] = IF i <= Len(s) THEN s[i] ELSE more_[i - Len(s)]
    BY <1>1, ConcatProperties
<1> HIDE DEF t
<1>3. DOMAIN s = 1 .. Len(s) /\ Len(s) \in Nat /\ DOMAIN t = 1 .. Len(s) + c
    BY <1>1, <1>2
<1>4. ASSUME NEW i \in 1 .. Len(s) + c
      PROVE  IF i \in DOMAIN s THEN t[i] = s[i] ELSE t[i] = e
    <2>1. CASE i <= Len(s)
        BY <1>1, <1>2, <1>3, <2>1
    <2>2. CASE ~ (i <= Len(s))
        <3>1. i - Len(s) \in 1 .. c /\ i \notin DOMAIN s
            BY <1>3, <2>2
        <3> QED BY <1>1, <1>2, <2>2, <3>1
    <2> QED BY <2>1, <2>2
<1> QED BY <1>3, <1>4 DEF Grown, t, more_

LEMMA GrownAgrees ==
    ASSUME NEW s, NEW t, NEW a, NEW id, NEW e, Agrees(s, a, id), Grown(s, t, e), e # id
    PROVE  Agrees(t, a, id)
BY AgreesLonger DEF Grown

LEMMA InsertGrows ==
    ASSUME Typed, NEW n \in Names, InsertIntoIndex(n), NEW k \in Keys
    PROVE  entries'[n][k] = entries[n][k] \/ Grown(entries[n][k], entries'[n][k], op.id)
<1>1. op \in Operation /\ op.type = "insert" /\ op.id \in IDs /\ op.doc \in Docs
    BY OperationSteps DEF InsertIntoIndex, Typed
<1>2. entries \in [Names -> [Keys -> Seq(IDs)]] /\ entries[n][k] \in Seq(IDs)
    BY DEF Typed
<1>3. CASE insertBTree(n, op.id, op.doc)
    <2> DEFINE key == buildCompositeKey(Definition[n].fields, op.doc)
    <2>1. \/ entries' = entries
          \/ entries' = [entries EXCEPT ![n][key] = Append(@, op.id)]
        BY <1>3 DEF insertBTree
    <2> HIDE DEF key
    <2>2. entries'[n][k] = entries[n][k] \/ entries'[n][k] = Append(entries[n][k], op.id)
        BY <1>2, <2>1
    <2> QED BY <1>2, <2>2, AppendGrows
<1>4. CASE insertGIN(n, op.id, op.doc)
    <2> DEFINE c == tokenizeJSON(op.doc, k)
    <2>1. entries'[n][k] = entries[n][k] \o [i \in 1 .. c |-> op.id]
        BY <1>2, <1>4 DEF insertGIN
    <2>2. c \in Nat
        BY TokensAreCounted
    <2> HIDE DEF c
    <2> QED BY <1>1, <1>2, <2>1, <2>2, RepeatGrows
<1>5. CASE UNCHANGED entries
    BY <1>5
<1> QED BY <1>3, <1>4, <1>5, InsertIntoSplits DEF InsertInto

LEMMA DeleteShortens ==
    ASSUME Typed, NEW n \in Names, DeleteFromIndex(n), NEW k \in Keys
    PROVE  \/ entries'[n][k] = entries[n][k]
           \/ entries'[n][k] = RemoveFirst(entries[n][k], op.id)
<1>1. UNCHANGED entries \/ deleteEntries(n, op.id)
    BY DEF DeleteFromIndex
<1> QED BY <1>1 DEF deleteEntries, Typed

\* The other indexes keep what they have.
LEMMA OneIndexMoves ==
    ASSUME Typed, NEW n \in Names, InsertIntoIndex(n) \/ DeleteFromIndex(n)
    PROVE  /\ entries' \in [Names -> [Keys -> Seq(IDs)]]
           /\ OthersKept(n)
<1>1. CASE InsertIntoIndex(n)
    <2>1. op \in Operation /\ op.type = "insert"
        BY <1>1 DEF InsertIntoIndex, Typed
    <2> QED BY <1>1, <2>1, InsertIntoSplits, InsertIntoType DEF EntriesType
<1>2. CASE DeleteFromIndex(n)
    <2>1. op.id \in IDs /\ (UNCHANGED entries \/ deleteEntries(n, op.id))
        BY <1>2, OperationSteps DEF DeleteFromIndex, Typed
    <2> QED BY <2>1, EntriesGo DEF EntriesType, OthersKept, Typed
<1> QED BY <1>1, <1>2

\* Whatever it does to the IDs under a key, a document that stands firm is
\* where it was.
LEMMA KeptAgrees ==
    ASSUME Typed, GetOK, NEW n \in Names, NEW k \in Keys,
           InsertIntoIndex(n) \/ DeleteFromIndex(n),
           NEW id \in ToSet(get.asked), StandsFirm(id), Agrees(entries[n][k], get.asked, id)
    PROVE  Agrees(entries'[n][k], get.asked, id)
<1>1. op # Idle /\ id # op.id
    BY OthersOperate DEF InsertIntoIndex, DeleteFromIndex
<1>2. CASE InsertIntoIndex(n)
    BY <1>1, <1>2, InsertGrows, GrownAgrees
<1>3. CASE DeleteFromIndex(n)
    <2>1. \A i, j \in DOMAIN get.asked : i < j /\ get.asked[j] = id => get.asked[i] # op.id
        BY <1>1, <1>3, OthersOperate DEF DeleteFromIndex
    <2>2. entries[n][k] \in Seq(IDs) /\ get.asked \in Seq(IDs)
        BY DEF Typed, GetOK, GetTyped
    <2>3. Agrees(RemoveFirst(entries[n][k], op.id), get.asked, id)
        BY <1>1, <2>1, <2>2, AgreesShorter
    <2> QED BY <1>3, <2>3, DeleteShortens
<1> QED BY <1>2, <1>3

\* Overwriting a slice keeps its length, and what it is a slice of.
LEMMA InPlaceType ==
    ASSUME NEW S, NEW s \in Seq(S), NEW r \in Seq(S)
    PROVE  InPlace(s, r) \in Seq(S) /\ Len(InPlace(s, r)) = Len(s)
<1> DEFINE t == InPlace(s, r)
<1>1. /\ DOMAIN s = 1 .. Len(s) /\ Len(s) \in Nat /\ \A i \in DOMAIN s : s[i] \in S
      /\ \A i \in DOMAIN r : r[i] \in S
    OBVIOUS
<1>2. t = [i \in 1 .. Len(s) |-> t[i]] /\ \A i \in 1 .. Len(s) : t[i] \in S
    BY <1>1 DEF InPlace
<1> HIDE DEF t
<1>3. t \in Seq(S) /\ Len(t) = Len(s)
    BY <1>1, <1>2
<1> QED BY <1>3 DEF t

LEMMA IndexStep ==
    ASSUME StorageInv, GetOK, ScanOK, get # NoGet, NEW n \in Names,
           InsertIntoIndex(n) \/ DeleteFromIndex(n), IndexMoves(n)
    PROVE  GetOK' /\ ScanOK'
<1> DEFINE kept == entries'[n][Key]
<1>1. Typed /\ entries' \in [Names -> [Keys -> Seq(IDs)]] /\ OthersKept(n)
    BY OneIndexMoves DEF StorageInv, TypeInv
<1>2. UNCHANGED <<files, indexes>>
    BY DEF InsertIntoIndex, DeleteFromIndex
<1>3. Holds(n) => Key \in Keys /\ n = get.plan.index.name /\ get.shared /\ kept \in Seq(IDs)
    BY <1>1 DEF Holds, GetOK, PlanOK, ProgressOK
\* What becomes of the slice.
<1>4. \/ UNCHANGED get /\ (Holds(n) => kept = entries[n][Key])
      \/ Holds(n) /\ \E b \in BOOLEAN : get' = [get EXCEPT !.shared = b]
      \/ Holds(n) /\ get' = [get EXCEPT !.slice = InPlace(@, kept)]
    BY DEF IndexMoves
<1> HIDE DEF kept
<1>5. Meanwhile /\ (get'.slice = get.slice \/ (Holds(n) /\ get'.slice = InPlace(get.slice, kept)))
    <2>1. CASE UNCHANGED get
        BY <2>1, UnchangedIsMeanwhile DEF GetOK
    <2>2. ASSUME Holds(n), NEW b \in BOOLEAN, get' = [get EXCEPT !.shared = b]
          PROVE  Meanwhile /\ get'.slice = get.slice
        <3>1. /\ get'.since = get.since /\ get'.slice = get.slice /\ get'.shared = b
              /\ get'.dropped = get.dropped
            BY <2>2 DEF GetOK, GetTyped, GetShape
        <3>2. get' = [get EXCEPT !.slice = get'.slice, !.shared = get'.shared,
                                 !.since = get'.since, !.dropped = get'.dropped]
            BY <2>2, <3>1 DEF GetOK, GetTyped, GetShape
        <3> QED BY <1>3, <2>2, <3>1, <3>2 DEF GetOK, GetTyped, Meanwhile
    <2>3. ASSUME Holds(n), get' = [get EXCEPT !.slice = InPlace(@, kept)]
          PROVE  Meanwhile /\ get'.slice = InPlace(get.slice, kept)
        <3> DEFINE moved == InPlace(get.slice, kept)
        <3>1. moved \in Seq(IDs)
            BY <1>3, <2>3, InPlaceType DEF GetOK, GetTyped
        <3>2. get' = [get EXCEPT !.slice = moved]
            BY <2>3
        <3> HIDE DEF moved
        <3>3. /\ get'.since = get.since /\ get'.slice = moved /\ get'.shared = get.shared
              /\ get'.dropped = get.dropped
            BY <3>2 DEF GetOK, GetTyped, GetShape
        <3>4. get' = [get EXCEPT !.slice = get'.slice, !.shared = get'.shared,
                                 !.since = get'.since, !.dropped = get'.dropped]
            BY <3>2, <3>3 DEF GetOK, GetTyped, GetShape
        <3>5. Meanwhile
            BY <3>1, <3>3, <3>4 DEF GetOK, GetTyped, Meanwhile
        <3> QED BY <3>3, <3>5 DEF moved
    <2> QED BY <1>4, <2>1, <2>2, <2>3
<1>6. get'.asked = get.asked /\ get'.plan = get.plan
    BY <1>5, MeanwhileFields DEF GetOK
<1>7. OperationIsMarked'
    BY <1>5, OperationStaysMarked, OperationGoesOn DEF StorageInv, TypeInv
<1>8. GetOK'
    BY <1>2, <1>5, <1>7, MeanwhileGetOK
<1>9. ASSUME NEW id \in ToSet(get.asked), StandsFirm(id), Steady(id) PROVE Steady(id)'
    <2>1. Holds(n) => Agrees(kept, get.asked, id)
        BY <1>1, <1>3, <1>9, KeptAgrees DEF Steady, Kept, kept
    <2>2. Agrees(get'.slice, get.asked, id)
        BY <1>5, <1>9, <2>1, AgreesInPlace DEF Steady
    <2>3. get'.shared => Agrees(entries'[get.plan.index.name][Key], get.asked, id)
        <3> SUFFICES ASSUME get'.shared
                     PROVE  Agrees(entries'[get.plan.index.name][Key], get.asked, id)
            OBVIOUS
        <3>1. get.shared
            BY <1>5 DEF Meanwhile
        <3>2. CASE n = get.plan.index.name
            <4>1. Holds(n)
                BY <3>1, <3>2 DEF Holds
            <4> QED BY <2>1, <3>2, <4>1 DEF kept
        <3>3. CASE n # get.plan.index.name
            <4>1. get.plan.index.name \in Names
                BY <3>1 DEF GetOK, PlanOK, ProgressOK
            <4>2. entries'[get.plan.index.name] = entries[get.plan.index.name]
                BY <1>1, <3>3, <4>1 DEF OthersKept
            <4> QED BY <1>9, <3>1, <4>2 DEF Steady, Kept
        <3> QED BY <3>2, <3>3
    <2> QED BY <1>6, <2>2, <2>3 DEF Steady, Kept, Key
<1>10. ScanOK'
    BY <1>2, <1>5, <1>9, MeanwhileScanOK
<1> QED BY <1>8, <1>10
-----------------------------------------------------------------------------
(***************************************************************************)
(* The index of the GET is dropped.                                        *)
(***************************************************************************)
\* The beginning of one sequence and the end of another of the same length.
Splice(s, r, k) == SubSeq(s, 1, k) \o SubSeq(r, k + 1, Len(r))

LEMMA Spliced ==
    ASSUME NEW S, NEW s \in Seq(S), NEW r \in Seq(S), Len(r) = Len(s), NEW k \in 0 .. Len(s)
    PROVE  /\ Splice(s, r, k) \in Seq(S) /\ Len(Splice(s, r, k)) = Len(s)
           /\ \A i \in 1 .. Len(s) : Splice(s, r, k)[i] = s[i] \/ Splice(s, r, k)[i] = r[i]
<1> DEFINE front == SubSeq(s, 1, k)
           back  == SubSeq(r, k + 1, Len(r))
           t     == Splice(s, r, k)
<1>1. Len(s) \in Nat /\ k \in Nat /\ k <= Len(s)
    OBVIOUS
<1>2. front \in Seq(S) /\ Len(front) = k /\ \A i \in 1 .. k : front[i] = s[i]
    <2>1. 1 \in Int /\ k \in Int /\ \A j \in 1 .. k : s[j] \in S
        BY <1>1
    <2>2. \A j \in 1 .. k : front[j] = s[1 + j - 1]
        BY <2>1, SubSeqProperties
    <2> QED BY <1>1, <2>1, <2>2, SubSeqProperties
<1>3. back \in Seq(S) /\ Len(back) = Len(s) - k /\ \A i \in 1 .. Len(s) - k : back[i] = r[k + i]
    <2>1. k + 1 \in Int /\ Len(r) \in Int /\ \A j \in k + 1 .. Len(r) : r[j] \in S
        BY <1>1
    <2>2. \A j \in 1 .. Len(r) - (k + 1) + 1 : back[j] = r[k + 1 + j - 1]
        BY <2>1, SubSeqProperties
    <2>3. back \in Seq(S) /\ Len(back) = Len(s) - k
        BY <1>1, <2>1, SubSeqProperties
    <2> HIDE DEF back
    <2> QED BY <1>1, <2>2, <2>3
<1> HIDE DEF front, back
<1>4. /\ t \in Seq(S) /\ Len(t) = Len(front) + Len(back)
      /\ \A i \in 1 .. Len(front) + Len(back) :
             t[i] = IF i <= Len(front) THEN front[i] ELSE back[i - Len(front)]
    <2>1. t = front \o back
        BY DEF Splice, front, back
    <2> QED BY <1>2, <1>3, <2>1, ConcatProperties
<1> HIDE DEF t
<1>5. Len(front) + Len(back) = Len(s)
    BY <1>1, <1>2, <1>3
<1>6. ASSUME NEW i \in 1 .. Len(s) PROVE t[i] = s[i] \/ t[i] = r[i]
    <2>1. CASE i <= k
        BY <1>1, <1>2, <1>4, <1>5, <2>1
    <2>2. CASE ~ (i <= k)
        <3>1. i - k \in 1 .. Len(s) - k /\ k + (i - k) = i
            BY <1>1, <2>2
        <3>2. t[i] = back[i - k] /\ back[i - k] = r[i]
            BY <1>2, <1>3, <1>4, <1>5, <2>2, <3>1
        <3> QED BY <3>2
    <2> QED BY <2>1, <2>2
<1> QED BY <1>4, <1>5, <1>6 DEF t

LEMMA LateType ==
    ASSUME Typed, NEW n \in Names, Key \in Keys
    PROVE  Late(n) \in Seq(IDs)
<1> DEFINE ids == entries[n][Key]
<1>1. ids \in Seq(IDs)
    BY DEF Typed
<1>2. op # Idle => op.id \in IDs
    BY OperationSteps DEF Typed
<1>3. RemoveFirst(ids, op.id) \in Seq(IDs)
    BY <1>1, RemoveFirstProperties
<1> QED BY <1>1, <1>2, <1>3 DEF Late

LEMMA LateAgrees ==
    ASSUME Typed, GetOK, NEW n \in Names, Key \in Keys,
           NEW id \in ToSet(get.asked), StandsFirm(id), Agrees(entries[n][Key], get.asked, id)
    PROVE  Agrees(Late(n), get.asked, id)
<1> DEFINE ids == entries[n][Key]
<1>1. ids \in Seq(IDs) /\ get.asked \in Seq(IDs)
    BY DEF Typed, GetOK, GetTyped
<1>2. CASE Late(n) = ids
    BY <1>2
<1>3. CASE op # Idle /\ op.type = "delete" /\ Late(n) = RemoveFirst(ids, op.id)
    <2>1. id # op.id /\ \A i, j \in DOMAIN get.asked :
                            i < j /\ get.asked[j] = id => get.asked[i] # op.id
        BY <1>3, OthersOperate
    <2> HIDE DEF ids
    <2>2. Agrees(ids, get.asked, id)
        BY DEF ids
    <2>3. Agrees(RemoveFirst(ids, op.id), get.asked, id)
        BY <1>1, <2>1, <2>2, AgreesShorter
    <2> QED BY <1>3, <2>3
<1>4. CASE op # Idle /\ Late(n) = Append(ids, op.id)
    <2>1. id # op.id
        BY <1>4, OthersOperate
    <2> HIDE DEF ids
    <2>2. Grown(ids, Append(ids, op.id), op.id)
        BY <1>1, AppendGrows
    <2>3. Agrees(Append(ids, op.id), get.asked, id)
        BY <2>1, <2>2, GrownAgrees DEF ids
    <2> QED BY <1>4, <2>3
<1> QED BY <1>2, <1>3, <1>4 DEF Late

LEMMA DropStep ==
    ASSUME StorageInv, GetOK, ScanOK, get # NoGet, NEW q, ExecuteDropIndex(q)
    PROVE  GetOK' /\ ScanOK'
<1> DEFINE n    == Value(q.indexName)
           late == IF get.shared THEN InPlace(get.slice, Late(n)) ELSE get.slice
<1>1. /\ Typed /\ n \in Names /\ indexes' = indexes \ {n} /\ UNCHANGED files
      /\ entries' = [entries EXCEPT ![n] = NoEntries] /\ DropIndex(n)
    BY DEF ExecuteDropIndex, DropIndex, Forget, StorageInv, TypeInv, Typed
<1>2. \/ UNCHANGED get /\ get.plan.index.name # n
      \/ /\ get.plan.index.name = n
         /\ \E k \in 0 .. Len(get.slice) :
               get' = [get EXCEPT !.shared = FALSE, !.dropped = TRUE,
                                  !.slice = SubSeq(@, 1, k) \o SubSeq(late, k + 1, Len(late))]
    BY DEF ExecuteDropIndex
<1> HIDE DEF n, late
<1>3. CASE UNCHANGED get /\ get.plan.index.name # n
    <2>1. Meanwhile
        BY <1>3, UnchangedIsMeanwhile DEF GetOK
    <2>2. OperationIsMarked'
        BY <1>1, <2>1, OperationStaysMarked, OperationGoesOn
    <2>3. GetOK'
        BY <1>1, <1>3, <2>1, <2>2, MeanwhileGetOK
    <2>4. ASSUME NEW id, Steady(id) PROVE Steady(id)'
        <3>1. get.shared => get.plan.index.name \in Names
            BY DEF GetOK, PlanOK, ProgressOK
        <3>2. get.shared => entries'[get.plan.index.name] = entries[get.plan.index.name]
            BY <1>1, <1>3, <3>1 DEF Typed
        <3> QED BY <1>3, <2>4, <3>2 DEF Steady, Kept, Key
    <2>5. ScanOK'
        BY <1>1, <2>1, <2>4, MeanwhileScanOK
    <2> QED BY <2>3, <2>5
<1>4. ASSUME get.plan.index.name = n, NEW k \in 0 .. Len(get.slice),
             get' = [get EXCEPT !.shared = FALSE, !.dropped = TRUE,
                                !.slice = SubSeq(@, 1, k) \o SubSeq(late, k + 1, Len(late))]
      PROVE  GetOK' /\ ScanOK'
    <2> DEFINE rest == SubSeq(get.slice, 1, k) \o SubSeq(late, k + 1, Len(late))
    <2>1. get.slice \in Seq(IDs)
        BY DEF GetOK, GetTyped
    <2>2. get.shared => Key \in Keys /\ Late(n) \in Seq(IDs)
        BY <1>1, LateType DEF GetOK, PlanOK, ProgressOK
    <2>3. late \in Seq(IDs) /\ Len(late) = Len(get.slice)
        BY <2>1, <2>2, InPlaceType DEF late
    <2>4. /\ rest \in Seq(IDs) /\ Len(rest) = Len(get.slice)
          /\ \A i \in 1 .. Len(get.slice) : rest[i] = get.slice[i] \/ rest[i] = late[i]
        <3>1. rest = Splice(get.slice, late, k)
            BY DEF Splice
        <3> HIDE DEF rest, late
        <3> DEFINE s == get.slice
        <3>2. s \in Seq(IDs) /\ late \in Seq(IDs) /\ Len(late) = Len(s) /\ k \in 0 .. Len(s)
            BY <2>1, <2>3
        <3> HIDE DEF s
        <3>3. /\ Splice(s, late, k) \in Seq(IDs) /\ Len(Splice(s, late, k)) = Len(s)
              /\ \A i \in 1 .. Len(s) :
                    Splice(s, late, k)[i] = s[i] \/ Splice(s, late, k)[i] = late[i]
            BY <3>2, Spliced
        <3> QED BY <3>1, <3>3 DEF s
    <2>5. get' = [get EXCEPT !.shared = FALSE, !.dropped = TRUE, !.slice = rest]
        BY <1>4
    <2> HIDE DEF rest
    <2>6. get'.since = get.since /\ get'.slice = rest /\ get'.shared = FALSE /\ get'.dropped = TRUE
        BY <2>5 DEF GetOK, GetTyped, GetShape
    <2>7. Meanwhile
        <3>1. get' = [get EXCEPT !.slice = get'.slice, !.shared = get'.shared,
                                 !.since = get'.since, !.dropped = get'.dropped]
            BY <2>5, <2>6 DEF GetOK, GetTyped, GetShape
        <3> QED BY <2>4, <2>6, <3>1 DEF GetOK, GetTyped, Meanwhile
    <2>8. OperationIsMarked'
        BY <1>1, <2>7, OperationStaysMarked, OperationGoesOn
    <2>9. GetOK'
        BY <2>6, <2>7, <2>8, MeanwhileGetOK
    <2>10. ASSUME NEW id \in ToSet(get.asked), StandsFirm(id), Steady(id) PROVE Steady(id)'
        <3>1. Agrees(late, get.asked, id)
            <4>1. CASE get.shared
                <5>1. Agrees(Late(n), get.asked, id)
                    BY <1>1, <1>4, <2>2, <2>10, <4>1, LateAgrees DEF Steady, Kept
                <5> QED BY <2>10, <4>1, <5>1, AgreesInPlace DEF Steady, late
            <4>2. CASE ~ get.shared
                BY <2>10, <4>2 DEF Steady, late
            <4> QED BY <4>1, <4>2
        <3>2. /\ DOMAIN rest = DOMAIN get.slice /\ DOMAIN late = DOMAIN get.slice
              /\ DOMAIN get.slice = 1 .. Len(get.slice)
            BY <2>1, <2>3, <2>4
        <3>3. Agrees(rest, get.asked, id)
            BY <2>4, <2>10, <3>1, <3>2, AgreesMixed DEF Steady
        <3>4. get'.asked = get.asked
            BY <2>7, MeanwhileFields DEF GetOK
        <3> QED BY <2>6, <3>3, <3>4 DEF Steady
    <2>11. ScanOK'
        BY <1>1, <2>7, <2>10, MeanwhileScanOK
    <2> QED BY <2>9, <2>11
<1> QED BY <1>2, <1>3, <1>4
-----------------------------------------------------------------------------
(***************************************************************************)
(* The steps of the GET itself, which leave the storage alone.             *)
(***************************************************************************)
LEMMA NothingAsked ==
    ASSUME get.asked = <<>>
    PROVE  ScanOK
BY DEF ScanOK, ToSet

LEMMA GetBegins ==
    ASSUME StorageInv, NEW s \in Statements, Get(Parse(s))
    PROVE  GetOK' /\ ScanOK'
<1> DEFINE q == Parse(s)
<1>1. PICK plan \in Optimize(q, IndexesOf(CollectionOf(q))) :
             get' = [phase |-> "planned", plan |-> plan, limit |-> q.limit, slice |-> <<>>,
                     shared |-> FALSE, next |-> 1, docID |-> <<>>, answer |-> <<>>,
                     asked |-> <<>>, since |-> Untouched, dropped |-> FALSE]
    BY DEF Get
<1>2. q.type = "get" /\ UNCHANGED vars /\ Typed
    BY DEF Get, StorageInv, TypeInv
<1>3. q.limit \in Nat
    BY <1>2, StatementsAreTexts, LimitsAreNumbers
<1>4. /\ plan.scanType \in {"full", "index", "index_only"}
      /\ plan.scanType # "full" => /\ plan.index.name \in indexes /\ plan.index.name \in Names
                                   /\ KeyOf(plan) \in Keys
    BY <1>2, PlansAreForIndexes
<1> HIDE DEF q
<1>5. GetTyped'
    BY <1>1, <1>3 DEF GetTyped, GetShape, Untouched, Touch
<1>6. get'.plan = plan /\ get'.asked = <<>>
    BY <1>1
<1>7. PlanOK'
    BY <1>2, <1>4, <1>6 DEF PlanOK, Key, KeyOf, vars
<1>8. ProgressOK' /\ OperationIsMarked'
    BY <1>1 DEF ProgressOK, OperationIsMarked
<1>9. ScanOK'
    BY <1>6 DEF ScanOK, ToSet
<1> QED BY <1>5, <1>7, <1>8, <1>9 DEF GetOK

\* A plan stays what it is.
LEMMA PlanStays ==
    ASSUME GetOK, UNCHANGED vars, get'.plan = get.plan, get'.dropped = get.dropped,
           get'.asked = get.asked, get'.since = get.since
    PROVE  PlanOK' /\ OperationIsMarked'
BY DEF GetOK, PlanOK, OperationIsMarked, Key, vars

LEMMA FullScanStep ==
    ASSUME GetOK, executeFullScan
    PROVE  GetOK' /\ ScanOK'
<1>1. PICK answer : get' = [get EXCEPT !.phase = "answered", !.answer = answer,
                                       !.slice = <<>>, !.shared = FALSE, !.next = 1]
    BY DEF executeFullScan, Answered
<1>2. UNCHANGED vars /\ get.plan.scanType = "full" /\ get.asked = <<>> /\ get.docID = <<>>
    BY DEF executeFullScan, GetOK, ProgressOK
<1>3. /\ get'.plan = get.plan /\ get'.dropped = get.dropped /\ get'.asked = <<>>
      /\ get'.since = get.since /\ get'.docID = <<>> /\ get'.phase = "answered" /\ ~ get'.shared
    BY <1>1, <1>2 DEF GetOK, GetTyped, GetShape
<1>4. GetTyped'
    <2>1. GetShape' /\ get'.slice = <<>> /\ get'.limit = get.limit /\ get'.next = 1 /\ get'.shared = FALSE
        BY <1>1 DEF GetOK, GetTyped, GetShape
    <2>2. /\ get.limit \in Nat /\ get.dropped \in BOOLEAN /\ get.since \in [IDs -> Touch]
          /\ <<>> \in Seq(IDs) /\ 1 \in Nat \ {0}
        BY DEF GetOK, GetTyped
    <2> QED BY <1>2, <1>3, <2>1, <2>2, Zenon DEF GetTyped
<1>5. PlanOK' /\ OperationIsMarked'
    BY <1>2, <1>3, PlanStays
<1>6. ProgressOK'
    BY <1>3 DEF ProgressOK
<1>7. ScanOK'
    BY <1>3 DEF ScanOK, ToSet
<1> QED BY <1>4, <1>5, <1>6, <1>7 DEF GetOK

\* The index is asked: the slice is what it keeps.
LEMMA QueryIndexStep ==
    ASSUME StorageInv, GetOK, QueryIndex
    PROVE  GetOK' /\ ScanOK'
<1> DEFINE n     == get.plan.index.name
           slice == IF get.plan.index.type = "btree" THEN entries[n][Key] ELSE <<>>
           seen  == IF op = Idle THEN get.since ELSE [get.since EXCEPT ![op.id] = op.type]
<1>1. /\ UNCHANGED vars /\ Typed /\ n \in Names /\ Key \in Keys
      /\ get.plan.scanType \in {"index", "index_only"}
      /\ get.phase = "planned" /\ get.asked = <<>> /\ ~ get.shared /\ get.docID = <<>>
      /\ get.answer = <<>> /\ get.next = 1
    BY DEF QueryIndex, GetOK, PlanOK, ProgressOK, StorageInv, TypeInv
<1>2. slice \in Seq(IDs)
    BY <1>1 DEF Typed
<1>3. /\ seen \in [IDs -> Touch]
      /\ op # Idle => seen[op.id] # "untouched" /\ (op.type = "delete" => seen[op.id] = "delete")
    <2>1. op # Idle => op.id \in IDs /\ op.type \in {"insert", "delete"}
        BY <1>1, OperationSteps DEF Typed
    <2> QED BY <2>1 DEF GetOK, GetTyped, Touch
<1>4. \/ get' = [get EXCEPT !.phase = "scanning", !.slice = slice, !.asked = slice,
                            !.shared = slice # <<>>, !.since = seen]
      \/ get' = [get EXCEPT !.phase = "failed"] /\ ~ (n = Collection /\ n \in indexes)
    BY DEF QueryIndex
<1>5. slice # <<>> => slice = Kept
    BY DEF Kept
<1> HIDE DEF slice, seen
<1>6. CASE get' = [get EXCEPT !.phase = "failed"] /\ ~ (n = Collection /\ n \in indexes)
    <2>0. n # Collection \/ get.dropped
        BY <1>1, <1>6 DEF GetOK, PlanOK
    <2>1. /\ get'.plan = get.plan /\ get'.dropped = get.dropped /\ get'.asked = get.asked
          /\ get'.since = get.since /\ get'.docID = <<>> /\ get'.phase = "failed" /\ ~ get'.shared
        BY <1>1, <1>6 DEF GetOK, GetTyped, GetShape
    <2>2. GetTyped'
        BY <1>1, <1>6 DEF GetOK, GetTyped, GetShape
    <2>3. PlanOK' /\ OperationIsMarked'
        BY <1>1, <2>1, PlanStays
    <2>4. ProgressOK'
        BY <1>1, <2>0, <2>1 DEF ProgressOK
    <2>5. ScanOK'
        BY <1>1, <2>1 DEF ScanOK, ToSet
    <2> QED BY <2>2, <2>3, <2>4, <2>5 DEF GetOK
<1>7. CASE get' = [get EXCEPT !.phase = "scanning", !.slice = slice, !.asked = slice,
                              !.shared = slice # <<>>, !.since = seen]
    <2>1. /\ get'.plan = get.plan /\ get'.dropped = get.dropped /\ get'.asked = slice
          /\ get'.since = seen /\ get'.docID = <<>> /\ get'.phase = "scanning"
          /\ get'.shared = (slice # <<>>) /\ get'.slice = slice /\ get'.answer = <<>>
          /\ get'.next = 1 /\ get'.limit = get.limit
        BY <1>1, <1>7 DEF GetOK, GetTyped, GetShape
    <2>2. GetTyped'
        <3>1. GetShape'
            BY <1>7 DEF GetOK, GetTyped, GetShape
        <3> QED BY <1>1, <1>2, <1>3, <2>1, <3>1 DEF GetOK, GetTyped
    <2>3. PlanOK'
        BY <1>1, <2>1 DEF GetOK, PlanOK, Key, vars
    <2>4. OperationIsMarked'
        BY <1>1, <1>3, <2>1 DEF OperationIsMarked, vars
    <2>5. ProgressOK'
        BY <1>1, <2>1 DEF ProgressOK
    <2>6. ASSUME NEW id \in ToSet(slice)
          PROVE  Steady(id)' /\ Counted(id)'
        <3>1. Agrees(slice, slice, id)
            BY <1>2, AgreesWithItself
        <3>2. slice # <<>> /\ Kept' = slice
            BY <1>1, <1>5, <2>1, <2>6 DEF ToSet, Kept, Key, vars
        <3>3. Steady(id)'
            BY <2>1, <3>1, <3>2 DEF Steady
        <3>4. \A i \in DOMAIN slice : ~ (i < 1)
            BY <1>2
        <3>5. {i \in DOMAIN slice : i < 1 /\ slice[i] = id} = {}
            BY <3>4
        <3>6. Passed(id)' = 0
            BY <2>1, <3>5, FS_EmptySet DEF Passed
        <3>7. Counted(id)'
            BY <2>1, <3>6, TimesOfNothing DEF Counted
        <3> QED BY <3>3, <3>7
    <2>7. ScanOK'
        BY <2>1, <2>6 DEF ScanOK
    <2> QED BY <2>2, <2>3, <2>4, <2>5, <2>7 DEF GetOK
<1> QED BY <1>4, <1>6, <1>7
\* Steps of a scan that change nothing but where it is and what it has taken.
ScanGoesOn ==
    /\ UNCHANGED vars
    /\ get' = [get EXCEPT !.docID = get'.docID, !.next = get'.next, !.answer = get'.answer]
    /\ get'.docID \in Seq(IDs) /\ get'.next \in Nat \ {0} /\ get'.answer \in Seq(IDs)
    /\ get.phase = "scanning" /\ get.plan.scanType = "index"
    /\ get'.docID # <<>> => get'.docID = <<get'.docID[1]>>

LEMMA ScanGoesOnOK ==
    ASSUME GetOK, ScanOK, ScanGoesOn,
           \A id \in ToSet(get.asked) : StandsFirm(id) /\ Steady(id) /\ Matches(id) =>
               (Counted(id) => Counted(id)')
    PROVE  GetOK' /\ ScanOK'
<1>1. /\ GetShape' /\ get'.phase = "scanning" /\ get'.plan = get.plan /\ get'.limit = get.limit
      /\ get'.slice = get.slice /\ get'.shared = get.shared /\ get'.asked = get.asked
      /\ get'.since = get.since /\ get'.dropped = get.dropped
    BY DEF GetOK, GetTyped, GetShape, ScanGoesOn
<1>2. GetTyped'
    BY <1>1 DEF GetOK, GetTyped, ScanGoesOn
<1>3. PlanOK' /\ OperationIsMarked'
    BY <1>1, PlanStays DEF ScanGoesOn
<1>4. ProgressOK'
    BY <1>1 DEF GetOK, ProgressOK, ScanGoesOn
<1>5. ASSUME NEW id \in ToSet(get.asked), StandsFirm(id)'
      PROVE  Steady(id)' /\ (Matches(id)' => Counted(id)')
    <2>1. StandsFirm(id)
        BY <1>1, <1>5 DEF StandsFirm
    <2>2. Steady(id) /\ (Matches(id) => Counted(id))
        BY <2>1 DEF ScanOK, Watched, ScanGoesOn
    <2>3. Steady(id)'
        BY <1>1, <2>2 DEF Steady, Kept, Key, ScanGoesOn, vars
    <2>4. Matches(id)' => Matches(id)
        BY <1>1 DEF Matches, FindAll, ScanGoesOn, vars
    <2> QED BY <2>1, <2>2, <2>3, <2>4
<1>6. ScanOK'
    BY <1>1, <1>5 DEF ScanOK
<1> QED BY <1>2, <1>3, <1>4, <1>6 DEF GetOK

\* How often an element stands before a position.
Before(a, n, e) == Cardinality({i \in DOMAIN a : i < n /\ a[i] = e})

LEMMA OneMoreBefore ==
    ASSUME NEW S, NEW a \in Seq(S), NEW n \in Nat, NEW e
    PROVE  /\ Before(a, n, e) \in Nat
           /\ Before(a, n + 1, e)
              = Before(a, n, e) + (IF n \in DOMAIN a /\ a[n] = e THEN 1 ELSE 0)
<1> DEFINE A == {i \in DOMAIN a : i < n /\ a[i] = e}
           B == {i \in DOMAIN a : i < n + 1 /\ a[i] = e}
<1>1. IsFiniteSet(A) /\ Cardinality(A) \in Nat
    <2>1. IsFiniteSet(DOMAIN a)
        BY FS_Interval
    <2>2. A \subseteq DOMAIN a
        OBVIOUS
    <2> HIDE DEF A
    <2> QED BY <2>1, <2>2, FS_Subset, FS_CardinalityType
<1>2. \A i \in DOMAIN a : i < n + 1 <=> i < n \/ i = n
    OBVIOUS
<1>3. CASE n \in DOMAIN a /\ a[n] = e
    <2>1. B = A \cup {n} /\ n \notin A
        BY <1>2, <1>3
    <2> HIDE DEF A, B
    <2>2. Cardinality(B) = Cardinality(A) + 1
        BY <1>1, <2>1, FS_AddElement
    <2> QED BY <1>1, <1>3, <2>2 DEF Before, A, B
<1>4. CASE ~ (n \in DOMAIN a /\ a[n] = e)
    <2>1. B = A
        BY <1>2, <1>4
    <2>2. Before(a, n, e) = Cardinality(A) /\ Before(a, n + 1, e) = Cardinality(B)
        BY DEF Before
    <2> HIDE DEF A, B
    <2> QED BY <1>1, <1>4, <2>1, <2>2
<1> QED BY <1>3, <1>4

LEMMA TimesOfOne ==
    ASSUME NEW S, NEW x \in S, NEW e
    PROVE  Times(<<x>>, e) = IF x = e THEN 1 ELSE 0
<1> DEFINE none == <<>>
<1>1. none \in Seq(S) /\ Append(none, x) = <<x>> /\ Times(none, e) = 0
    BY TimesOfNothing
<1> HIDE DEF none
<1>2. \A s \in Seq(S) : Times(Append(s, x), e) = Times(s, e) + (IF x = e THEN 1 ELSE 0)
    BY TimesOfAppend
<1> DEFINE one == IF x = e THEN 1 ELSE 0
<1>3. Times(<<x>>, e) = 0 + one
    BY <1>1, <1>2, Zenon
<1>4. 0 + one = one
    OBVIOUS
<1> QED BY <1>3, <1>4, Zenon

LEMMA NextIDStep ==
    ASSUME GetOK, ScanOK, NextID
    PROVE  GetOK' /\ ScanOK'
<1> DEFINE n == get.next
           x == get.slice[n]
<1>1. /\ get.slice \in Seq(IDs) /\ get.asked \in Seq(IDs) /\ get.answer \in Seq(IDs)
      /\ n \in Nat \ {0} /\ n \in DOMAIN get.slice /\ get.docID = <<>>
    BY DEF NextID, GetOK, GetTyped
<1>2. x \in IDs
    BY <1>1
<1> HIDE DEF x
<1>3. get'.docID = <<x>> /\ get'.next = n + 1 /\ get'.answer = get.answer
    BY DEF NextID, GetOK, GetTyped, GetShape, x
<1>4. ScanGoesOn
    <2>1. get' = [get EXCEPT !.docID = get'.docID, !.next = get'.next, !.answer = get'.answer]
        BY DEF NextID, GetOK, GetTyped, GetShape
    <2>2. <<x>>[1] = x /\ n + 1 \in Nat \ {0} /\ <<x>> \in Seq(IDs)
        BY <1>1, <1>2
    <2> QED BY <1>1, <1>3, <2>1, <2>2 DEF NextID, ScanGoesOn
<1>5. get'.asked = get.asked
    BY DEF NextID, GetOK, GetTyped, GetShape
<1>6. ASSUME NEW id \in ToSet(get.asked), Steady(id), Counted(id) PROVE Counted(id)'
    <2>1. x = id <=> n \in DOMAIN get.asked /\ get.asked[n] = id
        <3>1. x = id => n \in DOMAIN get.asked /\ get.asked[n] = id
            BY <1>1, <1>6 DEF Steady, Agrees, x
        <3>2. n \in 1 .. n
            BY <1>1
        <3>3. n \in DOMAIN get.asked /\ get.asked[n] = id => x = id
            BY <1>6, <3>2 DEF Steady, Agrees, x
        <3> QED BY <3>1, <3>3
    <2>2. Times(get.docID, id) = 0 /\ Times(<<x>>, id) = IF x = id THEN 1 ELSE 0
        BY <1>1, <1>2, TimesOfNothing, TimesOfOne
    <2>3. /\ Before(get.asked, n, id) \in Nat
          /\ Before(get.asked, n + 1, id) = Before(get.asked, n, id) + (IF x = id THEN 1 ELSE 0)
        BY <1>1, <2>1, OneMoreBefore
    <2>4. Times(get.answer, id) \in Nat
        BY <1>1, TimesIsNat
    <2>5. Times(get.answer, id) + Times(get.docID, id) = Before(get.asked, n, id)
        BY <1>6 DEF Counted, Passed, Before
    <2>6. Times(get.answer, id) + Times(<<x>>, id) = Before(get.asked, n + 1, id)
        BY <2>2, <2>3, <2>4, <2>5
    <2> QED BY <1>3, <1>5, <2>6 DEF Counted, Passed, Before
<1> QED BY <1>4, <1>6, ScanGoesOnOK

LEMMA FetchStep ==
    ASSUME GetOK, ScanOK, Fetch
    PROVE  GetOK' /\ ScanOK'
<1> DEFINE d     == get.docID[1]
           taken == d \in FindAll /\ matchesFilters(files[d], get.plan.postFilters)
<1>1. /\ get.answer \in Seq(IDs) /\ get.docID \in Seq(IDs) /\ get.docID = <<d>>
      /\ get.phase = "scanning" /\ get.plan.scanType = "index" /\ get.next \in Nat \ {0}
    BY DEF Fetch, GetOK, GetTyped, ProgressOK
<1>2. d \in IDs
    <2>1. get.docID # <<>>
        BY DEF Fetch
    <2> QED BY <1>1, <2>1
<1>3. get' = [get EXCEPT !.docID = <<>>, !.answer = IF taken THEN Append(@, d) ELSE @]
      /\ UNCHANGED vars
    BY DEF Fetch
<1>4. \A id : Matches(id) /\ id = d => taken
    BY DEF Matches
<1> HIDE DEF d, taken
<1>5. /\ get'.docID = <<>> /\ get'.next = get.next /\ get'.asked = get.asked
      /\ get'.answer = IF taken THEN Append(get.answer, d) ELSE get.answer
    BY <1>3 DEF GetOK, GetTyped, GetShape
<1>6. ScanGoesOn
    <2>1. get' = [get EXCEPT !.docID = get'.docID, !.next = get'.next, !.answer = get'.answer]
        BY <1>3 DEF GetOK, GetTyped, GetShape
    <2>2. Append(get.answer, d) \in Seq(IDs) /\ <<>> \in Seq(IDs)
        BY <1>1, <1>2
    <2> QED BY <1>1, <1>3, <1>5, <2>1, <2>2 DEF ScanGoesOn
<1>7. ASSUME NEW id \in ToSet(get.asked), Matches(id), Counted(id) PROVE Counted(id)'
    <2>1. /\ Times(get.answer, id) \in Nat
          /\ Times(Append(get.answer, d), id) = Times(get.answer, id) + (IF d = id THEN 1 ELSE 0)
        BY <1>1, <1>2, TimesOfAppend
    <2>2. Times(get.docID, id) = (IF d = id THEN 1 ELSE 0) /\ Times(<<>>, id) = 0
        BY <1>1, <1>2, TimesOfOne, TimesOfNothing
    <2>3. Times(get'.answer, id) + Times(get'.docID, id)
          = Times(get.answer, id) + Times(get.docID, id)
        <3>1. CASE taken
            BY <1>5, <2>1, <2>2, <3>1
        <3>2. CASE ~ taken
            <4>1. d # id
                BY <1>4, <1>7, <3>2
            <4> QED BY <1>5, <2>1, <2>2, <3>2, <4>1
        <3> QED BY <3>1, <3>2
    <2> QED BY <1>5, <1>7, <2>3 DEF Counted, Passed
<1> QED BY <1>6, <1>7, ScanGoesOnOK
\* The scan has passed all there was.
LEMMA EndOfScanStep ==
    ASSUME GetOK, ScanOK, executeIndexScan
    PROVE  GetOK' /\ ScanOK'
<1> DEFINE answer == Limited(get.answer)
           n      == get.next
<1>1. /\ UNCHANGED vars /\ get.phase = "scanning" /\ get.plan.scanType = "index"
      /\ get.docID = <<>> /\ n \notin DOMAIN get.slice /\ n \in Nat \ {0}
      /\ get.slice \in Seq(IDs) /\ get.asked \in Seq(IDs) /\ get.answer \in Seq(IDs)
      /\ get.limit \in Nat
    BY DEF executeIndexScan, GetOK, GetTyped
<1>2. answer \in Seq(IDs) /\ (get.limit = 0 => answer = get.answer)
    BY <1>1 DEF Limited
<1>3. get' = [get EXCEPT !.phase = "answered", !.answer = answer,
                         !.slice = <<>>, !.shared = FALSE, !.next = 1]
    BY DEF executeIndexScan, Answered
<1> HIDE DEF answer
<1>4. /\ GetShape' /\ get'.phase = "answered" /\ get'.answer = answer /\ get'.slice = <<>>
      /\ get'.shared = FALSE /\ get'.next = 1 /\ get'.plan = get.plan
      /\ get'.limit = get.limit /\ get'.docID = <<>> /\ get'.asked = get.asked
      /\ get'.since = get.since /\ get'.dropped = get.dropped
    BY <1>1, <1>3 DEF GetOK, GetTyped, GetShape
<1>5. GetTyped'
    <2>1. get.dropped \in BOOLEAN /\ get.since \in [IDs -> Touch] /\ 1 \in Nat \ {0}
          /\ <<>> \in Seq(IDs)
        BY DEF GetOK, GetTyped
    <2> QED BY <1>1, <1>2, <1>4, <2>1, Zenon DEF GetTyped
<1>6. PlanOK' /\ OperationIsMarked'
    BY <1>1, <1>4, PlanStays
<1>7. ProgressOK'
    BY <1>1, <1>4 DEF ProgressOK
<1>8. ASSUME NEW id \in ToSet(get.asked), StandsFirm(id)', Matches(id)', get.limit = 0
      PROVE  Times(answer, id) = Times(get.asked, id)
    <2>1. StandsFirm(id) /\ Matches(id)
        BY <1>1, <1>4, <1>8 DEF StandsFirm, Matches, FindAll, vars
    <2>2. Steady(id) /\ Counted(id)
        BY <1>1, <2>1 DEF ScanOK, Watched
    <2>3. \A i \in DOMAIN get.asked : get.asked[i] = id => i < n
        <3> SUFFICES ASSUME NEW i \in DOMAIN get.asked, get.asked[i] = id PROVE i < n
            OBVIOUS
        <3>1. i \in 1 .. i
            BY <1>1
        <3>2. i \in DOMAIN get.slice
            BY <2>2, <3>1 DEF Steady, Agrees
        <3>3. DOMAIN get.slice = 1 .. Len(get.slice) /\ Len(get.slice) \in Nat
            BY <1>1
        <3> QED BY <1>1, <3>2, <3>3
    <2>4. {i \in DOMAIN get.asked : i < n /\ get.asked[i] = id}
          = {i \in DOMAIN get.asked : get.asked[i] = id}
        BY <2>3
    <2>5. Passed(id) = Times(get.asked, id)
        BY <2>4 DEF Passed, Times
    <2>6. Times(get.answer, id) \in Nat /\ Times(get.docID, id) = 0
        BY <1>1, TimesIsNat, TimesOfNothing
    <2>7. Times(get.answer, id) = Passed(id)
        BY <2>2, <2>6 DEF Counted
    <2> QED BY <1>2, <1>8, <2>5, <2>7
<1>9. ScanOK'
    BY <1>1, <1>4, <1>8 DEF ScanOK, Watched
<1> QED BY <1>5, <1>6, <1>7, <1>9 DEF GetOK

\* The caller is given the slice.
LEMMA IndexOnlyStep ==
    ASSUME GetOK, ScanOK, executeIndexOnlyScan
    PROVE  GetOK' /\ ScanOK'
<1> DEFINE slice == Limited(get.slice)
<1>1. /\ UNCHANGED vars /\ get.phase = "scanning" /\ get.plan.scanType = "index_only"
      /\ get.slice \in Seq(IDs) /\ get.limit \in Nat
    BY DEF executeIndexOnlyScan, GetOK, GetTyped
<1>2. slice \in Seq(IDs) /\ (get.limit = 0 => slice = get.slice)
    BY <1>1 DEF Limited
<1>3. get' = [get EXCEPT !.phase = "answered", !.slice = slice]
    BY DEF executeIndexOnlyScan
<1> HIDE DEF slice
<1>4. /\ GetShape' /\ get'.phase = "answered" /\ get'.answer = get.answer /\ get'.slice = slice
      /\ get'.shared = get.shared /\ get'.next = get.next /\ get'.plan = get.plan
      /\ get'.limit = get.limit /\ get'.docID = get.docID /\ get'.asked = get.asked
      /\ get'.since = get.since /\ get'.dropped = get.dropped
    BY <1>3 DEF GetOK, GetTyped, GetShape
<1>5. GetTyped'
    BY <1>2, <1>4 DEF GetOK, GetTyped
<1>6. PlanOK' /\ OperationIsMarked'
    BY <1>1, <1>4, PlanStays
<1>7. ProgressOK'
    BY <1>1, <1>4 DEF GetOK, ProgressOK
<1>8. ASSUME NEW id \in ToSet(get.asked), StandsFirm(id)', get.limit = 0
      PROVE  Steady(id)'
    <2>1. StandsFirm(id)
        BY <1>4, <1>8 DEF StandsFirm
    <2>2. Steady(id)
        BY <1>1, <2>1 DEF ScanOK, Watched
    <2> QED BY <1>1, <1>2, <1>4, <1>8, <2>2 DEF Steady, Kept, Key, vars
<1>9. ScanOK'
    BY <1>1, <1>4, <1>8 DEF ScanOK, Watched
<1> QED BY <1>5, <1>6, <1>7, <1>9 DEF GetOK

-----------------------------------------------------------------------------
(***************************************************************************)
(* All together.                                                           *)
(***************************************************************************)
LEMMA GetInvInit == QueryInit => GetInv
BY DEF QueryInit, GetInv

LEMMA StatementKeepsGet ==
    ASSUME StorageInv, GetInv, NEW s \in Statements, Execute(Parse(s))
    PROVE  GetInv'
<1> DEFINE q == Parse(s)
<1>1. CASE Get(q)
    BY <1>1, GetBegins DEF GetInv
<1> SUFFICES ASSUME get' # NoGet, ~ Get(q) PROVE GetOK' /\ ScanOK'
    BY <1>1 DEF GetInv
<1>2. get # NoGet
    BY DEF Execute, ExecuteSet, ExecuteDelete, ExecuteCreateIndex, ExecuteDropIndex, Touches
<1>3. GetOK /\ ScanOK
    BY <1>2 DEF GetInv
<1>4. CASE ExecuteSet(q)
    <2>1. /\ Value(q.key) \in IDs /\ Insert(Value(q.key), SetDocument(q))
          /\ Touches(Value(q.key), "insert")
        BY <1>4, StatementsAreTyped DEF ExecuteSet
    <2>2. op' # Idle
        BY <1>4, StatementsAreTyped, IdleAssumption
           DEF ExecuteSet, Insert, Operation, IdleAssumption
    <2>3. /\ op'.id = Value(q.key) /\ op'.type = "insert" /\ UNCHANGED <<indexes, entries>>
          /\ \E file : files' = [files EXCEPT ![Value(q.key)] = file]
        BY <2>1 DEF Insert
    <2> HIDE DEF q
    <2> QED BY <1>2, <1>3, <2>1, <2>2, <2>3, OperationBegins
<1>5. CASE ExecuteDelete(q)
    <2>1. Value(q.id) \in IDs /\ Delete(Value(q.id)) /\ Touches(Value(q.id), "delete")
        BY <1>5, StatementsAreTyped DEF ExecuteDelete
    <2>2. op' # Idle
        BY <2>1, IdleAssumption DEF Delete, Operation, IdleAssumption
    <2>3. /\ op'.id = Value(q.id) /\ op'.type = "delete" /\ UNCHANGED <<indexes, entries>>
          /\ \E file : files' = [files EXCEPT ![Value(q.id)] = file]
        BY <2>1 DEF Delete
    <2> HIDE DEF q
    <2> QED BY <1>2, <1>3, <2>1, <2>2, <2>3, OperationBegins
<1>6. CASE ExecuteCreateIndex(q)
    BY <1>3, <1>6, StatementsAreTyped, CreateStep DEF ExecuteCreateIndex
<1>7. CASE ExecuteDropIndex(q)
    BY <1>2, <1>3, <1>7, DropStep
<1> QED BY <1>4, <1>5, <1>6, <1>7 DEF Execute

LEMMA GetInvNext == StorageInv /\ GetInv /\ [QueryNext]_queryVars => GetInv'
<1> SUFFICES ASSUME StorageInv, GetInv, [QueryNext]_queryVars PROVE GetInv'
    OBVIOUS
<1>1. CASE \E s \in Statements : Execute(Parse(s))
    BY <1>1, StatementKeepsGet
<1>2. CASE executeFullScan
    BY <1>2, FullScanStep DEF executeFullScan, GetInv
<1>3. CASE QueryIndex
    BY <1>3, QueryIndexStep DEF QueryIndex, GetInv
<1>4. CASE NextID
    BY <1>4, NextIDStep DEF NextID, GetInv
<1>5. CASE Fetch
    BY <1>5, FetchStep DEF Fetch, GetInv
<1>6. CASE executeIndexScan
    BY <1>6, EndOfScanStep DEF executeIndexScan, GetInv
<1>7. CASE executeIndexOnlyScan
    BY <1>7, IndexOnlyStep DEF executeIndexOnlyScan, GetInv
<1>8. CASE Drop
    BY <1>8 DEF Drop, GetInv
<1>9. CASE StorageStep
    <2>1. CASE (WriteFile \/ WriteFileFails \/ GetIndexes \/ Return) /\ UNCHANGED get
        BY <2>1, FileSteps DEF GetInv
    <2>2. ASSUME NEW n \in Names, InsertIntoIndex(n) \/ DeleteFromIndex(n), IndexMoves(n)
          PROVE  GetInv'
        <3>1. CASE get = NoGet
            BY <2>2, <3>1 DEF IndexMoves, Holds, GetInv
        <3>2. CASE get # NoGet
            BY <2>2, <3>2, IndexStep DEF GetInv
        <3> QED BY <3>1, <3>2
    <2>3. CASE Restart /\ get' = NoGet
        BY <2>3 DEF GetInv
    <2> QED BY <1>9, <2>1, <2>2, <2>3 DEF StorageStep
<1>10. CASE UNCHANGED queryVars
    <2>1. UNCHANGED get /\ UNCHANGED vars
        BY <1>10 DEF queryVars
    <2> SUFFICES ASSUME get # NoGet PROVE GetOK' /\ ScanOK'
        BY <2>1 DEF GetInv
    <2>2. GetOK /\ ScanOK
        BY DEF GetInv
    <2>5. Meanwhile
        BY <2>1, <2>2, UnchangedIsMeanwhile DEF GetOK
    <2>3. OperationIsMarked'
        BY <2>1, <2>2 DEF GetOK, OperationIsMarked, vars
    <2>4. \A id : Steady(id) => Steady(id)'
        BY <2>1 DEF Steady, Kept, Key, vars
    <2> QED BY <2>1, <2>2, <2>3, <2>4, <2>5, MeanwhileGetOK, MeanwhileScanOK DEF vars
<1> QED BY <1>1, <1>2, <1>3, <1>4, <1>5, <1>6, <1>7, <1>8, <1>9, <1>10 DEF QueryNext

(***************************************************************************)
(* At each step of a GET (executeGet and what it calls), its plan, its     *)
(* progress and what is marked fit together, and for a document that       *)
(* stands firm the slice that is read and the documents taken from it are  *)
(* what the index had named.                                               *)
(***************************************************************************)
THEOREM GetInvariant == QuerySpec => []GetInv
BY StorageInvariant, GetInvInit, GetInvNext, PTL DEF QuerySpec

(***************************************************************************)
(* A GET by index fails only for want of the index it was planned for:     *)
(* because executeIndexScan looks it up under its name for that of the     *)
(* collection, or because it was dropped after the plan was made.          *)
(***************************************************************************)
THEOREM OnlyNamelessFail == QuerySpec => []FailuresAreNameless
<1>1. GetInv => FailuresAreNameless
    BY DEF GetInv, GetOK, ProgressOK, FailuresAreNameless
<1> QED BY <1>1, GetInvariant, PTL

(***************************************************************************)
(* Whatever other clients do in the middle of a scan, it passes over no    *)
(* document that the index named and that stands firm, and takes it as     *)
(* often as the index named it (executeIndexScan, which reads the slice of *)
(* the index while deletes move its elements).                             *)
(***************************************************************************)
THEOREM ScansAreComplete == QuerySpec => []ScanIsComplete
<1>1. GetInv => ScanIsComplete
    <2> SUFFICES ASSUME GetOK, ScanOK, get.phase = "answered", get.limit = 0,
                        NEW id \in ToSet(get.asked), StandsFirm(id)
                 PROVE  IF get.plan.scanType = "index_only"
                        THEN Times(get.slice, id) = Times(get.asked, id)
                        ELSE Matches(id) => Times(get.answer, id) = Times(get.asked, id)
        BY DEF GetInv, ScanIsComplete, Matches
    <2>1. CASE get.plan.scanType = "index_only"
        <3>1. Steady(id)
            BY <2>1 DEF ScanOK, Watched
        <3>2. \A i : i \in DOMAIN get.slice /\ get.slice[i] = id
                     <=> i \in DOMAIN get.asked /\ get.asked[i] = id
            <4>1. \A i \in DOMAIN get.asked : i \in 1 .. i
                BY DEF GetOK, GetTyped
            <4> QED BY <3>1, <4>1 DEF Steady, Agrees
        <3>3. {i \in DOMAIN get.slice : get.slice[i] = id}
              = {i \in DOMAIN get.asked : get.asked[i] = id}
            BY <3>2
        <3> QED BY <2>1, <3>3 DEF Times
    <2>2. CASE get.plan.scanType = "index"
        BY <2>2 DEF ScanOK
    <2>3. CASE get.plan.scanType = "full"
        <3>1. get.asked = <<>>
            BY <2>3 DEF GetOK, ProgressOK
        <3> QED BY <3>1 DEF ToSet
    <2> QED BY <2>1, <2>2, <2>3 DEF GetOK, PlanOK
<1> QED BY <1>1, GetInvariant, PTL

(***************************************************************************)
(* Whatever statements there are, the indexes they work on keep what the   *)
(* storage promises.                                                       *)
(***************************************************************************)
THEOREM StatementsKeepIndexes ==
    QuerySpec => [](CoveredIsFound /\ UniqueIndexNamesOne /\ NoGhostVectors)
BY StatementsImplementStorage, CoveredAreFound, UniqueKeys, DeletedAreNotSimilar, PTL
=============================================================================
