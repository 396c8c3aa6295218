--------------------------- MODULE LayerActionsProofs ---------------------------
(***************************************************************************)
(* Proofs about LayerActions: the layers form a tree, and what was done    *)
(* can be undone.                                                          *)
(***************************************************************************)
EXTENDS MCLayerActions, FiniteSetTheorems, SequenceTheorems, WellFoundedInduction, TLAPS

-----------------------------------------------------------------------------
(***************************************************************************)
(* What a document is.                                                     *)
(***************************************************************************)

\* The contents of all canvases.
Contents ==
    {x \in [Canvases -> Seq(Layers \union {Blank})] :
        Once(x) /\ \A c \in Canvases : Blank \in Range(x[c])}

Placed(x, l) == \E c \in Canvases : l \in Range(x[c])
Pos(x, c, l) == (CHOOSE i \in DOMAIN x[c] : x[c][i] = l) - 1

Ins(x, c, i, l) == [x EXCEPT ![c] = InsertAt(@, i + 1, l)]
Del(x, c, l) == [x EXCEPT ![c] = RemoveAt(@, Pos(x, c, l) + 1)]

IsDoc(d) == DOMAIN d = {"content", "canvas", "parent", "group", "db"}

Shaped(d) ==
    /\ IsDoc(d)
    /\ d.content \in Contents
    /\ d.canvas \in [Layers -> Canvases \union {NoCanvas}]
    /\ d.parent \in [Canvases -> Canvases \union {NoCanvas}]
    /\ Situated(d)

\* The layers are where they were.
SameLayout(d, e) == IsDoc(e) /\ e.content = d.content /\ e.canvas = d.canvas /\ e.parent = d.parent

\* A layer that was in a canvas once remembers one.
Grown(d, e) == \A l \in Layers : d.canvas[l] # NoCanvas => e.canvas[l] # NoCanvas

-----------------------------------------------------------------------------
(***************************************************************************)
(* Sequences.                                                              *)
(***************************************************************************)

\* InsertAt, element by element.
LEMMA InsertAtIs ==
    ASSUME NEW T, NEW s \in Seq(T), NEW k \in 1..(Len(s) + 1), NEW e \in T
    PROVE  /\ InsertAt(s, k, e) \in Seq(T)
           /\ Len(InsertAt(s, k, e)) = Len(s) + 1
           /\ InsertAt(s, k, e)[k] = e
           /\ \A j \in 1..(k - 1) : InsertAt(s, k, e)[j] = s[j]
           /\ \A j \in (k + 1)..(Len(s) + 1) : InsertAt(s, k, e)[j] = s[j - 1]
<1> DEFINE u == SubSeq(s, 1, k - 1)
           v == SubSeq(s, k, Len(s))
<1>0. Len(s) \in Nat
    BY LenProperties
<1>1. u \in Seq(T) /\ Len(u) = k - 1 /\ \A j \in 1..(k - 1) : u[j] = s[j]
    BY <1>0
<1>2. v \in Seq(T) /\ Len(v) = Len(s) - k + 1 /\ \A j \in 1..(Len(s) - k + 1) : v[j] = s[k + j - 1]
    BY <1>0
<1>3. InsertAt(s, k, e) = (u \o <<e>>) \o v
    BY DEF InsertAt
<1> HIDE DEF u, v
<1>4. <<e>> \in Seq(T) /\ Len(<<e>>) = 1 /\ <<e>>[1] = e
    OBVIOUS
<1>5. u \o <<e>> \in Seq(T) /\ Len(u \o <<e>>) = k /\ \A j \in 1..k : (u \o <<e>>)[j] = IF j < k THEN s[j] ELSE e
    BY <1>1, <1>4
<1> DEFINE w == u \o <<e>>
<1> HIDE DEF w
<1>6. w \in Seq(T) /\ Len(w) = k /\ \A j \in 1..k : w[j] = IF j < k THEN s[j] ELSE e
    BY <1>5 DEF w
<1>7. w \o v \in Seq(T) /\ Len(w \o v) = Len(s) + 1
    <2>1. w \o v \in Seq(T) /\ Len(w \o v) = Len(w) + Len(v)
        BY <1>2, <1>6, ConcatProperties
    <2>2. QED
        BY <1>0, <1>2, <1>6, <2>1
<1>8. ASSUME NEW j \in 1..(Len(s) + 1)
      PROVE  (w \o v)[j] = IF j < k THEN s[j] ELSE IF j = k THEN e ELSE s[j - 1]
    <2>1. CASE j <= k
        BY <1>0, <1>2, <1>6, <2>1
    <2>2. CASE j > k
        <3>1. (w \o v)[j] = v[j - k]
            BY <1>0, <1>2, <1>6, <2>2
        <3>2. j - k \in 1..(Len(s) - k + 1) /\ k + (j - k) - 1 = j - 1
            BY <1>0, <2>2
        <3>3. v[j - k] = s[j - 1]
            BY <1>2, <3>2
        <3>4. QED
            BY <2>2, <3>1, <3>3
    <2>3. QED
        <3>1. j <= k \/ j > k
            BY <1>0
        <3>2. QED
            BY <2>1, <2>2, <3>1, Zenon
<1>9. /\ (w \o v)[k] = e
      /\ \A j \in 1..(k - 1) : (w \o v)[j] = s[j]
      /\ \A j \in (k + 1)..(Len(s) + 1) : (w \o v)[j] = s[j - 1]
    <2> DEFINE x == w \o v
    <2>1. \A j \in 1..(Len(s) + 1) : x[j] = IF j < k THEN s[j] ELSE IF j = k THEN e ELSE s[j - 1]
        BY <1>8
    <2> HIDE DEF x
    <2>2. x[k] = e
        BY <1>0, <2>1
    <2>3. ASSUME NEW j \in 1..(k - 1) PROVE x[j] = s[j]
        BY <1>0, <2>1
    <2>4. ASSUME NEW j \in (k + 1)..(Len(s) + 1) PROVE x[j] = s[j - 1]
        BY <1>0, <2>1
    <2>5. QED
        BY <2>2, <2>3, <2>4 DEF x
<1>10. QED
    BY <1>3, <1>7, <1>9, Zenon DEF w

\* RemoveAt, element by element.
LEMMA RemoveAtIs ==
    ASSUME NEW T, NEW s \in Seq(T), NEW k \in 1..Len(s)
    PROVE  /\ RemoveAt(s, k) \in Seq(T)
           /\ Len(RemoveAt(s, k)) = Len(s) - 1
           /\ \A j \in 1..(Len(s) - 1) : RemoveAt(s, k)[j] = IF j < k THEN s[j] ELSE s[j + 1]
<1> DEFINE u == SubSeq(s, 1, k - 1)
           v == SubSeq(s, k + 1, Len(s))
<1>0. Len(s) \in Nat
    BY LenProperties
<1>1. u \in Seq(T) /\ Len(u) = k - 1 /\ \A j \in 1..(k - 1) : u[j] = s[j]
    BY <1>0
<1>2. v \in Seq(T) /\ Len(v) = Len(s) - k /\ \A j \in 1..(Len(s) - k) : v[j] = s[k + j]
    BY <1>0
<1>3. RemoveAt(s, k) = u \o v
    BY DEF RemoveAt
<1> HIDE DEF u, v
<1>4. u \o v \in Seq(T) /\ Len(u \o v) = Len(s) - 1
    <2>1. u \o v \in Seq(T) /\ Len(u \o v) = Len(u) + Len(v)
        BY <1>1, <1>2, ConcatProperties
    <2>2. QED
        BY <1>0, <1>1, <1>2, <2>1
<1>5. ASSUME NEW j \in 1..(Len(s) - 1)
      PROVE  (u \o v)[j] = IF j < k THEN s[j] ELSE s[j + 1]
    <2>1. CASE j < k
        BY <1>0, <1>1, <1>2, <2>1
    <2>2. CASE j >= k
        <3>1. (u \o v)[j] = v[j - (k - 1)]
            BY <1>0, <1>1, <1>2, <2>2
        <3>2. j - (k - 1) \in 1..(Len(s) - k) /\ k + (j - (k - 1)) = j + 1
            BY <1>0, <2>2
        <3>3. v[j - (k - 1)] = s[j + 1]
            BY <1>2, <3>2
        <3>4. QED
            BY <2>2, <3>1, <3>3
    <2>3. QED
        <3>1. j < k \/ j >= k
            BY <1>0
        <3>2. QED
            BY <2>1, <2>2, <3>1, Zenon
<1>6. QED
    BY <1>3, <1>4, <1>5, Zenon

\* What is removed can be put back.
LEMMA InsertRemoved ==
    ASSUME NEW T, NEW s \in Seq(T), NEW k \in 1..Len(s)
    PROVE  InsertAt(RemoveAt(s, k), k, s[k]) = s
<1> DEFINE r == RemoveAt(s, k)
           t == InsertAt(r, k, s[k])
<1>0. Len(s) \in Nat /\ s[k] \in T
    BY LenProperties, ElementOfSeq
<1>1. r \in Seq(T) /\ Len(r) = Len(s) - 1 /\ \A j \in 1..(Len(s) - 1) : r[j] = IF j < k THEN s[j] ELSE s[j + 1]
    BY RemoveAtIs
<1> HIDE DEF r
<1>2. k \in 1..(Len(r) + 1)
    BY <1>0, <1>1
<1>3. /\ t \in Seq(T) /\ Len(t) = Len(r) + 1
      /\ t[k] = s[k]
      /\ \A j \in 1..(k - 1) : t[j] = r[j]
      /\ \A j \in (k + 1)..(Len(r) + 1) : t[j] = r[j - 1]
    <2>1. r \in Seq(T) /\ s[k] \in T
        BY <1>0, <1>1
    <2>2. QED
        BY <1>2, <2>1, InsertAtIs
<1> HIDE DEF t
<1>4. Len(t) = Len(s)
    <2> SUFFICES Len(t) = Len(r) + 1
        BY <1>0, <1>1
    <2>1. QED
        BY <1>3
<1>5. ASSUME NEW j \in 1..Len(s)
      PROVE  t[j] = s[j]
    <2>2. CASE j < k
        <3>1. j \in 1..(Len(s) - 1) /\ j \in 1..(k - 1)
            BY <1>0, <2>2
        <3>2. QED
            BY <1>1, <1>3, <2>2, <3>1
    <2>3. CASE j = k
        BY <1>3, <2>3
    <2>4. CASE j > k
        <3>1. j - 1 \in 1..(Len(s) - 1) /\ ~(j - 1 < k) /\ j - 1 + 1 = j /\ j \in (k + 1)..(Len(r) + 1)
            BY <1>0, <1>1, <2>4
        <3>2. QED
            BY <1>1, <1>3, <3>1
    <2>5. QED
        BY <1>0, <2>2, <2>3, <2>4
<1>6. t = s
    BY <1>3, <1>4, <1>5, SeqEqual
<1>7. QED
    BY <1>6 DEF t, r

\* What is put in can be removed.
LEMMA RemoveInserted ==
    ASSUME NEW T, NEW s \in Seq(T), NEW k \in 1..(Len(s) + 1), NEW e \in T
    PROVE  RemoveAt(InsertAt(s, k, e), k) = s
<1> DEFINE r == InsertAt(s, k, e)
           t == RemoveAt(r, k)
<1>0. Len(s) \in Nat
    BY LenProperties
<1>1. /\ r \in Seq(T) /\ Len(r) = Len(s) + 1
      /\ \A j \in 1..(k - 1) : r[j] = s[j]
      /\ \A j \in (k + 1)..(Len(s) + 1) : r[j] = s[j - 1]
    BY InsertAtIs
<1> HIDE DEF r
<1>2. k \in 1..Len(r)
    BY <1>1
<1>3. /\ t \in Seq(T) /\ Len(t) = Len(r) - 1
      /\ \A j \in 1..(Len(r) - 1) : t[j] = IF j < k THEN r[j] ELSE r[j + 1]
    <2>1. r \in Seq(T)
        BY <1>1
    <2>2. QED
        BY <1>2, <2>1, RemoveAtIs
<1> HIDE DEF t
<1>4. Len(t) = Len(s)
    <2> SUFFICES Len(t) = Len(r) - 1
        BY <1>0, <1>1
    <2>1. QED
        BY <1>3
<1>5. ASSUME NEW j \in 1..Len(s)
      PROVE  t[j] = s[j]
    <2>1. t[j] = IF j < k THEN r[j] ELSE r[j + 1]
        BY <1>0, <1>1, <1>3
    <2>2. CASE j < k
        <3>1. j \in 1..(k - 1)
            BY <1>0, <2>2
        <3>2. QED
            BY <1>1, <2>1, <2>2, <3>1
    <2>3. CASE j >= k
        <3>1. j + 1 \in (k + 1)..(Len(s) + 1) /\ ~(j < k) /\ j + 1 - 1 = j
            BY <1>0, <2>3
        <3>2. QED
            BY <1>1, <2>1, <3>1
    <2>4. QED
        BY <1>0, <2>2, <2>3
<1>6. t = s
    BY <1>3, <1>4, <1>5, SeqEqual
<1>7. QED
    BY <1>6 DEF t, r

-----------------------------------------------------------------------------
(***************************************************************************)
(* Contents of canvases.                                                   *)
(***************************************************************************)

\* What is in a sequence.
LEMMA RangeIff ==
    ASSUME NEW T, NEW s \in Seq(T), NEW v
    PROVE  v \in Range(s) <=> \E i \in 1..Len(s) : s[i] = v
<1>1. DOMAIN s = 1..Len(s)
    BY LenProperties
<1>2. QED
    BY <1>1 DEF Range

\* The list of a canvas.
LEMMA ContentOf ==
    ASSUME NEW x \in Contents, NEW c \in Canvases
    PROVE  /\ x[c] \in Seq(Layers \union {Blank})
           /\ Len(x[c]) \in Nat /\ Len(x[c]) >= 1
           /\ DOMAIN x[c] = 1..Len(x[c])
           /\ \A v : v \in Range(x[c]) <=> \E i \in 1..Len(x[c]) : x[c][i] = v
<1>1. x[c] \in Seq(Layers \union {Blank}) /\ Blank \in Range(x[c])
    BY DEF Contents
<1>2. Len(x[c]) \in Nat /\ DOMAIN x[c] = 1..Len(x[c])
    BY <1>1, LenProperties
<1>3. ASSUME NEW v PROVE v \in Range(x[c]) <=> \E i \in 1..Len(x[c]) : x[c][i] = v
    BY <1>1, RangeIff
<1>4. PICK i \in 1..Len(x[c]) : x[c][i] = Blank
    BY <1>1, <1>3
<1>5. Len(x[c]) >= 1
    BY <1>2, <1>4
<1>6. QED
    BY <1>1, <1>2, <1>3, <1>5

\* Where a layer is.
LEMMA PosIs ==
    ASSUME NEW x \in Contents, NEW c \in Canvases, NEW l \in Layers, l \in Range(x[c])
    PROVE  /\ Pos(x, c, l) \in 0..(Len(x[c]) - 1)
           /\ x[c][Pos(x, c, l) + 1] = l
           /\ \A i \in 1..Len(x[c]) : x[c][i] = l => i = Pos(x, c, l) + 1
<1> DEFINE k == CHOOSE i \in DOMAIN x[c] : x[c][i] = l
<1>1. DOMAIN x[c] = 1..Len(x[c]) /\ Len(x[c]) \in Nat
    BY ContentOf
<1>2. \E i \in DOMAIN x[c] : x[c][i] = l
    BY DEF Range
<1>3. k \in 1..Len(x[c]) /\ x[c][k] = l
    BY <1>1, <1>2
<1>4. Pos(x, c, l) = k - 1
    BY DEF Pos
<1> HIDE DEF k
<1>5. ASSUME NEW i \in 1..Len(x[c]), x[c][i] = l PROVE i = k
    BY <1>1, <1>3, <1>5 DEF Contents, Once
<1>6. Pos(x, c, l) + 1 = k /\ Pos(x, c, l) \in 0..(Len(x[c]) - 1)
    BY <1>1, <1>3, <1>4
<1>7. QED
    BY <1>3, <1>5, <1>6

\* A layer is in one canvas.
LEMMA OnePlace ==
    ASSUME NEW x \in Contents, NEW b \in Canvases, NEW c \in Canvases, NEW l \in Layers, l \in Range(x[b]), l \in Range(x[c])
    PROVE  b = c
<1>1. PICK i \in DOMAIN x[b] : x[b][i] = l
    BY DEF Range
<1>2. PICK j \in DOMAIN x[c] : x[c][j] = l
    BY DEF Range
<1>3. QED
    BY <1>1, <1>2 DEF Contents, Once

\* A layer is put in a canvas.
LEMMA InsIs ==
    ASSUME NEW x \in Contents, NEW c \in Canvases, NEW i \in 0..Len(x[c]), NEW l \in Layers, ~Placed(x, l)
    PROVE  /\ Ins(x, c, i, l) \in Contents
           /\ Len(Ins(x, c, i, l)[c]) = Len(x[c]) + 1
           /\ Pos(Ins(x, c, i, l), c, l) = i
           /\ \A b \in Canvases : b # c => Ins(x, c, i, l)[b] = x[b]
           /\ \A m \in Layers, b \in Canvases :
                m \in Range(Ins(x, c, i, l)[b]) <=> m \in Range(x[b]) \/ (m = l /\ b = c)
<1> DEFINE y == Ins(x, c, i, l)
           T == Layers \union {Blank}
           k == i + 1
<1>1. x[c] \in Seq(T) /\ Len(x[c]) \in Nat
    BY ContentOf
<1>2. k \in 1..(Len(x[c]) + 1) /\ l \in T
    BY <1>1
<1>3. x \in [Canvases -> Seq(T)] /\ Once(x) /\ \A b \in Canvases : Blank \in Range(x[b])
    BY DEF Contents
<1>4. y[c] = InsertAt(x[c], k, l) /\ \A b \in Canvases : b # c => y[b] = x[b]
    BY <1>3 DEF Ins
<1>5. DOMAIN y = Canvases /\ y = [b \in Canvases |-> y[b]]
    BY <1>3 DEF Ins
<1> HIDE DEF y, T
<1>6. /\ y[c] \in Seq(T)
      /\ Len(y[c]) = Len(x[c]) + 1
      /\ y[c][k] = l
      /\ \A j \in 1..(k - 1) : y[c][j] = x[c][j]
      /\ \A j \in (k + 1)..(Len(x[c]) + 1) : y[c][j] = x[c][j - 1]
    <2> DEFINE s == x[c]
    <2> HIDE DEF k, s
    <2>1. s \in Seq(T) /\ k \in 1..(Len(s) + 1) /\ l \in T
        BY <1>1, <1>2 DEF s
    <2>2. /\ InsertAt(s, k, l) \in Seq(T)
          /\ Len(InsertAt(s, k, l)) = Len(s) + 1
          /\ InsertAt(s, k, l)[k] = l
          /\ \A j \in 1..(k - 1) : InsertAt(s, k, l)[j] = s[j]
          /\ \A j \in (k + 1)..(Len(s) + 1) : InsertAt(s, k, l)[j] = s[j - 1]
        BY <2>1, InsertAtIs
    <2>3. QED
        BY <1>4, <2>2 DEF s
<1>7. \A b \in Canvases : y[b] \in Seq(T)
    BY <1>3, <1>4, <1>6
<1>8. y \in [Canvases -> Seq(T)]
    BY <1>5, <1>7
<1> HIDE DEF k
<1>9. k \in 1..(Len(x[c]) + 1) /\ k \in Nat
    BY <1>1, <1>2
<1>10. ASSUME NEW b \in Canvases, NEW p \in 1..Len(y[b])
       PROVE  \/ b = c /\ p = k /\ y[b][p] = l
              \/ b # c /\ p \in 1..Len(x[b]) /\ y[b][p] = x[b][p]
              \/ b = c /\ p < k /\ p \in 1..Len(x[b]) /\ y[b][p] = x[b][p]
              \/ b = c /\ p > k /\ p - 1 \in 1..Len(x[b]) /\ y[b][p] = x[b][p - 1]
    <2>1. CASE b # c
        BY <1>4, <2>1
    <2>2. CASE b = c
        <3>1. p \in 1..(Len(x[c]) + 1)
            BY <1>6, <2>2
        <3>2. CASE p = k
            BY <1>6, <2>2, <3>2
        <3>3. CASE p < k
            <4>1. p \in 1..(k - 1) /\ p \in 1..Len(x[c])
                BY <1>1, <1>9, <3>1, <3>3
            <4>2. QED
                BY <1>6, <2>2, <3>3, <4>1
        <3>4. CASE p > k
            <4>1. p \in (k + 1)..(Len(x[c]) + 1) /\ p - 1 \in 1..Len(x[c])
                BY <1>1, <1>9, <3>1, <3>4
            <4>2. QED
                BY <1>6, <2>2, <3>4, <4>1
        <3>5. QED
            BY <1>9, <3>1, <3>2, <3>3, <3>4
    <2>3. QED
        BY <2>1, <2>2
<1>11. \A b \in Canvases : DOMAIN y[b] = 1..Len(y[b]) /\ DOMAIN x[b] = 1..Len(x[b]) /\ Len(x[b]) \in Nat
    <2> TAKE b \in Canvases
    <2>1. y[b] \in Seq(T)
        BY <1>7
    <2>2. QED
        BY <2>1, ContentOf, LenProperties
<1>12. \A b \in Canvases : \A q \in 1..Len(x[b]) : x[b][q] # l
    <2> TAKE b \in Canvases
    <2>1. l \notin Range(x[b])
        BY DEF Placed
    <2>2. QED
        BY <2>1, ContentOf
<1>13. Once(y)
    <2> SUFFICES ASSUME NEW a \in Canvases, NEW b \in Canvases, NEW p \in 1..Len(y[a]), NEW q \in 1..Len(y[b]),
                        y[a][p] \in Layers, y[a][p] = y[b][q]
                 PROVE  a = b /\ p = q
        BY <1>11 DEF Once
    <2>0. \A m \in 1..Len(x[a]), n \in 1..Len(x[b]) : x[a][m] \in Layers /\ x[a][m] = x[b][n] => a = b /\ m = n
        BY <1>3, <1>11 DEF Once
    <2>1. p \in Int /\ q \in Int
        OBVIOUS
    <2>2. CASE a = c /\ p = k
        <3>1. y[b][q] = l
            BY <1>10, <2>2
        <3>2. QED
            BY <1>10, <1>12, <2>2, <3>1
    <2>3. CASE ~(a = c /\ p = k) /\ (b = c /\ q = k)
        <3>1. y[a][p] = l
            BY <1>10, <2>3
        <3>2. QED
            BY <1>10, <1>12, <2>3, <3>1
    <2>4. CASE ~(a = c /\ p = k) /\ ~(b = c /\ q = k)
        <3> DEFINE m == IF a = c /\ p > k THEN p - 1 ELSE p
                   n == IF b = c /\ q > k THEN q - 1 ELSE q
        <3>1. m \in 1..Len(x[a]) /\ y[a][p] = x[a][m]
            BY <1>9, <1>10, <2>1, <2>4
        <3>2. n \in 1..Len(x[b]) /\ y[b][q] = x[b][n]
            BY <1>9, <1>10, <2>1, <2>4
        <3>3. a = b /\ m = n
            <4> HIDE DEF m, n
            <4>1. QED
                BY <2>0, <3>1, <3>2
        <3>4. QED
            BY <1>9, <2>1, <2>4, <3>3
    <2>5. QED
        BY <2>2, <2>3, <2>4
<1>14. ASSUME NEW m \in T, NEW b \in Canvases
       PROVE  m \in Range(y[b]) <=> m \in Range(x[b]) \/ (m = l /\ b = c)
    <2>0. (m \in Range(y[b]) <=> \E p \in 1..Len(y[b]) : y[b][p] = m) /\ (m \in Range(x[b]) <=> \E p \in 1..Len(x[b]) : x[b][p] = m)
        <3>1. y[b] \in Seq(T)
            BY <1>7
        <3>2. QED
            BY <3>1, RangeIff, ContentOf
    <2>1. ASSUME m \in Range(y[b]) PROVE m \in Range(x[b]) \/ (m = l /\ b = c)
        <3>1. PICK p \in 1..Len(y[b]) : y[b][p] = m
            BY <2>0, <2>1
        <3>2. QED
            BY <1>10, <2>0, <3>1
    <2>2. ASSUME m \in Range(x[b]) PROVE m \in Range(y[b])
        <3>1. PICK p \in 1..Len(x[b]) : x[b][p] = m
            BY <2>0, <2>2
        <3>2. CASE b # c
            BY <1>4, <2>2, <3>2
        <3>3. CASE b = c /\ p < k
            <4>1. p \in 1..(k - 1) /\ p \in 1..Len(y[c])
                BY <1>1, <1>6, <1>9, <3>3
            <4>2. QED
                BY <1>6, <2>0, <3>1, <3>3, <4>1
        <3>4. CASE b = c /\ p >= k
            <4>1. p + 1 \in (k + 1)..(Len(x[c]) + 1) /\ p + 1 \in 1..Len(y[c]) /\ p + 1 - 1 = p
                BY <1>1, <1>6, <1>9, <3>4
            <4>2. QED
                BY <1>6, <2>0, <3>1, <3>4, <4>1
        <3>5. QED
            BY <1>9, <3>2, <3>3, <3>4
    <2>3. ASSUME m = l, b = c PROVE m \in Range(y[b])
        <3>1. k \in 1..Len(y[c])
            BY <1>6, <1>9
        <3>2. QED
            BY <1>6, <2>0, <2>3, <3>1
    <2>4. QED
        BY <2>1, <2>2, <2>3
<1>15. y \in Contents
    <2>1. ASSUME NEW b \in Canvases PROVE Blank \in Range(y[b])
        BY <1>3, <1>14 DEF T
    <2>2. QED
        BY <1>8, <1>13, <2>1 DEF Contents, T
<1>16. Pos(y, c, l) = i
    <2>1. l \in Range(y[c])
        BY <1>2, <1>14
    <2>2. Pos(y, c, l) \in Int /\ \A j \in 1..Len(y[c]) : y[c][j] = l => j = Pos(y, c, l) + 1
        BY <1>15, <2>1, PosIs
    <2>3. k \in 1..Len(y[c])
        BY <1>6, <1>9
    <2>4. k = Pos(y, c, l) + 1
        BY <1>6, <2>2, <2>3
    <2>5. QED
        BY <2>2, <2>4 DEF k
<1>17. QED
    BY <1>4, <1>6, <1>14, <1>15, <1>16 DEF y, T

\* A layer is taken out of a canvas.
LEMMA DelIs ==
    ASSUME NEW x \in Contents, NEW c \in Canvases, NEW l \in Layers, l \in Range(x[c])
    PROVE  /\ Del(x, c, l) \in Contents
           /\ Len(Del(x, c, l)[c]) = Len(x[c]) - 1
           /\ ~Placed(Del(x, c, l), l)
           /\ \A b \in Canvases : b # c => Del(x, c, l)[b] = x[b]
           /\ \A m \in Layers, b \in Canvases : m # l => (m \in Range(Del(x, c, l)[b]) <=> m \in Range(x[b]))
<1> DEFINE y == Del(x, c, l)
           T == Layers \union {Blank}
           k == Pos(x, c, l) + 1
<1>1. x[c] \in Seq(T) /\ Len(x[c]) \in Nat
    BY ContentOf
<1>2. k \in 1..Len(x[c]) /\ x[c][k] = l /\ \A j \in 1..Len(x[c]) : x[c][j] = l => j = k
    BY <1>1, PosIs
<1>3. x \in [Canvases -> Seq(T)] /\ Once(x) /\ \A b \in Canvases : Blank \in Range(x[b])
    BY DEF Contents
<1>4. y[c] = RemoveAt(x[c], k) /\ \A b \in Canvases : b # c => y[b] = x[b]
    BY <1>3 DEF Del
<1>5. DOMAIN y = Canvases /\ y = [b \in Canvases |-> y[b]]
    BY <1>3 DEF Del
<1> HIDE DEF y, T, k
<1>6. /\ y[c] \in Seq(T)
      /\ Len(y[c]) = Len(x[c]) - 1
      /\ \A j \in 1..(Len(x[c]) - 1) : y[c][j] = IF j < k THEN x[c][j] ELSE x[c][j + 1]
    <2>1. x[c] \in Seq(T)
        BY <1>1
    <2>2. QED
        BY <1>2, <1>4, <2>1, RemoveAtIs
<1>7. \A b \in Canvases : y[b] \in Seq(T)
    BY <1>3, <1>4, <1>6
<1>8. y \in [Canvases -> Seq(T)]
    BY <1>5, <1>7
<1>9. ASSUME NEW b \in Canvases, NEW p \in 1..Len(y[b])
      PROVE  \/ b # c /\ p \in 1..Len(x[b]) /\ y[b][p] = x[b][p]
             \/ b = c /\ p < k /\ p \in 1..Len(x[b]) /\ y[b][p] = x[b][p]
             \/ b = c /\ p >= k /\ p + 1 \in 1..Len(x[b]) /\ y[b][p] = x[b][p + 1]
    <2>1. CASE b # c
        BY <1>4, <2>1
    <2>2. CASE b = c
        <3>1. p \in 1..(Len(x[c]) - 1)
            BY <1>6, <2>2
        <3>2. CASE p < k
            BY <1>1, <1>6, <2>2, <3>1, <3>2
        <3>3. CASE p >= k
            <4>1. p + 1 \in 1..Len(x[c]) /\ ~(p < k)
                BY <1>1, <1>2, <3>1, <3>3
            <4>2. QED
                BY <1>6, <2>2, <3>1, <3>3, <4>1
        <3>4. QED
            BY <1>2, <3>1, <3>2, <3>3
    <2>3. QED
        BY <2>1, <2>2
<1>10. \A b \in Canvases : DOMAIN y[b] = 1..Len(y[b]) /\ DOMAIN x[b] = 1..Len(x[b]) /\ Len(x[b]) \in Nat
    <2> TAKE b \in Canvases
    <2>1. y[b] \in Seq(T)
        BY <1>7
    <2>2. QED
        BY <2>1, ContentOf, LenProperties
<1>11. Once(y)
    <2> SUFFICES ASSUME NEW a \in Canvases, NEW b \in Canvases, NEW p \in 1..Len(y[a]), NEW q \in 1..Len(y[b]),
                        y[a][p] \in Layers, y[a][p] = y[b][q]
                 PROVE  a = b /\ p = q
        <3>1. \A b \in Canvases : DOMAIN y[b] = 1..Len(y[b])
            BY <1>10
        <3>2. QED
            BY <3>1 DEF Once
    <2>0. \A m \in 1..Len(x[a]), n \in 1..Len(x[b]) : x[a][m] \in Layers /\ x[a][m] = x[b][n] => a = b /\ m = n
        BY <1>3, <1>10 DEF Once
    <2>1. p \in Int /\ q \in Int
        OBVIOUS
    <2> DEFINE m == IF a = c /\ p >= k THEN p + 1 ELSE p
               n == IF b = c /\ q >= k THEN q + 1 ELSE q
    <2>2. m \in 1..Len(x[a]) /\ y[a][p] = x[a][m]
        BY <1>2, <1>9, <2>1
    <2>3. n \in 1..Len(x[b]) /\ y[b][q] = x[b][n]
        BY <1>2, <1>9, <2>1
    <2>4. a = b /\ m = n
        <3> HIDE DEF m, n
        <3>1. QED
            BY <2>0, <2>2, <2>3
    <2>5. QED
        BY <1>2, <2>1, <2>4
<1>12. ASSUME NEW v, NEW b \in Canvases
       PROVE  /\ v \in Range(y[b]) <=> \E p \in 1..Len(y[b]) : y[b][p] = v
              /\ v \in Range(x[b]) <=> \E p \in 1..Len(x[b]) : x[b][p] = v
    <2>1. y[b] \in Seq(T)
        BY <1>7
    <2>2. QED
        BY <2>1, RangeIff, ContentOf
<1>13. ASSUME NEW m \in T, NEW b \in Canvases, m # l
       PROVE  m \in Range(y[b]) <=> m \in Range(x[b])
    <2>1. ASSUME m \in Range(y[b]) PROVE m \in Range(x[b])
        <3>1. PICK p \in 1..Len(y[b]) : y[b][p] = m
            BY <1>12, <2>1
        <3>2. \E q \in 1..Len(x[b]) : x[b][q] = m
            BY <1>9, <3>1
        <3>3. QED
            BY <1>12, <3>2
    <2>2. ASSUME m \in Range(x[b]) PROVE m \in Range(y[b])
        <3>1. PICK p \in 1..Len(x[b]) : x[b][p] = m
            BY <1>12, <2>2
        <3>2. CASE b # c
            BY <1>4, <2>2, <3>2
        <3>3. CASE b = c
            <4>1. p # k
                BY <1>2, <1>13, <3>1, <3>3
            <4>2. CASE p < k
                <5>1. p \in 1..(Len(x[c]) - 1)
                    BY <1>1, <1>2, <3>3, <4>2
                <5>2. y[c][p] = x[c][p]
                    BY <1>6, <4>2, <5>1
                <5>3. p \in 1..Len(y[c])
                    BY <1>6, <5>1
                <5>4. QED
                    BY <1>12, <3>1, <3>3, <5>2, <5>3
            <4>3. CASE p > k
                <5>1. p - 1 \in 1..(Len(x[c]) - 1) /\ ~(p - 1 < k) /\ p - 1 + 1 = p
                    BY <1>1, <1>2, <3>3, <4>3
                <5>2. y[c][p - 1] = x[c][p]
                    BY <1>6, <5>1
                <5>3. p - 1 \in 1..Len(y[c])
                    BY <1>6, <5>1
                <5>4. QED
                    BY <1>12, <3>1, <3>3, <5>2, <5>3
            <4>4. QED
                BY <1>2, <4>1, <4>2, <4>3
        <3>4. QED
            BY <3>2, <3>3
    <2>3. QED
        BY <2>1, <2>2
<1>14. ~Placed(y, l)
    <2> SUFFICES ASSUME NEW b \in Canvases, l \in Range(y[b]) PROVE FALSE
        BY DEF Placed
    <2>1. PICK p \in 1..Len(y[b]) : y[b][p] = l
        BY <1>12
    <2>2. \E q \in 1..Len(x[b]) : x[b][q] = l /\ (b = c => q # k)
        <3>1. p \in Int /\ k \in Int
            BY <1>2
        <3>2. CASE b = c /\ p >= k
            <4>1. p + 1 \in 1..Len(x[b]) /\ x[b][p + 1] = l /\ p + 1 # k
                BY <1>9, <2>1, <3>1, <3>2
            <4>2. QED
                BY <4>1
        <3>3. CASE ~(b = c /\ p >= k)
            <4>1. p \in 1..Len(x[b]) /\ x[b][p] = l /\ (b = c => p # k)
                BY <1>9, <2>1, <3>1, <3>3
            <4>2. QED
                BY <4>1
        <3>4. QED
            BY <3>2, <3>3
    <2>3. l \in Range(x[b])
        BY <1>12, <2>2
    <2>4. b = c
        BY <2>3, OnePlace
    <2>5. QED
        BY <1>2, <2>2, <2>4
<1>15. y \in Contents
    <2>0. Blank # l /\ Blank \in T
        BY LayersAssumption DEF T
    <2>1. ASSUME NEW b \in Canvases PROVE Blank \in Range(y[b])
        BY <1>3, <1>13, <2>0
    <2>2. QED
        BY <1>8, <1>11, <2>1 DEF Contents, T
<1>16. QED
    BY <1>4, <1>6, <1>13, <1>14, <1>15 DEF y, T

\* A layer that was put in comes out again.
LEMMA DelIns ==
    ASSUME NEW x \in Contents, NEW c \in Canvases, NEW i \in 0..Len(x[c]), NEW l \in Layers, ~Placed(x, l)
    PROVE  Del(Ins(x, c, i, l), c, l) = x
<1> DEFINE y == Ins(x, c, i, l)
<1>1. Pos(y, c, l) = i /\ x[c] \in Seq(Layers \union {Blank}) /\ Len(x[c]) \in Nat
    BY InsIs, ContentOf
<1>2. i + 1 \in 1..(Len(x[c]) + 1) /\ l \in Layers \union {Blank}
    BY <1>1
<1>3. RemoveAt(InsertAt(x[c], i + 1, l), i + 1) = x[c]
    BY <1>1, <1>2, RemoveInserted
<1>4. x = [b \in Canvases |-> x[b]]
    BY DEF Contents
<1>5. y = [b \in Canvases |-> IF b = c THEN InsertAt(x[c], i + 1, l) ELSE x[b]]
    BY <1>4 DEF Ins
<1> HIDE DEF y
<1>6. Del(y, c, l) = [b \in Canvases |-> IF b = c THEN RemoveAt(y[c], i + 1) ELSE y[b]]
    BY <1>1, <1>5 DEF Del
<1>7. Del(y, c, l) = x
    BY <1>3, <1>4, <1>5, <1>6
<1>8. QED
    BY <1>7 DEF y

\* A layer that was taken out goes in again.
LEMMA InsDel ==
    ASSUME NEW x \in Contents, NEW c \in Canvases, NEW l \in Layers, l \in Range(x[c])
    PROVE  Ins(Del(x, c, l), c, Pos(x, c, l), l) = x
<1> DEFINE y == Del(x, c, l)
           k == Pos(x, c, l) + 1
<1>1. x[c] \in Seq(Layers \union {Blank}) /\ Len(x[c]) \in Nat
    BY ContentOf
<1>2. k \in 1..Len(x[c]) /\ x[c][k] = l
    BY <1>1, PosIs
<1>3. InsertAt(RemoveAt(x[c], k), k, x[c][k]) = x[c]
    BY <1>1, <1>2, InsertRemoved
<1>4. x = [b \in Canvases |-> x[b]]
    BY DEF Contents
<1>5. y = [b \in Canvases |-> IF b = c THEN RemoveAt(x[c], k) ELSE x[b]]
    BY <1>4 DEF Del
<1> HIDE DEF y
<1>6. Ins(y, c, Pos(x, c, l), l) = [b \in Canvases |-> IF b = c THEN InsertAt(y[c], k, l) ELSE y[b]]
    BY <1>5 DEF Ins
<1> HIDE DEF k
<1>7. Ins(y, c, Pos(x, c, l), l) = x
    BY <1>2, <1>3, <1>4, <1>5, <1>6
<1>8. QED
    BY <1>7 DEF y

-----------------------------------------------------------------------------
(***************************************************************************)
(* Functions defined by recursion.                                         *)
(***************************************************************************)

\* The least of a set of numbers.
LEMMA LeastExists ==
    ASSUME NEW S \in SUBSET Nat, S # {}
    PROVE  \E i \in S : \A j \in S : i <= j
<1>1. PICK i \in S : \A j \in S : ~(<<j, i>> \in OpToRel(<, Nat))
    BY NatLessThanWellFounded, WFMin
<1>2. \A j \in S : ~(j < i)
    BY <1>1, Zenon DEF OpToRel
<1>3. \A j \in S : i <= j
    BY <1>2
<1>4. QED
    BY <1>3

\* Layers join sets, one after another.
JoinStep(d, layers, names, i, v) == LET e == v IN JoinGroup(e, layers[i], names[i])
JoinRun(d, layers, names, n, f) == f = [i \in 0..n |-> IF i = 0 THEN d ELSE JoinStep(d, layers, names, i, f[i - 1])]

\* It exists.
LEMMA JoinExists ==
    ASSUME NEW d, NEW layers, NEW names, NEW n \in Nat
    PROVE  \E f : JoinRun(d, layers, names, n, f)
<1> DEFINE S == {k \in Nat : ~\E f : JoinRun(d, layers, names, k, f)}
<1> SUFFICES ASSUME n \in S PROVE FALSE
    OBVIOUS
<1>1. PICK k \in S : \A j \in S : k <= j
    BY LeastExists
<1>2. k # 0
    <2> DEFINE f == [i \in 0..0 |-> d]
    <2>1. f = [i \in 0..0 |-> IF i = 0 THEN d ELSE JoinStep(d, layers, names, i, f[i - 1])]
        OBVIOUS
    <2>2. JoinRun(d, layers, names, 0, f)
        BY <2>1 DEF JoinRun
    <2>3. QED
        BY <2>2
<1>3. k - 1 \in Nat /\ ~(k <= k - 1)
    BY <1>2
<1>4. PICK f : JoinRun(d, layers, names, k - 1, f)
    BY <1>1, <1>3
<1> DEFINE g == [i \in 0..k |-> IF i = k THEN JoinStep(d, layers, names, k, f[k - 1]) ELSE f[i]]
<1>5. ASSUME NEW i \in 0..k
      PROVE  g[i] = IF i = 0 THEN d ELSE JoinStep(d, layers, names, i, g[i - 1])
    <2>1. CASE i = 0
        <3>1. 0 \in 0..(k - 1) /\ 0 # k
            BY <1>2, <1>3
        <3>2. g[0] = f[0]
            BY <3>1
        <3>3. f[0] = d
            BY <1>4, <3>1, Zenon DEF JoinRun
        <3> HIDE DEF g
        <3>4. QED
            BY <2>1, <3>2, <3>3
    <2>2. CASE i # 0
        <3>1. i - 1 \in 0..(k - 1) /\ i - 1 # k /\ i - 1 \in 0..k
            BY <2>2
        <3>2. g[i - 1] = f[i - 1]
            BY <3>1
        <3>3. ASSUME i # k PROVE f[i] = JoinStep(d, layers, names, i, f[i - 1])
            <4>1. i \in 0..(k - 1)
                BY <3>3
            <4>2. QED
                BY <1>4, <2>2, <4>1, Zenon DEF JoinRun
        <3>4. g[i] = JoinStep(d, layers, names, i, f[i - 1])
            <4>1. CASE i = k
                BY <4>1
            <4>2. CASE i # k
                BY <3>3, <4>2
            <4>3. QED
                BY <4>1, <4>2
        <3> HIDE DEF g
        <3>5. QED
            BY <2>2, <3>2, <3>4
    <2>3. QED
        BY <2>1, <2>2
<1>6. g = [i \in 0..k |-> g[i]]
    OBVIOUS
<1> HIDE DEF g
<1>7. JoinRun(d, layers, names, k, g)
    BY <1>5, <1>6 DEF JoinRun
<1>8. QED
    BY <1>7

\* It is what is meant.
LEMMA JoinIs ==
    ASSUME NEW d, NEW layers, NEW names, Len(layers) \in Nat
    PROVE  \E f : JoinRun(d, layers, names, Len(layers), f) /\ JoinAll(d, layers, names) = f[Len(layers)]
<1> DEFINE to == CHOOSE f : f = [i \in 0..Len(layers) |-> IF i = 0 THEN d ELSE LET e == f[i - 1] IN JoinGroup(e, layers[i], names[i])]
<1>1. \E f : f = [i \in 0..Len(layers) |-> IF i = 0 THEN d ELSE LET e == f[i - 1] IN JoinGroup(e, layers[i], names[i])]
    <2> HIDE DEF to
    <2>1. PICK f : JoinRun(d, layers, names, Len(layers), f)
        BY JoinExists
    <2>2. f = [i \in 0..Len(layers) |-> IF i = 0 THEN d ELSE LET e == f[i - 1] IN JoinGroup(e, layers[i], names[i])]
        BY <2>1 DEF JoinRun, JoinStep
    <2>3. QED
        BY <2>2, Zenon
<1>2. to = [i \in 0..Len(layers) |-> IF i = 0 THEN d ELSE LET e == to[i - 1] IN JoinGroup(e, layers[i], names[i])]
    BY <1>1, Zenon
<1>3. JoinAll(d, layers, names) = to[Len(layers)]
    BY Zenon DEF JoinAll
<1> HIDE DEF to
<1>4. JoinRun(d, layers, names, Len(layers), to)
    BY <1>2 DEF JoinRun, JoinStep
<1>5. QED
    BY <1>3, <1>4

\* Layers leave sets, one after another.
LeaveStep(d, layers, names, i, v) == LET e == v IN IF e.group[layers[i]] = names[i] THEN LeaveGroup(e, layers[i]) ELSE e
LeaveRun(d, layers, names, n, f) == f = [i \in 0..n |-> IF i = 0 THEN d ELSE LeaveStep(d, layers, names, i, f[i - 1])]

\* It exists.
LEMMA LeaveExists ==
    ASSUME NEW d, NEW layers, NEW names, NEW n \in Nat
    PROVE  \E f : LeaveRun(d, layers, names, n, f)
<1> DEFINE S == {k \in Nat : ~\E f : LeaveRun(d, layers, names, k, f)}
<1> SUFFICES ASSUME n \in S PROVE FALSE
    OBVIOUS
<1>1. PICK k \in S : \A j \in S : k <= j
    BY LeastExists
<1>2. k # 0
    <2> DEFINE f == [i \in 0..0 |-> d]
    <2>1. f = [i \in 0..0 |-> IF i = 0 THEN d ELSE LeaveStep(d, layers, names, i, f[i - 1])]
        OBVIOUS
    <2>2. LeaveRun(d, layers, names, 0, f)
        BY <2>1 DEF LeaveRun
    <2>3. QED
        BY <2>2
<1>3. k - 1 \in Nat /\ ~(k <= k - 1)
    BY <1>2
<1>4. PICK f : LeaveRun(d, layers, names, k - 1, f)
    BY <1>1, <1>3
<1> DEFINE g == [i \in 0..k |-> IF i = k THEN LeaveStep(d, layers, names, k, f[k - 1]) ELSE f[i]]
<1>5. ASSUME NEW i \in 0..k
      PROVE  g[i] = IF i = 0 THEN d ELSE LeaveStep(d, layers, names, i, g[i - 1])
    <2>1. CASE i = 0
        <3>1. 0 \in 0..(k - 1) /\ 0 # k
            BY <1>2, <1>3
        <3>2. g[0] = f[0]
            BY <3>1
        <3>3. f[0] = d
            BY <1>4, <3>1, Zenon DEF LeaveRun
        <3> HIDE DEF g
        <3>4. QED
            BY <2>1, <3>2, <3>3
    <2>2. CASE i # 0
        <3>1. i - 1 \in 0..(k - 1) /\ i - 1 # k /\ i - 1 \in 0..k
            BY <2>2
        <3>2. g[i - 1] = f[i - 1]
            BY <3>1
        <3>3. ASSUME i # k PROVE f[i] = LeaveStep(d, layers, names, i, f[i - 1])
            <4>1. i \in 0..(k - 1)
                BY <3>3
            <4>2. QED
                BY <1>4, <2>2, <4>1, Zenon DEF LeaveRun
        <3>4. g[i] = LeaveStep(d, layers, names, i, f[i - 1])
            <4>1. CASE i = k
                BY <4>1
            <4>2. CASE i # k
                BY <3>3, <4>2
            <4>3. QED
                BY <4>1, <4>2
        <3> HIDE DEF g
        <3>5. QED
            BY <2>2, <3>2, <3>4
    <2>3. QED
        BY <2>1, <2>2
<1>6. g = [i \in 0..k |-> g[i]]
    OBVIOUS
<1> HIDE DEF g
<1>7. LeaveRun(d, layers, names, k, g)
    BY <1>5, <1>6 DEF LeaveRun
<1>8. QED
    BY <1>7

\* It is what is meant.
LEMMA LeaveIs ==
    ASSUME NEW d, NEW layers, NEW names, Len(layers) \in Nat
    PROVE  \E f : LeaveRun(d, layers, names, Len(layers), f) /\ LeaveAll(d, layers, names) = f[Len(layers)]
<1> DEFINE to == CHOOSE f : f = [i \in 0..Len(layers) |-> IF i = 0 THEN d ELSE LET e == f[i - 1] IN IF e.group[layers[i]] = names[i] THEN LeaveGroup(e, layers[i]) ELSE e]
<1>1. \E f : f = [i \in 0..Len(layers) |-> IF i = 0 THEN d ELSE LET e == f[i - 1] IN IF e.group[layers[i]] = names[i] THEN LeaveGroup(e, layers[i]) ELSE e]
    <2> HIDE DEF to
    <2>1. PICK f : LeaveRun(d, layers, names, Len(layers), f)
        BY LeaveExists
    <2>2. f = [i \in 0..Len(layers) |-> IF i = 0 THEN d ELSE LET e == f[i - 1] IN IF e.group[layers[i]] = names[i] THEN LeaveGroup(e, layers[i]) ELSE e]
        BY <2>1 DEF LeaveRun, LeaveStep
    <2>3. QED
        BY <2>2, Zenon
<1>2. to = [i \in 0..Len(layers) |-> IF i = 0 THEN d ELSE LET e == to[i - 1] IN IF e.group[layers[i]] = names[i] THEN LeaveGroup(e, layers[i]) ELSE e]
    BY <1>1, Zenon
<1>3. LeaveAll(d, layers, names) = to[Len(layers)]
    BY Zenon DEF LeaveAll
<1> HIDE DEF to
<1>4. LeaveRun(d, layers, names, Len(layers), to)
    BY <1>2 DEF LeaveRun, LeaveStep
<1>5. QED
    BY <1>3, <1>4

\* What is seen, one level after another.
OpenStep(d, i, v) == LET above == v IN above \union {Sub[l] : l \in {m \in GroupLayers : \E c \in above : Found(d, c, m)}}
OpenRun(d, n, f) == f = [i \in 0..n |-> IF i = 0 THEN {Root} ELSE OpenStep(d, i, f[i - 1])]

\* It exists.
LEMMA OpenExists ==
    ASSUME NEW d, NEW n \in Nat
    PROVE  \E f : OpenRun(d, n, f)
<1> DEFINE S == {k \in Nat : ~\E f : OpenRun(d, k, f)}
<1> SUFFICES ASSUME n \in S PROVE FALSE
    OBVIOUS
<1>1. PICK k \in S : \A j \in S : k <= j
    BY LeastExists
<1>2. k # 0
    <2> DEFINE f == [i \in 0..0 |-> {Root}]
    <2>1. f = [i \in 0..0 |-> IF i = 0 THEN {Root} ELSE OpenStep(d, i, f[i - 1])]
        OBVIOUS
    <2>2. OpenRun(d, 0, f)
        BY <2>1 DEF OpenRun
    <2>3. QED
        BY <2>2
<1>3. k - 1 \in Nat /\ ~(k <= k - 1)
    BY <1>2
<1>4. PICK f : OpenRun(d, k - 1, f)
    BY <1>1, <1>3
<1> DEFINE g == [i \in 0..k |-> IF i = k THEN OpenStep(d, k, f[k - 1]) ELSE f[i]]
<1>5. ASSUME NEW i \in 0..k
      PROVE  g[i] = IF i = 0 THEN {Root} ELSE OpenStep(d, i, g[i - 1])
    <2>1. CASE i = 0
        <3>1. 0 \in 0..(k - 1) /\ 0 # k
            BY <1>2, <1>3
        <3>2. g[0] = f[0]
            BY <3>1
        <3>3. f[0] = {Root}
            BY <1>4, <3>1, Zenon DEF OpenRun
        <3> HIDE DEF g
        <3>4. QED
            BY <2>1, <3>2, <3>3
    <2>2. CASE i # 0
        <3>1. i - 1 \in 0..(k - 1) /\ i - 1 # k /\ i - 1 \in 0..k
            BY <2>2
        <3>2. g[i - 1] = f[i - 1]
            BY <3>1
        <3>3. ASSUME i # k PROVE f[i] = OpenStep(d, i, f[i - 1])
            <4>1. i \in 0..(k - 1)
                BY <3>3
            <4>2. QED
                BY <1>4, <2>2, <4>1, Zenon DEF OpenRun
        <3>4. g[i] = OpenStep(d, i, f[i - 1])
            <4>1. CASE i = k
                BY <4>1
            <4>2. CASE i # k
                BY <3>3, <4>2
            <4>3. QED
                BY <4>1, <4>2
        <3> HIDE DEF g
        <3>5. QED
            BY <2>2, <3>2, <3>4
    <2>3. QED
        BY <2>1, <2>2
<1>6. g = [i \in 0..k |-> g[i]]
    OBVIOUS
<1> HIDE DEF g
<1>7. OpenRun(d, k, g)
    BY <1>5, <1>6 DEF OpenRun
<1>8. QED
    BY <1>7

\* It is what is meant.
LEMMA OpenIs ==
    ASSUME NEW d, Cardinality(GroupLayers) \in Nat
    PROVE  \E f : OpenRun(d, Cardinality(GroupLayers), f) /\ Open(d) = f[Cardinality(GroupLayers)]
<1> DEFINE to == CHOOSE f : f = [i \in 0..Cardinality(GroupLayers) |-> IF i = 0 THEN {Root} ELSE LET above == f[i - 1] IN above \union {Sub[l] : l \in {m \in GroupLayers : \E c \in above : Found(d, c, m)}}]
<1>1. \E f : f = [i \in 0..Cardinality(GroupLayers) |-> IF i = 0 THEN {Root} ELSE LET above == f[i - 1] IN above \union {Sub[l] : l \in {m \in GroupLayers : \E c \in above : Found(d, c, m)}}]
    <2> HIDE DEF to
    <2>1. PICK f : OpenRun(d, Cardinality(GroupLayers), f)
        BY OpenExists
    <2>2. f = [i \in 0..Cardinality(GroupLayers) |-> IF i = 0 THEN {Root} ELSE LET above == f[i - 1] IN above \union {Sub[l] : l \in {m \in GroupLayers : \E c \in above : Found(d, c, m)}}]
        BY <2>1 DEF OpenRun, OpenStep
    <2>3. QED
        BY <2>2, Zenon
<1>2. to = [i \in 0..Cardinality(GroupLayers) |-> IF i = 0 THEN {Root} ELSE LET above == to[i - 1] IN above \union {Sub[l] : l \in {m \in GroupLayers : \E c \in above : Found(d, c, m)}}]
    BY <1>1, Zenon
<1>3. Open(d) = to[Cardinality(GroupLayers)]
    BY Zenon DEF Open
<1> HIDE DEF to
<1>4. OpenRun(d, Cardinality(GroupLayers), to)
    BY <1>2 DEF OpenRun, OpenStep
<1>5. QED
    BY <1>3, <1>4

\* Layers are removed, one after another.
TakeStep(a, d, i, v) == LET r == v
                     l == a.layers[i]
                     sub == r.doc.canvas[l]
                 IN  IF ~r.ok THEN r
                     ELSE IF ~Found(r.doc, sub, l) \/ (sub # r.act.canvas /\ sub = Root) THEN Throw(r.doc, r.act)
                     ELSE OK(Erase(r.doc, sub, l),
                             [r.act EXCEPT !.canvas = sub, !.depth[i] = Index(r.doc, sub, l)])
TakeRun(a, d, n, f) == f = [i \in 0..n |-> IF i = 0 THEN OK(d, a) ELSE TakeStep(a, d, i, f[i - 1])]

\* It exists.
LEMMA TakeExists ==
    ASSUME NEW a, NEW d, NEW n \in Nat
    PROVE  \E f : TakeRun(a, d, n, f)
<1> DEFINE S == {k \in Nat : ~\E f : TakeRun(a, d, k, f)}
<1> SUFFICES ASSUME n \in S PROVE FALSE
    OBVIOUS
<1>1. PICK k \in S : \A j \in S : k <= j
    BY LeastExists
<1>2. k # 0
    <2> DEFINE f == [i \in 0..0 |-> OK(d, a)]
    <2>1. f = [i \in 0..0 |-> IF i = 0 THEN OK(d, a) ELSE TakeStep(a, d, i, f[i - 1])]
        OBVIOUS
    <2>2. TakeRun(a, d, 0, f)
        BY <2>1 DEF TakeRun
    <2>3. QED
        BY <2>2
<1>3. k - 1 \in Nat /\ ~(k <= k - 1)
    BY <1>2
<1>4. PICK f : TakeRun(a, d, k - 1, f)
    BY <1>1, <1>3
<1> DEFINE g == [i \in 0..k |-> IF i = k THEN TakeStep(a, d, k, f[k - 1]) ELSE f[i]]
<1>5. ASSUME NEW i \in 0..k
      PROVE  g[i] = IF i = 0 THEN OK(d, a) ELSE TakeStep(a, d, i, g[i - 1])
    <2>1. CASE i = 0
        <3>1. 0 \in 0..(k - 1) /\ 0 # k
            BY <1>2, <1>3
        <3>2. g[0] = f[0]
            BY <3>1
        <3>3. f[0] = OK(d, a)
            BY <1>4, <3>1, Zenon DEF TakeRun
        <3> HIDE DEF g
        <3>4. QED
            BY <2>1, <3>2, <3>3
    <2>2. CASE i # 0
        <3>1. i - 1 \in 0..(k - 1) /\ i - 1 # k /\ i - 1 \in 0..k
            BY <2>2
        <3>2. g[i - 1] = f[i - 1]
            BY <3>1
        <3>3. ASSUME i # k PROVE f[i] = TakeStep(a, d, i, f[i - 1])
            <4>1. i \in 0..(k - 1)
                BY <3>3
            <4>2. QED
                BY <1>4, <2>2, <4>1, Zenon DEF TakeRun
        <3>4. g[i] = TakeStep(a, d, i, f[i - 1])
            <4>1. CASE i = k
                BY <4>1
            <4>2. CASE i # k
                BY <3>3, <4>2
            <4>3. QED
                BY <4>1, <4>2
        <3> HIDE DEF g
        <3>5. QED
            BY <2>2, <3>2, <3>4
    <2>3. QED
        BY <2>1, <2>2
<1>6. g = [i \in 0..k |-> g[i]]
    OBVIOUS
<1> HIDE DEF g
<1>7. TakeRun(a, d, k, g)
    BY <1>5, <1>6 DEF TakeRun
<1>8. QED
    BY <1>7

\* It is what is meant.
LEMMA TakeIs ==
    ASSUME NEW a, NEW d, Len(a.layers) \in Nat
    PROVE  \E f : TakeRun(a, d, Len(a.layers), f) /\ PerformLayerRemove(a, d) = f[Len(a.layers)]
<1> DEFINE to == CHOOSE f : f = [i \in 0..Len(a.layers) |-> IF i = 0 THEN OK(d, a) ELSE LET r == f[i - 1]
                     l == a.layers[i]
                     sub == r.doc.canvas[l]
                 IN  IF ~r.ok THEN r
                     ELSE IF ~Found(r.doc, sub, l) \/ (sub # r.act.canvas /\ sub = Root) THEN Throw(r.doc, r.act)
                     ELSE OK(Erase(r.doc, sub, l),
                             [r.act EXCEPT !.canvas = sub, !.depth[i] = Index(r.doc, sub, l)])]
<1>1. \E f : f = [i \in 0..Len(a.layers) |-> IF i = 0 THEN OK(d, a) ELSE LET r == f[i - 1]
                     l == a.layers[i]
                     sub == r.doc.canvas[l]
                 IN  IF ~r.ok THEN r
                     ELSE IF ~Found(r.doc, sub, l) \/ (sub # r.act.canvas /\ sub = Root) THEN Throw(r.doc, r.act)
                     ELSE OK(Erase(r.doc, sub, l),
                             [r.act EXCEPT !.canvas = sub, !.depth[i] = Index(r.doc, sub, l)])]
    <2> HIDE DEF to
    <2>1. PICK f : TakeRun(a, d, Len(a.layers), f)
        BY TakeExists
    <2>2. f = [i \in 0..Len(a.layers) |-> IF i = 0 THEN OK(d, a) ELSE LET r == f[i - 1]
                     l == a.layers[i]
                     sub == r.doc.canvas[l]
                 IN  IF ~r.ok THEN r
                     ELSE IF ~Found(r.doc, sub, l) \/ (sub # r.act.canvas /\ sub = Root) THEN Throw(r.doc, r.act)
                     ELSE OK(Erase(r.doc, sub, l),
                             [r.act EXCEPT !.canvas = sub, !.depth[i] = Index(r.doc, sub, l)])]
        BY <2>1 DEF TakeRun, TakeStep
    <2>3. QED
        BY <2>2, Zenon
<1>2. to = [i \in 0..Len(a.layers) |-> IF i = 0 THEN OK(d, a) ELSE LET r == to[i - 1]
                     l == a.layers[i]
                     sub == r.doc.canvas[l]
                 IN  IF ~r.ok THEN r
                     ELSE IF ~Found(r.doc, sub, l) \/ (sub # r.act.canvas /\ sub = Root) THEN Throw(r.doc, r.act)
                     ELSE OK(Erase(r.doc, sub, l),
                             [r.act EXCEPT !.canvas = sub, !.depth[i] = Index(r.doc, sub, l)])]
    BY <1>1, Zenon
<1>3. PerformLayerRemove(a, d) = to[Len(a.layers)]
    BY Zenon DEF PerformLayerRemove
<1> HIDE DEF to
<1>4. TakeRun(a, d, Len(a.layers), to)
    BY <1>2 DEF TakeRun, TakeStep
<1>5. QED
    BY <1>3, <1>4

\* The actions of a list are performed, one after another.
ToStep(list, d, i, v) == LET r == v IN IF r.ok THEN Went(r, PerformOne(list[i], r.doc), i) ELSE r
ToRun(list, d, n, f) == f = [i \in 0..n |-> IF i = 0 THEN [ok |-> TRUE, doc |-> d, act |-> list, at |-> 0] ELSE ToStep(list, d, i, f[i - 1])]

\* It exists.
LEMMA ToExists ==
    ASSUME NEW list, NEW d, NEW n \in Nat
    PROVE  \E f : ToRun(list, d, n, f)
<1> DEFINE S == {k \in Nat : ~\E f : ToRun(list, d, k, f)}
<1> SUFFICES ASSUME n \in S PROVE FALSE
    OBVIOUS
<1>1. PICK k \in S : \A j \in S : k <= j
    BY LeastExists
<1>2. k # 0
    <2> DEFINE f == [i \in 0..0 |-> [ok |-> TRUE, doc |-> d, act |-> list, at |-> 0]]
    <2>1. f = [i \in 0..0 |-> IF i = 0 THEN [ok |-> TRUE, doc |-> d, act |-> list, at |-> 0] ELSE ToStep(list, d, i, f[i - 1])]
        OBVIOUS
    <2>2. ToRun(list, d, 0, f)
        BY <2>1 DEF ToRun
    <2>3. QED
        BY <2>2
<1>3. k - 1 \in Nat /\ ~(k <= k - 1)
    BY <1>2
<1>4. PICK f : ToRun(list, d, k - 1, f)
    BY <1>1, <1>3
<1> DEFINE g == [i \in 0..k |-> IF i = k THEN ToStep(list, d, k, f[k - 1]) ELSE f[i]]
<1>5. ASSUME NEW i \in 0..k
      PROVE  g[i] = IF i = 0 THEN [ok |-> TRUE, doc |-> d, act |-> list, at |-> 0] ELSE ToStep(list, d, i, g[i - 1])
    <2>1. CASE i = 0
        <3>1. 0 \in 0..(k - 1) /\ 0 # k
            BY <1>2, <1>3
        <3>2. g[0] = f[0]
            BY <3>1
        <3>3. f[0] = [ok |-> TRUE, doc |-> d, act |-> list, at |-> 0]
            BY <1>4, <3>1, Zenon DEF ToRun
        <3> HIDE DEF g
        <3>4. QED
            BY <2>1, <3>2, <3>3
    <2>2. CASE i # 0
        <3>1. i - 1 \in 0..(k - 1) /\ i - 1 # k /\ i - 1 \in 0..k
            BY <2>2
        <3>2. g[i - 1] = f[i - 1]
            BY <3>1
        <3>3. ASSUME i # k PROVE f[i] = ToStep(list, d, i, f[i - 1])
            <4>1. i \in 0..(k - 1)
                BY <3>3
            <4>2. QED
                BY <1>4, <2>2, <4>1, Zenon DEF ToRun
        <3>4. g[i] = ToStep(list, d, i, f[i - 1])
            <4>1. CASE i = k
                BY <4>1
            <4>2. CASE i # k
                BY <3>3, <4>2
            <4>3. QED
                BY <4>1, <4>2
        <3> HIDE DEF g
        <3>5. QED
            BY <2>2, <3>2, <3>4
    <2>3. QED
        BY <2>1, <2>2
<1>6. g = [i \in 0..k |-> g[i]]
    OBVIOUS
<1> HIDE DEF g
<1>7. ToRun(list, d, k, g)
    BY <1>5, <1>6 DEF ToRun
<1>8. QED
    BY <1>7

\* It is what is meant.
LEMMA ToIs ==
    ASSUME NEW list, NEW d, Len(list) \in Nat
    PROVE  \E f : ToRun(list, d, Len(list), f) /\ PerformUpTo(list, d) = f[Len(list)]
<1> DEFINE to == CHOOSE f : f = [i \in 0..Len(list) |-> IF i = 0 THEN [ok |-> TRUE, doc |-> d, act |-> list, at |-> 0] ELSE LET r == f[i - 1] IN IF r.ok THEN Went(r, PerformOne(list[i], r.doc), i) ELSE r]
<1>1. \E f : f = [i \in 0..Len(list) |-> IF i = 0 THEN [ok |-> TRUE, doc |-> d, act |-> list, at |-> 0] ELSE LET r == f[i - 1] IN IF r.ok THEN Went(r, PerformOne(list[i], r.doc), i) ELSE r]
    <2> HIDE DEF to
    <2>1. PICK f : ToRun(list, d, Len(list), f)
        BY ToExists
    <2>2. f = [i \in 0..Len(list) |-> IF i = 0 THEN [ok |-> TRUE, doc |-> d, act |-> list, at |-> 0] ELSE LET r == f[i - 1] IN IF r.ok THEN Went(r, PerformOne(list[i], r.doc), i) ELSE r]
        BY <2>1 DEF ToRun, ToStep
    <2>3. QED
        BY <2>2, Zenon
<1>2. to = [i \in 0..Len(list) |-> IF i = 0 THEN [ok |-> TRUE, doc |-> d, act |-> list, at |-> 0] ELSE LET r == to[i - 1] IN IF r.ok THEN Went(r, PerformOne(list[i], r.doc), i) ELSE r]
    BY <1>1, Zenon
<1>3. PerformUpTo(list, d) = to[Len(list)]
    BY Zenon DEF PerformUpTo
<1> HIDE DEF to
<1>4. ToRun(list, d, Len(list), to)
    BY <1>2 DEF ToRun, ToStep
<1>5. QED
    BY <1>3, <1>4

\* The moves of LayerRaise and LayerLower.
MovesStep(a, layers, at, end, by, i, v) == IF at[i] = end[i] THEN v ELSE Append(v, LayerMove(a.canvas, layers[i], NoCanvas, at[i] + by))
MovesRun(a, layers, at, end, by, n, f) == f = [i \in 0..n |-> IF i = 0 THEN <<>> ELSE MovesStep(a, layers, at, end, by, i, f[i - 1])]

\* It exists.
LEMMA MovesExists ==
    ASSUME NEW a, NEW layers, NEW at, NEW end, NEW by, NEW n \in Nat
    PROVE  \E f : MovesRun(a, layers, at, end, by, n, f)
<1> DEFINE S == {k \in Nat : ~\E f : MovesRun(a, layers, at, end, by, k, f)}
<1> SUFFICES ASSUME n \in S PROVE FALSE
    OBVIOUS
<1>1. PICK k \in S : \A j \in S : k <= j
    BY LeastExists
<1>2. k # 0
    <2> DEFINE f == [i \in 0..0 |-> <<>>]
    <2>1. f = [i \in 0..0 |-> IF i = 0 THEN <<>> ELSE MovesStep(a, layers, at, end, by, i, f[i - 1])]
        OBVIOUS
    <2>2. MovesRun(a, layers, at, end, by, 0, f)
        BY <2>1 DEF MovesRun
    <2>3. QED
        BY <2>2
<1>3. k - 1 \in Nat /\ ~(k <= k - 1)
    BY <1>2
<1>4. PICK f : MovesRun(a, layers, at, end, by, k - 1, f)
    BY <1>1, <1>3
<1> DEFINE g == [i \in 0..k |-> IF i = k THEN MovesStep(a, layers, at, end, by, k, f[k - 1]) ELSE f[i]]
<1>5. ASSUME NEW i \in 0..k
      PROVE  g[i] = IF i = 0 THEN <<>> ELSE MovesStep(a, layers, at, end, by, i, g[i - 1])
    <2>1. CASE i = 0
        <3>1. 0 \in 0..(k - 1) /\ 0 # k
            BY <1>2, <1>3
        <3>2. g[0] = f[0]
            BY <3>1
        <3>3. f[0] = <<>>
            BY <1>4, <3>1, Zenon DEF MovesRun
        <3> HIDE DEF g
        <3>4. QED
            BY <2>1, <3>2, <3>3
    <2>2. CASE i # 0
        <3>1. i - 1 \in 0..(k - 1) /\ i - 1 # k /\ i - 1 \in 0..k
            BY <2>2
        <3>2. g[i - 1] = f[i - 1]
            BY <3>1
        <3>3. ASSUME i # k PROVE f[i] = MovesStep(a, layers, at, end, by, i, f[i - 1])
            <4>1. i \in 0..(k - 1)
                BY <3>3
            <4>2. QED
                BY <1>4, <2>2, <4>1, Zenon DEF MovesRun
        <3>4. g[i] = MovesStep(a, layers, at, end, by, i, f[i - 1])
            <4>1. CASE i = k
                BY <4>1
            <4>2. CASE i # k
                BY <3>3, <4>2
            <4>3. QED
                BY <4>1, <4>2
        <3> HIDE DEF g
        <3>5. QED
            BY <2>2, <3>2, <3>4
    <2>3. QED
        BY <2>1, <2>2
<1>6. g = [i \in 0..k |-> g[i]]
    OBVIOUS
<1> HIDE DEF g
<1>7. MovesRun(a, layers, at, end, by, k, g)
    BY <1>5, <1>6 DEF MovesRun
<1>8. QED
    BY <1>7

\* The actions of a list are undone, from number m on.
FromStep(list, m, d, i, v) == LET r == v IN IF r.ok THEN Went(r, UndoOne(list[i], r.doc), i) ELSE r
FromRun(list, m, d, n, f) == f = [i \in 0..n |-> IF i = 0 THEN [ok |-> TRUE, doc |-> d, act |-> list, at |-> m + 1] ELSE FromStep(list, m, d, m + 1 - i, f[i - 1])]

\* It exists.
LEMMA FromExists ==
    ASSUME NEW list, NEW m, NEW d, NEW n \in Nat
    PROVE  \E f : FromRun(list, m, d, n, f)
<1> DEFINE S == {k \in Nat : ~\E f : FromRun(list, m, d, k, f)}
<1> SUFFICES ASSUME n \in S PROVE FALSE
    OBVIOUS
<1>1. PICK k \in S : \A j \in S : k <= j
    BY LeastExists
<1>2. k # 0
    <2> DEFINE f == [i \in 0..0 |-> [ok |-> TRUE, doc |-> d, act |-> list, at |-> m + 1]]
    <2>1. f = [i \in 0..0 |-> IF i = 0 THEN [ok |-> TRUE, doc |-> d, act |-> list, at |-> m + 1] ELSE FromStep(list, m, d, m + 1 - i, f[i - 1])]
        OBVIOUS
    <2>2. FromRun(list, m, d, 0, f)
        BY <2>1 DEF FromRun
    <2>3. QED
        BY <2>2
<1>3. k - 1 \in Nat /\ ~(k <= k - 1)
    BY <1>2
<1>4. PICK f : FromRun(list, m, d, k - 1, f)
    BY <1>1, <1>3
<1> DEFINE g == [i \in 0..k |-> IF i = k THEN FromStep(list, m, d, m + 1 - k, f[k - 1]) ELSE f[i]]
<1>5. ASSUME NEW i \in 0..k
      PROVE  g[i] = IF i = 0 THEN [ok |-> TRUE, doc |-> d, act |-> list, at |-> m + 1] ELSE FromStep(list, m, d, m + 1 - i, g[i - 1])
    <2>1. CASE i = 0
        <3>1. 0 \in 0..(k - 1) /\ 0 # k
            BY <1>2, <1>3
        <3>2. g[0] = f[0]
            BY <3>1
        <3>3. f[0] = [ok |-> TRUE, doc |-> d, act |-> list, at |-> m + 1]
            BY <1>4, <3>1, Zenon DEF FromRun
        <3> HIDE DEF g
        <3>4. QED
            BY <2>1, <3>2, <3>3
    <2>2. CASE i # 0
        <3>1. i - 1 \in 0..(k - 1) /\ i - 1 # k /\ i - 1 \in 0..k
            BY <2>2
        <3>2. g[i - 1] = f[i - 1]
            BY <3>1
        <3>3. ASSUME i # k PROVE f[i] = FromStep(list, m, d, m + 1 - i, f[i - 1])
            <4>1. i \in 0..(k - 1)
                BY <3>3
            <4>2. QED
                BY <1>4, <2>2, <4>1, Zenon DEF FromRun
        <3>4. g[i] = FromStep(list, m, d, m + 1 - i, f[i - 1])
            <4>1. CASE i = k
                BY <4>1
            <4>2. CASE i # k
                BY <3>3, <4>2
            <4>3. QED
                BY <4>1, <4>2
        <3> HIDE DEF g
        <3>5. QED
            BY <2>2, <3>2, <3>4
    <2>3. QED
        BY <2>1, <2>2
<1>6. g = [i \in 0..k |-> g[i]]
    OBVIOUS
<1> HIDE DEF g
<1>7. FromRun(list, m, d, k, g)
    BY <1>5, <1>6 DEF FromRun
<1>8. QED
    BY <1>7

\* It is what is meant.
LEMMA FromIs ==
    ASSUME NEW list, NEW m, NEW d, m \in Nat
    PROVE  \E f : FromRun(list, m, d, m, f) /\ UndoDownFrom(list, m, d) = f[m]
<1> DEFINE from == CHOOSE f : f = [i \in 1..(m + 1) |-> IF i = m + 1 THEN [ok |-> TRUE, doc |-> d, act |-> list, at |-> m + 1] ELSE LET r == f[i + 1] IN IF r.ok THEN Went(r, UndoOne(list[i], r.doc), i) ELSE r]
<1>1. \E f : f = [i \in 1..(m + 1) |-> IF i = m + 1 THEN [ok |-> TRUE, doc |-> d, act |-> list, at |-> m + 1] ELSE LET r == f[i + 1] IN IF r.ok THEN Went(r, UndoOne(list[i], r.doc), i) ELSE r]
    <2> HIDE DEF from
    <2>1. PICK h : FromRun(list, m, d, m, h)
        BY FromExists
    <2> DEFINE f == [i \in 1..(m + 1) |-> h[m + 1 - i]]
    <2>2. ASSUME NEW i \in 1..(m + 1)
          PROVE  f[i] = IF i = m + 1 THEN [ok |-> TRUE, doc |-> d, act |-> list, at |-> m + 1] ELSE FromStep(list, m, d, i, f[i + 1])
        <3>1. CASE i = m + 1
            <4>1. 0 \in 0..m /\ m + 1 \in 1..(m + 1) /\ m + 1 - (m + 1) = 0
                OBVIOUS
            <4>2. h[0] = [ok |-> TRUE, doc |-> d, act |-> list, at |-> m + 1]
                BY <2>1, <4>1, Zenon DEF FromRun
            <4>3. f[m + 1] = h[0]
                BY <4>1
            <4> HIDE DEF f
            <4>4. QED
                BY <3>1, <4>2, <4>3
        <3>2. CASE i # m + 1
            <4> DEFINE k == m + 1 - i
            <4>1. k \in 0..m /\ k # 0 /\ m + 1 - k = i /\ i + 1 \in 1..(m + 1) /\ m + 1 - (i + 1) = k - 1
                BY <3>2
            <4> HIDE DEF k
            <4>2. h[k] = FromStep(list, m, d, m + 1 - k, h[k - 1])
                <5> HIDE DEF f
                <5>1. QED
                    BY <2>1, <4>1, Zenon DEF FromRun
            <4>3. f[i] = h[k] /\ f[i + 1] = h[k - 1]
                BY <4>1 DEF k
            <4> HIDE DEF f
            <4>4. QED
                BY <3>2, <4>1, <4>2, <4>3
        <3>3. QED
            BY <3>1, <3>2
    <2>3. f = [i \in 1..(m + 1) |-> f[i]]
        OBVIOUS
    <2> HIDE DEF f
    <2>4. f = [i \in 1..(m + 1) |-> IF i = m + 1 THEN [ok |-> TRUE, doc |-> d, act |-> list, at |-> m + 1] ELSE LET r == f[i + 1] IN IF r.ok THEN Went(r, UndoOne(list[i], r.doc), i) ELSE r]
        BY <2>2, <2>3 DEF FromStep
    <2>5. QED
        BY <2>4, Zenon
<1>2. from = [i \in 1..(m + 1) |-> IF i = m + 1 THEN [ok |-> TRUE, doc |-> d, act |-> list, at |-> m + 1] ELSE LET r == from[i + 1] IN IF r.ok THEN Went(r, UndoOne(list[i], r.doc), i) ELSE r]
    BY <1>1, Zenon
<1>3. UndoDownFrom(list, m, d) = from[1]
    BY Zenon DEF UndoDownFrom
<1> HIDE DEF from
<1> DEFINE f == [k \in 0..m |-> from[m + 1 - k]]
<1>4. ASSUME NEW k \in 0..m
      PROVE  f[k] = IF k = 0 THEN [ok |-> TRUE, doc |-> d, act |-> list, at |-> m + 1] ELSE FromStep(list, m, d, m + 1 - k, f[k - 1])
    <2>1. CASE k = 0
        <3>1. from[m + 1] = [ok |-> TRUE, doc |-> d, act |-> list, at |-> m + 1] /\ f[0] = from[m + 1]
            BY <1>2
        <3>2. QED
            BY <2>1, <3>1
    <2>2. CASE k # 0
        <3> DEFINE i == m + 1 - k
        <3>1. i \in 1..(m + 1) /\ i # m + 1 /\ k - 1 \in 0..m /\ m + 1 - (k - 1) = i + 1
            BY <2>2
        <3>2. f[k] = from[i] /\ f[k - 1] = from[i + 1]
            BY <3>1
        <3> HIDE DEF i, f
        <3>3. from[i] = FromStep(list, m, d, i, from[i + 1])
            BY <1>2, <3>1 DEF FromStep
        <3>4. QED
            BY <2>2, <3>2, <3>3 DEF i
    <2>3. QED
        BY <2>1, <2>2
<1>5. f = [k \in 0..m |-> f[k]] /\ f[m] = from[1]
    OBVIOUS
<1> HIDE DEF f
<1>6. FromRun(list, m, d, m, f)
    BY <1>4, <1>5 DEF FromRun
<1>7. QED
    BY <1>3, <1>5, <1>6

\* Layers are put back, the last first.
BackStep(a, m, d, i, v) == LET r == v
                     at == Min({r.act.depth[i], Size(r.doc, a.canvas)})
                     e == SetCanvas(r.doc, a.layers[i], a.canvas)
                 IN  OK(Insert(e, a.canvas, at, a.layers[i]), [r.act EXCEPT !.depth[i] = at])
BackRun(a, m, d, n, f) == f = [i \in 0..n |-> IF i = 0 THEN OK(d, a) ELSE BackStep(a, m, d, m + 1 - i, f[i - 1])]

\* It exists.
LEMMA BackExists ==
    ASSUME NEW a, NEW m, NEW d, NEW n \in Nat
    PROVE  \E f : BackRun(a, m, d, n, f)
<1> DEFINE S == {k \in Nat : ~\E f : BackRun(a, m, d, k, f)}
<1> SUFFICES ASSUME n \in S PROVE FALSE
    OBVIOUS
<1>1. PICK k \in S : \A j \in S : k <= j
    BY LeastExists
<1>2. k # 0
    <2> DEFINE f == [i \in 0..0 |-> OK(d, a)]
    <2>1. f = [i \in 0..0 |-> IF i = 0 THEN OK(d, a) ELSE BackStep(a, m, d, m + 1 - i, f[i - 1])]
        OBVIOUS
    <2>2. BackRun(a, m, d, 0, f)
        BY <2>1 DEF BackRun
    <2>3. QED
        BY <2>2
<1>3. k - 1 \in Nat /\ ~(k <= k - 1)
    BY <1>2
<1>4. PICK f : BackRun(a, m, d, k - 1, f)
    BY <1>1, <1>3
<1> DEFINE g == [i \in 0..k |-> IF i = k THEN BackStep(a, m, d, m + 1 - k, f[k - 1]) ELSE f[i]]
<1>5. ASSUME NEW i \in 0..k
      PROVE  g[i] = IF i = 0 THEN OK(d, a) ELSE BackStep(a, m, d, m + 1 - i, g[i - 1])
    <2>1. CASE i = 0
        <3>1. 0 \in 0..(k - 1) /\ 0 # k
            BY <1>2, <1>3
        <3>2. g[0] = f[0]
            BY <3>1
        <3>3. f[0] = OK(d, a)
            BY <1>4, <3>1, Zenon DEF BackRun
        <3> HIDE DEF g
        <3>4. QED
            BY <2>1, <3>2, <3>3
    <2>2. CASE i # 0
        <3>1. i - 1 \in 0..(k - 1) /\ i - 1 # k /\ i - 1 \in 0..k
            BY <2>2
        <3>2. g[i - 1] = f[i - 1]
            BY <3>1
        <3>3. ASSUME i # k PROVE f[i] = BackStep(a, m, d, m + 1 - i, f[i - 1])
            <4>1. i \in 0..(k - 1)
                BY <3>3
            <4>2. QED
                BY <1>4, <2>2, <4>1, Zenon DEF BackRun
        <3>4. g[i] = BackStep(a, m, d, m + 1 - i, f[i - 1])
            <4>1. CASE i = k
                BY <4>1
            <4>2. CASE i # k
                BY <3>3, <4>2
            <4>3. QED
                BY <4>1, <4>2
        <3> HIDE DEF g
        <3>5. QED
            BY <2>2, <3>2, <3>4
    <2>3. QED
        BY <2>1, <2>2
<1>6. g = [i \in 0..k |-> g[i]]
    OBVIOUS
<1> HIDE DEF g
<1>7. BackRun(a, m, d, k, g)
    BY <1>5, <1>6 DEF BackRun
<1>8. QED
    BY <1>7

\* It is what is meant.
LEMMA BackIs ==
    ASSUME NEW a, NEW d, Len(a.layers) \in Nat
    PROVE  \E f : BackRun(a, Len(a.layers), d, Len(a.layers), f) /\ UndoLayerRemove(a, d) = f[Len(a.layers)]
<1> DEFINE m == Len(a.layers)
<1>0. m \in Nat
    OBVIOUS
<1> HIDE DEF m
<1> DEFINE from == CHOOSE f : f = [i \in 1..(m + 1) |-> IF i = m + 1 THEN OK(d, a) ELSE LET r == f[i + 1]
                     at == Min({r.act.depth[i], Size(r.doc, a.canvas)})
                     e == SetCanvas(r.doc, a.layers[i], a.canvas)
                 IN  OK(Insert(e, a.canvas, at, a.layers[i]), [r.act EXCEPT !.depth[i] = at])]
<1>1. \E f : f = [i \in 1..(m + 1) |-> IF i = m + 1 THEN OK(d, a) ELSE LET r == f[i + 1]
                     at == Min({r.act.depth[i], Size(r.doc, a.canvas)})
                     e == SetCanvas(r.doc, a.layers[i], a.canvas)
                 IN  OK(Insert(e, a.canvas, at, a.layers[i]), [r.act EXCEPT !.depth[i] = at])]
    <2> HIDE DEF from
    <2>1. PICK h : BackRun(a, m, d, m, h)
        BY <1>0, BackExists
    <2> DEFINE f == [i \in 1..(m + 1) |-> h[m + 1 - i]]
    <2>2. ASSUME NEW i \in 1..(m + 1)
          PROVE  f[i] = IF i = m + 1 THEN OK(d, a) ELSE BackStep(a, m, d, i, f[i + 1])
        <3>1. CASE i = m + 1
            <4>1. 0 \in 0..m /\ m + 1 \in 1..(m + 1) /\ m + 1 - (m + 1) = 0
                BY <1>0
            <4>2. h[0] = OK(d, a)
                BY <2>1, <4>1, Zenon DEF BackRun
            <4>3. f[m + 1] = h[0]
                BY <1>0, <4>1
            <4> HIDE DEF f
            <4>4. QED
                BY <3>1, <4>2, <4>3
        <3>2. CASE i # m + 1
            <4> DEFINE k == m + 1 - i
            <4>1. k \in 0..m /\ k # 0 /\ m + 1 - k = i /\ i + 1 \in 1..(m + 1) /\ m + 1 - (i + 1) = k - 1
                BY <1>0, <3>2
            <4> HIDE DEF k
            <4>2. h[k] = BackStep(a, m, d, m + 1 - k, h[k - 1])
                <5> HIDE DEF f
                <5>1. QED
                    BY <2>1, <4>1, Zenon DEF BackRun
            <4>3. f[i] = h[k] /\ f[i + 1] = h[k - 1]
                BY <1>0, <4>1 DEF k
            <4> HIDE DEF f
            <4>4. QED
                BY <3>2, <4>1, <4>2, <4>3
        <3>3. QED
            BY <3>1, <3>2
    <2>3. f = [i \in 1..(m + 1) |-> f[i]]
        OBVIOUS
    <2> HIDE DEF f
    <2>4. f = [i \in 1..(m + 1) |-> IF i = m + 1 THEN OK(d, a) ELSE LET r == f[i + 1]
                     at == Min({r.act.depth[i], Size(r.doc, a.canvas)})
                     e == SetCanvas(r.doc, a.layers[i], a.canvas)
                 IN  OK(Insert(e, a.canvas, at, a.layers[i]), [r.act EXCEPT !.depth[i] = at])]
        BY <2>2, <2>3 DEF BackStep
    <2>5. QED
        BY <2>4, Zenon
<1>2. from = [i \in 1..(m + 1) |-> IF i = m + 1 THEN OK(d, a) ELSE LET r == from[i + 1]
                     at == Min({r.act.depth[i], Size(r.doc, a.canvas)})
                     e == SetCanvas(r.doc, a.layers[i], a.canvas)
                 IN  OK(Insert(e, a.canvas, at, a.layers[i]), [r.act EXCEPT !.depth[i] = at])]
    BY <1>1, Zenon
<1>3. UndoLayerRemove(a, d) = from[1]
    BY Zenon DEF UndoLayerRemove, m
<1> HIDE DEF from
<1> DEFINE f == [k \in 0..m |-> from[m + 1 - k]]
<1>4. ASSUME NEW k \in 0..m
      PROVE  f[k] = IF k = 0 THEN OK(d, a) ELSE BackStep(a, m, d, m + 1 - k, f[k - 1])
    <2>1. CASE k = 0
        <3>1. from[m + 1] = OK(d, a) /\ f[0] = from[m + 1]
            BY <1>0, <1>2
        <3>2. QED
            BY <2>1, <3>1
    <2>2. CASE k # 0
        <3> DEFINE i == m + 1 - k
        <3>1. i \in 1..(m + 1) /\ i # m + 1 /\ k - 1 \in 0..m /\ m + 1 - (k - 1) = i + 1
            BY <1>0, <2>2
        <3>2. f[k] = from[i] /\ f[k - 1] = from[i + 1]
            BY <3>1
        <3> HIDE DEF i, f
        <3>3. from[i] = BackStep(a, m, d, i, from[i + 1])
            BY <1>2, <3>1 DEF BackStep
        <3>4. QED
            BY <2>2, <3>2, <3>3 DEF i
    <2>3. QED
        BY <2>1, <2>2
<1>5. f = [k \in 0..m |-> f[k]] /\ f[m] = from[1]
    BY <1>0
<1> HIDE DEF f
<1>6. BackRun(a, m, d, m, f)
    BY <1>4, <1>5 DEF BackRun
<1>7. QED
    BY <1>3, <1>5, <1>6 DEF m

-----------------------------------------------------------------------------
(***************************************************************************)
(* What is done to a document.                                             *)
(***************************************************************************)

\* A document has come of another, with these contents.
Became(d, e, y) == Shaped(e) /\ e.content = y /\ Grown(d, e)

\* One thing after another.
LEMMA BecameOn ==
    ASSUME NEW d, NEW e, NEW f, NEW y, NEW z, Became(d, e, y), Became(e, f, z)
    PROVE  Became(d, f, z)
BY DEF Became, Grown

\* Nothing at all.
LEMMA BecameSame ==
    ASSUME NEW d, Shaped(d)
    PROVE  Became(d, d, d.content)
BY DEF Became, Grown

\* Where the layers stay.
LEMMA LayoutBecame ==
    ASSUME NEW d, Shaped(d), NEW e, SameLayout(d, e)
    PROVE  Became(d, e, d.content)
<1>1. Situated(e)
    BY DEF Situated, Shaped, SameLayout, Found
<1>2. QED
    BY <1>1 DEF Became, Grown, Shaped, SameLayout

\* A document is laid out as itself.
LEMMA LayoutSame ==
    ASSUME NEW d, IsDoc(d)
    PROVE  SameLayout(d, d)
BY DEF SameLayout

\* Two steps that leave the layout leave it together.
LEMMA LayoutOn ==
    ASSUME NEW d, NEW e, NEW f, SameLayout(d, e), SameLayout(e, f)
    PROVE  SameLayout(d, f)
BY DEF SameLayout

\* The sets of a canvas are not its layers.
LEMMA PairLayout ==
    ASSUME NEW d, IsDoc(d), NEW c, NEW g, NEW l
    PROVE  SameLayout(d, AddGroupPair(d, c, g, l)) /\ SameLayout(d, RemoveGroupPair(d, c, g, l))
<1>1. \A v : SameLayout(d, [d EXCEPT !.db = v])
    BY DEF SameLayout, IsDoc
<1>2. QED
    BY <1>1, Zenon DEF AddGroupPair, RemoveGroupPair

\* Nor is the set of a layer.
LEMMA LeaveLayout ==
    ASSUME NEW d, IsDoc(d), NEW l
    PROVE  SameLayout(d, LeaveGroup(d, l))
<1> DEFINE out == [d EXCEPT !.group[l] = NoGroup]
<1>1. SameLayout(d, out)
    BY DEF SameLayout, IsDoc
<1>2. \A c, g : SameLayout(d, RemoveGroupPair(out, c, g, l))
    <2> HIDE DEF out
    <2>1. IsDoc(out)
        BY <1>1 DEF SameLayout
    <2>2. QED
        BY <1>1, <2>1, PairLayout, LayoutOn
<1>3. QED
    BY <1>1, <1>2, Zenon DEF LeaveGroup

\* A layer that joins a set stays where it is.
LEMMA JoinLayout ==
    ASSUME NEW d, IsDoc(d), NEW l, NEW g
    PROVE  SameLayout(d, JoinGroup(d, l, g))
<1> DEFINE out == LeaveGroup(d, l)
           e == [out EXCEPT !.group[l] = g]
<1>1. SameLayout(d, out)
    BY LeaveLayout
<1> HIDE DEF out
<1>2. SameLayout(out, e)
    BY <1>1 DEF SameLayout, IsDoc
<1> HIDE DEF e
<1>3. SameLayout(d, e) /\ IsDoc(e)
    BY <1>1, <1>2, LayoutOn DEF SameLayout
<1>4. \A c : SameLayout(d, AddGroupPair(e, c, g, l))
    BY <1>3, PairLayout, LayoutOn
<1>5. SameLayout(d, d)
    BY LayoutSame
<1>6. QED
    BY <1>3, <1>4, <1>5, Zenon DEF JoinGroup, e, out

\* Nor are those of several.
LEMMA JoinAllLayout ==
    ASSUME NEW d, IsDoc(d), NEW layers, Len(layers) \in Nat, NEW names
    PROVE  SameLayout(d, JoinAll(d, layers, names))
<1>1. PICK f : JoinRun(d, layers, names, Len(layers), f) /\ JoinAll(d, layers, names) = f[Len(layers)]
    BY JoinIs
<1> DEFINE n == Len(layers)
           S == {i \in 0..n : ~SameLayout(d, f[i])}
<1>2. S = {}
    <2> SUFFICES ASSUME S # {} PROVE FALSE
        OBVIOUS
    <2>1. PICK i \in S : \A j \in S : i <= j
        <3>1. S \in SUBSET Nat
            OBVIOUS
        <3>2. QED
            BY <3>1, LeastExists
    <2>2. i \in 0..n /\ f[i] = IF i = 0 THEN d ELSE JoinStep(d, layers, names, i, f[i - 1])
        BY <1>1 DEF JoinRun
    <2>3. CASE i = 0
        BY <2>1, <2>2, <2>3, LayoutSame
    <2>4. CASE i # 0
        <3>1. i - 1 \in 0..n /\ ~(i <= i - 1)
            BY <2>2, <2>4
        <3>2. SameLayout(d, f[i - 1])
            BY <2>1, <3>1
        <3>3. SameLayout(f[i - 1], JoinGroup(f[i - 1], layers[i], names[i]))
            BY <3>2, JoinLayout DEF SameLayout
        <3>4. SameLayout(d, f[i])
            BY <2>2, <2>4, <3>2, <3>3, LayoutOn DEF JoinStep
        <3>5. QED
            BY <2>1, <3>4
    <2>5. QED
        BY <2>3, <2>4
<1>3. QED
    BY <1>1, <1>2

\* Layers that leave their sets stay where they are.
LEMMA LeaveAllLayout ==
    ASSUME NEW d, IsDoc(d), NEW layers, Len(layers) \in Nat, NEW names
    PROVE  SameLayout(d, LeaveAll(d, layers, names))
<1>1. PICK f : LeaveRun(d, layers, names, Len(layers), f) /\ LeaveAll(d, layers, names) = f[Len(layers)]
    BY LeaveIs
<1> DEFINE n == Len(layers)
           S == {i \in 0..n : ~SameLayout(d, f[i])}
<1>2. S = {}
    <2> SUFFICES ASSUME S # {} PROVE FALSE
        OBVIOUS
    <2>1. PICK i \in S : \A j \in S : i <= j
        <3>1. S \in SUBSET Nat
            OBVIOUS
        <3>2. QED
            BY <3>1, LeastExists
    <2>2. i \in 0..n /\ f[i] = IF i = 0 THEN d ELSE LeaveStep(d, layers, names, i, f[i - 1])
        BY <1>1 DEF LeaveRun
    <2>3. CASE i = 0
        BY <2>1, <2>2, <2>3, LayoutSame
    <2>4. CASE i # 0
        <3>1. i - 1 \in 0..n /\ ~(i <= i - 1)
            BY <2>2, <2>4
        <3>2. SameLayout(d, f[i - 1])
            BY <2>1, <3>1
        <3>3. SameLayout(f[i - 1], LeaveGroup(f[i - 1], layers[i]))
            BY <3>2, LeaveLayout DEF SameLayout
        <3>4. SameLayout(d, f[i])
            BY <2>2, <2>4, <3>2, <3>3, LayoutOn DEF LeaveStep
        <3>5. QED
            BY <2>1, <3>4
    <2>5. QED
        BY <2>3, <2>4
<1>3. QED
    BY <1>1, <1>2

\* The elements of a set, in some order.
LEMMA SetToSeqIs ==
    ASSUME NEW S, IsFiniteSet(S)
    PROVE  Len(SetToSeq(S)) \in Nat
<1> DEFINE k == Cardinality(S)
           s == SetToSeq(S)
<1>1. k \in Nat /\ ExistsBijection(1..k, S)
    BY FS_CardinalityType
<1>2. PICK f \in [1..k -> S] : IsInjective(f)
    BY <1>1 DEF ExistsBijection, Bijection, Injection, IsInjective
<1>3. s \in [1..k -> S]
    BY <1>2, Zenon DEF SetToSeq, k
<1> HIDE DEF k, s
<1>4. s \in Seq(S)
    BY <1>1, <1>3, SeqDef
<1>5. QED
    BY <1>4, LenProperties DEF s

\* A set of layers disbands, or is known by another name.
LEMMA DisbandLayout ==
    ASSUME NEW d, IsDoc(d), NEW g, NEW h
    PROVE  SameLayout(d, Disband(d, g)) /\ SameLayout(d, RenameGroup(d, g, h))
<1>1. IsFiniteSet({l \in Members(d, g) : d.group[l] = g})
    BY LayersAssumption, FS_Subset DEF Members
<1>2. Len(Listed(d, g)) \in Nat
    BY <1>1, SetToSeqIs DEF Listed
<1>3. QED
    BY <1>2, JoinAllLayout, LeaveAllLayout, Zenon DEF Disband, RenameGroup

\* Where a layer is, as the code looks for it.
LEMMA FoundIs ==
    ASSUME NEW d, NEW c, NEW l
    PROVE  Found(d, c, l) <=> l \in Range(d.content[c])
BY DEF Found

\* At which place a layer is, as the code counts.
LEMMA IndexIs ==
    ASSUME NEW d, NEW c, NEW l
    PROVE  Index(d, c, l) = Pos(d.content, c, l)
BY Zenon DEF Index, Pos

\* A layer is told its canvas, and the canvas of a group comes along.
LEMMA SetCanvasFields ==
    ASSUME NEW d, IsDoc(d), d.canvas \in [Layers -> Canvases \union {NoCanvas}],
           d.parent \in [Canvases -> Canvases \union {NoCanvas}], NEW l \in Layers, NEW c \in Canvases
    PROVE  LET e == SetCanvas(d, l, c)
           IN  /\ IsDoc(e)
               /\ e.content = d.content
               /\ e.canvas = [d.canvas EXCEPT ![l] = c]
               /\ e.parent \in [Canvases -> Canvases \union {NoCanvas}]
               /\ \A m \in GroupLayers : m # l => e.parent[Sub[m]] = d.parent[Sub[m]]
               /\ l \in GroupLayers /\ d.canvas[l] # c => e.parent[Sub[l]] = c
               /\ d.canvas[l] = c => e.parent = d.parent
<1> DEFINE moves == l \in GroupLayers /\ d.canvas[l] # c /\ d.parent[Sub[l]] # c
           v == d.db[c] \union d.db[Sub[l]]
           e1 == [d EXCEPT !.canvas[l] = c, !.parent[Sub[l]] = c, !.db[c] = @ \union d.db[Sub[l]]]
           e2 == [d EXCEPT !.canvas[l] = c]
<1>1. SetCanvas(d, l, c) = IF moves THEN e1 ELSE e2
    BY Zenon DEF SetCanvas
<1>2. \A m \in GroupLayers : Sub[m] \in Canvases /\ (m # l /\ l \in GroupLayers => Sub[m] # Sub[l])
    BY LayersAssumption DEF Canvases, Inline
<1>3. /\ IsDoc(e1) /\ e1.content = d.content /\ e1.canvas = [d.canvas EXCEPT ![l] = c]
      /\ e1.parent = [d.parent EXCEPT ![Sub[l]] = c]
    BY DEF IsDoc
<1>4. /\ IsDoc(e2) /\ e2.content = d.content /\ e2.canvas = [d.canvas EXCEPT ![l] = c]
      /\ e2.parent = d.parent
    BY DEF IsDoc
<1> HIDE DEF e1, e2
<1>5. CASE moves
    <2>1. SetCanvas(d, l, c) = e1
        BY <1>1, <1>5
    <2>2. l \in GroupLayers /\ d.canvas[l] # c
        BY <1>5
    <2>3. e1.parent \in [Canvases -> Canvases \union {NoCanvas}] /\ e1.parent[Sub[l]] = c
            /\ \A m \in GroupLayers : m # l => e1.parent[Sub[m]] = d.parent[Sub[m]]
        BY <1>2, <1>3, <2>2
    <2>4. QED
        BY <1>3, <2>1, <2>2, <2>3
<1>6. CASE ~moves
    <2>1. SetCanvas(d, l, c) = e2
        BY <1>1, <1>6
    <2>2. QED
        BY <1>4, <1>6, <2>1
<1>7. QED
    BY <1>5, <1>6

\* A layer that is in no canvas is told one.
LEMMA SetCanvasIs ==
    ASSUME NEW d, Shaped(d), NEW l \in Layers, NEW c \in Canvases, ~Placed(d.content, l)
    PROVE  Became(d, SetCanvas(d, l, c), d.content)
<1> DEFINE e == SetCanvas(d, l, c)
<1>1. /\ IsDoc(e)
      /\ e.content = d.content
      /\ e.canvas = [d.canvas EXCEPT ![l] = c]
      /\ e.parent \in [Canvases -> Canvases \union {NoCanvas}]
      /\ \A m \in GroupLayers : m # l => e.parent[Sub[m]] = d.parent[Sub[m]]
      /\ l \in GroupLayers /\ d.canvas[l] # c => e.parent[Sub[l]] = c
      /\ d.canvas[l] = c => e.parent = d.parent
    BY SetCanvasFields DEF Shaped
<1> HIDE DEF e
<1>2. NoCanvas \notin Canvases /\ GroupLayers \subseteq Layers
    BY LayersAssumption
<1>3. d.canvas \in [Layers -> Canvases \union {NoCanvas}] /\ Situated(d) /\ d.content \in Contents
    BY DEF Shaped
<1>4. e.canvas \in [Layers -> Canvases \union {NoCanvas}]
    BY <1>1, <1>3
<1>5. ASSUME NEW b \in Canvases, NEW m \in Layers, Found(e, b, m) PROVE e.canvas[m] = b
    <2>1. m \in Range(d.content[b]) /\ m # l
        BY <1>1, <1>5 DEF Found, Placed
    <2>2. QED
        BY <1>1, <1>3, <2>1 DEF Situated, Found
<1>6. ASSUME NEW m \in GroupLayers, e.canvas[m] # NoCanvas PROVE e.parent[Sub[m]] = e.canvas[m]
    <2>1. CASE m = l /\ d.canvas[l] # c
        BY <1>1, <1>2, <1>3, <2>1
    <2>2. CASE m = l /\ d.canvas[l] = c
        <3>1. d.parent[Sub[l]] = d.canvas[l]
            BY <1>2, <1>3, <2>2 DEF Situated
        <3>2. QED
            BY <1>1, <1>3, <2>2, <3>1
    <2>3. CASE m # l
        BY <1>1, <1>2, <1>3, <1>6, <2>3 DEF Situated
    <2>4. QED
        BY <2>1, <2>2, <2>3
<1>7. Situated(e)
    BY <1>5, <1>6 DEF Situated
<1>8. Grown(d, e)
    BY <1>1, <1>2, <1>3 DEF Grown
<1>9. Became(d, e, d.content)
    BY <1>1, <1>3, <1>4, <1>7, <1>8 DEF Became, Shaped
<1>10. QED
    BY <1>9 DEF e

\* A layer that is in no canvas comes into one.
LEMMA InsertIs ==
    ASSUME NEW d, Shaped(d), NEW c \in Canvases, NEW i \in 0..Len(d.content[c]), NEW l \in Layers, ~Placed(d.content, l)
    PROVE  Became(d, Insert(d, c, i, l), Ins(d.content, c, i, l))
<1> DEFINE y == Ins(d.content, c, i, l)
           f == [d EXCEPT !.content[c] = InsertAt(@, i + 1, l)]
           e == SetCanvas(f, l, c)
<1>0. /\ d.canvas \in [Layers -> Canvases \union {NoCanvas}] /\ Situated(d) /\ d.content \in Contents
      /\ d.parent \in [Canvases -> Canvases \union {NoCanvas}] /\ IsDoc(d)
    BY DEF Shaped
<1>1. IsDoc(f) /\ f.content = y /\ f.canvas = d.canvas /\ f.parent = d.parent
    BY <1>0 DEF IsDoc, Ins
<1>2. /\ y \in Contents
      /\ \A m \in Layers, b \in Canvases : m \in Range(y[b]) <=> m \in Range(d.content[b]) \/ (m = l /\ b = c)
    BY <1>0, InsIs
<1> HIDE DEF y, f
<1>3. /\ IsDoc(e)
      /\ e.content = y
      /\ e.canvas = [d.canvas EXCEPT ![l] = c]
      /\ e.parent \in [Canvases -> Canvases \union {NoCanvas}]
      /\ \A m \in GroupLayers : m # l => e.parent[Sub[m]] = d.parent[Sub[m]]
      /\ l \in GroupLayers /\ d.canvas[l] # c => e.parent[Sub[l]] = c
      /\ d.canvas[l] = c => e.parent = d.parent
    <2>1. f.canvas \in [Layers -> Canvases \union {NoCanvas}] /\ f.parent \in [Canvases -> Canvases \union {NoCanvas}]
        BY <1>0, <1>1
    <2>2. /\ IsDoc(e)
          /\ e.content = f.content
          /\ e.canvas = [f.canvas EXCEPT ![l] = c]
          /\ e.parent \in [Canvases -> Canvases \union {NoCanvas}]
          /\ \A m \in GroupLayers : m # l => e.parent[Sub[m]] = f.parent[Sub[m]]
          /\ l \in GroupLayers /\ f.canvas[l] # c => e.parent[Sub[l]] = c
          /\ f.canvas[l] = c => e.parent = f.parent
        BY <1>1, <2>1, SetCanvasFields
    <2> HIDE DEF e
    <2>3. QED
        BY <1>1, <2>2
<1> HIDE DEF e
<1>4. NoCanvas \notin Canvases /\ GroupLayers \subseteq Layers
    BY LayersAssumption
<1>5. e.canvas \in [Layers -> Canvases \union {NoCanvas}]
    BY <1>0, <1>3
<1>6. ASSUME NEW b \in Canvases, NEW m \in Layers, Found(e, b, m) PROVE e.canvas[m] = b
    <2>1. m \in Range(d.content[b]) \/ (m = l /\ b = c)
        BY <1>2, <1>3, <1>6 DEF Found
    <2>2. CASE m = l /\ b = c
        BY <1>0, <1>3, <2>2
    <2>3. CASE m \in Range(d.content[b])
        <3>1. m # l
            BY <2>3 DEF Placed
        <3>2. QED
            BY <1>0, <1>3, <2>3, <3>1 DEF Situated, Found
    <2>4. QED
        BY <2>1, <2>2, <2>3
<1>7. ASSUME NEW m \in GroupLayers, e.canvas[m] # NoCanvas PROVE e.parent[Sub[m]] = e.canvas[m]
    <2>1. CASE m = l /\ d.canvas[l] # c
        BY <1>0, <1>3, <1>4, <2>1
    <2>2. CASE m = l /\ d.canvas[l] = c
        <3>1. d.parent[Sub[l]] = d.canvas[l]
            BY <1>0, <1>4, <2>2 DEF Situated
        <3>2. QED
            BY <1>0, <1>3, <2>2, <3>1
    <2>3. CASE m # l
        BY <1>0, <1>3, <1>4, <1>7, <2>3 DEF Situated
    <2>4. QED
        BY <2>1, <2>2, <2>3
<1>8. Situated(e)
    BY <1>6, <1>7 DEF Situated
<1>9. Grown(d, e)
    BY <1>0, <1>3, <1>4 DEF Grown
<1>10. Became(d, e, y)
    BY <1>2, <1>3, <1>5, <1>8, <1>9 DEF Became, Shaped
<1>11. \A g : Became(d, AddGroupPair(e, c, g, l), y)
    <2> TAKE g
    <2>1. SameLayout(e, AddGroupPair(e, c, g, l))
        BY <1>3, PairLayout
    <2>2. Became(e, AddGroupPair(e, c, g, l), y)
        BY <1>3, <1>10, <2>1, LayoutBecame DEF Became
    <2>3. QED
        BY <1>10, <2>2, BecameOn
<1>12. Became(d, Insert(d, c, i, l), y)
    BY <1>10, <1>11, Zenon DEF Insert, e, f
<1>13. QED
    BY <1>12 DEF y

\* A layer is taken out of its canvas.
LEMMA EraseIs ==
    ASSUME NEW d, Shaped(d), NEW c \in Canvases, NEW l \in Layers, Found(d, c, l)
    PROVE  Became(d, Erase(d, c, l), Del(d.content, c, l)) /\ Erase(d, c, l).canvas = d.canvas
<1> DEFINE y == Del(d.content, c, l)
           e == [d EXCEPT !.content[c] = RemoveAt(@, Index(d, c, l) + 1)]
<1>0. /\ d.canvas \in [Layers -> Canvases \union {NoCanvas}] /\ Situated(d) /\ d.content \in Contents
      /\ d.parent \in [Canvases -> Canvases \union {NoCanvas}] /\ IsDoc(d)
    BY DEF Shaped
<1>1. IsDoc(e) /\ e.content = y /\ e.canvas = d.canvas /\ e.parent = d.parent
    BY <1>0, IndexIs DEF IsDoc, Del
<1>2. /\ y \in Contents
      /\ ~Placed(y, l)
      /\ \A m \in Layers, b \in Canvases : m # l => (m \in Range(y[b]) <=> m \in Range(d.content[b]))
    BY <1>0, DelIs DEF Found
<1> HIDE DEF y, e
<1>3. \A b \in Canvases, m \in Layers : Found(e, b, m) => Found(d, b, m)
    BY <1>1, <1>2 DEF Found, Placed
<1>4. Situated(e)
    BY <1>0, <1>1, <1>3 DEF Situated
<1>5. Became(d, e, y)
    BY <1>0, <1>1, <1>2, <1>4 DEF Became, Shaped, Grown
<1>6. \A g : Became(d, RemoveGroupPair(e, c, g, l), y) /\ RemoveGroupPair(e, c, g, l).canvas = d.canvas
    <2> TAKE g
    <2>1. SameLayout(e, RemoveGroupPair(e, c, g, l))
        BY <1>1, PairLayout
    <2>2. Became(e, RemoveGroupPair(e, c, g, l), y)
        BY <1>1, <1>5, <2>1, LayoutBecame DEF Became
    <2>3. QED
        BY <1>1, <1>5, <2>1, <2>2, BecameOn DEF SameLayout
<1>7. Became(d, Erase(d, c, l), y) /\ Erase(d, c, l).canvas = d.canvas
    BY <1>1, <1>5, <1>6, Zenon DEF Erase, e
<1>8. QED
    BY <1>7 DEF y

-----------------------------------------------------------------------------
(***************************************************************************)
(* Single actions.                                                         *)
(***************************************************************************)

IsAdd(a) == a \in [name : {"LayerAdd"}, canvas : Canvases, layer : Layers]

IsRemove(a) ==
    a \in [name : {"LayerRemove"}, canvas : Canvases, layers : Seq(Layers), depth : [1..Len(a.layers) -> Nat]]

IsMove(a) ==
    a \in [name : {"LayerMove"}, canvas : Canvases, layer : Layers, src : Canvases \union {NoCanvas},
           dest : Canvases \union {NoCanvas}, old : Nat, new : Nat]

\* Layers removed one after another, none of them behind the end.
Emptied(a, z) ==
    /\ z \in [0..Len(a.layers) -> Contents]
    /\ \A i \in 1..Len(a.layers) :
         /\ a.layers[i] \in Range(z[i - 1][a.canvas])
         /\ z[i] = Del(z[i - 1], a.canvas, a.layers[i])
         /\ a.depth[i] = Pos(z[i - 1], a.canvas, a.layers[i])
         /\ a.depth[i] <= Len(z[i - 1][a.canvas]) - 2

Moved(a, x) ==
    IF a.old = a.new /\ a.src = a.dest THEN x
    ELSE Ins(Del(x, a.src, a.layer), a.dest, Min({a.new, Len(x[a.dest]) - 1}), a.layer)

\* An action was done where the contents were x, and made y of them.
DidAdd(a, x, y) == IsAdd(a) /\ ~Placed(x, a.layer) /\ y = Ins(x, a.canvas, 0, a.layer)

DidRemove(a, x, y) == IsRemove(a) /\ \E z : Emptied(a, z) /\ x = z[0] /\ y = z[Len(a.layers)]

DidMove(a, x, y) ==
    /\ IsMove(a)
    /\ a.src \in Canvases /\ a.dest \in Canvases
    /\ a.layer \in Range(x[a.src])
    /\ a.old = Pos(x, a.src, a.layer)
    /\ y = Moved(a, x)

Did(a, x, y) ==
    /\ x \in Contents /\ y \in Contents
    /\ DidAdd(a, x, y) \/ DidRemove(a, x, y) \/ DidMove(a, x, y)

\* It can be undone.
Sure(a) == a.name = "LayerMove" => a.canvas = a.dest \/ a.dest # Root

\* What comes of undoing a, from y back to x.
UndidTo(d, a, r, x) ==
    /\ r.act = a
    /\ r.ok = Sure(a)
    /\ Became(d, r.doc, IF Sure(a) THEN x ELSE d.content)

\* What comes of doing a again, to y.
RedidTo(d, a, r, y) == r.ok = TRUE /\ r.act = a /\ Became(d, r.doc, y)

\* The lesser of two numbers.
LEMMA MinIs ==
    ASSUME NEW m \in Int, NEW n \in Int
    PROVE  Min({m, n}) = IF m <= n THEN m ELSE n
<1>1. \E i \in {m, n} : \A j \in {m, n} : i <= j
    OBVIOUS
<1>2. Min({m, n}) \in {m, n} /\ \A j \in {m, n} : Min({m, n}) <= j
    BY <1>1, Zenon DEF Min
<1>3. QED
    BY <1>2

\* An addition is undone.
LEMMA UndoAddDid ==
    ASSUME NEW a, NEW x \in Contents, NEW y, DidAdd(a, x, y), NEW d, Shaped(d), d.content = y
    PROVE  UndidTo(d, a, UndoLayerAdd(a, d), x)
<1>1. a.canvas \in Canvases /\ a.layer \in Layers /\ Sure(a) /\ Sure(a) \in BOOLEAN
    BY DEF DidAdd, IsAdd, Sure
<1>2. 0 \in 0..Len(x[a.canvas])
    BY <1>1, ContentOf
<1>3. Found(d, a.canvas, a.layer)
    BY <1>1, <1>2, InsIs DEF DidAdd, Found
<1>4. Del(y, a.canvas, a.layer) = x
    BY <1>1, <1>2, DelIns DEF DidAdd
<1>5. Became(d, Erase(d, a.canvas, a.layer), x)
    BY <1>1, <1>3, <1>4, EraseIs
<1>6. UndoLayerAdd(a, d) = [ok |-> TRUE, doc |-> Erase(d, a.canvas, a.layer), act |-> a]
    BY <1>3, Zenon DEF UndoLayerAdd, OK
<1>7. QED
    BY <1>1, <1>5, <1>6 DEF UndidTo

\* So is a move, where it was made in one canvas or into a group.
LEMMA UndoMoveDid ==
    ASSUME NEW a, NEW x \in Contents, NEW y, DidMove(a, x, y), NEW d, Shaped(d), d.content = y
    PROVE  UndidTo(d, a, UndoLayerMove(a, d), x)
<1> DEFINE l == a.layer
           w == Del(x, a.src, l)
           depth == Min({a.new, Len(x[a.dest]) - 1})
           stays == a.old = a.new /\ a.src = a.dest
           back == Insert(Erase(d, a.dest, l), a.src, a.old, l)
<1>1. /\ a.src \in Canvases /\ a.dest \in Canvases /\ l \in Layers /\ a.new \in Nat /\ a.name = "LayerMove"
      /\ l \in Range(x[a.src])
      /\ a.old = Pos(x, a.src, l)
    BY DEF DidMove, IsMove
<1>2. /\ w \in Contents /\ ~Placed(w, l) /\ Len(w[a.src]) = Len(x[a.src]) - 1
      /\ \A b \in Canvases : b # a.src => w[b] = x[b]
    BY <1>1, DelIs
<1>3. a.old \in 0..Len(w[a.src])
    BY <1>1, <1>2, PosIs
<1>4. Len(x[a.dest]) \in Nat /\ Len(x[a.dest]) >= 1 /\ Len(w[a.dest]) \in Nat
    BY <1>1, <1>2, ContentOf
<1>5. depth \in 0..Len(w[a.dest])
    <2>1. Len(w[a.dest]) = Len(x[a.dest]) \/ Len(w[a.dest]) = Len(x[a.dest]) - 1
        BY <1>1, <1>2
    <2>2. depth = IF a.new <= Len(x[a.dest]) - 1 THEN a.new ELSE Len(x[a.dest]) - 1
        BY <1>1, <1>4, MinIs
    <2>3. QED
        BY <1>1, <1>4, <2>1, <2>2
<1>6. y = IF stays THEN x ELSE Ins(w, a.dest, depth, l)
    BY DEF DidMove, Moved
<1>7. Ins(w, a.src, a.old, l) = x
    BY <1>1, InsDel
<1> HIDE DEF w, depth
<1>8. Found(d, a.dest, l)
    BY <1>1, <1>2, <1>5, <1>6, InsIs DEF Found
<1>9. ~stays => Became(d, back, x)
    <2> SUFFICES ASSUME ~stays PROVE Became(d, back, x)
        OBVIOUS
    <2>1. Del(y, a.dest, l) = w
        BY <1>1, <1>2, <1>5, <1>6, DelIns
    <2> DEFINE e == Erase(d, a.dest, l)
    <2>2. Became(d, e, w)
        BY <1>1, <1>8, <2>1, EraseIs
    <2> HIDE DEF e
    <2>3. Became(e, Insert(e, a.src, a.old, l), x)
        <3>1. Shaped(e) /\ e.content = w
            BY <2>2 DEF Became
        <3>2. Became(e, Insert(e, a.src, a.old, l), Ins(e.content, a.src, a.old, l))
            BY <1>1, <1>2, <1>3, <3>1, InsertIs
        <3>3. QED
            BY <1>7, <3>1, <3>2
    <2>4. Became(d, Insert(e, a.src, a.old, l), x)
        BY <2>2, <2>3, BecameOn
    <2>5. QED
        BY <2>4 DEF e
<1>10. UndoLayerMove(a, d) =
         IF a.canvas # a.dest /\ a.dest = Root THEN [ok |-> FALSE, doc |-> d, act |-> a]
         ELSE IF stays THEN [ok |-> TRUE, doc |-> d, act |-> a]
         ELSE [ok |-> TRUE, doc |-> back, act |-> a]
    BY <1>8, Zenon DEF UndoLayerMove, OK, Throw
<1> HIDE DEF back
<1>11. Sure(a) <=> ~(a.canvas # a.dest /\ a.dest = Root)
    BY <1>1 DEF Sure
<1>12. Became(d, d, y)
    BY BecameSame
<1>13. Sure(a) \in BOOLEAN
    BY DEF Sure
<1> DEFINE r == UndoLayerMove(a, d)
<1>14. CASE ~Sure(a)
    <2>1. r = [ok |-> FALSE, doc |-> d, act |-> a]
        BY <1>10, <1>11, <1>14
    <2>2. Sure(a) = FALSE
        BY <1>13, <1>14
    <2>3. r.ok = FALSE /\ r.act = a /\ r.doc = d
        BY <2>1
    <2> HIDE DEF r
    <2>4. QED
        BY <1>12, <1>14, <2>2, <2>3, Zenon DEF UndidTo, r
<1>15. CASE Sure(a) /\ stays
    <2>1. r = [ok |-> TRUE, doc |-> d, act |-> a]
        BY <1>10, <1>11, <1>15
    <2>2. Became(d, d, x)
        BY <1>6, <1>12, <1>15
    <2> HIDE DEF r
    <2>3. QED
        BY <1>13, <1>15, <2>1, <2>2 DEF UndidTo, r
<1>16. CASE Sure(a) /\ ~stays
    <2>1. r = [ok |-> TRUE, doc |-> back, act |-> a]
        BY <1>10, <1>11, <1>16
    <2> HIDE DEF r
    <2>2. QED
        BY <1>9, <1>13, <1>16, <2>1 DEF UndidTo, r
<1>17. QED
    BY <1>14, <1>15, <1>16

\* So is a removal.
LEMMA UndoRemoveDid ==
    ASSUME NEW a, NEW x, NEW y, DidRemove(a, x, y), NEW d, Shaped(d), d.content = y
    PROVE  UndidTo(d, a, UndoLayerRemove(a, d), x)
<1> DEFINE m == Len(a.layers)
           c == a.canvas
<1>1. /\ a.layers \in Seq(Layers) /\ c \in Canvases /\ a.depth \in [1..m -> Nat] /\ IsRemove(a)
      /\ m \in Nat /\ Sure(a)
    BY LenProperties DEF DidRemove, IsRemove, Sure
<1>2. PICK z : Emptied(a, z) /\ x = z[0] /\ y = z[m]
    BY DEF DidRemove
<1>3. PICK f : BackRun(a, m, d, m, f) /\ UndoLayerRemove(a, d) = f[m]
    BY <1>1, BackIs
<1> HIDE DEF m
<1>4. /\ z \in [0..m -> Contents]
      /\ \A i \in 1..m :
           /\ a.layers[i] \in Layers
           /\ a.layers[i] \in Range(z[i - 1][c])
           /\ z[i] = Del(z[i - 1], c, a.layers[i])
           /\ a.depth[i] = Pos(z[i - 1], c, a.layers[i])
           /\ a.depth[i] <= Len(z[i - 1][c]) - 2
    BY <1>1, <1>2, ElementOfSeq DEF Emptied, m
<1> HIDE DEF c
<1> DEFINE P(k) == f[k].ok = TRUE /\ f[k].act = a /\ Became(d, f[k].doc, z[m - k])
           S == {k \in 0..m : ~P(k)}
<1>5. S = {}
    <2> SUFFICES ASSUME S # {} PROVE FALSE
        OBVIOUS
    <2>1. PICK k \in S : \A j \in S : k <= j
        <3>1. S \in SUBSET Nat
            OBVIOUS
        <3>2. QED
            BY <3>1, LeastExists
    <2>2. k \in 0..m /\ ~P(k) /\ f[k] = IF k = 0 THEN OK(d, a) ELSE BackStep(a, m, d, m + 1 - k, f[k - 1])
        BY <1>3, <2>1 DEF BackRun
    <2>3. CASE k = 0
        <3>1. f[k].ok = TRUE /\ f[k].act = a /\ f[k].doc = d
            BY <2>2, <2>3 DEF OK
        <3>2. Became(d, d, z[m])
            BY <1>2, BecameSame DEF m
        <3>3. m - k = m
            BY <1>1, <2>3
        <3>4. QED
            BY <2>2, <3>1, <3>2, <3>3
    <2>4. CASE k # 0
        <3> DEFINE i == m + 1 - k
        <3>1. k - 1 \in 0..m /\ ~(k <= k - 1) /\ m - (k - 1) = i /\ i \in 1..m /\ i - 1 = m - k /\ i - 1 \in 0..m /\ i \in 0..m
            BY <1>1, <2>2, <2>4
        <3>2. P(k - 1)
            BY <2>1, <3>1
        <3> DEFINE r == f[k - 1]
                   e == r.doc
                   l == a.layers[i]
                   at == Min({r.act.depth[i], Size(e, c)})
                   q == SetCanvas(e, l, c)
        <3>3. r.ok = TRUE /\ r.act = a /\ Became(d, e, z[i])
            BY <3>1, <3>2
        <3>4. f[k] = OK(Insert(q, c, at, l), [r.act EXCEPT !.depth[i] = at])
            BY <2>2, <2>4, Zenon DEF BackStep, c
        <3> HIDE DEF i, r, e, P
        <3>5. l \in Layers /\ l \in Range(z[i - 1][c]) /\ z[i] = Del(z[i - 1], c, l) /\ a.depth[i] = Pos(z[i - 1], c, l)
                /\ a.depth[i] <= Len(z[i - 1][c]) - 2 /\ z[i - 1] \in Contents /\ z[i] \in Contents /\ a.depth[i] \in Nat /\ c \in Canvases
            BY <1>1, <1>4, <3>1 DEF c
        <3> HIDE DEF l
        <3>6. /\ ~Placed(z[i], l) /\ Len(z[i][c]) = Len(z[i - 1][c]) - 1
              /\ Len(z[i][c]) \in Nat /\ Len(z[i - 1][c]) \in Nat
            <4> DEFINE u == z[i - 1]
                       v == z[i]
            <4>1. u \in Contents /\ v \in Contents /\ v = Del(u, c, l) /\ l \in Range(u[c]) /\ l \in Layers /\ c \in Canvases
                BY <3>5
            <4> HIDE DEF u, v
            <4>2. ~Placed(v, l) /\ Len(v[c]) = Len(u[c]) - 1 /\ Len(v[c]) \in Nat /\ Len(u[c]) \in Nat
                BY <4>1, DelIs, ContentOf
            <4>3. QED
                BY <4>2 DEF u, v
        <3>7. at = a.depth[i] /\ at \in 0..Len(z[i][c])
            <4>1. Size(e, c) = Len(z[i][c]) - 1
                BY <3>3 DEF Size, Became
            <4>2. at = IF a.depth[i] <= Len(z[i][c]) - 1 THEN a.depth[i] ELSE Len(z[i][c]) - 1
                BY <3>3, <3>5, <3>6, <4>1, MinIs
            <4>3. QED
                BY <3>5, <3>6, <4>2
        <3> HIDE DEF at
        <3>8. Became(d, q, z[i])
            BY <3>3, <3>5, <3>6, SetCanvasIs, BecameOn DEF Became
        <3> HIDE DEF q
        <3>9. Ins(z[i], c, at, l) = z[i - 1]
            BY <3>5, <3>7, InsDel
        <3>10. Became(d, Insert(q, c, at, l), z[i - 1])
            <4>1. Shaped(q) /\ q.content = z[i]
                BY <3>8 DEF Became
            <4>2. Became(q, Insert(q, c, at, l), Ins(q.content, c, at, l))
                BY <3>5, <3>6, <3>7, <4>1, InsertIs
            <4>3. QED
                BY <3>8, <3>9, <4>1, <4>2, BecameOn
        <3>11. [r.act EXCEPT !.depth[i] = at] = a
            BY <1>1, <3>1, <3>3, <3>7 DEF IsRemove
        <3>12. P(k)
            BY <3>1, <3>4, <3>10, <3>11 DEF OK, P
        <3>13. QED
            BY <2>2, <3>12
    <2>5. QED
        BY <2>3, <2>4
<1>6. P(m)
    BY <1>1, <1>5
<1>7. m - m = 0
    BY <1>1
<1>8. Sure(a) \in BOOLEAN
    BY DEF Sure
<1>9. QED
    BY <1>1, <1>2, <1>3, <1>6, <1>7, <1>8 DEF UndidTo

\* What was done can be undone.
LEMMA UndoDid ==
    ASSUME NEW a, NEW x, NEW y, Did(a, x, y), NEW d, Shaped(d), d.content = y
    PROVE  UndidTo(d, a, UndoOne(a, d), x)
<1>1. CASE DidAdd(a, x, y)
    <2>1. UndoOne(a, d) = UndoLayerAdd(a, d)
        BY <1>1 DEF UndoOne, DidAdd, IsAdd
    <2>2. QED
        BY <1>1, <2>1, UndoAddDid DEF Did
<1>2. CASE DidRemove(a, x, y)
    <2>1. UndoOne(a, d) = UndoLayerRemove(a, d)
        BY <1>2 DEF UndoOne, DidRemove, IsRemove
    <2>2. QED
        BY <1>2, <2>1, UndoRemoveDid
<1>3. CASE DidMove(a, x, y)
    <2>1. UndoOne(a, d) = UndoLayerMove(a, d)
        BY <1>3 DEF UndoOne, DidMove, IsMove
    <2>2. QED
        BY <1>3, <2>1, UndoMoveDid DEF Did
<1>4. QED
    BY <1>1, <1>2, <1>3 DEF Did

\* What is behind the others.
LastOf(x, c) == x[c][Len(x[c])]

\* It stays where another is taken out.
LEMMA DelLast ==
    ASSUME NEW x \in Contents, NEW c \in Canvases, NEW l \in Layers, l \in Range(x[c]), LastOf(x, c) # l
    PROVE  Pos(x, c, l) <= Len(x[c]) - 2 /\ \A b \in Canvases : LastOf(Del(x, c, l), b) = LastOf(x, b)
<1> DEFINE n == Len(x[c])
           k == Pos(x, c, l) + 1
           y == Del(x, c, l)
<1>1. x[c] \in Seq(Layers \union {Blank}) /\ n \in Nat
    BY ContentOf
<1>2. k \in 1..n /\ x[c][k] = l /\ Pos(x, c, l) \in Int
    BY <1>1, PosIs
<1>3. k # n
    BY <1>2 DEF LastOf
<1>4. Pos(x, c, l) <= n - 2
    BY <1>1, <1>2, <1>3
<1>5. y[c] = RemoveAt(x[c], k) /\ \A b \in Canvases : b # c => y[b] = x[b]
    BY DEF Del, Contents
<1>6. Len(y[c]) = n - 1 /\ y[c][n - 1] = x[c][n]
    <2> DEFINE s == x[c]
    <2>1. s \in Seq(Layers \union {Blank}) /\ k \in 1..Len(s)
        BY <1>1, <1>2
    <2> HIDE DEF s, k
    <2>2. Len(RemoveAt(s, k)) = Len(s) - 1 /\ \A j \in 1..(Len(s) - 1) : RemoveAt(s, k)[j] = IF j < k THEN s[j] ELSE s[j + 1]
        BY <2>1, RemoveAtIs
    <2>3. n = Len(s) /\ n - 1 \in 1..(n - 1) /\ ~(n - 1 < k) /\ n - 1 + 1 = n
        BY <1>1, <1>2, <1>3 DEF s
    <2>4. RemoveAt(s, k)[n - 1] = s[n]
        BY <2>2, <2>3
    <2>5. QED
        BY <1>5, <2>2, <2>3, <2>4 DEF s
<1>7. ASSUME NEW b \in Canvases PROVE LastOf(y, b) = LastOf(x, b)
    <2>1. CASE b = c
        BY <1>6, <2>1 DEF LastOf
    <2>2. CASE b # c
        BY <1>5, <2>2 DEF LastOf
    <2>3. QED
        BY <2>1, <2>2
<1>8. QED
    BY <1>4, <1>7

\* Or where another comes in, not behind it.
LEMMA InsLast ==
    ASSUME NEW x \in Contents, NEW c \in Canvases, NEW i \in 0..Len(x[c]), NEW l \in Layers, ~Placed(x, l)
    PROVE  /\ \A b \in Canvases : b # c \/ i < Len(x[c]) => LastOf(Ins(x, c, i, l), b) = LastOf(x, b)
           /\ i = Len(x[c]) => LastOf(Ins(x, c, i, l), c) = l
<1> DEFINE n == Len(x[c])
           k == i + 1
           y == Ins(x, c, i, l)
<1>1. x[c] \in Seq(Layers \union {Blank}) /\ n \in Nat
    BY ContentOf
<1>2. k \in 1..(n + 1)
    BY <1>1
<1>3. y[c] = InsertAt(x[c], k, l) /\ \A b \in Canvases : b # c => y[b] = x[b]
    BY DEF Ins, Contents
<1>4. Len(y[c]) = n + 1 /\ (k = n + 1 => y[c][n + 1] = l) /\ (k <= n => y[c][n + 1] = x[c][n])
    <2> DEFINE s == x[c]
               T == Layers \union {Blank}
    <2>1. s \in Seq(T) /\ k \in 1..(Len(s) + 1) /\ l \in T
        BY <1>1, <1>2
    <2>2. n = Len(s)
        OBVIOUS
    <2> HIDE DEF s, k, n, T
    <2>3. /\ Len(InsertAt(s, k, l)) = Len(s) + 1
          /\ InsertAt(s, k, l)[k] = l
          /\ \A j \in (k + 1)..(Len(s) + 1) : InsertAt(s, k, l)[j] = s[j - 1]
        BY <2>1, InsertAtIs
    <2>4. k <= n => n + 1 \in (k + 1)..(n + 1) /\ n + 1 - 1 = n
        BY <1>1, <1>2
    <2>5. k <= n => InsertAt(s, k, l)[n + 1] = s[n]
        BY <2>2, <2>3, <2>4
    <2>6. k = n + 1 => InsertAt(s, k, l)[n + 1] = l
        BY <2>3
    <2>7. y[c] = InsertAt(s, k, l)
        BY <1>3 DEF s
    <2> HIDE DEF y
    <2>8. y[c][n + 1] = InsertAt(s, k, l)[n + 1]
        BY <2>7
    <2>9. Len(y[c]) = n + 1
        BY <2>2, <2>3, <2>7
    <2>10. k <= n => y[c][n + 1] = s[n]
        BY <2>5, <2>8
    <2>11. QED
        BY <2>6, <2>8, <2>9, <2>10 DEF s
<1>5. ASSUME NEW b \in Canvases, b # c \/ i < n PROVE LastOf(y, b) = LastOf(x, b)
    <2>1. CASE b = c
        BY <1>1, <1>2, <1>4, <1>5, <2>1 DEF LastOf
    <2>2. CASE b # c
        BY <1>3, <2>2 DEF LastOf
    <2>3. QED
        BY <2>1, <2>2
<1>6. i = n => LastOf(y, c) = l
    BY <1>4 DEF LastOf
<1>7. QED
    BY <1>5, <1>6

\* An addition is done, or done again.
LEMMA AddDone ==
    ASSUME NEW d, Shaped(d), NEW a, IsAdd(a), ~Placed(d.content, a.layer)
    PROVE  LET r == PerformLayerAdd(a, d)
           IN  r.ok = TRUE /\ r.act = a /\ Became(d, r.doc, Ins(d.content, a.canvas, 0, a.layer))
<1> DEFINE e == SetCanvas(d, a.layer, a.canvas)
           y == Ins(d.content, a.canvas, 0, a.layer)
<1>1. a.canvas \in Canvases /\ a.layer \in Layers
    BY DEF IsAdd
<1>2. Became(d, e, d.content)
    BY <1>1, SetCanvasIs
<1>3. PerformLayerAdd(a, d) = [ok |-> TRUE, doc |-> Insert(e, a.canvas, 0, a.layer), act |-> a]
    BY Zenon DEF PerformLayerAdd, OK
<1> HIDE DEF e
<1>4. d.content \in Contents
    BY DEF Shaped
<1>5. 0 \in 0..Len(d.content[a.canvas])
    BY <1>1, <1>4, ContentOf
<1>6. Shaped(e) /\ e.content = d.content
    BY <1>2 DEF Became
<1>7. Became(e, Insert(e, a.canvas, 0, a.layer), y)
    BY <1>1, <1>5, <1>6, InsertIs
<1>8. Became(d, Insert(e, a.canvas, 0, a.layer), y)
    BY <1>2, <1>7, BecameOn
<1>9. QED
    BY <1>3, <1>8

\* One action remembers what it has to where the other was done.
MoveLike(b, a) ==
    /\ IsMove(b) /\ IsMove(a)
    /\ a.canvas = b.canvas /\ a.layer = b.layer /\ a.new = b.new
    /\ a.dest = IF b.dest = NoCanvas THEN a.src ELSE b.dest

\* A layer moves, if it is in a canvas.
LEMMA MoveDone ==
    ASSUME NEW d, Shaped(d), NEW b, IsMove(b), d.canvas[b.layer] # NoCanvas
    PROVE  LET r == PerformLayerMove(b, d)
           IN  /\ MoveLike(b, r.act)
               /\ r.act.src = d.canvas[b.layer]
               /\ Placed(d.content, b.layer) =>
                    /\ r.ok = TRUE
                    /\ DidMove(r.act, d.content, Moved(r.act, d.content))
                    /\ Became(d, r.doc, Moved(r.act, d.content))
               /\ ~Placed(d.content, b.layer) => r.ok = FALSE /\ r.doc = d
<1> DEFINE l == b.layer
           src == d.canvas[l]
           dest == IF b.dest = NoCanvas THEN src ELSE b.dest
           x == d.content
           a == Source(b, d)
           old == IF Found(d, src, l) THEN Index(d, src, l) ELSE b.old
           depth == Min({a.new, Size(d, a.dest)})
           moved == Insert(Erase(d, a.src, a.layer), a.dest, depth, a.layer)
<1>1. /\ b \in [name : {"LayerMove"}, canvas : Canvases, layer : Layers, src : Canvases \union {NoCanvas},
               dest : Canvases \union {NoCanvas}, old : Nat, new : Nat]
      /\ d.canvas \in [Layers -> Canvases \union {NoCanvas}] /\ Situated(d) /\ x \in Contents
    BY DEF IsMove, Shaped
<1>2. src \in Canvases /\ dest \in Canvases /\ l \in Layers /\ NoCanvas \notin Canvases
    BY <1>1, LayersAssumption
<1>3. Found(d, src, l) <=> Placed(x, l)
    BY <1>1, <1>2 DEF Found, Placed, Situated
<1>4. Found(d, src, l) => Index(d, src, l) = Pos(x, src, l) /\ Pos(x, src, l) \in Nat /\ Pos(x, src, l) \in 0..(Len(x[src]) - 1)
    <2>1. ASSUME Found(d, src, l) PROVE Pos(x, src, l) \in 0..(Len(x[src]) - 1)
        BY <1>1, <1>2, <2>1, PosIs DEF Found
    <2>2. QED
        BY <2>1, IndexIs
<1>5. old \in Nat
    BY <1>1, <1>4
<1>6. a = [b EXCEPT !.src = src, !.dest = dest, !.old = old]
    BY Zenon DEF Source
<1> HIDE DEF old, dest, src, a
<1>7. /\ IsMove(a) /\ a.src = src /\ a.dest = dest /\ a.old = old /\ a.canvas = b.canvas /\ a.layer = l /\ a.new = b.new
    BY <1>1, <1>2, <1>5, <1>6 DEF IsMove
<1>8. MoveLike(b, a)
    BY <1>1, <1>7 DEF MoveLike, IsMove, dest
<1>9. PerformLayerMove(b, d) = IF ~Found(d, src, l) THEN [ok |-> FALSE, doc |-> d, act |-> a]
                               ELSE IF a.old = a.new /\ a.src = a.dest THEN [ok |-> TRUE, doc |-> d, act |-> a]
                               ELSE [ok |-> TRUE, doc |-> moved, act |-> a]
    BY <1>7, Zenon DEF PerformLayerMove, OK, Throw, a
<1>10. CASE ~Placed(x, l)
    <2>1. PerformLayerMove(b, d) = [ok |-> FALSE, doc |-> d, act |-> a]
        BY <1>3, <1>9, <1>10
    <2>2. QED
        BY <1>7, <1>8, <1>10, <2>1 DEF src
<1>11. CASE Placed(x, l)
    <2> DEFINE y == Moved(a, x)
               r == PerformLayerMove(b, d)
    <2>1. Found(d, src, l) /\ l \in Range(x[src]) /\ a.old = Pos(x, src, l)
        BY <1>3, <1>4, <1>7, <1>11 DEF Found, old
    <2>2. DidMove(a, x, y)
        BY <1>2, <1>7, <2>1 DEF DidMove
    <2>3. CASE a.old = a.new /\ a.src = a.dest
        <3>1. r = [ok |-> TRUE, doc |-> d, act |-> a]
            BY <1>9, <2>1, <2>3
        <3>2. Became(d, d, y)
            BY <2>3, BecameSame DEF Moved
        <3> HIDE DEF y
        <3>3. QED
            BY <1>7, <1>8, <1>11, <2>2, <3>1, <3>2 DEF src, y
    <2>4. CASE ~(a.old = a.new /\ a.src = a.dest)
        <3> DEFINE w == Del(x, src, l)
                   e == Erase(d, src, l)
        <3>1. r = [ok |-> TRUE, doc |-> Insert(e, dest, depth, l), act |-> a]
            BY <1>7, <1>9, <2>1, <2>4
        <3>2. Became(d, e, w)
            BY <1>2, <2>1, EraseIs
        <3> HIDE DEF e
        <3>3. /\ w \in Contents /\ ~Placed(w, l) /\ Len(w[src]) = Len(x[src]) - 1
              /\ \A c \in Canvases : c # src => w[c] = x[c]
            BY <1>1, <1>2, <2>1, DelIs
        <3>4. Len(x[dest]) \in Nat /\ Len(x[dest]) >= 1 /\ Len(w[dest]) \in Nat
            BY <1>1, <1>2, <3>3, ContentOf
        <3>5. depth = Min({a.new, Len(x[dest]) - 1})
            BY <1>7 DEF Size
        <3>6. depth \in 0..Len(w[dest])
            <4>1. Len(w[dest]) = Len(x[dest]) \/ Len(w[dest]) = Len(x[dest]) - 1
                BY <1>2, <3>3
            <4>2. a.new \in Nat
                BY <1>7 DEF IsMove
            <4>3. depth = IF a.new <= Len(x[dest]) - 1 THEN a.new ELSE Len(x[dest]) - 1
                BY <3>4, <3>5, <4>2, MinIs
            <4>4. QED
                BY <3>4, <4>1, <4>2, <4>3
        <3>7. y = Ins(w, dest, depth, l)
            BY <1>7, <2>4, <3>5 DEF Moved
        <3> HIDE DEF w, depth, y
        <3>8. Became(e, Insert(e, dest, depth, l), y)
            <4>1. Shaped(e) /\ e.content = w
                BY <3>2 DEF Became
            <4>2. Became(e, Insert(e, dest, depth, l), Ins(e.content, dest, depth, l))
                BY <1>2, <3>3, <3>6, <4>1, InsertIs
            <4>3. QED
                BY <3>7, <4>1, <4>2
        <3>9. Became(d, Insert(e, dest, depth, l), y)
            BY <3>2, <3>8, BecameOn
        <3>10. QED
            BY <1>7, <1>8, <1>11, <2>2, <3>1, <3>9 DEF src, y
    <2>5. QED
        BY <2>3, <2>4
<1>12. QED
    BY <1>10, <1>11

\* A move is done again where the same is found.
LEMMA MoveAgain ==
    ASSUME NEW a, NEW x \in Contents, NEW y, DidMove(a, x, y), NEW b, MoveLike(b, a), NEW d, Shaped(d), d.content = x
    PROVE  RedidTo(d, a, PerformLayerMove(b, d), y)
<1> DEFINE r == PerformLayerMove(b, d)
           l == b.layer
<1>1. /\ IsMove(a) /\ IsMove(b) /\ a.canvas = b.canvas /\ a.layer = l /\ a.new = b.new
      /\ a.dest = IF b.dest = NoCanvas THEN a.src ELSE b.dest
      /\ a.src \in Canvases /\ l \in Layers /\ l \in Range(x[a.src]) /\ a.old = Pos(x, a.src, l) /\ y = Moved(a, x)
    BY DEF DidMove, MoveLike, IsMove
<1>2. d.canvas[l] = a.src /\ NoCanvas \notin Canvases /\ Placed(x, l)
    BY <1>1, LayersAssumption DEF Shaped, Situated, Found, Placed
<1>3. /\ MoveLike(b, r.act) /\ r.act.src = a.src /\ r.ok = TRUE
      /\ DidMove(r.act, x, Moved(r.act, x))
      /\ Became(d, r.doc, Moved(r.act, x))
    BY <1>1, <1>2, MoveDone
<1> DEFINE q == r.act
<1> HIDE DEF r, q
<1>4. /\ IsMove(q) /\ q.canvas = b.canvas /\ q.layer = l /\ q.new = b.new
      /\ q.dest = IF b.dest = NoCanvas THEN q.src ELSE b.dest
      /\ q.src = a.src /\ q.old = Pos(x, q.src, l)
    BY <1>3 DEF MoveLike, DidMove, q
<1>5. q = a
    <2>1. q.dest = a.dest /\ q.old = a.old /\ q.name = a.name
        BY <1>1, <1>4 DEF IsMove
    <2>2. QED
        BY <1>1, <1>4, <2>1 DEF IsMove
<1>6. QED
    BY <1>1, <1>3, <1>5 DEF RedidTo, q, r

\* Layers of one canvas are removed, or not all of them are found.
LEMMA RemoveDone ==
    ASSUME NEW d, Shaped(d), NEW a, IsRemove(a), NEW s \in Canvases,
           \A i \in 1..Len(a.layers) : d.canvas[a.layers[i]] = s /\ LastOf(d.content, s) # a.layers[i]
    PROVE  LET r == PerformLayerRemove(a, d)
           IN  /\ r.ok \in BOOLEAN
               /\ r.ok => /\ IsRemove(r.act) /\ r.act.layers = a.layers
                          /\ DidRemove(r.act, d.content, r.doc.content)
                          /\ Became(d, r.doc, r.doc.content)
               /\ ~r.ok /\ Len(a.layers) = 1 => r.doc = d /\ r.act = a
<1> DEFINE n == Len(a.layers)
           x == d.content
<1>1. /\ a \in [name : {"LayerRemove"}, canvas : Canvases, layers : Seq(Layers), depth : [1..n -> Nat]]
      /\ n \in Nat /\ x \in Contents
    BY LenProperties DEF IsRemove, Shaped
<1>2. PICK f : TakeRun(a, d, n, f) /\ PerformLayerRemove(a, d) = f[n]
    BY <1>1, TakeIs
<1>3. \A i \in 1..n : a.layers[i] \in Layers /\ d.canvas[a.layers[i]] = s /\ LastOf(x, s) # a.layers[i]
    BY <1>1, ElementOfSeq
<1> HIDE DEF n, x
<1> DEFINE Taken(j, act) ==
             /\ f[j].ok
             /\ a.layers[j] \in Range(f[j - 1].doc.content[s])
             /\ f[j].doc.content = Del(f[j - 1].doc.content, s, a.layers[j])
             /\ act.depth[j] = Pos(f[j - 1].doc.content, s, a.layers[j])
             /\ act.depth[j] <= Len(f[j - 1].doc.content[s]) - 2
           P(i) ==
             /\ f[i].ok \in BOOLEAN
             /\ f[i].ok =>
                  /\ Became(d, f[i].doc, f[i].doc.content) /\ f[i].doc.canvas = d.canvas
                  /\ f[i].act \in [name : {"LayerRemove"}, canvas : Canvases, layers : Seq(Layers), depth : [1..n -> Nat]]
                  /\ f[i].act.layers = a.layers
                  /\ f[i].act.canvas = IF i = 0 THEN a.canvas ELSE s
                  /\ LastOf(f[i].doc.content, s) = LastOf(x, s)
                  /\ \A j \in 1..i : Taken(j, f[i].act)
             /\ ~f[i].ok /\ n = 1 => f[i].doc = d /\ f[i].act = a
             /\ i = 0 => f[i].doc = d /\ f[i].act = a
           S == {i \in 0..n : ~P(i)}
<1> HIDE DEF P, Taken
<1>4. S = {}
    <2> SUFFICES ASSUME S # {} PROVE FALSE
        OBVIOUS
    <2>1. PICK i \in S : \A j \in S : i <= j
        <3>1. S \in SUBSET Nat
            OBVIOUS
        <3>2. QED
            BY <3>1, LeastExists
    <2>2. i \in 0..n /\ ~P(i) /\ f[i] = IF i = 0 THEN OK(d, a) ELSE TakeStep(a, d, i, f[i - 1])
        BY <1>2, <2>1 DEF TakeRun
    <2>3. CASE i = 0
        <3>1. f[0].ok = TRUE /\ f[0].act = a /\ f[0].doc = d
            BY <2>2, <2>3 DEF OK
        <3>2. Became(d, d, d.content)
            BY BecameSame
        <3>3. \A j \in 1..0 : Taken(j, f[0].act)
            OBVIOUS
        <3>4. P(0)
            BY <1>1, <3>1, <3>2, <3>3 DEF x, P
        <3>5. QED
            BY <2>2, <2>3, <3>4
    <2>4. CASE i # 0
        <3> DEFINE r == f[i - 1]
                   e == r.doc
                   l == a.layers[i]
                   sub == e.canvas[l]
        <3>1. i - 1 \in 0..n /\ ~(i <= i - 1) /\ i \in 1..n
            BY <1>1, <2>2, <2>4
        <3>2. P(i - 1)
            BY <2>1, <3>1
        <3>3. f[i] = IF ~r.ok THEN r
                     ELSE IF ~Found(e, sub, l) \/ (sub # r.act.canvas /\ sub = Root) THEN Throw(e, r.act)
                     ELSE OK(Erase(e, sub, l), [r.act EXCEPT !.canvas = sub, !.depth[i] = Index(e, sub, l)])
            BY <2>2, <2>4, Zenon DEF TakeStep
        <3>4. CASE ~r.ok
            <4>1. f[i] = r
                BY <3>3, <3>4
            <4>2. P(i)
                <5>1. f[i - 1].ok \in BOOLEAN /\ (~f[i - 1].ok /\ n = 1 => f[i - 1].doc = d /\ f[i - 1].act = a)
                    BY <3>2 DEF P
                <5>2. f[i].ok \in BOOLEAN /\ ~f[i].ok /\ (~f[i].ok /\ n = 1 => f[i].doc = d /\ f[i].act = a)
                    BY <3>4, <4>1, <5>1
                <5>3. QED
                    BY <2>4, <5>2 DEF P
            <4>3. QED
                BY <2>2, <4>2
        <3>5. CASE r.ok /\ (~Found(e, sub, l) \/ (sub # r.act.canvas /\ sub = Root))
            <4>1. f[i].ok = FALSE /\ f[i].doc = e /\ f[i].act = r.act
                <5> HIDE DEF r, e, sub, l
                <5>1. f[i] = Throw(e, r.act)
                    BY <3>3, <3>5, Zenon
                <5>2. QED
                    BY <5>1 DEF Throw
            <4>2. n = 1 => e = d /\ r.act = a
                <5>1. n = 1 => i - 1 = 0
                    BY <3>1
                <5>2. QED
                    BY <3>2, <5>1 DEF P
            <4>3. P(i)
                BY <2>4, <4>1, <4>2 DEF P
            <4>4. QED
                BY <2>2, <4>3
        <3>6. CASE r.ok /\ ~(~Found(e, sub, l) \/ (sub # r.act.canvas /\ sub = Root))
            <4> DEFINE w == e.content
                       q == Erase(e, s, l)
                       at == Index(e, s, l)
                       act == [r.act EXCEPT !.canvas = s, !.depth[i] = at]
            <4>1. /\ Became(d, e, w) /\ e.canvas = d.canvas
                  /\ r.act \in [name : {"LayerRemove"}, canvas : Canvases, layers : Seq(Layers), depth : [1..n -> Nat]]
                  /\ r.act.layers = a.layers
                  /\ LastOf(w, s) = LastOf(x, s)
                  /\ \A j \in 1..(i - 1) : Taken(j, r.act)
                BY <3>2, <3>6 DEF P
            <4>2. l \in Layers /\ sub = s /\ LastOf(w, s) # l
                BY <1>3, <3>1, <4>1
            <4>3. f[i] = OK(q, act)
                BY <3>3, <3>6, <4>2
            <4>4. Found(e, s, l) /\ l \in Range(w[s]) /\ w \in Contents /\ Shaped(e)
                BY <3>6, <4>1, <4>2 DEF Found, Became, Shaped
            <4>5. at = Pos(w, s, l) /\ at \in 0..(Len(w[s]) - 1) /\ at <= Len(w[s]) - 2
                BY <4>2, <4>4, IndexIs, PosIs, DelLast
            <4>6. Became(e, q, Del(w, s, l)) /\ q.canvas = e.canvas
                BY <4>2, <4>4, EraseIs
            <4>7. LastOf(Del(w, s, l), s) = LastOf(x, s)
                BY <4>1, <4>2, <4>4, DelLast
            <4> HIDE DEF q, at
            <4>5a. at \in Nat
                <5>1. w \in Contents /\ s \in Canvases
                    BY <4>4
                <5>2. Len(w[s]) \in Nat
                    BY <5>1, ContentOf
                <5>3. QED
                    BY <4>5, <5>2
            <4>8. f[i].ok = TRUE /\ f[i].doc = q /\ f[i].act = act
                BY <4>3 DEF OK
            <4>9. /\ act \in [name : {"LayerRemove"}, canvas : Canvases, layers : Seq(Layers), depth : [1..n -> Nat]]
                  /\ act.layers = a.layers /\ act.canvas = s
                  /\ act.depth[i] = at
                  /\ \A j \in 1..(i - 1) : act.depth[j] = r.act.depth[j]
                <5> DEFINE b == r.act
                           T == [1..n -> Nat]
                <5>1. b \in [name : {"LayerRemove"}, canvas : Canvases, layers : Seq(Layers), depth : T] /\ b.layers = a.layers
                    BY <4>1
                <5> HIDE DEF b
                <5>2. [b EXCEPT !.canvas = s, !.depth[i] = at] = [b EXCEPT !.canvas = s, !.depth = [b.depth EXCEPT ![i] = at]]
                    BY <5>1
                <5> DEFINE v == [b.depth EXCEPT ![i] = at]
                <5>3. v \in T /\ v[i] = at /\ \A j \in 1..(i - 1) : v[j] = b.depth[j]
                    <6>1. \A j \in 1..(i - 1) : j \in 1..n /\ j # i
                        BY <1>1, <3>1
                    <6>2. b.depth \in [1..n -> Nat] /\ i \in 1..n
                        BY <3>1, <5>1
                    <6> DEFINE w0 == b.depth
                    <6> HIDE DEF w0
                    <6>3. w0 \in [1..n -> Nat]
                        BY <6>2 DEF w0
                    <6>4. [w0 EXCEPT ![i] = at] \in [1..n -> Nat] /\ [w0 EXCEPT ![i] = at][i] = at
                        BY <4>5a, <6>2, <6>3
                    <6>5. \A j \in 1..(i - 1) : [w0 EXCEPT ![i] = at][j] = w0[j]
                        BY <6>1, <6>2, <6>3
                    <6>6. QED
                        BY <6>4, <6>5 DEF w0
                <5> HIDE DEF v, T
                <5>4. [b EXCEPT !.canvas = s, !.depth = v] \in [name : {"LayerRemove"}, canvas : Canvases, layers : Seq(Layers), depth : T]
                    BY <5>1, <5>3
                <5>5. [b EXCEPT !.canvas = s, !.depth = v].layers = a.layers /\ [b EXCEPT !.canvas = s, !.depth = v].canvas = s
                      /\ [b EXCEPT !.canvas = s, !.depth = v].depth = v
                    BY <5>1
                <5>6. act = [b EXCEPT !.canvas = s, !.depth = v]
                    BY <5>2 DEF b, v
                <5> HIDE DEF act
                <5>7. QED
                    BY <5>3, <5>4, <5>5, <5>6 DEF b, T
            <4> HIDE DEF act, w
            <4>10. q.content = Del(w, s, l) /\ Became(d, q, q.content) /\ q.canvas = d.canvas
                BY <4>1, <4>6, BecameOn DEF Became
            <4>11. ASSUME NEW j \in 1..i PROVE Taken(j, act)
                <5>1. CASE j = i
                    BY <4>4, <4>5, <4>8, <4>9, <4>10, <5>1 DEF Taken, w
                <5>2. CASE j # i
                    <6>1. j \in 1..(i - 1)
                        BY <3>1, <5>2
                    <6>2. Taken(j, r.act) /\ act.depth[j] = r.act.depth[j]
                        BY <4>1, <4>9, <6>1
                    <6>3. QED
                        BY <6>2 DEF Taken
                <5>3. QED
                    BY <5>1, <5>2
            <4>12. P(i)
                BY <2>4, <4>7, <4>8, <4>9, <4>10, <4>11 DEF P
            <4>13. QED
                BY <2>2, <4>12
        <3>7. QED
            BY <3>4, <3>5, <3>6
    <2>5. QED
        BY <2>3, <2>4
<1>5. P(n) /\ \A j \in 0..n : P(j)
    BY <1>1, <1>4
<1> DEFINE r == f[n]
<1>6. r.ok \in BOOLEAN /\ (~r.ok /\ n = 1 => r.doc = d /\ r.act = a)
    BY <1>5 DEF P
<1>7. ASSUME r.ok
      PROVE  IsRemove(r.act) /\ r.act.layers = a.layers /\ DidRemove(r.act, x, r.doc.content) /\ Became(d, r.doc, r.doc.content)
    <2>1. /\ Became(d, r.doc, r.doc.content)
          /\ r.act \in [name : {"LayerRemove"}, canvas : Canvases, layers : Seq(Layers), depth : [1..n -> Nat]]
          /\ r.act.layers = a.layers
          /\ n # 0 => r.act.canvas = s
          /\ \A j \in 1..n : Taken(j, r.act)
        BY <1>5, <1>7 DEF P
    <2>2. IsRemove(r.act)
        BY <2>1 DEF IsRemove, n
    <2> DEFINE z == [j \in 0..n |-> f[j].doc.content]
    <2>3. \A j \in 0..n : f[j].doc.content \in Contents
        <3> TAKE j \in 0..n
        <3>1. f[j].ok
            <4>1. CASE j = 0
                <5>1. f[0] = OK(d, a)
                    BY <1>1, <1>2 DEF TakeRun
                <5>2. QED
                    BY <4>1, <5>1 DEF OK
            <4>2. CASE j # 0
                <5>1. j \in 1..n
                    BY <4>2
                <5>2. QED
                    BY <2>1, <5>1 DEF Taken
            <4>3. QED
                BY <4>1, <4>2
        <3>2. Became(d, f[j].doc, f[j].doc.content)
            BY <1>5, <3>1 DEF P
        <3>3. QED
            BY <3>2 DEF Became, Shaped
    <2>4. z[0] = x
        <3>1. f[0].doc = d
            BY <1>1, <1>5 DEF P
        <3>2. QED
            BY <1>1, <3>1 DEF x
    <2>5. Emptied(r.act, z)
        <3> DEFINE b == r.act
        <3>1. z \in [0..n -> Contents]
            BY <2>3
        <3>2. ASSUME NEW i \in 1..n
              PROVE  /\ b.layers[i] \in Range(z[i - 1][b.canvas])
                     /\ z[i] = Del(z[i - 1], b.canvas, b.layers[i])
                     /\ b.depth[i] = Pos(z[i - 1], b.canvas, b.layers[i])
                     /\ b.depth[i] <= Len(z[i - 1][b.canvas]) - 2
            <4>1. i \in 0..n /\ i - 1 \in 0..n /\ n # 0
                BY <1>1
            <4>2. z[i] = f[i].doc.content /\ z[i - 1] = f[i - 1].doc.content
                BY <4>1
            <4>3. b.canvas = s /\ b.layers = a.layers /\ Taken(i, b)
                BY <2>1, <4>1
            <4> HIDE DEF z, b
            <4>4. QED
                BY <4>2, <4>3 DEF Taken
        <3>3. Len(b.layers) = n
            BY <2>1 DEF n
        <3> HIDE DEF z, b
        <3>4. Emptied(b, z)
            BY <3>1, <3>2, <3>3 DEF Emptied
        <3>5. QED
            BY <3>4 DEF b
    <2>6. z[n] = r.doc.content /\ Len(r.act.layers) = n
        BY <1>1, <2>1 DEF n
    <2> HIDE DEF z
    <2>7. QED
        BY <2>1, <2>2, <2>4, <2>5, <2>6 DEF DidRemove
<1>8. QED
    BY <1>2, <1>6, <1>7 DEF n, x

\* A removal is done again where the same is found.
LEMMA RemoveAgain ==
    ASSUME NEW a, NEW x, NEW y, DidRemove(a, x, y), NEW d, Shaped(d), d.content = x
    PROVE  RedidTo(d, a, PerformLayerRemove(a, d), y)
<1> DEFINE n == Len(a.layers)
           c == a.canvas
<1>1. /\ a \in [name : {"LayerRemove"}, canvas : Canvases, layers : Seq(Layers), depth : [1..n -> Nat]]
      /\ n \in Nat /\ c \in Canvases
    BY LenProperties DEF DidRemove, IsRemove
<1>2. PICK z : Emptied(a, z) /\ x = z[0] /\ y = z[n]
    BY DEF DidRemove
<1>3. PICK f : TakeRun(a, d, n, f) /\ PerformLayerRemove(a, d) = f[n]
    BY <1>1, TakeIs
<1> HIDE DEF n, c
<1>4. /\ z \in [0..n -> Contents]
      /\ \A i \in 1..n :
           /\ a.layers[i] \in Layers
           /\ a.layers[i] \in Range(z[i - 1][c])
           /\ z[i] = Del(z[i - 1], c, a.layers[i])
           /\ a.depth[i] = Pos(z[i - 1], c, a.layers[i])
    BY <1>1, <1>2, ElementOfSeq DEF Emptied, n, c
<1> DEFINE P(i) == f[i].ok = TRUE /\ f[i].act = a /\ Became(d, f[i].doc, z[i])
           S == {i \in 0..n : ~P(i)}
<1>5. S = {}
    <2> SUFFICES ASSUME S # {} PROVE FALSE
        OBVIOUS
    <2>1. PICK i \in S : \A j \in S : i <= j
        <3>1. S \in SUBSET Nat
            OBVIOUS
        <3>2. QED
            BY <3>1, LeastExists
    <2>2. i \in 0..n /\ ~P(i) /\ f[i] = IF i = 0 THEN OK(d, a) ELSE TakeStep(a, d, i, f[i - 1])
        BY <1>3, <2>1 DEF TakeRun
    <2>3. CASE i = 0
        <3>1. f[i].ok = TRUE /\ f[i].act = a /\ f[i].doc = d
            BY <2>2, <2>3 DEF OK
        <3>2. Became(d, d, z[i])
            BY <1>2, <2>3, BecameSame
        <3>3. QED
            BY <2>2, <3>1, <3>2
    <2>4. CASE i # 0
        <3> DEFINE r == f[i - 1]
                   e == r.doc
                   l == a.layers[i]
                   sub == e.canvas[l]
                   w == z[i - 1]
        <3>1. i - 1 \in 0..n /\ ~(i <= i - 1) /\ i \in 1..n
            BY <1>1, <2>2, <2>4
        <3>2. P(i - 1)
            BY <2>1, <3>1
        <3>3. f[i] = IF ~r.ok THEN r
                     ELSE IF ~Found(e, sub, l) \/ (sub # r.act.canvas /\ sub = Root) THEN Throw(e, r.act)
                     ELSE OK(Erase(e, sub, l), [r.act EXCEPT !.canvas = sub, !.depth[i] = Index(e, sub, l)])
            BY <2>2, <2>4, Zenon DEF TakeStep
        <3>4. r.ok = TRUE /\ r.act = a /\ Became(d, e, w)
            BY <3>2
        <3>5. l \in Layers /\ l \in Range(w[c]) /\ z[i] = Del(w, c, l) /\ a.depth[i] = Pos(w, c, l) /\ w \in Contents
            BY <1>4, <3>1
        <3> HIDE DEF r, e, l, w
        <3>6. Shaped(e) /\ e.content = w /\ Found(e, c, l)
            BY <3>4, <3>5 DEF Became, Found
        <3>7. sub = c
            BY <1>1, <3>5, <3>6 DEF Shaped, Situated
        <3>8. Index(e, c, l) = a.depth[i]
            BY <3>5, <3>6, IndexIs
        <3>9. f[i] = OK(Erase(e, c, l), [a EXCEPT !.canvas = c, !.depth[i] = a.depth[i]])
            BY <3>3, <3>4, <3>6, <3>7, <3>8 DEF c
        <3>10. [a EXCEPT !.canvas = c, !.depth[i] = a.depth[i]] = a
            BY <1>1, <3>1 DEF c
        <3>11. Became(e, Erase(e, c, l), z[i])
            BY <1>1, <3>5, <3>6, EraseIs
        <3>12. Became(d, Erase(e, c, l), z[i])
            BY <3>4, <3>11, BecameOn
        <3>13. P(i)
            BY <3>9, <3>10, <3>12 DEF OK
        <3>14. QED
            BY <2>2, <3>13
    <2>5. QED
        BY <2>3, <2>4
<1>6. P(n)
    BY <1>1, <1>5
<1>7. QED
    BY <1>2, <1>3, <1>6 DEF RedidTo, n

\* An action can be done: its layer is in no canvas, or was in one; layers to be removed are
\* of one canvas, and none of them is behind the end of it.
ReadyOne(d, a) ==
    \/ IsAdd(a) /\ ~Placed(d.content, a.layer)
    \/ IsMove(a) /\ d.canvas[a.layer] # NoCanvas
    \/ /\ IsRemove(a)
       /\ \E s \in Canvases : \A i \in 1..Len(a.layers) :
             d.canvas[a.layers[i]] = s /\ LastOf(d.content, s) # a.layers[i]

\* What an action is after it was done, or not.
Like(b, a) ==
    /\ a.name = b.name
    /\ IsAdd(b) => a = b
    /\ IsRemove(b) => IsRemove(a) /\ a.layers = b.layers
    /\ IsMove(b) => MoveLike(b, a)

Acted(d, a, r) ==
    /\ r.ok \in BOOLEAN
    /\ r.ok => Like(a, r.act) /\ Did(r.act, d.content, r.doc.content) /\ Became(d, r.doc, r.doc.content)
    /\ ~r.ok =>
         /\ a.name # "LayerAdd"
         /\ a.name = "LayerMove" => ~Placed(d.content, a.layer)
         /\ a.name = "LayerMove" \/ Len(a.layers) = 1 => r.doc = d /\ Like(a, r.act)

\* A single action.
LEMMA PerformOneActs ==
    ASSUME NEW d, Shaped(d), NEW a, ReadyOne(d, a)
    PROVE  Acted(d, a, PerformOne(a, d))
<1> DEFINE r == PerformOne(a, d)
           x == d.content
<1>0. x \in Contents
    BY DEF Shaped
<1>1. CASE IsAdd(a) /\ ~Placed(x, a.layer)
    <2>1. r = PerformLayerAdd(a, d) /\ a.name = "LayerAdd" /\ a.canvas \in Canvases /\ a.layer \in Layers
        BY <1>1 DEF PerformOne, IsAdd
    <2>2. r.ok = TRUE /\ r.act = a /\ Became(d, r.doc, Ins(x, a.canvas, 0, a.layer))
        BY <1>1, <2>1, AddDone
    <2>3. Like(a, a)
        BY <1>1, <2>1 DEF Like, IsMove, IsRemove
    <2> HIDE DEF r
    <2>4. r.doc.content = Ins(x, a.canvas, 0, a.layer) /\ r.doc.content \in Contents /\ Became(d, r.doc, r.doc.content)
        BY <2>2 DEF Became, Shaped
    <2>5. Did(a, x, r.doc.content)
        BY <1>0, <1>1, <2>4 DEF Did, DidAdd
    <2>6. Acted(d, a, r)
        BY <2>2, <2>3, <2>4, <2>5 DEF Acted
    <2>7. QED
        BY <2>6 DEF r
<1>2. CASE IsMove(a) /\ d.canvas[a.layer] # NoCanvas
    <2>1. r = PerformLayerMove(a, d) /\ a.name = "LayerMove"
        BY <1>2 DEF PerformOne, IsMove
    <2>2. /\ MoveLike(a, r.act)
          /\ Placed(x, a.layer) =>
               /\ r.ok = TRUE
               /\ DidMove(r.act, x, Moved(r.act, x))
               /\ Became(d, r.doc, Moved(r.act, x))
          /\ ~Placed(x, a.layer) => r.ok = FALSE /\ r.doc = d
        BY <1>2, <2>1, MoveDone
    <2> HIDE DEF r
    <2>3. Like(a, r.act)
        BY <1>2, <2>1, <2>2 DEF Like, IsAdd, IsRemove, MoveLike, IsMove
    <2>4. CASE Placed(x, a.layer)
        <3>1. r.doc.content = Moved(r.act, x) /\ r.doc.content \in Contents /\ Became(d, r.doc, r.doc.content)
            BY <2>2, <2>4 DEF Became, Shaped
        <3>2. Did(r.act, x, r.doc.content)
            BY <1>0, <2>2, <2>4, <3>1 DEF Did
        <3>3. Acted(d, a, r)
            BY <2>2, <2>3, <2>4, <3>1, <3>2 DEF Acted
        <3>4. QED
            BY <3>3 DEF r
    <2>5. CASE ~Placed(x, a.layer)
        <3>1. Acted(d, a, r)
            BY <2>1, <2>2, <2>3, <2>5 DEF Acted
        <3>2. QED
            BY <3>1 DEF r
    <2>6. QED
        BY <2>4, <2>5
<1>3. ASSUME IsRemove(a),
             NEW s \in Canvases,
             \A i \in 1..Len(a.layers) : d.canvas[a.layers[i]] = s /\ LastOf(x, s) # a.layers[i]
      PROVE  Acted(d, a, r)
    <2>1. r = PerformLayerRemove(a, d) /\ a.name = "LayerRemove"
        BY <1>3 DEF PerformOne, IsRemove
    <2>2. /\ r.ok \in BOOLEAN
          /\ r.ok => /\ IsRemove(r.act) /\ r.act.layers = a.layers
                     /\ DidRemove(r.act, x, r.doc.content)
                     /\ Became(d, r.doc, r.doc.content)
          /\ ~r.ok /\ Len(a.layers) = 1 => r.doc = d /\ r.act = a
        BY <1>3, <2>1, RemoveDone
    <2> HIDE DEF r
    <2>3. \A b : IsRemove(b) /\ b.layers = a.layers => Like(a, b)
        BY <1>3, <2>1 DEF Like, IsAdd, IsRemove, IsMove
    <2>4. r.ok => Did(r.act, x, r.doc.content)
        BY <1>0, <2>2 DEF Did, Became, Shaped
    <2>5. QED
        BY <1>3, <2>1, <2>2, <2>3, <2>4 DEF Acted
<1>4. QED
    BY <1>1, <1>2, <1>3 DEF ReadyOne

\* Where the same is found, an action does the same.
Again(b, a) == b = a \/ MoveLike(b, a)

\* An action that did something does it again where the same is found, and only asks to be the same.
LEMMA RedoDid ==
    ASSUME NEW a, NEW x, NEW y, Did(a, x, y), NEW b, Again(b, a), NEW d, Shaped(d), d.content = x
    PROVE  RedidTo(d, a, PerformOne(b, d), y)
<1>0. x \in Contents
    BY DEF Did
<1>1. CASE DidAdd(a, x, y)
    <2>1. b = a /\ a.name = "LayerAdd" /\ ~Placed(d.content, a.layer) /\ IsAdd(a)
        BY <1>1 DEF DidAdd, IsAdd, Again, MoveLike, IsMove
    <2>2. PerformOne(b, d) = PerformLayerAdd(a, d)
        BY <2>1 DEF PerformOne
    <2> DEFINE r == PerformLayerAdd(a, d)
    <2>3. r.ok = TRUE /\ r.act = a /\ Became(d, r.doc, Ins(d.content, a.canvas, 0, a.layer))
        BY <2>1, AddDone
    <2> HIDE DEF r
    <2>4. RedidTo(d, a, r, y)
        BY <1>1, <2>3 DEF RedidTo, DidAdd
    <2>5. QED
        BY <2>2, <2>4 DEF r
<1>2. CASE DidRemove(a, x, y)
    <2>1. b = a /\ a.name = "LayerRemove"
        BY <1>2 DEF DidRemove, IsRemove, Again, MoveLike, IsMove
    <2>2. PerformOne(b, d) = PerformLayerRemove(a, d)
        BY <2>1 DEF PerformOne
    <2>3. QED
        BY <1>2, <2>2, RemoveAgain
<1>3. CASE DidMove(a, x, y)
    <2>1. MoveLike(b, a) /\ b.name = "LayerMove"
        <3>1. MoveLike(a, a)
            BY <1>3, LayersAssumption DEF DidMove, MoveLike
        <3>2. MoveLike(b, a)
            BY <3>1 DEF Again
        <3>3. QED
            BY <3>2 DEF MoveLike, IsMove
    <2>2. PerformOne(b, d) = PerformLayerMove(b, d)
        BY <2>1 DEF PerformOne
    <2>3. QED
        BY <1>0, <1>3, <2>1, <2>2, MoveAgain
<1>4. QED
    BY <1>1, <1>2, <1>3 DEF Did

\* Actions on sets.
SetNamesOfActions == {"GroupAddLayers", "GroupRemoveLayers", "GroupRemove", "GroupRename"}

IsSetting(a) ==
    /\ a.name \in SetNamesOfActions
    /\ a.name = "GroupAddLayers" => DOMAIN a = {"name", "layers", "group", "old"} /\ Len(a.layers) \in Nat
    /\ a.name = "GroupRemoveLayers" => DOMAIN a = {"name", "layers", "old"} /\ Len(a.layers) \in Nat
    /\ a.name = "GroupRemove" => DOMAIN a = {"name", "group", "list"} /\ IsFiniteSet(a.list)
    /\ a.name = "GroupRename" => DOMAIN a = {"name", "group", "new"}

\* They let the layers be.
LEMMA SettingActs ==
    ASSUME NEW d, Shaped(d), NEW a, IsSetting(a)
    PROVE  LET r == PerformOne(a, d)
               u == UndoOne(a, d)
           IN  /\ r.ok \in BOOLEAN /\ SameLayout(d, r.doc) /\ IsSetting(r.act)
               /\ u.ok = TRUE /\ SameLayout(d, u.doc) /\ u.act = a
<1> DEFINE r == PerformOne(a, d)
           u == UndoOne(a, d)
<1>0. IsDoc(d) /\ SameLayout(d, d)
    BY LayoutSame DEF Shaped
<1>1. CASE a.name = "GroupAddLayers"
    <2> DEFINE e == JoinAll(d, a.layers, [i \in DOMAIN a.layers |-> a.group])
               b == [a EXCEPT !.old = [i \in DOMAIN a.layers |-> d.group[a.layers[i]]]]
               f == LeaveAll(d, a.layers, [i \in DOMAIN a.layers |-> a.group])
               g == JoinAll(f, a.layers, a.old)
    <2>1. r = [ok |-> TRUE, doc |-> e, act |-> b]
        <3>1. r = PerformGroupAddLayers(a, d)
            BY <1>1 DEF PerformOne
        <3>2. QED
            BY <3>1, Zenon DEF PerformGroupAddLayers, OK
    <2>2. u = [ok |-> TRUE, doc |-> g, act |-> a]
        <3>1. u = UndoGroupAddLayers(a, d)
            BY <1>1 DEF UndoOne
        <3>2. QED
            BY <3>1, Zenon DEF UndoGroupAddLayers, OK
    <2>3. Len(a.layers) \in Nat /\ DOMAIN a = {"name", "layers", "group", "old"}
        BY <1>1 DEF IsSetting
    <2>4. SameLayout(d, e)
        BY <1>0, <2>3, JoinAllLayout
    <2>5. SameLayout(d, f)
        BY <1>0, <2>3, LeaveAllLayout
    <2> HIDE DEF e, f
    <2>6. SameLayout(d, g)
        <3>1. SameLayout(f, g)
            BY <2>3, <2>5, JoinAllLayout DEF SameLayout
        <3>2. QED
            BY <2>5, <3>1, LayoutOn
    <2>7. IsSetting(b)
        BY <1>1, <2>3 DEF IsSetting, SetNamesOfActions
    <2> HIDE DEF g, b
    <2>8. QED
        BY <2>1, <2>2, <2>4, <2>6, <2>7
<1>2. CASE a.name = "GroupRemoveLayers"
    <2> DEFINE old == [i \in DOMAIN a.layers |-> d.group[a.layers[i]]]
               e == LeaveAll(d, a.layers, old)
               b == [a EXCEPT !.old = old]
               g == JoinAll(d, a.layers, a.old)
    <2>1. r = [ok |-> TRUE, doc |-> e, act |-> b]
        <3>1. r = PerformGroupRemoveLayers(a, d)
            BY <1>2 DEF PerformOne
        <3>2. QED
            BY <3>1, Zenon DEF PerformGroupRemoveLayers, OK
    <2>2. u = [ok |-> TRUE, doc |-> g, act |-> a]
        <3>1. u = UndoGroupRemoveLayers(a, d)
            BY <1>2 DEF UndoOne
        <3>2. QED
            BY <3>1, Zenon DEF UndoGroupRemoveLayers, OK
    <2>3. Len(a.layers) \in Nat /\ DOMAIN a = {"name", "layers", "old"}
        BY <1>2 DEF IsSetting
    <2>4. SameLayout(d, e)
        BY <1>0, <2>3, LeaveAllLayout
    <2>5. SameLayout(d, g)
        BY <1>0, <2>3, JoinAllLayout
    <2> HIDE DEF e, g, old
    <2>6. IsSetting(b)
        BY <1>2, <2>3 DEF IsSetting, SetNamesOfActions
    <2> HIDE DEF b
    <2>7. QED
        BY <2>1, <2>2, <2>4, <2>5, <2>6
<1>3. CASE a.name = "GroupRemove"
    <2> DEFINE e == Disband(d, a.group)
               b == [a EXCEPT !.list = Members(d, a.group)]
               g == JoinAll(d, SetToSeq(a.list), [i \in 1..Cardinality(a.list) |-> a.group])
    <2>1. r = [ok |-> TRUE, doc |-> e, act |-> b]
        <3>1. r = PerformGroupRemove(a, d)
            BY <1>3 DEF PerformOne
        <3>2. QED
            BY <3>1, Zenon DEF PerformGroupRemove, OK
    <2>2. u = [ok |-> TRUE, doc |-> g, act |-> a]
        <3>1. u = UndoGroupRemove(a, d)
            BY <1>3 DEF UndoOne
        <3>2. QED
            BY <3>1, Zenon DEF UndoGroupRemove, OK
    <2>3. IsFiniteSet(a.list) /\ DOMAIN a = {"name", "group", "list"}
        BY <1>3 DEF IsSetting
    <2>4. SameLayout(d, e)
        BY <1>0, DisbandLayout
    <2>5. SameLayout(d, g)
        <3>1. Len(SetToSeq(a.list)) \in Nat
            BY <2>3, SetToSeqIs
        <3>2. QED
            BY <1>0, <3>1, JoinAllLayout
    <2>6. IsFiniteSet(Members(d, a.group))
        BY LayersAssumption, FS_Subset DEF Members
    <2>7. IsSetting(b)
        BY <1>3, <2>3, <2>6 DEF IsSetting, SetNamesOfActions
    <2> HIDE DEF e, g, b
    <2>8. QED
        BY <2>1, <2>2, <2>4, <2>5, <2>7
<1>4. CASE a.name = "GroupRename"
    <2> DEFINE e == RenameGroup(d, a.group, a.new)
               g == RenameGroup(d, a.new, a.group)
    <2>1. r = [ok |-> FALSE, doc |-> d, act |-> a] \/ r = [ok |-> TRUE, doc |-> e, act |-> a]
        <3>1. r = PerformGroupRename(a, d)
            BY <1>4 DEF PerformOne
        <3>2. QED
            BY <3>1, Zenon DEF PerformGroupRename, OK, Throw
    <2>2. u = [ok |-> TRUE, doc |-> g, act |-> a]
        <3>1. u = UndoGroupRename(a, d)
            BY <1>4 DEF UndoOne
        <3>2. QED
            BY <3>1, Zenon DEF UndoGroupRename, OK
    <2>3. SameLayout(d, e) /\ SameLayout(d, g)
        BY <1>0, DisbandLayout
    <2> HIDE DEF e, g
    <2>4. u.ok = TRUE /\ SameLayout(d, u.doc) /\ u.act = a
        BY <2>2, <2>3
    <2> HIDE DEF u
    <2>5. r.ok \in BOOLEAN /\ SameLayout(d, r.doc) /\ r.act = a
        <3>1. CASE r = [ok |-> FALSE, doc |-> d, act |-> a]
            BY <1>0, <3>1
        <3>2. CASE r = [ok |-> TRUE, doc |-> e, act |-> a]
            BY <2>3, <3>2
        <3>3. QED
            BY <2>1, <3>1, <3>2
    <2> HIDE DEF r
    <2>6. IsSetting(r.act)
        BY <2>5
    <2>7. QED
        BY <2>4, <2>5, <2>6 DEF r, u
<1>5. QED
    BY <1>1, <1>2, <1>3, <1>4 DEF IsSetting, SetNamesOfActions

-----------------------------------------------------------------------------
(***************************************************************************)
(* Lists of actions.                                                       *)
(***************************************************************************)

IsSeq(s) == s \in Seq(Range(s))

\* A sequence has a length, and its members by number.
LEMMA SeqIff ==
    ASSUME NEW s
    PROVE  /\ IsSeq(s) => Len(s) \in Nat /\ DOMAIN s = 1..Len(s) /\ s = [i \in 1..Len(s) |-> s[i]]
           /\ \A n \in Nat : s = [i \in 1..n |-> s[i]] => IsSeq(s) /\ Len(s) = n
<1>1. ASSUME IsSeq(s)
      PROVE  Len(s) \in Nat /\ DOMAIN s = 1..Len(s) /\ s = [i \in 1..Len(s) |-> s[i]]
    BY <1>1, LenProperties DEF IsSeq
<1>2. ASSUME NEW n \in Nat, s = [i \in 1..n |-> s[i]]
      PROVE  IsSeq(s) /\ Len(s) = n
    <2>1. s \in [1..n -> Range(s)]
        BY <1>2 DEF Range
    <2>2. s \in Seq(Range(s))
        BY <2>1, SeqDef
    <2>3. DOMAIN s = 1..n
        BY <1>2
    <2>4. Len(s) = n
        BY <2>2, <2>3, LenProperties
    <2>5. QED
        BY <2>2, <2>4 DEF IsSeq
<1>3. QED
    BY <1>1, <1>2

\* The first n of a list were done, with these contents in between.
Trail(list, n, z) ==
    /\ IsSeq(list)
    /\ n \in 0..Len(list)
    /\ z \in [0..n -> Contents]
    /\ \A j \in 1..n : Did(list[j], z[j - 1], z[j])

\* An element is put in its own place.
LEMMA SameThere ==
    ASSUME NEW s, IsSeq(s), NEW i \in 1..Len(s)
    PROVE  [s EXCEPT ![i] = s[i]] = s
BY SeqIff

\* They are undone as far as that is possible.
LEMMA UndoListDid ==
    ASSUME NEW list, NEW n, NEW z, Trail(list, n, z), NEW d, Shaped(d), d.content = z[n]
    PROVE  LET r == UndoDownFrom(list, n, d)
           IN  /\ r.act = list
               /\ r.ok \in BOOLEAN
               /\ r.ok <=> \A j \in 1..n : Sure(list[j])
               /\ r.ok => Became(d, r.doc, z[0])
               /\ ~r.ok => r.at \in 2..(n + 1) /\ Became(d, r.doc, z[r.at - 1])
<1>0. /\ IsSeq(list) /\ n \in Nat /\ n <= Len(list) /\ Len(list) \in Nat
      /\ \A j \in 1..n : Did(list[j], z[j - 1], z[j])
    BY SeqIff DEF Trail
<1>1. PICK f : FromRun(list, n, d, n, f) /\ UndoDownFrom(list, n, d) = f[n]
    BY <1>0, FromIs
<1> DEFINE Q(k, r) ==
              /\ r.act = list
              /\ r.ok \in BOOLEAN
              /\ r.ok => r.at = n + 1 - k /\ (\A j \in (n + 1 - k)..n : Sure(list[j])) /\ Became(d, r.doc, z[n - k])
              /\ ~r.ok => r.at \in 2..(n + 1) /\ (\E j \in 1..n : ~Sure(list[j])) /\ Became(d, r.doc, z[r.at - 1])
           S == {k \in 0..n : ~Q(k, f[k])}
<1>2. S = {}
    <2> SUFFICES ASSUME S # {} PROVE FALSE
        OBVIOUS
    <2>1. PICK k \in S : \A j \in S : k <= j
        <3>1. S \in SUBSET Nat
            OBVIOUS
        <3>2. QED
            BY <3>1, LeastExists
    <2>2. /\ k \in 0..n /\ ~Q(k, f[k])
          /\ f[k] = IF k = 0 THEN [ok |-> TRUE, doc |-> d, act |-> list, at |-> n + 1]
                    ELSE FromStep(list, n, d, n + 1 - k, f[k - 1])
        BY <1>1, <2>1 DEF FromRun
    <2>3. CASE k = 0
        <3> DEFINE r == f[k]
        <3>1. r = [ok |-> TRUE, doc |-> d, act |-> list, at |-> n + 1]
            BY <2>2, <2>3
        <3> HIDE DEF r
        <3>2. r.ok = TRUE /\ r.doc = d /\ r.act = list /\ r.at = n + 1
            BY <3>1
        <3>3. Became(d, d, z[n])
            BY BecameSame
        <3>4. n + 1 - k = n + 1 /\ n - k = n /\ (n + 1)..n = {}
            BY <1>0, <2>3
        <3>5. Q(k, r)
            BY <3>2, <3>3, <3>4, Zenon
        <3>6. QED
            BY <2>2, <3>5 DEF r
    <2>4. CASE k # 0
        <3> DEFINE r == f[k - 1]
                   i == n + 1 - k
                   e == r.doc
                   s == UndoOne(list[i], r.doc)
        <3>1. k - 1 \in 0..n /\ ~(k <= k - 1) /\ i \in 1..n /\ i \in 1..Len(list) /\ k \in Nat
            BY <1>0, <2>2, <2>4
        <3>2. Q(k - 1, r)
            BY <2>1, <3>1
        <3>3. f[k] = IF r.ok THEN Went(r, s, i) ELSE r
            BY <2>2, <2>4, Zenon DEF FromStep
        <3>4. n + 1 - (k - 1) = i + 1 /\ n - (k - 1) = i /\ n - k = i - 1
            BY <1>0, <3>1
        <3>5. /\ r.act = list
              /\ r.ok \in BOOLEAN
              /\ r.ok => r.at = i + 1 /\ (\A j \in (i + 1)..n : Sure(list[j])) /\ Became(d, r.doc, z[i])
              /\ ~r.ok => r.at \in 2..(n + 1) /\ (\E j \in 1..n : ~Sure(list[j])) /\ Became(d, r.doc, z[r.at - 1])
            BY <3>2, <3>4, Zenon
        <3>6. CASE ~r.ok
            <4>1. f[k] = r
                BY <3>3, <3>6
            <4> HIDE DEF r, i
            <4>2. QED
                BY <2>2, <3>5, <3>6, <4>1, Zenon
        <3>7. CASE r.ok
            <4>1. Shaped(e) /\ e.content = z[i]
                BY <3>5, <3>7 DEF Became
            <4>2. UndidTo(e, list[i], s, z[i - 1])
                BY <1>0, <3>1, <4>1, UndoDid
            <4>3. s.act = list[i] /\ s.ok = Sure(list[i]) /\ Became(e, s.doc, IF Sure(list[i]) THEN z[i - 1] ELSE z[i])
                BY <4>1, <4>2 DEF UndidTo
            <4>4. Became(d, s.doc, IF Sure(list[i]) THEN z[i - 1] ELSE z[i])
                BY <3>5, <3>7, <4>3, BecameOn
            <4> DEFINE q == f[k]
            <4>5. q = [ok |-> s.ok, doc |-> s.doc, act |-> [r.act EXCEPT ![i] = s.act], at |-> IF s.ok THEN i ELSE r.at]
                BY <3>3, <3>7, Zenon DEF Went
            <4>6. [r.act EXCEPT ![i] = s.act] = list
                BY <1>0, <3>1, <3>5, <4>3, SameThere
            <4> HIDE DEF q, s, r, i
            <4>7. q.ok = s.ok /\ q.doc = s.doc /\ q.act = list /\ q.at = IF s.ok THEN i ELSE r.at
                BY <4>5, <4>6
            <4>8. Sure(list[i]) \in BOOLEAN
                BY DEF Sure
            <4>9. CASE Sure(list[i])
                <5>1. \A j \in i..n : Sure(list[j])
                    <6>1. \A j \in i..n : j = i \/ j \in (i + 1)..n
                        BY <1>0, <3>1
                    <6>2. QED
                        BY <3>5, <3>7, <4>9, <6>1
                <5>2. q.ok = TRUE /\ q.at = i /\ Became(d, q.doc, z[i - 1])
                    BY <4>3, <4>4, <4>7, <4>9
                <5>3. Q(k, q)
                    BY <3>4, <4>7, <5>1, <5>2, Zenon DEF i
                <5>4. QED
                    BY <2>2, <5>3 DEF q
            <4>10. CASE ~Sure(list[i])
                <5>1. q.ok = FALSE /\ q.at = r.at /\ r.at = i + 1 /\ Became(d, q.doc, z[i])
                    BY <3>5, <3>7, <4>3, <4>4, <4>7, <4>8, <4>10
                <5>2. q.at \in 2..(n + 1) /\ q.at - 1 = i
                    BY <1>0, <3>1, <5>1
                <5>3. Q(k, q)
                    BY <3>1, <4>7, <4>10, <5>1, <5>2, Zenon
                <5>4. QED
                    BY <2>2, <5>3 DEF q
            <4>11. QED
                BY <4>9, <4>10
        <3>8. QED
            BY <3>6, <3>7
    <2>5. QED
        BY <2>3, <2>4
<1>3. Q(n, f[n])
    BY <1>0, <1>2
<1> DEFINE r == UndoDownFrom(list, n, d)
<1>4. Q(n, r)
    BY <1>1, <1>3
<1> HIDE DEF r
<1>5. n + 1 - n = 1 /\ n - n = 0
    BY <1>0
<1>6. QED
    BY <1>4, <1>5, Zenon DEF r

\* A list is done again, to the end, where the same is found.
ListDid(list, x, y) == \E z : Trail(list, Len(list), z) /\ z[0] = x /\ z[Len(list)] = y
AllAgain(raw, list) == IsSeq(raw) /\ Len(raw) = Len(list) /\ \A j \in 1..Len(list) : Again(raw[j], list[j])
Redid(raw, d, list, y) ==
    /\ PerformUpTo(raw, d).ok = TRUE
    /\ PerformUpTo(raw, d).act = list
    /\ Became(d, PerformUpTo(raw, d).doc, y)

\* A list that was done once is done to its end again where the same is found.
LEMMA RedoListDid ==
    ASSUME NEW d, Shaped(d), NEW list, NEW y, ListDid(list, d.content, y), NEW raw, AllAgain(raw, list)
    PROVE  Redid(raw, d, list, y)
<1> DEFINE n == Len(list)
<1>a. PICK z : Trail(list, n, z) /\ z[0] = d.content /\ z[n] = y
    BY DEF ListDid
<1>b. IsSeq(raw) /\ Len(raw) = n /\ \A j \in 1..n : Again(raw[j], list[j])
    BY DEF AllAgain
<1>c. n = Len(list)
    OBVIOUS
<1> HIDE DEF n
<1>0. /\ IsSeq(list) /\ n \in Nat
      /\ \A j \in 1..n : Did(list[j], z[j - 1], z[j])
    BY <1>a, <1>c, SeqIff DEF Trail
<1>1. PICK f : ToRun(raw, d, n, f) /\ PerformUpTo(raw, d) = f[n]
    BY <1>0, <1>b, ToIs
<1> DEFINE Half(i) == [j \in 1..n |-> IF j <= i THEN list[j] ELSE raw[j]]
           P(i) == f[i].ok = TRUE /\ f[i].act = Half(i) /\ Became(d, f[i].doc, z[i])
           S == {i \in 0..n : ~P(i)}
<1>2. S = {}
    <2> SUFFICES ASSUME S # {} PROVE FALSE
        OBVIOUS
    <2>1. PICK i \in S : \A j \in S : i <= j
        <3>1. S \in SUBSET Nat
            OBVIOUS
        <3>2. QED
            BY <3>1, LeastExists
    <2>2. /\ i \in 0..n /\ ~P(i)
          /\ f[i] = IF i = 0 THEN [ok |-> TRUE, doc |-> d, act |-> raw, at |-> 0] ELSE ToStep(raw, d, i, f[i - 1])
        BY <1>1, <2>1 DEF ToRun
    <2>3. CASE i = 0
        <3>1. f[i].ok = TRUE /\ f[i].act = raw /\ f[i].doc = d
            BY <2>2, <2>3
        <3>2. Half(0) = raw
            <4>1. \A j \in 1..n : ~(j <= 0)
                BY <1>0
            <4>2. raw = [j \in 1..n |-> raw[j]]
                BY <1>b, SeqIff
            <4>3. QED
                BY <4>1, <4>2
        <3>3. Became(d, d, z[0])
            BY <1>a, BecameSame
        <3>4. QED
            BY <2>2, <2>3, <3>1, <3>2, <3>3
    <2>4. CASE i # 0
        <3> DEFINE r == f[i - 1]
                   e == r.doc
                   s == PerformOne(raw[i], r.doc)
        <3>1. i - 1 \in 0..n /\ ~(i <= i - 1) /\ i \in 1..n
            BY <1>0, <2>2, <2>4
        <3>2. P(i - 1)
            BY <2>1, <3>1
        <3>3. f[i] = IF r.ok THEN Went(r, s, i) ELSE r
            BY <2>2, <2>4, Zenon DEF ToStep
        <3>4. Shaped(e) /\ e.content = z[i - 1]
            BY <3>2 DEF Became
        <3>5. RedidTo(e, list[i], s, z[i])
            BY <1>0, <1>b, <3>1, <3>4, RedoDid
        <3>6. s.ok = TRUE /\ s.act = list[i] /\ Became(d, s.doc, z[i])
            BY <3>2, <3>5, BecameOn DEF RedidTo
        <3>7. [r.act EXCEPT ![i] = s.act] = Half(i)
            <4>1. r.act = Half(i - 1)
                BY <3>2
            <4>2. \A j \in 1..n : j <= i <=> j = i \/ j <= i - 1
                BY <1>0, <3>1
            <4> HIDE DEF r, s
            <4>3. [r.act EXCEPT ![i] = s.act] = [j \in 1..n |-> IF j = i THEN list[i] ELSE Half(i - 1)[j]]
                BY <3>1, <3>6, <4>1
            <4>4. QED
                BY <4>2, <4>3
        <3> DEFINE q == f[i]
        <3>8. q = [ok |-> s.ok, doc |-> s.doc, act |-> [r.act EXCEPT ![i] = s.act], at |-> IF s.ok THEN i ELSE r.at]
            BY <3>2, <3>3, Zenon DEF Went
        <3> HIDE DEF q, s, r, Half
        <3>9. q.ok = TRUE /\ q.act = Half(i) /\ Became(d, q.doc, z[i])
            BY <3>6, <3>7, <3>8
        <3>10. QED
            BY <2>2, <3>9 DEF q
    <2>5. QED
        BY <2>3, <2>4
<1>3. P(n)
    <2>1. n \in 0..n
        BY <1>0
    <2> HIDE DEF P
    <2>2. QED
        BY <1>2, <2>1
<1>4. Half(n) = list
    <2>1. \A j \in 1..n : j <= n
        BY <1>0
    <2>2. list = [j \in 1..n |-> list[j]]
        BY <1>0, <1>c, SeqIff
    <2>3. QED
        BY <2>1, <2>2
<1>5. QED
    BY <1>1, <1>3, <1>4, <1>a DEF Redid

\* A sequence is cut in two.
LEMMA CutIs ==
    ASSUME NEW T, NEW s \in Seq(T), NEW k \in 1..(Len(s) + 1)
    PROVE  LET u == SubSeq(s, 1, k - 1)
               v == SubSeq(s, k, Len(s))
           IN  /\ v \in Seq(T)
               /\ Len(v) = Len(s) + 1 - k
               /\ \A i \in 1..(Len(s) + 1 - k) : v[i] = s[k - 1 + i]
               /\ u \o v = s
<1> DEFINE u == SubSeq(s, 1, k - 1)
           v == SubSeq(s, k, Len(s))
           w == u \o v
<1>0. Len(s) \in Nat
    BY LenProperties
<1>1. u \in Seq(T) /\ Len(u) = k - 1 /\ \A j \in 1..(k - 1) : u[j] = s[j]
    BY <1>0
<1>2. v \in Seq(T) /\ Len(v) = Len(s) - k + 1 /\ \A j \in 1..(Len(s) - k + 1) : v[j] = s[k + j - 1]
    BY <1>0
<1> HIDE DEF u, v
<1>3. /\ w \in Seq(T) /\ Len(w) = Len(s)
      /\ \A j \in 1..Len(s) : w[j] = IF j <= k - 1 THEN u[j] ELSE v[j - (k - 1)]
    <2>1. /\ w \in Seq(T) /\ Len(w) = Len(u) + Len(v)
          /\ \A j \in 1..(Len(u) + Len(v)) : w[j] = IF j <= Len(u) THEN u[j] ELSE v[j - Len(u)]
        BY <1>1, <1>2, ConcatProperties
    <2>2. Len(u) + Len(v) = Len(s) /\ Len(u) = k - 1
        BY <1>0, <1>1, <1>2
    <2> HIDE DEF w
    <2>3. QED
        BY <2>1, <2>2
<1>4. ASSUME NEW j \in 1..Len(s)
      PROVE  w[j] = s[j]
    <2> HIDE DEF w
    <2>1. CASE j < k
        BY <1>0, <1>1, <1>3, <2>1
    <2>2. CASE j >= k
        <3>1. w[j] = v[j - (k - 1)]
            BY <1>0, <1>3, <2>2
        <3>2. j - (k - 1) \in 1..(Len(s) - k + 1) /\ k + (j - (k - 1)) - 1 = j
            BY <1>0, <2>2
        <3>3. QED
            BY <1>2, <3>1, <3>2
    <2>3. j < k \/ j >= k
        BY <1>0
    <2>4. QED
        BY <2>1, <2>2, <2>3, Zenon
<1> HIDE DEF w
<1>5. DOMAIN w = 1..Len(s) /\ DOMAIN s = 1..Len(s) /\ w = [i \in DOMAIN w |-> w[i]] /\ s = [i \in DOMAIN s |-> s[i]]
    BY <1>3, LenProperties
<1>6. w = s
    BY <1>4, <1>5
<1>7. ASSUME NEW i \in 1..(Len(s) + 1 - k)
      PROVE  v[i] = s[k - 1 + i]
    <2>1. i \in 1..(Len(s) - k + 1) /\ k + i - 1 = k - 1 + i
        BY <1>0
    <2>2. QED
        BY <1>2, <2>1
<1>8. Len(s) - k + 1 = Len(s) + 1 - k
    BY <1>0
<1>9. QED
    BY <1>2, <1>6, <1>7, <1>8 DEF u, v, w

\* An action made of several is undone to the end, or all of it is done again.
LEMMA SuperUndoDid ==
    ASSUME NEW a, [a EXCEPT !.list = a.list] = a, NEW n, n = Len(a.list), NEW z, Trail(a.list, n, z),
           NEW d, Shaped(d), d.content = z[n]
    PROVE  LET r == SuperUndo(a, d)
           IN  /\ r.act = a
               /\ r.ok \in BOOLEAN
               /\ r.ok <=> \A j \in 1..n : Sure(a.list[j])
               /\ Became(d, r.doc, IF r.ok THEN z[0] ELSE z[n])
<1> DEFINE list == a.list
           r == UndoDownFrom(list, n, d)
           s == RedoneFrom(r)
<1>0. IsSeq(list) /\ n \in Nat /\ list = [i \in 1..n |-> list[i]]
    BY SeqIff DEF Trail
<1>1. /\ r.act = list
      /\ r.ok \in BOOLEAN
      /\ r.ok <=> \A j \in 1..n : Sure(list[j])
      /\ r.ok => Became(d, r.doc, z[0])
      /\ ~r.ok => r.at \in 2..(n + 1) /\ Became(d, r.doc, z[r.at - 1])
    BY UndoListDid
<1>2. SuperUndo(a, d) = [ok |-> r.ok, doc |-> s.doc, act |-> [a EXCEPT !.list = s.act]]
    BY Zenon DEF SuperUndo, SuperResult
<1> HIDE DEF r, list
<1>3. CASE r.ok
    <2>1. s = r
        BY <1>3, Zenon DEF RedoneFrom
    <2> HIDE DEF s
    <2>2. SuperUndo(a, d) = [ok |-> TRUE, doc |-> r.doc, act |-> a]
        BY <1>1, <1>2, <1>3, <2>1 DEF list
    <2>3. QED
        BY <1>1, <1>3, <2>2 DEF list
<1>4. CASE ~r.ok
    <2> DEFINE at == r.at
               e == r.doc
               rest == SubSeq(list, at, n)
               m == n + 1 - at
               w == [i \in 0..m |-> z[at - 1 + i]]
               again == PerformUpTo(rest, e)
    <2>1. at \in 2..(n + 1) /\ Became(d, e, z[at - 1])
        BY <1>1, <1>4
    <2>1a. at \in 2..(n + 1)
        BY <2>1
    <2>2. s = [again EXCEPT !.act = SubSeq(list, 1, at - 1) \o @]
        BY <1>1, <1>4, Zenon DEF RedoneFrom, list
    <2> HIDE DEF s
    <2>3. /\ IsSeq(rest) /\ Len(rest) = m /\ m \in Nat /\ (\A i \in 1..m : rest[i] = list[at - 1 + i])
          /\ SubSeq(list, 1, at - 1) \o rest = list
        <3>1. list \in Seq(Range(list)) /\ Len(list) = n
            BY <1>0 DEF IsSeq, list
        <3> HIDE DEF at
        <3>2. at \in 1..(Len(list) + 1)
            BY <1>0, <2>1, <3>1
        <3> DEFINE T == Range(list)
        <3> HIDE DEF T
        <3> DEFINE v == SubSeq(list, at, Len(list))
        <3>2a. list \in Seq(T)
            BY <3>1 DEF T
        <3>3. /\ v \in Seq(T) /\ Len(v) = Len(list) + 1 - at
              /\ \A i \in 1..(Len(list) + 1 - at) : v[i] = list[at - 1 + i]
              /\ SubSeq(list, 1, at - 1) \o v = list
            BY <3>2, <3>2a, CutIs
        <3>4. v = rest
            BY <3>1
        <3> HIDE DEF rest, v
        <3>5. m \in Nat /\ m = Len(list) + 1 - at
            BY <1>0, <3>1, <3>2
        <3> HIDE DEF m
        <3>6. rest \in Seq(T) /\ Len(rest) = m
            BY <3>3, <3>4, <3>5
        <3>7. rest = [i \in 1..m |-> rest[i]]
            BY <3>6
        <3>8. QED
            BY <3>3, <3>4, <3>5, <3>7, SeqIff
    <2> HIDE DEF rest, at, e
    <2>4. Trail(rest, m, w)
        <3>0. z \in [0..n -> Contents] /\ \A j \in 1..n : Did(list[j], z[j - 1], z[j])
            BY DEF Trail, list
        <3>1. \A i \in 0..m : at - 1 + i \in 0..n
            BY <1>0, <2>1
        <3>2. w \in [0..m -> Contents]
            BY <3>0, <3>1
        <3>3. ASSUME NEW j \in 1..m PROVE Did(rest[j], w[j - 1], w[j])
            <4>1. at - 1 + j \in 1..n /\ (at - 1 + j) - 1 = at - 1 + (j - 1) /\ j - 1 \in 0..m /\ j \in 0..m
                <5> HIDE DEF at
                <5>1. n \in Nat /\ j \in 1..(n + 1 - at)
                    BY <1>0
                <5>2. m = n + 1 - at
                    OBVIOUS
                <5> HIDE DEF m, w, again
                <5>3. at \in Int /\ j \in Int /\ at >= 2 /\ at <= n + 1 /\ j >= 1 /\ j <= n + 1 - at
                    BY <2>1a, <5>1
                <5>4. QED
                    BY <5>1, <5>2, <5>3
            <4>2. w[j - 1] = z[(at - 1 + j) - 1] /\ w[j] = z[at - 1 + j]
                BY <4>1
            <4>3. QED
                BY <2>3, <3>0, <4>1, <4>2
        <3> HIDE DEF w, m
        <3>4. m \in 0..Len(rest)
            BY <2>3
        <3>5. QED
            BY <2>3, <3>2, <3>3, <3>4 DEF Trail
    <2>5. w[0] = z[at - 1] /\ w[m] = z[n]
        <3>1. 0 \in 0..m /\ m \in 0..m /\ at - 1 + 0 = at - 1 /\ at - 1 + m = n
            BY <1>0, <2>1, <2>3
        <3>2. QED
            BY <3>1
    <2> HIDE DEF w, m
    <2>6. again.ok = TRUE /\ again.act = rest /\ Became(e, again.doc, z[n])
        <3>1. \A j \in 1..m : Again(rest[j], rest[j])
            BY DEF Again
        <3>2. Shaped(e) /\ e.content = w[0]
            BY <2>1, <2>5 DEF Became
        <3>3. IsSeq(rest) /\ m = Len(rest) /\ Len(rest) = m
            BY <2>3
        <3>4. AllAgain(rest, rest)
            BY <3>1, <3>3 DEF AllAgain
        <3>5. ListDid(rest, e.content, z[n])
            BY <2>4, <2>5, <3>2, <3>3 DEF ListDid
        <3>6. Redid(rest, e, rest, z[n])
            BY <3>2, <3>4, <3>5, RedoListDid
        <3>7. QED
            BY <3>6 DEF Redid
    <2>7. Became(d, again.doc, z[n])
        BY <2>1, <2>6, BecameOn
    <2>8. SubSeq(list, 1, at - 1) \o rest = list
        BY <2>3
    <2>9. s.doc = again.doc /\ s.act = list
        <3>1. DOMAIN again = {"ok", "doc", "act", "at"} \/ s.doc = again.doc
            BY <2>2
        <3>2. s.doc = again.doc
            BY <2>2
        <3>3. "act" \in DOMAIN again => s.act = SubSeq(list, 1, at - 1) \o again.act
            BY <2>2
        <3>4. "act" \in DOMAIN again
            <4>1. PICK f : ToRun(rest, e, m, f) /\ again = f[m]
                BY <2>3, ToIs
            <4> DEFINE S == {i \in 0..m : "act" \notin DOMAIN f[i]}
            <4>2. S = {}
                <5> SUFFICES ASSUME S # {} PROVE FALSE
                    OBVIOUS
                <5>1. PICK i \in S : \A j \in S : i <= j
                    <6>1. S \in SUBSET Nat
                        OBVIOUS
                    <6>2. QED
                        BY <6>1, LeastExists
                <5>2. /\ i \in 0..m /\ "act" \notin DOMAIN f[i]
                      /\ f[i] = IF i = 0 THEN [ok |-> TRUE, doc |-> e, act |-> rest, at |-> 0] ELSE ToStep(rest, e, i, f[i - 1])
                    BY <4>1, <5>1 DEF ToRun
                <5>3. i # 0 => i - 1 \in 0..m /\ ~(i <= i - 1)
                    BY <2>3, <5>2
                <5>4. i # 0 => "act" \in DOMAIN f[i - 1]
                    BY <5>1, <5>3
                <5>5. \A q, k, p : "act" \in DOMAIN Went(p, q, k)
                    BY DEF Went
                <5>6. i # 0 => "act" \in DOMAIN ToStep(rest, e, i, f[i - 1])
                    BY <5>4, <5>5, Zenon DEF ToStep
                <5>7. i = 0
                    BY <5>2, <5>6
                <5>8. QED
                    BY <5>2, <5>7
            <4>3. QED
                BY <2>3, <4>1, <4>2
        <3>5. QED
            BY <2>6, <2>8, <3>2, <3>3, <3>4
    <2>10. r.ok = FALSE
        BY <1>1, <1>4
    <2>11. SuperUndo(a, d) = [ok |-> FALSE, doc |-> again.doc, act |-> a]
        BY <1>2, <2>9, <2>10 DEF list
    <2> HIDE DEF again
    <2>12. QED
        BY <1>1, <1>4, <2>7, <2>11 DEF list
<1>5. QED
    BY <1>3, <1>4

\* As far as the first i of a list have been done, from d to e.
RunsOn(raw, d, i, list, z, e) ==
    /\ IsSeq(list) /\ Len(list) = Len(raw)
    /\ z \in [0..i -> Contents] /\ z[0] = d.content
    /\ \A j \in 1..i : Like(raw[j], list[j]) /\ Did(list[j], z[j - 1], z[j])
    /\ \A j \in (i + 1)..Len(raw) : list[j] = raw[j]
    /\ Became(d, e, z[i])

\* The next of them did nothing.
Stuck(raw, i, z) == raw[i].name # "LayerAdd" /\ (raw[i].name = "LayerMove" => ~Placed(z[i - 1], raw[i].layer))

StoppedAt(raw, d, r, i, list, z, b) ==
    /\ i \in 1..Len(raw)
    /\ RunsOn(raw, d, i - 1, list, z, r.doc)
    /\ Stuck(raw, i, z)
    /\ Like(raw[i], b)
    /\ r.at = i - 1 /\ r.act = [list EXCEPT ![i] = b]

Stopped(raw, d, r) == \E i, list, z, b : StoppedAt(raw, d, r, i, list, z, b)

\* Each is ready when its turn comes.
ReadyList(raw, d) ==
    /\ IsSeq(raw)
    /\ \A i \in 1..Len(raw) :
         /\ raw[i].name = "LayerRemove" => Len(raw[i].layers) = 1
         /\ \A list, z, e : RunsOn(raw, d, i - 1, list, z, e) => ReadyOne(e, raw[i])

\* A list whose actions are each ready when their turn comes runs to its end, or stops at one that
\* has left the canvases as they were.
LEMMA ListRuns ==
    ASSUME NEW d, Shaped(d), NEW raw, ReadyList(raw, d)
    PROVE  LET r == PerformUpTo(raw, d)
           IN  /\ r.ok \in BOOLEAN
               /\ r.ok => \E z : RunsOn(raw, d, Len(raw), r.act, z, r.doc)
               /\ ~r.ok => Stopped(raw, d, r)
<1> DEFINE n == Len(raw)
<1>0. n \in Nat /\ IsSeq(raw)
    BY SeqIff DEF ReadyList
<1>1. PICK f : ToRun(raw, d, n, f) /\ PerformUpTo(raw, d) = f[n]
    BY <1>0, ToIs
<1> HIDE DEF n
<1> DEFINE Q(i, r) ==
              /\ r.ok \in BOOLEAN
              /\ r.ok => r.at = i /\ \E z : RunsOn(raw, d, i, r.act, z, r.doc)
              /\ ~r.ok => Stopped(raw, d, r)
           S == {i \in 0..n : ~Q(i, f[i])}
<1>2. S = {}
    <2> SUFFICES ASSUME S # {} PROVE FALSE
        OBVIOUS
    <2>1. PICK i \in S : \A j \in S : i <= j
        <3>1. S \in SUBSET Nat
            OBVIOUS
        <3>2. QED
            BY <3>1, LeastExists
    <2>2. /\ i \in 0..n /\ ~Q(i, f[i])
          /\ f[i] = IF i = 0 THEN [ok |-> TRUE, doc |-> d, act |-> raw, at |-> 0] ELSE ToStep(raw, d, i, f[i - 1])
        BY <1>1, <2>1 DEF ToRun
    <2>3. CASE i = 0
        <3> DEFINE r == f[i]
                   w == [j \in 0..0 |-> d.content]
        <3>1. r = [ok |-> TRUE, doc |-> d, act |-> raw, at |-> 0]
            BY <2>2, <2>3
        <3> HIDE DEF r
        <3>2. r.ok = TRUE /\ r.doc = d /\ r.act = raw /\ r.at = 0
            BY <3>1
        <3>3. d.content \in Contents
            BY DEF Shaped
        <3>4. w \in [0..0 -> Contents] /\ w[0] = d.content
            BY <3>3
        <3> HIDE DEF w
        <3>5. 1..0 = {} /\ Became(d, d, w[0])
            BY <3>4, BecameSame
        <3>6. RunsOn(raw, d, 0, raw, w, d)
            BY <1>0, <3>4, <3>5 DEF RunsOn
        <3>7. Q(i, r)
            BY <2>3, <3>2, <3>6
        <3>8. QED
            BY <2>2, <3>7 DEF r
    <2>4. CASE i # 0
        <3> DEFINE r == f[i - 1]
                   e == r.doc
                   a == raw[i]
                   s == PerformOne(raw[i], r.doc)
                   q == f[i]
        <3>1. i - 1 \in 0..n /\ ~(i <= i - 1) /\ i \in 1..n /\ i \in Nat
            BY <1>0, <2>2, <2>4
        <3>2. Q(i - 1, r)
            BY <2>1, <3>1
        <3>3. q = IF r.ok THEN Went(r, s, i) ELSE r
            BY <2>2, <2>4, Zenon DEF ToStep
        <3>4. CASE ~r.ok
            <4>1. q = r
                BY <3>3, <3>4
            <4> HIDE DEF r, q
            <4>2. Q(i, q)
                BY <3>2, <3>4, <4>1
            <4>3. QED
                BY <2>2, <4>2 DEF q
        <3>5. CASE r.ok
            <4>1. PICK z : RunsOn(raw, d, i - 1, r.act, z, e)
                BY <3>2, <3>5
            <4>2. r.at = i - 1
                BY <3>2, <3>5
            <4>3. ReadyOne(e, a) /\ (a.name = "LayerRemove" => Len(a.layers) = 1)
                BY <3>1, <4>1 DEF ReadyList, n
            <4>4. Shaped(e) /\ e.content = z[i - 1]
                BY <4>1 DEF RunsOn, Became
            <4>5. Acted(e, a, s)
                BY <4>3, <4>4, PerformOneActs
            <4>6. q = [ok |-> s.ok, doc |-> s.doc, act |-> [r.act EXCEPT ![i] = s.act], at |-> IF s.ok THEN i ELSE r.at]
                BY <3>3, <3>5, Zenon DEF Went
            <4>7. /\ IsSeq(r.act) /\ Len(r.act) = n
                  /\ z \in [0..(i - 1) -> Contents] /\ z[0] = d.content
                  /\ \A j \in 1..(i - 1) : Like(raw[j], r.act[j]) /\ Did(r.act[j], z[j - 1], z[j])
                  /\ \A j \in ((i - 1) + 1)..n : r.act[j] = raw[j]
                  /\ Became(d, e, z[i - 1])
                BY <4>1 DEF RunsOn, n
            <4> HIDE DEF r, s, e, a, q
            <4>8. q.ok = s.ok /\ q.doc = s.doc /\ q.act = [r.act EXCEPT ![i] = s.act] /\ q.at = IF s.ok THEN i ELSE r.at
                BY <4>6
            <4>9. s.ok \in BOOLEAN
                BY <4>5 DEF Acted
            <4>10. CASE s.ok
                <5> DEFINE y == s.doc.content
                           w == [j \in 0..i |-> IF j = i THEN y ELSE z[j]]
                           l == q.act
                <5>1. Like(a, s.act) /\ Did(s.act, z[i - 1], y) /\ Became(e, s.doc, y)
                    BY <4>4, <4>5, <4>10 DEF Acted
                <5>2. Became(d, s.doc, y) /\ y \in Contents
                    BY <4>7, <5>1, BecameOn DEF Did
                <5> HIDE DEF y
                <5>3. w \in [0..i -> Contents] /\ w[0] = d.content /\ w[i] = y /\ \A j \in 0..(i - 1) : w[j] = z[j]
                    <6>1. \A j \in 0..i : j # i => j \in 0..(i - 1)
                        BY <3>1
                    <6>2. 0 \in 0..i /\ 0 # i /\ i \in 0..i /\ \A j \in 0..(i - 1) : j \in 0..i /\ j # i
                        BY <3>1
                    <6>3. QED
                        BY <4>7, <5>2, <6>1, <6>2
                <5> HIDE DEF w, l
                <5>4. l = [j \in 1..n |-> IF j = i THEN s.act ELSE r.act[j]]
                    BY <3>1, <4>7, <4>8, SeqIff DEF l
                <5>5. IsSeq(l) /\ Len(l) = n /\ l[i] = s.act /\ \A j \in 1..n : j # i => l[j] = r.act[j]
                    <6>1. l = [j \in 1..n |-> l[j]]
                        BY <5>4
                    <6>2. QED
                        BY <1>0, <3>1, <5>4, <6>1, SeqIff
                <5>6. ASSUME NEW j \in 1..i
                      PROVE  Like(raw[j], l[j]) /\ Did(l[j], w[j - 1], w[j])
                    <6>1. CASE j = i
                        <7>1. w[j - 1] = z[i - 1] /\ w[j] = y
                            BY <3>1, <5>3, <6>1
                        <7>2. QED
                            BY <5>1, <5>5, <6>1, <7>1 DEF a
                    <6>2. CASE j # i
                        <7>1. j \in 1..(i - 1) /\ j \in 0..(i - 1) /\ j - 1 \in 0..(i - 1) /\ j \in 1..n
                            BY <1>0, <3>1, <6>2
                        <7>2. QED
                            BY <4>7, <5>3, <5>5, <6>2, <7>1
                    <6>3. QED
                        BY <6>1, <6>2
                <5>7. ASSUME NEW j \in (i + 1)..n
                      PROVE  l[j] = raw[j]
                    <6>1. j \in ((i - 1) + 1)..n /\ j \in 1..n /\ j # i
                        BY <1>0, <3>1
                    <6>2. QED
                        BY <4>7, <5>5, <6>1
                <5>8. RunsOn(raw, d, i, l, w, q.doc)
                    BY <4>8, <5>2, <5>3, <5>5, <5>6, <5>7 DEF RunsOn, n
                <5>9. q.ok = TRUE /\ q.at = i
                    BY <4>8, <4>9, <4>10
                <5>10. Q(i, q)
                    BY <5>8, <5>9 DEF l
                <5>11. QED
                    BY <2>2, <5>10 DEF q
            <4>11. CASE ~s.ok
                <5>1. /\ a.name # "LayerAdd"
                      /\ a.name = "LayerMove" => ~Placed(z[i - 1], a.layer)
                      /\ a.name = "LayerMove" \/ Len(a.layers) = 1 => s.doc = e /\ Like(a, s.act)
                    BY <4>4, <4>5, <4>11 DEF Acted
                <5>2. a.name \in {"LayerAdd", "LayerMove", "LayerRemove"}
                    BY <4>3 DEF ReadyOne, IsAdd, IsMove, IsRemove
                <5>3. s.doc = e /\ Like(a, s.act)
                    BY <4>3, <5>1, <5>2
                <5>4. q.ok = FALSE /\ q.at = i - 1 /\ q.doc = e
                    BY <4>2, <4>8, <4>9, <4>11, <5>3
                <5>5. Stuck(raw, i, z) /\ RunsOn(raw, d, i - 1, r.act, z, q.doc)
                    BY <4>1, <5>1, <5>4 DEF Stuck, a
                <5>6. Stopped(raw, d, q)
                    <6>1. i \in 1..Len(raw) /\ q.act = [r.act EXCEPT ![i] = s.act] /\ Like(raw[i], s.act)
                        BY <3>1, <4>8, <5>3 DEF n, a
                    <6> HIDE DEF q, s, r
                    <6>2. StoppedAt(raw, d, q, i, r.act, z, s.act)
                        BY <5>4, <5>5, <6>1 DEF StoppedAt
                    <6>3. QED
                        BY <6>2, Zenon DEF Stopped
                <5>7. Q(i, q)
                    BY <5>4, <5>6
                <5>8. QED
                    BY <2>2, <5>7 DEF q
            <4>12. QED
                BY <4>10, <4>11
        <3>6. QED
            BY <3>4, <3>5
    <2>5. QED
        BY <2>3, <2>4
<1>3. Q(n, f[n])
    BY <1>0, <1>2
<1>4. QED
    BY <1>1, <1>3 DEF n

\* A list is performed, or nothing is left of what was done of it.
AllLike(raw, list) ==
    IsSeq(list) /\ Len(list) = Len(raw) /\ \A j \in 1..Len(raw) : Like(raw[j], list[j]) \/ list[j] = raw[j]

SuperDone(a, d, r, list) ==
    /\ r.ok \in BOOLEAN
    /\ r.act = [a EXCEPT !.list = list]
    /\ AllLike(a.list, list)
    /\ r.ok => \E z : RunsOn(a.list, d, Len(a.list), list, z, r.doc)
    /\ ~r.ok => /\ Became(d, r.doc, d.content)
                /\ \E i \in 1..Len(a.list) : \E l, z, e :
                      /\ RunsOn(a.list, d, i - 1, l, z, e)
                      /\ Stuck(a.list, i, z)
                      /\ \A j \in 1..Len(a.list) : j # i => list[j] = l[j]

\* An action made of several that stops half way takes back what was done, if each of it can be
\* taken back (Action::Super::perform).
LEMMA SuperPerformDone ==
    ASSUME NEW d, Shaped(d), NEW a, ReadyList(a.list, d),
           \A i \in 1..Len(a.list) : \A list, z, e :
               RunsOn(a.list, d, i - 1, list, z, e) /\ Stuck(a.list, i, z) => \A j \in 1..(i - 1) : Sure(list[j])
    PROVE  \E list : SuperDone(a, d, SuperPerform(a, d), list)
<1> DEFINE raw == a.list
           n == Len(raw)
           r == PerformUpTo(raw, d)
           s == RolledBack(r)
           q == SuperPerform(a, d)
<1>0. n \in Nat /\ IsSeq(raw)
    BY SeqIff DEF ReadyList
<1>1. /\ r.ok \in BOOLEAN
      /\ r.ok => \E z : RunsOn(raw, d, n, r.act, z, r.doc)
      /\ ~r.ok => Stopped(raw, d, r)
    BY ListRuns
<1>2. q = [ok |-> r.ok, doc |-> s.doc, act |-> [a EXCEPT !.list = s.act]]
    BY Zenon DEF SuperPerform, SuperResult
<1> HIDE DEF r, q
<1>3. CASE r.ok
    <2>1. s = r
        BY <1>3, Zenon DEF RolledBack
    <2>2. q.ok = TRUE /\ q.doc = r.doc /\ q.act = [a EXCEPT !.list = r.act]
        BY <1>1, <1>2, <1>3, <2>1
    <2>3. PICK z : RunsOn(raw, d, n, r.act, z, r.doc)
        BY <1>1, <1>3
    <2>4. AllLike(raw, r.act)
        BY <2>3 DEF AllLike, RunsOn
    <2>5. SuperDone(a, d, q, r.act)
        BY <2>2, <2>3, <2>4 DEF SuperDone
    <2>6. QED
        BY <2>5 DEF q
<1>4. CASE ~r.ok
    <2>1. PICK i, list, z, b : StoppedAt(raw, d, r, i, list, z, b)
        BY <1>1, <1>4, Zenon DEF Stopped
    <2> HIDE DEF n
    <2>2. /\ i \in 1..n /\ RunsOn(raw, d, i - 1, list, z, r.doc) /\ Stuck(raw, i, z)
          /\ Like(raw[i], b) /\ r.at = i - 1 /\ r.act = [list EXCEPT ![i] = b]
        BY <2>1 DEF StoppedAt, n
    <2>3. /\ IsSeq(list) /\ Len(list) = n /\ z \in [0..(i - 1) -> Contents] /\ z[0] = d.content
          /\ \A j \in 1..(i - 1) : Like(raw[j], list[j]) /\ Did(list[j], z[j - 1], z[j])
          /\ \A j \in ((i - 1) + 1)..n : list[j] = raw[j]
          /\ Became(d, r.doc, z[i - 1])
        BY <2>2 DEF RunsOn, n
    <2> DEFINE l == r.act
               m == i - 1
    <2>4. IsSeq(l) /\ Len(l) = n /\ l[i] = b /\ \A j \in 1..n : j # i => l[j] = list[j]
        <3>1. l = [j \in 1..n |-> IF j = i THEN b ELSE list[j]]
            BY <2>2, <2>3, SeqIff
        <3>2. l = [j \in 1..n |-> l[j]]
            BY <3>1
        <3>3. QED
            BY <1>0, <2>2, <3>1, <3>2, SeqIff DEF n
    <2> HIDE DEF l
    <2>5. /\ i - 1 \in 0..n /\ \A j \in 1..(i - 1) : j \in 1..n /\ j # i
          /\ \A j \in 1..n : j \in 1..(i - 1) \/ j = i \/ j \in ((i - 1) + 1)..n
        BY <1>0, <2>2 DEF n
    <2>6. AllLike(raw, l)
        BY <2>2, <2>3, <2>4, <2>5 DEF AllLike, n
    <2>7. Trail(l, i - 1, z)
        BY <2>3, <2>4, <2>5 DEF Trail
    <2> DEFINE u == UndoDownFrom(l, i - 1, r.doc)
    <2>8. Shaped(r.doc) /\ r.doc.content = z[i - 1]
        BY <2>3 DEF Became
    <2>9. /\ u.act = l
          /\ u.ok \in BOOLEAN
          /\ u.ok <=> \A j \in 1..(i - 1) : Sure(l[j])
          /\ u.ok => Became(r.doc, u.doc, z[0])
        <3>1. Trail(l, m, z) /\ r.doc.content = z[m]
            BY <2>7, <2>8
        <3> HIDE DEF m
        <3>2. /\ UndoDownFrom(l, m, r.doc).act = l
              /\ UndoDownFrom(l, m, r.doc).ok \in BOOLEAN
              /\ UndoDownFrom(l, m, r.doc).ok <=> \A j \in 1..m : Sure(l[j])
              /\ UndoDownFrom(l, m, r.doc).ok => Became(r.doc, UndoDownFrom(l, m, r.doc).doc, z[0])
            BY <2>8, <3>1, UndoListDid
        <3>3. QED
            BY <3>2, Zenon DEF m
    <2>10. \A j \in 1..(i - 1) : Sure(l[j])
        BY <2>2, <2>4, <2>5 DEF n
    <2>11. s = u
        <3>1. s = UndoDownFrom(r.act, r.at, r.doc)
            BY <1>4, Zenon DEF RolledBack
        <3>2. QED
            BY <2>2, <3>1 DEF l
    <2> HIDE DEF u
    <2>12. u.ok /\ Became(r.doc, u.doc, z[0])
        BY <2>9, <2>10
    <2>13. Became(d, u.doc, d.content)
        BY <2>3, <2>12, BecameOn
    <2>14. r.ok = FALSE
        BY <1>1, <1>4
    <2>15. q.ok = FALSE /\ q.doc = u.doc /\ q.act = [a EXCEPT !.list = l]
        BY <1>2, <2>9, <2>11, <2>14
    <2>16. SuperDone(a, d, q, l)
        <3>1. \A j \in 1..n : j # i => l[j] = list[j]
            BY <2>4
        <3>2. \E k \in 1..n : \E h, w, e :
                RunsOn(raw, d, k - 1, h, w, e) /\ Stuck(raw, k, w) /\ \A j \in 1..n : j # k => l[j] = h[j]
            BY <2>2, <3>1
        <3>3. QED
            BY <2>6, <2>13, <2>15, <3>2 DEF SuperDone, n
    <2>17. QED
        BY <2>16 DEF q
<1>5. QED
    BY <1>3, <1>4

-----------------------------------------------------------------------------
(***************************************************************************)
(* Which layers are in a canvas after an action.                           *)
(***************************************************************************)

\* An addition.
LEMMA AddPlaces ==
    ASSUME NEW x \in Contents, NEW y, NEW a, DidAdd(a, x, y)
    PROVE  /\ ~Placed(x, a.layer)
           /\ \A l \in Layers : Placed(y, l) <=> Placed(x, l) \/ l = a.layer
           /\ \A b \in Canvases : LastOf(y, b) = LastOf(x, b)
<1>1. a.canvas \in Canvases /\ a.layer \in Layers /\ ~Placed(x, a.layer) /\ y = Ins(x, a.canvas, 0, a.layer)
    BY DEF DidAdd, IsAdd
<1>2. 0 \in 0..Len(x[a.canvas]) /\ 0 < Len(x[a.canvas])
    BY <1>1, ContentOf
<1>3. \A m \in Layers, b \in Canvases : m \in Range(y[b]) <=> m \in Range(x[b]) \/ (m = a.layer /\ b = a.canvas)
    BY <1>1, <1>2, InsIs
<1>4. \A b \in Canvases : LastOf(y, b) = LastOf(x, b)
    BY <1>1, <1>2, InsLast
<1>5. QED
    BY <1>1, <1>3, <1>4 DEF Placed

\* A move.
LEMMA MovePlaces ==
    ASSUME NEW x \in Contents, NEW y, NEW a, DidMove(a, x, y)
    PROVE  /\ Placed(x, a.layer)
           /\ \A l \in Layers : Placed(y, l) <=> Placed(x, l)
           /\ a.src = a.dest => \A l \in Layers, b \in Canvases : l \in Range(y[b]) <=> l \in Range(x[b])
           /\ (\A b \in Canvases : LastOf(x, b) # a.layer) =>
                \A b \in Canvases : LastOf(y, b) = LastOf(x, b) \/ LastOf(y, b) = a.layer
<1> DEFINE l == a.layer
           w == Del(x, a.src, l)
           depth == Min({a.new, Len(x[a.dest]) - 1})
<1>1. /\ a.src \in Canvases /\ a.dest \in Canvases /\ l \in Layers /\ a.new \in Nat
      /\ l \in Range(x[a.src])
    BY DEF DidMove, IsMove
<1>2. /\ w \in Contents /\ ~Placed(w, l) /\ Len(w[a.src]) = Len(x[a.src]) - 1
      /\ \A b \in Canvases : b # a.src => w[b] = x[b]
      /\ \A m \in Layers, b \in Canvases : m # l => (m \in Range(w[b]) <=> m \in Range(x[b]))
    BY <1>1, DelIs
<1>3. y = x \/ y = Ins(w, a.dest, depth, l)
    BY DEF DidMove, Moved
<1>4. Placed(x, l)
    BY <1>1 DEF Placed
<1>5. CASE y = x
    BY <1>4, <1>5
<1>6. CASE y = Ins(w, a.dest, depth, l)
    <2> HIDE DEF w
    <2>1. depth \in 0..Len(w[a.dest])
        <3>1. Len(x[a.dest]) \in Nat /\ Len(x[a.dest]) >= 1 /\ Len(w[a.dest]) \in Nat
            BY <1>1, <1>2, ContentOf
        <3>2. Len(w[a.dest]) = Len(x[a.dest]) \/ Len(w[a.dest]) = Len(x[a.dest]) - 1
            BY <1>1, <1>2
        <3>3. depth = IF a.new <= Len(x[a.dest]) - 1 THEN a.new ELSE Len(x[a.dest]) - 1
            BY <1>1, <3>1, MinIs
        <3>4. QED
            BY <1>1, <3>1, <3>2, <3>3
    <2> HIDE DEF depth
    <2>2. \A m \in Layers, b \in Canvases : m \in Range(y[b]) <=> m \in Range(w[b]) \/ (m = l /\ b = a.dest)
        BY <1>1, <1>2, <1>6, <2>1, InsIs
    <2>3. \A m \in Layers : Placed(y, m) <=> Placed(x, m)
        BY <1>1, <1>2, <1>4, <2>2 DEF Placed
    <2>4. ASSUME a.src = a.dest, NEW m \in Layers, NEW b \in Canvases
          PROVE  m \in Range(y[b]) <=> m \in Range(x[b])
        <3>1. CASE m # l
            BY <1>2, <2>2, <3>1
        <3>2. CASE m = l
            <4>1. m \in Range(x[b]) <=> b = a.src
                BY <1>1, <3>2, OnePlace
            <4>2. m \in Range(y[b]) <=> b = a.dest
                BY <1>2, <2>2, <3>2 DEF Placed
            <4>3. QED
                BY <2>4, <4>1, <4>2
        <3>3. QED
            BY <3>1, <3>2
    <2>5. ASSUME \A b \in Canvases : LastOf(x, b) # l
          PROVE  \A b \in Canvases : LastOf(y, b) = LastOf(x, b) \/ LastOf(y, b) = l
        <3>1. \A b \in Canvases : LastOf(w, b) = LastOf(x, b)
            BY <1>1, <2>5, DelLast DEF w
        <3>2. /\ \A b \in Canvases : b # a.dest \/ depth < Len(w[a.dest]) => LastOf(y, b) = LastOf(w, b)
              /\ depth = Len(w[a.dest]) => LastOf(y, a.dest) = l
            BY <1>1, <1>2, <1>6, <2>1, InsLast
        <3>3. depth < Len(w[a.dest]) \/ depth = Len(w[a.dest])
            <4>1. Len(w[a.dest]) \in Nat
                BY <1>1, <1>2, ContentOf
            <4>2. QED
                BY <2>1, <4>1
        <3>4. QED
            BY <1>1, <3>1, <3>2, <3>3
    <2>6. QED
        BY <1>4, <2>3, <2>4, <2>5
<1>7. QED
    BY <1>3, <1>5, <1>6

\* A removal.
LEMMA RemovePlaces ==
    ASSUME NEW x \in Contents, NEW y, NEW a, DidRemove(a, x, y)
    PROVE  /\ \A l \in Layers : Placed(y, l) => Placed(x, l)
           /\ Len(a.layers) = 1 =>
                /\ Placed(x, a.layers[1])
                /\ \A l \in Layers : Placed(y, l) <=> Placed(x, l) /\ l # a.layers[1]
                /\ \A b \in Canvases : LastOf(y, b) = LastOf(x, b)
<1> DEFINE n == Len(a.layers)
           c == a.canvas
<1>1. /\ a \in [name : {"LayerRemove"}, canvas : Canvases, layers : Seq(Layers), depth : [1..n -> Nat]]
      /\ n \in Nat /\ c \in Canvases
    BY LenProperties DEF DidRemove, IsRemove
<1>2. PICK z : Emptied(a, z) /\ x = z[0] /\ y = z[n]
    BY DEF DidRemove
<1> HIDE DEF n, c
<1>3. /\ z \in [0..n -> Contents]
      /\ \A i \in 1..n :
           /\ a.layers[i] \in Layers
           /\ a.layers[i] \in Range(z[i - 1][c])
           /\ z[i] = Del(z[i - 1], c, a.layers[i])
           /\ a.depth[i] = Pos(z[i - 1], c, a.layers[i])
           /\ a.depth[i] <= Len(z[i - 1][c]) - 2
    BY <1>1, <1>2, ElementOfSeq DEF Emptied, n, c
<1>4. ASSUME NEW i \in 1..n
      PROVE  \A l \in Layers : Placed(z[i], l) <=> Placed(z[i - 1], l) /\ l # a.layers[i]
    <2> DEFINE w == z[i - 1]
               k == a.layers[i]
    <2>1. i - 1 \in 0..n
        BY <1>1
    <2>2. w \in Contents /\ k \in Layers /\ k \in Range(w[c]) /\ z[i] = Del(w, c, k)
        BY <1>3, <2>1
    <2> HIDE DEF w, k
    <2>3. ~Placed(z[i], k) /\ \A m \in Layers, b \in Canvases : m # k => (m \in Range(z[i][b]) <=> m \in Range(w[b]))
        BY <1>1, <2>2, DelIs
    <2>4. \A l \in Layers : Placed(z[i], l) <=> Placed(w, l) /\ l # k
        BY <2>3 DEF Placed
    <2>5. QED
        BY <2>4 DEF w, k
<1> DEFINE P(i) == \A l \in Layers : Placed(z[i], l) => Placed(x, l)
           S == {i \in 0..n : ~P(i)}
<1>5. S = {}
    <2> SUFFICES ASSUME S # {} PROVE FALSE
        OBVIOUS
    <2>1. PICK i \in S : \A j \in S : i <= j
        <3>1. S \in SUBSET Nat
            OBVIOUS
        <3>2. QED
            BY <3>1, LeastExists
    <2>2. i \in 0..n /\ ~P(i)
        BY <2>1
    <2>3. i # 0
        BY <1>2, <2>2
    <2>4. i \in 1..n /\ i - 1 \in 0..n /\ ~(i <= i - 1)
        BY <1>1, <2>2, <2>3
    <2>5. P(i - 1)
        BY <2>1, <2>4
    <2>6. QED
        BY <1>4, <2>2, <2>4, <2>5
<1>6. \A l \in Layers : Placed(y, l) => Placed(x, l)
    BY <1>1, <1>2, <1>5
<1>7. ASSUME n = 1
      PROVE  /\ Placed(x, a.layers[1])
             /\ \A l \in Layers : Placed(y, l) <=> Placed(x, l) /\ l # a.layers[1]
             /\ \A b \in Canvases : LastOf(y, b) = LastOf(x, b)
    <2> DEFINE k == a.layers[1]
    <2>1. 1 \in 1..n /\ 1 - 1 = 0
        BY <1>7
    <2>2. /\ k \in Layers /\ k \in Range(x[c]) /\ y = Del(x, c, k)
          /\ Pos(x, c, k) <= Len(x[c]) - 2
        <3>1. /\ k \in Layers /\ k \in Range(z[1 - 1][c]) /\ z[1] = Del(z[1 - 1], c, k)
              /\ a.depth[1] = Pos(z[1 - 1], c, k) /\ a.depth[1] <= Len(z[1 - 1][c]) - 2
            BY <1>3, <2>1
        <3>2. z[1 - 1] = x /\ y = z[1]
            BY <1>2, <1>7, <2>1
        <3>3. QED
            BY <3>1, <3>2
    <2> HIDE DEF k
    <2>3. \A l \in Layers : Placed(y, l) <=> Placed(x, l) /\ l # k
        <3>1. \A l \in Layers : Placed(z[1], l) <=> Placed(z[1 - 1], l) /\ l # k
            BY <1>4, <2>1 DEF k
        <3>2. QED
            BY <1>2, <1>7, <2>1, <3>1
    <2>4. LastOf(x, c) # k
        <3>1. Len(x[c]) \in Nat /\ Len(x[c]) >= 1
            BY <1>1, ContentOf
        <3>2. Len(x[c]) \in 1..Len(x[c])
            BY <3>1
        <3>3. x[c][Len(x[c])] = k => Len(x[c]) = Pos(x, c, k) + 1
            <4>1. \A i \in 1..Len(x[c]) : x[c][i] = k => i = Pos(x, c, k) + 1
                BY <1>1, <2>2, PosIs
            <4>2. QED
                BY <3>2, <4>1
        <3>4. Pos(x, c, k) \in 0..(Len(x[c]) - 1)
            BY <1>1, <2>2, PosIs
        <3> DEFINE m == Len(x[c])
        <3> HIDE DEF m
        <3>5. m \in Nat /\ Pos(x, c, k) <= m - 2 /\ Pos(x, c, k) \in 0..(m - 1)
            BY <2>2, <3>1, <3>4 DEF m
        <3>6. m # Pos(x, c, k) + 1
            BY <3>5
        <3>7. QED
            BY <3>3, <3>6 DEF LastOf, m
    <2>5. \A b \in Canvases : LastOf(y, b) = LastOf(x, b)
        BY <1>1, <2>2, <2>4, DelLast
    <2>6. Placed(x, k)
        BY <1>1, <2>2 DEF Placed
    <2>7. QED
        BY <2>3, <2>5, <2>6 DEF k
<1>8. QED
    BY <1>6, <1>7 DEF n

-----------------------------------------------------------------------------
(***************************************************************************)
(* LayerEncapsulate and LayerDuplicate: a new layer, g, comes into a       *)
(* canvas and is moved to its place, and others are then put in its own    *)
(* canvas, one after another.                                              *)
(***************************************************************************)

TakesOut(d, list, g, k) ==
    /\ IsRemove(list[k]) /\ Len(list[k].layers) = 1
    /\ list[k].layers[1] # g
    /\ d.canvas[list[k].layers[1]] # NoCanvas

PutsIn(list, g, k) ==
    /\ k > 3
    /\ IsAdd(list[k]) /\ list[k].layer # g
    /\ IsRemove(list[k - 1]) /\ Len(list[k - 1].layers) = 1
    /\ list[k - 1].layers[1] = list[k].layer

IsFounding(d, list, g) ==
    /\ IsSeq(list) /\ Len(list) >= 2
    /\ IsAdd(list[1]) /\ list[1].layer = g
    /\ IsMove(list[2]) /\ list[2].layer = g /\ list[2].canvas = list[1].canvas
    /\ list[2].dest \in {NoCanvas, list[1].canvas}
    /\ \A k \in 3..Len(list) : TakesOut(d, list, g, k) \/ PutsIn(list, g, k)

\* What kind an action is tells what it did.
LEMMA DidKind ==
    ASSUME NEW a, NEW x, NEW y, Did(a, x, y)
    PROVE  /\ x \in Contents /\ y \in Contents
           /\ IsAdd(a) => DidAdd(a, x, y)
           /\ IsMove(a) => DidMove(a, x, y)
           /\ IsRemove(a) => DidRemove(a, x, y)
BY DEF Did, DidAdd, DidMove, DidRemove, IsAdd, IsMove, IsRemove

\* What is in the canvases meanwhile.
FoundAt(x, g, j, w) ==
    /\ j >= 1 => Placed(w, g)
    /\ \A l \in Layers : Placed(w, l) => Placed(x, l) \/ l = g
    /\ \A b \in Canvases : LastOf(w, b) = Blank \/ (LastOf(w, b) = g /\ j >= 2)

\* While layers are grouped or copied, only the new layer is added, and each step can be undone.
LEMMA FoundingAt ==
    ASSUME NEW d, Shaped(d), \A b \in Canvases : LastOf(d.content, b) = Blank,
           NEW raw, NEW g, IsFounding(d, raw, g), ~Placed(d.content, g),
           NEW i \in 0..Len(raw), NEW list, NEW z, NEW e, RunsOn(raw, d, i, list, z, e)
    PROVE  /\ \A j \in 0..i : FoundAt(d.content, g, j, z[j])
           /\ \A j \in 1..i : Sure(list[j])
           /\ i >= 2 => list[2].dest = raw[1].canvas
<1> DEFINE n == Len(raw)
           x == d.content
           c == raw[1].canvas
<1>0. /\ n \in Nat /\ n >= 2 /\ i \in Nat /\ i <= n
      /\ IsAdd(raw[1]) /\ raw[1].layer = g /\ g \in Layers /\ c \in Canvases
      /\ IsMove(raw[2]) /\ raw[2].layer = g /\ raw[2].canvas = c /\ raw[2].dest \in {NoCanvas, c}
      /\ \A k \in 3..n : TakesOut(d, raw, g, k) \/ PutsIn(raw, g, k)
    BY SeqIff DEF IsFounding, IsAdd
<1>1. /\ z \in [0..i -> Contents] /\ z[0] = x
      /\ \A j \in 1..i : Like(raw[j], list[j]) /\ Did(list[j], z[j - 1], z[j])
    BY DEF RunsOn
<1> HIDE DEF n, x, c
<1>2. 1 <= i => DidAdd(raw[1], x, z[1]) /\ list[1] = raw[1] /\ z[1] \in Contents
    <2> SUFFICES ASSUME 1 <= i PROVE DidAdd(raw[1], x, z[1]) /\ list[1] = raw[1] /\ z[1] \in Contents
        OBVIOUS
    <2>1. 1 \in 1..i /\ 1 - 1 = 0
        BY <1>0
    <2>2. Like(raw[1], list[1]) /\ Did(list[1], z[1 - 1], z[1]) /\ z[1 - 1] = z[0]
        BY <1>1, <2>1
    <2>3. list[1] = raw[1]
        BY <1>0, <2>2 DEF Like
    <2>4. QED
        BY <1>0, <1>1, <2>2, <2>3, DidKind
<1>3. 2 <= i => DidMove(list[2], z[1], z[2]) /\ list[2].src = c /\ list[2].dest = c /\ list[2].canvas = c /\ list[2].layer = g
    <2> SUFFICES ASSUME 2 <= i
                 PROVE  DidMove(list[2], z[1], z[2]) /\ list[2].src = c /\ list[2].dest = c /\ list[2].canvas = c /\ list[2].layer = g
        OBVIOUS
    <2>1. 2 \in 1..i /\ 2 - 1 = 1 /\ 1 <= i
        BY <1>0
    <2>2. Like(raw[2], list[2]) /\ Did(list[2], z[1], z[2])
        BY <1>1, <2>1
    <2>3. MoveLike(raw[2], list[2])
        BY <1>0, <2>2 DEF Like
    <2>4. DidMove(list[2], z[1], z[2])
        BY <2>2, <2>3, DidKind DEF MoveLike
    <2>5. list[2].canvas = c /\ list[2].layer = g /\ list[2].dest = IF raw[2].dest = NoCanvas THEN list[2].src ELSE c
        BY <1>0, <2>3 DEF MoveLike
    <2>6. list[2].src \in Canvases /\ g \in Range(z[1][list[2].src])
        BY <2>4, <2>5 DEF DidMove
    <2>7. g \in Range(z[1][c])
        <3>1. x \in Contents
            BY DEF Shaped, x
        <3>2. 0 \in 0..Len(x[c])
            BY <1>0, <3>1, ContentOf
        <3>3. z[1] = Ins(x, c, 0, g) /\ ~Placed(x, g)
            BY <1>0, <1>2, <2>1 DEF DidAdd, c
        <3>4. QED
            BY <1>0, <3>1, <3>2, <3>3, InsIs
    <2>8. list[2].src = c
        BY <1>0, <1>2, <2>1, <2>6, <2>7, OnePlace
    <2>9. QED
        BY <2>4, <2>5, <2>8
<1>4. ASSUME NEW j \in 3..i, IsRemove(raw[j])
      PROVE  DidRemove(list[j], z[j - 1], z[j]) /\ list[j].layers = raw[j].layers /\ z[j - 1] \in Contents
    <2>1. j \in 1..i
        BY <1>0
    <2>2. Like(raw[j], list[j]) /\ Did(list[j], z[j - 1], z[j])
        BY <1>1, <2>1
    <2>3. IsRemove(list[j]) /\ list[j].layers = raw[j].layers
        BY <1>4, <2>2 DEF Like
    <2>4. QED
        BY <2>2, <2>3, DidKind
<1>5. ASSUME NEW j \in 3..i, IsAdd(raw[j])
      PROVE  DidAdd(raw[j], z[j - 1], z[j]) /\ list[j] = raw[j] /\ z[j - 1] \in Contents
    <2>1. j \in 1..i
        BY <1>0
    <2>2. Like(raw[j], list[j]) /\ Did(list[j], z[j - 1], z[j])
        BY <1>1, <2>1
    <2>3. list[j] = raw[j]
        BY <1>5, <2>2 DEF Like
    <2>4. QED
        BY <1>5, <2>2, <2>3, DidKind
<1> DEFINE S == {j \in 0..i : ~FoundAt(x, g, j, z[j])}
<1>6. S = {}
    <2> SUFFICES ASSUME S # {} PROVE FALSE
        OBVIOUS
    <2>1. PICK j \in S : \A k \in S : j <= k
        <3>1. S \in SUBSET Nat
            OBVIOUS
        <3>2. QED
            BY <3>1, LeastExists
    <2>2. j \in 0..i /\ ~FoundAt(x, g, j, z[j])
        BY <2>1
    <2>3. \A k \in 0..i : k < j => FoundAt(x, g, k, z[k])
        <3>1. \A k \in 0..i : k < j => ~(j <= k)
            BY <2>2
        <3>2. QED
            BY <2>1, <3>1
    <2>4. CASE j = 0
        <3>1. ~(j >= 1)
            BY <2>4
        <3>2. QED
            BY <1>1, <2>2, <2>4, <3>1 DEF FoundAt, x
    <2>5. CASE j = 1
        <3>1. 1 <= i /\ 1 >= 1
            BY <2>2, <2>5
        <3>2. /\ \A l \in Layers : Placed(z[1], l) <=> Placed(x, l) \/ l = g
              /\ \A b \in Canvases : LastOf(z[1], b) = LastOf(x, b)
            <4>1. x \in Contents
                BY DEF Shaped, x
            <4>2. QED
                BY <1>0, <1>2, <3>1, <4>1, AddPlaces
        <3>3. FoundAt(x, g, 1, z[1])
            BY <1>0, <3>2 DEF FoundAt, x
        <3>4. QED
            BY <2>2, <2>5, <3>3
    <2>6. CASE j = 2
        <3>1. 2 <= i /\ 1 <= i /\ 1 \in 0..i /\ 1 < j
            BY <2>2, <2>6
        <3>2. FoundAt(x, g, 1, z[1])
            BY <2>3, <3>1
        <3>3. (\A b \in Canvases : LastOf(z[1], b) = Blank) /\ 1 >= 1 /\ 2 >= 2
            BY <3>2 DEF FoundAt
        <3>4. Placed(z[1], g) /\ (\A l \in Layers : Placed(z[1], l) => Placed(x, l) \/ l = g) /\ g # Blank
            BY <1>0, <3>2, <3>3, LayersAssumption DEF FoundAt
        <3>5. /\ \A l \in Layers : Placed(z[2], l) <=> Placed(z[1], l)
              /\ (\A b \in Canvases : LastOf(z[1], b) # g) =>
                   \A b \in Canvases : LastOf(z[2], b) = LastOf(z[1], b) \/ LastOf(z[2], b) = g
            <4>1. z[1] \in Contents
                BY <1>2, <3>1
            <4>2. DidMove(list[2], z[1], z[2]) /\ list[2].layer = g
                BY <1>3, <3>1
            <4>3. QED
                BY <4>1, <4>2, MovePlaces
        <3>6. FoundAt(x, g, 2, z[2])
            BY <1>0, <3>3, <3>4, <3>5 DEF FoundAt
        <3>7. QED
            BY <2>2, <2>6, <3>6
    <2>7. CASE j >= 3
        <3>1. j \in 3..i /\ j \in 3..n /\ j - 1 \in 0..i /\ j - 1 < j /\ j - 1 >= 2 /\ j - 1 >= 1 /\ j >= 2 /\ j >= 1
            BY <1>0, <2>2, <2>7
        <3>2. FoundAt(x, g, j - 1, z[j - 1])
            BY <2>3, <3>1
        <3> DEFINE w == z[j - 1]
                   y == z[j]
        <3>3. /\ Placed(w, g)
              /\ \A l \in Layers : Placed(w, l) => Placed(x, l) \/ l = g
              /\ \A b \in Canvases : LastOf(w, b) = Blank \/ LastOf(w, b) = g
            BY <3>1, <3>2 DEF FoundAt
        <3>4. CASE TakesOut(d, raw, g, j)
            <4>1. IsRemove(raw[j]) /\ Len(raw[j].layers) = 1 /\ raw[j].layers[1] # g
                BY <3>4 DEF TakesOut
            <4>2. DidRemove(list[j], w, y) /\ Len(list[j].layers) = 1 /\ list[j].layers[1] # g /\ w \in Contents
                BY <1>4, <3>1, <4>1
            <4> HIDE DEF w, y
            <4>3. /\ \A l \in Layers : Placed(y, l) <=> Placed(w, l) /\ l # list[j].layers[1]
                  /\ \A b \in Canvases : LastOf(y, b) = LastOf(w, b)
                BY <4>2, RemovePlaces
            <4>4. FoundAt(x, g, j, y)
                BY <1>0, <3>1, <3>3, <4>2, <4>3 DEF FoundAt
            <4>5. QED
                BY <2>2, <4>4 DEF y
        <3>5. CASE PutsIn(raw, g, j)
            <4> DEFINE m == raw[j].layer
                       v == z[j - 2]
            <4>1. /\ IsAdd(raw[j]) /\ m # g /\ j > 3
                  /\ IsRemove(raw[j - 1]) /\ Len(raw[j - 1].layers) = 1 /\ raw[j - 1].layers[1] = m
                BY <3>5 DEF PutsIn
            <4>2. DidAdd(raw[j], w, y) /\ w \in Contents
                BY <1>5, <3>1, <4>1
            <4>3. /\ \A l \in Layers : Placed(y, l) <=> Placed(w, l) \/ l = m
                  /\ \A b \in Canvases : LastOf(y, b) = LastOf(w, b)
                <5> HIDE DEF w, y
                <5>1. QED
                    BY <4>2, AddPlaces
            <4>4. j - 1 \in 3..i /\ (j - 1) - 1 = j - 2 /\ j - 2 \in 0..i /\ j - 2 < j
                BY <3>1, <4>1
            <4>5. DidRemove(list[j - 1], v, w) /\ list[j - 1].layers = raw[j - 1].layers /\ v \in Contents
                BY <1>4, <4>1, <4>4
            <4>6. FoundAt(x, g, j - 2, v)
                BY <2>3, <4>4
            <4> HIDE DEF w, y, v
            <4>7. Placed(v, m)
                BY <4>1, <4>5, RemovePlaces
            <4>8. m \in Layers
                BY <4>1 DEF IsAdd
            <4>9. Placed(x, m)
                BY <4>1, <4>6, <4>7, <4>8 DEF FoundAt
            <4> HIDE DEF m
            <4>10. FoundAt(x, g, j, y)
                BY <1>0, <3>1, <3>3, <4>3, <4>9 DEF FoundAt
            <4>11. QED
                BY <2>2, <4>10 DEF y
        <3>6. QED
            BY <1>0, <3>1, <3>4, <3>5
    <2>8. QED
        BY <2>2, <2>4, <2>5, <2>6, <2>7
<1>7. ASSUME NEW j \in 1..i
      PROVE  Sure(list[j])
    <2>1. CASE j = 1
        <3>1. 1 <= i
            BY <1>0, <2>1
        <3>2. list[1].name = "LayerAdd"
            BY <1>0, <1>2, <3>1 DEF IsAdd
        <3>3. QED
            BY <2>1, <3>2 DEF Sure
    <2>2. CASE j = 2
        <3>1. 2 <= i
            BY <1>0, <2>2
        <3>2. QED
            BY <1>3, <2>2, <3>1 DEF Sure
    <2>3. CASE j >= 3
        <3>1. j \in 3..i /\ j \in 3..n
            BY <1>0, <2>3
        <3>2. IsAdd(raw[j]) \/ IsRemove(raw[j])
            BY <1>0, <3>1 DEF TakesOut, PutsIn
        <3>3. list[j].name \in {"LayerAdd", "LayerRemove"}
            <4>1. CASE IsAdd(raw[j])
                BY <1>5, <3>1, <4>1 DEF IsAdd
            <4>2. CASE IsRemove(raw[j])
                BY <1>4, <3>1, <4>2 DEF DidRemove, IsRemove
            <4>3. QED
                BY <3>2, <4>1, <4>2
        <3>4. QED
            BY <3>3 DEF Sure
    <2>4. j = 1 \/ j = 2 \/ j >= 3
        BY <1>0
    <2>5. QED
        BY <2>1, <2>2, <2>3, <2>4
<1>8. i >= 2 => list[2].dest = c
    <2>1. i >= 2 => 2 <= i
        BY <1>0
    <2>2. QED
        BY <1>3, <2>1
<1>9. QED
    BY <1>6, <1>7, <1>8 DEF x, c

\* Each of them is ready when its turn comes.
LEMMA FoundingReady ==
    ASSUME NEW d, Shaped(d), \A b \in Canvases : LastOf(d.content, b) = Blank,
           NEW raw, NEW g, IsFounding(d, raw, g), ~Placed(d.content, g)
    PROVE  ReadyList(raw, d)
<1> DEFINE n == Len(raw)
           x == d.content
           c == raw[1].canvas
<1>0. /\ n \in Nat /\ n >= 2 /\ IsSeq(raw)
      /\ IsAdd(raw[1]) /\ raw[1].layer = g /\ g \in Layers /\ c \in Canvases
      /\ IsMove(raw[2]) /\ raw[2].layer = g
      /\ \A k \in 3..n : TakesOut(d, raw, g, k) \/ PutsIn(raw, g, k)
    BY SeqIff DEF IsFounding, IsAdd
<1> HIDE DEF n, x, c
<1>1. ASSUME NEW i \in 1..n, raw[i].name = "LayerRemove"
      PROVE  Len(raw[i].layers) = 1
    <2>1. i = 1 \/ i = 2 \/ i \in 3..n
        BY <1>0
    <2>2. i # 1 /\ i # 2
        BY <1>0, <1>1 DEF IsAdd, IsMove
    <2>3. TakesOut(d, raw, g, i)
        BY <1>0, <1>1, <2>1, <2>2 DEF PutsIn, IsAdd
    <2>4. QED
        BY <2>3 DEF TakesOut
<1>2. ASSUME NEW i \in 1..n, NEW list, NEW z, NEW e, RunsOn(raw, d, i - 1, list, z, e)
      PROVE  ReadyOne(e, raw[i])
    <2> DEFINE k == i - 1
               w == z[i - 1]
    <2>1. k \in 0..Len(raw) /\ k \in 0..k /\ k \in Nat
        BY <1>0 DEF n
    <2>2. RunsOn(raw, d, k, list, z, e) /\ w = z[k]
        BY <1>2
    <2> HIDE DEF k, w
    <2>3. /\ \A j \in 0..k : FoundAt(x, g, j, z[j])
          /\ \A j \in 1..k : Like(raw[j], list[j]) /\ Did(list[j], z[j - 1], z[j])
          /\ Became(d, e, w)
          /\ z[0] = x
        BY <2>1, <2>2, FoundingAt DEF RunsOn, x
    <2>4. Shaped(e) /\ e.content = w /\ Grown(d, e) /\ FoundAt(x, g, k, w)
        BY <2>1, <2>2, <2>3 DEF Became
    <2>5. CASE i = 1
        <3>1. w = x
            BY <2>3, <2>5 DEF w
        <3>2. QED
            BY <1>0, <2>4, <2>5, <3>1 DEF ReadyOne, x
    <2>6. CASE i = 2
        <3>1. k >= 1
            BY <2>6 DEF k
        <3>2. Placed(e.content, g)
            BY <2>4, <3>1 DEF FoundAt
        <3>3. e.canvas[g] # NoCanvas
            BY <1>0, <2>4, <3>2, LayersAssumption DEF Shaped, Situated, Placed, Found
        <3>4. QED
            BY <1>0, <2>6, <3>3 DEF ReadyOne
    <2>7. CASE i >= 3
        <3>1. i \in 3..n
            BY <1>0, <2>7
        <3>2. CASE TakesOut(d, raw, g, i)
            <4> DEFINE m == raw[i].layers[1]
                       s == e.canvas[m]
            <4>1. IsRemove(raw[i]) /\ Len(raw[i].layers) = 1 /\ m # g /\ d.canvas[m] # NoCanvas
                BY <3>2 DEF TakesOut
            <4>2. m \in Layers
                <5>1. raw[i].layers \in Seq(Layers)
                    BY <4>1 DEF IsRemove
                <5>2. 1 \in 1..Len(raw[i].layers)
                    BY <4>1
                <5>3. QED
                    BY <5>1, <5>2, ElementOfSeq
            <4> HIDE DEF m
            <4>3. s # NoCanvas /\ e.canvas \in [Layers -> Canvases \union {NoCanvas}]
                BY <2>4, <4>1, <4>2 DEF Grown, Shaped
            <4>4. s \in Canvases
                BY <4>2, <4>3
            <4> HIDE DEF s
            <4>5. LastOf(e.content, s) \in {Blank, g}
                BY <2>4, <4>4 DEF FoundAt
            <4>6. LastOf(e.content, s) # m
                BY <4>1, <4>2, <4>5, LayersAssumption
            <4>7. \A j \in 1..Len(raw[i].layers) : e.canvas[raw[i].layers[j]] = s /\ LastOf(e.content, s) # raw[i].layers[j]
                <5>1. \A j \in 1..Len(raw[i].layers) : j = 1
                    BY <4>1
                <5>2. QED
                    BY <4>6, <5>1 DEF m, s
            <4>8. QED
                BY <4>1, <4>4, <4>7 DEF ReadyOne
        <3>3. CASE PutsIn(raw, g, i)
            <4> DEFINE m == raw[i].layer
                       v == z[k - 1]
                       b == list[k]
            <4>1. IsAdd(raw[i]) /\ i > 3 /\ IsRemove(raw[k]) /\ Len(raw[k].layers) = 1 /\ raw[k].layers[1] = m /\ m \in Layers
                BY <3>3 DEF PutsIn, k, IsAdd
            <4>2. k \in 1..k
                BY <4>1, <2>1 DEF k
            <4>3. Like(raw[k], b) /\ Did(b, v, w)
                BY <2>2, <2>3, <4>2
            <4>4. IsRemove(b) /\ b.layers = raw[k].layers
                BY <4>1, <4>3 DEF Like
            <4> HIDE DEF m, v, b
            <4>5. DidRemove(b, v, w) /\ v \in Contents /\ Len(b.layers) = 1 /\ b.layers[1] = m
                BY <4>1, <4>3, <4>4, DidKind
            <4>6. ~Placed(w, m)
                BY <4>1, <4>5, RemovePlaces
            <4>7. QED
                BY <2>4, <4>1, <4>6 DEF ReadyOne, m
        <3>4. QED
            BY <1>0, <3>1, <3>2, <3>3
    <2>8. i = 1 \/ i = 2 \/ i >= 3
        BY <1>0
    <2>9. QED
        BY <2>5, <2>6, <2>7, <2>8
<1>3. QED
    BY <1>0, <1>1, <1>2 DEF ReadyList, n

\* A list that founds a layer has come of another.
LEMMA FoundingLike ==
    ASSUME NEW d, NEW raw, NEW g, IsFounding(d, raw, g), NEW list, AllLike(raw, list),
           list[2].dest = raw[1].canvas, NEW e, Grown(d, e)
    PROVE  IsFounding(e, list, g)
<1> DEFINE n == Len(raw)
           c == raw[1].canvas
<1>0. /\ n \in Nat /\ n >= 2 /\ IsSeq(raw)
      /\ IsAdd(raw[1]) /\ raw[1].layer = g /\ g \in Layers /\ c \in Canvases
      /\ IsMove(raw[2]) /\ raw[2].layer = g /\ raw[2].canvas = c
      /\ \A k \in 3..n : TakesOut(d, raw, g, k) \/ PutsIn(raw, g, k)
    BY SeqIff DEF IsFounding, IsAdd
<1> HIDE DEF n, c
<1>1. IsSeq(list) /\ Len(list) = n /\ \A j \in 1..n : Like(raw[j], list[j]) \/ list[j] = raw[j]
    BY DEF AllLike, n
<1>2. /\ \A j \in 1..n : IsAdd(raw[j]) => list[j] = raw[j]
      /\ \A j \in 1..n : IsRemove(raw[j]) => IsRemove(list[j]) /\ list[j].layers = raw[j].layers
      /\ \A j \in 1..n : IsMove(raw[j]) => IsMove(list[j]) /\ list[j].layer = raw[j].layer /\ list[j].canvas = raw[j].canvas
    BY <1>1 DEF Like, MoveLike
<1>3. 1 \in 1..n /\ 2 \in 1..n
    BY <1>0
<1>4. list[1] = raw[1]
    BY <1>0, <1>2, <1>3
<1>5. IsMove(list[2]) /\ list[2].layer = g /\ list[2].canvas = c
    BY <1>0, <1>2, <1>3
<1>6. ASSUME NEW k \in 3..n
      PROVE  TakesOut(e, list, g, k) \/ PutsIn(list, g, k)
    <2>1. k \in 1..n
        BY <1>0
    <2>2. CASE TakesOut(d, raw, g, k)
        <3> DEFINE m == raw[k].layers[1]
        <3>1. IsRemove(raw[k]) /\ Len(raw[k].layers) = 1 /\ m # g /\ d.canvas[m] # NoCanvas
            BY <2>2 DEF TakesOut
        <3>2. m \in Layers
            <4>1. raw[k].layers \in Seq(Layers) /\ 1 \in 1..Len(raw[k].layers)
                BY <3>1 DEF IsRemove
            <4>2. QED
                BY <4>1, ElementOfSeq
        <3>3. e.canvas[m] # NoCanvas
            BY <3>1, <3>2 DEF Grown
        <3>4. IsRemove(list[k]) /\ list[k].layers = raw[k].layers
            BY <1>2, <2>1, <3>1
        <3>5. QED
            BY <3>1, <3>3, <3>4 DEF TakesOut
    <2>3. CASE PutsIn(raw, g, k)
        <3>1. /\ k > 3 /\ IsAdd(raw[k]) /\ raw[k].layer # g
              /\ IsRemove(raw[k - 1]) /\ Len(raw[k - 1].layers) = 1 /\ raw[k - 1].layers[1] = raw[k].layer
            BY <2>3 DEF PutsIn
        <3>2. k - 1 \in 1..n
            BY <1>0, <3>1
        <3>3. list[k] = raw[k] /\ IsRemove(list[k - 1]) /\ list[k - 1].layers = raw[k - 1].layers
            BY <1>2, <2>1, <3>1, <3>2
        <3>4. QED
            BY <3>1, <3>3 DEF PutsIn
    <2>4. QED
        BY <1>0, <2>2, <2>3
<1>7. list[1].canvas = c /\ list[1].layer = g /\ IsAdd(list[1])
    BY <1>0, <1>4 DEF c
<1>8. list[2].dest = c
    BY DEF c
<1>9. QED
    BY <1>0, <1>1, <1>5, <1>6, <1>7, <1>8 DEF IsFounding

\* They are performed, or not at all.
Founded(a, d, r, g, list) ==
    /\ r.ok \in BOOLEAN
    /\ r.act = [a EXCEPT !.list = list]
    /\ IsFounding(r.doc, list, g)
    /\ r.ok => /\ \A j \in 1..Len(list) : Sure(list[j])
               /\ ListDid(list, d.content, r.doc.content)
               /\ Became(d, r.doc, r.doc.content)
               /\ FoundAt(d.content, g, Len(list), r.doc.content)
    /\ ~r.ok => Became(d, r.doc, d.content)

\* Grouping and copying are performed, or leave the canvases as they were.
LEMMA FoundingDone ==
    ASSUME NEW d, Shaped(d), \A b \in Canvases : LastOf(d.content, b) = Blank,
           NEW a, NEW g, IsFounding(d, a.list, g), ~Placed(d.content, g)
    PROVE  \E list : Founded(a, d, SuperPerform(a, d), g, list)
<1> DEFINE raw == a.list
           r == SuperPerform(a, d)
           n == Len(raw)
<1>0. n \in Nat /\ n >= 2 /\ IsMove(raw[2]) /\ raw[2].layer = g /\ IsAdd(raw[1])
    BY SeqIff DEF IsFounding
<1>1. ReadyList(raw, d)
    BY FoundingReady
<1>2. ASSUME NEW i \in 1..n, NEW list, NEW z, NEW e, RunsOn(raw, d, i - 1, list, z, e)
      PROVE  (\A j \in 1..(i - 1) : Sure(list[j])) /\ (i - 1 >= 2 => list[2].dest = raw[1].canvas)
    <2> DEFINE k == i - 1
    <2>1. k \in 0..Len(raw) /\ RunsOn(raw, d, k, list, z, e)
        BY <1>0, <1>2
    <2> HIDE DEF k, n
    <2>2. (\A j \in 1..k : Sure(list[j])) /\ (k >= 2 => list[2].dest = raw[1].canvas)
        BY <2>1, FoundingAt
    <2>3. QED
        BY <2>2 DEF k
<1>3. PICK list : SuperDone(a, d, r, list)
    BY <1>1, <1>2, SuperPerformDone
<1> HIDE DEF r, n
<1>4. r.ok \in BOOLEAN /\ r.act = [a EXCEPT !.list = list] /\ AllLike(raw, list)
    BY <1>3 DEF SuperDone
<1>5. IsSeq(list) /\ Len(list) = n
    BY <1>4 DEF AllLike, n
<1>6. CASE r.ok
    <2>1. PICK z : RunsOn(raw, d, n, list, z, r.doc)
        BY <1>3, <1>6 DEF SuperDone, n
    <2>2. /\ \A j \in 0..n : FoundAt(d.content, g, j, z[j])
          /\ \A j \in 1..n : Sure(list[j])
          /\ list[2].dest = raw[1].canvas
        <3>1. n \in 0..Len(raw)
            BY <1>0 DEF n
        <3>2. QED
            BY <1>0, <2>1, <3>1, FoundingAt
    <2>3. Became(d, r.doc, z[n]) /\ z[0] = d.content /\ z \in [0..n -> Contents] /\ \A j \in 1..n : Did(list[j], z[j - 1], z[j])
        BY <2>1 DEF RunsOn
    <2>4. Trail(list, n, z)
        BY <1>0, <1>5, <2>3 DEF Trail
    <2>5. IsFounding(r.doc, list, g)
        BY <1>4, <2>2, <2>3, FoundingLike DEF Became
    <2>6. FoundAt(d.content, g, n, z[n])
        BY <1>0, <2>2
    <2>7. r.doc.content = z[n]
        BY <2>3 DEF Became
    <2>8. ListDid(list, d.content, r.doc.content)
        BY <1>5, <2>3, <2>4, <2>7 DEF ListDid
    <2>9. Founded(a, d, r, g, list)
        BY <1>4, <1>5, <1>6, <2>2, <2>3, <2>5, <2>6, <2>7, <2>8 DEF Founded
    <2>10. QED
        BY <2>9 DEF r
<1>7. CASE ~r.ok
    <2>0. PICK i \in 1..n : \E l, z, e :
             /\ RunsOn(raw, d, i - 1, l, z, e) /\ Stuck(raw, i, z)
             /\ \A j \in 1..n : j # i => list[j] = l[j]
        BY <1>3, <1>7 DEF SuperDone, n
    <2>1. PICK l, z, e :
             /\ RunsOn(raw, d, i - 1, l, z, e) /\ Stuck(raw, i, z)
             /\ \A j \in 1..n : j # i => list[j] = l[j]
        BY <2>0
    <2>2. i # 1
        BY <1>0, <2>1 DEF Stuck, IsAdd
    <2>3. i # 2
        <3> SUFFICES ASSUME i = 2 PROVE FALSE
            OBVIOUS
        <3>1. RunsOn(raw, d, 1, l, z, e) /\ 1 \in 0..Len(raw) /\ 1 \in 0..1 /\ 1 >= 1
            BY <1>0, <2>1 DEF n
        <3>2. FoundAt(d.content, g, 1, z[1])
            BY <3>1, FoundingAt
        <3>3. Placed(z[1], g)
            BY <3>1, <3>2 DEF FoundAt
        <3>4. ~Placed(z[2 - 1], g) /\ 2 - 1 = 1
            BY <1>0, <2>1 DEF Stuck, IsMove
        <3>5. QED
            BY <3>3, <3>4
    <2>4. i - 1 >= 2 /\ 2 \in 1..n /\ 2 # i
        BY <1>0, <2>2, <2>3
    <2>5. list[2].dest = raw[1].canvas
        BY <1>2, <2>1, <2>4
    <2>6. Became(d, r.doc, d.content)
        BY <1>3, <1>7 DEF SuperDone
    <2>7. IsFounding(r.doc, list, g)
        BY <1>4, <2>5, <2>6, FoundingLike DEF Became
    <2>8. Founded(a, d, r, g, list)
        BY <1>4, <1>7, <2>6, <2>7 DEF Founded
    <2>9. QED
        BY <2>8 DEF r
<1>8. QED
    BY <1>6, <1>7

-----------------------------------------------------------------------------
(***************************************************************************)
(* LayerRaise and LayerLower: layers are moved within their canvases.      *)
(***************************************************************************)

\* The moves depend on where the layers are, only.
ShiftOf(canvas, layers, at, end, by) ==
    LET a == [canvas |-> canvas]
        moves[i \in 0..Len(layers)] ==
            IF i = 0 THEN <<>>
            ELSE IF at[i] = end[i] THEN moves[i - 1]
            ELSE Append(moves[i - 1], LayerMove(a.canvas, layers[i], NoCanvas, at[i] + by))
    IN  moves[Len(layers)]

AtOf(d, layers) == [i \in DOMAIN layers |-> Index(d, d.canvas[layers[i]], layers[i])]
EndOf(d, layers, by) == [i \in DOMAIN layers |-> IF by < 0 THEN 0 ELSE Size(d, d.canvas[layers[i]]) - 1]

\* The moves of a raise or a lower follow from where the layers are.
LEMMA ShiftIsOf ==
    ASSUME NEW a, NEW d, NEW layers, NEW by
    PROVE  Shift(a, d, layers, by) = ShiftOf(a.canvas, layers, AtOf(d, layers), EndOf(d, layers, by), by)
<1>1. [canvas |-> a.canvas].canvas = a.canvas
    OBVIOUS
<1>2. QED
    BY <1>1, Zenon DEF Shift, ShiftOf, AtOf, EndOf

\* A move of one of the layers to wherever it is then.
ShiftMove(canvas, layers, b) ==
    IsMove(b) /\ b.canvas = canvas /\ b.dest = NoCanvas /\ \E i \in 1..Len(layers) : b.layer = layers[i]

\* An element is added to a sequence.
LEMMA AppendIs ==
    ASSUME NEW s, IsSeq(s), NEW e
    PROVE  /\ IsSeq(Append(s, e)) /\ Len(Append(s, e)) = Len(s) + 1
           /\ \A i \in 1..Len(s) : Append(s, e)[i] = s[i]
           /\ Append(s, e)[Len(s) + 1] = e
<1> DEFINE T == Range(s) \union {e}
           n == Len(s) + 1
           w == Append(s, e)
<1>0. Len(s) \in Nat /\ s \in Seq(Range(s)) /\ DOMAIN s = 1..Len(s)
    BY SeqIff DEF IsSeq
<1>1. s \in Seq(T)
    <2>1. s \in [1..Len(s) -> T]
        BY <1>0, SeqIff DEF Range
    <2>2. QED
        BY <1>0, <2>1, SeqDef
<1>2. e \in T
    OBVIOUS
<1> HIDE DEF T
<1>3. w \in Seq(T) /\ Len(w) = n /\ (\A i \in 1..Len(s) : w[i] = s[i]) /\ w[n] = e
    BY <1>1, <1>2, AppendProperties
<1> HIDE DEF w
<1>4. n \in Nat /\ w = [i \in 1..n |-> w[i]]
    BY <1>0, <1>3
<1>5. IsSeq(w)
    BY <1>4, SeqIff
<1>6. QED
    BY <1>3, <1>5 DEF w

\* A raise or a lower is a list of moves of the selected layers.
LEMMA ShiftIs ==
    ASSUME NEW canvas \in Canvases, NEW layers \in Seq(Layers), NEW by \in {-1, 1}, NEW at, NEW end,
           \A i \in 1..Len(layers) : at[i] \in Nat /\ (by = -1 => end[i] = 0)
    PROVE  LET list == ShiftOf(canvas, layers, at, end, by)
           IN  IsSeq(list) /\ \A j \in 1..Len(list) : ShiftMove(canvas, layers, list[j])
<1> DEFINE a == [canvas |-> canvas]
           n == Len(layers)
           to == CHOOSE f : f = [i \in 0..Len(layers) |->
                     IF i = 0 THEN <<>>
                     ELSE IF at[i] = end[i] THEN f[i - 1]
                     ELSE Append(f[i - 1], LayerMove(a.canvas, layers[i], NoCanvas, at[i] + by))]
<1>0. n \in Nat /\ \A i \in 1..n : layers[i] \in Layers
    BY LenProperties, ElementOfSeq
<1>1. \E f : f = [i \in 0..Len(layers) |->
                     IF i = 0 THEN <<>>
                     ELSE IF at[i] = end[i] THEN f[i - 1]
                     ELSE Append(f[i - 1], LayerMove(a.canvas, layers[i], NoCanvas, at[i] + by))]
    <2> HIDE DEF to, a
    <2>1. PICK f : MovesRun(a, layers, at, end, by, Len(layers), f)
        BY <1>0, MovesExists
    <2>2. f = [i \in 0..Len(layers) |->
                     IF i = 0 THEN <<>>
                     ELSE IF at[i] = end[i] THEN f[i - 1]
                     ELSE Append(f[i - 1], LayerMove(a.canvas, layers[i], NoCanvas, at[i] + by))]
        BY <2>1 DEF MovesRun, MovesStep
    <2>3. QED
        BY <2>2, Zenon
<1>2. to = [i \in 0..Len(layers) |->
                     IF i = 0 THEN <<>>
                     ELSE IF at[i] = end[i] THEN to[i - 1]
                     ELSE Append(to[i - 1], LayerMove(a.canvas, layers[i], NoCanvas, at[i] + by))]
    BY <1>1, Zenon
<1>3. ShiftOf(canvas, layers, at, end, by) = to[Len(layers)]
    BY Zenon DEF ShiftOf
<1>4. a.canvas = canvas
    OBVIOUS
<1> HIDE DEF to, a
<1> DEFINE Q(s) == IsSeq(s) /\ \A j \in 1..Len(s) : ShiftMove(canvas, layers, s[j])
           S == {i \in 0..n : ~Q(to[i])}
<1>5. S = {}
    <2> SUFFICES ASSUME S # {} PROVE FALSE
        OBVIOUS
    <2>1. PICK i \in S : \A j \in S : i <= j
        <3>1. S \in SUBSET Nat
            OBVIOUS
        <3>2. QED
            BY <3>1, LeastExists
    <2>2. i \in 0..n /\ ~Q(to[i])
        BY <2>1
    <2>3. to[i] = IF i = 0 THEN <<>>
                  ELSE IF at[i] = end[i] THEN to[i - 1]
                  ELSE Append(to[i - 1], LayerMove(a.canvas, layers[i], NoCanvas, at[i] + by))
        BY <1>2, <2>2, Zenon
    <2>4. CASE i = 0
        <3>1. to[i] = <<>>
            BY <2>3, <2>4
        <3>2. Len(<<>>) = 0 /\ 1..0 = {}
            OBVIOUS
        <3>3. IsSeq(<<>>)
            BY DEF IsSeq
        <3>4. Q(to[i])
            BY <3>1, <3>2, <3>3
        <3>5. QED
            BY <2>2, <3>4
    <2>5. CASE i # 0
        <3> DEFINE s == to[i - 1]
                   b == LayerMove(canvas, layers[i], NoCanvas, at[i] + by)
        <3>1. i - 1 \in 0..n /\ ~(i <= i - 1) /\ i \in 1..n
            BY <1>0, <2>2, <2>5
        <3>2. Q(s)
            BY <2>1, <3>1
        <3>3. to[i] = IF at[i] = end[i] THEN s ELSE Append(s, b)
            BY <1>4, <2>3, <2>5
        <3> HIDE DEF s
        <3>4. CASE at[i] = end[i]
            BY <2>2, <3>2, <3>3, <3>4
        <3>5. CASE at[i] # end[i]
            <4>1. at[i] \in Nat /\ (by = -1 => at[i] # 0)
                BY <3>1, <3>5
            <4>2. at[i] + by \in Nat
                BY <4>1
            <4>3. layers[i] \in Layers
                BY <1>0, <3>1
            <4>4. ShiftMove(canvas, layers, b)
                BY <3>1, <4>2, <4>3 DEF ShiftMove, IsMove, LayerMove
            <4> HIDE DEF b
            <4>5. IsSeq(s) /\ Len(s) \in Nat /\ to[i] = Append(s, b) /\ \A j \in 1..Len(s) : ShiftMove(canvas, layers, s[j])
                BY <3>2, <3>3, <3>5, SeqIff
            <4>6. /\ IsSeq(to[i]) /\ Len(to[i]) = Len(s) + 1
                  /\ \A j \in 1..Len(s) : to[i][j] = s[j]
                  /\ to[i][Len(s) + 1] = b
                BY <4>5, AppendIs
            <4>7. \A j \in 1..(Len(s) + 1) : j \in 1..Len(s) \/ j = Len(s) + 1
                BY <4>5
            <4>8. Q(to[i])
                BY <4>4, <4>5, <4>6, <4>7
            <4>9. QED
                BY <2>2, <4>8
        <3>6. QED
            BY <3>4, <3>5
    <2>6. QED
        BY <2>4, <2>5
<1>6. Q(to[n])
    BY <1>0, <1>5
<1>7. QED
    BY <1>3, <1>6

\* In any order, the layers are the same.
LEMMA ReverseIs ==
    ASSUME NEW T, NEW s \in Seq(T)
    PROVE  /\ Reverse(s) \in Seq(T) /\ Len(Reverse(s)) = Len(s)
           /\ \A i \in 1..Len(s) : \E j \in 1..Len(s) : Reverse(s)[i] = s[j]
<1> DEFINE n == Len(s)
           w == Reverse(s)
<1>0. n \in Nat /\ \A i \in 1..n : s[i] \in T
    BY LenProperties, ElementOfSeq
<1>1. w = [i \in 1..n |-> s[(n - i) + 1]]
    BY DEF Reverse
<1> HIDE DEF n, w
<1>2. \A i \in 1..n : (n - i) + 1 \in 1..n
    BY <1>0
<1>3. w \in [1..n -> T]
    BY <1>0, <1>1, <1>2
<1>4. w \in Seq(T)
    BY <1>0, <1>3, SeqDef
<1>5. Len(w) = n
    BY <1>0, <1>3, <1>4, LenProperties
<1>6. \A i \in 1..n : w[i] = s[(n - i) + 1]
    BY <1>1
<1>7. QED
    BY <1>2, <1>4, <1>5, <1>6 DEF n, w

IsShifting(a) ==
    a \in [name : {"LayerRaise", "LayerLower"}, canvas : Canvases, layers : Seq(Layers), list : {a.list}]

OrderOf(a) == IF a.name = "LayerRaise" THEN a.layers ELSE Reverse(a.layers)
ByOf(a) == IF a.name = "LayerRaise" THEN -1 ELSE 1
ListFor(a, d) == ShiftOf(a.canvas, OrderOf(a), AtOf(d, OrderOf(a)), EndOf(d, OrderOf(a), ByOf(a)), ByOf(a))

AllFound(a, d) == \A l \in Range(a.layers) : Found(d, d.canvas[l], l)

\* The order is of the same layers.
LEMMA OrderIs ==
    ASSUME NEW a, IsShifting(a)
    PROVE  /\ OrderOf(a) \in Seq(Layers) /\ Len(OrderOf(a)) \in Nat
           /\ \A i \in 1..Len(OrderOf(a)) : OrderOf(a)[i] \in Range(a.layers) /\ OrderOf(a)[i] \in Layers
           /\ Range(a.layers) \subseteq Layers
<1> DEFINE s == a.layers
<1>1. s \in Seq(Layers) /\ a.name \in {"LayerRaise", "LayerLower"}
    BY DEF IsShifting
<1> HIDE DEF s
<1>2. Len(s) \in Nat /\ DOMAIN s = 1..Len(s) /\ \A i \in 1..Len(s) : s[i] \in Layers
    BY <1>1, LenProperties, ElementOfSeq
<1>3. \A i \in 1..Len(s) : s[i] \in Range(s)
    BY <1>2 DEF Range
<1>4. Range(s) \subseteq Layers
    BY <1>2 DEF Range
<1>5. CASE a.name = "LayerRaise"
    BY <1>1, <1>2, <1>3, <1>4, <1>5 DEF OrderOf, s
<1>6. CASE a.name = "LayerLower"
    <2> DEFINE w == Reverse(s)
    <2>1. w \in Seq(Layers) /\ Len(w) = Len(s) /\ \A i \in 1..Len(s) : \E j \in 1..Len(s) : w[i] = s[j]
        BY <1>1, ReverseIs
    <2>2. OrderOf(a) = w
        BY <1>6 DEF OrderOf, s
    <2> HIDE DEF w
    <2>3. \A i \in 1..Len(w) : w[i] \in Range(s) /\ w[i] \in Layers
        BY <1>2, <1>3, <2>1
    <2>4. QED
        BY <1>2, <1>4, <2>1, <2>2, <2>3 DEF s
<1>7. QED
    BY <1>1, <1>5, <1>6

\* What LayerRaise and LayerLower prepare.
LEMMA PreparedIs ==
    ASSUME NEW a, IsShifting(a), NEW d
    PROVE  Prepared(a, d) = IF AllFound(a, d) THEN OK(d, [a EXCEPT !.list = ListFor(a, d)])
                            ELSE Throw(d, [a EXCEPT !.list = <<>>])
<1>1. a.name \in {"LayerRaise", "LayerLower"}
    BY DEF IsShifting
<1>2. AllFound(a, d) <=> ~\E l \in Range(a.layers) : ~Found(d, d.canvas[l], l)
    BY DEF AllFound
<1>3. ListFor(a, d) = IF a.name = "LayerRaise" THEN Shift(a, d, a.layers, -1) ELSE Shift(a, d, Reverse(a.layers), 1)
    <2>1. /\ Shift(a, d, a.layers, -1) = ShiftOf(a.canvas, a.layers, AtOf(d, a.layers), EndOf(d, a.layers, -1), -1)
          /\ Shift(a, d, Reverse(a.layers), 1)
                = ShiftOf(a.canvas, Reverse(a.layers), AtOf(d, Reverse(a.layers)), EndOf(d, Reverse(a.layers), 1), 1)
        BY ShiftIsOf
    <2>2. QED
        BY <2>1, Zenon DEF ListFor, OrderOf, ByOf
<1>4. QED
    BY <1>1, <1>2, <1>3, Zenon DEF Prepared

\* The moves stay fit while the layers are where they are, whatever list there was before.
LEMMA ListForSame ==
    ASSUME NEW a, IsShifting(a), NEW v, NEW d, NEW e, Shaped(d), Shaped(e), d.content = e.content,
           AllFound(a, d), \A l \in Range(a.layers) : d.canvas[l] # NoCanvas
    PROVE  LET b == [a EXCEPT !.list = v]
           IN  /\ IsShifting(b) /\ b.layers = a.layers /\ b.list = v /\ b.canvas = a.canvas /\ b.name = a.name
               /\ AllFound(b, e)
               /\ ListFor(b, e) = ListFor(a, d)
<1> DEFINE b == [a EXCEPT !.list = v]
           s == OrderOf(a)
           by == ByOf(a)
<1>1. IsShifting(b) /\ b.layers = a.layers /\ b.list = v /\ b.canvas = a.canvas /\ b.name = a.name
    BY DEF IsShifting
<1> HIDE DEF b
<1>2. OrderOf(b) = s /\ ByOf(b) = by
    BY <1>1 DEF OrderOf, ByOf
<1>3. \A l \in Range(a.layers) : e.canvas[l] = d.canvas[l]
    <2> SUFFICES ASSUME NEW l \in Range(a.layers) PROVE e.canvas[l] = d.canvas[l]
        OBVIOUS
    <2>1. l \in Layers /\ d.canvas[l] # NoCanvas /\ Found(d, d.canvas[l], l)
        BY OrderIs DEF AllFound
    <2>2. d.canvas[l] \in Canvases
        BY <2>1 DEF Shaped
    <2>3. Found(e, d.canvas[l], l)
        BY <2>1 DEF Found
    <2>4. QED
        BY <2>1, <2>2, <2>3 DEF Shaped, Situated
<1>4. AllFound(b, e)
    BY <1>1, <1>3 DEF AllFound, Found
<1>5. AtOf(e, s) = AtOf(d, s) /\ EndOf(e, s, by) = EndOf(d, s, by)
    <2>1. DOMAIN s = 1..Len(s) /\ \A i \in 1..Len(s) : s[i] \in Range(a.layers)
        <3>1. s \in Seq(Layers) /\ \A i \in 1..Len(s) : s[i] \in Range(a.layers)
            BY OrderIs
        <3> HIDE DEF s
        <3>2. QED
            BY <3>1, LenProperties
    <2> HIDE DEF s, by
    <2>2. \A i \in DOMAIN s : e.canvas[s[i]] = d.canvas[s[i]]
        BY <1>3, <2>1
    <2>3. \A i \in DOMAIN s : Index(e, e.canvas[s[i]], s[i]) = Index(d, d.canvas[s[i]], s[i])
        BY <2>2 DEF Index
    <2>4. \A i \in DOMAIN s : Size(e, e.canvas[s[i]]) = Size(d, d.canvas[s[i]])
        BY <2>2 DEF Size
    <2>5. AtOf(e, s) = AtOf(d, s)
        BY <2>3 DEF AtOf
    <2>6. EndOf(e, s, by) = EndOf(d, s, by)
        BY <2>4 DEF EndOf
    <2>7. QED
        BY <2>5, <2>6
<1>6. ListFor(b, e) = ListFor(a, d)
    BY <1>1, <1>2, <1>5, Zenon DEF ListFor
<1>7. QED
    BY <1>1, <1>4, <1>6 DEF b

\* What is in the list.
LEMMA ListForIs ==
    ASSUME NEW a, IsShifting(a), NEW d, Shaped(d), AllFound(a, d), \A l \in Range(a.layers) : d.canvas[l] # NoCanvas
    PROVE  LET list == ListFor(a, d)
           IN  /\ IsSeq(list)
               /\ \A j \in 1..Len(list) :
                    /\ IsMove(list[j]) /\ list[j].canvas = a.canvas /\ list[j].dest = NoCanvas
                    /\ list[j].layer \in Range(a.layers) /\ list[j].layer \in Layers
<1> DEFINE s == OrderOf(a)
           by == ByOf(a)
           at == AtOf(d, s)
           end == EndOf(d, s, by)
           list == ShiftOf(a.canvas, s, at, end, by)
<1>1. /\ s \in Seq(Layers) /\ Len(s) \in Nat
      /\ \A i \in 1..Len(s) : s[i] \in Range(a.layers) /\ s[i] \in Layers
    BY OrderIs
<1>2. by \in {-1, 1} /\ a.canvas \in Canvases
    BY DEF ByOf, IsShifting
<1> HIDE DEF s, by
<1>3. DOMAIN s = 1..Len(s)
    BY <1>1, LenProperties
<1>4. ASSUME NEW i \in 1..Len(s)
      PROVE  at[i] \in Nat /\ (by = -1 => end[i] = 0)
    <2> DEFINE l == s[i]
               c == d.canvas[l]
    <2>1. l \in Layers /\ l \in Range(a.layers) /\ c # NoCanvas
        BY <1>1
    <2>2. Found(d, c, l)
        BY <2>1 DEF AllFound
    <2>3. c \in Canvases /\ d.content \in Contents
        BY <2>1 DEF Shaped
    <2> HIDE DEF l, c
    <2>4. l \in Range(d.content[c])
        BY <2>2 DEF Found
    <2>5. Index(d, c, l) \in Nat
        <3>1. Pos(d.content, c, l) \in 0..(Len(d.content[c]) - 1)
            BY <2>1, <2>3, <2>4, PosIs
        <3>2. Pos(d.content, c, l) \in Nat
            BY <3>1
        <3>3. QED
            BY <3>2, IndexIs
    <2>6. at[i] = Index(d, c, l)
        BY <1>3 DEF AtOf, l, c
    <2>7. by = -1 => end[i] = 0
        BY <1>3 DEF EndOf
    <2>8. QED
        BY <2>5, <2>6, <2>7
<1> HIDE DEF at, end
<1>5. IsSeq(list) /\ \A j \in 1..Len(list) : ShiftMove(a.canvas, s, list[j])
    BY <1>1, <1>2, <1>4, ShiftIs
<1> HIDE DEF list
<1>6. \A j \in 1..Len(list) :
         /\ IsMove(list[j]) /\ list[j].canvas = a.canvas /\ list[j].dest = NoCanvas
         /\ list[j].layer \in Range(a.layers) /\ list[j].layer \in Layers
    BY <1>1, <1>5 DEF ShiftMove
<1>7. list = ListFor(a, d)
    BY DEF ListFor, list, s, by, at, end
<1>8. QED
    BY <1>5, <1>6, <1>7

\* Every layer stays in its canvas.
LEMMA ShiftingAt ==
    ASSUME NEW d, Shaped(d), NEW raw,
           \A j \in 1..Len(raw) : IsMove(raw[j]) /\ raw[j].dest = NoCanvas /\ raw[j].layer \in Layers,
           NEW i \in Nat, i <= Len(raw), Len(raw) \in Nat, NEW list, NEW z, NEW e, RunsOn(raw, d, i, list, z, e)
    PROVE  /\ \A j \in 0..i : \A l \in Layers, b \in Canvases : l \in Range(z[j][b]) <=> l \in Range(d.content[b])
           /\ \A j \in 1..i : /\ MoveLike(raw[j], list[j])
                              /\ list[j].dest = d.canvas[raw[j].layer]
<1> DEFINE x == d.content
           n == Len(raw)
<1>1. /\ z[0] = x
      /\ \A j \in 1..i : Like(raw[j], list[j]) /\ Did(list[j], z[j - 1], z[j])
    BY DEF RunsOn
<1> HIDE DEF n
<1>2. ASSUME NEW j \in 1..i
      PROVE  /\ MoveLike(raw[j], list[j]) /\ DidMove(list[j], z[j - 1], z[j]) /\ list[j].src = list[j].dest
             /\ z[j - 1] \in Contents /\ list[j].layer = raw[j].layer /\ raw[j].layer \in Layers
    <2>1. j \in 1..n /\ Like(raw[j], list[j]) /\ Did(list[j], z[j - 1], z[j])
        BY <1>1 DEF n
    <2>2. IsMove(raw[j]) /\ raw[j].dest = NoCanvas /\ raw[j].layer \in Layers
        BY <2>1 DEF n
    <2>3. MoveLike(raw[j], list[j])
        BY <2>1, <2>2 DEF Like
    <2>4. DidMove(list[j], z[j - 1], z[j]) /\ z[j - 1] \in Contents
        BY <2>1, <2>3, DidKind DEF MoveLike
    <2>5. QED
        BY <2>2, <2>3, <2>4 DEF MoveLike
<1> DEFINE P(j) == \A l \in Layers, b \in Canvases : l \in Range(z[j][b]) <=> l \in Range(x[b])
           S == {j \in 0..i : ~P(j)}
<1>3. S = {}
    <2> SUFFICES ASSUME S # {} PROVE FALSE
        OBVIOUS
    <2>1. PICK j \in S : \A k \in S : j <= k
        <3>1. S \in SUBSET Nat
            OBVIOUS
        <3>2. QED
            BY <3>1, LeastExists
    <2>2. j \in 0..i /\ ~P(j)
        BY <2>1
    <2>3. j # 0
        BY <1>1, <2>2
    <2>4. j \in 1..i /\ j - 1 \in 0..i /\ ~(j <= j - 1)
        BY <2>2, <2>3
    <2>5. P(j - 1)
        BY <2>1, <2>4
    <2>6. \A l \in Layers, b \in Canvases : l \in Range(z[j][b]) <=> l \in Range(z[j - 1][b])
        <3> DEFINE w == z[j - 1]
                   y == z[j]
                   a == list[j]
        <3>1. DidMove(a, w, y) /\ a.src = a.dest /\ w \in Contents
            BY <1>2, <2>4
        <3> HIDE DEF w, y, a
        <3>2. \A l \in Layers, b \in Canvases : l \in Range(y[b]) <=> l \in Range(w[b])
            BY <3>1, MovePlaces
        <3>3. QED
            BY <3>2 DEF w, y
    <2>7. QED
        BY <2>2, <2>5, <2>6
<1>4. ASSUME NEW j \in 1..i
      PROVE  list[j].dest = d.canvas[raw[j].layer]
    <2> DEFINE l == raw[j].layer
               c == list[j].src
    <2>1. c \in Canvases /\ l \in Range(z[j - 1][c]) /\ l \in Layers /\ list[j].dest = c
        BY <1>2 DEF DidMove
    <2>2. j - 1 \in 0..i
        OBVIOUS
    <2>3. P(j - 1)
        BY <1>3, <2>2
    <2> HIDE DEF l, c
    <2>4. l \in Range(x[c])
        BY <2>1, <2>3
    <2>5. d.canvas[l] = c
        BY <2>1, <2>4 DEF Shaped, Situated, Found
    <2>6. QED
        BY <2>1, <2>5 DEF l
<1>5. QED
    BY <1>2, <1>3, <1>4

\* All of the moves are made.
Shifted(a, d, r, list) ==
    /\ r.ok \in BOOLEAN
    /\ r.act = [a EXCEPT !.list = list]
    /\ ~r.ok => r.doc = d
    /\ r.ok =>
         /\ AllFound(a, d)
         /\ IsSeq(list) /\ Len(list) = Len(ListFor(a, d))
         /\ \A j \in 1..Len(list) : Again(ListFor(a, d)[j], list[j])
         /\ ListDid(list, d.content, r.doc.content)
         /\ Became(d, r.doc, r.doc.content)
         /\ \A l \in Layers : Placed(r.doc.content, l) => Placed(d.content, l)
         /\ (\A l \in Range(a.layers) : d.canvas[l] = a.canvas) => \A j \in 1..Len(list) : Sure(list[j])

\* A raise or a lower is performed, or changes nothing.
LEMMA ShiftingDone ==
    ASSUME NEW d, Shaped(d), NEW a, IsShifting(a), \A l \in Range(a.layers) : d.canvas[l] # NoCanvas
    PROVE  \E list : Shifted(a, d, Perform(a, d), list)
<1> DEFINE r == Perform(a, d)
           raw == ListFor(a, d)
           b == [a EXCEPT !.list = raw]
           n == Len(raw)
<1>1. a.name \in {"LayerRaise", "LayerLower"} /\ a.name \in Supers
    BY DEF IsShifting, Supers
<1>2. r = PerformPrepared(Prepared(a, d))
    BY <1>1, Zenon DEF Perform
<1>3. CASE ~AllFound(a, d)
    <2>1. Prepared(a, d) = [ok |-> FALSE, doc |-> d, act |-> [a EXCEPT !.list = <<>>]]
        BY <1>3, PreparedIs DEF Throw
    <2>2. r = [ok |-> FALSE, doc |-> d, act |-> [a EXCEPT !.list = <<>>]]
        <3> DEFINE p == Prepared(a, d)
        <3>1. ~p.ok
            BY <2>1
        <3> HIDE DEF p
        <3>2. PerformPrepared(p) = p
            BY <3>1 DEF PerformPrepared
        <3>3. QED
            BY <1>2, <2>1, <3>2 DEF p
    <2> HIDE DEF r
    <2>3. Shifted(a, d, r, <<>>)
        BY <2>2 DEF Shifted
    <2>4. QED
        BY <2>3 DEF r
<1>4. CASE AllFound(a, d)
    <2>1. r = SuperPerform(b, d)
        <3> DEFINE p == Prepared(a, d)
        <3>1. p = [ok |-> TRUE, doc |-> d, act |-> b]
            BY <1>4, PreparedIs DEF OK
        <3> HIDE DEF b
        <3>2. p.ok /\ p.act = b /\ p.doc = d
            BY <3>1
        <3> HIDE DEF p
        <3>3. PerformPrepared(p) = SuperPerform(p.act, p.doc)
            BY <3>2 DEF PerformPrepared
        <3>4. QED
            BY <1>2, <3>2, <3>3 DEF p
    <2>2. /\ IsSeq(raw) /\ n \in Nat
          /\ \A j \in 1..n :
               /\ IsMove(raw[j]) /\ raw[j].canvas = a.canvas /\ raw[j].dest = NoCanvas
               /\ raw[j].layer \in Range(a.layers) /\ raw[j].layer \in Layers
        BY <1>4, ListForIs, SeqIff
    <2>3. b.list = raw /\ \A v : [b EXCEPT !.list = v] = [a EXCEPT !.list = v]
        BY DEF IsShifting
    <2> HIDE DEF r, raw, b
    <2>4. ASSUME NEW i \in 1..n, NEW list, NEW z, NEW e, RunsOn(raw, d, i - 1, list, z, e)
          PROVE  ReadyOne(e, raw[i]) /\ ~Stuck(raw, i, z)
        <3> DEFINE k == i - 1
                   l == raw[i].layer
                   c == d.canvas[l]
        <3>1. k \in Nat /\ k <= n /\ k \in 0..k /\ RunsOn(raw, d, k, list, z, e)
            BY <2>2, <2>4
        <3>2. l \in Range(a.layers) /\ l \in Layers /\ IsMove(raw[i]) /\ raw[i].name = "LayerMove"
            BY <2>2 DEF IsMove
        <3> HIDE DEF k, l
        <3>3. \A m \in Layers, h \in Canvases : m \in Range(z[k][h]) <=> m \in Range(d.content[h])
            BY <2>2, <3>1, ShiftingAt
        <3>4. c \in Canvases /\ l \in Range(d.content[c]) /\ c # NoCanvas
            BY <1>4, <3>2 DEF AllFound, Found, Shaped
        <3>5. Placed(z[k], l)
            BY <3>2, <3>3, <3>4 DEF Placed
        <3>6. ~Stuck(raw, i, z)
            BY <3>2, <3>5 DEF Stuck, k, l
        <3>7. e.canvas[l] # NoCanvas
            BY <3>1, <3>2, <3>4 DEF RunsOn, Became, Grown
        <3>8. ReadyOne(e, raw[i])
            BY <3>2, <3>7 DEF ReadyOne, l
        <3>9. QED
            BY <3>6, <3>8
    <2>5. ReadyList(raw, d)
        <3>1. \A i \in 1..n : raw[i].name # "LayerRemove"
            BY <2>2 DEF IsMove
        <3>2. QED
            BY <2>2, <2>4, <3>1 DEF ReadyList
    <2>6. PICK list : SuperDone(b, d, SuperPerform(b, d), list)
        BY <2>3, <2>4, <2>5, SuperPerformDone
    <2>7. SuperDone(b, d, r, list)
        BY <2>1, <2>6
    <2>8. r.ok = TRUE
        BY <2>3, <2>4, <2>7 DEF SuperDone
    <2>9. PICK z : RunsOn(raw, d, n, list, z, r.doc)
        BY <2>3, <2>7, <2>8 DEF SuperDone
    <2>10. /\ IsSeq(list) /\ Len(list) = n
           /\ z \in [0..n -> Contents] /\ z[0] = d.content
           /\ \A j \in 1..n : Did(list[j], z[j - 1], z[j])
           /\ Became(d, r.doc, z[n])
        BY <2>9 DEF RunsOn
    <2> HIDE DEF n
    <2>11. r.doc.content = z[n] /\ n \in 0..n /\ n <= n
        BY <2>2, <2>10 DEF Became
    <2>12. /\ \A j \in 0..n : \A l \in Layers, h \in Canvases : l \in Range(z[j][h]) <=> l \in Range(d.content[h])
           /\ \A j \in 1..n : MoveLike(raw[j], list[j]) /\ list[j].dest = d.canvas[raw[j].layer]
        <3>1. n <= Len(raw) /\ Len(raw) \in Nat /\ n \in Nat
            BY <2>2, <2>11 DEF n
        <3>2. \A j \in 1..Len(raw) : IsMove(raw[j]) /\ raw[j].dest = NoCanvas /\ raw[j].layer \in Layers
            BY <2>2 DEF n
        <3>3. QED
            BY <2>9, <3>1, <3>2, ShiftingAt
    <2>13. ListDid(list, d.content, r.doc.content)
        <3>1. Trail(list, n, z)
            BY <2>10, <2>11 DEF Trail
        <3>2. QED
            BY <2>10, <2>11, <3>1 DEF ListDid
    <2>14. \A l \in Layers : Placed(r.doc.content, l) => Placed(d.content, l)
        <3>1. \A l \in Layers, h \in Canvases : l \in Range(z[n][h]) <=> l \in Range(d.content[h])
            BY <2>11, <2>12
        <3>2. QED
            BY <2>11, <3>1 DEF Placed
    <2>15. ASSUME \A l \in Range(a.layers) : d.canvas[l] = a.canvas, NEW j \in 1..n
           PROVE  Sure(list[j])
        <3>1. list[j].dest = a.canvas
            BY <2>2, <2>12, <2>15
        <3>2. list[j].canvas = a.canvas
            BY <2>2, <2>12 DEF MoveLike
        <3>3. QED
            BY <3>1, <3>2 DEF Sure
    <2>16. r.act = [a EXCEPT !.list = list]
        BY <2>3, <2>7 DEF SuperDone
    <2>17. \A j \in 1..n : Again(raw[j], list[j])
        BY <2>12 DEF Again
    <2>18. Shifted(a, d, r, list)
        BY <1>4, <2>8, <2>10, <2>11, <2>13, <2>14, <2>15, <2>16, <2>17 DEF Shifted, raw, n
    <2>19. QED
        BY <2>18 DEF r
<1>5. QED
    BY <1>3, <1>4

-----------------------------------------------------------------------------
(***************************************************************************)
(* All actions.                                                            *)
(***************************************************************************)

Founders == {"LayerEncapsulate", "LayerDuplicate"}
Founds(a) == a \in [name : Founders, list : {a.list}]

\* The layer an action brings into the document.
Makes(a, l) == (a.name = "LayerAdd" /\ a.layer = l) \/ (a.name \in Founders /\ a.list[1].layer = l)

\* It can be undone.
SureAct(a) == IF a.name \in Supers THEN \A j \in 1..Len(a.list) : Sure(a.list[j]) ELSE Sure(a)

\* Where y is found, undoing it leads to x; where x is found, performing it leads to y.
Undoes(a, x, y) ==
    \A d : Shaped(d) /\ d.content = y =>
        /\ UndoAct(a, d).act = a
        /\ UndoAct(a, d).ok \in BOOLEAN
        /\ UndoAct(a, d).ok <=> SureAct(a)
        /\ Became(d, UndoAct(a, d).doc, IF SureAct(a) THEN x ELSE y)

Redoes(a, x, y) ==
    \A d : Shaped(d) /\ d.content = x => RedidTo(d, a, Perform(a, d), y)

Took(a, x, y) ==
    /\ x \in Contents /\ y \in Contents
    /\ Undoes(a, x, y)
    /\ (IsSetting(a) /\ x = y) \/ Redoes(a, x, y)
    /\ \A l \in Layers : Placed(y, l) => Placed(x, l) \/ Makes(a, l)
    /\ \A l : Makes(a, l) => l \in Layers /\ ~Placed(x, l) /\ Placed(y, l)

\* An action on sets.
LEMMA SettingTook ==
    ASSUME NEW a, IsSetting(a), NEW x \in Contents
    PROVE  Took(a, x, x) /\ SureAct(a) /\ \A l : ~Makes(a, l)
<1>1. a.name \in SetNamesOfActions /\ a.name \notin Supers /\ a.name # "LayerMove" /\ a.name # "LayerAdd" /\ a.name \notin Founders
    BY DEF IsSetting, SetNamesOfActions, Supers, Founders
<1>2. SureAct(a)
    BY <1>1 DEF SureAct, Sure
<1>3. Undoes(a, x, x)
    <2> SUFFICES ASSUME NEW d, Shaped(d), d.content = x
                 PROVE  /\ UndoAct(a, d).act = a
                        /\ UndoAct(a, d).ok \in BOOLEAN
                        /\ UndoAct(a, d).ok <=> SureAct(a)
                        /\ Became(d, UndoAct(a, d).doc, IF SureAct(a) THEN x ELSE x)
        BY Zenon DEF Undoes
    <2> DEFINE u == UndoAct(a, d)
    <2>1. u = UndoOne(a, d)
        BY <1>1 DEF UndoAct
    <2>2. UndoOne(a, d).ok = TRUE /\ SameLayout(d, UndoOne(a, d).doc) /\ UndoOne(a, d).act = a
        BY SettingActs
    <2> HIDE DEF u
    <2>5. u.ok = TRUE /\ SameLayout(d, u.doc) /\ u.act = a
        BY <2>1, <2>2
    <2>3. Became(d, u.doc, x)
        BY <2>5, LayoutBecame
    <2>4. QED
        BY <1>2, <2>5, <2>3 DEF u
<1>4. \A l : ~Makes(a, l)
    BY <1>1 DEF Makes
<1>5. QED
    BY <1>2, <1>3, <1>4 DEF Took

\* A single action on layers.
LEMMA SingleTook ==
    ASSUME NEW a, NEW x, NEW y, Did(a, x, y)
    PROVE  Took(a, x, y)
<1>0. x \in Contents /\ y \in Contents /\ a.name \in {"LayerAdd", "LayerRemove", "LayerMove"}
    BY DEF Did, DidAdd, DidRemove, DidMove, IsAdd, IsRemove, IsMove
<1>1. a.name \notin Supers /\ a.name \notin Founders
    BY <1>0 DEF Supers, Founders
<1>2. SureAct(a) = Sure(a) /\ Sure(a) \in BOOLEAN
    BY <1>1 DEF SureAct, Sure
<1>3. Undoes(a, x, y)
    <2> SUFFICES ASSUME NEW d, Shaped(d), d.content = y
                 PROVE  /\ UndoAct(a, d).act = a
                        /\ UndoAct(a, d).ok \in BOOLEAN
                        /\ UndoAct(a, d).ok <=> SureAct(a)
                        /\ Became(d, UndoAct(a, d).doc, IF SureAct(a) THEN x ELSE y)
        BY Zenon DEF Undoes
    <2> DEFINE u == UndoAct(a, d)
    <2>1. u = UndoOne(a, d)
        BY <1>1 DEF UndoAct
    <2>2. UndidTo(d, a, u, x)
        BY <2>1, UndoDid
    <2> HIDE DEF u
    <2>3. u.act = a /\ u.ok = Sure(a) /\ Became(d, u.doc, IF Sure(a) THEN x ELSE y)
        BY <2>2 DEF UndidTo
    <2>4. QED
        BY <1>2, <2>3 DEF u
<1>4. Redoes(a, x, y)
    <2> SUFFICES ASSUME NEW d, Shaped(d), d.content = x
                 PROVE  RedidTo(d, a, Perform(a, d), y)
        BY Zenon DEF Redoes
    <2>1. Perform(a, d) = PerformOne(a, d)
        BY <1>1 DEF Perform
    <2>2. QED
        BY <2>1, RedoDid DEF Again
<1>5. CASE DidAdd(a, x, y)
    <2>1. /\ ~Placed(x, a.layer)
          /\ \A l \in Layers : Placed(y, l) <=> Placed(x, l) \/ l = a.layer
        BY <1>0, <1>5, AddPlaces
    <2>2. a.layer \in Layers /\ a.name = "LayerAdd"
        BY <1>5 DEF DidAdd, IsAdd
    <2>3. \A l : Makes(a, l) <=> l = a.layer
        BY <1>1, <2>2 DEF Makes
    <2>4. QED
        BY <1>0, <1>3, <1>4, <2>1, <2>2, <2>3 DEF Took
<1>6. CASE DidRemove(a, x, y)
    <2>1. \A l \in Layers : Placed(y, l) => Placed(x, l)
        BY <1>0, <1>6, RemovePlaces
    <2>2. \A l : ~Makes(a, l)
        BY <1>1, <1>6 DEF Makes, DidRemove, IsRemove
    <2>3. QED
        BY <1>0, <1>3, <1>4, <2>1, <2>2 DEF Took
<1>7. CASE DidMove(a, x, y)
    <2>1. \A l \in Layers : Placed(y, l) <=> Placed(x, l)
        BY <1>0, <1>7, MovePlaces
    <2>2. \A l : ~Makes(a, l)
        BY <1>1, <1>7 DEF Makes, DidMove, IsMove
    <2>3. QED
        BY <1>0, <1>3, <1>4, <2>1, <2>2 DEF Took
<1>8. QED
    BY <1>5, <1>6, <1>7 DEF Did

\* Several are undone together.
LEMMA ListUndoes ==
    ASSUME NEW a, a.name \in Supers, [a EXCEPT !.list = a.list] = a, NEW x, NEW y, ListDid(a.list, x, y)
    PROVE  Undoes(a, x, y) /\ x \in Contents /\ y \in Contents
<1> DEFINE n == Len(a.list)
<1>1. PICK z : Trail(a.list, n, z) /\ z[0] = x /\ z[n] = y
    BY DEF ListDid
<1>2. SureAct(a) <=> \A j \in 1..n : Sure(a.list[j])
    BY DEF SureAct
<1>3. ASSUME NEW d, Shaped(d), d.content = y
      PROVE  /\ UndoAct(a, d).act = a
             /\ UndoAct(a, d).ok \in BOOLEAN
             /\ UndoAct(a, d).ok <=> SureAct(a)
             /\ Became(d, UndoAct(a, d).doc, IF SureAct(a) THEN x ELSE y)
    <2> DEFINE u == UndoAct(a, d)
    <2>1. u = SuperUndo(a, d)
        BY DEF UndoAct
    <2>2. /\ u.act = a
          /\ u.ok \in BOOLEAN
          /\ u.ok <=> \A j \in 1..n : Sure(a.list[j])
          /\ Became(d, u.doc, IF u.ok THEN z[0] ELSE z[n])
        BY <1>1, <1>3, <2>1, SuperUndoDid
    <2> HIDE DEF u, n
    <2>3. u.ok <=> SureAct(a)
        BY <1>2, <2>2
    <2>4. Became(d, u.doc, IF SureAct(a) THEN x ELSE y)
        <3>1. CASE SureAct(a)
            BY <1>1, <2>2, <2>3, <3>1
        <3>2. CASE ~SureAct(a)
            BY <1>1, <2>2, <2>3, <3>2
        <3>3. QED
            BY <3>1, <3>2
    <2>5. QED
        BY <2>2, <2>3, <2>4 DEF u
<1>4. Undoes(a, x, y)
    BY <1>3, Zenon DEF Undoes
<1>5. x \in Contents /\ y \in Contents
    <2>1. IsSeq(a.list) /\ z \in [0..n -> Contents]
        BY <1>1 DEF Trail
    <2>2. n \in Nat
        BY <2>1, SeqIff
    <2> HIDE DEF n
    <2>3. 0 \in 0..n /\ n \in 0..n
        BY <2>2
    <2>4. QED
        BY <1>1, <2>1, <2>3
<1>6. QED
    BY <1>4, <1>5

\* A layer is founded.
LEMMA FoundingTook ==
    ASSUME NEW a, Founds(a), NEW d, IsFounding(d, a.list, a.list[1].layer), NEW x, NEW y, ListDid(a.list, x, y),
           FoundAt(x, a.list[1].layer, Len(a.list), y), ~Placed(x, a.list[1].layer)
    PROVE  Took(a, x, y)
<1> DEFINE n == Len(a.list)
           g == a.list[1].layer
<1>1. a.name \in Supers /\ a.name \in Founders /\ a.name # "LayerAdd" /\ a.name \notin {"LayerRaise", "LayerLower"}
    BY DEF Founds, Founders, Supers
<1>2. [a EXCEPT !.list = a.list] = a
    BY DEF Founds
<1>3. Undoes(a, x, y) /\ x \in Contents /\ y \in Contents
    BY <1>1, <1>2, ListUndoes
<1>4. PICK z : Trail(a.list, n, z) /\ z[0] = x /\ z[n] = y
    BY DEF ListDid
<1>5. Redoes(a, x, y)
    <2> SUFFICES ASSUME NEW d1, Shaped(d1), d1.content = x
                 PROVE  RedidTo(d1, a, Perform(a, d1), y)
        BY Zenon DEF Redoes
    <2> DEFINE r == PerformUpTo(a.list, d1)
    <2>1. r.ok = TRUE /\ r.act = a.list /\ Became(d1, r.doc, y)
        <3>1. IsSeq(a.list)
            BY <1>4 DEF Trail
        <3>2. \A j \in 1..n : Again(a.list[j], a.list[j])
            BY DEF Again
        <3>3. AllAgain(a.list, a.list)
            BY <3>1, <3>2 DEF AllAgain
        <3>4. QED
            BY <3>3, RedoListDid DEF Redid
    <2>2. Perform(a, d1) = SuperPerform(a, d1)
        <3>1. Prepared(a, d1) = [ok |-> TRUE, doc |-> d1, act |-> a]
            BY <1>1, Zenon DEF Prepared, OK
        <3> DEFINE p == Prepared(a, d1)
        <3>2. p.ok /\ p.doc = d1 /\ p.act = a
            BY <3>1
        <3> HIDE DEF p
        <3>3. PerformPrepared(p) = SuperPerform(p.act, p.doc)
            BY <3>2 DEF PerformPrepared
        <3>4. Perform(a, d1) = PerformPrepared(p)
            BY <1>1, Zenon DEF Perform, p
        <3>5. QED
            BY <3>2, <3>3, <3>4
    <2>3. SuperPerform(a, d1) = [ok |-> r.ok, doc |-> RolledBack(r).doc, act |-> [a EXCEPT !.list = RolledBack(r).act]]
        BY Zenon DEF SuperPerform, SuperResult
    <2> HIDE DEF r
    <2>4. RolledBack(r) = r
        BY <2>1 DEF RolledBack
    <2>5. SuperPerform(a, d1) = [ok |-> TRUE, doc |-> r.doc, act |-> a]
        BY <1>2, <2>1, <2>3, <2>4
    <2>6. QED
        BY <2>1, <2>2, <2>5 DEF RedidTo
<1>6. n >= 1 /\ g \in Layers
    BY SeqIff DEF IsFounding, IsAdd
<1>7. \A l : Makes(a, l) <=> l = g
    BY <1>1 DEF Makes
<1> HIDE DEF n, g
<1>8. Placed(y, g) /\ \A l \in Layers : Placed(y, l) => Placed(x, l) \/ l = g
    BY <1>6 DEF FoundAt, g, n
<1>9. ~Placed(x, g)
    BY DEF g
<1>10. QED
    BY <1>3, <1>5, <1>6, <1>7, <1>8, <1>9 DEF Took

\* Layers are raised or lowered.
LEMMA ShiftingTook ==
    ASSUME NEW d, Shaped(d), NEW a, IsShifting(a), \A l \in Range(a.layers) : d.canvas[l] # NoCanvas,
           NEW list, Shifted(a, d, Perform(a, d), list), Perform(a, d).ok
    PROVE  Took(Perform(a, d).act, d.content, Perform(a, d).doc.content)
<1> DEFINE r == Perform(a, d)
           x == d.content
           y == r.doc.content
           b == [a EXCEPT !.list = list]
           raw == ListFor(a, d)
<1>1. /\ r.act = b /\ AllFound(a, d) /\ IsSeq(list) /\ Len(list) = Len(raw)
      /\ \A j \in 1..Len(list) : Again(raw[j], list[j])
      /\ ListDid(list, x, y)
      /\ \A l \in Layers : Placed(y, l) => Placed(x, l)
    BY DEF Shifted
<1>2. IsShifting(b) /\ b.list = list /\ b.layers = a.layers
    BY DEF IsShifting
<1>3. IsSeq(raw)
    BY <1>1, ListForIs
<1> HIDE DEF r, y, raw
<1>4. b.name \in {"LayerRaise", "LayerLower"} /\ b.name \in Supers /\ b.name \notin Founders /\ b.name # "LayerAdd"
    BY <1>2 DEF IsShifting, Supers, Founders
<1>5. [b EXCEPT !.list = b.list] = b
    BY <1>2 DEF IsShifting
<1>6. Undoes(b, x, y) /\ x \in Contents /\ y \in Contents
    <2> HIDE DEF b, x
    <2>1. ListDid(b.list, x, y)
        BY <1>1, <1>2
    <2>2. QED
        BY <1>4, <1>5, <2>1, ListUndoes
<1>7. Redoes(b, x, y)
    <2> SUFFICES ASSUME NEW e, Shaped(e), e.content = x
                 PROVE  RedidTo(e, b, Perform(b, e), y)
        BY Zenon DEF Redoes
    <2>1. AllFound(b, e) /\ ListFor(b, e) = raw
        BY <1>1, ListForSame DEF raw
    <2> DEFINE h == [b EXCEPT !.list = raw]
               q == PerformUpTo(raw, e)
               s == RolledBack(q)
    <2>2. Prepared(b, e) = [ok |-> TRUE, doc |-> e, act |-> h]
        <3> HIDE DEF b
        <3>1. QED
            BY <1>2, <2>1, PreparedIs DEF OK
    <2>3. h.list = raw /\ [h EXCEPT !.list = list] = b
        <3>1. b \in [name : {"LayerRaise", "LayerLower"}, canvas : Canvases, layers : Seq(Layers), list : {list}] /\ b.list = list
            BY <1>2 DEF IsShifting
        <3> HIDE DEF b
        <3>2. QED
            BY <3>1
    <2> HIDE DEF b, h
    <2>4. Perform(b, e) = SuperPerform(h, e)
        <3> DEFINE p == Prepared(b, e)
        <3>1. p.ok /\ p.doc = e /\ p.act = h
            BY <2>2
        <3> HIDE DEF p
        <3>2. PerformPrepared(p) = SuperPerform(p.act, p.doc)
            BY <3>1 DEF PerformPrepared
        <3>3. Perform(b, e) = PerformPrepared(p)
            BY <1>4, Zenon DEF Perform, p
        <3>4. QED
            BY <3>1, <3>2, <3>3
    <2>5. SuperPerform(h, e) = [ok |-> q.ok, doc |-> s.doc, act |-> [h EXCEPT !.list = s.act]]
        BY <2>3, Zenon DEF SuperPerform, SuperResult
    <2>6. q.ok = TRUE /\ q.act = list /\ Became(e, q.doc, y)
        <3>1. AllAgain(raw, list)
            BY <1>1, <1>3 DEF AllAgain
        <3>2. Redid(raw, e, list, y)
            BY <1>1, <3>1, RedoListDid
        <3>3. QED
            BY <3>2 DEF Redid
    <2> HIDE DEF q
    <2>7. s = q
        BY <2>6 DEF RolledBack
    <2>8. SuperPerform(h, e) = [ok |-> TRUE, doc |-> q.doc, act |-> b]
        BY <2>3, <2>5, <2>6, <2>7
    <2>9. QED
        BY <2>4, <2>6, <2>8 DEF RedidTo
<1>8. \A l : ~Makes(b, l)
    BY <1>4 DEF Makes
<1>9. Took(b, x, y)
    <2> HIDE DEF b, x
    <2>1. QED
        BY <1>1, <1>6, <1>7, <1>8 DEF Took
<1>10. QED
    BY <1>1, <1>9 DEF r, y


\* An action is one the program can hold: its layers have been in the document, but for those it
\* brings into it.
Fit(d, a) ==
    \/ IsSetting(a)
    \/ IsAdd(a)
    \/ IsRemove(a) /\ Len(a.layers) >= 1 /\ \A i \in 1..Len(a.layers) : d.canvas[a.layers[i]] # NoCanvas
    \/ IsMove(a) /\ d.canvas[a.layer] # NoCanvas
    \/ IsShifting(a) /\ \A l \in Range(a.layers) : d.canvas[l] # NoCanvas
    \/ Founds(a) /\ IsFounding(d, a.list, a.list[1].layer)

Possible(d, a) ==
    /\ Fit(d, a)
    /\ \A l : Makes(a, l) => ~Placed(d.content, l)
    /\ IsRemove(a) => \E s \in Canvases : \A i \in 1..Len(a.layers) : d.canvas[a.layers[i]] = s

\* It is about the canvas its layers are in.
Home(d, a) ==
    /\ IsMove(a) => a.dest = a.canvas
    /\ IsShifting(a) => \A l \in Range(a.layers) : d.canvas[l] = a.canvas

Alone(a) == IsRemove(a) => Len(a.layers) = 1

Outcome(d, a, r) ==
    /\ r.ok \in BOOLEAN
    /\ r.ok => Took(r.act, d.content, r.doc.content) /\ Became(d, r.doc, r.doc.content)
    /\ ~r.ok /\ Alone(a) => Became(d, r.doc, d.content)
    /\ r.ok \/ Alone(a) => Fit(r.doc, r.act) /\ \A l : Makes(r.act, l) <=> Makes(a, l)
    /\ r.ok /\ Home(d, a) => SureAct(r.act)

\* What becomes of layers does no harm to an action that is kept.
LEMMA FitOn ==
    ASSUME NEW d, NEW e, Grown(d, e), NEW a, Fit(d, a)
    PROVE  Fit(e, a)
<1>1. CASE IsRemove(a) /\ Len(a.layers) >= 1 /\ \A i \in 1..Len(a.layers) : d.canvas[a.layers[i]] # NoCanvas
    <2>1. a.layers \in Seq(Layers)
        BY <1>1 DEF IsRemove
    <2>2. \A i \in 1..Len(a.layers) : a.layers[i] \in Layers
        BY <2>1
    <2>3. \A i \in 1..Len(a.layers) : e.canvas[a.layers[i]] # NoCanvas
        BY <1>1, <2>2 DEF Grown
    <2>4. QED
        BY <1>1, <2>3 DEF Fit
<1>2. CASE IsMove(a) /\ d.canvas[a.layer] # NoCanvas
    BY <1>2 DEF Fit, IsMove, Grown
<1>3. CASE IsShifting(a) /\ \A l \in Range(a.layers) : d.canvas[l] # NoCanvas
    <2>1. Range(a.layers) \subseteq Layers
        BY <1>3, OrderIs
    <2>2. QED
        BY <1>3, <2>1 DEF Fit, Grown
<1>4. CASE Founds(a) /\ IsFounding(d, a.list, a.list[1].layer)
    <2> DEFINE g == a.list[1].layer
               list == a.list
    <2>1. \A k \in 3..Len(list) : TakesOut(d, list, g, k) => TakesOut(e, list, g, k)
        <3> SUFFICES ASSUME NEW k \in 3..Len(list), TakesOut(d, list, g, k)
                     PROVE  TakesOut(e, list, g, k)
            OBVIOUS
        <3>1. list[k].layers \in Seq(Layers) /\ Len(list[k].layers) = 1
            BY DEF TakesOut, IsRemove
        <3>2. list[k].layers[1] \in Layers
            BY <3>1
        <3>3. e.canvas[list[k].layers[1]] # NoCanvas
            BY <3>2 DEF Grown, TakesOut
        <3>4. QED
            BY <3>3 DEF TakesOut
    <2>2. IsFounding(e, list, g)
        BY <1>4, <2>1 DEF IsFounding
    <2>3. QED
        BY <1>4, <2>2 DEF Fit
<1>5. QED
    BY <1>1, <1>2, <1>3, <1>4 DEF Fit

\* A set is changed, or its new name is taken.
LEMMA PerformSetting ==
    ASSUME NEW d, Shaped(d), NEW a, IsSetting(a)
    PROVE  Outcome(d, a, Perform(a, d))
<1>1. a.name \notin Supers
    BY DEF IsSetting, SetNamesOfActions, Supers
<1>2. /\ PerformOne(a, d).ok \in BOOLEAN
      /\ SameLayout(d, PerformOne(a, d).doc)
      /\ IsSetting(PerformOne(a, d).act)
    BY SettingActs
<1> DEFINE r == Perform(a, d)
<1>3. r = PerformOne(a, d)
    BY <1>1 DEF Perform
<1> HIDE DEF r
<1>4. r.ok \in BOOLEAN /\ SameLayout(d, r.doc) /\ IsSetting(r.act)
    BY <1>2, <1>3
<1>5. Became(d, r.doc, d.content) /\ r.doc.content = d.content /\ d.content \in Contents
    BY <1>4, LayoutBecame DEF Became, Shaped
<1>6. Took(r.act, d.content, d.content) /\ SureAct(r.act) /\ (\A l : ~Makes(r.act, l)) /\ \A l : ~Makes(a, l)
    BY <1>4, <1>5, SettingTook
<1>7. Fit(r.doc, r.act)
    BY <1>4 DEF Fit
<1>8. Outcome(d, a, r)
    BY <1>4, <1>5, <1>6, <1>7 DEF Outcome
<1>9. QED
    BY <1>8 DEF r

\* A single action on layers.
LEMMA PerformSingle ==
    ASSUME NEW d, Shaped(d), NEW a, IsAdd(a) \/ IsRemove(a) \/ IsMove(a), Fit(d, a), ReadyOne(d, a)
    PROVE  Outcome(d, a, Perform(a, d))
<1>1. a.name \notin Supers /\ a.name \notin Founders /\ ~IsSetting(a) /\ ~IsShifting(a) /\ ~Founds(a)
    BY DEF IsAdd, IsRemove, IsMove, Supers, Founders, IsSetting, SetNamesOfActions, IsShifting, Founds
<1> DEFINE r == Perform(a, d)
<1>2. r = PerformOne(a, d)
    BY <1>1 DEF Perform
<1>3. Acted(d, a, r)
    BY <1>2, PerformOneActs
<1> HIDE DEF r
<1>4. r.ok \in BOOLEAN /\ (r.ok => Like(a, r.act) /\ Did(r.act, d.content, r.doc.content) /\ Became(d, r.doc, r.doc.content))
    BY <1>3 DEF Acted
<1>5. r.ok => Took(r.act, d.content, r.doc.content)
    BY <1>4, SingleTook
<1>6. ~r.ok /\ Alone(a) => r.doc = d /\ Like(a, r.act)
    BY <1>3 DEF Acted, Alone, IsAdd, IsRemove, IsMove
<1>7. ~r.ok /\ Alone(a) => Became(d, r.doc, d.content)
    BY <1>6, BecameSame
<1>8. ASSUME r.ok \/ Alone(a)
      PROVE  Like(a, r.act) /\ Grown(d, r.doc)
    BY <1>4, <1>6, <1>7, <1>8 DEF Became
<1>9. ASSUME Like(a, r.act), Grown(d, r.doc)
      PROVE  Fit(r.doc, r.act) /\ \A l : Makes(r.act, l) <=> Makes(a, l)
    <2> DEFINE b == r.act
    <2>1. b.name = a.name /\ (IsAdd(a) => b = a) /\ (IsRemove(a) => IsRemove(b) /\ b.layers = a.layers) /\ (IsMove(a) => MoveLike(a, b))
        BY <1>9 DEF Like
    <2>2. Fit(r.doc, a)
        BY <1>9, FitOn
    <2> HIDE DEF b
    <2>3. IsAdd(a) \/ a.name # "LayerAdd"
        BY DEF IsRemove, IsMove
    <2>4. \A l : Makes(b, l) <=> Makes(a, l)
        BY <1>1, <2>1, <2>3 DEF Makes
    <2>5. CASE IsAdd(a)
        BY <2>1, <2>2, <2>4, <2>5 DEF b
    <2>6. CASE IsRemove(a)
        <3>1. ~IsMove(a) /\ ~IsAdd(a)
            BY <2>6 DEF IsRemove, IsMove, IsAdd
        <3>2. Len(a.layers) >= 1 /\ \A i \in 1..Len(a.layers) : r.doc.canvas[a.layers[i]] # NoCanvas
            BY <1>1, <2>2, <3>1 DEF Fit
        <3>3. Fit(r.doc, b)
            BY <2>1, <2>6, <3>2 DEF Fit
        <3>4. QED
            BY <2>4, <3>3 DEF b
    <2>7. CASE IsMove(a)
        <3>1. ~IsRemove(a) /\ ~IsAdd(a)
            BY <2>7 DEF IsRemove, IsMove, IsAdd
        <3>2. r.doc.canvas[a.layer] # NoCanvas
            BY <1>1, <2>2, <3>1 DEF Fit
        <3>3. Fit(r.doc, b)
            BY <2>1, <2>7, <3>2 DEF Fit, MoveLike
        <3>4. QED
            BY <2>4, <3>3 DEF b
    <2>8. QED
        BY <2>5, <2>6, <2>7
<1>10. ASSUME r.ok, Home(d, a)
       PROVE  SureAct(r.act)
    <2> DEFINE b == r.act
    <2>1. Like(a, b)
        BY <1>4, <1>10
    <2> HIDE DEF b
    <2>2. b.name = a.name /\ b.name \notin Supers
        BY <1>1, <2>1 DEF Like
    <2>3. CASE IsMove(a)
        <3>1. MoveLike(a, b) /\ a.dest = a.canvas /\ a.canvas \in Canvases
            BY <1>10, <2>1, <2>3 DEF Like, Home, IsMove
        <3>2. b.canvas = b.dest
            BY <3>1, LayersAssumption DEF MoveLike
        <3>3. SureAct(b)
            BY <2>2, <3>2 DEF SureAct, Sure
        <3>4. QED
            BY <3>3 DEF b
    <2>4. CASE ~IsMove(a)
        <3>1. b.name # "LayerMove"
            BY <2>2, <2>4 DEF IsAdd, IsRemove
        <3>2. SureAct(b)
            BY <2>2, <3>1 DEF SureAct, Sure
        <3>3. QED
            BY <3>2 DEF b
    <2>5. QED
        BY <2>3, <2>4
<1>11. Outcome(d, a, r)
    BY <1>4, <1>5, <1>7, <1>8, <1>9, <1>10 DEF Outcome
<1>12. QED
    BY <1>11 DEF r

\* An action that founds a layer.
LEMMA PerformFounding ==
    ASSUME NEW d, Shaped(d), \A b \in Canvases : LastOf(d.content, b) = Blank,
           NEW a, Founds(a), IsFounding(d, a.list, a.list[1].layer), ~Placed(d.content, a.list[1].layer)
    PROVE  Outcome(d, a, Perform(a, d))
<1> DEFINE g == a.list[1].layer
           r == Perform(a, d)
<1>1. a.name \in Supers /\ a.name \in Founders /\ a.name # "LayerAdd" /\ a.name \notin {"LayerRaise", "LayerLower"}
    BY DEF Founds, Founders, Supers
<1>2. r = SuperPerform(a, d)
    <2> DEFINE p == Prepared(a, d)
    <2>1. p = [ok |-> TRUE, doc |-> d, act |-> a]
        BY <1>1, Zenon DEF Prepared, OK
    <2>2. p.ok /\ p.doc = d /\ p.act = a
        BY <2>1
    <2> HIDE DEF p
    <2>3. PerformPrepared(p) = SuperPerform(p.act, p.doc)
        BY <2>2 DEF PerformPrepared
    <2>4. r = PerformPrepared(p)
        BY <1>1, Zenon DEF Perform, p
    <2>5. QED
        BY <2>2, <2>3, <2>4
<1>3. PICK list : Founded(a, d, SuperPerform(a, d), g, list)
    BY FoundingDone
<1>4. Founded(a, d, r, g, list)
    BY <1>2, <1>3
<1> DEFINE b == [a EXCEPT !.list = list]
<1> HIDE DEF r
<1>5. Founds(b) /\ b.list = list /\ b.name = a.name
    BY DEF Founds
<1>6. r.ok \in BOOLEAN /\ r.act = b /\ IsFounding(r.doc, list, g)
    BY <1>4 DEF Founded
<1>7. list[1].layer = g
    BY <1>6 DEF IsFounding
<1> HIDE DEF b
<1>8. Fit(r.doc, b)
    BY <1>5, <1>6, <1>7 DEF Fit
<1>9. \A l : Makes(b, l) <=> Makes(a, l)
    BY <1>1, <1>5, <1>7 DEF Makes
<1>10. ASSUME r.ok
       PROVE  Took(b, d.content, r.doc.content) /\ Became(d, r.doc, r.doc.content) /\ SureAct(b)
    <2>1. /\ \A j \in 1..Len(list) : Sure(list[j])
          /\ ListDid(list, d.content, r.doc.content)
          /\ Became(d, r.doc, r.doc.content)
          /\ FoundAt(d.content, g, Len(list), r.doc.content)
        BY <1>4, <1>10 DEF Founded
    <2>2. Took(b, d.content, r.doc.content)
        <3>1. /\ IsFounding(r.doc, b.list, b.list[1].layer)
              /\ ListDid(b.list, d.content, r.doc.content)
              /\ FoundAt(d.content, b.list[1].layer, Len(b.list), r.doc.content)
              /\ ~Placed(d.content, b.list[1].layer)
            BY <1>5, <1>6, <1>7, <2>1
        <3>2. QED
            BY <1>5, <3>1, FoundingTook
    <2>3. SureAct(b)
        BY <1>1, <1>5, <2>1 DEF SureAct
    <2>4. QED
        BY <2>1, <2>2, <2>3
<1>11. ~r.ok => Became(d, r.doc, d.content)
    BY <1>4 DEF Founded
<1>12. Outcome(d, a, r)
    BY <1>6, <1>8, <1>9, <1>10, <1>11 DEF Outcome
<1>13. QED
    BY <1>12 DEF r

\* Layers are raised or lowered.
LEMMA PerformShifting ==
    ASSUME NEW d, Shaped(d), NEW a, IsShifting(a), \A l \in Range(a.layers) : d.canvas[l] # NoCanvas
    PROVE  Outcome(d, a, Perform(a, d))
<1> DEFINE r == Perform(a, d)
<1>1. PICK list : Shifted(a, d, Perform(a, d), list)
    BY ShiftingDone
<1>2. Perform(a, d).ok => Took(Perform(a, d).act, d.content, Perform(a, d).doc.content)
    BY <1>1, ShiftingTook
<1>3. Shifted(a, d, r, list) /\ (r.ok => Took(r.act, d.content, r.doc.content))
    BY <1>1, <1>2
<1> DEFINE b == [a EXCEPT !.list = list]
<1>4. IsShifting(b) /\ b.list = list /\ b.layers = a.layers /\ b.name = a.name /\ b.name \in {"LayerRaise", "LayerLower"}
    BY DEF IsShifting
<1> HIDE DEF b, r
<1>5. b.name \in Supers /\ b.name \notin Founders /\ b.name # "LayerAdd"
    BY <1>4 DEF Supers, Founders
<1>6. r.ok \in BOOLEAN /\ r.act = b
    BY <1>3 DEF Shifted, b
<1>7. r.ok => Became(d, r.doc, r.doc.content)
    BY <1>3 DEF Shifted
<1>8. ~r.ok => Became(d, r.doc, d.content)
    BY <1>3, BecameSame DEF Shifted
<1>9. Grown(d, r.doc)
    BY <1>6, <1>7, <1>8 DEF Became
<1>10. Fit(r.doc, b)
    <2>1. \A l \in Range(b.layers) : r.doc.canvas[l] # NoCanvas
        BY <1>4, <1>9, OrderIs DEF Grown
    <2>2. QED
        BY <1>4, <2>1 DEF Fit
<1>11. \A l : Makes(b, l) <=> Makes(a, l)
    BY <1>4, <1>5 DEF Makes
<1>12. r.ok /\ Home(d, a) => SureAct(b)
    <2>1. r.ok /\ Home(d, a) => \A j \in 1..Len(list) : Sure(list[j])
        BY <1>3 DEF Shifted, Home
    <2>2. QED
        BY <1>4, <1>5, <2>1 DEF SureAct
<1>13. Outcome(d, a, r)
    BY <1>3, <1>6, <1>7, <1>8, <1>10, <1>11, <1>12 DEF Outcome
<1>14. QED
    BY <1>13 DEF r

\* What performing an action comes to.
LEMMA PerformActs ==
    ASSUME NEW d, Shaped(d), \A b \in Canvases : LastOf(d.content, b) = Blank, NEW a, Possible(d, a)
    PROVE  Outcome(d, a, Perform(a, d))
<1>1. CASE IsSetting(a)
    BY <1>1, PerformSetting
<1>2. CASE IsAdd(a)
    <2>1. Makes(a, a.layer)
        BY <1>2 DEF Makes, IsAdd
    <2>2. ReadyOne(d, a)
        BY <1>2, <2>1 DEF ReadyOne, Possible
    <2>3. QED
        BY <1>2, <2>2, PerformSingle DEF Possible
<1>3. CASE IsRemove(a)
    <2>1. PICK s \in Canvases : \A i \in 1..Len(a.layers) : d.canvas[a.layers[i]] = s
        BY <1>3 DEF Possible
    <2>2. a.layers \in Seq(Layers)
        BY <1>3 DEF IsRemove
    <2>3. \A i \in 1..Len(a.layers) : a.layers[i] \in Layers /\ LastOf(d.content, s) # a.layers[i]
        BY <2>2, LayersAssumption
    <2>4. ReadyOne(d, a)
        BY <1>3, <2>1, <2>3 DEF ReadyOne
    <2>5. QED
        BY <1>3, <2>4, PerformSingle DEF Possible
<1>4. CASE IsMove(a) /\ d.canvas[a.layer] # NoCanvas
    BY <1>4, PerformSingle DEF ReadyOne, Possible
<1>5. CASE IsShifting(a) /\ \A l \in Range(a.layers) : d.canvas[l] # NoCanvas
    BY <1>5, PerformShifting
<1>6. CASE Founds(a) /\ IsFounding(d, a.list, a.list[1].layer)
    <2>1. Makes(a, a.list[1].layer)
        BY <1>6 DEF Makes, Founds
    <2>2. ~Placed(d.content, a.list[1].layer)
        BY <2>1 DEF Possible
    <2>3. QED
        BY <1>6, <2>2, PerformFounding
<1>7. QED
    BY <1>1, <1>2, <1>3, <1>4, <1>5, <1>6 DEF Possible, Fit

-----------------------------------------------------------------------------
(***************************************************************************)
(* The history.                                                            *)
(***************************************************************************)

\* The contents of the canvases are seen so.
SeenAs(v, x) == \A d : d.content = x => Visible(d).content = v.content

\* Which canvases are open follows from the contents alone.
LEMMA OpenSame ==
    ASSUME NEW d, NEW e, d.content = e.content
    PROVE  Open(d) = Open(e)
<1> DEFINE n == Cardinality(GroupLayers)
<1>1. n \in Nat
    <2>1. IsFiniteSet(GroupLayers)
        BY LayersAssumption, FS_Subset
    <2>2. QED
        BY <2>1, FS_CardinalityType
<1>2. PICK f : OpenRun(d, n, f) /\ Open(d) = f[n]
    BY <1>1, OpenIs
<1>3. PICK g : OpenRun(e, n, g) /\ Open(e) = g[n]
    BY <1>1, OpenIs
<1> HIDE DEF n
<1> DEFINE S == {i \in 0..n : f[i] # g[i]}
<1>4. S = {}
    <2> SUFFICES ASSUME S # {} PROVE FALSE
        OBVIOUS
    <2>1. PICK i \in S : \A j \in S : i <= j
        <3>1. S \in SUBSET Nat
            OBVIOUS
        <3>2. QED
            BY <3>1, LeastExists
    <2>2. /\ i \in 0..n /\ f[i] # g[i]
          /\ f[i] = IF i = 0 THEN {Root} ELSE OpenStep(d, i, f[i - 1])
          /\ g[i] = IF i = 0 THEN {Root} ELSE OpenStep(e, i, g[i - 1])
        BY <1>2, <1>3, <2>1 DEF OpenRun
    <2>3. i # 0
        BY <2>2
    <2>4. i - 1 \in 0..n /\ ~(i <= i - 1)
        BY <1>1, <2>2, <2>3
    <2>5. f[i - 1] = g[i - 1]
        BY <2>1, <2>4
    <2>6. \A c, m : Found(d, c, m) <=> Found(e, c, m)
        BY FoundIs
    <2>7. OpenStep(d, i, f[i - 1]) = OpenStep(e, i, g[i - 1])
        BY <2>5, <2>6 DEF OpenStep
    <2>8. QED
        BY <2>2, <2>3, <2>7
<1>5. n \in 0..n
    BY <1>1
<1>6. QED
    BY <1>2, <1>3, <1>4, <1>5

\* What is seen of a document is what was in its canvases.
LEMMA VisibleSame ==
    ASSUME NEW d
    PROVE  SeenAs(Visible(d), d.content)
<1> SUFFICES ASSUME NEW e, e.content = d.content PROVE Visible(e).content = Visible(d).content
    BY DEF SeenAs
<1>1. Open(e) = Open(d)
    BY OpenSame
<1>2. Visible(e).content = [c \in Canvases |-> IF c \in Open(e) THEN e.content[c] ELSE <<Blank>>]
    BY Zenon DEF Visible
<1>3. Visible(d).content = [c \in Canvases |-> IF c \in Open(d) THEN d.content[c] ELSE <<Blank>>]
    BY Zenon DEF Visible
<1>4. QED
    BY <1>1, <1>2, <1>3

\* What was done, and the contents of the canvases before and after each of it.
PastOk(dn, past, d) ==
    /\ IsSeq(dn)
    /\ past \in [0..Len(dn) -> Contents] /\ past[Len(dn)] = d.content
    /\ \A k \in 1..Len(dn) :
         /\ dn[k] = [act |-> dn[k].act, before |-> dn[k].before, fresh |-> dn[k].fresh]
         /\ Took(dn[k].act, past[k - 1], past[k])
         /\ Fit(d, dn[k].act)
         /\ dn[k].fresh => SureAct(dn[k].act)
         /\ SeenAs(dn[k].before, past[k - 1])
    /\ \A k \in 1..Len(dn), j \in 0..Len(dn), l \in Layers : j < k /\ Makes(dn[k].act, l) => ~Placed(past[j], l)
    /\ \A j \in 0..Len(dn), l \in Layers : Placed(past[j], l) => d.canvas[l] # NoCanvas

\* What was undone, and the contents before and after each of it, as far as nothing else was done.
AheadOk(un, pr, ahead, d) ==
    /\ IsSeq(un) /\ IsSeq(pr) /\ Len(pr) <= Len(un)
    /\ ahead \in [0..Len(pr) -> Contents] /\ ahead[0] = d.content
    /\ \A i \in 1..Len(pr) : Took(un[i], ahead[i - 1], ahead[i]) /\ SureAct(un[i]) /\ SeenAs(pr[i], ahead[i])
    /\ \A i \in 1..Len(un) : Fit(d, un[i])
    /\ \A i \in 1..Len(un) : \A l : Makes(un[i], l) => l \in Layers /\ d.canvas[l] # NoCanvas
    /\ \A i \in 1..Len(un), j \in 0..Len(pr), l \in Layers : j < i /\ Makes(un[i], l) => ~Placed(ahead[j], l)
    /\ \A i, j \in 1..Len(un), l \in Layers : Makes(un[i], l) /\ Makes(un[j], l) => i = j

\* What was undone brings back layers that were never there before.
Apart(dn, past, un) ==
    \A i \in 1..Len(un), k \in 0..Len(dn), l \in Layers : Makes(un[i], l) => ~Placed(past[k], l)

LInv ==
    /\ Shaped(doc) /\ Ended(doc)
    /\ \E past, ahead : PastOk(done, past, doc) /\ AheadOk(undone, promise, ahead, doc) /\ Apart(done, past, undone)

\* One more was done.
Entry(r, v, f) == [act |-> r, before |-> v, fresh |-> f]
More(past, n, y) == [i \in 0..(n + 1) |-> IF i <= n THEN past[i] ELSE y]

\* The contents before each done action are known after one more.
LEMMA PastMore ==
    ASSUME NEW d, NEW dn, NEW past, PastOk(dn, past, d), NEW e, Became(d, e, e.content),
           NEW r, NEW v, NEW f \in BOOLEAN, Took(r, d.content, e.content), Fit(e, r), f => SureAct(r), SeenAs(v, d.content),
           \A l \in Layers, j \in 0..Len(dn) : Makes(r, l) => ~Placed(past[j], l)
    PROVE  PastOk(Append(dn, Entry(r, v, f)), More(past, Len(dn), e.content), e)
<1> DEFINE n == Len(dn)
           q == Entry(r, v, f)
           s == Append(dn, q)
           w == More(past, n, e.content)
           y == e.content
<1>1. IsSeq(dn) /\ n \in Nat
    BY SeqIff DEF PastOk
<1>2. IsSeq(s) /\ Len(s) = n + 1 /\ s[n + 1] = q /\ \A i \in 1..n : s[i] = dn[i]
    BY <1>1, AppendIs
<1>3. q = [act |-> q.act, before |-> q.before, fresh |-> q.fresh] /\ q.act = r /\ q.fresh = f /\ q.before = v
    BY DEF Entry
<1>4. Shaped(e) /\ y \in Contents /\ Grown(d, e)
    BY DEF Became, Shaped
<1>5. /\ past \in [0..n -> Contents] /\ past[n] = d.content
      /\ \A k \in 1..n :
           /\ dn[k] = [act |-> dn[k].act, before |-> dn[k].before, fresh |-> dn[k].fresh]
           /\ Took(dn[k].act, past[k - 1], past[k])
           /\ Fit(d, dn[k].act)
           /\ dn[k].fresh => SureAct(dn[k].act)
           /\ SeenAs(dn[k].before, past[k - 1])
      /\ \A k \in 1..n, j \in 0..n, l \in Layers : j < k /\ Makes(dn[k].act, l) => ~Placed(past[j], l)
      /\ \A j \in 0..n, l \in Layers : Placed(past[j], l) => d.canvas[l] # NoCanvas
    BY DEF PastOk
<1>6. \A l \in Layers, j \in 0..n : Makes(r, l) => ~Placed(past[j], l)
    OBVIOUS
<1> HIDE DEF n, q, s
<1>7. \A j \in 0..n : j \in 0..(n + 1) /\ j <= n
    BY <1>1
<1>8. n + 1 \in 0..(n + 1) /\ ~(n + 1 <= n) /\ n \in 0..n
    BY <1>1
<1>9. (\A j \in 0..n : w[j] = past[j]) /\ w[n + 1] = y
    BY <1>7, <1>8 DEF More
<1>10. w \in [0..(n + 1) -> Contents]
    BY <1>4, <1>5, <1>1 DEF More
<1> HIDE DEF w
<1>11. \A k \in 1..(n + 1) : (k \in 1..n /\ k - 1 \in 0..n /\ k \in 0..n) \/ (k = n + 1 /\ k - 1 = n)
    BY <1>1
<1>12. ASSUME NEW k \in 1..(n + 1)
       PROVE  /\ s[k] = [act |-> s[k].act, before |-> s[k].before, fresh |-> s[k].fresh]
              /\ Took(s[k].act, w[k - 1], w[k])
              /\ Fit(e, s[k].act)
              /\ s[k].fresh => SureAct(s[k].act)
              /\ SeenAs(s[k].before, w[k - 1])
    <2>1. CASE k \in 1..n /\ k - 1 \in 0..n /\ k \in 0..n
        <3>1. s[k] = dn[k] /\ w[k - 1] = past[k - 1] /\ w[k] = past[k]
            BY <1>2, <1>9, <2>1
        <3>2. Fit(e, dn[k].act)
            BY <1>4, <1>5, <2>1, FitOn
        <3>3. QED
            BY <1>5, <2>1, <3>1, <3>2
    <2>2. CASE k = n + 1 /\ k - 1 = n
        <3>1. s[k] = q /\ w[k - 1] = past[n] /\ w[k] = y
            BY <1>2, <1>8, <1>9, <2>2
        <3>2. QED
            BY <1>3, <1>5, <3>1
    <2>3. QED
        BY <1>11, <2>1, <2>2
<1>13. ASSUME NEW k \in 1..(n + 1), NEW j \in 0..(n + 1), NEW l \in Layers, j < k, Makes(s[k].act, l)
       PROVE  ~Placed(w[j], l)
    <2>1. j \in 0..n
        BY <1>1, <1>13
    <2>2. CASE k \in 1..n
        BY <1>2, <1>5, <1>9, <1>13, <2>1, <2>2
    <2>3. CASE k = n + 1
        BY <1>2, <1>3, <1>6, <1>9, <1>13, <2>1, <2>3
    <2>4. QED
        BY <1>11, <2>2, <2>3
<1>14. ASSUME NEW j \in 0..(n + 1), NEW l \in Layers, Placed(w[j], l)
       PROVE  e.canvas[l] # NoCanvas
    <2>1. CASE j \in 0..n
        BY <1>4, <1>5, <1>9, <1>14, <2>1 DEF Grown
    <2>2. CASE j = n + 1
        <3>1. Placed(e.content, l)
            BY <1>9, <1>14, <2>2
        <3>2. QED
            BY <1>4, <3>1, FoundIs, LayersAssumption DEF Shaped, Situated, Placed
    <2>3. QED
        BY <1>1, <2>1, <2>2
<1>15. PastOk(s, w, e)
    <2>1. w \in [0..Len(s) -> Contents] /\ w[Len(s)] = e.content
        BY <1>2, <1>9, <1>10
    <2>2. QED
        BY <1>2, <2>1, <1>12, <1>13, <1>14 DEF PastOk
<1>16. QED
    BY <1>15 DEF s, q, w, n

\* The last was undone.
Less(past, n) == [i \in 0..(n - 1) |-> past[i]]

\* The contents before each done action are known after the last was undone.
LEMMA PastLess ==
    ASSUME NEW d, NEW dn, NEW past, PastOk(dn, past, d), dn # <<>>, NEW e, Became(d, e, past[Len(dn) - 1])
    PROVE  /\ PastOk(Front(dn), Less(past, Len(dn)), e)
           /\ Len(dn) >= 1 /\ Len(Front(dn)) = Len(dn) - 1 /\ Last(dn) = dn[Len(dn)]
<1> DEFINE n == Len(dn)
           s == Front(dn)
           w == Less(past, n)
           c == past[n - 1]
<1>1. dn \in Seq(Range(dn)) /\ n \in Nat /\ DOMAIN dn = 1..n
    BY SeqIff DEF PastOk, IsSeq
<1>2. n >= 1
    BY <1>1
<1>3. s = [i \in 1..(n - 1) |-> dn[i]] /\ Last(dn) = dn[n]
    <2>1. \A i \in 1..(n - 1) : i + 1 - 1 = i
        BY <1>1
    <2>2. SubSeq(dn, 1, n - 1) = [i \in 1..(n - 1) |-> dn[i]]
        BY <1>1, <1>2
    <2>3. QED
        BY <2>2 DEF Front, Last
<1>4. n - 1 \in Nat
    BY <1>1, <1>2
<1>5. IsSeq(s) /\ Len(s) = n - 1 /\ \A i \in 1..(n - 1) : s[i] = dn[i]
    <2>1. \A i \in 1..(n - 1) : s[i] = dn[i]
        BY <1>3
    <2> HIDE DEF s
    <2>2. s = [i \in 1..(n - 1) |-> s[i]]
        BY <1>3
    <2>3. QED
        BY <1>4, <2>1, <2>2, SeqIff
<1>6. Grown(d, e) /\ e.content = c
    BY DEF Became
<1>7. /\ past \in [0..n -> Contents]
      /\ \A k \in 1..n :
           /\ dn[k] = [act |-> dn[k].act, before |-> dn[k].before, fresh |-> dn[k].fresh]
           /\ Took(dn[k].act, past[k - 1], past[k])
           /\ Fit(d, dn[k].act)
           /\ dn[k].fresh => SureAct(dn[k].act)
           /\ SeenAs(dn[k].before, past[k - 1])
      /\ \A k \in 1..n, j \in 0..n, l \in Layers : j < k /\ Makes(dn[k].act, l) => ~Placed(past[j], l)
      /\ \A j \in 0..n, l \in Layers : Placed(past[j], l) => d.canvas[l] # NoCanvas
    BY DEF PastOk
<1> HIDE DEF n, s, c
<1>8. \A j \in 0..(n - 1) : j \in 0..n
    BY <1>1
<1>9. \A k \in 1..(n - 1) : k \in 1..n /\ k \in 0..(n - 1) /\ k - 1 \in 0..(n - 1)
    BY <1>1
<1>10. n - 1 \in 0..(n - 1)
    BY <1>4
<1>11. w \in [0..(n - 1) -> Contents] /\ (\A j \in 0..(n - 1) : w[j] = past[j]) /\ w[n - 1] = c
    <2>1. \A j \in 0..(n - 1) : w[j] = past[j]
        BY DEF Less
    <2>2. w \in [0..(n - 1) -> Contents]
        BY <1>7, <1>8 DEF Less
    <2>3. QED
        BY <1>10, <2>1, <2>2 DEF c
<1> HIDE DEF w
<1>12. ASSUME NEW k \in 1..(n - 1)
       PROVE  /\ s[k] = [act |-> s[k].act, before |-> s[k].before, fresh |-> s[k].fresh]
              /\ Took(s[k].act, w[k - 1], w[k])
              /\ Fit(e, s[k].act)
              /\ s[k].fresh => SureAct(s[k].act)
              /\ SeenAs(s[k].before, w[k - 1])
    <2>1. s[k] = dn[k] /\ w[k - 1] = past[k - 1] /\ w[k] = past[k] /\ k \in 1..n
        BY <1>5, <1>9, <1>11
    <2>2. Fit(e, dn[k].act)
        BY <1>6, <1>7, <2>1, FitOn
    <2>3. QED
        BY <1>7, <2>1, <2>2
<1>13. ASSUME NEW k \in 1..(n - 1), NEW j \in 0..(n - 1), NEW l \in Layers, j < k, Makes(s[k].act, l)
       PROVE  ~Placed(w[j], l)
    BY <1>5, <1>7, <1>8, <1>9, <1>11, <1>13
<1>14. ASSUME NEW j \in 0..(n - 1), NEW l \in Layers, Placed(w[j], l)
       PROVE  e.canvas[l] # NoCanvas
    BY <1>6, <1>7, <1>8, <1>11, <1>14 DEF Grown
<1>15. PastOk(s, w, e)
    <2>1. w \in [0..Len(s) -> Contents] /\ w[Len(s)] = e.content
        BY <1>5, <1>6, <1>11
    <2>2. QED
        BY <1>5, <2>1, <1>12, <1>13, <1>14 DEF PastOk
<1>16. QED
    BY <1>2, <1>3, <1>5, <1>15 DEF s, w, n

\* All of it stays.
LEMMA PastStays ==
    ASSUME NEW d, NEW dn, NEW past, PastOk(dn, past, d), NEW e, Became(d, e, d.content)
    PROVE  PastOk(dn, past, e)
<1>1. Grown(d, e) /\ e.content = d.content
    BY DEF Became
<1>2. \A k \in 1..Len(dn) : Fit(d, dn[k].act) => Fit(e, dn[k].act)
    BY <1>1, FitOn
<1>3. \A l \in Layers : d.canvas[l] # NoCanvas => e.canvas[l] # NoCanvas
    BY <1>1 DEF Grown
<1>4. QED
    BY <1>1, <1>2, <1>3 DEF PastOk

\* One more in front.
LEMMA ConsIs ==
    ASSUME NEW s, IsSeq(s), NEW a
    PROVE  /\ IsSeq(<<a>> \o s) /\ Len(<<a>> \o s) = Len(s) + 1
           /\ (<<a>> \o s)[1] = a
           /\ \A i \in 1..Len(s) : (<<a>> \o s)[i + 1] = s[i]
<1> DEFINE n == Len(s)
           t == <<a>> \o s
           T == Range(s) \union {a}
<1>1. s \in Seq(Range(s)) /\ n \in Nat
    BY SeqIff DEF IsSeq
<1>2. s \in Seq(T)
    BY <1>1
<1>3. t \in Seq(T) /\ Len(t) = n + 1 /\ t[1] = a /\ \A i \in 1..n : t[i + 1] = s[i]
    BY <1>1, <1>2
<1> HIDE DEF n, t
<1>4. t = [i \in 1..(n + 1) |-> t[i]]
    BY <1>3
<1>5. IsSeq(t)
    BY <1>1, <1>4, SeqIff
<1>6. QED
    BY <1>3, <1>5 DEF n, t

\* One less in front.
LEMMA TailIs ==
    ASSUME NEW s, IsSeq(s), s # <<>>
    PROVE  /\ Len(s) >= 1 /\ Head(s) = s[1]
           /\ IsSeq(Tail(s)) /\ Len(Tail(s)) = Len(s) - 1
           /\ \A i \in 1..(Len(s) - 1) : Tail(s)[i] = s[i + 1]
<1> DEFINE n == Len(s)
           t == Tail(s)
           T == Range(s)
<1>1. s \in Seq(T) /\ n \in Nat
    BY SeqIff DEF IsSeq
<1>2. n >= 1 /\ Head(s) = s[1] /\ t \in Seq(T) /\ Len(t) = n - 1 /\ \A i \in 1..(n - 1) : t[i] = s[i + 1]
    BY <1>1
<1> HIDE DEF n, t
<1>3. t = [i \in 1..(n - 1) |-> t[i]] /\ n - 1 \in Nat
    BY <1>1, <1>2
<1>4. IsSeq(t)
    BY <1>3, SeqIff
<1>5. QED
    BY <1>2, <1>4 DEF n, t

\* One is replaced.
LEMMA FirstIs ==
    ASSUME NEW s, IsSeq(s), NEW b
    PROVE  LET t == [s EXCEPT ![1] = b]
           IN  IsSeq(t) /\ Len(t) = Len(s) /\ \A i \in 1..Len(s) : t[i] = IF i = 1 THEN b ELSE s[i]
<1> DEFINE n == Len(s)
           t == [s EXCEPT ![1] = b]
<1>1. n \in Nat /\ s = [i \in 1..n |-> s[i]]
    BY SeqIff
<1> HIDE DEF n
<1>2. \A i \in 1..n : t[i] = IF i = 1 THEN b ELSE s[i]
    BY <1>1
<1>3. t = [i \in 1..n |-> t[i]]
    BY <1>1
<1> HIDE DEF t
<1>4. IsSeq(t) /\ Len(t) = n
    BY <1>1, <1>3, SeqIff
<1>5. QED
    BY <1>2, <1>4 DEF t, n

\* Nothing is promised any more.
Unmoved(y) == [j \in 0..0 |-> y]

\* A new action, and a redo that changes nothing, end what was promised.
LEMMA AheadNone ==
    ASSUME NEW d, NEW un, NEW pr, NEW ahead, AheadOk(un, pr, ahead, d), NEW e, Became(d, e, e.content),
           \A i \in 1..Len(un), l \in Layers : Makes(un[i], l) => ~Placed(e.content, l)
    PROVE  AheadOk(un, <<>>, Unmoved(e.content), e)
<1> DEFINE y == e.content
           w == Unmoved(y)
<1>1. Shaped(e) /\ y \in Contents /\ Grown(d, e)
    BY DEF Became, Shaped
<1>2. /\ IsSeq(un)
      /\ \A i \in 1..Len(un) : Fit(d, un[i])
      /\ \A i \in 1..Len(un) : \A l : Makes(un[i], l) => l \in Layers /\ d.canvas[l] # NoCanvas
      /\ \A i, j \in 1..Len(un), l \in Layers : Makes(un[i], l) /\ Makes(un[j], l) => i = j
    BY DEF AheadOk
<1>3. Len(un) \in Nat
    BY <1>2, SeqIff
<1>4. w \in [0..0 -> Contents] /\ w[0] = y /\ \A j \in 0..0 : w[j] = y
    BY <1>1 DEF Unmoved
<1> HIDE DEF w
<1>5. IsSeq(<<>>) /\ Len(<<>>) = 0
    BY DEF IsSeq
<1>6. \A i \in 1..Len(un) : Fit(e, un[i])
    BY <1>1, <1>2, FitOn
<1>7. \A i \in 1..Len(un) : \A l : Makes(un[i], l) => l \in Layers /\ e.canvas[l] # NoCanvas
    BY <1>1, <1>2 DEF Grown
<1>8. AheadOk(un, <<>>, w, e)
    BY <1>2, <1>3, <1>4, <1>5, <1>6, <1>7 DEF AheadOk
<1>9. QED
    BY <1>8 DEF w

\* One more was undone.
Before(ahead, m, x) == [i \in 0..(m + 1) |-> IF i = 0 THEN x ELSE ahead[i - 1]]

\* What is promised to be redone after one more was undone.
LEMMA AheadMore ==
    ASSUME NEW d, NEW un, NEW pr, NEW ahead, AheadOk(un, pr, ahead, d), NEW e, Became(d, e, e.content),
           NEW a, NEW v, Took(a, e.content, d.content), SureAct(a), Fit(e, a), SeenAs(v, d.content),
           \A l \in Layers : Makes(a, l) => d.canvas[l] # NoCanvas,
           \A i \in 1..Len(un), l \in Layers : Makes(un[i], l) => ~Placed(e.content, l)
    PROVE  AheadOk(<<a>> \o un, <<v>> \o pr, Before(ahead, Len(pr), e.content), e)
<1> DEFINE x == e.content
           n == Len(un)
           m == Len(pr)
           s == <<a>> \o un
           p == <<v>> \o pr
           w == Before(ahead, m, x)
<1>1. Shaped(e) /\ x \in Contents /\ Grown(d, e)
    BY DEF Became, Shaped
<1>2. /\ IsSeq(un) /\ IsSeq(pr) /\ m <= n
      /\ ahead \in [0..m -> Contents] /\ ahead[0] = d.content
      /\ \A i \in 1..m : Took(un[i], ahead[i - 1], ahead[i]) /\ SureAct(un[i]) /\ SeenAs(pr[i], ahead[i])
      /\ \A i \in 1..n : Fit(d, un[i])
      /\ \A i \in 1..n : \A l : Makes(un[i], l) => l \in Layers /\ d.canvas[l] # NoCanvas
      /\ \A i \in 1..n, j \in 0..m, l \in Layers : j < i /\ Makes(un[i], l) => ~Placed(ahead[j], l)
      /\ \A i, j \in 1..n, l \in Layers : Makes(un[i], l) /\ Makes(un[j], l) => i = j
    BY DEF AheadOk
<1>3. n \in Nat /\ m \in Nat
    BY <1>2, SeqIff
<1>4. IsSeq(s) /\ Len(s) = n + 1 /\ s[1] = a /\ \A i \in 1..n : s[i + 1] = un[i]
    BY <1>2, ConsIs
<1>5. IsSeq(p) /\ Len(p) = m + 1 /\ p[1] = v /\ \A i \in 1..m : p[i + 1] = pr[i]
    BY <1>2, ConsIs
<1>6. \A i \in 1..n, l \in Layers : Makes(un[i], l) => ~Placed(x, l)
    OBVIOUS
<1> HIDE DEF n, m, s, p
<1>7. w[0] = x /\ \A i \in 1..(m + 1) : w[i] = ahead[i - 1]
    BY <1>3 DEF Before
<1>8. w \in [0..(m + 1) -> Contents]
    <2>1. \A i \in 0..(m + 1) : i # 0 => i - 1 \in 0..m
        BY <1>3
    <2>2. QED
        BY <1>1, <1>2, <2>1 DEF Before
<1> HIDE DEF w
<1>9. \A i \in 1..(n + 1) : i = 1 \/ (i - 1 \in 1..n /\ (i - 1) + 1 = i)
    BY <1>3
<1>10. \A i \in 1..(n + 1) : i = 1 \/ s[i] = un[i - 1]
    <2> SUFFICES ASSUME NEW i \in 1..(n + 1), i # 1 PROVE s[i] = un[i - 1]
        OBVIOUS
    <2>1. i - 1 \in 1..n /\ (i - 1) + 1 = i
        BY <1>9
    <2>2. s[(i - 1) + 1] = un[i - 1]
        BY <1>4, <2>1
    <2>3. QED
        BY <2>1, <2>2
<1>11. ASSUME NEW i \in 1..(m + 1)
       PROVE  Took(s[i], w[i - 1], w[i]) /\ SureAct(s[i]) /\ SeenAs(p[i], w[i])
    <2>1. CASE i = 1
        <3>1. s[i] = a /\ w[i - 1] = x /\ w[i] = ahead[0] /\ p[i] = v
            BY <1>3, <1>4, <1>5, <1>7, <2>1
        <3>2. QED
            BY <1>2, <3>1
    <2>2. CASE i # 1
        <3>1. i \in 1..(n + 1) /\ i - 1 \in 1..m /\ i - 1 \in 1..(m + 1) /\ i - 1 - 1 = (i - 1) - 1
            BY <1>2, <1>3, <2>2
        <3>2. s[i] = un[i - 1] /\ w[i] = ahead[i - 1] /\ w[i - 1] = ahead[(i - 1) - 1]
            BY <1>7, <1>10, <2>2, <3>1
        <3>3. p[i] = pr[i - 1]
            <4>1. p[(i - 1) + 1] = pr[i - 1] /\ (i - 1) + 1 = i
                BY <1>3, <1>5, <3>1
            <4>2. QED
                BY <4>1
        <3>4. QED
            BY <1>2, <3>1, <3>2, <3>3
    <2>3. QED
        BY <2>1, <2>2
<1>12. \A i \in 1..(n + 1) : Fit(e, s[i])
    <2>1. \A i \in 1..n : Fit(e, un[i])
        BY <1>1, <1>2, FitOn
    <2>2. QED
        BY <1>4, <1>9, <1>10, <2>1
<1>13. \A i \in 1..(n + 1) : \A l : Makes(s[i], l) => l \in Layers /\ e.canvas[l] # NoCanvas
    <2>1. \A l : Makes(a, l) => l \in Layers /\ d.canvas[l] # NoCanvas
        BY DEF Took
    <2>2. \A i \in 1..(n + 1) : \A l : Makes(s[i], l) => l \in Layers /\ d.canvas[l] # NoCanvas
        BY <1>2, <1>4, <1>9, <1>10, <2>1
    <2>3. QED
        BY <1>1, <2>2 DEF Grown
<1>14. ASSUME NEW i \in 1..(n + 1), NEW j \in 0..(m + 1), NEW l \in Layers, j < i, Makes(s[i], l)
       PROVE  ~Placed(w[j], l)
    <2>1. CASE i = 1
        <3>1. j = 0 /\ s[i] = a
            BY <1>4, <1>14, <2>1
        <3>2. QED
            BY <1>7, <1>14, <3>1 DEF Took
    <2>2. CASE i # 1
        <3>1. i - 1 \in 1..n /\ s[i] = un[i - 1]
            BY <1>9, <1>10, <2>2
        <3>2. CASE j = 0
            BY <1>6, <1>7, <1>14, <3>1, <3>2
        <3>3. CASE j # 0
            <4>1. j \in 1..(m + 1) /\ j - 1 \in 0..m /\ j - 1 < i - 1
                BY <1>3, <1>14, <3>3
            <4>2. QED
                BY <1>2, <1>7, <1>14, <3>1, <4>1
        <3>4. QED
            BY <3>2, <3>3
    <2>3. QED
        BY <2>1, <2>2
<1>15. ASSUME NEW i \in 1..(n + 1), NEW j \in 1..(n + 1), NEW l \in Layers, Makes(s[i], l), Makes(s[j], l)
       PROVE  i = j
    <2>1. \A k \in 1..n : ~(Makes(a, l) /\ Makes(un[k], l))
        <3>1. Makes(a, l) => Placed(d.content, l)
            BY DEF Took
        <3>2. 0 \in 0..m /\ \A k \in 1..n : 0 < k
            BY <1>3
        <3>3. QED
            BY <1>2, <3>1, <3>2
    <2>2. CASE i = 1 \/ j = 1
        BY <1>4, <1>9, <1>10, <1>15, <2>1, <2>2
    <2>3. CASE i # 1 /\ j # 1
        <3>1. i - 1 = j - 1
            BY <1>2, <1>9, <1>10, <1>15, <2>3
        <3>2. QED
            BY <3>1
    <2>4. QED
        BY <2>2, <2>3
<1>16. AheadOk(s, p, w, e)
    <2>1. Len(p) <= Len(s) /\ w \in [0..Len(p) -> Contents] /\ w[0] = e.content
        BY <1>2, <1>3, <1>4, <1>5, <1>7, <1>8
    <2>2. QED
        BY <1>4, <1>5, <2>1, <1>11, <1>12, <1>13, <1>14, <1>15 DEF AheadOk
<1>17. QED
    BY <1>16 DEF s, p, w, m

\* The next was done again, as promised.
After(ahead, m) == [i \in 0..(m - 1) |-> ahead[i + 1]]

\* What is promised to be redone after the next was redone as promised.
LEMMA AheadLess ==
    ASSUME NEW d, NEW un, NEW pr, NEW ahead, AheadOk(un, pr, ahead, d), pr # <<>>, NEW e, Became(d, e, ahead[1])
    PROVE  AheadOk(Tail(un), Tail(pr), After(ahead, Len(pr)), e)
<1> DEFINE n == Len(un)
           m == Len(pr)
           s == Tail(un)
           p == Tail(pr)
           w == After(ahead, m)
<1>1. Grown(d, e) /\ e.content = ahead[1]
    BY DEF Became
<1>2. /\ IsSeq(un) /\ IsSeq(pr) /\ m <= n
      /\ ahead \in [0..m -> Contents]
      /\ \A i \in 1..m : Took(un[i], ahead[i - 1], ahead[i]) /\ SureAct(un[i]) /\ SeenAs(pr[i], ahead[i])
      /\ \A i \in 1..n : Fit(d, un[i])
      /\ \A i \in 1..n : \A l : Makes(un[i], l) => l \in Layers /\ d.canvas[l] # NoCanvas
      /\ \A i \in 1..n, j \in 0..m, l \in Layers : j < i /\ Makes(un[i], l) => ~Placed(ahead[j], l)
      /\ \A i, j \in 1..n, l \in Layers : Makes(un[i], l) /\ Makes(un[j], l) => i = j
    BY DEF AheadOk
<1>3. n \in Nat /\ m \in Nat
    BY <1>2, SeqIff
<1>4. m >= 1 /\ IsSeq(p) /\ Len(p) = m - 1 /\ \A i \in 1..(m - 1) : p[i] = pr[i + 1]
    BY <1>2, TailIs
<1>5. un # <<>>
    BY <1>2, <1>3, <1>4
<1>6. IsSeq(s) /\ Len(s) = n - 1 /\ \A i \in 1..(n - 1) : s[i] = un[i + 1]
    BY <1>2, <1>5, TailIs
<1> HIDE DEF n, m, s, p
<1>7. (\A i \in 0..(m - 1) : w[i] = ahead[i + 1]) /\ w[0] = ahead[1]
    <2>1. 0 \in 0..(m - 1) /\ 0 + 1 = 1
        BY <1>3, <1>4
    <2>2. \A i \in 0..(m - 1) : w[i] = ahead[i + 1]
        BY DEF After
    <2>3. QED
        BY <2>1, <2>2
<1>8. w \in [0..(m - 1) -> Contents]
    <2>1. \A i \in 0..(m - 1) : i + 1 \in 0..m
        BY <1>3
    <2>2. QED
        BY <1>2, <2>1 DEF After
<1> HIDE DEF w
<1>9. \A i \in 1..(n - 1) : i + 1 \in 1..n
    BY <1>3
<1>11. ASSUME NEW i \in 1..(m - 1)
       PROVE  Took(s[i], w[i - 1], w[i]) /\ SureAct(s[i]) /\ SeenAs(p[i], w[i])
    <2>1. i \in 1..(n - 1) /\ i + 1 \in 1..m /\ i \in 0..(m - 1) /\ i - 1 \in 0..(m - 1) /\ (i - 1) + 1 = (i + 1) - 1
        BY <1>2, <1>3
    <2>2. s[i] = un[i + 1] /\ w[i] = ahead[i + 1] /\ w[i - 1] = ahead[(i + 1) - 1]
        BY <1>6, <1>7, <2>1
    <2>3. QED
        BY <1>2, <1>4, <2>1, <2>2
<1>12. \A i \in 1..(n - 1) : Fit(e, s[i])
    <2>1. \A i \in 1..n : Fit(e, un[i])
        BY <1>1, <1>2, FitOn
    <2>2. QED
        BY <1>6, <1>9, <2>1
<1>13. \A i \in 1..(n - 1) : \A l : Makes(s[i], l) => l \in Layers /\ e.canvas[l] # NoCanvas
    BY <1>1, <1>2, <1>6, <1>9 DEF Grown
<1>14. ASSUME NEW i \in 1..(n - 1), NEW j \in 0..(m - 1), NEW l \in Layers, j < i, Makes(s[i], l)
       PROVE  ~Placed(w[j], l)
    <2>1. i + 1 \in 1..n /\ j + 1 \in 0..m /\ j + 1 < i + 1
        BY <1>3, <1>14
    <2>2. s[i] = un[i + 1] /\ w[j] = ahead[j + 1]
        BY <1>6, <1>7
    <2>3. QED
        BY <1>2, <1>14, <2>1, <2>2
<1>15. ASSUME NEW i \in 1..(n - 1), NEW j \in 1..(n - 1), NEW l \in Layers, Makes(s[i], l), Makes(s[j], l)
       PROVE  i = j
    <2>1. i + 1 = j + 1
        BY <1>2, <1>6, <1>9, <1>15
    <2>2. QED
        BY <2>1
<1>16. AheadOk(s, p, w, e)
    <2>1. Len(p) <= Len(s) /\ w \in [0..Len(p) -> Contents] /\ w[0] = e.content
        BY <1>1, <1>2, <1>3, <1>4, <1>6, <1>7, <1>8
    <2>2. QED
        BY <1>4, <1>6, <2>1, <1>11, <1>12, <1>13, <1>14, <1>15 DEF AheadOk
<1>17. QED
    BY <1>16 DEF s, p, w, m

\* The next was done again elsewhere.
LEMMA AheadRest ==
    ASSUME NEW d, NEW un, NEW ahead, AheadOk(un, <<>>, ahead, d), un # <<>>, NEW e, Became(d, e, e.content),
           \A i \in 2..Len(un), l \in Layers : Makes(un[i], l) => ~Placed(e.content, l)
    PROVE  AheadOk(Tail(un), <<>>, Unmoved(e.content), e)
<1> DEFINE n == Len(un)
           s == Tail(un)
           w == Unmoved(e.content)
<1>1. e.content \in Contents /\ Grown(d, e)
    BY DEF Became, Shaped
<1>2. /\ IsSeq(un)
      /\ \A i \in 1..n : Fit(d, un[i])
      /\ \A i \in 1..n : \A l : Makes(un[i], l) => l \in Layers /\ d.canvas[l] # NoCanvas
      /\ \A i, j \in 1..n, l \in Layers : Makes(un[i], l) /\ Makes(un[j], l) => i = j
    BY DEF AheadOk
<1>3. n \in Nat /\ n >= 1 /\ IsSeq(s) /\ Len(s) = n - 1 /\ \A i \in 1..(n - 1) : s[i] = un[i + 1]
    BY <1>2, SeqIff, TailIs
<1>4. \A i \in 2..n, l \in Layers : Makes(un[i], l) => ~Placed(e.content, l)
    OBVIOUS
<1> HIDE DEF n, s
<1>5. \A i \in 1..(n - 1) : i + 1 \in 1..n /\ i + 1 \in 2..n
    BY <1>3
<1>6. w \in [0..0 -> Contents] /\ \A j \in 0..0 : w[j] = e.content
    BY <1>1 DEF Unmoved
<1> HIDE DEF w
<1>7. IsSeq(<<>>) /\ Len(<<>>) = 0
    BY DEF IsSeq
<1>8. \A i \in 1..(n - 1) : Fit(e, s[i])
    <2>1. \A i \in 1..n : Fit(e, un[i])
        BY <1>1, <1>2, FitOn
    <2>2. QED
        BY <1>3, <1>5, <2>1
<1>9. \A i \in 1..(n - 1) : \A l : Makes(s[i], l) => l \in Layers /\ e.canvas[l] # NoCanvas
    BY <1>1, <1>2, <1>3, <1>5 DEF Grown
<1>10. \A i \in 1..(n - 1), j \in 0..0, l \in Layers : j < i /\ Makes(s[i], l) => ~Placed(w[j], l)
    BY <1>3, <1>4, <1>5, <1>6
<1>11. ASSUME NEW i \in 1..(n - 1), NEW j \in 1..(n - 1), NEW l \in Layers, Makes(s[i], l), Makes(s[j], l)
       PROVE  i = j
    <2>1. i + 1 = j + 1
        BY <1>2, <1>3, <1>5, <1>11
    <2>2. QED
        BY <2>1
<1>12. AheadOk(s, <<>>, w, e)
    <2>1. Len(<<>>) <= Len(s) /\ w \in [0..Len(<<>>) -> Contents] /\ w[0] = e.content
        BY <1>3, <1>6, <1>7
    <2>2. QED
        BY <1>3, <1>7, <2>1, <1>8, <1>9, <1>10, <1>11 DEF AheadOk
<1>13. QED
    BY <1>12 DEF s, w

\* The next could not be done again, and is as good as it was.
LEMMA AheadChanged ==
    ASSUME NEW d, NEW un, NEW pr, NEW ahead, AheadOk(un, pr, ahead, d), un # <<>>, NEW e, Became(d, e, d.content),
           NEW r, Fit(e, r), \A l : Makes(r, l) <=> Makes(un[1], l),
           pr # <<>> => Took(r, ahead[0], ahead[1]) /\ SureAct(r)
    PROVE  AheadOk([un EXCEPT ![1] = r], pr, ahead, e)
<1> DEFINE n == Len(un)
           m == Len(pr)
           s == [un EXCEPT ![1] = r]
<1>1. Grown(d, e) /\ e.content = d.content
    BY DEF Became
<1>2. /\ IsSeq(un) /\ IsSeq(pr) /\ m <= n
      /\ ahead \in [0..m -> Contents] /\ ahead[0] = d.content
      /\ \A i \in 1..m : Took(un[i], ahead[i - 1], ahead[i]) /\ SureAct(un[i]) /\ SeenAs(pr[i], ahead[i])
      /\ \A i \in 1..n : Fit(d, un[i])
      /\ \A i \in 1..n : \A l : Makes(un[i], l) => l \in Layers /\ d.canvas[l] # NoCanvas
      /\ \A i \in 1..n, j \in 0..m, l \in Layers : j < i /\ Makes(un[i], l) => ~Placed(ahead[j], l)
      /\ \A i, j \in 1..n, l \in Layers : Makes(un[i], l) /\ Makes(un[j], l) => i = j
    BY DEF AheadOk
<1>3. n \in Nat /\ m \in Nat /\ n >= 1
    BY <1>2, SeqIff, TailIs
<1>4. IsSeq(s) /\ Len(s) = n /\ \A i \in 1..n : s[i] = IF i = 1 THEN r ELSE un[i]
    BY <1>2, FirstIs
<1>5. m >= 1 => Took(r, ahead[0], ahead[1]) /\ SureAct(r)
    <2>1. m >= 1 => pr # <<>>
        OBVIOUS
    <2>2. QED
        BY <2>1
<1>6. \A l : Makes(r, l) <=> Makes(un[1], l)
    OBVIOUS
<1> HIDE DEF n, m, s
<1>7. \A i \in 1..n : \A l : Makes(s[i], l) <=> Makes(un[i], l)
    BY <1>4, <1>6
<1>8. ASSUME NEW i \in 1..m
      PROVE  Took(s[i], ahead[i - 1], ahead[i]) /\ SureAct(s[i]) /\ SeenAs(pr[i], ahead[i])
    <2>1. i \in 1..n /\ m >= 1
        BY <1>2, <1>3
    <2>2. CASE i = 1
        <3>1. i - 1 = 0 /\ s[i] = r
            BY <1>4, <2>1, <2>2
        <3>2. QED
            BY <1>2, <1>5, <2>1, <2>2, <3>1
    <2>3. CASE i # 1
        BY <1>2, <1>4, <2>1, <2>3
    <2>4. QED
        BY <2>2, <2>3
<1>9. \A i \in 1..n : Fit(e, s[i])
    <2>1. \A i \in 1..n : Fit(e, un[i])
        BY <1>1, <1>2, FitOn
    <2>2. QED
        BY <1>4, <2>1
<1>10. \A i \in 1..n : \A l : Makes(s[i], l) => l \in Layers /\ e.canvas[l] # NoCanvas
    BY <1>1, <1>2, <1>7 DEF Grown
<1>11. \A i \in 1..n, j \in 0..m, l \in Layers : j < i /\ Makes(s[i], l) => ~Placed(ahead[j], l)
    BY <1>2, <1>7
<1>12. \A i, j \in 1..n, l \in Layers : Makes(s[i], l) /\ Makes(s[j], l) => i = j
    BY <1>2, <1>7
<1>13. AheadOk(s, pr, ahead, e)
    <2>1. Len(pr) <= Len(s) /\ ahead \in [0..Len(pr) -> Contents] /\ ahead[0] = e.content
        BY <1>1, <1>2, <1>4 DEF m
    <2> USE DEF m
    <2>2. QED
        BY <1>2, <1>4, <2>1, <1>8, <1>9, <1>10, <1>11, <1>12 DEF AheadOk
<1>14. QED
    BY <1>13 DEF s

\* Nothing was undone or done again.
LEMMA AheadStays ==
    ASSUME NEW d, NEW un, NEW pr, NEW ahead, AheadOk(un, pr, ahead, d), NEW e, Became(d, e, d.content)
    PROVE  AheadOk(un, pr, ahead, e)
<1>1. Grown(d, e) /\ e.content = d.content
    BY DEF Became
<1>2. \A i \in 1..Len(un) : Fit(d, un[i]) => Fit(e, un[i])
    BY <1>1, FitOn
<1>3. \A l \in Layers : d.canvas[l] # NoCanvas => e.canvas[l] # NoCanvas
    BY <1>1 DEF Grown
<1>4. QED
    BY <1>1, <1>2, <1>3 DEF AheadOk

\* One more was done.
LEMMA ApartMore ==
    ASSUME NEW dn, IsSeq(dn), NEW past, NEW un, Apart(dn, past, un), NEW q, NEW y,
           \A i \in 1..Len(un), l \in Layers : Makes(un[i], l) => ~Placed(y, l)
    PROVE  Apart(Append(dn, q), More(past, Len(dn), y), un)
<1> DEFINE n == Len(dn)
           w == More(past, n, y)
           s == Append(dn, q)
<1>1. n \in Nat /\ Len(s) = n + 1
    BY SeqIff, AppendIs
<1>2. \A i \in 1..Len(un), k \in 0..n, l \in Layers : Makes(un[i], l) => ~Placed(past[k], l)
    BY DEF Apart
<1> HIDE DEF n, s
<1>3. \A j \in 0..(n + 1) : w[j] = y \/ (j \in 0..n /\ w[j] = past[j])
    BY <1>1 DEF More
<1> HIDE DEF w
<1>4. \A i \in 1..Len(un), j \in 0..(n + 1), l \in Layers : Makes(un[i], l) => ~Placed(w[j], l)
    BY <1>2, <1>3
<1>5. Apart(s, w, un)
    BY <1>1, <1>4 DEF Apart
<1>6. QED
    BY <1>5 DEF s, w, n

\* The next of what was undone is no longer.
LEMMA ApartTail ==
    ASSUME NEW dn, NEW past, NEW un, IsSeq(un), un # <<>>, Apart(dn, past, un)
    PROVE  Apart(dn, past, Tail(un))
<1> DEFINE n == Len(un)
           s == Tail(un)
<1>1. n \in Nat /\ Len(s) = n - 1 /\ \A i \in 1..(n - 1) : s[i] = un[i + 1]
    BY SeqIff, TailIs
<1>2. \A i \in 1..n, k \in 0..Len(dn), l \in Layers : Makes(un[i], l) => ~Placed(past[k], l)
    BY DEF Apart
<1> HIDE DEF n, s
<1>3. \A i \in 1..(n - 1) : i + 1 \in 1..n
    BY <1>1
<1>4. Apart(dn, past, s)
    BY <1>1, <1>2, <1>3 DEF Apart
<1>5. QED
    BY <1>4 DEF s

\* The last of what was done was undone.
LEMMA ApartUndone ==
    ASSUME NEW d, NEW dn, dn # <<>>, NEW past, PastOk(dn, past, d), NEW un, IsSeq(un), Apart(dn, past, un),
           NEW a, a = dn[Len(dn)].act
    PROVE  Apart(Front(dn), Less(past, Len(dn)), <<a>> \o un)
<1> DEFINE n == Len(dn)
           m == Len(un)
           s == <<a>> \o un
           w == Less(past, n)
<1>1. n \in Nat /\ m \in Nat /\ n >= 1 /\ Len(Front(dn)) = n - 1
    <2>1. Len(dn) \in Nat /\ Len(un) \in Nat /\ IsSeq(dn)
        BY SeqIff DEF PastOk
    <2>2. Len(dn) >= 1
        BY <2>1, TailIs
    <2>3. dn \in Seq(Range(dn))
        BY <2>1 DEF IsSeq
    <2>4. Len(Front(dn)) = Len(dn) - 1
        <3> DEFINE k == Len(dn) - 1
        <3>1. k \in Nat /\ \A i \in 1..k : i + 1 - 1 = i
            BY <2>1, <2>2
        <3>2. Front(dn) = [i \in 1..k |-> dn[i]]
            BY <2>3, <3>1 DEF Front
        <3> HIDE DEF k
        <3>3. Len(Front(dn)) = k
            BY <3>1, <3>2
        <3>4. QED
            BY <3>3 DEF k
    <2>5. QED
        BY <2>1, <2>2, <2>4
<1>2. Len(s) = m + 1 /\ s[1] = a /\ \A i \in 1..m : s[i + 1] = un[i]
    BY ConsIs
<1>3. \A i \in 1..m, k \in 0..n, l \in Layers : Makes(un[i], l) => ~Placed(past[k], l)
    BY DEF Apart
<1>4. \A j \in 0..n, l \in Layers : j < n /\ Makes(a, l) => ~Placed(past[j], l)
    <2>1. n \in 1..Len(dn)
        BY <1>1
    <2>2. QED
        BY <2>1 DEF PastOk
<1> HIDE DEF n, m, s
<1>5. \A j \in 0..(n - 1) : j \in 0..n /\ j < n /\ w[j] = past[j]
    BY <1>1 DEF Less
<1> HIDE DEF w
<1>6. ASSUME NEW i \in 1..(m + 1), NEW j \in 0..(n - 1), NEW l \in Layers, Makes(s[i], l)
      PROVE  ~Placed(w[j], l)
    <2>1. CASE i = 1
        BY <1>2, <1>4, <1>5, <1>6, <2>1
    <2>2. CASE i # 1
        <3>1. i - 1 \in 1..m /\ (i - 1) + 1 = i
            BY <1>1, <2>2
        <3>2. s[(i - 1) + 1] = un[i - 1]
            BY <1>2, <3>1
        <3>3. s[i] = un[i - 1]
            BY <3>1, <3>2
        <3>4. QED
            BY <1>3, <1>5, <1>6, <3>1, <3>3
    <2>3. QED
        BY <2>1, <2>2
<1>7. Apart(Front(dn), w, s)
    BY <1>1, <1>2, <1>6 DEF Apart
<1>8. QED
    BY <1>7 DEF w, s, n

\* The next of what was undone is as good as it was.
LEMMA ApartChanged ==
    ASSUME NEW dn, NEW past, NEW un, IsSeq(un), un # <<>>, Apart(dn, past, un), NEW r, \A l : Makes(r, l) <=> Makes(un[1], l)
    PROVE  Apart(dn, past, [un EXCEPT ![1] = r])
<1> DEFINE s == [un EXCEPT ![1] = r]
<1>1. Len(s) = Len(un) /\ \A i \in 1..Len(un) : s[i] = IF i = 1 THEN r ELSE un[i]
    BY FirstIs
<1> HIDE DEF s
<1>2. \A i \in 1..Len(un) : \A l : Makes(s[i], l) <=> Makes(un[i], l)
    BY <1>1
<1>3. Apart(dn, past, s)
    BY <1>1, <1>2 DEF Apart
<1>4. QED
    BY <1>3 DEF s

-----------------------------------------------------------------------------
(***************************************************************************)
(* What the steps do to the history.                                       *)
(***************************************************************************)

\* Nothing but the end is behind the layers of a canvas.
LEMMA EndedLast ==
    ASSUME NEW d, Shaped(d), Ended(d)
    PROVE  \A b \in Canvases : LastOf(d.content, b) = Blank
<1> SUFFICES ASSUME NEW b \in Canvases PROVE LastOf(d.content, b) = Blank
    OBVIOUS
<1>1. d.content \in Contents
    BY DEF Shaped
<1>2. Len(d.content[b]) \in DOMAIN d.content[b]
    BY <1>1, ContentOf
<1>3. QED
    BY <1>2 DEF Ended, LastOf

\* A layer that is in a canvas remembers one.
LEMMA PlacedKnown ==
    ASSUME NEW d, Shaped(d), NEW l \in Layers, Placed(d.content, l)
    PROVE  d.canvas[l] \in Canvases /\ d.canvas[l] # NoCanvas /\ l \in Range(d.content[d.canvas[l]])
BY FoundIs, LayersAssumption DEF Shaped, Situated, Placed

\* Something new is done.
LEMMA DoKeeps ==
    ASSUME LInv, NEW d, Shaped(d), d.content = doc.content, d.canvas = doc.canvas,
           NEW a, Possible(d, a), Home(d, a), \A l \in Layers : Makes(a, l) => doc.canvas[l] = NoCanvas,
           Do(a, d), Ended(doc')
    PROVE  LInv'
<1>1. PICK past, ahead : PastOk(done, past, doc) /\ AheadOk(undone, promise, ahead, doc) /\ Apart(done, past, undone)
    BY DEF LInv
<1> DEFINE r == Perform(a, d)
<1>2. /\ r.ok
      /\ done' = Append(done, Entry(r.act, Visible(doc), TRUE))
      /\ doc' = r.doc
      /\ promise' = <<>>
      /\ undone' = undone
    BY DEF Do, Settled, Entry
<1>3. Outcome(d, a, r)
    <2>1. \A b \in Canvases : LastOf(d.content, b) = Blank
        BY EndedLast DEF LInv
    <2>2. QED
        BY <2>1, PerformActs
<1> HIDE DEF r
<1>4. Became(d, doc', doc'.content) /\ Took(r.act, doc.content, doc'.content) /\ Fit(doc', r.act) /\ SureAct(r.act)
    BY <1>2, <1>3 DEF Outcome
<1>5. \A l : Makes(r.act, l) <=> Makes(a, l)
    BY <1>2, <1>3 DEF Outcome
<1>6. Became(doc, doc', doc'.content) /\ Shaped(doc')
    BY <1>4 DEF Became, Grown
<1>7. \A l \in Layers, j \in 0..Len(done) : Makes(r.act, l) => ~Placed(past[j], l)
    BY <1>1, <1>5 DEF PastOk
<1>8. PastOk(done', More(past, Len(done), doc'.content), doc')
    <2>1. SeenAs(Visible(doc), doc.content)
        BY VisibleSame
    <2>2. QED
        BY <1>1, <1>2, <1>4, <1>6, <1>7, <2>1, PastMore
<1>9. IsSeq(done) /\ Len(done) \in 0..Len(done) /\ past[Len(done)] = doc.content
    <2>1. IsSeq(done) /\ past[Len(done)] = doc.content
        BY <1>1 DEF PastOk
    <2>2. Len(done) \in Nat
        BY <2>1, SeqIff
    <2>3. QED
        BY <2>1, <2>2
<1>10. ASSUME NEW i \in 1..Len(undone), NEW l \in Layers, Makes(undone[i], l)
       PROVE  ~Placed(doc'.content, l)
    <2>1. ~Placed(doc.content, l)
        BY <1>1, <1>9, <1>10 DEF Apart
    <2>2. ~Makes(r.act, l)
        BY <1>1, <1>5, <1>10 DEF AheadOk
    <2>3. QED
        BY <1>4, <2>1, <2>2 DEF Took
<1>11. AheadOk(undone', promise', Unmoved(doc'.content), doc')
    BY <1>1, <1>2, <1>6, <1>10, AheadNone
<1>12. Apart(done', More(past, Len(done), doc'.content), undone')
    BY <1>1, <1>2, <1>9, <1>10, ApartMore
<1>13. QED
    BY <1>6, <1>8, <1>11, <1>12 DEF LInv

\* What is undone is seen as it was before, or nothing at all has changed about the layers.
UndoBack ==
    Undo => IF Len(done') < Len(done) THEN Visible(doc').content = Last(done).before.content
            ELSE doc'.content = doc.content /\ done' = done /\ undone' = undone

\* The last is undone, or all of it is as it was.
LEMMA UndoKeeps ==
    ASSUME LInv, Undo, Ended(doc')
    PROVE  LInv' /\ UndoBack
<1>1. PICK past, ahead : PastOk(done, past, doc) /\ AheadOk(undone, promise, ahead, doc) /\ Apart(done, past, undone)
    BY DEF LInv
<1> DEFINE n == Len(done)
           a == done[n].act
           r == UndoAct(Last(done).act, doc)
<1>2. done # <<>> /\ doc' = r.doc
    BY DEF Undo, Settled
<1>3. IsSeq(done) /\ n \in Nat /\ n >= 1 /\ IsSeq(undone)
    <2>1. IsSeq(done) /\ IsSeq(undone)
        BY <1>1 DEF PastOk, AheadOk
    <2>2. QED
        BY <1>2, <2>1, SeqIff, TailIs
<1>4. Last(done).act = a
    BY DEF Last
<1>5. /\ done[n] = [act |-> a, before |-> done[n].before, fresh |-> done[n].fresh]
      /\ Took(a, past[n - 1], doc.content) /\ Fit(doc, a)
      /\ past[n] = doc.content
      /\ SeenAs(done[n].before, past[n - 1])
    <2>1. n \in 1..Len(done)
        BY <1>3
    <2>2. QED
        BY <1>1, <2>1 DEF PastOk
<1>6. /\ r.act = a
      /\ r.ok \in BOOLEAN
      /\ r.ok <=> SureAct(a)
      /\ Became(doc, doc', IF SureAct(a) THEN past[n - 1] ELSE doc.content)
    <2>1. Undoes(a, past[n - 1], doc.content) /\ Shaped(doc)
        BY <1>5 DEF Took, LInv
    <2> HIDE DEF a, n
    <2>2. /\ UndoAct(a, doc).act = a
          /\ UndoAct(a, doc).ok \in BOOLEAN
          /\ UndoAct(a, doc).ok <=> SureAct(a)
          /\ Became(doc, UndoAct(a, doc).doc, IF SureAct(a) THEN past[n - 1] ELSE doc.content)
        BY <2>1, Zenon DEF Undoes
    <2>3. QED
        BY <1>2, <1>4, <2>2
<1>7. CASE r.ok
    <2>1. done' = Front(done) /\ undone' = <<a>> \o undone /\ promise' = <<Visible(doc)>> \o promise
        BY <1>6, <1>7 DEF Undo
    <2>2. Became(doc, doc', past[n - 1]) /\ SureAct(a)
        BY <1>6, <1>7
    <2>3. doc'.content = past[n - 1] /\ Shaped(doc')
        BY <2>2 DEF Became
    <2>4. PastOk(done', Less(past, n), doc')
        BY <1>1, <1>2, <2>1, <2>2, PastLess
    <2>5. Apart(done', Less(past, n), undone')
        BY <1>1, <1>2, <1>3, <2>1, ApartUndone
    <2>6. \A l \in Layers : Makes(a, l) => doc.canvas[l] # NoCanvas
        BY <1>5, PlacedKnown DEF LInv, Took
    <2>7. \A i \in 1..Len(undone), l \in Layers : Makes(undone[i], l) => ~Placed(doc'.content, l)
        <3>1. n - 1 \in 0..Len(done)
            BY <1>3
        <3>2. QED
            BY <1>1, <2>3, <3>1 DEF Apart
    <2>8. Fit(doc', a)
        BY <1>5, <2>2, FitOn DEF Became
    <2>9. AheadOk(undone', promise', Before(ahead, Len(promise), doc'.content), doc')
        <3>1. Became(doc, doc', doc'.content) /\ Took(a, doc'.content, doc.content) /\ SeenAs(Visible(doc), doc.content)
            BY <1>5, <2>2, <2>3, VisibleSame
        <3> HIDE DEF a, n
        <3>2. QED
            BY <1>1, <2>1, <2>2, <2>6, <2>7, <2>8, <3>1, AheadMore
    <2>10. Visible(doc').content = Last(done).before.content /\ Len(done') < Len(done)
        <3>1. Last(done) = done[n] /\ Len(done') = n - 1
            BY <1>1, <1>2, <2>1, <2>2, PastLess
        <3>2. Visible(doc').content = done[n].before.content
            BY <1>5, <2>3 DEF SeenAs
        <3>3. n - 1 < n
            BY <1>3
        <3>4. QED
            BY <3>1, <3>2, <3>3
    <2>11. QED
        BY <2>3, <2>4, <2>5, <2>9, <2>10 DEF LInv, UndoBack
<1>8. CASE ~r.ok
    <2>1. done' = [done EXCEPT ![n].act = a] /\ undone' = undone /\ promise' = promise
        BY <1>6, <1>8 DEF Undo
    <2>2. done' = done
        <3>1. n \in 1..Len(done)
            BY <1>3
        <3>2. [done[n] EXCEPT !.act = a] = done[n]
            BY <1>5
        <3>3. done' = [done EXCEPT ![n] = [done[n] EXCEPT !.act = a]]
            BY <2>1
        <3> HIDE DEF a, n
        <3>4. [done EXCEPT ![n] = done[n]] = done
            BY <1>3, <3>1, SameThere
        <3>5. QED
            BY <3>2, <3>3, <3>4
    <2>3. Became(doc, doc', doc.content)
        BY <1>6, <1>8
    <2>4. PastOk(done', past, doc') /\ AheadOk(undone', promise', ahead, doc') /\ Apart(done', past, undone')
        BY <1>1, <2>1, <2>2, <2>3, PastStays, AheadStays
    <2>5. UndoBack
        <3>1. ~(n < n) /\ doc'.content = doc.content
            BY <1>3, <2>3 DEF Became
        <3>2. QED
            BY <2>1, <2>2, <3>1 DEF UndoBack
    <2>6. QED
        BY <2>3, <2>4, <2>5 DEF LInv, Became
<1>9. QED
    BY <1>6, <1>7, <1>8

\* What was undone is done again where it was.
DidAgain(d, a, r, y) ==
    /\ r.ok \in BOOLEAN
    /\ Took(r.act, d.content, y) /\ SureAct(r.act) /\ Fit(r.doc, r.act)
    /\ \A l : Makes(r.act, l) <=> Makes(a, l)
    /\ r.ok => Became(d, r.doc, y)
    /\ ~r.ok => Became(d, r.doc, d.content)

\* An action redone where it was undone does what it did, or leaves the canvases as they were.
LEMMA RedoThere ==
    ASSUME NEW d, Shaped(d), NEW a, NEW y, Took(a, d.content, y), SureAct(a), Fit(d, a)
    PROVE  DidAgain(d, a, Perform(a, d), y)
<1>1. CASE IsSetting(a) /\ d.content = y
    <2>1. a.name \notin Supers
        BY <1>1 DEF IsSetting, SetNamesOfActions, Supers
    <2>2. /\ PerformOne(a, d).ok \in BOOLEAN
          /\ SameLayout(d, PerformOne(a, d).doc)
          /\ IsSetting(PerformOne(a, d).act)
        BY <1>1, SettingActs
    <2> DEFINE r == Perform(a, d)
    <2>3. r = PerformOne(a, d)
        BY <2>1 DEF Perform
    <2> HIDE DEF r
    <2>4. r.ok \in BOOLEAN /\ SameLayout(d, r.doc) /\ IsSetting(r.act)
        BY <2>2, <2>3
    <2>5. Became(d, r.doc, d.content) /\ d.content \in Contents
        BY <2>4, LayoutBecame DEF Shaped
    <2>6. Took(r.act, d.content, d.content) /\ SureAct(r.act) /\ (\A l : ~Makes(r.act, l)) /\ \A l : ~Makes(a, l)
        BY <1>1, <2>4, <2>5, SettingTook
    <2>7. Fit(r.doc, r.act)
        BY <2>4 DEF Fit
    <2>8. DidAgain(d, a, r, y)
        BY <1>1, <2>4, <2>5, <2>6, <2>7 DEF DidAgain
    <2>9. QED
        BY <2>8 DEF r
<1>2. CASE Redoes(a, d.content, y)
    <2> DEFINE r == Perform(a, d)
    <2>1. RedidTo(d, a, r, y)
        BY <1>2, Zenon DEF Redoes
    <2> HIDE DEF r
    <2>2. r.ok = TRUE /\ r.act = a /\ Became(d, r.doc, y)
        BY <2>1 DEF RedidTo
    <2>3. Fit(r.doc, a)
        BY <2>2, FitOn DEF Became
    <2>4. DidAgain(d, a, r, y)
        BY <2>2, <2>3 DEF DidAgain
    <2>5. QED
        BY <2>4 DEF r
<1>3. QED
    BY <1>1, <1>2 DEF Took

\* What is done again where it was undone is seen as it was after it; what cannot be done again
\* has changed nothing about the layers.
RedoAgain ==
    Redo /\ ~RemovesSeveral =>
        IF Len(done') > Len(done) THEN promise # <<>> => Visible(doc').content = promise[1].content
        ELSE doc'.content = doc.content /\ done' = done

\* What was undone is done again.
LEMMA RedoKeeps ==
    ASSUME LInv, Redo, ~RemovesSeveral, Ended(doc')
    PROVE  LInv' /\ RedoAgain
<1>1. PICK past, ahead : PastOk(done, past, doc) /\ AheadOk(undone, promise, ahead, doc) /\ Apart(done, past, undone)
    BY DEF LInv
<1> DEFINE n == Len(done)
           m == Len(promise)
           a == undone[1]
           r == Perform(Head(undone), doc)
<1>2. undone # <<>> /\ doc' = r.doc
    BY DEF Redo, Settled
<1>3. IsSeq(done) /\ n \in Nat /\ IsSeq(undone) /\ Len(undone) \in Nat /\ Len(undone) >= 1 /\ Head(undone) = a
      /\ IsSeq(promise) /\ m \in Nat
    <2>1. IsSeq(done) /\ IsSeq(undone) /\ IsSeq(promise)
        BY <1>1 DEF PastOk, AheadOk
    <2>2. QED
        BY <1>2, <2>1, SeqIff, TailIs
<1>4. 1 \in 1..Len(undone) /\ n \in 0..n
    BY <1>3
<1>5. Shaped(doc) /\ Ended(doc) /\ Fit(doc, a) /\ past[n] = doc.content
    BY <1>1, <1>4 DEF LInv, AheadOk, PastOk
<1>6. r = Perform(a, doc)
    BY <1>3
<1>7. \A l \in Layers, j \in 0..n : Makes(a, l) => ~Placed(past[j], l)
    BY <1>1, <1>4 DEF Apart
<1>8. \A l : Makes(a, l) => l \in Layers
    BY <1>1, <1>4 DEF AheadOk
<1>0. \A e : Len(Append(done, e)) = n + 1 /\ n + 1 > n /\ ~(n > n)
    BY <1>3, AppendIs
\* What comes of it.
<1>9. CASE promise # <<>>
    <2>1. m >= 1 /\ 1 \in 1..m /\ 1 \in 0..m
        BY <1>3, <1>9, TailIs
    <2>2. Took(a, doc.content, ahead[1]) /\ SureAct(a) /\ ahead[0] = doc.content
        <3>1. 1 - 1 = 0
            OBVIOUS
        <3>2. QED
            BY <1>1, <2>1, <3>1 DEF AheadOk
    <2>3. DidAgain(doc, a, r, ahead[1])
        BY <1>5, <1>6, <2>2, RedoThere
    <2> HIDE DEF r
    <2>4. CASE r.ok
        <3>1. /\ done' = Append(done, Entry(r.act, Visible(doc), TRUE))
              /\ undone' = Tail(undone) /\ promise' = Tail(promise)
            BY <1>9, <2>4 DEF Redo, r, Entry
        <3>2. Became(doc, doc', ahead[1]) /\ Took(r.act, doc.content, ahead[1]) /\ SureAct(r.act) /\ Fit(doc', r.act)
            BY <1>2, <2>3, <2>4 DEF DidAgain
        <3>3. doc'.content = ahead[1] /\ Became(doc, doc', doc'.content) /\ Shaped(doc')
            BY <3>2 DEF Became
        <3>4. \A l \in Layers, j \in 0..n : Makes(r.act, l) => ~Placed(past[j], l)
            BY <1>7, <2>3 DEF DidAgain
        <3>5. PastOk(done', More(past, n, doc'.content), doc')
            BY <1>1, <3>1, <3>2, <3>3, <3>4, PastMore, VisibleSame
        <3>6. AheadOk(undone', promise', After(ahead, m), doc')
            BY <1>1, <1>9, <3>1, <3>2, AheadLess
        <3>7. Apart(done', More(past, n, doc'.content), undone')
            <4> DEFINE s == Tail(undone)
            <4>1. Apart(done, past, s)
                BY <1>1, <1>2, <1>3, ApartTail
            <4>2. Len(s) = Len(undone) - 1 /\ \A i \in 1..(Len(undone) - 1) : s[i] = undone[i + 1]
                BY <1>2, <1>3, TailIs
            <4> HIDE DEF s, m
            <4>3. \A i \in 1..Len(s), l \in Layers : Makes(s[i], l) => ~Placed(doc'.content, l)
                <5>1. \A i \in 1..Len(s) : s[i] = undone[i + 1] /\ i + 1 \in 1..Len(undone) /\ 1 < i + 1
                    BY <1>3, <4>2
                <5>2. \A i \in 1..Len(undone), l \in Layers : 1 < i /\ Makes(undone[i], l) => ~Placed(ahead[1], l)
                    BY <1>1, <2>1 DEF AheadOk, m
                <5>3. QED
                    BY <3>3, <5>1, <5>2
            <4>4. Apart(Append(done, Entry(r.act, Visible(doc), TRUE)), More(past, n, doc'.content), s)
                BY <1>3, <4>1, <4>3, ApartMore
            <4>5. QED
                BY <3>1, <4>4 DEF s
        <3>8. RedoAgain
            <4>1. SeenAs(promise[1], ahead[1])
                BY <1>1, <2>1 DEF AheadOk
            <4>2. Visible(doc').content = promise[1].content
                BY <3>3, <4>1 DEF SeenAs
            <4>3. Len(done') > Len(done)
                BY <1>0, <3>1
            <4>4. QED
                BY <4>2, <4>3 DEF RedoAgain
        <3>9. QED
            BY <3>3, <3>5, <3>6, <3>7, <3>8 DEF LInv
    <2>5. CASE ~r.ok
        <3>1. undone' = [undone EXCEPT ![1] = r.act] /\ done' = done /\ promise' = promise
            BY <2>5 DEF Redo, r
        <3>2. Became(doc, doc', doc.content) /\ Fit(doc', r.act) /\ Took(r.act, ahead[0], ahead[1]) /\ SureAct(r.act)
            BY <1>2, <2>2, <2>3, <2>5 DEF DidAgain
        <3>3. \A l : Makes(r.act, l) <=> Makes(undone[1], l)
            BY <2>3 DEF DidAgain
        <3>4. AheadOk(undone', promise', ahead, doc')
            BY <1>1, <1>2, <3>1, <3>2, <3>3, AheadChanged
        <3>5. Apart(done', past, undone')
            BY <1>1, <1>2, <1>3, <3>1, <3>3, ApartChanged
        <3>6. PastOk(done', past, doc')
            BY <1>1, <3>1, <3>2, PastStays
        <3>7. RedoAgain
            BY <1>0, <3>1, <3>2 DEF RedoAgain, Became
        <3>8. QED
            BY <3>2, <3>4, <3>5, <3>6, <3>7 DEF LInv, Became
    <2>6. QED
        BY <2>3, <2>4, <2>5 DEF DidAgain
<1>10. CASE promise = <<>>
    <2>1. Alone(a) /\ Possible(doc, a)
        <3>1. ASSUME IsRemove(a)
              PROVE  Len(a.layers) = 1 /\ \E s \in Canvases : \A i \in 1..Len(a.layers) : doc.canvas[a.layers[i]] = s
            <4>1. a.name = "LayerRemove" /\ a.layers \in Seq(Layers)
                BY <3>1 DEF IsRemove
            <4>2. a.name \notin {"LayerAdd", "LayerMove", "LayerRaise", "LayerLower"} /\ a.name \notin Founders /\ ~IsSetting(a)
                BY <4>1 DEF Founders, IsSetting, SetNamesOfActions
            <4>3. Len(a.layers) >= 1 /\ doc.canvas[a.layers[1]] # NoCanvas
                <5>1. Len(a.layers) >= 1 /\ \A i \in 1..Len(a.layers) : doc.canvas[a.layers[i]] # NoCanvas
                    BY <1>5, <4>2 DEF Fit, IsAdd, IsMove, IsShifting, Founds
                <5>2. 1 \in 1..Len(a.layers)
                    BY <4>1, <5>1
                <5>3. QED
                    BY <5>1, <5>2
            <4>4. ~(Len(a.layers) > 1)
                BY <1>2, <1>3, <1>10, <4>1 DEF RemovesSeveral
            <4>5. Len(a.layers) = 1
                <5>1. Len(a.layers) \in Nat
                    BY <4>1
                <5> DEFINE k == Len(a.layers)
                <5>2. k \in Nat /\ k >= 1 /\ ~(k > 1)
                    BY <4>3, <4>4, <5>1
                <5> HIDE DEF k, a
                <5>3. k = 1
                    BY <5>2
                <5>4. QED
                    BY <5>3 DEF k
            <4>6. a.layers[1] \in Layers
                BY <4>1, <4>5
            <4>7. doc.canvas[a.layers[1]] \in Canvases
                BY <1>5, <4>3, <4>6 DEF Shaped
            <4>8. \A i \in 1..Len(a.layers) : i = 1
                BY <4>5
            <4>9. QED
                BY <4>5, <4>7, <4>8
        <3>2. \A l : Makes(a, l) => ~Placed(doc.content, l)
            BY <1>4, <1>5, <1>7, <1>8
        <3>3. QED
            BY <1>5, <3>1, <3>2 DEF Alone, Possible
    <2>2. Outcome(doc, a, r)
        BY <1>5, <1>6, <2>1, EndedLast, PerformActs
    <2> HIDE DEF r
    <2>3. /\ r.ok \in BOOLEAN
          /\ Fit(doc', r.act)
          /\ \A l : Makes(r.act, l) <=> Makes(a, l)
        BY <1>2, <2>1, <2>2 DEF Outcome
    <2>4. CASE r.ok
        <3>1. /\ done' = Append(done, Entry(r.act, Visible(doc), FALSE))
              /\ undone' = Tail(undone) /\ promise' = <<>>
            BY <1>10, <2>4 DEF Redo, r, Entry
        <3>2. Took(r.act, doc.content, doc'.content) /\ Became(doc, doc', doc'.content)
            BY <1>2, <2>2, <2>4 DEF Outcome
        <3>3. \A l \in Layers, j \in 0..n : Makes(r.act, l) => ~Placed(past[j], l)
            BY <1>7, <2>3
        <3>4. PastOk(done', More(past, n, doc'.content), doc')
            BY <1>1, <2>3, <3>1, <3>2, <3>3, PastMore, VisibleSame
        <3>5. ASSUME NEW i \in 2..Len(undone), NEW l \in Layers, Makes(undone[i], l)
              PROVE  ~Placed(doc'.content, l)
            <4>1. i \in 1..Len(undone) /\ i # 1
                BY <1>3
            <4>2. ~Placed(doc.content, l)
                BY <1>1, <1>4, <1>5, <3>5, <4>1 DEF Apart
            <4>3. ~Makes(a, l)
                BY <1>1, <1>4, <3>5, <4>1 DEF AheadOk
            <4>4. QED
                BY <2>3, <3>2, <4>2, <4>3 DEF Took
        <3>6. AheadOk(undone', promise', Unmoved(doc'.content), doc')
            BY <1>1, <1>2, <1>10, <3>1, <3>2, <3>5, AheadRest
        <3>7. Apart(done', More(past, n, doc'.content), undone')
            <4> DEFINE s == Tail(undone)
            <4>1. Apart(done, past, s)
                BY <1>1, <1>2, <1>3, ApartTail
            <4>2. Len(s) = Len(undone) - 1 /\ \A i \in 1..(Len(undone) - 1) : s[i] = undone[i + 1]
                BY <1>2, <1>3, TailIs
            <4> HIDE DEF s, m
            <4>3. \A i \in 1..Len(s), l \in Layers : Makes(s[i], l) => ~Placed(doc'.content, l)
                <5>1. \A i \in 1..Len(s) : s[i] = undone[i + 1] /\ i + 1 \in 2..Len(undone)
                    BY <1>3, <4>2
                <5>2. QED
                    BY <3>5, <5>1
            <4>4. Apart(Append(done, Entry(r.act, Visible(doc), FALSE)), More(past, n, doc'.content), s)
                BY <1>3, <4>1, <4>3, ApartMore
            <4>5. QED
                BY <3>1, <4>4 DEF s
        <3>8. RedoAgain
            BY <1>0, <1>10, <3>1 DEF RedoAgain
        <3>9. QED
            BY <3>2, <3>4, <3>6, <3>7, <3>8 DEF LInv, Became
    <2>5. CASE ~r.ok
        <3>1. undone' = [undone EXCEPT ![1] = r.act] /\ done' = done /\ promise' = promise
            BY <2>5 DEF Redo, r
        <3>2. Became(doc, doc', doc.content)
            BY <1>2, <2>1, <2>2, <2>5 DEF Outcome
        <3>3. AheadOk(undone', promise', ahead, doc')
            BY <1>1, <1>2, <1>10, <2>3, <3>1, <3>2, AheadChanged
        <3>4. Apart(done', past, undone')
            BY <1>1, <1>2, <1>3, <2>3, <3>1, ApartChanged
        <3>5. PastOk(done', past, doc')
            BY <1>1, <3>1, <3>2, PastStays
        <3>6. RedoAgain
            BY <1>0, <3>1, <3>2 DEF RedoAgain, Became
        <3>7. QED
            BY <3>2, <3>3, <3>4, <3>5, <3>6 DEF LInv, Became
    <2>6. QED
        BY <2>3, <2>4, <2>5
<1>11. QED
    BY <1>9, <1>10

-----------------------------------------------------------------------------
(***************************************************************************)
(* What the user does.                                                     *)
(***************************************************************************)

\* What is seen is in canvases.
LEMMA OpenCanvases ==
    ASSUME NEW d
    PROVE  Open(d) \subseteq Canvases
<1> DEFINE n == Cardinality(GroupLayers)
<1>1. n \in Nat
    <2>1. IsFiniteSet(GroupLayers)
        BY LayersAssumption, FS_Subset
    <2>2. QED
        BY <2>1, FS_CardinalityType
<1>2. PICK f : OpenRun(d, n, f) /\ Open(d) = f[n]
    BY <1>1, OpenIs
<1> HIDE DEF n
<1> DEFINE S == {i \in 0..n : ~(f[i] \subseteq Canvases)}
<1>3. S = {}
    <2> SUFFICES ASSUME S # {} PROVE FALSE
        OBVIOUS
    <2>1. PICK i \in S : \A j \in S : i <= j
        <3>1. S \in SUBSET Nat
            OBVIOUS
        <3>2. QED
            BY <3>1, LeastExists
    <2>2. /\ i \in 0..n /\ ~(f[i] \subseteq Canvases)
          /\ f[i] = IF i = 0 THEN {Root} ELSE OpenStep(d, i, f[i - 1])
        BY <1>2, <2>1 DEF OpenRun
    <2>3. CASE i = 0
        BY <2>2, <2>3 DEF Canvases
    <2>4. CASE i # 0
        <3>1. i - 1 \in 0..n /\ ~(i <= i - 1)
            BY <1>1, <2>2, <2>4
        <3>2. f[i - 1] \subseteq Canvases
            BY <2>1, <3>1
        <3>3. f[i] = f[i - 1] \union {Sub[l] : l \in {m \in GroupLayers : \E c \in f[i - 1] : Found(d, c, m)}}
            BY <2>2, <2>4 DEF OpenStep
        <3>4. QED
            BY <2>2, <3>2, <3>3 DEF Canvases, Inline
    <2>5. QED
        BY <2>3, <2>4
<1>4. n \in 0..n
    BY <1>1
<1>5. QED
    BY <1>2, <1>3, <1>4

\* A layer that is seen is in the canvas it remembers.
LEMMA ShownIs ==
    ASSUME NEW d, Shaped(d), NEW l \in Shown(d)
    PROVE  /\ l \in Layers /\ Placed(d.content, l)
           /\ d.canvas[l] \in Canvases /\ d.canvas[l] # NoCanvas
           /\ Found(d, d.canvas[l], l)
           /\ Index(d, d.canvas[l], l) \in Nat
<1>1. l \in Layers /\ \E c \in Open(d) : Found(d, c, l)
    BY DEF Shown
<1>2. Placed(d.content, l)
    BY <1>1, OpenCanvases, FoundIs DEF Placed
<1>3. d.canvas[l] \in Canvases /\ d.canvas[l] # NoCanvas /\ l \in Range(d.content[d.canvas[l]])
    BY <1>1, <1>2, PlacedKnown
<1>4. Index(d, d.canvas[l], l) \in Nat
    <2>1. d.content \in Contents
        BY DEF Shaped
    <2>2. Pos(d.content, d.canvas[l], l) \in 0..(Len(d.content[d.canvas[l]]) - 1)
        BY <1>1, <1>3, <2>1, PosIs
    <2>3. QED
        BY <2>2, IndexIs
<1>5. QED
    BY <1>1, <1>2, <1>3, <1>4, FoundIs

\* What is selected is in one canvas.
LEMMA SelectedIs ==
    ASSUME Shaped(doc), NEW s \in Selections, Selected(s)
    PROVE  /\ s \in Seq(Layers) /\ Len(s) \in Nat /\ Len(s) >= 1
           /\ doc.canvas[s[1]] \in Canvases /\ doc.canvas[s[1]] # NoCanvas
           /\ \A i \in 1..Len(s) : s[i] \in Shown(doc) /\ s[i] \in Layers /\ doc.canvas[s[i]] = doc.canvas[s[1]]
           /\ Range(s) \subseteq Shown(doc) /\ \A l \in Range(s) : doc.canvas[l] = doc.canvas[s[1]]
<1>1. s \in Seq(Layers) /\ s # <<>>
    BY StartAssumption
<1>2. Len(s) \in Nat /\ Len(s) >= 1
    BY <1>1
<1>3. Range(s) \subseteq Shown(doc) /\ \A l \in Range(s) : doc.canvas[l] = doc.canvas[s[1]]
    BY DEF Selected
<1>4. \A i \in 1..Len(s) : s[i] \in Range(s)
    BY <1>1, RangeIff
<1>5. 1 \in 1..Len(s)
    BY <1>2
<1>6. s[1] \in Shown(doc)
    BY <1>3, <1>4, <1>5
<1>7. doc.canvas[s[1]] \in Canvases /\ doc.canvas[s[1]] # NoCanvas
    BY <1>6, ShownIs
<1>8. \A i \in 1..Len(s) : s[i] \in Layers
    BY <1>1
<1>9. QED
    BY <1>1, <1>2, <1>3, <1>4, <1>7, <1>8

\* A layer that is new is in no canvas.
LEMMA NewIs ==
    ASSUME Shaped(doc), NEW l \in Layers, New(l)
    PROVE  ~Placed(doc.content, l) /\ l \notin Shown(doc)
BY PlacedKnown, ShownIs DEF New

\* The start.
LEMMA InitLInv ==
    ASSUME Init
    PROVE  LInv
<1>1. doc = StartDoc /\ done = <<>> /\ undone = <<>> /\ promise = <<>> /\ Loaded(doc)
    BY StartAssumption DEF Init
<1>2. Shaped(doc) /\ Ended(doc)
    <2>1. /\ DOMAIN doc = {"content", "canvas", "parent", "group", "db"}
          /\ doc.content \in [Canvases -> Seq(Layers \union {Blank})]
          /\ doc.canvas \in [Layers -> Canvases \union {NoCanvas}]
          /\ doc.parent \in [Canvases -> Canvases \union {NoCanvas}]
        BY <1>1 DEF Loaded, DocumentType
    <2>2. doc.content \in Contents
        <3>1. \A c \in Canvases : Blank \in Range(doc.content[c])
            BY <1>1, FoundIs DEF Loaded
        <3>2. Once(doc.content)
            BY <1>1 DEF Loaded
        <3>3. QED
            BY <2>1, <3>1, <3>2 DEF Contents
    <2>3. QED
        BY <1>1, <2>1, <2>2 DEF Loaded, Shaped, IsDoc
<1> DEFINE w == Unmoved(doc.content)
<1>3. w \in [0..0 -> Contents] /\ \A j \in 0..0 : w[j] = doc.content
    BY <1>2 DEF Unmoved, Shaped
<1> HIDE DEF w
<1>4. IsSeq(<<>>) /\ Len(<<>>) = 0 /\ 1..0 = {} /\ 0 \in 0..0
    BY DEF IsSeq
<1>5. \A j \in 0..0, l \in Layers : Placed(w[j], l) => doc.canvas[l] # NoCanvas
    BY <1>2, <1>3, PlacedKnown
<1>6. PastOk(<<>>, w, doc)
    <2>1. w \in [0..Len(<<>>) -> Contents] /\ w[Len(<<>>)] = doc.content
        BY <1>3, <1>4
    <2>2. \A k : k \notin 1..Len(<<>>)
        BY <1>4
    <2>3. \A j \in 0..Len(<<>>), l \in Layers : Placed(w[j], l) => doc.canvas[l] # NoCanvas
        BY <1>4, <1>5
    <2>4. QED
        BY <1>4, <2>1, <2>2, <2>3 DEF PastOk
<1>7. AheadOk(<<>>, <<>>, w, doc)
    <2>1. w \in [0..Len(<<>>) -> Contents] /\ w[0] = doc.content /\ Len(<<>>) <= Len(<<>>)
        BY <1>3, <1>4
    <2>2. \A k : k \notin 1..Len(<<>>)
        BY <1>4
    <2>3. QED
        BY <1>4, <2>1, <2>2 DEF AheadOk
<1>8. Apart(<<>>, w, <<>>)
    BY <1>4 DEF Apart
<1>9. QED
    BY <1>1, <1>2, <1>6, <1>7, <1>8 DEF LInv

\* A layer is added.
LEMMA AddKeeps ==
    ASSUME LInv, Add, Ended(doc')
    PROVE  LInv'
<1>1. PICK l \in {m \in Layers \ GroupLayers : New(m)}, c \in Open(doc) : Do(LayerAdd(c, l), doc)
    BY DEF Add
<1> DEFINE a == LayerAdd(c, l)
<1>2. l \in Layers /\ New(l) /\ c \in Canvases /\ Shaped(doc)
    BY <1>1, OpenCanvases DEF LInv
<1>3. IsAdd(a) /\ a.layer = l /\ a.name = "LayerAdd"
    BY <1>2 DEF IsAdd, LayerAdd
<1> HIDE DEF a
<1>4. ~IsRemove(a) /\ ~IsMove(a) /\ ~IsShifting(a) /\ a.name \notin Founders
    BY <1>3 DEF IsRemove, IsMove, IsShifting, Founders
<1>5. \A m : Makes(a, m) <=> m = l
    BY <1>3, <1>4 DEF Makes
<1>6. Possible(doc, a) /\ Home(doc, a)
    BY <1>2, <1>3, <1>4, <1>5, NewIs DEF Possible, Home, Fit
<1>7. Do(a, doc)
    BY <1>1 DEF a
<1>8. \A m \in Layers : Makes(a, m) => doc.canvas[m] = NoCanvas
    BY <1>2, <1>5 DEF New
<1>9. QED
    BY <1>2, <1>6, <1>7, <1>8, DoKeeps

\* Layers are removed.
LEMMA RemoveLayersKeeps ==
    ASSUME LInv, RemoveLayers, Ended(doc')
    PROVE  LInv'
<1>1. PICK s \in Selections : Selected(s) /\ Do(LayerRemove(doc.canvas[s[1]], s), doc)
    BY DEF RemoveLayers
<1> DEFINE a == LayerRemove(doc.canvas[s[1]], s)
           c == doc.canvas[s[1]]
<1>2. /\ Shaped(doc) /\ s \in Seq(Layers) /\ Len(s) \in Nat /\ Len(s) >= 1 /\ c \in Canvases /\ c # NoCanvas
      /\ \A i \in 1..Len(s) : s[i] \in Layers /\ doc.canvas[s[i]] = c
    BY <1>1, SelectedIs DEF LInv
<1>3. IsRemove(a) /\ a.layers = s /\ a.name = "LayerRemove"
    <2>1. DOMAIN s = 1..Len(s)
        BY <1>2
    <2>2. [i \in DOMAIN s |-> 0] \in [1..Len(s) -> Nat]
        BY <2>1
    <2>3. QED
        BY <1>2, <2>2 DEF IsRemove, LayerRemove
<1> HIDE DEF a
<1>4. ~IsMove(a) /\ ~IsShifting(a) /\ a.name \notin Founders /\ a.name # "LayerAdd"
    BY <1>3 DEF IsMove, IsShifting, Founders
<1>5. \A m : ~Makes(a, m)
    BY <1>4 DEF Makes
<1>6. Possible(doc, a) /\ Home(doc, a)
    BY <1>2, <1>3, <1>4, <1>5 DEF Possible, Home, Fit
<1>7. Do(a, doc)
    BY <1>1 DEF a
<1>8. QED
    BY <1>2, <1>5, <1>6, <1>7, DoKeeps

\* A layer is dragged.
LEMMA DragKeeps ==
    ASSUME LInv, Drag, Ended(doc')
    PROVE  LInv'
<1>1. PICK l \in Shown(doc), c \in Open(doc) :
        \E i \in 0..(IF c = doc.canvas[l] THEN Size(doc, c) - 1 ELSE Size(doc, c)) : Do(LayerMove(c, l, c, i), doc)
    BY DEF Drag
<1>2. PICK i \in Nat : Do(LayerMove(c, l, c, i), doc)
    <2> DEFINE n == IF c = doc.canvas[l] THEN Size(doc, c) - 1 ELSE Size(doc, c)
    <2>1. n \in Int
        <3>1. doc.content \in Contents /\ c \in Canvases
            BY OpenCanvases DEF LInv, Shaped
        <3>2. Len(doc.content[c]) \in Nat
            BY <3>1, ContentOf
        <3>3. QED
            BY <3>2 DEF Size
    <2>2. \E i \in 0..n : Do(LayerMove(c, l, c, i), doc)
        BY <1>1
    <2> HIDE DEF n
    <2>3. \A i \in 0..n : i \in Nat
        BY <2>1
    <2>4. QED
        BY <2>2, <2>3
<1> DEFINE a == LayerMove(c, l, c, i)
<1>3. l \in Layers /\ doc.canvas[l] # NoCanvas /\ c \in Canvases /\ Shaped(doc)
    BY OpenCanvases, ShownIs DEF LInv
<1>4. IsMove(a) /\ a.layer = l /\ a.name = "LayerMove" /\ a.dest = a.canvas
    BY <1>3 DEF IsMove, LayerMove
<1> HIDE DEF a
<1>5. ~IsRemove(a) /\ ~IsShifting(a) /\ a.name \notin Founders /\ a.name # "LayerAdd"
    BY <1>4 DEF IsRemove, IsShifting, Founders
<1>6. \A m : ~Makes(a, m)
    BY <1>5 DEF Makes
<1>7. Possible(doc, a) /\ Home(doc, a)
    BY <1>3, <1>4, <1>5, <1>6 DEF Possible, Home, Fit
<1>8. Do(a, doc)
    BY <1>2 DEF a
<1>9. QED
    BY <1>3, <1>6, <1>7, <1>8, DoKeeps

\* Layers are raised or lowered.
LEMMA ShiftKeeps ==
    ASSUME LInv, Raise \/ Lower, Ended(doc')
    PROVE  LInv'
<1>1. PICK s \in Selections, name \in {"LayerRaise", "LayerLower"} :
        Selected(s) /\ Do([name |-> name, canvas |-> doc.canvas[s[1]], layers |-> s, list |-> <<>>], doc)
    BY DEF Raise, Lower, LayerRaise, LayerLower
<1> DEFINE c == doc.canvas[s[1]]
           a == [name |-> name, canvas |-> c, layers |-> s, list |-> <<>>]
<1>2. /\ Shaped(doc) /\ s \in Seq(Layers) /\ c \in Canvases /\ c # NoCanvas
      /\ \A l \in Range(s) : doc.canvas[l] = c
    BY <1>1, SelectedIs DEF LInv
<1>3. IsShifting(a) /\ a.layers = s /\ a.canvas = c /\ a.name = name
    BY <1>2 DEF IsShifting
<1>4. Do(a, doc)
    BY <1>1
<1> HIDE DEF a
<1>5. ~IsRemove(a) /\ ~IsMove(a) /\ a.name \notin Founders /\ a.name # "LayerAdd"
    BY <1>3 DEF IsRemove, IsMove, Founders
<1>6. \A m : ~Makes(a, m)
    BY <1>5 DEF Makes
<1>7. Possible(doc, a) /\ Home(doc, a)
    BY <1>2, <1>3, <1>5, <1>6 DEF Possible, Home, Fit
<1>8. QED
    BY <1>2, <1>4, <1>6, <1>7, DoKeeps

\* Sets are changed.
LEMMA SettingKeeps ==
    ASSUME LInv, AddToSet \/ RemoveFromSet \/ RemoveSet \/ RenameSet, Ended(doc')
    PROVE  LInv'
<1>1. Shaped(doc)
    BY DEF LInv
<1>2. ASSUME NEW a, IsSetting(a), Do(a, doc)
      PROVE  LInv'
    <2>1. ~IsRemove(a) /\ ~IsMove(a) /\ ~IsShifting(a) /\ a.name \notin Founders /\ a.name # "LayerAdd"
        BY <1>2 DEF IsSetting, SetNamesOfActions, IsRemove, IsMove, IsShifting, Founders
    <2>2. \A m : ~Makes(a, m)
        BY <2>1 DEF Makes
    <2>3. Possible(doc, a) /\ Home(doc, a)
        BY <1>2, <2>1, <2>2 DEF Possible, Home, Fit
    <2>4. QED
        BY <1>1, <1>2, <2>2, <2>3, DoKeeps
<1>3. CASE AddToSet
    <2>1. PICK s \in Selections, g \in Groups : Selected(s) /\ Do(GroupAddLayers(s, g), doc)
        BY <1>3 DEF AddToSet
    <2>2. Len(s) \in Nat
        BY <1>1, <2>1, SelectedIs
    <2>3. IsSetting(GroupAddLayers(s, g))
        BY <2>2 DEF IsSetting, GroupAddLayers, SetNamesOfActions
    <2>4. QED
        BY <1>2, <2>1, <2>3
<1>4. CASE RemoveFromSet
    <2>1. PICK s \in Selections : Selected(s) /\ Do(GroupRemoveLayers(s), doc)
        BY <1>4 DEF RemoveFromSet
    <2>2. Len(s) \in Nat
        BY <1>1, <2>1, SelectedIs
    <2>3. IsSetting(GroupRemoveLayers(s))
        BY <2>2 DEF IsSetting, GroupRemoveLayers, SetNamesOfActions
    <2>4. QED
        BY <1>2, <2>1, <2>3
<1>5. CASE RemoveSet
    <2>1. PICK g \in SetNames(doc) : Do(GroupRemove(g), doc)
        BY <1>5 DEF RemoveSet
    <2>2. IsSetting(GroupRemove(g))
        BY FS_EmptySet DEF IsSetting, GroupRemove, SetNamesOfActions
    <2>3. QED
        BY <1>2, <2>1, <2>2
<1>6. CASE RenameSet
    <2>1. PICK g \in SetNames(doc), new \in Groups : Do(GroupRename(g, new), doc)
        BY <1>6 DEF RenameSet
    <2>2. IsSetting(GroupRename(g, new))
        BY DEF IsSetting, GroupRename, SetNamesOfActions
    <2>3. QED
        BY <1>2, <2>1, <2>2
<1>7. QED
    BY <1>3, <1>4, <1>5, <1>6

\* Two in front of others.
LEMMA ConcatTwo ==
    ASSUME NEW f, IsSeq(f), NEW A, NEW B
    PROVE  LET t == <<A, B>> \o f
           IN  IsSeq(t) /\ Len(t) = Len(f) + 2 /\ t[1] = A /\ t[2] = B /\ \A k \in 1..Len(f) : t[k + 2] = f[k]
<1> DEFINE n == Len(f)
           t == <<A, B>> \o f
           T == Range(f) \union {A, B}
<1>1. f \in Seq(T) /\ n \in Nat
    <2>1. f \in Seq(Range(f)) /\ Len(f) \in Nat
        BY SeqIff DEF IsSeq
    <2>2. QED
        BY <2>1
<1>2. <<A, B>> \in Seq(T) /\ Len(<<A, B>>) = 2
    OBVIOUS
<1>3. t \in Seq(T) /\ Len(t) = n + 2 /\ t[1] = A /\ t[2] = B /\ \A k \in 1..n : t[k + 2] = f[k]
    BY <1>1, <1>2
<1> HIDE DEF n, t
<1>4. t = [i \in 1..(n + 2) |-> t[i]]
    BY <1>3
<1>5. IsSeq(t)
    BY <1>1, <1>4, SeqIff
<1>6. QED
    BY <1>3, <1>5 DEF n, t

\* Odd and even.
LEMMA HalvesIs ==
    ASSUME NEW m \in Nat, NEW j \in 1..(2 * m)
    PROVE  /\ (j + 1) \div 2 \in 1..m
           /\ j % 2 # 1 => j - 1 \in 1..(2 * m) /\ (j - 1) % 2 = 1 /\ ((j - 1) + 1) \div 2 = (j + 1) \div 2 /\ j > 1
<1>1. PICK q \in Int : q = j \div 2
    OBVIOUS
<1>2. j % 2 \in {0, 1} /\ j = 2 * q + (j % 2)
    BY <1>1
<1>3. CASE j % 2 = 1
    <2>1. j + 1 = 2 * (q + 1)
        BY <1>2, <1>3
    <2>2. (j + 1) \div 2 = q + 1
        BY <2>1
    <2>3. q + 1 \in 1..m
        BY <2>1
    <2>4. QED
        BY <1>3, <2>2, <2>3
<1>4. CASE j % 2 = 0
    <2>1. j = 2 * q
        BY <1>2, <1>4
    <2>2. (j + 1) \div 2 = q /\ j \div 2 = q /\ (j - 1) + 1 = j
        BY <2>1
    <2>3. q \in 1..m /\ j > 1 /\ j - 1 \in 1..(2 * m)
        BY <2>1
    <2>4. (j - 1) % 2 = 1
        BY <2>1
    <2>5. QED
        BY <1>4, <2>2, <2>3, <2>4
<1>5. QED
    BY <1>2, <1>3, <1>4

\* The least of numbers is one.
LEMMA MinNat ==
    ASSUME NEW S \in SUBSET Nat, S # {}
    PROVE  Min(S) \in Nat
<1>1. PICK i \in S : \A j \in S : i <= j
    BY LeastExists
<1>2. Min(S) \in S
    BY <1>1 DEF Min
<1>3. QED
    BY <1>2

\* What LayerEncapsulate prepares.
LEMMA EncapsulateIs ==
    ASSUME Shaped(doc), NEW s \in Selections, Selected(s), NEW g \in GroupLayers, New(g),
           NEW d, d.canvas = doc.canvas
    PROVE  LET a == LayerEncapsulate(doc, doc.canvas[s[1]], s, g)
           IN  a.name = "LayerEncapsulate" /\ Founds(a) /\ IsFounding(d, a.list, g)
<1> DEFINE c == doc.canvas[s[1]]
           Layer(k) == Reverse(s)[(k + 1) \div 2]
           n == 2 * Len(s)
           top == Min({Index(doc, c, l) : l \in Range(s)})
           A == LayerAdd(c, g)
           B == LayerMove(c, g, NoCanvas, top)
           f == [k \in 1..n |-> IF k % 2 = 1 THEN LayerRemove(c, <<Layer(k)>>) ELSE LayerAdd(Sub[g], Layer(k))]
           L == <<A, B>> \o f
           a == LayerEncapsulate(doc, c, s, g)
<1>0. a = [name |-> "LayerEncapsulate", list |-> L]
    BY DEF LayerEncapsulate
<1>1. /\ s \in Seq(Layers) /\ Len(s) \in Nat /\ Len(s) >= 1
      /\ c \in Canvases /\ c # NoCanvas
      /\ \A i \in 1..Len(s) : s[i] \in Shown(doc) /\ s[i] \in Layers /\ doc.canvas[s[i]] = c
      /\ Range(s) \subseteq Shown(doc) /\ \A l \in Range(s) : doc.canvas[l] = c
    BY SelectedIs
<1>2. g \in Layers /\ g \notin Shown(doc) /\ Sub[g] \in Canvases
    BY LayersAssumption, NewIs DEF Canvases, Inline
<1>3. top \in Nat
    <2> DEFINE S == {Index(doc, c, l) : l \in Range(s)}
    <2>1. S \in SUBSET Nat
        BY <1>1, ShownIs
    <2>2. s[1] \in Range(s)
        BY <1>1, RangeIff
    <2>3. Index(doc, c, s[1]) \in S
        BY <2>2
    <2> HIDE DEF S
    <2>4. Min(S) \in Nat
        BY <2>1, <2>3, MinNat
    <2>5. QED
        BY <2>4 DEF S
<1>4. IsAdd(A) /\ A.layer = g /\ A.canvas = c
    BY <1>1, <1>2 DEF IsAdd, LayerAdd
<1>5. IsMove(B) /\ B.layer = g /\ B.canvas = c /\ B.dest = NoCanvas
    <2> HIDE DEF top, c
    <2>1. QED
        BY <1>1, <1>2, <1>3 DEF IsMove, LayerMove
<1>6. \A j \in 1..n : Layer(j) \in Layers /\ Layer(j) # g /\ doc.canvas[Layer(j)] = c
    <2> SUFFICES ASSUME NEW j \in 1..n PROVE Layer(j) \in Layers /\ Layer(j) # g /\ doc.canvas[Layer(j)] = c
        OBVIOUS
    <2>1. (j + 1) \div 2 \in 1..Len(s)
        BY <1>1, HalvesIs
    <2>2. \E i \in 1..Len(s) : Layer(j) = s[i]
        BY <1>1, <2>1, ReverseIs
    <2>3. QED
        BY <1>1, <1>2, <2>2
<1>7. n \in Nat
    BY <1>1
<1>8. \A j \in 1..n : j % 2 # 1 => j - 1 \in 1..n /\ (j - 1) % 2 = 1 /\ Layer(j - 1) = Layer(j) /\ j > 1
    BY <1>1, HalvesIs
<1> HIDE DEF Layer, n, top, A, B
<1>9. \A j \in 1..n : f[j] = IF j % 2 = 1 THEN LayerRemove(c, <<Layer(j)>>) ELSE LayerAdd(Sub[g], Layer(j))
    OBVIOUS
<1>10. IsSeq(f) /\ Len(f) = n
    <2>1. f = [j \in 1..n |-> f[j]]
        OBVIOUS
    <2> HIDE DEF f
    <2>2. QED
        BY <1>7, <2>1, SeqIff
<1> HIDE DEF f
<1>11. IsSeq(L) /\ Len(L) = n + 2 /\ L[1] = A /\ L[2] = B /\ \A k \in 1..n : L[k + 2] = f[k]
    BY <1>10, ConcatTwo
<1> HIDE DEF L, c
<1>12. \A x \in Layers : IsRemove(LayerRemove(c, <<x>>)) /\ Len(LayerRemove(c, <<x>>).layers) = 1 /\ LayerRemove(c, <<x>>).layers[1] = x
    <2> SUFFICES ASSUME NEW x \in Layers
                 PROVE  IsRemove(LayerRemove(c, <<x>>)) /\ Len(LayerRemove(c, <<x>>).layers) = 1 /\ LayerRemove(c, <<x>>).layers[1] = x
        OBVIOUS
    <2>1. <<x>> \in Seq(Layers) /\ Len(<<x>>) = 1 /\ <<x>>[1] = x /\ DOMAIN <<x>> = 1..1
        OBVIOUS
    <2>2. [i \in DOMAIN <<x>> |-> 0] \in [1..Len(<<x>>) -> Nat]
        BY <2>1
    <2>3. LayerRemove(c, <<x>>) = [name |-> "LayerRemove", canvas |-> c, layers |-> <<x>>, depth |-> [i \in DOMAIN <<x>> |-> 0]]
        BY DEF LayerRemove
    <2> DEFINE t == <<x>>
               q == [i \in DOMAIN t |-> 0]
               b == LayerRemove(c, t)
    <2>4. c \in Canvases
        BY <1>1
    <2>5. t \in Seq(Layers) /\ Len(t) = 1 /\ t[1] = x /\ q \in [1..Len(t) -> Nat]
        BY <2>1, <2>2
    <2>6. b = [name |-> "LayerRemove", canvas |-> c, layers |-> t, depth |-> q]
        BY <2>3
    <2> HIDE DEF t, q, b
    <2>7. b.layers = t
        BY <2>6
    <2>8. b.name = "LayerRemove" /\ b.canvas = c /\ b.depth = q
        BY <2>6
    <2>9. IsRemove(b)
        BY <2>4, <2>5, <2>6, <2>7 DEF IsRemove
    <2>10. IsRemove(b) /\ Len(b.layers) = 1 /\ b.layers[1] = x
        BY <2>5, <2>7, <2>9
    <2>11. QED
        BY <2>10 DEF b, t
<1>13. \A x \in Layers : IsAdd(LayerAdd(Sub[g], x)) /\ LayerAdd(Sub[g], x).layer = x
    BY <1>2 DEF IsAdd, LayerAdd
<1>14. ASSUME NEW j \in 1..n, j % 2 = 1
       PROVE  /\ IsRemove(L[j + 2]) /\ Len(L[j + 2].layers) = 1 /\ L[j + 2].layers[1] = Layer(j)
    <2>1. L[j + 2] = LayerRemove(c, <<Layer(j)>>) /\ Layer(j) \in Layers
        BY <1>6, <1>9, <1>11, <1>14
    <2>2. QED
        BY <1>12, <2>1
<1>15. ASSUME NEW k \in 3..(n + 2)
       PROVE  TakesOut(d, L, g, k) \/ PutsIn(L, g, k)
    <2> DEFINE j == k - 2
    <2>1. j \in 1..n /\ k = j + 2
        BY <1>7
    <2> HIDE DEF j
    <2>2. CASE j % 2 = 1
        <3>1. d.canvas[Layer(j)] # NoCanvas /\ Layer(j) # g
            BY <1>1, <1>6, <2>1
        <3>2. IsRemove(L[k]) /\ Len(L[k].layers) = 1 /\ L[k].layers[1] = Layer(j)
            BY <1>14, <2>1, <2>2
        <3>3. QED
            BY <3>1, <3>2 DEF TakesOut
    <2>3. CASE j % 2 # 1
        <3>1. j - 1 \in 1..n /\ (j - 1) % 2 = 1 /\ Layer(j - 1) = Layer(j) /\ j > 1
            BY <1>8, <2>1, <2>3
        <3>2. k - 1 = (j - 1) + 2 /\ k > 3
            BY <1>7, <2>1, <3>1
        <3>3. IsRemove(L[(j - 1) + 2]) /\ Len(L[(j - 1) + 2].layers) = 1 /\ L[(j - 1) + 2].layers[1] = Layer(j - 1)
            BY <1>14, <3>1
        <3>4. L[k] = LayerAdd(Sub[g], Layer(j)) /\ Layer(j) \in Layers /\ Layer(j) # g
            BY <1>6, <1>9, <1>11, <2>1, <2>3
        <3>5. IsAdd(L[k]) /\ L[k].layer = Layer(j)
            BY <1>13, <3>4
        <3>6. IsRemove(L[k - 1]) /\ Len(L[k - 1].layers) = 1 /\ L[k - 1].layers[1] = Layer(j)
            BY <3>1, <3>2, <3>3
        <3>7. PutsIn(L, g, k)
            BY <3>2, <3>4, <3>5, <3>6 DEF PutsIn
        <3>8. QED
            BY <3>7
    <2>4. QED
        BY <2>2, <2>3
<1>16. IsFounding(d, L, g)
    <2>1. Len(L) >= 2 /\ L[2].dest \in {NoCanvas, L[1].canvas} /\ L[2].canvas = L[1].canvas
        BY <1>4, <1>5, <1>7, <1>11
    <2>2. IsAdd(L[1]) /\ L[1].layer = g /\ IsMove(L[2]) /\ L[2].layer = g
        BY <1>4, <1>5, <1>11
    <2>3. QED
        BY <1>11, <1>15, <2>1, <2>2 DEF IsFounding
<1> HIDE DEF a
<1>17. a.name = "LayerEncapsulate" /\ a.list = L /\ Founds(a)
    BY <1>0 DEF Founds, Founders
<1>18. QED
    BY <1>16, <1>17 DEF a, c

\* An action that founds a layer is done.
LEMMA FoundsKeeps ==
    ASSUME LInv, NEW d, Shaped(d), d.content = doc.content, d.canvas = doc.canvas, NEW g \in Layers, New(g),
           NEW a, Founds(a), IsFounding(d, a.list, g), Do(a, d), Ended(doc')
    PROVE  LInv'
<1>1. a.name \in Founders /\ a.name # "LayerAdd" /\ ~IsRemove(a) /\ ~IsMove(a) /\ ~IsShifting(a)
    BY DEF Founds, Founders, IsRemove, IsMove, IsShifting
<1>2. a.list[1].layer = g
    BY DEF IsFounding
<1>3. \A l : Makes(a, l) <=> l = g
    BY <1>1, <1>2 DEF Makes
<1>4. ~Placed(d.content, g)
    BY NewIs DEF LInv
<1>5. Possible(d, a) /\ Home(d, a)
    BY <1>1, <1>2, <1>3, <1>4 DEF Possible, Home, Fit
<1>6. \A l \in Layers : Makes(a, l) => doc.canvas[l] = NoCanvas
    BY <1>3 DEF New
<1>7. QED
    BY <1>5, <1>6, DoKeeps

\* Layers are put in a group of their own.
LEMMA EncapsulateKeeps ==
    ASSUME LInv, Encapsulate, Ended(doc')
    PROVE  LInv'
<1>1. PICK s \in Selections, g \in {m \in GroupLayers : New(m)} :
        /\ Selected(s)
        /\ Do(LayerEncapsulate(doc, doc.canvas[s[1]], s, g), [doc EXCEPT !.parent[Sub[g]] = doc.canvas[s[1]]])
    BY DEF Encapsulate
<1> DEFINE c == doc.canvas[s[1]]
           d == [doc EXCEPT !.parent[Sub[g]] = c]
           a == LayerEncapsulate(doc, c, s, g)
<1>2. Shaped(doc) /\ g \in GroupLayers /\ g \in Layers /\ New(g) /\ doc.canvas[g] = NoCanvas /\ c \in Canvases
    BY <1>1, LayersAssumption, SelectedIs DEF LInv, New
<1>3. IsDoc(d) /\ d.content = doc.content /\ d.canvas = doc.canvas /\ d.parent = [doc.parent EXCEPT ![Sub[g]] = c]
    BY <1>2 DEF Shaped, IsDoc
<1>4. Do(a, d)
    BY <1>1
<1> HIDE DEF d
<1>5. Shaped(d)
    <2>1. d.parent \in [Canvases -> Canvases \union {NoCanvas}]
        BY <1>2, <1>3 DEF Shaped
    <2>2. ASSUME NEW l \in GroupLayers, d.canvas[l] # NoCanvas
          PROVE  d.parent[Sub[l]] = d.canvas[l]
        <3>1. l # g /\ Sub[l] # Sub[g] /\ Sub[l] \in Canvases
            BY <1>2, <1>3, <2>2, LayersAssumption DEF Canvases, Inline
        <3>2. doc.parent[Sub[l]] = doc.canvas[l]
            BY <1>2, <1>3, <2>2 DEF Shaped, Situated
        <3>3. QED
            BY <1>2, <1>3, <3>1, <3>2 DEF Shaped
    <2>3. \A b \in Canvases, l \in Layers : Found(d, b, l) => d.canvas[l] = b
        BY <1>2, <1>3 DEF Shaped, Situated, Found
    <2>4. QED
        BY <1>2, <1>3, <2>1, <2>2, <2>3 DEF Shaped, Situated
<1>6. Founds(a) /\ IsFounding(d, a.list, g)
    BY <1>1, <1>2, <1>3, EncapsulateIs
<1> HIDE DEF a
<1>7. QED
    BY <1>2, <1>3, <1>4, <1>5, <1>6, FoundsKeeps

\* A layer is copied.
LEMMA DuplicateKeeps ==
    ASSUME LInv, Duplicate, Ended(doc')
    PROVE  LInv'
<1>1. PICK l \in Shown(doc) \ GroupLayers, copy \in {m \in Layers \ GroupLayers : New(m)} :
        Do(LayerDuplicate(doc, doc.canvas[l], l, copy), [doc EXCEPT !.group[copy] = doc.group[l]])
    BY DEF Duplicate
<1> DEFINE c == doc.canvas[l]
           d == [doc EXCEPT !.group[copy] = doc.group[l]]
           a == LayerDuplicate(doc, c, l, copy)
           A == LayerAdd(c, copy)
           B == LayerMove(c, copy, NoCanvas, Index(doc, c, l))
           L == <<A, B>>
<1>2. Shaped(doc) /\ copy \in Layers /\ New(copy) /\ c \in Canvases /\ Index(doc, c, l) \in Nat
    BY <1>1, ShownIs DEF LInv
<1>3. IsDoc(d) /\ d.content = doc.content /\ d.canvas = doc.canvas /\ d.parent = doc.parent
    BY <1>2 DEF Shaped, IsDoc
<1>4. Do(a, d)
    BY <1>1
<1> HIDE DEF d
<1>5. Shaped(d)
    BY <1>2, <1>3 DEF Shaped, Situated, Found
<1>6. a = [name |-> "LayerDuplicate", list |-> L]
    BY DEF LayerDuplicate
<1>7. IsAdd(A) /\ A.layer = copy /\ A.canvas = c
    BY <1>2 DEF IsAdd, LayerAdd
<1>8. IsMove(B) /\ B.layer = copy /\ B.canvas = c /\ B.dest = NoCanvas
    BY <1>2 DEF IsMove, LayerMove
<1> HIDE DEF A, B
<1>9. Len(L) = 2 /\ L[1] = A /\ L[2] = B /\ IsSeq(L)
    <2>1. L = [i \in 1..2 |-> L[i]]
        OBVIOUS
    <2>2. QED
        BY <2>1, SeqIff
<1> HIDE DEF L
<1>10. IsFounding(d, L, copy)
    <2>1. 3..Len(L) = {}
        BY <1>9
    <2>2. QED
        BY <1>7, <1>8, <1>9, <2>1 DEF IsFounding
<1> HIDE DEF a
<1>11. Founds(a) /\ a.list = L
    BY <1>6 DEF Founds, Founders
<1>12. QED
    BY <1>2, <1>3, <1>4, <1>5, <1>10, <1>11, FoundsKeeps

-----------------------------------------------------------------------------
(***************************************************************************)
(* The specification.                                                      *)
(***************************************************************************)

\* Every step keeps the invariant.
LEMMA NextLInv ==
    ASSUME LInv, [SoundNext]_vars
    PROVE  LInv'
<1>1. CASE UNCHANGED vars
    <2>1. doc' = doc /\ done' = done /\ undone' = undone /\ promise' = promise
        BY <1>1 DEF vars
    <2>2. QED
        BY <2>1 DEF LInv
<1>2. CASE SoundNext
    <2>1. Ended(doc')
        BY <1>2 DEF SoundNext
    <2>2. CASE Work
        BY <2>1, <2>2, AddKeeps, RemoveLayersKeeps, DragKeeps, ShiftKeeps, EncapsulateKeeps, DuplicateKeeps,
           SettingKeeps DEF Work
    <2>3. CASE Undo
        BY <2>1, <2>3, UndoKeeps
    <2>4. CASE Redo /\ ~RemovesSeveral
        BY <2>1, <2>4, RedoKeeps
    <2>5. QED
        BY <1>2, <2>2, <2>3, <2>4 DEF SoundNext
<1>3. QED
    BY <1>1, <1>2

\* However layers are added, removed, moved, raised, lowered, grouped and copied (synfigapp's layer
\* actions), undone and redone, the history can say of each document between two actions what was
\* in its canvases.
THEOREM LayersInv == SoundSpec => []LInv
<1>1. Init => LInv
    BY InitLInv
<1>2. LInv /\ [SoundNext]_vars => LInv'
    BY NextLInv
<1>3. QED
    BY <1>1, <1>2, PTL DEF SoundSpec

\* The layers that are seen form a tree after any of it: none is in two places, and a layer and the
\* canvas of a group know where they are (synfig::Layer::set_canvas, synfig::Canvas::insert).
THEOREM SoundTreeShape == SoundSpec => []TreeShape
<1>1. LInv => TreeShape
    <2> SUFFICES ASSUME LInv PROVE TreeShape
        OBVIOUS
    <2>1. Shaped(doc)
        BY DEF LInv
    <2>2. Once(doc.content)
        BY <2>1 DEF Shaped, Contents
    <2>3. \A l \in Shown(doc) : Found(doc, doc.canvas[l], l)
        BY <2>1, ShownIs
    <2>4. \A l \in Shown(doc) \intersect GroupLayers : doc.parent[Sub[l]] = doc.canvas[l]
        BY <2>1, ShownIs DEF Shaped, Situated
    <2>5. QED
        BY <2>2, <2>3, <2>4 DEF TreeShape
<1>2. QED
    BY <1>1, LayersInv, PTL

\* What the user has done last, or redone where it was undone, can be undone (Action::System::undo
\* of the layer and group actions).
THEOREM SoundUndoWorks == SoundSpec => []UndoWorks
<1>1. LInv => UndoWorks
    <2> SUFFICES ASSUME LInv, done # <<>>, Last(done).fresh PROVE UndoAct(Last(done).act, doc).ok
        BY DEF UndoWorks
    <2>1. PICK past : PastOk(done, past, doc) /\ Shaped(doc)
        BY DEF LInv
    <2> DEFINE n == Len(done)
               a == done[n].act
    <2>2. n \in 1..Len(done)
        <3>1. IsSeq(done)
            BY <2>1 DEF PastOk
        <3>2. Len(done) \in Nat /\ Len(done) >= 1
            BY <3>1, SeqIff, TailIs
        <3>3. QED
            BY <3>2
    <2>3. Last(done) = done[n]
        BY DEF Last
    <2>4. Took(a, past[n - 1], doc.content) /\ SureAct(a)
        BY <2>1, <2>2, <2>3 DEF PastOk
    <2>5. Undoes(a, past[n - 1], doc.content)
        BY <2>4 DEF Took
    <2> HIDE DEF a, n
    <2>6. UndoAct(a, doc).ok <=> SureAct(a)
        BY <2>1, <2>5, Zenon DEF Undoes
    <2>7. Last(done).act = a
        BY <2>3 DEF a
    <2>8. QED
        BY <2>4, <2>6, <2>7
<1>2. QED
    BY <1>1, LayersInv, PTL

\* Undo shows every layer where it was before the action, or changes nothing about the layers: also
\* when the action is made of several and stops half way (Action::Super::undo).
THEOREM SoundUndoBack == SoundSpec => [][UndoBack]_vars
<1>1. LInv /\ [SoundNext]_vars => [UndoBack]_vars
    <2> SUFFICES ASSUME LInv, SoundNext, Undo PROVE UndoBack
        BY DEF UndoBack
    <2>1. QED
        BY UndoKeeps DEF SoundNext
<1>2. QED
    BY <1>1, LayersInv, PTL DEF SoundSpec

\* Redo shows every layer where it was after the action, or changes nothing about the layers
\* (Action::Super::perform).
THEOREM SoundRedoAgain == SoundSpec => [][RedoAgain]_vars
<1>1. LInv /\ [SoundNext]_vars => [RedoAgain]_vars
    <2> SUFFICES ASSUME LInv, SoundNext, Redo, ~RemovesSeveral PROVE RedoAgain
        BY DEF RedoAgain
    <2>1. QED
        BY RedoKeeps DEF SoundNext
<1>2. QED
    BY <1>1, LayersInv, PTL DEF SoundSpec
=============================================================================
