------------------------- MODULE EmbeddingCacheProofs -------------------------
(***************************************************************************)
(* Proofs about EmbeddingCache.  The inductive invariant says of the list  *)
(* in the cache and the calls that returned: the entries are in the order  *)
(* of their last uses, and a text that is not in the cache any more was    *)
(* last used before all that are, and the cache is full.                   *)
(***************************************************************************)
EXTENDS EmbeddingCache, FiniteSetTheorems, SequenceTheorems, TLAPS

\* Of a list of two parts
LEMMA Part ==
  ASSUME NEW S, NEW f \in Seq(S), NEW g \in Seq(S)
  PROVE  /\ f \o g \in Seq(S) /\ Len(f \o g) = Len(f) + Len(g)
         /\ \A i \in 1..Len(f) : (f \o g)[i] = f[i]
         /\ \A i \in Len(f)+1..Len(f)+Len(g) : (f \o g)[i] = g[i - Len(f)]
<1>1. /\ f \o g \in Seq(S) /\ Len(f \o g) = Len(f) + Len(g) /\ Len(f) \in Nat /\ Len(g) \in Nat
      /\ \A i \in 1..Len(f)+Len(g) : (f \o g)[i] = IF i <= Len(f) THEN f[i] ELSE g[i - Len(f)]
  BY ConcatProperties, LenProperties
<1> QED BY <1>1

Vectors == {"service", "local"}
Entries == [text : EmbTexts \ {EmptyText}, vec : Vectors]
Calls == [text : EmbTexts \cup {EmptyText}, up : BOOLEAN, vec : Vectors \cup {"zero"}]

\* Call i of the history h is the last use of its text
LastUseIn(h, i) ==
  /\ i \in 1..Len(h) /\ h[i].text # EmptyText
  /\ \A j \in 1..Len(h) : j > i => h[j].text # h[i].text

\* Call i is the last use of entry e
At(h, i, e) == LastUseIn(h, i) /\ h[i].text = e.text

\* Every entry has a last use, which answered its vector
Used(c, h) == \A k \in 1..Len(c) : \E i \in 1..Len(h) : At(h, i, c[k]) /\ h[i].vec = c[k].vec

\* The entries are in the order of their last uses
Ordered(c, h) ==
  \A k, l \in 1..Len(c), i, j \in 1..Len(h) :
    k < l /\ At(h, i, c[k]) /\ At(h, j, c[l]) => i < j

\* A text that is not cached was last used before all that are
Evicted(c, h) ==
  \A i \in 1..Len(h) :
    LastUseIn(h, i) /\ (\A k \in 1..Len(c) : c[k].text # h[i].text) =>
      /\ Len(c) >= CacheSize
      /\ \A k \in 1..Len(c), j \in 1..Len(h) : At(h, j, c[k]) => i < j

\* Every text that was used has a last use
HasLast(h) ==
  \A j \in 1..Len(h) : h[j].text # EmptyText =>
    \E i \in 1..Len(h) : i >= j /\ At(h, i, h[j])

LRU(c, h) == Used(c, h) /\ Ordered(c, h) /\ Evicted(c, h) /\ HasLast(h)

\* StaysCached and AnswersAreTraceable, of a history
Keeps(h, a, b) ==
  LET others == {h[k].text : k \in a+1..b-1} IN
  /\ h[a].text \notin others
  /\ Cardinality(others \ {EmptyText}) < CacheSize

Traceable(h, i) ==
  h[i].text # EmptyText =>
    \E j \in {k \in 1..i : h[k].text = h[i].text} :
      /\ h[j].up = (h[i].vec = "service")
      /\ \A a \in {k \in 1..i : h[k].text = h[i].text} :
           a >= j /\ a < i =>
             \E b \in {k \in 1..i : h[k].text = h[i].text} : a < b /\ Keeps(h, a, b)

CacheInv ==
  /\ cache \in Seq(Entries) /\ calls \in Seq(Calls)
  /\ Len(cache) <= CacheSize
  /\ LRU(cache, calls)
  /\ \A i \in 1..Len(calls) : Traceable(calls, i)

LEMMA Appended ==
  ASSUME NEW S, NEW s \in Seq(S), NEW e \in S
  PROVE  /\ Append(s, e) \in Seq(S) /\ Len(s) \in Nat
         /\ Len(Append(s, e)) = Len(s) + 1
         /\ Append(s, e)[Len(s) + 1] = e
         /\ \A i \in 1..Len(s) : Append(s, e)[i] = s[i]
BY AppendProperties, LenProperties

\* The last uses once a call r is added to the history
LEMMA LastUseAdded ==
  ASSUME NEW h \in Seq(Calls), NEW r \in Calls, NEW i
  PROVE  LastUseIn(Append(h, r), i) <=>
           \/ i = Len(h) + 1 /\ r.text # EmptyText
           \/ LastUseIn(h, i) /\ h[i].text # r.text
<1> DEFINE g == Append(h, r)
           n == Len(h)
<1>1. /\ n \in Nat /\ Len(g) = n + 1 /\ g[n + 1] = r
      /\ \A k \in 1..n : g[k] = h[k]
  BY Appended
<1> HIDE DEF g, n
<1>2. CASE i = n + 1
  <2>1. LastUseIn(g, i) <=> r.text # EmptyText
    BY <1>1, <1>2 DEF LastUseIn
  <2>2. ~LastUseIn(h, i)
    BY <1>1, <1>2 DEF LastUseIn, n
  <2> QED BY <1>2, <2>1, <2>2 DEF g, n
<1>3. CASE i \in 1..n
  <2>1. g[i] = h[i] /\ i \in 1..Len(g) /\ i # n + 1
    BY <1>1, <1>3
  <2>2. LastUseIn(g, i) => LastUseIn(h, i) /\ h[i].text # r.text
    <3> SUFFICES ASSUME LastUseIn(g, i) PROVE LastUseIn(h, i) /\ h[i].text # r.text
      OBVIOUS
    <3>1. h[i].text # r.text
      BY <1>1, <1>3, <2>1 DEF LastUseIn
    <3>2. \A j \in 1..n : j > i => h[j].text # h[i].text
      BY <1>1, <1>3, <2>1 DEF LastUseIn
    <3> QED BY <1>3, <2>1, <3>1, <3>2 DEF LastUseIn, n
  <2>3. LastUseIn(h, i) /\ h[i].text # r.text => LastUseIn(g, i)
    <3> SUFFICES ASSUME LastUseIn(h, i), h[i].text # r.text PROVE LastUseIn(g, i)
      OBVIOUS
    <3>1. \A j \in 1..n + 1 : j \in 1..n \/ j = n + 1
      BY <1>1
    <3>2. \A j \in 1..n + 1 : j > i => g[j].text # g[i].text
      BY <1>1, <2>1, <3>1 DEF LastUseIn, n
    <3> QED BY <1>1, <2>1, <3>2 DEF LastUseIn
  <2> QED BY <2>1, <2>2, <2>3 DEF g, n
<1>4. CASE i \notin 1..n + 1
  <2>1. ~LastUseIn(g, i) /\ ~LastUseIn(h, i) /\ i # n + 1
    BY <1>1, <1>4 DEF LastUseIn, n
  <2> QED BY <2>1 DEF g, n
<1>5. i \in 1..n + 1 => i \in 1..n \/ i = n + 1
  BY <1>1
<1> QED BY <1>2, <1>3, <1>4, <1>5

\* A call adds a last use for its text and keeps those of the others
LEMMA HasLastAdded ==
  ASSUME NEW h \in Seq(Calls), NEW r \in Calls, HasLast(h)
  PROVE  HasLast(Append(h, r))
<1> DEFINE g == Append(h, r)
           n == Len(h)
<1>1. /\ n \in Nat /\ Len(g) = n + 1 /\ g[n + 1] = r
      /\ \A k \in 1..n : g[k] = h[k]
  BY Appended
<1>2. \A i : LastUseIn(g, i) <=> \/ i = n + 1 /\ r.text # EmptyText
                                 \/ LastUseIn(h, i) /\ h[i].text # r.text
  BY LastUseAdded
<1> HIDE DEF g, n
<1>3. SUFFICES ASSUME NEW j \in 1..n + 1, g[j].text # EmptyText
               PROVE  \E i \in 1..n + 1 : i >= j /\ At(g, i, g[j])
  BY <1>1 DEF HasLast, g
<1>4. CASE g[j].text = r.text
  BY <1>1, <1>2, <1>3, <1>4 DEF At
<1>5. CASE g[j].text # r.text
  <2>1. j \in 1..n /\ h[j] = g[j]
    BY <1>1, <1>5
  <2>2. PICK i \in 1..n : i >= j /\ At(h, i, h[j])
    BY <1>3, <2>1 DEF HasLast, n
  <2>3. i \in 1..n + 1 /\ g[i] = h[i] /\ LastUseIn(g, i)
    BY <1>1, <1>2, <1>5, <2>1, <2>2 DEF At
  <2> QED BY <2>1, <2>2, <2>3 DEF At
<1> QED BY <1>4, <1>5

\* An empty text is no use
LEMMA EmptyIsNoUse ==
  ASSUME NEW h \in Seq(Calls), NEW r \in Calls, r.text = EmptyText,
         NEW c \in Seq(Entries), LRU(c, h)
  PROVE  LRU(c, Append(h, r))
<1> DEFINE g == Append(h, r)
           n == Len(h)
<1>1. /\ n \in Nat /\ Len(g) = n + 1 /\ g[n + 1] = r
      /\ \A k \in 1..n : g[k] = h[k]
  BY Appended
<1>2. HasLast(g)
  BY HasLastAdded DEF LRU
<1>3. \A i : LastUseIn(g, i) <=> LastUseIn(h, i)
  BY LastUseAdded DEF LastUseIn
<1> HIDE DEF g, n
<1>4. \A i : LastUseIn(h, i) => i \in 1..n /\ i \in 1..n + 1 /\ g[i] = h[i]
  BY <1>1 DEF LastUseIn, n
<1>5. \A i, e : At(g, i, e) <=> At(h, i, e)
  BY <1>3, <1>4 DEF At
<1>6. Used(c, g)
  <2> SUFFICES ASSUME NEW k \in 1..Len(c)
               PROVE  \E i \in 1..n + 1 : At(g, i, c[k]) /\ g[i].vec = c[k].vec
    BY <1>1 DEF Used
  <2>1. PICK i \in 1..Len(h) : At(h, i, c[k]) /\ h[i].vec = c[k].vec
    BY DEF LRU, Used
  <2>2. At(g, i, c[k]) /\ i \in 1..n + 1 /\ g[i] = h[i]
    BY <1>4, <1>5, <2>1 DEF At
  <2> QED BY <2>1, <2>2
<1>7. Ordered(c, g)
  <2> SUFFICES ASSUME NEW k \in 1..Len(c), NEW l \in 1..Len(c), NEW i, NEW j,
                      k < l, At(g, i, c[k]), At(g, j, c[l])
               PROVE  i < j
    BY DEF Ordered
  <2>1. At(h, i, c[k]) /\ At(h, j, c[l]) /\ i \in 1..n /\ j \in 1..n
    BY <1>4, <1>5 DEF At
  <2> QED BY <2>1 DEF LRU, Ordered, n
<1>8. Evicted(c, g)
  <2> SUFFICES ASSUME NEW i, LastUseIn(g, i), \A k \in 1..Len(c) : c[k].text # g[i].text
               PROVE  /\ Len(c) >= CacheSize
                      /\ \A k \in 1..Len(c), j \in 1..Len(g) : At(g, j, c[k]) => i < j
    BY DEF Evicted
  <2>1. i \in 1..Len(h) /\ LastUseIn(h, i) /\ \A k \in 1..Len(c) : c[k].text # h[i].text
    BY <1>3, <1>4 DEF n
  <2>2. /\ Len(c) >= CacheSize
        /\ \A k \in 1..Len(c), j \in 1..Len(h) : At(h, j, c[k]) => i < j
    BY <2>1 DEF LRU, Evicted
  <2>3. \A j, e : At(h, j, e) => j \in 1..Len(h)
    BY DEF At, LastUseIn
  <2> QED BY <1>5, <2>2, <2>3
<1> QED BY <1>2, <1>6, <1>7, <1>8 DEF LRU, g

\* No two entries are of one text
LEMMA Distinct ==
  ASSUME NEW c \in Seq(Entries), NEW h, LRU(c, h), NEW k \in 1..Len(c), NEW l \in 1..Len(c),
         c[k].text = c[l].text
  PROVE  k = l
<1>1. \A q \in 1..Len(c) : \E i \in 1..Len(h) : At(h, i, c[q])
  BY DEF LRU, Used
<1>2. \A i : At(h, i, c[k]) <=> At(h, i, c[l])
  BY DEF At
<1>3. ~(k < l) /\ ~(l < k)
  BY <1>1, <1>2 DEF LRU, Ordered
<1> QED BY <1>3, LenProperties

\* The list w is the cache without the text's entry, which is at position p of
\* it, or one behind its end
TakenOut(w, text, p) ==
  /\ w \in Seq(Entries)
  /\ Len(w) = IF p <= Len(cache) THEN Len(cache) - 1 ELSE Len(cache)
  /\ \A k \in 1..Len(w) : w[k] = IF k < p THEN cache[k] ELSE cache[k + 1]
  /\ \A k \in 1..Len(cache) : cache[k].text = text <=> k = p

LEMMA WithoutText ==
  ASSUME cache \in Seq(Entries), LRU(cache, calls), NEW text
  PROVE  \E p \in 1..Len(cache) + 1 : TakenOut(Without(text), text, p)
<1> DEFINE n == Len(cache)
<1>1. n \in Nat /\ DOMAIN cache = 1..n /\ \A k \in 1..n : cache[k] \in Entries
  BY LenProperties, ElementOfSeq
<1>2. CASE ~Hit(text)
  <2>1. Without(text) = cache /\ \A k \in 1..n : cache[k].text # text
    BY <1>1, <1>2 DEF Without, Hit
  <2>2. n + 1 \in 1..n + 1 /\ ~(n + 1 <= n) /\ \A k \in 1..n : k < n + 1 /\ k # n + 1
    BY <1>1
  <2> QED BY <2>1, <2>2 DEF TakenOut
<1>3. CASE Hit(text)
  <2> DEFINE p == Position(text)
             a == SubSeq(cache, 1, p - 1)
             b == SubSeq(cache, p + 1, n)
  <2>1. p \in 1..n /\ cache[p].text = text
    BY <1>1, <1>3 DEF Hit, Position
  <2>2. Without(text) = a \o b
    BY <1>3 DEF Without, RemoveAt
  <2> HIDE DEF p
  <2>3. /\ a \in Seq(Entries) /\ Len(a) = p - 1
        /\ \A k \in 1..p - 1 : a[k] = cache[k]
    <3>1. \A k \in 1..p - 1 : cache[k] \in Entries
      BY <1>1, <2>1
    <3>2. 1 \in Int /\ p - 1 \in Int
      BY <2>1
    <3>3. /\ a \in Seq(Entries) /\ Len(a) = IF 1 <= p - 1 THEN (p - 1) - 1 + 1 ELSE 0
          /\ \A k \in 1..(p - 1) - 1 + 1 : a[k] = cache[1 + k - 1]
      BY <3>1, <3>2, SubSeqProperties
    <3> QED BY <2>1, <3>3
  <2>4. /\ b \in Seq(Entries) /\ Len(b) = n - p
        /\ \A k \in 1..n - p : b[k] = cache[p + k]
    <3>1. \A k \in p + 1..n : cache[k] \in Entries
      BY <1>1, <2>1
    <3>2. p + 1 \in Int /\ n \in Int
      BY <1>1, <2>1
    <3>3. /\ b \in Seq(Entries) /\ Len(b) = IF p + 1 <= n THEN n - (p + 1) + 1 ELSE 0
          /\ \A k \in 1..n - (p + 1) + 1 : b[k] = cache[(p + 1) + k - 1]
      BY <3>1, <3>2, SubSeqProperties
    <3> QED BY <1>1, <2>1, <3>3
  <2> HIDE DEF a, b, n
  <2>5. /\ a \o b \in Seq(Entries) /\ Len(a \o b) = Len(a) + Len(b)
        /\ \A k \in 1..Len(a) : (a \o b)[k] = a[k]
        /\ \A k \in Len(a)+1..Len(a)+Len(b) : (a \o b)[k] = b[k - Len(a)]
    <3>1. a \in Seq(Entries) /\ b \in Seq(Entries)
      BY <2>3, <2>4
    <3> HIDE <2>3, <2>4
    <3> QED BY <3>1, Part
  <2> DEFINE w == Without(text)
  <2>6. w \in Seq(Entries) /\ Len(w) = n - 1
    BY <1>1, <2>1, <2>2, <2>3, <2>4, <2>5
  <2>7. \A k \in 1..p - 1 : w[k] = cache[k]
    BY <2>2, <2>3, <2>5
  <2>8. \A k \in p..n - 1 : w[k] = cache[k + 1]
    <3> SUFFICES ASSUME NEW k \in p..n - 1 PROVE w[k] = cache[k + 1]
      OBVIOUS
    <3>1. k \in Len(a)+1..Len(a)+Len(b) /\ k - Len(a) \in 1..n - p /\ p + (k - Len(a)) = k + 1
      BY <1>1, <2>1, <2>3, <2>4
    <3> QED BY <2>2, <2>4, <2>5, <3>1
  <2>9. \A k \in 1..Len(w) : w[k] = IF k < p THEN cache[k] ELSE cache[k + 1]
    BY <1>1, <2>1, <2>6, <2>7, <2>8
  <2>10. \A k \in 1..n : cache[k].text = text <=> k = p
    BY <2>1, Distinct DEF n
  <2>11. p \in 1..n + 1 /\ p <= n
    BY <1>1, <2>1
  <2> QED BY <2>6, <2>9, <2>10, <2>11 DEF n, TakenOut
<1> QED BY <1>2, <1>3

\* A use puts its entry last
LEMMA UseIsLast ==
  ASSUME cache \in Seq(Entries), calls \in Seq(Calls), LRU(cache, calls),
         NEW e \in Entries, NEW r \in Calls, r.text = e.text, r.vec = e.vec
  PROVE  /\ Append(Without(e.text), e) \in Seq(Entries)
         /\ Len(Append(Without(e.text), e)) =
              IF Hit(e.text) THEN Len(cache) ELSE Len(cache) + 1
         /\ LRU(Append(Without(e.text), e), Append(calls, r))
<1> DEFINE w == Without(e.text)
           c == Append(w, e)
           g == Append(calls, r)
           m == Len(w)
           n == Len(calls)
<1>21. PICK p \in 1..Len(cache) + 1 : TakenOut(w, e.text, p)
  BY WithoutText
<1>1. /\ w \in Seq(Entries)
      /\ Len(w) = IF p <= Len(cache) THEN Len(cache) - 1 ELSE Len(cache)
      /\ \A k \in 1..Len(w) : w[k] = IF k < p THEN cache[k] ELSE cache[k + 1]
      /\ \A k \in 1..Len(cache) : cache[k].text = e.text <=> k = p
  BY <1>21 DEF TakenOut
<1>2. /\ n \in Nat /\ Len(g) = n + 1 /\ g[n + 1] = r
      /\ \A i \in 1..n : g[i] = calls[i]
  BY Appended
<1>3. /\ c \in Seq(Entries) /\ m \in Nat /\ Len(c) = m + 1 /\ c[m + 1] = e
      /\ \A k \in 1..m : c[k] = w[k]
  BY <1>1, Appended
<1>4. e.text # EmptyText
  BY DEF Entries
<1>5. HasLast(g)
  BY HasLastAdded DEF LRU
<1>6. \A i : LastUseIn(g, i) <=> \/ i = n + 1
                                 \/ LastUseIn(calls, i) /\ calls[i].text # e.text
  BY <1>4, LastUseAdded
<1>7. Len(cache) \in Nat /\ DOMAIN cache = 1..Len(cache)
  BY LenProperties
<1>8. Hit(e.text) <=> p <= Len(cache)
  <2>1. \A k \in 1..Len(cache) : cache[k].text = e.text <=> k = p
    BY <1>1
  <2>2. p \in 1..Len(cache) <=> p <= Len(cache)
    BY <1>7
  <2> HIDE DEF w, c, g, m, n
  <2> QED BY <1>7, <2>1, <2>2 DEF Hit
<1> DEFINE old(k) == IF k < p THEN k ELSE k + 1
<1>9. \A k \in 1..m : /\ old(k) \in 1..Len(cache) /\ c[k] = cache[old(k)]
                      /\ cache[old(k)].text # e.text
  BY <1>1, <1>3, <1>7
<1>10. \A k, l \in 1..m : k < l => old(k) < old(l)
  BY <1>1, <1>3, <1>7
<1>19. /\ m = IF p <= Len(cache) THEN Len(cache) - 1 ELSE Len(cache)
       /\ \A k \in 1..Len(cache) : cache[k].text = e.text <=> k = p
  BY <1>1
<1>20. \A k \in 1..Len(cache) : k # p => \E l \in 1..m : old(l) = k
  <2> DEFINE q == Len(cache)
  <2>1. q \in Nat /\ p \in 1..q + 1 /\ m = IF p <= q THEN q - 1 ELSE q
    BY <1>7, <1>19
  <2> HIDE DEF q, m
  <2>2. \A k \in 1..q : k # p => \E l \in 1..m : old(l) = k
    <3> SUFFICES ASSUME NEW k \in 1..q, k # p PROVE \E l \in 1..m : old(l) = k
      OBVIOUS
    <3>1. CASE k < p
      <4>1. k \in 1..m /\ old(k) = k
        BY <2>1, <3>1
      <4> QED BY <4>1
    <3>2. CASE k > p
      <4>1. k - 1 \in 1..m /\ old(k - 1) = k
        BY <2>1, <3>2
      <4> QED BY <4>1
    <3> QED BY <2>1, <3>1, <3>2
  <2> QED BY <2>2 DEF q
<1>22. /\ m + 1 >= Len(cache)
       /\ m + 1 = IF p <= Len(cache) THEN Len(cache) ELSE Len(cache) + 1
  BY <1>1, <1>7
<1> HIDE DEF g, n, c, w, m
<1>11. \A i : LastUseIn(calls, i) => i \in 1..n /\ i \in 1..n + 1 /\ g[i] = calls[i]
  BY <1>2 DEF LastUseIn, n
<1>12. \A i, k : k \in 1..m => (At(g, i, c[k]) <=> At(calls, i, cache[old(k)]))
  BY <1>2, <1>6, <1>9, <1>11 DEF At
<1>23. \A i, k : k \in 1..m /\ At(g, i, c[k]) => At(calls, i, cache[old(k)]) /\ i \in 1..n
  BY <1>11, <1>12 DEF At
<1>24. \A i, k : k \in 1..m /\ At(calls, i, cache[old(k)]) =>
         At(g, i, c[k]) /\ i \in 1..n + 1 /\ g[i] = calls[i]
  <2>1. \A i, f : At(calls, i, f) => i \in 1..n + 1 /\ g[i] = calls[i]
    BY <1>11 DEF At
  <2> QED BY <1>12, <2>1
<1>13. \A i : At(g, i, e) <=> i = n + 1
  BY <1>2, <1>6, <1>11 DEF At
<1>14. \A k \in 1..m + 1 : k \in 1..m \/ k = m + 1
  BY <1>3
<1> HIDE DEF old
<1>15. Used(c, g)
  <2> SUFFICES ASSUME NEW k \in 1..m + 1
               PROVE  \E i \in 1..n + 1 : At(g, i, c[k]) /\ g[i].vec = c[k].vec
    BY <1>2, <1>3 DEF Used
  <2>1. CASE k = m + 1
    BY <1>2, <1>3, <1>13, <2>1
  <2>2. CASE k \in 1..m
    <3>1. PICK i \in 1..Len(calls) :
            At(calls, i, cache[old(k)]) /\ calls[i].vec = cache[old(k)].vec
      BY <1>9, <2>2 DEF LRU, Used
    <3>2. At(g, i, c[k]) /\ i \in 1..n + 1 /\ g[i] = calls[i]
      BY <1>24, <2>2, <3>1
    <3> QED BY <1>9, <2>2, <3>1, <3>2
  <2> QED BY <1>14, <2>1, <2>2
<1>16. Ordered(c, g)
  <2> SUFFICES ASSUME NEW k \in 1..m + 1, NEW l \in 1..m + 1, NEW i, NEW j,
                      k < l, At(g, i, c[k]), At(g, j, c[l])
               PROVE  i < j
    BY <1>3 DEF Ordered
  <2>1. k \in 1..m /\ At(calls, i, cache[old(k)]) /\ i \in 1..n
    <3>1. k \in 1..m
      BY <1>3
    <3> QED BY <1>23, <3>1
  <2>2. CASE l = m + 1
    <3>1. j = n + 1
      BY <1>3, <1>13, <2>2
    <3> QED BY <1>2, <2>1, <3>1
  <2>3. CASE l \in 1..m
    <3>1. At(calls, j, cache[old(l)]) /\ j \in 1..n
      BY <1>23, <2>3
    <3> QED BY <1>9, <1>10, <2>1, <2>3, <3>1 DEF LRU, Ordered, n
  <2> QED BY <1>14, <2>2, <2>3
<1>17. Evicted(c, g)
  <2> SUFFICES ASSUME NEW i, LastUseIn(g, i), \A k \in 1..m + 1 : c[k].text # g[i].text
               PROVE  /\ m + 1 >= CacheSize
                      /\ \A k \in 1..m + 1 : \A j : At(g, j, c[k]) => i < j
    BY <1>3 DEF Evicted
  <2>1. g[i].text # e.text
    BY <1>3
  <2>2. LastUseIn(calls, i) /\ i \in 1..n /\ calls[i] = g[i]
    BY <1>2, <1>6, <1>11, <2>1
  <2>3. \A k \in 1..Len(cache) : cache[k].text # calls[i].text
    <3> SUFFICES ASSUME NEW k \in 1..Len(cache), k # p PROVE cache[k].text # calls[i].text
      BY <1>19, <2>1, <2>2
    <3>1. \E q \in 1..m : old(q) = k
      BY <1>20
    <3> QED BY <1>3, <1>9, <2>2, <3>1
  <2>4. /\ Len(cache) >= CacheSize
        /\ \A k \in 1..Len(cache), j \in 1..Len(calls) : At(calls, j, cache[k]) => i < j
    BY <2>2, <2>3 DEF LRU, Evicted, n
  <2>5. m + 1 >= CacheSize
    BY <1>3, <1>7, <1>22, <2>4, CacheAssumption
  <2>6. ASSUME NEW k \in 1..m + 1, NEW j, At(g, j, c[k])
        PROVE  i < j
    <3>1. CASE k = m + 1
      BY <1>2, <1>3, <1>13, <2>2, <2>6, <3>1
    <3>2. CASE k \in 1..m
      <4>1. At(calls, j, cache[old(k)]) /\ j \in 1..n
        BY <1>23, <2>6, <3>2
      <4> QED BY <1>9, <2>4, <3>2, <4>1 DEF n
    <3> QED BY <1>14, <3>1, <3>2
  <2> QED BY <2>5, <2>6
<1>18. Len(c) = IF Hit(e.text) THEN Len(cache) ELSE Len(cache) + 1
  BY <1>3, <1>8, <1>22
<1> QED BY <1>3, <1>5, <1>15, <1>16, <1>17, <1>18 DEF LRU, c, g, w

\* What is evicted is the entry that was used first
LEMMA FirstIsEvicted ==
  ASSUME NEW c \in Seq(Entries), NEW h \in Seq(Calls), LRU(c, h), Len(c) = CacheSize + 1
  PROVE  /\ Tail(c) \in Seq(Entries) /\ Len(Tail(c)) = CacheSize
         /\ LRU(Tail(c), h)
<1> DEFINE t == Tail(c)
<1>1. c # <<>>
  BY CacheAssumption, EmptySeq
<1>2. /\ t \in Seq(Entries) /\ Len(t) = CacheSize
      /\ \A k \in 1..CacheSize : t[k] = c[k + 1]
  BY <1>1, HeadTailProperties, CacheAssumption
<1>3. \A k \in 1..CacheSize : k + 1 \in 1..Len(c)
  BY CacheAssumption
<1> HIDE DEF t
<1>4. Used(t, h)
  <2>1. \A k \in 1..Len(c) : \E i \in 1..Len(h) : At(h, i, c[k]) /\ h[i].vec = c[k].vec
    BY DEF LRU, Used
  <2>2. \A k \in 1..CacheSize : t[k] = c[k + 1] /\ k + 1 \in 1..Len(c)
    BY <1>2, <1>3
  <2> QED BY <1>2, <2>1, <2>2 DEF Used
<1>5. Ordered(t, h)
  <2> SUFFICES ASSUME NEW k \in 1..CacheSize, NEW l \in 1..CacheSize, NEW i \in 1..Len(h),
                      NEW j \in 1..Len(h), k < l, At(h, i, t[k]), At(h, j, t[l])
               PROVE  i < j
    BY <1>2 DEF Ordered
  <2>1. At(h, i, c[k + 1]) /\ At(h, j, c[l + 1])
    BY <1>2
  <2>2. k + 1 < l + 1
    OBVIOUS
  <2> QED BY <1>3, <2>1, <2>2 DEF LRU, Ordered
<1>6. Evicted(t, h)
  <2> SUFFICES ASSUME NEW i \in 1..Len(h), LastUseIn(h, i),
                      \A k \in 1..Len(t) : t[k].text # h[i].text,
                      NEW k \in 1..Len(t), NEW j \in 1..Len(h), At(h, j, t[k])
               PROVE  i < j
    <3>1. Len(t) >= CacheSize
      BY <1>2, CacheAssumption
    <3> QED BY <3>1 DEF Evicted
  <2> USE <1>2
  <2>1. At(h, j, c[k + 1]) /\ k + 1 \in 1..Len(c) /\ 1 \in 1..Len(c) /\ 1 < k + 1
    BY <1>2, <1>3, CacheAssumption
  <2>2. CASE c[1].text = h[i].text
    <3>1. At(h, i, c[1])
      BY <2>2 DEF At
    <3> QED BY <2>1, <3>1 DEF LRU, Ordered
  <2>3. CASE c[1].text # h[i].text
    <3>1. ASSUME NEW l \in 1..Len(c) PROVE c[l].text # h[i].text
      <4>1. CASE l = 1
        BY <2>3, <4>1
      <4>2. CASE l # 1
        <5>1. l - 1 \in 1..CacheSize /\ (l - 1) + 1 = l
          BY <4>2, CacheAssumption
        <5> QED BY <1>2, <5>1
      <4> QED BY <4>1, <4>2
    <3> QED BY <2>1, <3>1 DEF LRU, Evicted
  <2> QED BY <2>2, <2>3
<1> QED BY <1>2, <1>4, <1>5, <1>6 DEF LRU, t

\* The texts of the calls from a to b are finitely many
Between(h, a, b) == {h[k].text : k \in a..b}

LEMMA TextsBetween ==
  ASSUME NEW h, NEW a \in Int, NEW b \in Int
  PROVE  IsFiniteSet(Between(h, a, b))
<1> DEFINE T == Between(h, a, b)
           f == [k \in a..b |-> h[k].text]
<1>1. IsFiniteSet(a..b)
  BY FS_Interval
<1>2. f \in Surjection(a..b, T)
  BY DEF Surjection, Between
<1> QED BY <1>1, <1>2, FS_Surjection

CachedTexts == {cache[k].text : k \in 1..Len(cache)}

LEMMA CachedTextsCount ==
  ASSUME CacheInv
  PROVE  IsFiniteSet(CachedTexts) /\ Cardinality(CachedTexts) = Len(cache)
<1> DEFINE f == [k \in 1..Len(cache) |-> cache[k].text]
<1>1. Len(cache) \in Nat
  BY LenProperties DEF CacheInv
<1>2. f \in Bijection(1..Len(cache), CachedTexts)
  <2>1. \A k, l \in 1..Len(cache) : cache[k].text = cache[l].text => k = l
    BY Distinct DEF CacheInv
  <2> QED BY <2>1 DEF CachedTexts, Bijection, Injection, Surjection, IsInjective
<1>3. ExistsBijection(1..Len(cache), CachedTexts)
  BY <1>2 DEF ExistsBijection
<1> QED BY <1>1, <1>3, FS_CountingElements, FS_NatBijection

\* Since the last use of a cached text only cached texts were used
LEMMA SinceCached ==
  ASSUME CacheInv, NEW k \in 1..Len(cache), NEW i \in 1..Len(calls), At(calls, i, cache[k])
  PROVE  UsedSince(i) \subseteq CachedTexts
<1> SUFFICES ASSUME NEW j \in i..Len(calls), calls[j].text # EmptyText
             PROVE  calls[j].text \in CachedTexts
  BY DEF UsedSince
<1>1. Len(calls) \in Nat
  BY LenProperties DEF CacheInv
<1>2. PICK m \in 1..Len(calls) : m >= j /\ At(calls, m, calls[j])
  BY <1>1 DEF CacheInv, LRU, HasLast
<1>3. LastUseIn(calls, m) /\ calls[m].text = calls[j].text /\ ~(m < i)
  BY <1>1, <1>2 DEF At
<1>4. \E l \in 1..Len(cache) : cache[l].text = calls[m].text
  BY <1>3 DEF CacheInv, LRU, Evicted
<1> QED BY <1>3, <1>4 DEF CachedTexts

\* Since the last use of another text all that are cached were used
LEMMA SinceEvicted ==
  ASSUME CacheInv, NEW i \in 1..Len(calls), LastUseIn(calls, i),
         calls[i].text \notin CachedTexts
  PROVE  ~(Cardinality(UsedSince(i)) <= CacheSize)
<1> DEFINE T == CachedTexts \cup {calls[i].text}
<1>1. Len(calls) \in Nat /\ Len(cache) \in Nat
  BY LenProperties DEF CacheInv
<1>2. /\ Len(cache) >= CacheSize
      /\ \A k \in 1..Len(cache), j \in 1..Len(calls) : At(calls, j, cache[k]) => i < j
  BY DEF CacheInv, LRU, Evicted, CachedTexts
<1>3. Len(cache) = CacheSize
  BY <1>1, <1>2, CacheAssumption DEF CacheInv
<1>4. Cardinality(T) = CacheSize + 1
  BY <1>3, CachedTextsCount, FS_AddElement
<1>5. CachedTexts \subseteq UsedSince(i)
  <2> SUFFICES ASSUME NEW k \in 1..Len(cache) PROVE cache[k].text \in UsedSince(i)
    BY DEF CachedTexts
  <2>1. PICK j \in 1..Len(calls) : At(calls, j, cache[k])
    BY DEF CacheInv, LRU, Used
  <2>2. i < j /\ calls[j].text = cache[k].text /\ calls[j].text # EmptyText
    BY <1>2, <2>1 DEF At, LastUseIn
  <2> QED BY <1>1, <2>1, <2>2 DEF UsedSince
<1>6. calls[i].text \in UsedSince(i)
  BY <1>1 DEF UsedSince, LastUseIn
<1>7. IsFiniteSet(UsedSince(i))
  <2>1. IsFiniteSet(Between(calls, i, Len(calls)))
    BY <1>1, TextsBetween
  <2> QED BY <2>1, FS_RemoveElement DEF UsedSince, Between
<1>8. T \subseteq UsedSince(i)
  BY <1>5, <1>6
<1>9. Cardinality(T) <= Cardinality(UsedSince(i)) /\ Cardinality(UsedSince(i)) \in Nat
  BY <1>7, <1>8, FS_Subset, FS_CardinalityType
<1> QED BY <1>4, <1>9, CacheAssumption

\* The cache is the CacheSize texts used last
LEMMA RecencyOfInv ==
  ASSUME CacheInv
  PROVE  CacheIsRecency
<1> DEFINE Kept == {i \in DOMAIN calls : LastUse(i) /\ Cardinality(UsedSince(i)) <= CacheSize}
<1>1. /\ Len(calls) \in Nat /\ DOMAIN calls = 1..Len(calls)
      /\ Len(cache) \in Nat /\ DOMAIN cache = 1..Len(cache)
  BY LenProperties DEF CacheInv
<1>2. \A i \in 1..Len(calls) : LastUse(i) <=> LastUseIn(calls, i)
  BY <1>1 DEF LastUse, LastUseIn
<1>3. ASSUME NEW i \in Kept PROVE calls[i].text \in CachedTexts
  BY <1>1, <1>2, <1>3, SinceEvicted
<1>4. ASSUME NEW k \in 1..Len(cache)
      PROVE  \E i \in Kept : calls[i].text = cache[k].text
  <2>1. PICK i \in 1..Len(calls) : At(calls, i, cache[k])
    BY DEF CacheInv, LRU, Used
  <2>2. UsedSince(i) \subseteq CachedTexts
    BY <2>1, SinceCached
  <2>3. Cardinality(UsedSince(i)) <= Cardinality(CachedTexts) /\ Cardinality(UsedSince(i)) \in Nat
    BY <2>2, CachedTextsCount, FS_Subset, FS_CardinalityType
  <2>4. Cardinality(UsedSince(i)) <= CacheSize
    BY <1>1, <2>3, CachedTextsCount, CacheAssumption DEF CacheInv
  <2> QED BY <1>1, <1>2, <2>1, <2>4 DEF At
<1>5. {cache[k].text : k \in DOMAIN cache} = {calls[i].text : i \in Kept}
  <2> HIDE DEF Kept
  <2>1. CachedTexts = {cache[k].text : k \in DOMAIN cache}
    BY <1>1 DEF CachedTexts
  <2>2. {calls[i].text : i \in Kept} \subseteq CachedTexts
    BY <1>3
  <2>3. CachedTexts \subseteq {calls[i].text : i \in Kept}
    BY <1>4 DEF CachedTexts
  <2> QED BY <2>1, <2>2, <2>3
<1>6. ASSUME NEW k \in DOMAIN cache, NEW l \in DOMAIN cache, NEW i \in Kept, NEW j \in Kept,
             cache[k].text = calls[i].text, cache[l].text = calls[j].text, k < l
      PROVE  i < j
  <2>1. At(calls, i, cache[k]) /\ At(calls, j, cache[l])
    BY <1>1, <1>2, <1>6 DEF At
  <2> QED BY <1>1, <1>6, <2>1 DEF CacheInv, LRU, Ordered
<1> QED BY <1>5, <1>6 DEF CacheIsRecency

\* What was answered stays traceable
LEMMA TraceableKept ==
  ASSUME NEW h \in Seq(Calls), NEW r \in Calls, NEW i \in 1..Len(h), Traceable(h, i)
  PROVE  Traceable(Append(h, r), i)
<1> DEFINE g == Append(h, r)
           uses == {k \in 1..i : h[k].text = h[i].text}
<1>1. Len(h) \in Nat /\ \A k \in 1..i : g[k] = h[k]
  BY Appended
<1> HIDE DEF g
<1>2. uses = {k \in 1..i : g[k].text = g[i].text} /\ g[i] = h[i]
  BY <1>1
<1>3. ASSUME NEW a \in 1..i, NEW b \in 1..i, Keeps(h, a, b)
      PROVE  Keeps(g, a, b)
  <2>1. \A k \in a+1..b-1 : k \in 1..i
    OBVIOUS
  <2>2. \A k \in a+1..b-1 : h[k].text = g[k].text
    BY <1>1, <2>1
  <2>3. {h[k].text : k \in a+1..b-1} = {g[k].text : k \in a+1..b-1}
    BY <2>2, Zenon
  <2>4. g[a] = h[a] /\ g[b] = h[b]
    BY <1>1
  <2> QED BY <1>3, <2>3, <2>4 DEF Keeps
<1> HIDE DEF uses
<1>4. uses \subseteq 1..i
  BY DEF uses
<1> SUFFICES ASSUME h[i].text # EmptyText PROVE Traceable(g, i)
  BY <1>2 DEF Traceable, g
<1>5. PICK j \in uses :
        /\ h[j].up = (h[i].vec = "service")
        /\ \A a \in uses : a >= j /\ a < i => \E b \in uses : a < b /\ Keeps(h, a, b)
  BY DEF Traceable, uses
<1>6. g[j].up = (g[i].vec = "service")
  BY <1>1, <1>2, <1>4, <1>5
<1>7. \A a \in uses : a >= j /\ a < i => \E b \in uses : a < b /\ Keeps(g, a, b)
  BY <1>3, <1>4, <1>5
<1> QED BY <1>2, <1>5, <1>6, <1>7 DEF Traceable

\* So is an answer that the service or the local model gave just now
LEMMA AnsweredNow ==
  ASSUME NEW h \in Seq(Calls), NEW r \in Calls,
         r.text = EmptyText \/ r.up = (r.vec = "service")
  PROVE  Traceable(Append(h, r), Len(h) + 1)
<1> DEFINE g == Append(h, r)
           n == Len(h)
<1>1. n \in Nat /\ g[n + 1] = r
  BY Appended
<1> HIDE DEF g, n
<1> SUFFICES ASSUME g[n + 1].text # EmptyText
             PROVE  \E j \in {k \in 1..n + 1 : g[k].text = g[n + 1].text} :
                      /\ g[j].up = (g[n + 1].vec = "service")
                      /\ \A a \in {k \in 1..n + 1 : g[k].text = g[n + 1].text} :
                           ~(a >= j /\ a < n + 1)
  BY DEF Traceable, g, n
<1>2. n + 1 \in {k \in 1..n + 1 : g[k].text = g[n + 1].text}
  BY <1>1
<1> QED BY <1>1, <1>2

\* And one from the cache, because the entry stayed from its last use on
LEMMA AnsweredFromCache ==
  ASSUME CacheInv, NEW k \in 1..Len(cache), NEW r \in Calls,
         r.text = cache[k].text, r.vec = cache[k].vec
  PROVE  Traceable(Append(calls, r), Len(calls) + 1)
<1> DEFINE g == Append(calls, r)
           n == Len(calls)
<1>1. calls \in Seq(Calls) /\ n \in Nat /\ g[n + 1] = r /\ \A i \in 1..n : g[i] = calls[i]
  BY Appended DEF CacheInv
<1>2. PICK m \in 1..n : At(calls, m, cache[k]) /\ calls[m].vec = cache[k].vec
  BY DEF CacheInv, LRU, Used
<1>3. /\ calls[m].text = r.text /\ calls[m].text # EmptyText /\ g[m] = calls[m]
      /\ \A i \in 1..n : i > m => calls[i].text # r.text
  BY <1>1, <1>2 DEF At, LastUseIn
<1>4. Traceable(g, m)
  BY <1>1, TraceableKept DEF CacheInv
<1>5. UsedSince(m) \subseteq CachedTexts
  BY <1>2, SinceCached
<1> HIDE DEF g, n
<1>6. Keeps(g, m, n + 1)
  <2> DEFINE others == {g[i].text : i \in m+1..(n+1)-1}
  <2>1. others = Between(calls, m + 1, n)
    <3>1. (n + 1) - 1 = n /\ \A i \in m+1..n : g[i] = calls[i]
      BY <1>1
    <3> QED BY <3>1 DEF Between
  <2>2. r.text \notin others
    BY <1>1, <1>3, <2>1 DEF Between
  <2>3. others \ {EmptyText} \subseteq CachedTexts \ {r.text}
    <3>1. others \ {EmptyText} \subseteq UsedSince(m)
      BY <1>1, <2>1 DEF Between, UsedSince, n
    <3> QED BY <1>5, <2>2, <3>1
  <2>4. r.text \in CachedTexts
    BY DEF CachedTexts
  <2>5. Len(cache) \in Nat /\ Len(cache) <= CacheSize
    BY LenProperties DEF CacheInv
  <2>6. /\ IsFiniteSet(CachedTexts \ {r.text})
        /\ Cardinality(CachedTexts \ {r.text}) < CacheSize
        /\ Cardinality(CachedTexts \ {r.text}) \in Nat
    BY <2>4, <2>5, CachedTextsCount, FS_RemoveElement, FS_CardinalityType, CacheAssumption
  <2>7. /\ Cardinality(others \ {EmptyText}) <= Cardinality(CachedTexts \ {r.text})
        /\ Cardinality(others \ {EmptyText}) \in Nat
    BY <2>3, <2>6, FS_Subset, FS_CardinalityType
  <2>8. Cardinality(others \ {EmptyText}) < CacheSize
    BY <2>6, <2>7, CacheAssumption
  <2> QED BY <1>3, <2>2, <2>8 DEF Keeps
<1> DEFINE old == {i \in 1..m : g[i].text = g[m].text}
           uses == {i \in 1..n + 1 : g[i].text = g[n + 1].text}
<1>7. old \subseteq uses /\ n + 1 \in uses /\ m \in uses
  BY <1>1, <1>3
<1>8. \A a \in uses : a <= m \/ a = n + 1
  BY <1>1, <1>3
<1>9. \A a \in uses : a <= m => a \in old
  BY <1>1, <1>3
<1> HIDE DEF old, uses
<1>10. PICK j \in old :
         /\ g[j].up = (g[m].vec = "service")
         /\ \A a \in old : a >= j /\ a < m => \E b \in old : a < b /\ Keeps(g, a, b)
  BY <1>3, <1>4 DEF Traceable, old
<1>11. g[j].up = (g[n + 1].vec = "service")
  BY <1>1, <1>2, <1>3, <1>10
<1>12. ASSUME NEW a \in uses, a >= j, a < n + 1
       PROVE  \E b \in uses : a < b /\ Keeps(g, a, b)
  <2>1. a \in old /\ a \in 1..m
    BY <1>8, <1>9, <1>12 DEF old, uses
  <2>2. CASE a = m
    BY <1>6, <1>7, <1>12, <2>2
  <2>3. CASE a < m
    BY <1>7, <1>10, <1>12, <2>1, <2>3
  <2> QED BY <2>1, <2>2, <2>3
<1>13. Traceable(g, n + 1)
  BY <1>7, <1>10, <1>11, <1>12 DEF Traceable, uses
<1> QED BY <1>13 DEF g, n

LEMMA CallsStayTraceable ==
  ASSUME CacheInv, NEW r \in Calls, Traceable(Append(calls, r), Len(calls) + 1)
  PROVE  \A i \in 1..Len(Append(calls, r)) : Traceable(Append(calls, r), i)
<1>1. calls \in Seq(Calls) /\ Len(calls) \in Nat /\ Len(Append(calls, r)) = Len(calls) + 1
  BY Appended DEF CacheInv
<1>2. \A i \in 1..Len(calls) + 1 : i \in 1..Len(calls) \/ i = Len(calls) + 1
  BY <1>1
<1>3. \A i \in 1..Len(calls) : Traceable(Append(calls, r), i)
  BY <1>1, TraceableKept DEF CacheInv
<1> QED BY <1>1, <1>2, <1>3

LEMMA EmbedKeepsInv ==
  ASSUME CacheInv, NEW text \in EmbTexts \cup {EmptyText}, NEW up \in BOOLEAN, embed(text, up)
  PROVE  CacheInv'
<1>1. CASE text = EmptyText
  <2> DEFINE r == [text |-> EmptyText, up |-> up, vec |-> "zero"]
  <2>1. r \in Calls /\ r.text = EmptyText /\ calls' = Append(calls, r) /\ cache' = cache
    BY <1>1 DEF embed, EmbedEmpty, Return, Calls
  <2> HIDE DEF r
  <2>2. calls' \in Seq(Calls) /\ LRU(cache', calls')
    BY <2>1, Appended, EmptyIsNoUse DEF CacheInv
  <2>3. \A i \in 1..Len(calls') : Traceable(calls', i)
    BY <2>1, AnsweredNow, CallsStayTraceable DEF CacheInv
  <2> QED BY <2>1, <2>2, <2>3 DEF CacheInv
<1>2. CASE text # EmptyText /\ EmbedHit(text, up)
  <2> DEFINE k == Position(text)
             e == Entry(text)
             r == [text |-> text, up |-> up, vec |-> e.vec]
  <2>1. DOMAIN cache = 1..Len(cache) /\ Len(cache) \in Nat
        /\ \A i \in 1..Len(cache) : cache[i] \in Entries
    BY LenProperties, ElementOfSeq DEF CacheInv
  <2>2. k \in 1..Len(cache) /\ e = cache[k] /\ e.text = text /\ e \in Entries
    BY <1>2, <2>1 DEF EmbedHit, Hit, Position, Entry
  <2>3. /\ cache' = Append(Without(e.text), e) /\ calls' = Append(calls, r)
        /\ Hit(e.text)
    BY <1>2, <2>2 DEF EmbedHit, CacheGet, Return
  <2>4. r \in Calls /\ r.text = e.text /\ r.vec = e.vec
    BY <2>2 DEF Calls, Entries
  <2> HIDE DEF k, e, r
  <2>5. /\ cache' \in Seq(Entries) /\ Len(cache') = Len(cache)
        /\ LRU(cache', calls')
    BY <2>2, <2>3, <2>4, UseIsLast DEF CacheInv
  <2>6. Traceable(calls', Len(calls) + 1)
    BY <2>2, <2>3, <2>4, AnsweredFromCache
  <2>7. \A i \in 1..Len(calls') : Traceable(calls', i)
    BY <2>3, <2>4, <2>6, CallsStayTraceable
  <2>8. calls' \in Seq(Calls)
    BY <2>3, <2>4, Appended DEF CacheInv
  <2> QED BY <2>5, <2>7, <2>8 DEF CacheInv
<1>3. CASE text # EmptyText /\ EmbedMiss(text, up)
  <2> DEFINE vec == IF up THEN "service" ELSE "local"
             e == [text |-> text, vec |-> vec]
             r == [text |-> text, up |-> up, vec |-> vec]
             c == Append(Without(text), e)
  <2>1. CASE UNCHANGED <<cache, calls>>
    BY <2>1 DEF CacheInv
  <2>2. CASE cache' = CacheSet(text, vec) /\ Return(text, up, vec)
    <3>1. /\ cache' = (IF Len(c) > CacheSize THEN Tail(c) ELSE c)
          /\ calls' = Append(calls, r) /\ ~Hit(text)
      BY <1>3, <2>2 DEF CacheSet, Return, EmbedMiss
    <3>2. /\ e \in Entries /\ r \in Calls /\ r.text = e.text /\ r.vec = e.vec /\ e.text = text
          /\ r.up = (r.vec = "service")
      BY <1>3 DEF Entries, Calls, Vectors
    <3>3. c = Append(Without(e.text), e)
      BY <3>2
    <3> HIDE DEF e, r, c
    <3>4. /\ c \in Seq(Entries) /\ Len(c) = Len(cache) + 1 /\ LRU(c, calls')
      BY <3>1, <3>2, <3>3, UseIsLast DEF CacheInv
    <3>5. calls' \in Seq(Calls)
      BY <3>1, <3>2, Appended DEF CacheInv
    <3>6. \A i \in 1..Len(calls') : Traceable(calls', i)
      BY <3>1, <3>2, AnsweredNow, CallsStayTraceable DEF CacheInv
    <3>7. Len(cache) \in Nat /\ Len(cache) <= CacheSize
      BY LenProperties DEF CacheInv
    <3>8. CASE Len(c) > CacheSize
      <4>1. Len(c) = CacheSize + 1
        BY <3>4, <3>7, <3>8, CacheAssumption
      <4>2. Tail(c) \in Seq(Entries) /\ Len(Tail(c)) = CacheSize /\ LRU(Tail(c), calls')
        BY <3>4, <3>5, <4>1, FirstIsEvicted
      <4> QED BY <3>1, <3>5, <3>6, <3>8, <4>2, CacheAssumption DEF CacheInv
    <3>9. CASE ~(Len(c) > CacheSize)
      <4>1. Len(c) <= CacheSize
        BY <3>4, <3>7, <3>9, CacheAssumption
      <4> QED BY <3>1, <3>4, <3>5, <3>6, <3>9, <4>1 DEF CacheInv
    <3> QED BY <3>8, <3>9
  <2> QED BY <1>3, <2>1, <2>2 DEF EmbedMiss
<1> QED BY <1>1, <1>2, <1>3 DEF embed

LEMMA CacheInvariance == CacheSpec => []CacheInv
<1>1. CacheInit => CacheInv
  <2> SUFFICES ASSUME CacheInit PROVE CacheInv
    OBVIOUS
  <2>1. /\ cache = <<>> /\ calls = <<>> /\ cache \in Seq(Entries) /\ calls \in Seq(Calls)
        /\ Len(cache) = 0 /\ Len(calls) = 0
    BY EmptySeq DEF CacheInit
  <2> QED BY <2>1, CacheAssumption DEF CacheInv, LRU, Used, Ordered, Evicted, HasLast
<1>2. CacheInv /\ [CacheNext]_cacheVars => CacheInv'
  <2>1. CacheInv /\ UNCHANGED <<cache, calls>> => CacheInv'
    BY DEF CacheInv
  <2> QED BY <2>1, EmbedKeepsInv DEF CacheNext, cacheVars, DisableFallback
<1> QED BY <1>1, <1>2, PTL DEF CacheSpec

\* The cache holds the texts used last, in the order of their uses (_LRUCache)
THEOREM CacheHoldsRecent == CacheSpec => []CacheIsRecency
BY CacheInvariance, RecencyOfInv, PTL

\* Every vector is the one of the service or of the local model that answered for
\* its text while the entry stayed cached (embed)
THEOREM AnswersTraceable == CacheSpec => []AnswersAreTraceable
<1>1. CacheInv => AnswersAreTraceable
  <2> SUFFICES ASSUME CacheInv PROVE AnswersAreTraceable
    OBVIOUS
  <2>1. DOMAIN calls = 1..Len(calls)
    BY LenProperties DEF CacheInv
  <2> QED BY <2>1 DEF CacheInv, AnswersAreTraceable, Traceable, StaysCached, Keeps
<1> QED BY <1>1, CacheInvariance, PTL
=============================================================================
