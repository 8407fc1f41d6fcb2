-------------------------- MODULE ConnectionProofs --------------------------
(***************************************************************************)
(* Theorems about Stream, for any bytes, any sizes of the calls, of the    *)
(* lists and of the socket, and about Echo, for any connections, any       *)
(* number of bytes and any size of the buffer and the sockets.             *)
(*                                                                         *)
(* FlattenSeq is recursive.  What it does to every sequence is shown by    *)
(* the least counterexample: a set of numbers that is not empty has a      *)
(* least one.                                                              *)
(***************************************************************************)
EXTENDS Stream, Echo, Integers, WellFoundedInduction, SequenceTheorems, TLAPS

-----------------------------------------------------------------------------

LEMMA LeastNumber ==
    ASSUME NEW T \in SUBSET Nat, T # {}
    PROVE  \E n \in T : \A m \in T : n <= m
<1>1. OpToRel(<, Nat) = {p \in Nat \X Nat : p[1] < p[2]}
    BY Zenon DEF OpToRel
<1>2. \E n \in T : \A m \in T : <<m, n>> \notin OpToRel(<, Nat)
    BY WFMin, NatLessThanWellFounded, Zenon
<1>3. PICK n \in T : \A m \in T : <<m, n>> \notin {p \in Nat \X Nat : p[1] < p[2]}
    BY <1>1, <1>2
<1>4. \A m \in T : ~ (m < n)
    BY <1>3
<1> QED BY <1>4

-----------------------------------------------------------------------------
(* What the steps do to sequences of bytes.                                *)

Str == Seq(Nat)
Counted(n) == [k \in 1 .. n |-> k]

LEMMA Joined ==
    /\ <<>> \in Str /\ \A a \in Str : a \o <<>> = a /\ <<>> \o a = a
    /\ \A a, b \in Str : a \o b \in Str /\ Len(a) \in Nat /\ Len(a \o b) = Len(a) + Len(b)
    /\ \A a, b, d \in Str : (a \o b) \o d = a \o (b \o d)
<1>1. <<>> \in Str /\ \A a \in Str : a \o <<>> = a /\ <<>> \o a = a
    BY DEF Str
<1>2. ASSUME NEW a \in Str, NEW b \in Str
      PROVE  a \o b \in Str /\ Len(a) \in Nat /\ Len(a \o b) = Len(a) + Len(b)
    BY DEF Str
<1>3. ASSUME NEW a \in Str, NEW b \in Str, NEW d \in Str PROVE (a \o b) \o d = a \o (b \o d)
    BY DEF Str
<1> QED BY <1>1, <1>2, <1>3

LEMMA EmptyString == \A s \in Str : Len(s) = 0 <=> s = <<>>
    BY EmptySeq DEF Str

LEMMA CountedOn ==
    ASSUME NEW n \in Nat, NEW m \in Nat
    PROVE  /\ Counted(n) \in Str /\ [k \in 1 .. m |-> n + k] \in Str
           /\ Len([k \in 1 .. m |-> n + k]) = m
           /\ Counted(n) \o [k \in 1 .. m |-> n + k] = Counted(n + m)
<1> DEFINE a == Counted(n)
           b == [k \in 1 .. m |-> n + k]
<1>1. a \in Seq(Nat) /\ Len(a) = n /\ b \in Seq(Nat) /\ Len(b) = m
    BY DEF Counted
<1>2. Counted(n + m) \in Seq(Nat) /\ Len(Counted(n + m)) = n + m
    BY DEF Counted
<1>3. /\ a \o b \in Seq(Nat) /\ Len(a \o b) = n + m
      /\ \A k \in 1 .. n + m : (a \o b)[k] = IF k <= n THEN a[k] ELSE b[k - n]
  <2> HIDE DEF a, b
  <2> QED BY <1>1, ConcatProperties
<1>4. \A k \in 1 .. n + m : (a \o b)[k] = Counted(n + m)[k]
    BY <1>3 DEF Counted
<1> QED BY <1>1, <1>2, <1>3, <1>4, SeqEqual DEF Str

LEMMA Parts ==
    ASSUME NEW s \in Str, NEW k \in 0 .. Len(s)
    PROVE  /\ Upto(s, k) \in Str /\ Len(Upto(s, k)) = k
           /\ From(s, k) \in Str /\ Len(From(s, k)) = Len(s) - k
           /\ \A i \in 1 .. k : Upto(s, k)[i] = s[i]
           /\ \A i \in 1 .. Len(s) - k : From(s, k)[i] = s[i + k]
<1>1. Len(s) \in Nat /\ s \in Seq(Nat) /\ \A i \in 1 .. Len(s) : s[i] \in Nat
    BY DEF Str
<1>2. /\ SubSeq(s, 1, k) \in Seq(Nat) /\ Len(SubSeq(s, 1, k)) = k
      /\ \A i \in 1 .. k : SubSeq(s, 1, k)[i] = s[i]
    BY <1>1
<1>3. /\ SubSeq(s, k + 1, Len(s)) \in Seq(Nat) /\ Len(SubSeq(s, k + 1, Len(s))) = Len(s) - k
      /\ \A i \in 1 .. Len(s) - k : SubSeq(s, k + 1, Len(s))[i] = s[i + k]
    BY <1>1
<1> QED BY <1>2, <1>3 DEF Upto, From, Str

(* Sequences are equal when their elements are.                            *)
LEMMA Equal ==
    ASSUME NEW s \in Str, NEW t \in Str, Len(s) = Len(t), \A i \in 1 .. Len(s) : s[i] = t[i]
    PROVE  s = t
BY SeqEqual DEF Str

LEMMA Element ==
    ASSUME NEW s \in Str, NEW t \in Str, NEW i \in 1 .. Len(s) + Len(t)
    PROVE  (s \o t)[i] = IF i <= Len(s) THEN s[i] ELSE t[i - Len(s)]
BY ConcatProperties DEF Str

LEMMA Parted ==
    ASSUME NEW s \in Str, NEW k \in 0 .. Len(s)
    PROVE  Upto(s, k) \o From(s, k) = s
<1>1. Len(s) \in Nat
    BY Joined
<1>2. /\ Upto(s, k) \in Str /\ Len(Upto(s, k)) = k
      /\ From(s, k) \in Str /\ Len(From(s, k)) = Len(s) - k
      /\ \A i \in 1 .. k : Upto(s, k)[i] = s[i]
      /\ \A i \in 1 .. Len(s) - k : From(s, k)[i] = s[i + k]
    BY Parts
<1>3. Upto(s, k) \o From(s, k) \in Str /\ Len(Upto(s, k) \o From(s, k)) = Len(s)
    BY <1>1, <1>2, Joined
<1>4. ASSUME NEW i \in 1 .. Len(s) PROVE (Upto(s, k) \o From(s, k))[i] = s[i]
  <2>1. (Upto(s, k) \o From(s, k))[i] = IF i <= k THEN Upto(s, k)[i] ELSE From(s, k)[i - k]
      BY <1>1, <1>2, Element
  <2> QED BY <1>1, <1>2, <2>1
<1> QED BY <1>1, <1>3, <1>4, Equal

(* A cut of what is joined cuts one of the two.                            *)
LEMMA UptoJoined ==
    ASSUME NEW s \in Str, NEW t \in Str, NEW k \in 0 .. Len(s)
    PROVE  Upto(s \o t, k) = Upto(s, k)
<1>1. PICK st : st = s \o t
    OBVIOUS
<1>2. Len(s) \in Nat /\ Len(t) \in Nat /\ st \in Str /\ Len(st) = Len(s) + Len(t)
    BY <1>1, Joined
<1>3. k \in 0 .. Len(st)
    BY <1>2
<1>4. /\ Upto(s, k) \in Str /\ Len(Upto(s, k)) = k /\ \A i \in 1 .. k : Upto(s, k)[i] = s[i]
      /\ Upto(st, k) \in Str /\ Len(Upto(st, k)) = k /\ \A i \in 1 .. k : Upto(st, k)[i] = st[i]
    BY <1>2, <1>3, Parts
<1>5. \A i \in 1 .. k : st[i] = s[i]
    BY <1>1, <1>2, Element
<1> QED BY <1>1, <1>4, <1>5, Equal

LEMMA UptoUpto ==
    ASSUME NEW s \in Str, NEW m \in 0 .. Len(s), NEW k \in 0 .. m
    PROVE  Upto(Upto(s, m), k) = Upto(s, k)
<1>1. Upto(s, m) \in Str /\ From(s, m) \in Str /\ Len(Upto(s, m)) = m
    BY Parts
<1>2. Upto(Upto(s, m) \o From(s, m), k) = Upto(Upto(s, m), k)
    BY <1>1, UptoJoined
<1> QED BY <1>2, Parted

LEMMA FromJoined ==
    ASSUME NEW s \in Str, NEW t \in Str, NEW k \in 0 .. Len(s)
    PROVE  From(s \o t, k) = From(s, k) \o t
<1>1. PICK st : st = s \o t
    OBVIOUS
<1>2. Len(s) \in Nat /\ Len(t) \in Nat /\ st \in Str /\ Len(st) = Len(s) + Len(t)
    BY <1>1, Joined
<1>3. k \in 0 .. Len(st)
    BY <1>2
<1>4. PICK h : h = From(s, k)
    OBVIOUS
<1>5. /\ h \in Str /\ Len(h) = Len(s) - k /\ \A i \in 1 .. Len(s) - k : h[i] = s[i + k]
      /\ From(st, k) \in Str /\ Len(From(st, k)) = Len(st) - k
      /\ \A i \in 1 .. Len(st) - k : From(st, k)[i] = st[i + k]
    BY <1>2, <1>3, <1>4, Parts
<1>6. PICK ht : ht = h \o t
    OBVIOUS
<1>7. ht \in Str /\ Len(ht) = Len(st) - k
    BY <1>2, <1>5, <1>6, Joined
<1>8. ASSUME NEW i \in 1 .. Len(st) - k PROVE From(st, k)[i] = ht[i]
  <2>1. st[i + k] = IF i + k <= Len(s) THEN s[i + k] ELSE t[i + k - Len(s)]
      BY <1>1, <1>2, Element
  <2>2. ht[i] = IF i <= Len(h) THEN h[i] ELSE t[i - Len(h)]
      BY <1>2, <1>5, <1>6, Element
  <2>3. i - Len(h) = i + k - Len(s)
      BY <1>2, <1>5
  <2> QED BY <1>2, <1>5, <2>1, <2>2, <2>3
<1>9. From(st, k) = ht
    BY <1>5, <1>7, <1>8, Equal
<1> QED BY <1>1, <1>4, <1>6, <1>9

LEMMA FromSecond ==
    ASSUME NEW s \in Str, NEW t \in Str, NEW k \in 0 .. Len(t)
    PROVE  From(s \o t, Len(s) + k) = From(t, k)
<1>1. PICK st : st = s \o t
    OBVIOUS
<1>2. Len(s) \in Nat /\ Len(t) \in Nat /\ st \in Str /\ Len(st) = Len(s) + Len(t)
    BY <1>1, Joined
<1>3. PICK m : m = Len(s) + k
    OBVIOUS
<1>4. m \in 0 .. Len(st) /\ Len(st) - m = Len(t) - k
    BY <1>2, <1>3
<1>5. /\ From(t, k) \in Str /\ Len(From(t, k)) = Len(t) - k
      /\ \A i \in 1 .. Len(t) - k : From(t, k)[i] = t[i + k]
    BY Parts
<1>6. /\ From(st, m) \in Str /\ Len(From(st, m)) = Len(t) - k
      /\ \A i \in 1 .. Len(t) - k : From(st, m)[i] = st[i + m]
  <2>1. /\ From(st, m) \in Str /\ Len(From(st, m)) = Len(st) - m
        /\ \A i \in 1 .. Len(st) - m : From(st, m)[i] = st[i + m]
      BY <1>2, <1>4, Parts
  <2> QED BY <1>4, <2>1
<1>7. ASSUME NEW i \in 1 .. Len(t) - k PROVE From(st, m)[i] = From(t, k)[i]
  <2>1. i + m \in 1 .. Len(s) + Len(t) /\ ~ (i + m <= Len(s)) /\ i + m - Len(s) = i + k
      BY <1>2, <1>3
  <2>2. PICK j : j = i + m
      OBVIOUS
  <2>3. st[i + m] = t[i + k]
    <3>1. st[j] = IF j <= Len(s) THEN s[j] ELSE t[j - Len(s)]
        BY <1>1, <2>1, <2>2, Element
    <3>2. ~ (j <= Len(s)) /\ j - Len(s) = i + k
        BY <1>2, <1>3, <2>1, <2>2
    <3>3. st[j] = t[j - Len(s)]
        BY <3>1, <3>2, Zenon
    <3> QED BY <2>2, <3>2, <3>3, Zenon
  <2> QED BY <1>5, <1>6, <2>3
<1>8. From(st, m) = From(t, k)
    BY <1>5, <1>6, <1>7, Equal
<1> QED BY <1>1, <1>3, <1>8

-----------------------------------------------------------------------------
(* What FlattenSeq does.                                                   *)

Chunks == Seq(Str)

(* f[k] is the first k sequences of ss joined.                             *)
Flattens(f, ss, n) == f = [k \in 1 .. n |-> IF k = 1 THEN ss[k] ELSE f[k - 1] \o ss[k]]

Steps(f, ss, n) == \A k \in 1 .. n : f[k] = IF k = 1 THEN ss[k] ELSE f[k - 1] \o ss[k]

LEMMA FlattensSteps ==
    ASSUME NEW ss, NEW n, NEW f, Flattens(f, ss, n)
    PROVE  Steps(f, ss, n)
<1> DEFINE g == [j \in 1 .. n |-> IF j = 1 THEN ss[j] ELSE f[j - 1] \o ss[j]]
<1>1. f = g
    BY Zenon DEF Flattens
<1>2. ASSUME NEW k \in 1 .. n PROVE f[k] = IF k = 1 THEN ss[k] ELSE f[k - 1] \o ss[k]
  <2>1. g[k] = IF k = 1 THEN ss[k] ELSE f[k - 1] \o ss[k]
      BY Zenon
  <2>2. f[k] = g[k]
      BY <1>1, Zenon
  <2> QED BY <2>1, <2>2, Zenon
<1> QED BY <1>2, Zenon DEF Steps

LEMMA FlattensOnce ==
    ASSUME NEW ss, NEW n \in Nat, NEW f, NEW g, Flattens(f, ss, n), Flattens(g, ss, n)
    PROVE  f = g
<1> DEFINE T == {k \in 1 .. n : f[k] # g[k]}
<1>1. T \in SUBSET Nat /\ \A k : k \in T <=> k \in 1 .. n /\ f[k] # g[k]
    OBVIOUS
<1>2. ASSUME T # {} PROVE FALSE
  <2> HIDE DEF T
  <2>1. PICK k \in T : \A m \in T : k <= m
      BY <1>1, <1>2, LeastNumber
  <2>2. k \in 1 .. n /\ f[k] # g[k]
      BY <1>1, <2>1
  <2>3. /\ f[k] = IF k = 1 THEN ss[k] ELSE f[k - 1] \o ss[k]
        /\ g[k] = IF k = 1 THEN ss[k] ELSE g[k - 1] \o ss[k]
      BY <2>2, FlattensSteps DEF Steps
  <2>4. k # 1
      BY <2>2, <2>3, Zenon
  <2>5. k - 1 \in 1 .. n /\ k - 1 \notin T
      BY <2>1, <2>2, <2>4
  <2>6. f[k - 1] = g[k - 1]
      BY <1>1, <2>5, Zenon
  <2> QED BY <2>2, <2>3, <2>6, Zenon
<1>3. f = [k \in 1 .. n |-> f[k]] /\ g = [k \in 1 .. n |-> g[k]]
    BY DEF Flattens
<1> QED BY <1>1, <1>2, <1>3

LEMMA SomethingFlattens ==
    ASSUME NEW ss \in Chunks, NEW n \in 0 .. Len(ss)
    PROVE  \E f \in [1 .. n -> Str] : Flattens(f, ss, n)
<1> DEFINE Can(m) == \E f \in [1 .. m -> Str] : Flattens(f, ss, m)
           T == {m \in 0 .. Len(ss) : ~ Can(m)}
<1>1. Len(ss) \in Nat /\ \A k \in 1 .. Len(ss) : ss[k] \in Str
    BY DEF Chunks
<1>2. T \in SUBSET Nat /\ \A m : m \in T <=> m \in 0 .. Len(ss) /\ ~ Can(m)
  <2> HIDE DEF Can
  <2> QED BY <1>1
<1>3. ASSUME T # {} PROVE FALSE
  <2> HIDE DEF T
  <2>1. PICK m \in T : \A k \in T : m <= k
      BY <1>2, <1>3, LeastNumber
  <2>2. m # 0
    <3>1. Flattens([k \in 1 .. 0 |-> <<>>], ss, 0) /\ [k \in 1 .. 0 |-> <<>>] \in [1 .. 0 -> Str]
        BY DEF Flattens
    <3> QED BY <1>2, <2>1, <3>1
  <2>3. m \in 1 .. Len(ss) /\ ss[m] \in Str /\ m - 1 \in 0 .. Len(ss) /\ m - 1 \notin T
    <3> HIDE DEF Can
    <3> QED BY <1>1, <1>2, <2>1, <2>2
  <2>4. PICK f \in [1 .. m - 1 -> Str] : Flattens(f, ss, m - 1)
      BY <1>2, <2>3
  <2>5. PICK last \in Str : last = IF m = 1 THEN ss[m] ELSE f[m - 1] \o ss[m]
    <3>1. m # 1 => f[m - 1] \in Str
        BY <1>1, <2>3, <2>4
    <3> QED BY <2>3, <3>1, Joined
  <2>6. PICK g : g = [k \in 1 .. m |-> IF k < m THEN f[k] ELSE last]
      OBVIOUS
  <2>7. g \in [1 .. m -> Str] /\ g[m] = last /\ \A k \in 1 .. m - 1 : g[k] = f[k]
      BY <1>1, <2>3, <2>4, <2>6
  <2>8. ASSUME NEW k \in 1 .. m PROVE g[k] = IF k = 1 THEN ss[k] ELSE g[k - 1] \o ss[k]
    <3>1. CASE k < m
      <4>1. k \in 1 .. m - 1 /\ (k # 1 => k - 1 \in 1 .. m - 1) /\ m - 1 \in Nat
          BY <1>1, <2>3, <3>1
      <4>2. PICK l \in Nat : l = m - 1
          BY <4>1
      <4>3. Flattens(f, ss, l) /\ k \in 1 .. l
          BY <2>4, <4>1, <4>2
      <4>4. f[k] = IF k = 1 THEN ss[k] ELSE f[k - 1] \o ss[k]
        <5>1. Steps(f, ss, l)
            BY <4>3, FlattensSteps
        <5> QED BY <4>3, <5>1, Zenon DEF Steps
      <4>5. g[k] = f[k] /\ (k # 1 => g[k - 1] = f[k - 1])
          BY <2>7, <4>1
      <4> QED BY <4>4, <4>5, Zenon
    <3>2. CASE k = m
      <4>1. m # 1 => m - 1 \in 1 .. m - 1
          BY <1>1, <2>3
      <4>2. g[m] = last /\ (m # 1 => g[m - 1] = f[m - 1])
          BY <2>7, <4>1
      <4> QED BY <2>5, <3>2, <4>2, Zenon
    <3> QED BY <1>1, <2>3, <3>1, <3>2
  <2>9. Flattens(g, ss, m)
      BY <2>7, <2>8 DEF Flattens
  <2> QED BY <1>2, <2>1, <2>7, <2>9
<1> QED BY <1>2, <1>3

LEMMA FlatIs ==
    ASSUME NEW ss \in Chunks, NEW f, Flattens(f, ss, Len(ss))
    PROVE  FlattenSeq(ss) = IF ss = <<>> THEN <<>> ELSE f[Len(ss)]
<1>1. Len(ss) \in Nat /\ (Len(ss) = 0 <=> ss = <<>>)
    BY EmptySeq DEF Chunks
<1>2. CASE ss = <<>>
    BY <1>1, <1>2 DEF FlattenSeq
<1>3. CASE ss # <<>>
  <2> DEFINE g == CHOOSE h : Flattens(h, ss, Len(ss))
  <2>1. Flattens(g, ss, Len(ss))
      OBVIOUS
  <2>2. f = g
    <3> HIDE DEF g
    <3> QED BY <1>1, <2>1, FlattensOnce
  <2>3. FlattenSeq(ss) = g[Len(ss)]
      BY <1>1, <1>3 DEF FlattenSeq, Flattens
  <2> QED BY <1>3, <2>2, <2>3, Zenon
<1> QED BY <1>2, <1>3
LEMMA FlatAppend ==
    ASSUME NEW ss \in Chunks, NEW s \in Str
    PROVE  /\ FlattenSeq(ss) \in Str
           /\ FlattenSeq(Append(ss, s)) = FlattenSeq(ss) \o s
<1>1. PICK n \in Nat : n = Len(ss)
    BY DEF Chunks
<1>2. PICK tt \in Chunks : tt = Append(ss, s)
  <2>1. Append(ss, s) \in Chunks
      BY AppendProperties DEF Chunks
  <2> QED BY <2>1
<1>3. /\ Len(tt) = n + 1 /\ tt # <<>> /\ tt[n + 1] = s /\ \A k \in 1 .. n : tt[k] = ss[k]
      /\ n = 0 <=> ss = <<>>
    BY <1>1, <1>2, AppendProperties, EmptySeq DEF Chunks
<1>4. PICK g \in [1 .. n + 1 -> Str] : Flattens(g, tt, n + 1)
    BY <1>3, SomethingFlattens
<1>5. PICK f : f = [k \in 1 .. n |-> g[k]]
    OBVIOUS
<1>6. Steps(g, tt, n + 1)
    BY <1>4, FlattensSteps
<1>7. Flattens(f, ss, n)
  <2>1. ASSUME NEW k \in 1 .. n PROVE f[k] = IF k = 1 THEN ss[k] ELSE f[k - 1] \o ss[k]
    <3>0. k \in 1 .. n + 1
        BY <1>1
    <3>1. g[k] = IF k = 1 THEN tt[k] ELSE g[k - 1] \o tt[k]
        BY <1>6, <3>0 DEF Steps
    <3>2. tt[k] = ss[k] /\ f[k] = g[k] /\ (k # 1 => f[k - 1] = g[k - 1])
        BY <1>3, <1>5
    <3> QED BY <3>1, <3>2, Zenon
  <2> QED BY <1>5, <2>1 DEF Flattens
<1>8. FlattenSeq(ss) = IF ss = <<>> THEN <<>> ELSE f[n]
    BY <1>1, <1>7, FlatIs
<1>9. FlattenSeq(tt) = g[n + 1]
    BY <1>3, <1>4, FlatIs
<1>10. CASE ss = <<>>
  <2>1. n = 0 /\ FlattenSeq(ss) = <<>> /\ FlattenSeq(tt) = s
      BY <1>3, <1>6, <1>8, <1>9, <1>10 DEF Steps
  <2> QED BY <1>2, <2>1, Joined
<1>11. CASE ss # <<>>
  <2>1. PICK m \in Nat : m = n + 1
      BY <1>1
  <2>2. m # 1 /\ n \in 1 .. n /\ n \in 1 .. m /\ m \in 1 .. m /\ m - 1 = n
      BY <1>3, <1>11, <2>1
  <2>3. f[n] = g[n] /\ g[n] \in Str
      BY <1>4, <1>5, <2>1, <2>2
  <2>4. Steps(g, tt, m) /\ tt[m] = s /\ FlattenSeq(tt) = g[m]
      BY <1>3, <1>6, <1>9, <2>1, Zenon
  <2>5. g[m] = IF m = 1 THEN tt[m] ELSE g[m - 1] \o tt[m]
      BY <2>2, <2>4, Zenon DEF Steps
  <2>6. g[m] = g[n] \o s
      BY <2>2, <2>4, <2>5, Zenon
  <2> QED BY <1>2, <1>8, <1>11, <2>3, <2>4, <2>6, Zenon
<1> QED BY <1>10, <1>11

(* Every prefix is the one before it with one more at its end.             *)
LEMMA Grows ==
    ASSUME NEW tt \in Chunks, NEW k \in 1 .. Len(tt)
    PROVE  /\ Upto(tt, k - 1) \in Chunks /\ tt[k] \in Str
           /\ Upto(tt, k) = Append(Upto(tt, k - 1), tt[k])
<1>1. Len(tt) \in Nat /\ tt \in Seq(Str) /\ \A i \in 1 .. Len(tt) : tt[i] \in Str
    BY DEF Chunks
<1>2. PICK u : u = SubSeq(tt, 1, k - 1)
    OBVIOUS
<1>3. u \in Seq(Str) /\ SubSeq(tt, 1, k) = u \o <<tt[k]>>
    BY <1>1, <1>2, SubSeqRecursiveSecond, SubSeqProperties
<1>4. Append(u, tt[k]) = u \o <<tt[k]>>
    BY <1>1, <1>3, AppendIsConcat
<1> QED BY <1>1, <1>2, <1>3, <1>4 DEF Upto, Chunks

LEMMA Whole ==
    ASSUME NEW tt \in Chunks
    PROVE  Len(tt) \in Nat /\ Upto(tt, 0) = <<>> /\ Upto(tt, Len(tt)) = tt
<1>1. Len(tt) \in Nat /\ tt \in Seq(Str)
    BY DEF Chunks
<1>2. SubSeq(tt, 1, Len(tt)) = tt
    BY <1>1, SubSeqFull
<1>3. SubSeq(tt, 1, 0) = <<>>
    BY SubSeqEmpty
<1> QED BY <1>1, <1>2, <1>3 DEF Upto

LEMMA FlatConcat ==
    ASSUME NEW ss \in Chunks, NEW tt \in Chunks
    PROVE  FlattenSeq(ss \o tt) = FlattenSeq(ss) \o FlattenSeq(tt)
<1> DEFINE Is(k) == FlattenSeq(ss \o Upto(tt, k)) = FlattenSeq(ss) \o FlattenSeq(Upto(tt, k))
           T == {k \in 0 .. Len(tt) : ~ Is(k)}
<1>1. Len(tt) \in Nat /\ Upto(tt, 0) = <<>> /\ Upto(tt, Len(tt)) = tt
    BY Whole
<1>2. T \in SUBSET Nat /\ \A k : k \in T <=> k \in 0 .. Len(tt) /\ ~ Is(k)
  <2> HIDE DEF Is
  <2> QED BY <1>1
<1>3. ASSUME T # {} PROVE FALSE
  <2> HIDE DEF T
  <2>1. PICK k \in T : \A m \in T : k <= m
      BY <1>2, <1>3, LeastNumber
  <2>2. Is(0)
    <3>1. FlattenSeq(<<>>) = <<>>
        BY DEF FlattenSeq
    <3>2. ss \o <<>> = ss
        BY DEF Chunks
    <3>3. FlattenSeq(ss) \o <<>> = FlattenSeq(ss)
        BY FlatAppend, Joined
    <3> QED BY <1>1, <3>1, <3>2, <3>3, Zenon
  <2>3. k \in 1 .. Len(tt) /\ k - 1 \in 0 .. Len(tt) /\ k - 1 \notin T
    <3> HIDE DEF Is
    <3> QED BY <1>1, <1>2, <2>1, <2>2
  <2>4. PICK u \in Chunks, s \in Str : u = Upto(tt, k - 1) /\ Upto(tt, k) = Append(u, s)
      BY <2>3, Grows
  <2>5. FlattenSeq(ss \o u) = FlattenSeq(ss) \o FlattenSeq(u)
      BY <1>2, <2>3, <2>4, Zenon
  <2>6. ss \o u \in Chunks /\ ss \o Append(u, s) = Append(ss \o u, s)
      BY DEF Chunks
  <2>7. /\ FlattenSeq(ss) \in Str /\ FlattenSeq(u) \in Str
        /\ FlattenSeq(Append(ss \o u, s)) = FlattenSeq(ss \o u) \o s
        /\ FlattenSeq(Append(u, s)) = FlattenSeq(u) \o s
      BY <2>6, FlatAppend
  <2>8. (FlattenSeq(ss) \o FlattenSeq(u)) \o s = FlattenSeq(ss) \o (FlattenSeq(u) \o s)
      BY <2>7, Joined
  <2>9. Is(k)
      BY <2>4, <2>5, <2>6, <2>7, <2>8, Zenon
  <2> QED BY <1>2, <2>1, <2>9, Zenon
<1>4. Is(Len(tt))
    BY <1>1, <1>2, <1>3
<1> QED BY <1>1, <1>4, Zenon

LEMMA FlatEmpty == FlattenSeq(<<>>) = <<>>
    BY DEF FlattenSeq

LEMMA FlatSingle ==
    ASSUME NEW s \in Str
    PROVE  <<s>> \in Chunks /\ FlattenSeq(<<s>>) = s
<1>1. <<>> \in Chunks /\ <<s>> \in Chunks /\ <<s>> = Append(<<>>, s)
    BY DEF Chunks
<1>2. FlattenSeq(<<s>>) = <<>> \o s
    BY <1>1, FlatAppend, FlatEmpty
<1> QED BY <1>1, <1>2, Joined

LEMMA FlatFirst ==
    ASSUME NEW ss \in Chunks, ss # <<>>
    PROVE  /\ Head(ss) \in Str /\ Tail(ss) \in Chunks /\ Len(Tail(ss)) = Len(ss) - 1
           /\ Head(ss) = ss[1] /\ \A i \in 1 .. Len(ss) - 1 : Tail(ss)[i] = ss[i + 1]
           /\ FlattenSeq(Tail(ss)) \in Str /\ FlattenSeq(ss) = Head(ss) \o FlattenSeq(Tail(ss))
<1>1. /\ Head(ss) \in Str /\ Tail(ss) \in Chunks /\ Len(Tail(ss)) = Len(ss) - 1
      /\ Head(ss) = ss[1] /\ \A i \in 1 .. Len(ss) - 1 : Tail(ss)[i] = ss[i + 1]
    BY HeadTailProperties DEF Chunks
<1>2. ss = <<Head(ss)>> \o Tail(ss)
    BY DEF Chunks
<1>3. FlattenSeq(<<Head(ss)>> \o Tail(ss)) = Head(ss) \o FlattenSeq(Tail(ss))
  <2>1. <<Head(ss)>> \in Chunks /\ FlattenSeq(<<Head(ss)>>) = Head(ss)
      BY <1>1, FlatSingle
  <2> QED BY <1>1, <2>1, FlatConcat
<1>4. FlattenSeq(Tail(ss)) \in Str
    BY <1>1, FlatAppend, <1>1
<1> QED BY <1>1, <1>2, <1>3, <1>4

LEMMA FlatReplaced ==
    ASSUME NEW ss \in Chunks, ss # <<>>, NEW s \in Str
    PROVE  LET tt == [ss EXCEPT ![1] = s]
           IN  /\ tt \in Chunks /\ Len(tt) = Len(ss) /\ tt[1] = s
               /\ \A i \in 2 .. Len(ss) : tt[i] = ss[i]
               /\ FlattenSeq(tt) = s \o FlattenSeq(Tail(ss))
<1>1. PICK tt : tt = [ss EXCEPT ![1] = s]
    OBVIOUS
<1>2. /\ tt \in Chunks /\ Len(tt) = Len(ss) /\ tt[1] = s /\ tt # <<>>
      /\ \A i \in 2 .. Len(ss) : tt[i] = ss[i]
    BY <1>1, ExceptSeq, EmptySeq DEF Chunks
<1>3. Head(tt) = s /\ Tail(tt) \in Chunks /\ Tail(ss) \in Chunks /\ Tail(tt) = Tail(ss)
  <2>1. /\ Len(tt) \in Nat /\ Tail(tt) \in Seq(Str) /\ Tail(ss) \in Seq(Str)
        /\ Len(Tail(tt)) = Len(tt) - 1 /\ Len(Tail(ss)) = Len(ss) - 1
      BY <1>2, FlatFirst DEF Chunks
  <2>2. \A i \in 1 .. Len(ss) - 1 : Tail(tt)[i] = tt[i + 1] /\ Tail(ss)[i] = ss[i + 1]
      BY <1>2, FlatFirst
  <2>3. \A i \in 1 .. Len(ss) - 1 : Tail(tt)[i] = Tail(ss)[i]
      BY <1>2, <2>1, <2>2
  <2>4. Tail(tt) = Tail(ss)
      BY <1>2, <2>1, <2>3, SeqEqual
  <2> QED BY <1>2, <2>1, <2>4, FlatFirst DEF Chunks
<1>4. FlattenSeq(tt) = Head(tt) \o FlattenSeq(Tail(tt))
    BY <1>2, FlatFirst
<1>5. FlattenSeq(tt) = s \o FlattenSeq(Tail(ss))
    BY <1>3, <1>4, Zenon
<1> QED BY <1>1, <1>2, <1>5, Zenon

LEMMA FlatPrefix ==
    ASSUME NEW ss \in Chunks, NEW k \in 0 .. Len(ss)
    PROVE  \E rest \in Str : /\ FlattenSeq(Upto(ss, k)) \in Str
                             /\ FlattenSeq(ss) = FlattenSeq(Upto(ss, k)) \o rest
<1>1. Len(ss) \in Nat /\ ss \in Seq(Str) /\ \A i \in 1 .. Len(ss) : ss[i] \in Str
    BY DEF Chunks
<1>2. PICK a, b : a = SubSeq(ss, 1, k) /\ b = SubSeq(ss, k + 1, Len(ss))
    OBVIOUS
<1>3. a \in Chunks /\ b \in Chunks
    BY <1>1, <1>2, SubSeqProperties DEF Chunks
<1>4. a \o b = ss
  <2>1. 1 \in 1 .. Len(ss) + 1 /\ k \in 1 - 1 .. Len(ss) /\ Len(ss) \in k .. Len(ss)
      BY <1>1
  <2>2. SubSeq(ss, 1, k) \o SubSeq(ss, k + 1, Len(ss)) = SubSeq(ss, 1, Len(ss))
      BY <1>1, <2>1, ConcatAdjacentSubSeq
  <2> QED BY <1>1, <1>2, <2>2, SubSeqFull
<1>5. FlattenSeq(a) \in Str /\ FlattenSeq(b) \in Str /\ FlattenSeq(ss) = FlattenSeq(a) \o FlattenSeq(b)
    BY <1>3, <1>4, FlatAppend, FlatConcat, FlatSingle, Joined
<1> QED BY <1>2, <1>5 DEF Upto

-----------------------------------------------------------------------------
(* A buffer list: what it holds, and that its counts are right.            *)

Held(bl) == FlattenSeq(bl.nodes)

WellFormed(bl) ==
    /\ bl \in [nodes : Chunks, bufsize : Nat, nbytes : Nat]
    /\ \A i \in 1 .. Len(bl.nodes) : bl.nodes[i] # <<>>
    /\ bl.bufsize = Len(bl.nodes)
    /\ bl.nbytes = Len(Held(bl))

LEMMA NewIsWellFormed == WellFormed(buffer_new) /\ Held(buffer_new) = <<>>
<1>1. buffer_new.nodes = <<>> /\ buffer_new.bufsize = 0 /\ buffer_new.nbytes = 0
      /\ buffer_new \in [nodes : Chunks, bufsize : Nat, nbytes : Nat] /\ Len(<<>>) = 0
    BY DEF buffer_new, Chunks
<1> QED BY <1>1, FlatEmpty DEF WellFormed, Held

LEMMA HeldIs ==
    ASSUME NEW bl, WellFormed(bl)
    PROVE  /\ Held(bl) \in Str /\ bl.nodes \in Chunks
           /\ bl.nodes = <<>> => Held(bl) = <<>>
           /\ Held(bl) # <<>> => bl.nodes # <<>>
           /\ bl.nbytes > 0 <=> Held(bl) # <<>>
<1>1. bl.nodes \in Chunks /\ bl.nbytes = Len(Held(bl))
    BY DEF WellFormed
<1>2. Held(bl) \in Str /\ (bl.nodes = <<>> => Held(bl) = <<>>)
    BY <1>1, FlatAppend, FlatEmpty, Joined DEF Held
<1>3. Len(Held(bl)) \in Nat /\ (Len(Held(bl)) = 0 <=> Held(bl) = <<>>)
    BY <1>2, EmptyString, Joined
<1> QED BY <1>1, <1>2, <1>3

LEMMA WriteAdds ==
    ASSUME NEW bl, WellFormed(bl), NEW data \in Str, data # <<>>
    PROVE  /\ WellFormed(buffer_write(bl, data))
           /\ Held(buffer_write(bl, data)) = Held(bl) \o data
<1>1. PICK new : new = buffer_write(bl, data)
    OBVIOUS
<1>2. PICK nodes \in Chunks : nodes = bl.nodes
    BY DEF WellFormed
<1>3. PICK tt : tt = Append(nodes, data)
    OBVIOUS
<1>4. /\ tt \in Chunks /\ Len(tt) = Len(nodes) + 1 /\ tt[Len(nodes) + 1] = data
      /\ Len(nodes) \in Nat /\ \A i \in 1 .. Len(nodes) : tt[i] = nodes[i]
    BY <1>3, AppendProperties DEF Chunks
<1>5. new = [nodes |-> tt, bufsize |-> bl.bufsize + 1, nbytes |-> bl.nbytes + Len(data)]
    BY <1>1, <1>2, <1>3 DEF buffer_write
<1>6. FlattenSeq(tt) = FlattenSeq(nodes) \o data /\ FlattenSeq(nodes) \in Str
    BY <1>3, FlatAppend
<1>7. Held(new) = Held(bl) \o data /\ Held(bl) \in Str
    BY <1>2, <1>5, <1>6 DEF Held
<1>8. Len(data) \in Nat /\ Len(Held(bl)) \in Nat /\ Len(Held(bl) \o data) = Len(Held(bl)) + Len(data)
    BY <1>7, Joined
<1>9. /\ bl.bufsize = Len(nodes) /\ bl.nbytes = Len(Held(bl))
      /\ \A i \in 1 .. Len(nodes) : nodes[i] # <<>>
    BY <1>2 DEF WellFormed
<1>10. new \in [nodes : Chunks, bufsize : Nat, nbytes : Nat]
    BY <1>4, <1>5, <1>8, <1>9
<1>11. \A i \in 1 .. Len(tt) : tt[i] # <<>>
    BY <1>4, <1>9
<1>12. new.nodes = tt /\ new.bufsize = Len(tt) /\ new.nbytes = Len(Held(new))
    BY <1>4, <1>5, <1>7, <1>8, <1>9
<1>13. WellFormed(new)
    BY <1>10, <1>11, <1>12 DEF WellFormed
<1> QED BY <1>1, <1>7, <1>13

LEMMA PopTakesFirst ==
    ASSUME NEW bl, WellFormed(bl), bl.nodes # <<>>
    PROVE  /\ WellFormed(buffer_pop(bl)) /\ First(bl) \in Str /\ First(bl) # <<>>
           /\ Held(bl) = First(bl) \o Held(buffer_pop(bl))
<1>1. PICK new : new = buffer_pop(bl)
    OBVIOUS
<1>2. PICK nodes \in Chunks : nodes = bl.nodes
    BY DEF WellFormed
<1>3. PICK first, tt : first = Head(nodes) /\ tt = Tail(nodes)
    OBVIOUS
<1>4. /\ first \in Str /\ tt \in Chunks /\ Len(tt) = Len(nodes) - 1 /\ first = nodes[1]
      /\ \A i \in 1 .. Len(nodes) - 1 : tt[i] = nodes[i + 1]
      /\ FlattenSeq(tt) \in Str /\ FlattenSeq(nodes) = first \o FlattenSeq(tt)
    BY <1>2, <1>3, FlatFirst
<1>5. new = [nodes |-> tt, bufsize |-> bl.bufsize - 1, nbytes |-> bl.nbytes - Len(first)]
      /\ First(bl) = first
    BY <1>1, <1>2, <1>3 DEF buffer_pop, First, Size
<1>6. Held(bl) = first \o Held(new) /\ Held(new) \in Str
    BY <1>2, <1>4, <1>5 DEF Held
<1>7. Len(first) \in Nat /\ Len(Held(new)) \in Nat /\ Len(first \o Held(new)) = Len(first) + Len(Held(new))
    BY <1>4, <1>6, Joined
<1>8. /\ bl.bufsize = Len(nodes) /\ bl.nbytes = Len(Held(bl)) /\ Len(nodes) \in Nat \ {0}
      /\ \A i \in 1 .. Len(nodes) : nodes[i] # <<>>
    BY <1>2, EmptySeq DEF WellFormed, Chunks
<1>9. new \in [nodes : Chunks, bufsize : Nat, nbytes : Nat]
    BY <1>4, <1>5, <1>6, <1>7, <1>8
<1>10. \A i \in 1 .. Len(tt) : tt[i] # <<>>
    BY <1>4, <1>8
<1>11. new.nodes = tt /\ new.bufsize = Len(tt) /\ new.nbytes = Len(Held(new))
    BY <1>4, <1>5, <1>6, <1>7, <1>8
<1>12. WellFormed(new) /\ first # <<>>
    BY <1>4, <1>8, <1>9, <1>10, <1>11 DEF WellFormed
<1> QED BY <1>1, <1>4, <1>5, <1>6, <1>12

LEMMA MoveCutsFirst ==
    ASSUME NEW bl, WellFormed(bl), bl.nodes # <<>>,
           NEW n \in Nat, n < Len(First(bl))
    PROVE  /\ WellFormed(buffer_move_head(bl, n)) /\ Upto(First(bl), n) \in Str
           /\ Len(Upto(First(bl), n)) = n
           /\ Held(bl) = Upto(First(bl), n) \o Held(buffer_move_head(bl, n))
<1>1. PICK new : new = buffer_move_head(bl, n)
    OBVIOUS
<1>2. PICK nodes \in Chunks : nodes = bl.nodes
    BY DEF WellFormed
<1>3. PICK first, a, b : first = Head(nodes) /\ a = Upto(first, n) /\ b = From(first, n)
    OBVIOUS
<1>4. /\ first \in Str /\ first = nodes[1] /\ first = First(bl) /\ Len(first) \in Nat
      /\ FlattenSeq(Tail(nodes)) \in Str /\ FlattenSeq(nodes) = first \o FlattenSeq(Tail(nodes))
    BY <1>2, <1>3, FlatFirst, Joined DEF First
<1>5. a \in Str /\ b \in Str /\ Len(a) = n /\ Len(b) = Len(first) - n /\ a \o b = first
  <2>1. n \in 0 .. Len(first)
      BY <1>4
  <2> QED BY <1>3, <1>4, <2>1, Parts, Parted
<1>6. b # <<>>
    BY <1>4, <1>5, EmptyString
<1>7. PICK tt : tt = [nodes EXCEPT ![1] = b]
    OBVIOUS
<1>8. /\ tt \in Chunks /\ Len(tt) = Len(nodes) /\ tt[1] = b
      /\ \A i \in 2 .. Len(nodes) : tt[i] = nodes[i]
      /\ FlattenSeq(tt) = b \o FlattenSeq(Tail(nodes))
  <2>1. nodes # <<>>
      BY <1>2
  <2>2. LET uu == [nodes EXCEPT ![1] = b]
        IN  /\ uu \in Chunks /\ Len(uu) = Len(nodes) /\ uu[1] = b
            /\ \A i \in 2 .. Len(nodes) : uu[i] = nodes[i]
            /\ FlattenSeq(uu) = b \o FlattenSeq(Tail(nodes))
      BY <1>5, <2>1, FlatReplaced
  <2> QED BY <1>7, <2>2
<1>9. /\ bl.bufsize = Len(nodes) /\ bl.nbytes = Len(Held(bl)) /\ Len(nodes) \in Nat
      /\ \A i \in 1 .. Len(nodes) : nodes[i] # <<>>
      /\ bl \in [nodes : Chunks, bufsize : Nat, nbytes : Nat]
    BY <1>2 DEF WellFormed, Chunks
<1>10. new = [bl EXCEPT !.nodes = tt, !.nbytes = @ - n]
    BY <1>1, <1>2, <1>3, <1>4, <1>7, <1>9 DEF buffer_move_head
<1>11. new.nodes = tt /\ new.bufsize = Len(tt) /\ new.nbytes = Len(Held(bl)) - n
    BY <1>8, <1>9, <1>10
<1>12. Held(new) = b \o FlattenSeq(Tail(nodes)) /\ Held(bl) = first \o FlattenSeq(Tail(nodes))
    BY <1>2, <1>4, <1>8, <1>11 DEF Held
<1>13. Held(bl) = a \o Held(new) /\ Held(new) \in Str
  <2>1. PICK t \in Str : t = FlattenSeq(Tail(nodes))
      BY <1>4
  <2>2. b \o t \in Str /\ (a \o b) \o t = a \o (b \o t)
      BY <1>5, <2>1, Joined
  <2> QED BY <1>5, <1>12, <2>1, <2>2, Zenon
<1>14. Len(Held(new)) \in Nat /\ Len(Held(bl)) = n + Len(Held(new))
    BY <1>5, <1>13, Joined
<1>15. new \in [nodes : Chunks, bufsize : Nat, nbytes : Nat]
  <2>1. bl.nbytes - n \in Nat /\ tt \in Chunks
      BY <1>8, <1>9, <1>14
  <2> QED BY <1>9, <1>10, <2>1
<1>16. \A i \in 1 .. Len(tt) : tt[i] # <<>>
    BY <1>6, <1>8, <1>9
<1>17. WellFormed(new)
    BY <1>11, <1>14, <1>15, <1>16 DEF WellFormed
<1> QED BY <1>1, <1>3, <1>4, <1>5, <1>13, <1>17

(* What writev is offered, and of it what it takes, is the front of what   *)
(* the list holds.                                                         *)
LEMMA OfferedIsFront ==
    ASSUME NEW bl, WellFormed(bl), NEW n \in Nat, NEW iovs \in Nat
    PROVE  LET held == FlattenSeq(Upto(bl.nodes, Least(iovs, Len(bl.nodes))))
               offered == Upto(held, Least(n, Len(held)))
           IN  /\ Len(offered) \in Nat
               /\ \A taken \in 0 .. Len(offered) :
                     taken \in 0 .. Len(Held(bl)) /\ Upto(offered, taken) = Upto(Held(bl), taken)
<1>1. PICK nodes \in Chunks : nodes = bl.nodes
    BY DEF WellFormed
<1>2. PICK k : k = Least(iovs, Len(nodes))
    OBVIOUS
<1>3. k \in 0 .. Len(nodes)
  <2>1. Len(nodes) \in Nat
      BY DEF Chunks
  <2> QED BY <1>2, <2>1 DEF Least
<1>4. PICK held, rest \in Str : held = FlattenSeq(Upto(nodes, k)) /\ held \in Str
                                /\ FlattenSeq(nodes) = held \o rest
    BY <1>3, FlatPrefix
<1>5. Len(held) \in Nat /\ Len(Held(bl)) = Len(held) + Len(rest) /\ Len(rest) \in Nat
    BY <1>1, <1>4, Joined DEF Held
<1>6. PICK m : m = Least(n, Len(held))
    OBVIOUS
<1>7. m \in 0 .. Len(held)
    BY <1>5, <1>6 DEF Least
<1>8. PICK offered : offered = Upto(held, m)
    OBVIOUS
<1>9. offered \in Str /\ Len(offered) = m
    BY <1>4, <1>7, <1>8, Parts
<1>10. ASSUME NEW taken \in 0 .. Len(offered)
       PROVE  taken \in 0 .. Len(Held(bl)) /\ Upto(offered, taken) = Upto(Held(bl), taken)
  <2>1. taken \in 0 .. m /\ taken \in 0 .. Len(held) /\ taken \in 0 .. Len(Held(bl))
      BY <1>5, <1>7, <1>9
  <2>2. Upto(offered, taken) = Upto(held, taken)
      BY <1>4, <1>7, <1>8, <2>1, UptoUpto
  <2>3. Upto(held \o rest, taken) = Upto(held, taken)
      BY <1>4, <2>1, UptoJoined
  <2> QED BY <1>1, <1>4, <2>1, <2>2, <2>3 DEF Held
<1> QED BY <1>1, <1>2, <1>4, <1>6, <1>7, <1>8, <1>9, <1>10
-----------------------------------------------------------------------------
(* All the bytes there are, in the order of the way from the writer to the *)
(* reader, and how a part of them goes one place on.                       *)

Way(g, i, w, u) == g \o (i \o (w \o u))

LEMMA WayIs ==
    ASSUME NEW g \in Str, NEW i \in Str, NEW w \in Str, NEW u \in Str
    PROVE  g \o i \o w \o u = Way(g, i, w, u)
<1>1. PICK gi \in Str : gi = g \o i
    BY Joined
<1>2. (gi \o w) \o u = gi \o (w \o u)
    BY Joined
<1>3. PICK wu \in Str : wu = w \o u
    BY Joined
<1>4. (g \o i) \o wu = g \o (i \o wu)
    BY Joined
<1> QED BY <1>1, <1>2, <1>3, <1>4, Zenon DEF Way

LEMMA WireTakes ==
    ASSUME NEW g \in Str, NEW i \in Str, NEW w \in Str, NEW u \in Str, NEW t \in Str
    PROVE  Way(g, i, w, t \o u) = Way(g, i, w \o t, u)
<1>1. w \o (t \o u) = (w \o t) \o u
    BY Joined
<1> QED BY <1>1, Zenon DEF Way

LEMMA ListTakes ==
    ASSUME NEW g \in Str, NEW i \in Str, NEW w \in Str, NEW u \in Str, NEW t \in Str
    PROVE  Way(g, i, t \o w, u) = Way(g, i \o t, w, u)
<1>1. (t \o w) \o u = t \o (w \o u)
    BY Joined
<1>2. PICK wu \in Str : wu = w \o u
    BY Joined
<1>3. i \o (t \o wu) = (i \o t) \o wu
    BY <1>2, Joined
<1> QED BY <1>1, <1>2, <1>3, Zenon DEF Way

LEMMA ReaderTakes ==
    ASSUME NEW g \in Str, NEW i \in Str, NEW w \in Str, NEW u \in Str, NEW t \in Str
    PROVE  Way(g, t \o i, w, u) = Way(g \o t, i, w, u)
<1>1. PICK wu \in Str : wu = w \o u
    BY Joined
<1>2. (t \o i) \o wu = t \o (i \o wu)
    BY <1>1, Joined
<1>3. PICK iwu \in Str : iwu = i \o wu
    BY <1>1, Joined
<1>4. g \o (t \o iwu) = (g \o t) \o iwu
    BY <1>3, Joined
<1> QED BY <1>1, <1>2, <1>3, <1>4, Zenon DEF Way

Then(a, b) == a \o b

LEMMA WriterAdds ==
    ASSUME NEW g \in Str, NEW i \in Str, NEW w \in Str, NEW u \in Str, NEW t \in Str
    PROVE  Way(g, i, w, Then(u, t)) = Then(Way(g, i, w, u), t)
<1>1. PICK wu \in Str : wu = w \o u
    BY Joined
<1>2. w \o (u \o t) = (w \o u) \o t
    BY Joined
<1>3. PICK iwu \in Str : iwu = i \o wu
    BY <1>1, Joined
<1>4. i \o (wu \o t) = (i \o wu) \o t
    BY <1>1, Joined
<1>5. g \o (iwu \o t) = (g \o iwu) \o t
    BY <1>3, Joined
<1> QED BY <1>1, <1>2, <1>3, <1>4, <1>5, Zenon DEF Way, Then

(* The bytes on their way: read, in the receiver's list, in the kernel,    *)
(* and in the sender's list but for those the kernel has taken already.    *)
AllBytes == Way(got, Held(inn), wire, From(Held(out), snd.left))

Types ==
    /\ written \in Nat /\ wire \in Str /\ got \in Str
    /\ snd \in [pc : {"idle", "pop"}, left : Nat]
    /\ rcv \in [pc : {"idle", "recv", "read"}, left : Nat, total : Nat]
    /\ rcount \in Nat /\ closed \in BOOLEAN /\ spilt \in BOOLEAN

SenderInv ==
    /\ WellFormed(out)
    /\ snd.left <= Len(Held(out))
    /\ snd.pc = "idle" => snd.left = 0

(* After the first round of recvv the list has room: it returns when the   *)
(* list has become full.                                                   *)
ReceiverInv ==
    /\ WellFormed(inn)
    /\ rcv.pc = "recv" /\ rcv.total = 0 => rcv.left > 0
    /\ rcv.pc = "recv" /\ rcv.total > 0 => Len(inn.nodes) < BufMax

Received == rcount = Len(got) + Len(Held(inn))
Ends == ret = "zero" => closed /\ wire = <<>>
Kept == AllBytes = Counted(written)

IInv ==
    /\ Types /\ SenderInv /\ ReceiverInv
    /\ spilt \/ (Received /\ Ends /\ Kept)

LEMMA InitIInv == Init => IInv
<1> SUFFICES ASSUME Init PROVE IInv
    OBVIOUS
<1>1. WellFormed(out) /\ WellFormed(inn) /\ Held(out) = <<>> /\ Held(inn) = <<>>
    BY NewIsWellFormed DEF Init
<1>2. <<>> \in Str /\ Len(<<>>) = 0 /\ <<>> \o <<>> = <<>>
    BY Joined
<1>3. Types /\ SenderInv /\ ReceiverInv /\ Received /\ Ends
  <2>1. Types
      BY <1>2 DEF Init, Types
  <2>2. SenderInv
      BY <1>1, <1>2 DEF Init, SenderInv
  <2>3. rcv.pc = "idle" /\ rcount = 0 /\ got = <<>> /\ ret = "none"
      BY DEF Init
  <2> QED BY <1>1, <1>2, <2>1, <2>2, <2>3 DEF ReceiverInv, Received, Ends
<1>4. From(<<>>, 0) = <<>> /\ Counted(0) = <<>>
    BY DEF From, Counted
<1>5. AllBytes = Way(<<>>, <<>>, <<>>, <<>>)
    BY <1>1, <1>4 DEF Init, AllBytes
<1>6. Way(<<>>, <<>>, <<>>, <<>>) = <<>>
    BY <1>2, Zenon DEF Way
<1> QED BY <1>3, <1>4, <1>5, <1>6 DEF Init, IInv, Kept

-----------------------------------------------------------------------------
(* The sender's steps.                                                     *)

LEMMA WriteOutKeeps ==
    ASSUME IInv, NEW n \in Nat \ {0}, WriteOut(n)
    PROVE  IInv'
<1>1. PICK h : h = Held(out)
    OBVIOUS
<1>2. h \in Str /\ WellFormed(out) /\ snd.left \in 0 .. Len(h) /\ Len(h) \in Nat
    BY <1>1, HeldIs, Joined DEF IInv, Types, SenderInv
<1>3. PICK new \in Str : new = NewBytes(n) /\ Counted(written) \o new = Counted(written + n) /\ Len(new) = n
    BY CountedOn DEF NewBytes, IInv, Types
<1>4. out' = buffer_write(out, new) /\ new # <<>>
    BY <1>3, EmptyString DEF WriteOut
<1>5. WellFormed(out') /\ Held(out') = h \o new /\ Len(h \o new) = Len(h) + n
  <2>1. WellFormed(out') /\ Held(out') = h \o new
      BY <1>1, <1>2, <1>3, <1>4, WriteAdds
  <2>2. Len(h \o new) = Len(h) + Len(new)
      BY <1>2, <1>3, Joined
  <2> QED BY <1>3, <2>1, <2>2
<1>6. From(h \o new, snd.left) = From(h, snd.left) \o new /\ From(h, snd.left) \in Str
    BY <1>2, FromJoined, Parts
<1>7. PICK i \in Str, u \in Str : i = Held(inn) /\ u = From(h, snd.left)
    BY <1>6, HeldIs DEF IInv, ReceiverInv
<1>8. Way(got, i, wire, u \o new) = Way(got, i, wire, u) \o new
  <2>1. got \in Str /\ wire \in Str
      BY DEF IInv, Types
  <2>2. Way(got, i, wire, Then(u, new)) = Then(Way(got, i, wire, u), new)
      BY <2>1, WriterAdds
  <2> QED BY <2>2, Zenon DEF Then
<1>9. Kept => Kept'
  <2>1. AllBytes' = Way(got, i, wire, u \o new)
      BY <1>5, <1>6, <1>7 DEF WriteOut, AllBytes, Held
  <2> QED BY <1>1, <1>3, <1>7, <1>8, <2>1 DEF WriteOut, Kept, AllBytes
<1>10. SenderInv'
    BY <1>2, <1>5 DEF IInv, SenderInv, Types, WriteOut
<1> QED BY <1>9, <1>10 DEF IInv, Types, ReceiverInv, Received, Ends, WriteOut, Held, WellFormed

LEMMA SendKeeps ==
    ASSUME IInv, NEW n \in Nat \ {0}, conn_tcp_send_nb(n)
    PROVE  IInv'
<1>1. /\ out.nodes = <<>> /\ snd.left = 0 /\ WellFormed(out) /\ ~closed
      /\ written \in Nat /\ wire \in Str /\ got \in Str
    BY DEF conn_tcp_send_nb, SndIdle, IInv, Types, SenderInv
<1>2. PICK taken \in Nat : taken > 0 /\ wire' = wire \o NewBytes(taken) /\ written' = written + taken
    BY DEF conn_tcp_send_nb
<1>3. PICK new \in Str : new = NewBytes(taken) /\ Counted(written) \o new = Counted(written + taken)
    BY <1>1, CountedOn DEF NewBytes
<1>4. Held(out) = <<>> /\ From(Held(out), snd.left) = <<>> /\ Held(inn) \in Str
    BY <1>1, HeldIs DEF From, IInv, ReceiverInv
<1>5. Way(got, Held(inn), wire \o new, <<>>) = Way(got, Held(inn), wire, <<>>) \o new
  <2>1. PICK i \in Str : i = Held(inn)
      BY <1>4
  <2>2. PICK e \in Str : e = <<>> /\ new \o e = new /\ e \o new = new
      BY Joined
  <2>3. Way(got, i, wire, Then(e, new)) = Then(Way(got, i, wire, e), new)
      BY <1>1, WriterAdds
  <2>4. Way(got, i, wire, new \o e) = Way(got, i, wire \o new, e)
      BY <1>1, WireTakes
  <2> QED BY <2>1, <2>2, <2>3, <2>4, Zenon DEF Then
<1>6. AllBytes' = Way(got, Held(inn), wire \o new, <<>>)
    BY <1>2, <1>3, <1>4 DEF AllBytes, Held, conn_tcp_send_nb
<1>7. Kept => Kept'
    BY <1>2, <1>3, <1>4, <1>5, <1>6 DEF Kept, AllBytes
<1>8. wire' \in Str /\ written' \in Nat
    BY <1>1, <1>2, <1>3, Joined
<1>9. Types'
    BY <1>8 DEF IInv, Types, conn_tcp_send_nb
<1>10. SenderInv' /\ ReceiverInv' /\ (Received => Received') /\ (Ends => Ends') /\ spilt' = spilt
    BY <1>1 DEF IInv, SenderInv, ReceiverInv, Received, Ends, conn_tcp_send_nb, Held, WellFormed
<1> QED BY <1>7, <1>9, <1>10 DEF IInv

LEMMA SendvKeeps ==
    ASSUME IInv, NEW n \in Nat \ {0}, conn_tcp_sendv_nb(n)
    PROVE  IInv'
<1>1. /\ snd.left = 0 /\ snd.pc = "idle" /\ WellFormed(out) /\ ~closed
      /\ wire \in Str /\ got \in Str
    BY DEF conn_tcp_sendv_nb, SndIdle, IInv, Types, SenderInv
<1>2. PICK h \in Str : h = Held(out)
    BY <1>1, HeldIs
<1>3. PICK taken \in Nat : /\ taken \in 0 .. Len(h) /\ wire' = wire \o Upto(h, taken)
                           /\ snd' = [pc |-> "pop", left |-> taken]
  <2> DEFINE held == FlattenSeq(Upto(out.nodes, Least(Iovs, Len(out.nodes))))
             offered == Upto(held, Least(n, Len(held)))
  <2>1. PICK taken \in 1 .. Least(Len(offered), Room) :
            /\ wire' = wire \o Upto(offered, taken)
            /\ snd' = [pc |-> "pop", left |-> taken]
      BY DEF conn_tcp_sendv_nb
  <2>2. Len(offered) \in Nat /\ \A t \in 0 .. Len(offered) :
            t \in 0 .. Len(Held(out)) /\ Upto(offered, t) = Upto(Held(out), t)
      BY <1>1, OfferedIsFront, LimitsAssumption
  <2>3. taken \in 0 .. Len(offered)
    <3> HIDE DEF offered
    <3>1. Room \in Int
        BY <1>1, LimitsAssumption, Joined DEF Room
    <3> QED BY <2>1, <2>2, <3>1 DEF Least
  <2>4. taken \in 0 .. Len(h) /\ Upto(offered, taken) = Upto(h, taken) /\ taken \in Nat
    <3> HIDE DEF offered
    <3> QED BY <1>2, <2>2, <2>3
  <2> HIDE DEF offered
  <2> QED BY <2>1, <2>4
<1>4. PICK a, b \in Str : a = Upto(h, taken) /\ b = From(h, taken) /\ a \o b = h
    BY <1>2, <1>3, Parts, Parted
<1>5. From(h, 0) = h /\ Held(inn) \in Str
  <2>1. <<>> \in Str /\ Len(<<>>) = 0 /\ <<>> \o h = h
      BY <1>2, Joined
  <2>2. From(h, 0) = SubSeq(h, 1, Len(h))
      BY DEF From
  <2>3. SubSeq(h, 1, Len(h)) = h
      BY <1>2, SubSeqFull DEF Str
  <2> QED BY <2>2, <2>3, HeldIs DEF IInv, ReceiverInv
<1>6. Way(got, Held(inn), wire, a \o b) = Way(got, Held(inn), wire \o a, b)
  <2>1. PICK i \in Str : i = Held(inn)
      BY <1>5
  <2>2. Way(got, i, wire, a \o b) = Way(got, i, wire \o a, b)
      BY <1>1, WireTakes
  <2> QED BY <2>1, <2>2
<1>7. AllBytes' = Way(got, Held(inn), wire \o a, b)
    BY <1>2, <1>3, <1>4 DEF AllBytes, Held, conn_tcp_sendv_nb
<1>8. AllBytes = Way(got, Held(inn), wire, h)
    BY <1>1, <1>2, <1>5 DEF AllBytes
<1>9. Kept => Kept'
    BY <1>4, <1>6, <1>7, <1>8 DEF Kept, conn_tcp_sendv_nb
<1>10. wire' \in Str
    BY <1>1, <1>3, <1>4, Joined
<1>11. Types'
    BY <1>3, <1>10 DEF IInv, Types, conn_tcp_sendv_nb
<1>12. SenderInv'
  <2>1. Len(Held(out)) \in Nat /\ out' = out
      BY <1>2, Joined DEF conn_tcp_sendv_nb
  <2> QED BY <1>1, <1>2, <1>3, <2>1 DEF SenderInv, Held, WellFormed
<1>13. ReceiverInv' /\ (Received => Received') /\ (Ends => Ends') /\ spilt' = spilt
    BY <1>1 DEF IInv, ReceiverInv, Received, Ends, conn_tcp_sendv_nb, Held, WellFormed
<1> QED BY <1>9, <1>11, <1>12, <1>13 DEF IInv

LEMMA SendvPopsKeeps ==
    ASSUME IInv, SendvPops
    PROVE  IInv'
<1>1. WellFormed(out) /\ snd \in [pc : {"idle", "pop"}, left : Nat] /\ snd.pc = "pop"
    BY DEF IInv, Types, SenderInv, SendvPops
<1>2. PICK h \in Str : h = Held(out)
    BY <1>1, HeldIs
<1>3. Len(h) \in Nat /\ snd.left \in 0 .. Len(h)
    BY <1>1, <1>2, Joined DEF IInv, SenderInv
<1>4. SUFFICES /\ WellFormed(out') /\ snd' \in [pc : {"idle", "pop"}, left : Nat]
               /\ snd'.left <= Len(Held(out')) /\ (snd'.pc = "idle" => snd'.left = 0)
               /\ From(Held(out'), snd'.left) = From(h, snd.left)
  <2>1. Types' /\ ReceiverInv' /\ (Received => Received') /\ (Ends => Ends') /\ spilt' = spilt
      BY <1>4 DEF IInv, Types, ReceiverInv, Received, Ends, SendvPops, Held, WellFormed
  <2>2. SenderInv'
      BY <1>4 DEF SenderInv, Held, WellFormed
  <2>3. AllBytes' = AllBytes
      BY <1>2, <1>4 DEF AllBytes, Held, SendvPops
  <2> QED BY <2>1, <2>2, <2>3 DEF IInv, Kept, SendvPops
<1>5. snd.left > 0 => out.nodes # <<>>
  <2>1. Held(out) = <<>> => Len(h) = 0
      BY <1>2, Joined, EmptyString
  <2> QED BY <1>1, <1>2, <1>3, <2>1, HeldIs
<1>6. CASE snd.left > 0 /\ snd.left >= Size(First(out)) /\ out' = buffer_pop(out)
           /\ snd' = [snd EXCEPT !.left = @ - Size(First(out))]
  <2>1. WellFormed(out') /\ First(out) \in Str /\ h = First(out) \o Held(out')
      BY <1>1, <1>2, <1>5, <1>6, PopTakesFirst
  <2>2. PICK f \in Str, r \in Str : f = First(out) /\ r = Held(out')
      BY <2>1, HeldIs
  <2>3. Len(f) \in Nat /\ Len(r) \in Nat /\ Len(h) = Len(f) + Len(r)
      BY <2>1, <2>2, Joined
  <2>4. PICK k \in 0 .. Len(r) : k = snd.left - Len(f)
      BY <1>3, <1>6, <2>2, <2>3 DEF Size
  <2>5. snd'.left = k /\ snd'.pc = "pop" /\ snd' \in [pc : {"idle", "pop"}, left : Nat]
      BY <1>1, <1>6, <2>2, <2>3, <2>4 DEF Size
  <2>6. From(f \o r, Len(f) + k) = From(r, k)
      BY FromSecond
  <2>7. Len(f) + k = snd.left
      BY <1>1, <2>3, <2>4
  <2> QED BY <2>1, <2>2, <2>3, <2>4, <2>5, <2>6, <2>7
<1>7. CASE snd.left > 0 /\ snd.left < Size(First(out)) /\ out' = buffer_move_head(out, snd.left)
           /\ snd' = [snd EXCEPT !.left = 0]
  <2>1. /\ WellFormed(out') /\ Upto(First(out), snd.left) \in Str
        /\ Len(Upto(First(out), snd.left)) = snd.left
        /\ h = Upto(First(out), snd.left) \o Held(out')
      BY <1>1, <1>2, <1>5, <1>7, MoveCutsFirst DEF Size
  <2>2. PICK a \in Str, r \in Str : a = Upto(First(out), snd.left) /\ r = Held(out')
      BY <2>1, HeldIs
  <2>3. snd'.left = 0 /\ snd'.pc = "pop" /\ snd' \in [pc : {"idle", "pop"}, left : Nat]
      BY <1>1, <1>7
  <2>4. Len(r) \in Nat /\ 0 \in 0 .. Len(r)
      BY <2>2, Joined
  <2>5. From(a \o r, Len(a) + 0) = From(r, 0)
      BY <2>4, FromSecond
  <2>6. Len(a) + 0 = snd.left
      BY <1>1, <2>1, <2>2
  <2> QED BY <2>1, <2>2, <2>3, <2>4, <2>5, <2>6
<1>8. CASE snd.left = 0 /\ snd' = [snd EXCEPT !.pc = "idle"] /\ out' = out
  <2>1. snd'.left = 0 /\ snd' \in [pc : {"idle", "pop"}, left : Nat]
      BY <1>1, <1>8
  <2> QED BY <1>1, <1>2, <1>3, <1>8, <2>1
<1> QED BY <1>6, <1>7, <1>8 DEF SendvPops

LEMMA CloseKeeps ==
    ASSUME IInv, conn_tcp_close_nb
    PROVE  IInv'
<1>1. UNCHANGED <<written, out, inn, wire, got, snd, rcv, scount, rcount, ret, spilt>> /\ closed' = TRUE
    BY DEF conn_tcp_close_nb
<1>2. AllBytes' = AllBytes
    BY <1>1 DEF AllBytes, Held
<1> QED BY <1>1, <1>2 DEF IInv, Types, SenderInv, ReceiverInv, Received, Ends, Kept, Held, WellFormed

-----------------------------------------------------------------------------
(* The receiver's steps.                                                   *)

(* What recv takes from the kernel is the front of it.                     *)
LEMMA WireCut ==
    ASSUME wire \in Str, NEW m \in Nat, NEW k \in 1 .. Least(m, Len(wire))
    PROVE  /\ k \in 1 .. Len(wire) /\ Len(wire) \in Nat
           /\ Upto(wire, k) \in Str /\ Len(Upto(wire, k)) = k /\ Upto(wire, k) # <<>>
           /\ From(wire, k) \in Str /\ Upto(wire, k) \o From(wire, k) = wire
           /\ wire # <<>>
<1>1. Len(wire) \in Nat
    BY Joined
<1>2. k \in 1 .. Len(wire) /\ k \in 0 .. Len(wire)
    BY <1>1 DEF Least
<1>3. Upto(wire, k) \in Str /\ Len(Upto(wire, k)) = k /\ From(wire, k) \in Str
    BY <1>2, Parts
<1>4. Upto(wire, k) \o From(wire, k) = wire
    BY <1>2, Parted
<1>5. wire # <<>> /\ Upto(wire, k) # <<>>
    BY <1>2, <1>3, EmptyString
<1> QED BY <1>1, <1>2, <1>3, <1>4, <1>5

LEMMA RecvKeeps ==
    ASSUME IInv, NEW n \in Nat \ {0}, conn_tcp_recv_nb(n)
    PROVE  IInv'
<1>1. wire \in Str /\ got \in Str /\ rcount \in Nat /\ WellFormed(inn) /\ inn.nodes = <<>> /\ rcv.pc = "idle"
    BY DEF IInv, Types, ReceiverInv, conn_tcp_recv_nb, RcvIdle
<1>2. PICK k \in 1 .. Least(n, Len(wire)) :
            got' = got \o Upto(wire, k) /\ wire' = From(wire, k) /\ rcount' = rcount + k
    BY DEF conn_tcp_recv_nb
<1>3. PICK a \in Str, w \in Str : /\ a = Upto(wire, k) /\ w = From(wire, k) /\ Len(a) = k
                                  /\ a \o w = wire /\ wire # <<>>
    BY <1>1, WireCut
<1>4. Held(inn) = <<>> /\ Held(inn') = <<>>
    BY <1>1, HeldIs DEF conn_tcp_recv_nb
<1>5. PICK e \in Str : e = <<>> /\ a \o e = a /\ e \o a = a /\ Len(e) = 0
    BY Joined
<1>6. PICK u \in Str : u = From(Held(out), snd.left)
  <2>1. Held(out) \in Str /\ Len(Held(out)) \in Nat /\ snd.left \in 0 .. Len(Held(out))
      BY HeldIs, Joined DEF IInv, Types, SenderInv
  <2> QED BY <2>1, Parts
<1>7. Way(got, e, a \o w, u) = Way(got, e \o a, w, u)
    BY <1>1, ListTakes
<1>8. Way(got, a \o e, w, u) = Way(got \o a, e, w, u)
    BY <1>1, ReaderTakes
<1>9. AllBytes' = Way(got \o a, e, w, u)
    BY <1>2, <1>3, <1>4, <1>5, <1>6 DEF AllBytes, Held, conn_tcp_recv_nb
<1>10. AllBytes = Way(got, e, a \o w, u)
    BY <1>3, <1>4, <1>5, <1>6 DEF AllBytes
<1>11. Kept => Kept'
  <2>1. AllBytes' = AllBytes /\ written' = written
      BY <1>5, <1>7, <1>8, <1>9, <1>10, Zenon DEF conn_tcp_recv_nb
  <2> QED BY <2>1 DEF Kept
<1>12. got' \in Str /\ wire' \in Str /\ rcount' \in Nat /\ Len(got') = Len(got) + k /\ Len(got) \in Nat
  <2>1. got \o a \in Str /\ Len(got \o a) = Len(got) + Len(a) /\ Len(got) \in Nat
      BY <1>1, Joined
  <2>2. got' = got \o a /\ wire' = w /\ rcount' \in Nat
      BY <1>1, <1>2, <1>3
  <2> QED BY <1>3, <2>1, <2>2
<1>13. Types'
    BY <1>12 DEF IInv, Types, conn_tcp_recv_nb
<1>14. SenderInv'
    BY DEF IInv, SenderInv, Held, WellFormed, conn_tcp_recv_nb
<1>15. ReceiverInv' /\ (Received => Received')
  <2>1. Received => Received'
      BY <1>1, <1>2, <1>4, <1>5, <1>12 DEF Received, Held
  <2> QED BY <1>1, <2>1 DEF ReceiverInv, Held, WellFormed, conn_tcp_recv_nb
<1>16. (Ends => Ends') /\ spilt' = spilt
    BY <1>3 DEF Ends, conn_tcp_recv_nb
<1> QED BY <1>11, <1>13, <1>14, <1>15, <1>16 DEF IInv

LEMMA RecvvKeeps ==
    ASSUME IInv, NEW n \in Nat \ {0}, conn_tcp_recvv_nb(n)
    PROVE  IInv'
<1>1. /\ UNCHANGED <<written, out, inn, wire, got, snd, scount, rcount, closed, spilt>>
      /\ rcv' = [pc |-> "recv", left |-> n, total |-> 0] /\ ret' = "none"
    BY DEF conn_tcp_recvv_nb
<1>2. AllBytes' = AllBytes
    BY <1>1 DEF AllBytes, Held
<1>3. Types' /\ SenderInv' /\ ReceiverInv'
    BY <1>1 DEF IInv, Types, SenderInv, ReceiverInv, Held, WellFormed
<1> QED BY <1>1, <1>2, <1>3 DEF IInv, Received, Ends, Kept, Held

LEMMA RecvvReceivesKeeps ==
    ASSUME IInv, RecvvReceives
    PROVE  IInv'
<1>1. /\ wire \in Str /\ got \in Str /\ rcount \in Nat /\ WellFormed(inn) /\ rcv.pc = "recv"
      /\ rcv \in [pc : {"idle", "recv", "read"}, left : Nat, total : Nat] /\ rcv.left > 0
      /\ spilt \in BOOLEAN
    BY DEF IInv, Types, ReceiverInv, RecvvReceives
<1>2. /\ Len(inn.nodes) \in Nat /\ BufMax \in Nat
      /\ inn.bufsize = Len(inn.nodes)
    BY <1>1, LimitsAssumption DEF WellFormed, Chunks
<1>3. Least(rcv.left, Chunk) \in Nat /\ rcv.left - Least(rcv.left, Chunk) \in Nat
    BY <1>1, LimitsAssumption DEF Least
<1>4. PICK k \in 1 .. Least(Least(rcv.left, Chunk), Len(wire)) :
        /\ wire' = From(wire, k) /\ rcount' = rcount + k
        /\ \/ /\ ~Full(inn)
              /\ inn' = buffer_write(inn, Upto(wire, k))
              /\ IF inn'.bufsize = BufMax
                   THEN RecvvReturns(rcv.total + k)
                   ELSE /\ rcv' = [rcv EXCEPT !.left = @ - Least(@, Chunk), !.total = @ + k]
                        /\ UNCHANGED ret
              /\ UNCHANGED spilt
           \/ /\ RecvvReturns(rcv.total)
              /\ spilt' = (spilt \/ ~Full(inn) \/ rcv.total = 0)
              /\ UNCHANGED inn
    BY DEF RecvvReceives
<1>5. PICK a \in Str, w \in Str : /\ a = Upto(wire, k) /\ w = From(wire, k) /\ Len(a) = k
                                  /\ a \o w = wire /\ wire # <<>> /\ a # <<>> /\ k \in Nat \ {0}
    BY <1>1, <1>3, WireCut
<1>6. rcount' \in Nat /\ wire' \in Str
    BY <1>1, <1>4, <1>5
(* The bytes are lost, which is remembered.                                *)
<1>7. CASE RecvvReturns(rcv.total) /\ spilt' = (spilt \/ ~Full(inn) \/ rcv.total = 0) /\ inn' = inn
  <2>1. rcv.total > 0 => ~Full(inn)
      BY <1>1, <1>2 DEF IInv, ReceiverInv, Full
  <2>2. spilt' = TRUE
    <3>1. rcv.total = 0 \/ rcv.total > 0
        BY <1>1
    <3>2. spilt \/ ~Full(inn) \/ rcv.total = 0
        BY <2>1, <3>1
    <3> QED BY <1>7, <3>2
  <2>3. rcv' = [pc |-> "idle", left |-> 0, total |-> 0]
      BY <1>7 DEF RecvvReturns
  <2>4. Types' /\ SenderInv'
      BY <1>6, <2>2, <2>3 DEF IInv, Types, SenderInv, Held, WellFormed, RecvvReceives
  <2>5. ReceiverInv'
      BY <1>7, <2>3 DEF IInv, ReceiverInv, WellFormed, Held
  <2> QED BY <2>2, <2>4, <2>5 DEF IInv
(* The bytes join the list.                                                *)
<1>8. CASE /\ ~Full(inn) /\ spilt' = spilt
           /\ inn' = buffer_write(inn, Upto(wire, k))
           /\ IF inn'.bufsize = BufMax
                THEN RecvvReturns(rcv.total + k)
                ELSE /\ rcv' = [rcv EXCEPT !.left = @ - Least(@, Chunk), !.total = @ + k]
                     /\ UNCHANGED ret
  <2>1. PICK i \in Str : i = Held(inn)
      BY <1>1, HeldIs
  <2>2. WellFormed(inn') /\ Held(inn') = i \o a
      BY <1>1, <1>5, <1>8, <2>1, WriteAdds
  <2>3. PICK u \in Str : u = From(Held(out), snd.left)
    <3>1. Held(out) \in Str /\ Len(Held(out)) \in Nat /\ snd.left \in 0 .. Len(Held(out))
        BY HeldIs, Joined DEF IInv, Types, SenderInv
    <3> QED BY <3>1, Parts
  <2>4. Way(got, i, a \o w, u) = Way(got, i \o a, w, u)
      BY <1>1, ListTakes
  <2>5. AllBytes' = Way(got, i \o a, w, u) /\ AllBytes = Way(got, i, a \o w, u)
      BY <1>4, <1>5, <2>1, <2>2, <2>3 DEF AllBytes, Held, RecvvReceives
  <2>6. Kept => Kept'
      BY <2>4, <2>5 DEF Kept, RecvvReceives
  <2>7. /\ rcv' \in [pc : {"idle", "recv", "read"}, left : Nat, total : Nat]
        /\ rcv'.pc = "recv" => rcv'.total > 0 /\ inn'.bufsize # BufMax
        /\ ret' = "zero" => ret = "zero"
    <3>1. CASE inn'.bufsize = BufMax
        BY <1>1, <1>5, <1>8, <3>1 DEF RecvvReturns
    <3>2. CASE inn'.bufsize # BufMax
      <4>1. PICK left \in Nat, total \in Nat : left = rcv.left - Least(rcv.left, Chunk) /\ total = rcv.total + k
          BY <1>1, <1>3, <1>5
      <4>2. rcv' = [rcv EXCEPT !.left = left, !.total = total] /\ ret' = ret
          BY <1>8, <3>2, <4>1
      <4>3. total > 0
          BY <1>1, <1>5, <4>1
      <4> QED BY <1>1, <3>2, <4>2, <4>3
    <3> QED BY <3>1, <3>2
  <2>8. Types' /\ SenderInv'
      BY <1>6, <1>8, <2>7 DEF IInv, Types, SenderInv, Held, WellFormed, RecvvReceives
  <2>9. ReceiverInv'
    <3>1. inn'.bufsize = Len(inn.nodes) + 1 /\ inn'.bufsize = Len(inn'.nodes)
        BY <1>2, <1>8, <2>2 DEF buffer_write, WellFormed
    <3>2. rcv'.pc = "recv" => Len(inn'.nodes) < BufMax /\ rcv'.total > 0
        BY <1>2, <1>8, <2>7, <3>1 DEF Full
    <3>3. rcv'.pc = "recv" => rcv'.total # 0
        BY <2>7
    <3> QED BY <2>2, <3>2, <3>3 DEF ReceiverInv, Held, WellFormed
  <2>10. Received => Received'
    <3>1. Len(i \o a) = Len(i) + Len(a) /\ Len(i) \in Nat /\ Len(got) \in Nat /\ Len(a) = k
        BY <1>1, <1>5, Joined
    <3> QED BY <1>4, <1>5, <2>1, <2>2, <3>1 DEF Received, Held, RecvvReceives
  <2>11. Ends => Ends'
      BY <1>5, <2>7 DEF Ends
  <2> QED BY <1>8, <2>6, <2>8, <2>9, <2>10, <2>11 DEF IInv
<1> QED BY <1>4, <1>7, <1>8

(* A step that only changes what the receiver is at, or its result.        *)
LEMMA OnlyRcv ==
    ASSUME IInv, UNCHANGED <<written, out, inn, wire, got, snd, scount, rcount, closed, spilt>>,
           rcv' \in [pc : {"idle", "recv", "read"}, left : Nat, total : Nat],
           rcv'.pc # "recv", ret' = "zero" => (closed /\ wire = <<>>) \/ ret = "zero"
    PROVE  IInv'
<1>1. AllBytes' = AllBytes
    BY DEF AllBytes, Held
<1>2. Types' /\ SenderInv' /\ ReceiverInv'
    BY DEF IInv, Types, SenderInv, ReceiverInv, Held, WellFormed
<1> QED BY <1>1, <1>2 DEF IInv, Received, Ends, Kept, Held

LEMMA RecvvEmptyKeeps ==
    ASSUME IInv, RecvvEmpty
    PROVE  IInv'
<1>1. UNCHANGED <<written, out, inn, wire, got, snd, scount, rcount, closed, spilt>> /\ wire = <<>>
    BY DEF RecvvEmpty
<1>2. rcv' = [pc |-> "idle", left |-> 0, total |-> 0] /\ (ret' = "zero" => closed)
    BY DEF RecvvEmpty, RecvvReturns
<1> QED BY <1>1, <1>2, OnlyRcv

LEMMA RecvvFullKeeps ==
    ASSUME IInv, RecvvFull
    PROVE  IInv'
<1>1. UNCHANGED <<written, out, inn, wire, got, snd, scount, rcount, closed, spilt>>
      /\ rcv.pc = "recv" /\ rcv.left = 0
    BY DEF RecvvFull
<1>2. rcv.total # 0
    BY <1>1 DEF IInv, ReceiverInv
<1>3. rcv' = [pc |-> "idle", left |-> 0, total |-> 0] /\ ret' = "some"
    BY <1>2 DEF RecvvFull, RecvvReturns
<1> QED BY <1>1, <1>3, OnlyRcv

LEMMA ReadKeeps ==
    ASSUME IInv, NEW n \in Nat \ {0}, buffer_read(n)
    PROVE  IInv'
<1>1. UNCHANGED <<written, out, inn, wire, got, snd, scount, rcount, closed, ret, spilt>>
      /\ rcv' = [pc |-> "read", left |-> n, total |-> 0]
    BY DEF buffer_read
<1> QED BY <1>1, OnlyRcv

LEMMA ReadTakesKeeps ==
    ASSUME IInv, ReadTakes
    PROVE  IInv'
<1>1. /\ wire \in Str /\ got \in Str /\ rcount \in Nat /\ WellFormed(inn) /\ rcv.pc = "read"
      /\ rcv \in [pc : {"idle", "recv", "read"}, left : Nat, total : Nat]
      /\ UNCHANGED <<written, out, wire, snd, scount, rcount, closed, ret, spilt>>
    BY DEF IInv, Types, ReceiverInv, ReadTakes
<1>2. CASE inn' = inn /\ got' = got /\ rcv' = [rcv EXCEPT !.pc = "idle"]
    BY <1>1, <1>2, OnlyRcv
<1>3. ASSUME NEW a \in Str, got' = got \o a, WellFormed(inn'), Held(inn) = a \o Held(inn'),
             rcv' \in [pc : {"idle", "recv", "read"}, left : Nat, total : Nat], rcv'.pc = "read"
      PROVE  IInv'
  <2>1. PICK i \in Str : i = Held(inn')
      BY <1>3, HeldIs
  <2>2. PICK u \in Str : u = From(Held(out), snd.left)
    <3>1. Held(out) \in Str /\ Len(Held(out)) \in Nat /\ snd.left \in 0 .. Len(Held(out))
        BY HeldIs, Joined DEF IInv, Types, SenderInv
    <3> QED BY <3>1, Parts
  <2>3. Way(got, a \o i, wire, u) = Way(got \o a, i, wire, u)
      BY <1>1, ReaderTakes
  <2>4. AllBytes' = Way(got \o a, i, wire, u) /\ AllBytes = Way(got, a \o i, wire, u)
      BY <1>1, <1>3, <2>1, <2>2 DEF AllBytes, Held
  <2>5. Kept => Kept'
      BY <1>1, <2>3, <2>4 DEF Kept
  <2>6. got \o a \in Str /\ Len(got \o a) = Len(got) + Len(a) /\ Len(got) \in Nat /\ Len(a) \in Nat
      BY <1>1, Joined
  <2>7. Len(a \o i) = Len(a) + Len(i) /\ Len(i) \in Nat
      BY Joined
  <2>8. Received => Received'
      BY <1>1, <1>3, <2>1, <2>6, <2>7 DEF Received, Held
  <2>9. Types' /\ SenderInv' /\ (Ends => Ends')
      BY <1>1, <1>3, <2>6 DEF IInv, Types, SenderInv, Ends, Held, WellFormed
  <2>10. ReceiverInv'
      BY <1>3 DEF ReceiverInv, Held, WellFormed
  <2> QED BY <1>1, <2>5, <2>8, <2>9, <2>10 DEF IInv
<1>4. inn.nbytes > 0 => inn.nodes # <<>>
    BY <1>1, HeldIs
<1>5. CASE /\ inn.nbytes > 0 /\ Size(First(inn)) <= rcv.left
           /\ got' = got \o First(inn) /\ rcv' = [rcv EXCEPT !.left = @ - Size(First(inn))]
           /\ inn' = buffer_pop(inn)
  <2>1. WellFormed(inn') /\ First(inn) \in Str /\ Held(inn) = First(inn) \o Held(inn')
      BY <1>1, <1>4, <1>5, PopTakesFirst
  <2>2. Size(First(inn)) \in Nat
      BY <2>1, Joined DEF Size
  <2>3. PICK left \in Nat : left = rcv.left - Size(First(inn))
      BY <1>1, <1>5, <2>2
  <2>4. rcv' = [rcv EXCEPT !.left = left]
      BY <1>5, <2>3
  <2> QED BY <1>1, <1>3, <1>5, <2>1, <2>4
<1>6. CASE /\ inn.nbytes > 0 /\ Size(First(inn)) > rcv.left
           /\ got' = got \o Upto(First(inn), rcv.left) /\ rcv' = [rcv EXCEPT !.left = 0]
           /\ inn' = buffer_move_head(inn, rcv.left)
  <2>1. /\ WellFormed(inn') /\ Upto(First(inn), rcv.left) \in Str
        /\ Held(inn) = Upto(First(inn), rcv.left) \o Held(inn')
    <3>1. First(inn) \in Str /\ Len(First(inn)) \in Nat
        BY <1>1, <1>4, <1>6, PopTakesFirst, Joined
    <3> QED BY <1>1, <1>4, <1>6, <3>1, MoveCutsFirst DEF Size
  <2> QED BY <1>1, <1>3, <1>6, <2>1
<1> QED BY <1>2, <1>5, <1>6 DEF ReadTakes

-----------------------------------------------------------------------------

LEMMA NextIInv == IInv /\ [Next]_vars => IInv'
<1> SUFFICES ASSUME IInv, [Next]_vars PROVE IInv'
    OBVIOUS
<1>1. \A n \in Sizes : n \in Nat \ {0}
    BY SizesAssumption
<1>2. CASE UNCHANGED vars
  <2>1. AllBytes' = AllBytes
      BY <1>2 DEF vars, AllBytes, Held
  <2> QED BY <1>2, <2>1 DEF vars, IInv, Types, SenderInv, ReceiverInv, Received, Ends, Kept, Held, WellFormed
<1>3. CASE Sends
    BY <1>1, <1>3, SendvPopsKeeps, SendvKeeps DEF Sends
<1>4. CASE ReceiverSteps
    BY <1>4, RecvvReceivesKeeps, RecvvEmptyKeeps, RecvvFullKeeps, ReadTakesKeeps DEF ReceiverSteps
<1>5. CASE Receives \/ Reads \/ conn_tcp_close_nb
    BY <1>1, <1>5, RecvvKeeps, ReadKeeps, CloseKeeps DEF Receives, Reads
<1>6. CASE \E n \in Sizes : WriteOut(n) \/ conn_tcp_send_nb(n) \/ conn_tcp_recv_nb(n)
    BY <1>1, <1>6, WriteOutKeeps, SendKeeps, RecvKeeps
<1> QED BY <1>2, <1>3, <1>4, <1>5, <1>6 DEF Next

LEMMA SpecIInv == Spec => []IInv
    BY InitIInv, NextIInv, PTL DEF Spec

(* util_conn_tcp.c, ds_bufferlist.c: no byte is lost, doubled or reordered *)
(* on its way from buffer_write at one end to buffer_read at the other,    *)
(* until conn_tcp_recvv_nb has no memory or is called with a full list.    *)
THEOREM StreamInOrder == Spec => []BytesInOrder
<1>1. IInv => BytesInOrder
  <2> SUFFICES ASSUME IInv, ~spilt PROVE BytesInOrder
      BY DEF BytesInOrder
  <2>1. PICK i \in Str, h \in Str : i = Held(inn) /\ h = Held(out)
      BY HeldIs DEF IInv, SenderInv, ReceiverInv
  <2>2. Len(h) \in Nat /\ snd.left \in 0 .. Len(h) /\ got \in Str /\ wire \in Str
      BY <2>1, Joined DEF IInv, Types, SenderInv
  <2>3. PICK u \in Str : u = From(h, snd.left)
      BY <2>2, Parts
  <2>4. got \o i \o wire \o u = Way(got, i, wire, u)
      BY <2>2, WayIs
  <2> QED BY <2>1, <2>3, <2>4 DEF IInv, Kept, AllBytes, BytesInOrder, Unsent, Held, Counted
<1> QED BY <1>1, SpecIInv, PTL

(* ds_bufferlist.c: bufsize and nbytes are what a buffer list holds, and,  *)
(* until recvv loses bytes, rcount is what the connection has delivered.   *)
THEOREM StreamCounts == Spec => []CountsMatch
<1>1. IInv => CountsMatch
    BY DEF IInv, SenderInv, ReceiverInv, Received, WellFormed, Held, CountsMatch
<1> QED BY <1>1, SpecIInv, PTL

(* Until conn_tcp_recvv_nb loses bytes it returns 0 at the end of the      *)
(* stream and only there.                                                  *)
THEOREM StreamZero == Spec => []ZeroIsTheEnd
<1>1. IInv => ZeroIsTheEnd
    BY DEF IInv, Ends, ZeroIsTheEnd
<1> QED BY <1>1, SpecIInv, PTL

-----------------------------------------------------------------------------
(* The echo room.  A byte said joins the end of what is on its way, one    *)
(* received or sent moves along.                                           *)

(* A byte makes a sequence.                                                *)
LEMMA OneByte ==
    ASSUME NEW s \in Str, NEW e \in Nat
    PROVE  <<e>> \in Str /\ Append(s, e) \in Str /\ Append(s, e) = s \o <<e>>
BY AppendIsConcat, AppendProperties DEF Str

LEMMA OneMore ==
    ASSUME NEW n \in Nat
    PROVE  Counted(n) \in Str /\ Append(Counted(n), n + 1) = Counted(n + 1)
<1>1. /\ Counted(n) \in Seq(Nat) /\ Len(Counted(n)) = n
      /\ Counted(n + 1) \in Seq(Nat) /\ Len(Counted(n + 1)) = n + 1
    BY DEF Counted
<1>2. /\ Append(Counted(n), n + 1) \in Seq(Nat) /\ Len(Append(Counted(n), n + 1)) = n + 1
      /\ \A k \in 1 .. n : Append(Counted(n), n + 1)[k] = Counted(n)[k]
      /\ Append(Counted(n), n + 1)[n + 1] = n + 1
    BY <1>1, AppendProperties
<1>3. \A k \in 1 .. n + 1 : Append(Counted(n), n + 1)[k] = Counted(n + 1)[k]
    BY <1>2 DEF Counted
<1> QED BY <1>1, <1>2, <1>3, SeqEqual DEF Str

LEMMA HeadMoves ==
    ASSUME NEW h \in Str, NEW u \in Str, u # <<>>
    PROVE  /\ Append(h, Head(u)) \in Str /\ Tail(u) \in Str
           /\ Append(h, Head(u)) \o Tail(u) = h \o u
<1>1. Len(u) \in Nat \ {0} /\ Head(u) = u[1] /\ Head(u) \in Nat /\ Tail(u) \in Str
    BY EmptySeq, HeadTailProperties DEF Str
<1>2. <<Head(u)>> \o Tail(u) = u
    BY <1>1, SubSeqRecursiveFirst, SubSeqFull, TailIsSubSeq DEF Str
<1>3. <<Head(u)>> \in Str /\ Append(h, Head(u)) \in Str /\ Append(h, Head(u)) = h \o <<Head(u)>>
    BY <1>1, OneByte
<1>4. (h \o <<Head(u)>>) \o Tail(u) = h \o (<<Head(u)>> \o Tail(u))
    BY <1>1, <1>3, Joined, Zenon
<1> QED BY <1>1, <1>2, <1>3, <1>4

(* A byte said joins the end; a part received goes to the empty buffer; a  *)
(* part sent leaves the buffer for the socket.                             *)
LEMMA JoinsTheEnd ==
    ASSUME NEW p \in Str, NEW i \in Str, NEW n \in Nat, p \o i = Counted(n)
    PROVE  Append(i, n + 1) \in Str /\ p \o Append(i, n + 1) = Counted(n + 1)
<1>1. /\ <<n + 1>> \in Str /\ Append(i, n + 1) \in Str /\ Append(i, n + 1) = i \o <<n + 1>>
      /\ Append(Counted(n), n + 1) = Counted(n) \o <<n + 1>>
  <2>1. n + 1 \in Nat /\ Counted(n) \in Str
      BY OneMore
  <2> QED BY <2>1, OneByte
<1>2. (p \o i) \o <<n + 1>> = p \o (i \o <<n + 1>>)
    BY <1>1, Joined, Zenon
<1> QED BY <1>1, <1>2, OneMore

LEMMA GoesToTheBuffer ==
    ASSUME NEW p \in Str, NEW i \in Str, NEW k \in 1 .. Len(i)
    PROVE  /\ Upto(i, k) \in Str /\ From(i, k) \in Str
           /\ p \o Upto(i, k) \o From(i, k) = (p \o <<>>) \o i
<1>1. PICK x, y \in Str : x = Upto(i, k) /\ y = From(i, k) /\ x \o y = i
    BY Parts, Parted
<1>2. (p \o x) \o y = p \o (x \o y) /\ p \o <<>> = p
    BY Joined, Zenon
<1> QED BY <1>1, <1>2, Zenon

LEMMA LeavesTheBuffer ==
    ASSUME NEW h \in Str, NEW u \in Str, NEW b \in Str, NEW k \in 1 .. Len(b)
    PROVE  /\ u \o Upto(b, k) \in Str /\ From(b, k) \in Str
           /\ h \o (u \o Upto(b, k)) \o From(b, k) = h \o u \o b
<1>1. PICK x, y \in Str : x = Upto(b, k) /\ y = From(b, k) /\ x \o y = b
    BY Parts, Parted
<1>2. u \o x \in Str /\ h \o u \in Str /\ h \o (u \o x) = (h \o u) \o x
    BY Joined
<1>3. ((h \o u) \o x) \o y = (h \o u) \o (x \o y)
    BY <1>2, Joined
<1> QED BY <1>1, <1>2, <1>3

-----------------------------------------------------------------------------
(* The buffer of an imp that is about to receive is empty: what it holds   *)
(* has been sent, over as many sleeps as it took.                          *)

EchoTypes ==
    /\ heard \in [Conns -> Str] /\ unread \in [Conns -> Str]
    /\ buf \in [Conns -> Str] /\ inflight \in [Conns -> Str]
    /\ said \in [Conns -> Nat] /\ state = [c \in Conns |-> state[c]]

Emptied == \A c \in Conns : state[c] = "ST_RECV" => buf[c] = <<>>

EchoIInv == EchoTypes /\ Emptied /\ EchoesInOrder

LEMMA EchoInitIInv == EchoInit => EchoIInv
<1> SUFFICES ASSUME EchoInit PROVE EchoIInv
    OBVIOUS
<1>1. EchoTypes /\ Emptied
    BY Joined DEF EchoInit, EchoTypes, Emptied
<1>2. <<>> \o <<>> \o <<>> \o <<>> = Counted(0)
    BY DEF Counted
<1>3. EchoesInOrder
    BY <1>2 DEF EchoInit, EchoesInOrder, Counted
<1> QED BY <1>1, <1>3 DEF EchoIInv

(* A step of connection c leaves the bytes of every other where they are.  *)
LEMMA OneConnection ==
    ASSUME EchoIInv, NEW c \in Conns, NEW s,
           NEW h \in Str, NEW u \in Str, NEW b \in Str, NEW i \in Str, NEW n \in Nat,
           heard' = [heard EXCEPT ![c] = h], unread' = [unread EXCEPT ![c] = u],
           buf' = [buf EXCEPT ![c] = b], inflight' = [inflight EXCEPT ![c] = i],
           said' = [said EXCEPT ![c] = n], state' = [state EXCEPT ![c] = s],
           h \o u \o b \o i = Counted(n), s = "ST_RECV" => b = <<>>
    PROVE  EchoIInv'
<1>1. EchoTypes'
    BY DEF EchoIInv, EchoTypes
<1>2. Emptied'
    BY DEF EchoIInv, EchoTypes, Emptied
<1>3. EchoesInOrder'
    BY DEF EchoIInv, EchoTypes, EchoesInOrder, Counted
<1> QED BY <1>1, <1>2, <1>3 DEF EchoIInv

LEMMA ConnectionStep ==
    ASSUME EchoIInv, NEW c \in Conns, Say(c) \/ Hear(c) \/ Recv(c) \/ Send(c)
    PROVE  EchoIInv'
<1>1. PICK h, u, b, i \in Str : h = heard[c] /\ u = unread[c] /\ b = buf[c] /\ i = inflight[c]
    BY DEF EchoIInv, EchoTypes
<1>2. PICK n \in Nat : n = said[c]
    BY DEF EchoIInv, EchoTypes
<1>3. h \o u \o b \o i = Counted(n) /\ (state[c] = "ST_RECV" => b = <<>>)
    BY <1>1, <1>2 DEF EchoIInv, EchoesInOrder, Emptied, Counted
<1>4. /\ heard = [heard EXCEPT ![c] = h] /\ unread = [unread EXCEPT ![c] = u]
      /\ buf = [buf EXCEPT ![c] = b] /\ inflight = [inflight EXCEPT ![c] = i]
      /\ said = [said EXCEPT ![c] = n] /\ state = [state EXCEPT ![c] = state[c]]
    BY <1>1, <1>2 DEF EchoIInv, EchoTypes
<1>5. h \o u \in Str /\ h \o u \o b \in Str
    BY Joined
<1>6. CASE Say(c)
  <2>1. /\ inflight' = [inflight EXCEPT ![c] = Append(i, n + 1)] /\ said' = [said EXCEPT ![c] = n + 1]
        /\ heard' = [heard EXCEPT ![c] = h] /\ unread' = [unread EXCEPT ![c] = u]
        /\ buf' = [buf EXCEPT ![c] = b] /\ state' = [state EXCEPT ![c] = state[c]]
      BY <1>1, <1>2, <1>4, <1>6 DEF Say, soul
  <2>2. Append(i, n + 1) \in Str /\ h \o u \o b \o Append(i, n + 1) = Counted(n + 1)
      BY <1>3, <1>5, JoinsTheEnd
  <2> DEFINE j == Append(i, n + 1)
             m == n + 1
  <2>3. m \in Nat
      OBVIOUS
  <2> HIDE DEF j
  <2>4. j \in Str /\ inflight' = [inflight EXCEPT ![c] = j] /\ h \o u \o b \o j = Counted(m)
      BY <2>1, <2>2 DEF j
  <2> HIDE DEF m
  <2>5. said' = [said EXCEPT ![c] = m]
      BY <2>1 DEF m
  <2> QED BY <1>3, <2>1, <2>3, <2>4, <2>5, OneConnection
<1>7. CASE Hear(c)
  <2> DEFINE g == Append(h, Head(u))
             v == Tail(u)
  <2>1. /\ u # <<>> /\ heard' = [heard EXCEPT ![c] = g] /\ unread' = [unread EXCEPT ![c] = v]
        /\ buf' = [buf EXCEPT ![c] = b] /\ inflight' = [inflight EXCEPT ![c] = i]
        /\ said' = [said EXCEPT ![c] = n] /\ state' = [state EXCEPT ![c] = state[c]]
      BY <1>1, <1>4, <1>7 DEF Hear, soul
  <2>2. g \in Str /\ v \in Str /\ g \o v = h \o u
      BY <2>1, HeadMoves
  <2> HIDE DEF g, v
  <2>3. g \o v \o b \o i = Counted(n)
      BY <1>3, <2>2
  <2> QED BY <1>3, <2>1, <2>2, <2>3, OneConnection
(* The driver goes to another state, or to sleep, with its buffer as it is.*)
<1>8. ASSUME NEW s, state' = [state EXCEPT ![c] = s], s # "ST_RECV" \/ s = state[c],
             UNCHANGED <<heard, unread, buf, inflight, said>>
      PROVE  EchoIInv'
  <2>1. /\ heard' = [heard EXCEPT ![c] = h] /\ unread' = [unread EXCEPT ![c] = u]
        /\ buf' = [buf EXCEPT ![c] = b] /\ inflight' = [inflight EXCEPT ![c] = i]
        /\ said' = [said EXCEPT ![c] = n] /\ state' = [state EXCEPT ![c] = s]
      BY <1>4, <1>8
  <2>2. s = "ST_RECV" => b = <<>>
      BY <1>3, <1>8
  <2>3. h \o u \o b \o i = Counted(n)
      BY <1>3
  <2> QED BY <2>1, <2>2, <2>3, OneConnection
<1>9. CASE Recv(c)
  <2>1. CASE \E s \in {"ST_Ex", "ST_TERM", state[c]} :
               state' = [state EXCEPT ![c] = s] /\ UNCHANGED <<inflight, buf>>
      BY <1>8, <1>9, <2>1 DEF Recv, world
  <2>2. ASSUME NEW k \in 1 .. Least(BufSize, Len(i)),
               buf' = [buf EXCEPT ![c] = Upto(i, k)], inflight' = [inflight EXCEPT ![c] = From(i, k)],
               state' = [state EXCEPT ![c] = "ST_SEND"]
        PROVE  EchoIInv'
    <3> DEFINE d == Upto(i, k)
               j == From(i, k)
    <3>1. /\ heard' = [heard EXCEPT ![c] = h] /\ unread' = [unread EXCEPT ![c] = u]
          /\ said' = [said EXCEPT ![c] = n] /\ b = <<>>
        BY <1>3, <1>4, <1>9 DEF Recv, Drives, world
    <3>2. k \in 1 .. Len(i)
        BY EchoSizes DEF Least, Str
    <3>3. d \in Str /\ j \in Str /\ (h \o u) \o d \o j = ((h \o u) \o <<>>) \o i
        BY <1>5, <3>2, GoesToTheBuffer
    <3>4. buf' = [buf EXCEPT ![c] = d] /\ inflight' = [inflight EXCEPT ![c] = j]
        BY <2>2
    <3> HIDE DEF d, j
    <3>5. h \o u \o d \o j = Counted(n)
        BY <1>3, <3>1, <3>3
    <3> QED BY <2>2, <3>1, <3>3, <3>4, <3>5, OneConnection
  <2>3. \/ \E s \in {"ST_Ex", "ST_TERM", state[c]} :
             state' = [state EXCEPT ![c] = s] /\ UNCHANGED <<inflight, buf>>
        \/ \E k \in 1 .. Least(BufSize, Len(i)) :
             /\ buf' = [buf EXCEPT ![c] = Upto(i, k)] /\ inflight' = [inflight EXCEPT ![c] = From(i, k)]
             /\ state' = [state EXCEPT ![c] = "ST_SEND"]
      BY <1>1, <1>4, <1>9 DEF Recv, GoOn, Blocks
  <2> QED BY <2>1, <2>2, <2>3
<1>10. CASE Send(c)
  <2>1. CASE \E s \in {"ST_Ex", state[c]} :
               state' = [state EXCEPT ![c] = s] /\ UNCHANGED <<unread, buf>>
      BY <1>8, <1>10, <2>1 DEF Send, world
  <2>2. ASSUME NEW k \in 1 .. Least(Len(b), KernelBuf - Len(u)), NEW s,
               unread' = [unread EXCEPT ![c] = u \o Upto(b, k)], buf' = [buf EXCEPT ![c] = From(b, k)],
               state' = [state EXCEPT ![c] = s], s = "ST_RECV" => From(b, k) = <<>>
        PROVE  EchoIInv'
    <3> DEFINE v == u \o Upto(b, k)
               d == From(b, k)
    <3>1. /\ heard' = [heard EXCEPT ![c] = h] /\ inflight' = [inflight EXCEPT ![c] = i]
          /\ said' = [said EXCEPT ![c] = n]
        BY <1>4, <1>10 DEF Send, world
    <3>2. k \in 1 .. Len(b)
      <4>1. Len(b) \in Nat /\ KernelBuf - Len(u) \in Int
          BY EchoSizes DEF Str
      <4> QED BY <4>1 DEF Least
    <3>3. v \in Str /\ d \in Str /\ h \o v \o d = h \o u \o b
      <4>1. \A f, g, e \in Str : \A m \in 1 .. Len(e) :
               /\ g \o Upto(e, m) \in Str /\ From(e, m) \in Str
               /\ f \o (g \o Upto(e, m)) \o From(e, m) = f \o g \o e
          BY LeavesTheBuffer
      <4>2. \A m \in 1 .. Len(b) :
               /\ u \o Upto(b, m) \in Str /\ From(b, m) \in Str
               /\ h \o (u \o Upto(b, m)) \o From(b, m) = h \o u \o b
          BY <4>1
      <4>3. /\ u \o Upto(b, k) \in Str /\ From(b, k) \in Str
            /\ h \o (u \o Upto(b, k)) \o From(b, k) = h \o u \o b
          BY <3>2, <4>2
      <4> QED BY <4>3
    <3>4. /\ unread' = [unread EXCEPT ![c] = v] /\ buf' = [buf EXCEPT ![c] = d]
          /\ s = "ST_RECV" => d = <<>>
        BY <2>2
    <3> HIDE DEF v, d
    <3>5. h \o v \o d \o i = Counted(n)
        BY <1>3, <3>3
    <3> QED BY <2>2, <3>1, <3>3, <3>4, <3>5, OneConnection
  <2>3. ASSUME NEW k \in 1 .. Least(Len(b), KernelBuf - Len(u)),
               unread' = [unread EXCEPT ![c] = u \o Upto(b, k)], buf' = [buf EXCEPT ![c] = From(b, k)],
               IF buf'[c] = <<>> THEN GoOn(c, "ST_RECV") ELSE Blocks(c, "EPOLLOUT")
        PROVE  EchoIInv'
    <3>1. buf'[c] = From(b, k) /\ state[c] = "ST_SEND"
        BY <1>10, <2>3 DEF Send, Drives, EchoIInv, EchoTypes
    <3>2. CASE From(b, k) = <<>>
        BY <2>2, <2>3, <3>1, <3>2 DEF GoOn
    <3>3. CASE From(b, k) # <<>>
        BY <1>4, <2>2, <2>3, <3>1, <3>3 DEF Blocks
    <3> QED BY <3>2, <3>3
  <2>4. \/ \E s \in {"ST_Ex", state[c]} :
             state' = [state EXCEPT ![c] = s] /\ UNCHANGED <<unread, buf>>
        \/ \E k \in 1 .. Least(Len(b), KernelBuf - Len(u)) :
             /\ unread' = [unread EXCEPT ![c] = u \o Upto(b, k)] /\ buf' = [buf EXCEPT ![c] = From(b, k)]
             /\ IF buf'[c] = <<>> THEN GoOn(c, "ST_RECV") ELSE Blocks(c, "EPOLLOUT")
      BY <1>1, <1>4, <1>10 DEF Send, GoOn, Blocks
  <2> QED BY <2>1, <2>3, <2>4
<1> QED BY <1>6, <1>7, <1>9, <1>10

(* echo_driver reflects what it receives, whole and in order, however recv *)
(* and send split it and however often the imp sleeps in between.          *)
THEOREM EveryByteInOrder == EchoSpec => []EchoesInOrder
<1>1. EchoIInv /\ [EchoNext]_echoVars => EchoIInv'
  <2> SUFFICES ASSUME EchoIInv, [EchoNext]_echoVars PROVE EchoIInv'
      OBVIOUS
  <2>1. ASSUME NEW c \in Conns, Fails(c) PROVE EchoIInv'
      BY <2>1 DEF Fails, GoOn, Drives, world, socks, EchoIInv, EchoTypes, Emptied, EchoesInOrder
  <2>2. UNCHANGED <<heard, unread, buf, inflight, said, state>> => EchoIInv'
      BY DEF EchoIInv, EchoTypes, Emptied, EchoesInOrder
  <2>3. ASSUME NEW c \in Conns,
               Connect(c) \/ HangUp(c) \/ Terminates(c) \/ Wakes(c) \/ echo_delete(c)
        PROVE  EchoIInv'
      BY <2>2, <2>3 DEF Connect, HangUp, Terminates, Wakes, echo_delete, world, socks, soul
  <2>4. CASE Listener \/ UNCHANGED echoVars
      BY <2>2, <2>4 DEF Listener, listener_driver, ListenerBlocks, ListenerWakes,
                        echoVars, world, socks, soul
  <2> QED BY <2>1, <2>3, <2>4, ConnectionStep DEF EchoNext, Imp, echo_driver
<1>2. EchoIInv => EchoesInOrder
    BY DEF EchoIInv
<1> QED BY <1>1, <1>2, EchoInitIInv, PTL DEF EchoSpec
=============================================================================
