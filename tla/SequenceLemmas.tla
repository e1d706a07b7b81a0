-------------------------- MODULE SequenceLemmas --------------------------
(* Induction, and what FlattenSeq makes of a sequence: what the proofs     *)
(* about InputBuffer and Session need to know of sequences.                *)
EXTENDS SequencesExt, TLAPS, WellFoundedInduction, SequenceTheorems

-----------------------------------------------------------------------------
(* Induction on the naturals, as the least number that is not in a set.    *)

LEMMA AllNaturals ==
    ASSUME NEW S, 0 \in S, \A n \in Nat : n \in S => n + 1 \in S
    PROVE  \A n \in Nat : n \in S
<1> DEFINE Rest == {n \in Nat : n \notin S}
           Less == {p \in Nat \X Nat : p[1] < p[2]}
<1>1. SUFFICES ASSUME Rest # {} PROVE FALSE
  OBVIOUS
<1>2. IsWellFoundedOn(Less, Nat)
  BY NatLessThanWellFounded DEF OpToRel
<1>3. PICK m \in Rest : \A n \in Rest : ~(<<n, m>> \in Less)
  BY <1>1, <1>2, WFMin
<1>4. m # 0 /\ m - 1 \in Nat
  BY <1>3
<1>5. <<m - 1, m>> \in Nat \X Nat /\ <<m - 1, m>>[1] = m - 1 /\ <<m - 1, m>>[2] = m
  BY <1>4
<1>6. <<m - 1, m>> \in Less
  BY <1>4, <1>5
<1>7. m - 1 \in S
  BY <1>3, <1>4, <1>6
<1>. QED BY <1>3, <1>4, <1>7

-----------------------------------------------------------------------------
(* FlattenSeq.                                                             *)

\* f is the function that FlattenSeq computes, up to the n-th sequence of s.
Flattens(f, s, n) ==
    f = [i \in 1..n |-> IF i = 1 THEN s[i] ELSE f[i - 1] \o s[i]]

LEMMA FlattensAt ==
    ASSUME NEW f, NEW s, NEW n \in Nat, Flattens(f, s, n)
    PROVE  \A i \in 1..n : f[i] = IF i = 1 THEN s[i] ELSE f[i - 1] \o s[i]
BY Zenon DEF Flattens

LEMMA FlattensExists ==
    ASSUME NEW s
    PROVE  \A n \in Nat : \E f : Flattens(f, s, n)
<1> DEFINE S == {n \in Nat : \E f : Flattens(f, s, n)}
<1>1. 0 \in S
  <2> DEFINE f == [i \in 1..0 |-> s]
  <2>1. Flattens(f, s, 0)
    BY 1..0 = {} DEF Flattens
  <2>. QED BY <2>1
<1>2. ASSUME NEW n \in Nat, n \in S PROVE n + 1 \in S
  <2>1. PICK f : Flattens(f, s, n)
    BY <1>2
  <2> DEFINE g == [i \in 1..(n + 1) |->
                     IF i <= n THEN f[i] ELSE IF i = 1 THEN s[i] ELSE f[i - 1] \o s[i]]
  <2>2. ASSUME NEW i \in 1..(n + 1)
        PROVE  g[i] = IF i = 1 THEN s[i] ELSE g[i - 1] \o s[i]
    <3>1. CASE i <= n
      <4>1. i \in 1..n /\ g[i] = f[i]
        BY <3>1
      <4>2. i # 1 => i - 1 \in 1..(n + 1) /\ i - 1 <= n
        BY <4>1
      <4>3. i # 1 => g[i - 1] = f[i - 1]
        BY <4>2
      <4>. QED BY <4>1, <4>3, <2>1, FlattensAt
    <3>2. CASE ~(i <= n)
      <4>1. g[i] = IF i = 1 THEN s[i] ELSE f[i - 1] \o s[i]
        BY <3>2
      <4>2. i # 1 => i - 1 \in 1..(n + 1) /\ i - 1 <= n
        BY <3>2
      <4>3. i # 1 => g[i - 1] = f[i - 1]
        BY <4>2
      <4>. QED BY <4>1, <4>3
    <3>. QED BY <3>1, <3>2
  <2>3. Flattens(g, s, n + 1)
    <3>1. DOMAIN g = 1..(n + 1) /\ g = [i \in 1..(n + 1) |-> g[i]]
      OBVIOUS
    <3>. HIDE DEF g
    <3>. QED BY <3>1, <2>2, Zenon DEF Flattens
  <2>. QED BY <2>3
<1>. HIDE DEF S
<1>3. \A n \in Nat : n \in S
  BY <1>1, <1>2, AllNaturals
<1>. QED BY <1>3 DEF S

\* The function for a longer sequence extends that for a shorter one.
LEMMA FlattensAgree ==
    ASSUME NEW s, NEW t, NEW n \in Nat, NEW k \in Nat, k = n + 1,
           NEW f, Flattens(f, s, n), NEW g, Flattens(g, t, k),
           \A i \in 1..n : s[i] = t[i]
    PROVE  \A i \in 1..n : f[i] = g[i]
<1> DEFINE S == {i \in Nat : i \in 1..n => f[i] = g[i]}
<1>1. 0 \in S
  OBVIOUS
<1>2. ASSUME NEW i \in Nat, i \in S PROVE i + 1 \in S
  <2>1. SUFFICES ASSUME i + 1 \in 1..n PROVE f[i + 1] = g[i + 1]
    OBVIOUS
  <2>2. /\ i + 1 \in 1..k /\ (i + 1) - 1 = i
        /\ i + 1 # 1 => i \in 1..n
    BY <2>1
  <2>3. f[i + 1] = IF i + 1 = 1 THEN s[i + 1] ELSE f[i] \o s[i + 1]
    BY <2>1, <2>2, FlattensAt
  <2>4. g[i + 1] = IF i + 1 = 1 THEN t[i + 1] ELSE g[i] \o t[i + 1]
    BY <2>2, FlattensAt
  <2>. QED BY <2>1, <2>2, <2>3, <2>4, <1>2
<1>. HIDE DEF S
<1>3. \A i \in Nat : i \in S
  BY <1>1, <1>2, AllNaturals
<1>. QED BY <1>3 DEF S

Agree(s, t, n) == \A i \in 1..n : s[i] = t[i]
NextLonger(s, n, t, k) == n \in Nat /\ k \in Nat /\ k = n + 1 /\ n # 0 /\ Agree(s, t, n)

Continues(f, n, t, g, k) == g[k] = f[n] \o t[k]

LEMMA FlattensNext ==
    ASSUME NEW s, NEW t, NEW n, NEW k, NextLonger(s, n, t, k),
           NEW f, Flattens(f, s, n), NEW g, Flattens(g, t, k)
    PROVE  Continues(f, n, t, g, k)
<1>0. n \in Nat /\ k \in Nat /\ k = n + 1 /\ n # 0 /\ Agree(s, t, n)
  BY DEF NextLonger
<1>1. f[n] = g[n]
  <2>1. \A i \in 1..n : f[i] = g[i]
    BY <1>0, FlattensAgree, SMT DEF Agree
  <2>. QED BY <1>0, <2>1
<1>2. \A i \in 1..k : g[i] = IF i = 1 THEN t[i] ELSE g[i - 1] \o t[i]
  BY Zenon DEF Flattens
<1>3. k \in 1..k /\ k # 1 /\ k - 1 = n
  BY <1>0
<1>. QED BY <1>1, <1>2, <1>3 DEF Continues

LEMMA FlattenEmpty == FlattenSeq(<<>>) = <<>>
BY DEF FlattenSeq

LEMMA FlattenValue ==
    ASSUME NEW s, Len(s) \in Nat \ {0}
    PROVE  \E f : Flattens(f, s, Len(s)) /\ FlattenSeq(s) = f[Len(s)]
<1> DEFINE flatten == CHOOSE f : f = [i \in 1..Len(s) |-> IF i = 1 THEN s[i] ELSE f[i - 1] \o s[i]]
<1>1. Len(s) \in Nat /\ Len(s) # 0
  OBVIOUS
<1>2. \E f : f = [i \in 1..Len(s) |-> IF i = 1 THEN s[i] ELSE f[i - 1] \o s[i]]
  BY <1>1, FlattensExists, Zenon DEF Flattens
<1>3. Flattens(flatten, s, Len(s))
  BY <1>2, Zenon DEF Flattens
<1>4. FlattenSeq(s) = flatten[Len(s)]
  BY <1>1, Zenon DEF FlattenSeq
<1>. QED BY <1>3, <1>4

LEMMA FlattenLonger ==
    ASSUME NEW s, NEW t, NEW n, NEW k, NextLonger(s, n, t, k), n = Len(s), k = Len(t)
    PROVE  FlattenSeq(t) = FlattenSeq(s) \o t[k]
<1>0. n \in Nat \ {0} /\ k \in Nat \ {0}
  BY DEF NextLonger
<1>2. PICK f : Flattens(f, s, n) /\ FlattenSeq(s) = f[n]
  <2>1. Len(s) \in Nat \ {0}
    BY <1>0
  <2>2. \E f : Flattens(f, s, Len(s)) /\ FlattenSeq(s) = f[Len(s)]
    BY <2>1, FlattenValue, Zenon
  <2>. QED BY <2>2, Zenon
<1>3. PICK g : Flattens(g, t, k) /\ FlattenSeq(t) = g[k]
  <2>1. Len(t) \in Nat \ {0}
    BY <1>0
  <2>2. \E e : Flattens(e, t, Len(t)) /\ FlattenSeq(t) = e[Len(t)]
    BY <2>1, FlattenValue, Zenon
  <2>. QED BY <2>2, Zenon
<1>4. Continues(f, n, t, g, k)
  BY <1>2, <1>3, FlattensNext, Zenon
<1>. QED BY <1>2, <1>3, <1>4, Zenon DEF Continues

LEMMA FlattenOne ==
    ASSUME NEW t, Len(t) = 1
    PROVE  FlattenSeq(t) = t[1]
<1>1. PICK g : Flattens(g, t, 1) /\ FlattenSeq(t) = g[1]
  <2>1. Len(t) \in Nat \ {0}
    OBVIOUS
  <2>2. \E f : Flattens(f, t, Len(t)) /\ FlattenSeq(t) = f[Len(t)]
    BY <2>1, FlattenValue, Zenon
  <2>. QED BY <2>2, Zenon
<1>2. \A i \in 1..1 : g[i] = IF i = 1 THEN t[i] ELSE g[i - 1] \o t[i]
  BY <1>1, Zenon DEF Flattens
<1>. QED BY <1>1, <1>2

LEMMA FlattenAppend ==
    ASSUME NEW T, NEW s \in Seq(Seq(T)), NEW m \in Seq(T)
    PROVE  FlattenSeq(Append(s, m)) = FlattenSeq(s) \o m
<1>0. PICK t : t = Append(s, m)
  OBVIOUS
<1>1. /\ t \in Seq(Seq(T)) /\ Len(s) \in Nat /\ Len(t) = Len(s) + 1
      /\ \A i \in 1..Len(s) : s[i] = t[i]
      /\ t[Len(s) + 1] = m
  BY <1>0, AppendProperties, LenProperties
<1>2. CASE s = <<>>
  <2>1. FlattenSeq(s) \o m = m
    BY <1>2, FlattenEmpty, ConcatEmptySeq
  <2>2. Len(t) = 1
    BY <1>1, <1>2
  <2>3. FlattenSeq(t) = t[1]
    BY <2>2, FlattenOne, Zenon
  <2>. QED BY <1>0, <1>1, <1>2, <2>1, <2>3
<1>3. CASE s # <<>>
  <2>1. Len(s) \in Nat \ {0}
    BY <1>3, EmptySeq
  <2>2. NextLonger(s, Len(s), t, Len(t))
    BY <1>1, <2>1 DEF NextLonger, Agree
  <2>3. FlattenSeq(t) = FlattenSeq(s) \o t[Len(t)]
    BY <2>2, FlattenLonger, Zenon
  <2>. QED BY <1>0, <1>1, <2>3
<1>. QED BY <1>2, <1>3

-----------------------------------------------------------------------------
(* Induction on sequences, and what FlattenSeq makes of one.               *)

LEMMA AllSequences ==
    ASSUME NEW T, NEW P, <<>> \in P,
           \A s \in Seq(T), e \in T : s \in P => Append(s, e) \in P
    PROVE  \A s \in Seq(T) : s \in P
<1> DEFINE S == {n \in Nat : \A s \in Seq(T) : Len(s) = n => s \in P}
<1>1. 0 \in S
  BY EmptySeq
<1>2. ASSUME NEW n \in Nat, n \in S PROVE n + 1 \in S
  <2>1. SUFFICES ASSUME NEW s \in Seq(T), Len(s) = n + 1 PROVE s \in P
    OBVIOUS
  <2>2. s # <<>>
    BY <2>1, EmptySeq
  <2>3. PICK r \in Seq(T), e \in T : s = Append(r, e)
    BY <2>2, SequenceEmptyOrAppend
  <2>4. Len(s) = Len(r) + 1 /\ Len(r) \in Nat
    BY <2>3, AppendProperties, LenProperties
  <2>5. Len(r) = n
    BY <2>1, <2>4
  <2>. QED BY <1>2, <2>3, <2>5
<1>. HIDE DEF S
<1>3. \A n \in Nat : n \in S
  BY <1>1, <1>2, AllNaturals
<1>. QED BY <1>3, LenProperties DEF S

LEMMA PrefixOfAppend ==
    ASSUME NEW T, NEW s \in Seq(T), NEW e \in T, NEW h \in 0..Len(s)
    PROVE  SubSeq(Append(s, e), 1, h) = SubSeq(s, 1, h)
<1>1. /\ Len(s) \in Nat /\ h \in Int /\ h <= Len(s)
      /\ \A i \in 1..Len(s) : s[i] \in T /\ Append(s, e)[i] = s[i]
  BY LenProperties, ElementOfSeq, AppendProperties
<1>2. \A i \in 1..h : s[i] \in T /\ Append(s, e)[i] \in T /\ Append(s, e)[i] = s[i]
  BY <1>1
<1>3. /\ SubSeq(s, 1, h) \in Seq(T) /\ Len(SubSeq(s, 1, h)) = h
      /\ \A i \in 1..h : SubSeq(s, 1, h)[i] = s[i]
  BY <1>1, <1>2, SubSeqProperties
<1>4. /\ SubSeq(Append(s, e), 1, h) \in Seq(T) /\ Len(SubSeq(Append(s, e), 1, h)) = h
      /\ \A i \in 1..h : SubSeq(Append(s, e), 1, h)[i] = Append(s, e)[i]
  BY <1>1, <1>2, SubSeqProperties
<1>. QED BY <1>2, <1>3, <1>4, SeqEqual

LEMMA FlattenTyped ==
    ASSUME NEW T
    PROVE  \A s \in Seq(Seq(T)) : FlattenSeq(s) \in Seq(T)
<1> DEFINE P == {s \in Seq(Seq(T)) : FlattenSeq(s) \in Seq(T)}
<1>1. <<>> \in P
  BY FlattenEmpty, EmptySeq
<1>2. ASSUME NEW s \in Seq(Seq(T)), NEW m \in Seq(T), s \in P PROVE Append(s, m) \in P
  <2>1. FlattenSeq(s) \o m \in Seq(T)
    BY <1>2, ConcatProperties
  <2>2. Append(s, m) \in Seq(Seq(T))
    BY AppendProperties
  <2>3. FlattenSeq(Append(s, m)) = FlattenSeq(s) \o m
    BY FlattenAppend
  <2>. QED BY <2>1, <2>2, <2>3
<1>. HIDE DEF P
<1>3. \A s \in Seq(Seq(T)) : s \in P
  BY <1>1, <1>2, AllSequences
<1>. QED BY <1>3 DEF P

\* x begins with a, and b comes next.
Begins(x, a, b, T) == \E rest \in Seq(T) : x = a \o (b \o rest)

LEMMA BeginsLonger ==
    ASSUME NEW T, NEW x, NEW a \in Seq(T), NEW b \in Seq(T), NEW m \in Seq(T),
           Begins(x, a, b, T)
    PROVE  Begins(x \o m, a, b, T)
<1>1. PICK rest \in Seq(T) : x = a \o (b \o rest)
  BY DEF Begins
<1>2. rest \o m \in Seq(T)
  BY ConcatProperties
<1>3. (a \o (b \o rest)) \o m = a \o (b \o (rest \o m))
  BY SMTT(60)
<1>. QED BY <1>1, <1>2, <1>3 DEF Begins

LEMMA BeginsEnd ==
    ASSUME NEW T, NEW a \in Seq(T), NEW m \in Seq(T)
    PROVE  Begins(a \o m, a, m, T)
<1>1. <<>> \in Seq(T) /\ m \o <<>> = m
  BY ConcatEmptySeq, EmptySeq
<1>. QED BY <1>1 DEF Begins

\* Behind what the first h sequences come to is the next one.
FlattenedAt(s, h, T) == Begins(FlattenSeq(s), FlattenSeq(SubSeq(s, 1, h)), s[h + 1], T)

LEMMA FlattenAt ==
    ASSUME NEW T
    PROVE  \A s \in Seq(Seq(T)) : \A h \in 0..(Len(s) - 1) : FlattenedAt(s, h, T)
<1> DEFINE P == {s \in Seq(Seq(T)) : \A h \in 0..(Len(s) - 1) : FlattenedAt(s, h, T)}
<1>1. <<>> \in P
  BY EmptySeq
<1>2. ASSUME NEW s \in Seq(Seq(T)), NEW m \in Seq(T), s \in P PROVE Append(s, m) \in P
  <2>1. PICK t : t = Append(s, m)
    OBVIOUS
  <2>2. /\ t \in Seq(Seq(T)) /\ Len(s) \in Nat /\ Len(t) = Len(s) + 1
        /\ \A i \in 1..Len(s) : s[i] = t[i] /\ s[i] \in Seq(T)
        /\ t[Len(s) + 1] = m
    BY <2>1, AppendProperties, LenProperties, ElementOfSeq
  <2>3. FlattenSeq(t) = FlattenSeq(s) \o m /\ FlattenSeq(s) \in Seq(T)
    BY <2>1, FlattenAppend, FlattenTyped
  <2>4. ASSUME NEW h \in 0..(Len(t) - 1) PROVE FlattenedAt(t, h, T)
    <3>1. h \in 0..Len(s) /\ SubSeq(t, 1, h) = SubSeq(s, 1, h)
      <4>1. h \in 0..Len(s)
        BY <2>2
      <4>. QED BY <4>1, <2>1, PrefixOfAppend
    <3>2. CASE h = Len(s)
      <4>1. SubSeq(t, 1, h) = s /\ t[h + 1] = m
        BY <2>2, <3>1, <3>2, SubSeqFull
      <4>2. Begins(FlattenSeq(s) \o m, FlattenSeq(s), m, T)
        BY <2>3, BeginsEnd, Zenon
      <4>. QED BY <2>3, <4>1, <4>2, Zenon DEF FlattenedAt
    <3>3. CASE h # Len(s)
      <4>1. h \in 0..(Len(s) - 1) /\ h + 1 \in 1..Len(s)
        BY <2>2, <3>1, <3>3
      <4>2. Begins(FlattenSeq(s), FlattenSeq(SubSeq(s, 1, h)), s[h + 1], T)
        BY <4>1, <1>2 DEF FlattenedAt
      <4>3. FlattenSeq(SubSeq(s, 1, h)) \in Seq(T) /\ s[h + 1] \in Seq(T)
        <5>1. SubSeq(s, 1, h) \in Seq(Seq(T))
          <6>1. \A i \in 1..h : s[i] \in Seq(T)
            BY <2>2, <4>1
          <6>. QED BY <6>1, <4>1, SubSeqProperties
        <5>. QED BY <5>1, <4>1, <2>2, FlattenTyped
      <4>4. Begins(FlattenSeq(s) \o m, FlattenSeq(SubSeq(s, 1, h)), s[h + 1], T)
        BY <4>2, <4>3, BeginsLonger, Zenon
      <4>5. t[h + 1] = s[h + 1]
        BY <2>2, <4>1
      <4>. QED BY <2>3, <3>1, <4>4, <4>5, Zenon DEF FlattenedAt
    <3>. QED BY <3>2, <3>3
  <2>. QED BY <2>1, <2>2, <2>4
<1>. HIDE DEF P
<1>3. \A s \in Seq(Seq(T)) : s \in P
  BY <1>1, <1>2, AllSequences
<1>. QED BY <1>3 DEF P
=============================================================================
