----------------------------- MODULE ListProofs ------------------------------
(***************************************************************************)
(* What is left of a list when entries are taken off it, shown by          *)
(* induction on its length in the form of the least-number principle: the  *)
(* set of the lengths at which a claim fails has no least element, so it   *)
(* is empty.                                                               *)
(***************************************************************************)
EXTENDS Lists, WellFoundedInduction, TLAPS

\* A set of natural numbers has a least element unless it is empty.
LEMMA LeastNumber ==
    ASSUME NEW T, T \subseteq Nat, T # {}
    PROVE  \E x \in T : \A y \in T : x <= y
<1> DEFINE R == {p \in Nat \X Nat : p[1] < p[2]}
<1>1. \A f \in [Nat -> Nat] : ~ \A n \in Nat : f[n+1] < f[n]
  BY NatLessThanWellFounded DEF IsWellFoundedOn, OpToRel
<1>2. IsWellFoundedOn(R, Nat)
  BY <1>1 DEF IsWellFoundedOn
<1> HIDE DEF R
<1>3. PICK x \in T : \A y \in T : ~ (<<y, x>> \in R)
  BY <1>2, WFMin
<1>4. ASSUME NEW y \in T PROVE x <= y
  <2>1. ~ (<<y, x>> \in R) /\ x \in Nat /\ y \in Nat
    BY <1>3
  <2>2. ~ (y < x)
    BY <2>1 DEF R
  <2> QED
    BY <2>1, <2>2
<1> QED
  BY <1>4

\* f[k] are the entries outside S of the first k entries of s, for k up to n.
IsKept(f, n, s, S) ==
    f = [k \in 0..n |->
            IF k = 0 THEN <<>>
            ELSE IF s[k] \in S THEN f[k-1] ELSE Append(f[k-1], s[k])]

\* The recursion in Outside defines a function.
LEMMA KeptExists ==
    ASSUME NEW U, NEW s \in Seq(U), NEW S
    PROVE  \A n \in 0..Len(s) : \E f : IsKept(f, n, s, S)
<1> DEFINE Bad == {n \in 0..Len(s) : ~ \E f : IsKept(f, n, s, S)}
<1> SUFFICES ASSUME Bad # {} PROVE FALSE
  OBVIOUS
<1>1. PICK n \in Bad : \A m \in Bad : n <= m
  <2>1. Bad \subseteq Nat
    OBVIOUS
  <2> HIDE DEF Bad
  <2> QED
    BY <2>1, LeastNumber
<1>2. n # 0
  <2>1. IsKept([k \in 0..0 |-> <<>>], 0, s, S)
    BY DEF IsKept
  <2> QED
    BY <1>1, <2>1
<1>3. n-1 \in 0..Len(s) /\ n-1 \notin Bad /\ n \in 1..Len(s)
  BY <1>1, <1>2
<1>4. PICK f : IsKept(f, n-1, s, S)
  BY <1>3
<1> DEFINE g == [k \in 0..n |-> IF k < n THEN f[k]
                                ELSE IF s[n] \in S THEN f[n-1] ELSE Append(f[n-1], s[n])]
<1>5. IsKept(g, n, s, S)
  <2>1. ASSUME NEW k \in 0..n
        PROVE  g[k] = IF k = 0 THEN <<>>
                      ELSE IF s[k] \in S THEN g[k-1] ELSE Append(g[k-1], s[k])
    <3>1. CASE k = n
      BY <1>3, <3>1
    <3>2. CASE k < n
      <4>1. k \in 0..(n-1)
        BY <1>3, <3>2
      <4>2. g[k] = f[k] /\ (k # 0 => g[k-1] = f[k-1])
        BY <1>3, <3>2
      <4>3. f[k] = IF k = 0 THEN <<>>
                   ELSE IF s[k] \in S THEN f[k-1] ELSE Append(f[k-1], s[k])
        BY <4>1, <1>4 DEF IsKept
      <4> QED
        BY <4>2, <4>3
    <3> QED
      BY <1>3, <3>1, <3>2
  <2> QED
    BY <2>1 DEF IsKept
<1> QED
  BY <1>3, <1>5

\* One step of that recursion.
LEMMA KeptStep ==
    ASSUME NEW s, NEW S, NEW f, NEW n \in Nat, IsKept(f, n, s, S), NEW k \in 1..n
    PROVE  f[k] = IF s[k] \in S THEN f[k-1] ELSE Append(f[k-1], s[k])
<1>1. k \in 0..n /\ k # 0
  OBVIOUS
<1>2. f[k] = IF k = 0 THEN <<>>
             ELSE IF s[k] \in S THEN f[k-1] ELSE Append(f[k-1], s[k])
  BY <1>1 DEF IsKept
<1> QED
  BY <1>1, <1>2

\* Outside(s, S) is that function's last value.
LEMMA OutsideIsKept ==
    ASSUME NEW U, NEW s \in Seq(U), NEW S
    PROVE  \E f : IsKept(f, Len(s), s, S) /\ Outside(s, S) = f[Len(s)]
<1> DEFINE f == CHOOSE f : IsKept(f, Len(s), s, S)
<1>1. IsKept(f, Len(s), s, S)
  <2>1. Len(s) \in 0..Len(s)
    OBVIOUS
  <2>2. \E g : IsKept(g, Len(s), s, S)
    BY <2>1, KeptExists
  <2> QED
    BY <2>2, Zenon
<1>2. Outside(s, S) = f[Len(s)]
  BY DEF Outside, IsKept
<1> QED
  BY <1>1, <1>2

\* Append adds one member.
LEMMA MembersAppend ==
    ASSUME NEW U, NEW s \in Seq(U), NEW x \in U
    PROVE  Members(Append(s, x)) = Members(s) \cup {x}
<1> DEFINE t == Append(s, x)
<1>1. t \in Seq(U) /\ Len(t) = Len(s) + 1 /\ t[Len(s) + 1] = x
      /\ \A k \in 1..Len(s) : t[k] = s[k]
  OBVIOUS
<1>2. DOMAIN s = 1..Len(s) /\ DOMAIN t = 1..(Len(s) + 1) /\ Len(s) \in Nat
  BY <1>1
<1> HIDE DEF t
<1>3. Members(t) = {t[k] : k \in 1..(Len(s) + 1)} /\ Members(s) = {s[k] : k \in 1..Len(s)}
  BY <1>2 DEF Members
<1>4. 1..(Len(s) + 1) = 1..Len(s) \cup {Len(s) + 1}
  BY <1>2
<1>5. Members(t) \subseteq Members(s) \cup {x}
  BY <1>1, <1>3, <1>4
<1>6. Members(s) \cup {x} \subseteq Members(t)
  BY <1>1, <1>3, <1>4
<1> QED
  BY <1>5, <1>6 DEF t

\* Taking a set off a list leaves a list, and takes just that set off.
LEMMA OutsideFacts ==
    ASSUME NEW U, NEW s \in Seq(U), NEW S
    PROVE  /\ Outside(s, S) \in Seq(U)
           /\ Members(Outside(s, S)) = Members(s) \ S
<1>1. PICK f : IsKept(f, Len(s), s, S) /\ Outside(s, S) = f[Len(s)]
  BY OutsideIsKept
<1> DEFINE Good(n) == f[n] \in Seq(U) /\ Members(f[n]) = {s[j] : j \in 1..n} \ S
           Bad == {n \in 0..Len(s) : ~Good(n)}
<1>2. Bad = {}
  <2> SUFFICES ASSUME Bad # {} PROVE FALSE
    OBVIOUS
  <2>1. PICK n \in Bad : \A m \in Bad : n <= m
    <3>1. Bad \subseteq Nat
      OBVIOUS
    <3> HIDE DEF Bad
    <3> QED
      BY <3>1, LeastNumber
  <2>2. n \in 0..Len(s) /\ ~Good(n)
    OBVIOUS
  <2>3. n # 0
    <3>1. f[0] = <<>>
      BY <1>1 DEF IsKept
    <3>2. Good(0)
      BY <3>1 DEF Members
    <3> QED
      BY <2>2, <3>2
  <2>4. n \in 1..Len(s) /\ n-1 \in 0..Len(s)
    BY <2>2, <2>3
  <2>5. Good(n-1)
    <3> HIDE DEF Good
    <3>1. n-1 \notin Bad
      BY <2>1, <2>4
    <3> QED
      BY <2>4, <3>1
  <2>6. s[n] \in U
    BY <2>4
  <2>7. f[n] = IF s[n] \in S THEN f[n-1] ELSE Append(f[n-1], s[n])
    <3> HIDE DEF Bad, Good
    <3> QED
      BY <1>1, <2>4, KeptStep
  <2>8. {s[j] : j \in 1..n} = {s[j] : j \in 1..(n-1)} \cup {s[n]}
    <3>1. 1..n = 1..(n-1) \cup {n}
      BY <2>4
    <3> QED
      BY <3>1
  <2>9. CASE s[n] \in S
    BY <2>2, <2>5, <2>7, <2>8, <2>9
  <2>10. CASE s[n] \notin S
    <3>1. f[n] \in Seq(U)
      BY <2>5, <2>6, <2>7, <2>10
    <3>2. Members(f[n]) = Members(f[n-1]) \cup {s[n]}
      BY <2>5, <2>6, <2>7, <2>10, MembersAppend
    <3> QED
      BY <2>2, <2>5, <2>8, <2>10, <3>1, <3>2
  <2> QED
    BY <2>9, <2>10
<1>3. Good(Len(s))
  <2>1. Len(s) \in 0..Len(s)
    OBVIOUS
  <2> QED
    BY <1>2, <2>1
<1>4. Members(s) = {s[j] : j \in 1..Len(s)}
  BY DEF Members
<1> QED
  BY <1>1, <1>3, <1>4

\* Taking off what is not there changes nothing.
LEMMA OutsideNothing ==
    ASSUME NEW U, NEW s \in Seq(U), NEW S, \A k \in DOMAIN s : s[k] \notin S
    PROVE  Outside(s, S) = s
<1>1. PICK f : IsKept(f, Len(s), s, S) /\ Outside(s, S) = f[Len(s)]
  BY OutsideIsKept
<1> DEFINE Good(n) == f[n] \in Seq(U) /\ Len(f[n]) = n /\ \A j \in 1..n : f[n][j] = s[j]
           Bad == {n \in 0..Len(s) : ~Good(n)}
<1>2. Bad = {}
  <2> SUFFICES ASSUME Bad # {} PROVE FALSE
    OBVIOUS
  <2>1. PICK n \in Bad : \A m \in Bad : n <= m
    <3>1. Bad \subseteq Nat
      OBVIOUS
    <3> HIDE DEF Bad
    <3> QED
      BY <3>1, LeastNumber
  <2>2. n \in 0..Len(s) /\ ~Good(n)
    OBVIOUS
  <2>3. n # 0
    <3>1. f[0] = <<>>
      BY <1>1 DEF IsKept
    <3>2. Good(0)
      BY <3>1
    <3> QED
      BY <2>2, <3>2
  <2>4. n \in 1..Len(s) /\ n-1 \in 0..Len(s)
    BY <2>2, <2>3
  <2>5. Good(n-1)
    <3> HIDE DEF Good
    <3>1. n-1 \notin Bad
      BY <2>1, <2>4
    <3> QED
      BY <2>4, <3>1
  <2>6. s[n] \in U /\ s[n] \notin S
    BY <2>4
  <2>7. f[n] = Append(f[n-1], s[n])
    <3> HIDE DEF Bad, Good
    <3>1. f[n] = IF s[n] \in S THEN f[n-1] ELSE Append(f[n-1], s[n])
      BY <1>1, <2>4, KeptStep
    <3> QED
      BY <2>6, <3>1
  <2>8. PICK t : t = f[n-1]
    OBVIOUS
  <2>9. t \in Seq(U) /\ Len(t) = n-1 /\ \A j \in 1..(n-1) : t[j] = s[j]
    BY <2>5, <2>8
  <2>10. PICK r : r = Append(t, s[n])
    OBVIOUS
  <2>11. r \in Seq(U) /\ Len(r) = n /\ r[n] = s[n] /\ \A j \in 1..(n-1) : r[j] = t[j]
    BY <2>4, <2>6, <2>9, <2>10
  <2>12. \A j \in 1..n : r[j] = s[j]
    BY <2>4, <2>9, <2>11
  <2>13. f[n] = r
    BY <2>7, <2>8, <2>10
  <2> QED
    BY <2>2, <2>11, <2>12, <2>13
<1>3. Good(Len(s))
  <2>1. Len(s) \in 0..Len(s)
    OBVIOUS
  <2> QED
    BY <1>2, <2>1
<1>4. PICK t : t = f[Len(s)]
  OBVIOUS
<1>5. t \in Seq(U) /\ Len(t) = Len(s) /\ \A j \in 1..Len(s) : t[j] = s[j]
  BY <1>3, <1>4
<1>6. t = s
  BY <1>5
<1> QED
  BY <1>1, <1>4, <1>6

\* No entry comes twice.
NoRepeats(s) == \A j, k \in DOMAIN s : s[j] = s[k] => j = k

\* A new entry keeps a list without repetitions so.
LEMMA NoRepeatsAppend ==
    ASSUME NEW U, NEW s \in Seq(U), NEW x \in U, NoRepeats(s), x \notin Members(s)
    PROVE  NoRepeats(Append(s, x))
<1>1. PICK t : t = Append(s, x)
  OBVIOUS
<1>2. /\ t \in Seq(U) /\ Len(t) = Len(s) + 1 /\ t[Len(s) + 1] = x
      /\ \A k \in 1..Len(s) : t[k] = s[k]
  BY <1>1
<1>3. DOMAIN s = 1..Len(s) /\ DOMAIN t = 1..(Len(s) + 1) /\ Len(s) \in Nat
  BY <1>2
<1>4. \A k \in 1..Len(s) : s[k] # x
  BY <1>3 DEF Members
<1>5. ASSUME NEW j \in DOMAIN t, NEW k \in DOMAIN t, t[j] = t[k]
      PROVE  j = k
  <2>1. j \in 1..Len(s) \/ j = Len(s) + 1
    BY <1>3
  <2>2. k \in 1..Len(s) \/ k = Len(s) + 1
    BY <1>3
  <2> QED
    BY <1>2, <1>3, <1>4, <1>5, <2>1, <2>2 DEF NoRepeats
<1> QED
  BY <1>1, <1>5 DEF NoRepeats

\* Taking entries off repeats none.
LEMMA OutsideNoRepeats ==
    ASSUME NEW U, NEW s \in Seq(U), NEW S, NoRepeats(s)
    PROVE  NoRepeats(Outside(s, S))
<1>1. PICK f : IsKept(f, Len(s), s, S) /\ Outside(s, S) = f[Len(s)]
  BY OutsideIsKept
<1> DEFINE Good(n) == f[n] \in Seq(U) /\ Members(f[n]) \subseteq {s[j] : j \in 1..n} /\ NoRepeats(f[n])
           Bad == {n \in 0..Len(s) : ~Good(n)}
<1>2. Bad = {}
  <2> SUFFICES ASSUME Bad # {} PROVE FALSE
    OBVIOUS
  <2>1. PICK n \in Bad : \A m \in Bad : n <= m
    <3>1. Bad \subseteq Nat
      OBVIOUS
    <3> HIDE DEF Bad
    <3> QED
      BY <3>1, LeastNumber
  <2>2. n \in 0..Len(s) /\ ~Good(n)
    OBVIOUS
  <2>3. n # 0
    <3>1. f[0] = <<>>
      BY <1>1 DEF IsKept
    <3>2. Good(0)
      BY <3>1 DEF Members, NoRepeats
    <3> QED
      BY <2>2, <3>2
  <2>4. n \in 1..Len(s) /\ n-1 \in 0..Len(s)
    BY <2>2, <2>3
  <2>5. Good(n-1)
    <3> HIDE DEF Good
    <3>1. n-1 \notin Bad
      BY <2>1, <2>4
    <3> QED
      BY <2>4, <3>1
  <2>6. s[n] \in U
    BY <2>4
  <2>7. f[n] = IF s[n] \in S THEN f[n-1] ELSE Append(f[n-1], s[n])
    <3> HIDE DEF Bad, Good
    <3> QED
      BY <1>1, <2>4, KeptStep
  <2>8. {s[j] : j \in 1..n} = {s[j] : j \in 1..(n-1)} \cup {s[n]}
    <3>1. 1..n = 1..(n-1) \cup {n}
      BY <2>4
    <3> QED
      BY <3>1
  <2>9. CASE s[n] \in S
    BY <2>2, <2>5, <2>7, <2>8, <2>9
  <2>10. CASE s[n] \notin S
    <3>1. f[n] \in Seq(U)
      BY <2>5, <2>6, <2>7, <2>10
    <3>2. Members(f[n]) = Members(f[n-1]) \cup {s[n]}
      BY <2>5, <2>6, <2>7, <2>10, MembersAppend
    <3>3. s[n] \notin {s[j] : j \in 1..(n-1)}
      <4>1. \A j \in 1..(n-1) : j \in DOMAIN s /\ n \in DOMAIN s /\ j # n
        BY <2>4
      <4> QED
        BY <4>1 DEF NoRepeats
    <3>4. NoRepeats(f[n])
      BY <2>5, <2>6, <2>7, <2>10, <3>3, NoRepeatsAppend
    <3> QED
      BY <2>2, <2>5, <2>8, <3>1, <3>2, <3>4
  <2> QED
    BY <2>9, <2>10
<1>3. Good(Len(s))
  <2>1. Len(s) \in 0..Len(s)
    OBVIOUS
  <2> QED
    BY <1>2, <2>1
<1> QED
  BY <1>1, <1>3
==============================================================================
