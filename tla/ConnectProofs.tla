---------------------------- MODULE ConnectProofs ----------------------------
(***************************************************************************)
(* Proofs about Connect for any number of addresses: what the interleaved  *)
(* list is, that the race always has an attempt under way, and that the    *)
(* reply tells the truth.                                                  *)
(***************************************************************************)
EXTENDS Connect, Loops, SequenceTheorems

------------------------------------------------------------------------------
\* The addresses that a lookup may return.
Addresses == [family : Families, pos : Nat]

\* The function that OfFamily is computed with.
IsKept(g, list, family) ==
  /\ g \in [0 .. Len(list) -> Seq(Addresses)] /\ g[0] = <<>>
  /\ \A n \in 1 .. Len(list) : g[n] = Keep(g[n - 1], list[n], family)

LEMMA KeptLemma ==
  ASSUME NEW list \in Seq(Addresses), NEW family
  PROVE  \E g : IsKept(g, list, family) /\ OfFamily(list, family) = g[Len(list)]
<1> DEFINE kept[n \in 0 .. Len(list)] ==
             IF n = 0 THEN <<>> ELSE Keep(kept[n - 1], list[n], family)
           step == [n \in 1 .. Len(list) |-> [v \in Seq(Addresses) |->
                      Keep(v, list[n], family)]]
<1>1. Len(list) \in Nat /\ \A n \in 1 .. Len(list) : list[n] \in Addresses
  OBVIOUS
<1>2. /\ <<>> \in Seq(Addresses)
      /\ step \in [1 .. Len(list) -> [Seq(Addresses) -> Seq(Addresses)]]
  BY <1>1 DEF Keep
<1>3. \A n \in 1 .. Len(list), v \in Seq(Addresses) : step[n][v] = Keep(v, list[n], family)
  OBVIOUS
<1>4. OfFamily(list, family) = kept[Len(list)]
  BY DEF OfFamily
<1> HIDE DEF step
<1>5. PICK g : IsRecursive(g, <<>>, Len(list), Seq(Addresses), step)
  BY <1>1, <1>2, RecursionLemma
<1>6. \A n \in 1 .. Len(list) : g[n - 1] \in Seq(Addresses)
  BY <1>1, <1>5 DEF IsRecursive
<1>7. IsKept(g, list, family)
  BY <1>3, <1>5, <1>6 DEF IsRecursive, IsKept
<1>8. g = [n \in 0 .. Len(list) |-> IF n = 0 THEN <<>> ELSE Keep(g[n - 1], list[n], family)]
  BY <1>1, <1>7 DEF IsKept
<1>9. kept = [n \in 0 .. Len(list) |->
                IF n = 0 THEN <<>> ELSE Keep(kept[n - 1], list[n], family)]
  BY <1>8, Zenon
<1> HIDE DEF kept
<1> DEFINE S == {n \in Nat : n <= Len(list) => kept[n] = g[n]}
<1>10. 0 \in S
  BY <1>1, <1>7, <1>9 DEF IsKept
<1>11. ASSUME NEW n \in Nat, n \in S PROVE n + 1 \in S
  <2> SUFFICES ASSUME n + 1 <= Len(list) PROVE kept[n + 1] = g[n + 1]
    OBVIOUS
  <2>1. kept[n] = g[n] /\ n + 1 \in 1 .. Len(list) /\ (n + 1) - 1 = n
    BY <1>1, <1>11
  <2>2. kept[n + 1] = Keep(kept[n], list[n + 1], family)
    BY <1>1, <1>9, <2>1
  <2>3. g[n + 1] = Keep(g[n], list[n + 1], family)
    BY <1>7, <2>1 DEF IsKept
  <2> QED
    BY <2>1, <2>2, <2>3
<1> HIDE DEF S
<1>12. Len(list) \in S
  BY <1>1, <1>10, <1>11, Induction
<1> QED
  BY <1>1, <1>4, <1>7, <1>12 DEF S

\* OfFamily picks addresses of that family only.
LEMMA FamilyType ==
  ASSUME NEW list \in Seq(Addresses), NEW family
  PROVE  /\ OfFamily(list, family) \in Seq(Addresses)
         /\ \A i \in 1 .. Len(OfFamily(list, family)) :
              OfFamily(list, family)[i].family = family
<1>1. PICK g : IsKept(g, list, family) /\ OfFamily(list, family) = g[Len(list)]
  BY KeptLemma
<1> DEFINE Pure(s) == \A i \in 1 .. Len(s) : s[i].family = family
           S == {n \in Nat : n <= Len(list) => Pure(g[n])}
<1>2. Len(list) \in Nat /\ \A n \in 1 .. Len(list) : list[n] \in Addresses
  OBVIOUS
<1>3. \A n \in 0 .. Len(list) : g[n] \in Seq(Addresses)
  BY <1>1 DEF IsKept
<1>4. 0 \in S
  BY <1>1 DEF IsKept
<1>5. ASSUME NEW n \in Nat, n \in S PROVE n + 1 \in S
  <2> SUFFICES ASSUME n + 1 <= Len(list) PROVE Pure(g[n + 1])
    OBVIOUS
  <2>1. Pure(g[n]) /\ n + 1 \in 1 .. Len(list) /\ n \in 0 .. Len(list) /\ (n + 1) - 1 = n
    BY <1>2, <1>5
  <2>2. g[n + 1] = Keep(g[n], list[n + 1], family)
    BY <1>1, <2>1 DEF IsKept
  <2> DEFINE v == g[n]  e == list[n + 1]
  <2>3. v \in Seq(Addresses) /\ e \in Addresses /\ Pure(v)
    BY <1>2, <1>3, <2>1
  <2> HIDE DEF v, e
  <2>4. Pure(Keep(v, e, family))
    <3>1. CASE e.family = family
      BY <2>3, <3>1, AppendProperties DEF Keep
    <3>2. CASE e.family # family
      BY <2>3, <3>2 DEF Keep
    <3> QED
      BY <3>1, <3>2
  <2> QED
    BY <2>2, <2>4 DEF v, e
<1> HIDE DEF S
<1>6. Len(list) \in S
  BY <1>2, <1>4, <1>5, Induction
<1> QED
  BY <1>1, <1>2, <1>3, <1>6 DEF S

LEMMA FamilyEmpty ==
  ASSUME NEW family
  PROVE  OfFamily(<<>>, family) = <<>>
<1>1. <<>> \in Seq(Addresses) /\ Len(<<>>) = 0
  OBVIOUS
<1>2. PICK g : IsKept(g, <<>>, family) /\ OfFamily(<<>>, family) = g[Len(<<>>)]
  BY <1>1, KeptLemma
<1> QED
  BY <1>1, <1>2 DEF IsKept

\* One more address: it is kept if it is of the family.
LEMMA FamilyAppend ==
  ASSUME NEW list \in Seq(Addresses), NEW e \in Addresses, NEW family
  PROVE  OfFamily(Append(list, e), family) = Keep(OfFamily(list, family), e, family)
<1> DEFINE long == Append(list, e)
<1>1. /\ long \in Seq(Addresses) /\ Len(list) \in Nat /\ Len(long) = Len(list) + 1
      /\ \A i \in 1 .. Len(list) : long[i] = list[i]
      /\ long[Len(list) + 1] = e
  BY AppendProperties
<1> HIDE DEF long
<1>2. PICK g : IsKept(g, list, family) /\ OfFamily(list, family) = g[Len(list)]
  BY KeptLemma
<1>3. PICK h : IsKept(h, long, family) /\ OfFamily(long, family) = h[Len(long)]
  BY <1>1, KeptLemma
<1> DEFINE S == {n \in Nat : n <= Len(list) => h[n] = g[n]}
<1>4. 0 \in S
  BY <1>2, <1>3 DEF IsKept
<1>5. ASSUME NEW n \in Nat, n \in S PROVE n + 1 \in S
  <2> SUFFICES ASSUME n + 1 <= Len(list) PROVE h[n + 1] = g[n + 1]
    OBVIOUS
  <2>1. /\ h[n] = g[n] /\ n + 1 \in 1 .. Len(list) /\ n + 1 \in 1 .. Len(long)
        /\ (n + 1) - 1 = n /\ long[n + 1] = list[n + 1]
    BY <1>1, <1>5
  <2>2. g[n + 1] = Keep(g[n], list[n + 1], family)
    BY <1>2, <2>1 DEF IsKept
  <2>3. h[n + 1] = Keep(h[n], long[n + 1], family)
    BY <1>3, <2>1 DEF IsKept
  <2> QED
    BY <2>1, <2>2, <2>3
<1> HIDE DEF S
<1>6. Len(list) \in S
  BY <1>1, <1>4, <1>5, Induction
<1>7. h[Len(list)] = g[Len(list)]
  BY <1>1, <1>6 DEF S
<1>8. h[Len(list) + 1] = Keep(h[Len(list)], long[Len(list) + 1], family)
  <2>1. Len(list) + 1 \in 1 .. Len(long) /\ (Len(list) + 1) - 1 = Len(list)
    BY <1>1
  <2> QED
    BY <1>3, <2>1 DEF IsKept
<1> QED
  BY <1>1, <1>2, <1>3, <1>7, <1>8 DEF long

\* The two families make up the list.
LEMMA FamilyLengths ==
  ASSUME NEW list \in Seq(Addresses)
  PROVE  Len(OfFamily(list, "v6")) + Len(OfFamily(list, "v4")) = Len(list)
<1>1. PICK g : IsKept(g, list, "v6") /\ OfFamily(list, "v6") = g[Len(list)]
  BY KeptLemma
<1>2. PICK h : IsKept(h, list, "v4") /\ OfFamily(list, "v4") = h[Len(list)]
  BY KeptLemma
<1> DEFINE Whole(n) == Len(g[n]) + Len(h[n]) = n
           S == {n \in Nat : n <= Len(list) => Whole(n)}
<1>3. Len(list) \in Nat /\ \A n \in 1 .. Len(list) : list[n] \in Addresses
  OBVIOUS
<1>4. 0 \in S
  BY <1>1, <1>2 DEF IsKept
<1>5. ASSUME NEW n \in Nat, n \in S PROVE n + 1 \in S
  <2> HIDE DEF Whole
  <2> SUFFICES ASSUME n + 1 <= Len(list) PROVE Whole(n + 1)
    OBVIOUS
  <2> DEFINE v == g[n]  w == h[n]  e == list[n + 1]
  <2>1. /\ Whole(n) /\ n + 1 \in 1 .. Len(list) /\ n \in 0 .. Len(list)
        /\ (n + 1) - 1 = n
    BY <1>3, <1>5
  <2>2. v \in Seq(Addresses) /\ w \in Seq(Addresses) /\ e \in Addresses
    BY <1>1, <1>2, <1>3, <2>1 DEF IsKept
  <2>3. g[n + 1] = Keep(v, e, "v6") /\ h[n + 1] = Keep(w, e, "v4")
    BY <1>1, <1>2, <2>1 DEF IsKept
  <2> HIDE DEF v, w, e
  <2>4. Len(Keep(v, e, "v6")) + Len(Keep(w, e, "v4")) = Len(v) + Len(w) + 1
    <3>1. e.family \in {"v4", "v6"} /\ Len(v) \in Nat /\ Len(w) \in Nat
      BY <2>2 DEF Addresses, Families
    <3>2. Len(Append(v, e)) = Len(v) + 1 /\ Len(Append(w, e)) = Len(w) + 1
      BY <2>2, AppendProperties
    <3>3. CASE e.family = "v6"
      BY <3>1, <3>2, <3>3 DEF Keep
    <3>4. CASE e.family = "v4"
      BY <3>1, <3>2, <3>4 DEF Keep
    <3> QED
      BY <3>1, <3>3, <3>4
  <2> QED
    BY <2>1, <2>3, <2>4 DEF Whole, v, w
<1> HIDE DEF S
<1>6. Len(list) \in S
  BY <1>3, <1>4, <1>5, Induction
<1> HIDE DEF Whole
<1>7. Whole(Len(list))
  BY <1>3, <1>6 DEF S
<1> QED
  BY <1>1, <1>2, <1>7 DEF Whole

------------------------------------------------------------------------------
\* The function that interleave_addresses is computed with.
IsRounds(g, v6, v4, N) ==
  /\ g \in [0 .. N -> Seq(Addresses)] /\ g[0] = <<>>
  /\ \A n \in 1 .. N : g[n] = Round(g[n - 1], v6, v4, n)

\* What an Option adds to a list.
LEMMA NthLemma ==
  ASSUME NEW r \in Seq(Addresses), NEW s \in Seq(Addresses), NEW n \in Nat, n > 0
  PROVE  /\ r \o Nth(s, n) = IF n <= Len(s) THEN Append(r, s[n]) ELSE r
         /\ r \o Nth(s, n) \in Seq(Addresses)
<1>1. CASE n <= Len(s)
  <2>1. s[n] \in Addresses
    BY <1>1
  <2>2. Append(r, s[n]) = r \o <<s[n]>> /\ Append(r, s[n]) \in Seq(Addresses)
    BY <2>1, AppendIsConcat, AppendProperties
  <2> QED
    BY <1>1, <2>2 DEF Nth
<1>2. CASE ~(n <= Len(s))
  BY <1>2, ConcatEmptySeq DEF Nth
<1> QED
  BY <1>1, <1>2

LEMMA RoundType ==
  ASSUME NEW r \in Seq(Addresses), NEW v6 \in Seq(Addresses), NEW v4 \in Seq(Addresses),
         NEW n \in Nat, n > 0
  PROVE  Round(r, v6, v4, n) \in Seq(Addresses)
<1>1. r \o Nth(v6, n) \in Seq(Addresses)
  BY NthLemma
<1> QED
  BY <1>1, NthLemma DEF Round

LEMMA RoundsLemma ==
  ASSUME NEW list \in Seq(Addresses)
  PROVE  LET v6 == OfFamily(list, "v6")
             v4 == OfFamily(list, "v4")
         IN  \E g : /\ IsRounds(g, v6, v4, Len(list))
                    /\ interleave_addresses(list) = g[Len(list)]
<1> DEFINE v6 == OfFamily(list, "v6")
           v4 == OfFamily(list, "v4")
           N == Len(list)
           rounds[n \in 0 .. N] ==
             IF n = 0 THEN <<>> ELSE Round(rounds[n - 1], v6, v4, n)
           step == [n \in 1 .. N |-> [v \in Seq(Addresses) |-> Round(v, v6, v4, n)]]
<1>1. N \in Nat /\ v6 \in Seq(Addresses) /\ v4 \in Seq(Addresses)
  BY FamilyType
<1>2. interleave_addresses(list) = rounds[N]
  BY DEF interleave_addresses
<1> HIDE DEF N, v6, v4
<1>3. <<>> \in Seq(Addresses) /\ step \in [1 .. N -> [Seq(Addresses) -> Seq(Addresses)]]
  BY <1>1, RoundType
<1>4. \A n \in 1 .. N, v \in Seq(Addresses) : step[n][v] = Round(v, v6, v4, n)
  OBVIOUS
<1> HIDE DEF step
<1>5. PICK g : IsRecursive(g, <<>>, N, Seq(Addresses), step)
  BY <1>1, <1>3, RecursionLemma
<1>6. \A n \in 1 .. N : g[n - 1] \in Seq(Addresses)
  BY <1>1, <1>5 DEF IsRecursive
<1>7. IsRounds(g, v6, v4, N)
  BY <1>4, <1>5, <1>6 DEF IsRecursive, IsRounds
<1>8. g = [n \in 0 .. N |-> IF n = 0 THEN <<>> ELSE Round(g[n - 1], v6, v4, n)]
  BY <1>1, <1>7 DEF IsRounds
<1>9. rounds = [n \in 0 .. N |-> IF n = 0 THEN <<>> ELSE Round(rounds[n - 1], v6, v4, n)]
  BY <1>8, Zenon
<1> HIDE DEF rounds
<1> DEFINE S == {n \in Nat : n <= N => rounds[n] = g[n]}
<1>10. 0 \in S
  BY <1>1, <1>7, <1>9 DEF IsRounds
<1>11. ASSUME NEW n \in Nat, n \in S PROVE n + 1 \in S
  <2> SUFFICES ASSUME n + 1 <= N PROVE rounds[n + 1] = g[n + 1]
    OBVIOUS
  <2>1. rounds[n] = g[n] /\ n + 1 \in 1 .. N /\ (n + 1) - 1 = n
    BY <1>1, <1>11
  <2>2. rounds[n + 1] = Round(rounds[n], v6, v4, n + 1)
    BY <1>1, <1>9, <2>1
  <2>3. g[n + 1] = Round(g[n], v6, v4, n + 1)
    BY <1>7, <2>1 DEF IsRounds
  <2> QED
    BY <2>1, <2>2, <2>3
<1> HIDE DEF S
<1>12. N \in S
  BY <1>1, <1>10, <1>11, Induction
<1>13. IsRounds(g, v6, v4, N) /\ interleave_addresses(list) = g[N]
  BY <1>1, <1>2, <1>7, <1>12 DEF S
<1> QED
  BY <1>13 DEF v6, v4, N

\* Addresses of one family.
AllOf(s, f) ==
  s \in Seq(Addresses) /\ \A i \in 1 .. Len(s) : s[i].family = f

\* What an Option adds to the addresses of a family.
LEMMA NthFamily ==
  ASSUME NEW r \in Seq(Addresses), NEW s, NEW n \in Nat, n > 0,
         NEW f, NEW h, AllOf(s, h)
  PROVE  OfFamily(r \o Nth(s, n), f) =
           IF n <= Len(s) /\ h = f THEN Append(OfFamily(r, f), s[n])
                                   ELSE OfFamily(r, f)
<1>1. CASE n <= Len(s)
  <2> DEFINE e == s[n]
  <2>1. e \in Addresses /\ e.family = h
    BY <1>1 DEF AllOf
  <2>2. r \o Nth(s, n) = Append(r, e)
    BY <1>1, NthLemma DEF AllOf
  <2> HIDE DEF e
  <2>3. OfFamily(Append(r, e), f) = Keep(OfFamily(r, f), e, f)
    BY <2>1, FamilyAppend
  <2> QED
    BY <1>1, <2>1, <2>2, <2>3 DEF Keep, e
<1>2. CASE ~(n <= Len(s))
  BY <1>2, NthLemma DEF AllOf
<1> QED
  BY <1>1, <1>2

LEMMA NthOwn ==
  ASSUME NEW r \in Seq(Addresses), NEW s, NEW n \in Nat, n > 0, NEW h, AllOf(s, h)
  PROVE  OfFamily(r \o Nth(s, n), h) =
           IF n <= Len(s) THEN Append(OfFamily(r, h), s[n]) ELSE OfFamily(r, h)
BY NthFamily

\* The first n elements of v, or all of them.
FirstOf(s, v, n) ==
  /\ s \in Seq(Addresses)
  /\ Len(s) = IF n <= Len(v) THEN n ELSE Len(v)
  /\ \A i \in 1 .. Len(s) : s[i] = v[i]

LEMMA FirstOfNext ==
  ASSUME NEW s, NEW v \in Seq(Addresses), NEW n \in Nat, FirstOf(s, v, n)
  PROVE  FirstOf(IF n + 1 <= Len(v) THEN Append(s, v[n + 1]) ELSE s, v, n + 1)
<1>1. CASE n + 1 <= Len(v)
  <2> DEFINE e == v[n + 1]
  <2>1. e \in Addresses /\ Len(s) = n /\ s \in Seq(Addresses)
    BY <1>1 DEF FirstOf
  <2> HIDE DEF e
  <2>2. /\ Append(s, e) \in Seq(Addresses) /\ Len(Append(s, e)) = n + 1
        /\ \A i \in 1 .. n : Append(s, e)[i] = s[i]
        /\ Append(s, e)[n + 1] = e
    BY <2>1, AppendProperties
  <2>3. \A i \in 1 .. n : s[i] = v[i]
    BY <2>1 DEF FirstOf
  <2>4. FirstOf(Append(s, e), v, n + 1)
    BY <1>1, <2>2, <2>3 DEF FirstOf, e
  <2> QED
    BY <1>1, <2>4 DEF e
<1>2. CASE ~(n + 1 <= Len(v))
  BY <1>2 DEF FirstOf
<1> QED
  BY <1>1, <1>2

\* The order of the race: the families take turns up to position k, IPv6
\* first, and the rest is of family f.
Woven(r, k, f) ==
  /\ k \in 0 .. Len(r)
  /\ k > 0 => r[1].family = "v6" /\ r[k].family = "v4"
  /\ \A i \in 2 .. k : r[i].family # r[i - 1].family
  /\ \A i \in k + 1 .. Len(r) : r[i].family = f

LEMMA WovenTwo ==
  ASSUME NEW r \in Seq(Addresses), NEW d \in Addresses, NEW e \in Addresses,
         NEW f, Woven(r, Len(r), f), d.family = "v6", e.family = "v4"
  PROVE  Woven(Append(Append(r, d), e), Len(r) + 2, f)
<1> DEFINE a == Append(r, d)  b == Append(a, e)
<1>1. /\ a \in Seq(Addresses) /\ Len(a) = Len(r) + 1
      /\ \A i \in 1 .. Len(r) : a[i] = r[i]
      /\ a[Len(r) + 1] = d
  BY AppendProperties
<1> HIDE DEF a
<1>2. /\ b \in Seq(Addresses) /\ Len(b) = Len(a) + 1
      /\ \A i \in 1 .. Len(a) : b[i] = a[i]
      /\ b[Len(a) + 1] = e
  BY <1>1, AppendProperties
<1> HIDE DEF b
<1> DEFINE N == Len(r)
<1>3. N \in Nat
  OBVIOUS
<1>4. /\ Len(b) = N + 2 /\ b[N + 1] = d /\ b[N + 2] = e
      /\ \A i \in 1 .. N : b[i] = r[i]
  BY <1>1, <1>2, <1>3
<1>5. /\ N > 0 => r[1].family = "v6" /\ r[N].family = "v4"
      /\ \A i \in 2 .. N : r[i].family # r[i - 1].family
  BY DEF Woven
<1> HIDE DEF N
<1>6. b[1].family = "v6"
  BY <1>3, <1>4, <1>5
<1>7. ASSUME NEW i \in 2 .. N + 2 PROVE b[i].family # b[i - 1].family
  <2>1. CASE i \in 2 .. N
    BY <1>3, <1>4, <1>5, <2>1
  <2>2. CASE i = N + 1
    BY <1>3, <1>4, <1>5, <2>2
  <2>3. CASE i = N + 2
    BY <1>3, <1>4, <2>3
  <2> QED
    BY <1>3, <2>1, <2>2, <2>3
<1>8. Woven(b, N + 2, f)
  BY <1>3, <1>4, <1>6, <1>7 DEF Woven
<1> QED
  BY <1>8 DEF a, b, N

LEMMA WovenRest ==
  ASSUME NEW r \in Seq(Addresses), NEW e \in Addresses, NEW k, NEW f,
         Woven(r, k, f), e.family = f
  PROVE  Woven(Append(r, e), k, f)
<1> DEFINE b == Append(r, e)  N == Len(r)
<1>1. /\ N \in Nat /\ Len(b) = N + 1 /\ b[N + 1] = e
      /\ \A i \in 1 .. N : b[i] = r[i]
  BY AppendProperties
<1>2. /\ k \in 0 .. N
      /\ k > 0 => r[1].family = "v6" /\ r[k].family = "v4"
      /\ \A i \in 2 .. k : r[i].family # r[i - 1].family
      /\ \A i \in k + 1 .. N : r[i].family = f
  BY DEF Woven
<1> HIDE DEF b, N
<1>3. \A i \in 2 .. k : b[i].family # b[i - 1].family
  BY <1>1, <1>2, SMTT(40)
<1>4. \A i \in k + 1 .. N + 1 : b[i].family = f
  <2> TAKE i \in k + 1 .. N + 1
  <2>1. CASE i = N + 1
    BY <1>1, <2>1
  <2>2. CASE i \in k + 1 .. N
    BY <1>1, <1>2, <2>2
  <2> QED
    BY <1>1, <1>2, <2>1, <2>2
<1>5. Woven(b, k, f)
  BY <1>1, <1>2, <1>3, <1>4 DEF Woven
<1> QED
  BY <1>5 DEF b

\* What the rounds have made of the two lists after n of them.
Turns(v6, v4, n) ==
  IF n <= Len(v6) /\ n <= Len(v4) THEN n + n
  ELSE IF Len(v6) <= Len(v4) THEN Len(v6) + Len(v6) ELSE Len(v4) + Len(v4)

Longer(v6, v4) == IF Len(v6) > Len(v4) THEN "v6" ELSE "v4"

AfterRounds(r, v6, v4, n) ==
  /\ r \in Seq(Addresses)
  /\ FirstOf(OfFamily(r, "v6"), v6, n)
  /\ FirstOf(OfFamily(r, "v4"), v4, n)
  /\ Woven(r, Turns(v6, v4, n), Longer(v6, v4))

\* One more round.
LEMMA RoundLemma ==
  ASSUME NEW r, NEW v6, NEW v4, NEW n \in Nat, AllOf(v6, "v6"), AllOf(v4, "v4"),
         AfterRounds(r, v6, v4, n)
  PROVE  AfterRounds(Round(r, v6, v4, n + 1), v6, v4, n + 1)
<1> DEFINE a == r \o Nth(v6, n + 1)
           b == Round(r, v6, v4, n + 1)
           f == Longer(v6, v4)
<1>1. /\ r \in Seq(Addresses) /\ n + 1 \in Nat /\ n + 1 > 0
      /\ v6 \in Seq(Addresses) /\ v4 \in Seq(Addresses)
  BY DEF AfterRounds, AllOf
<1>2. a \in Seq(Addresses) /\ b \in Seq(Addresses) /\ b = a \o Nth(v4, n + 1)
  BY <1>1, NthLemma DEF Round
<1>3. FirstOf(OfFamily(b, "v6"), v6, n + 1)
  <2>1. OfFamily(a, "v6") = IF n + 1 <= Len(v6)
                            THEN Append(OfFamily(r, "v6"), v6[n + 1])
                            ELSE OfFamily(r, "v6")
    <3> DEFINE m == n + 1
    <3>1. m \in Nat /\ m > 0
      BY <1>1
    <3> HIDE DEF m
    <3>2. OfFamily(r \o Nth(v6, m), "v6") =
            IF m <= Len(v6) THEN Append(OfFamily(r, "v6"), v6[m]) ELSE OfFamily(r, "v6")
      BY <1>1, <3>1, NthOwn
    <3> QED
      BY <3>2 DEF m
  <2>2. OfFamily(b, "v6") = OfFamily(a, "v6")
    <3> HIDE DEF a, b
    <3> QED
      BY <1>1, <1>2, NthFamily
  <2>3. FirstOf(OfFamily(r, "v6"), v6, n)
    BY DEF AfterRounds
  <2> QED
    BY <1>1, <2>1, <2>2, <2>3, FirstOfNext
<1>4. FirstOf(OfFamily(b, "v4"), v4, n + 1)
  <2>1. OfFamily(a, "v4") = OfFamily(r, "v4")
    BY <1>1, NthFamily
  <2>2. OfFamily(b, "v4") = IF n + 1 <= Len(v4)
                            THEN Append(OfFamily(a, "v4"), v4[n + 1])
                            ELSE OfFamily(a, "v4")
    <3> HIDE DEF a, b
    <3> DEFINE m == n + 1
    <3>1. m \in Nat /\ m > 0
      BY <1>1
    <3> HIDE DEF m
    <3>2. OfFamily(a \o Nth(v4, m), "v4") =
            IF m <= Len(v4) THEN Append(OfFamily(a, "v4"), v4[m]) ELSE OfFamily(a, "v4")
      BY <1>2, <3>1, NthOwn
    <3> QED
      BY <1>2, <3>2 DEF m
  <2>3. FirstOf(OfFamily(r, "v4"), v4, n)
    BY DEF AfterRounds
  <2> QED
    BY <1>1, <2>1, <2>2, <2>3, FirstOfNext
<1>5. Woven(b, Turns(v6, v4, n + 1), f)
  <2>1. Len(v6) \in Nat /\ Len(v4) \in Nat
    BY <1>1
  <2>2. Woven(r, Turns(v6, v4, n), f)
    BY DEF AfterRounds
  <2>3. /\ a = IF n + 1 <= Len(v6) THEN Append(r, v6[n + 1]) ELSE r
        /\ b = IF n + 1 <= Len(v4) THEN Append(a, v4[n + 1]) ELSE a
    <3>1. a = IF n + 1 <= Len(v6) THEN Append(r, v6[n + 1]) ELSE r
      BY <1>1, NthLemma
    <3> HIDE DEF a, b
    <3>2. b = IF n + 1 <= Len(v4) THEN Append(a, v4[n + 1]) ELSE a
      BY <1>1, <1>2, NthLemma
    <3> QED
      BY <3>1, <3>2
  <2>4. /\ n + 1 <= Len(v6) => v6[n + 1] \in Addresses /\ v6[n + 1].family = "v6"
        /\ n + 1 <= Len(v4) => v4[n + 1] \in Addresses /\ v4[n + 1].family = "v4"
    BY <1>1 DEF AllOf
  <2>5. n + 1 <= Len(v6) /\ n + 1 <= Len(v4) => Turns(v6, v4, n) = Len(r)
    <3>1. FirstOf(OfFamily(r, "v6"), v6, n) /\ FirstOf(OfFamily(r, "v4"), v4, n)
      BY DEF AfterRounds
    <3>2. Len(OfFamily(r, "v6")) + Len(OfFamily(r, "v4")) = Len(r)
      BY <1>1, FamilyLengths
    <3> SUFFICES ASSUME n + 1 <= Len(v6), n + 1 <= Len(v4)
                 PROVE  Turns(v6, v4, n) = Len(r)
      OBVIOUS
    <3>3. n <= Len(v6) /\ n <= Len(v4)
      BY <2>1
    <3>4. Len(OfFamily(r, "v6")) = n /\ Len(OfFamily(r, "v4")) = n
      BY <3>1, <3>3 DEF FirstOf
    <3> QED
      BY <3>2, <3>3, <3>4 DEF Turns
  <2> HIDE DEF a, b, f
  <2>6. CASE n + 1 <= Len(v6) /\ n + 1 <= Len(v4)
    <3>1. Woven(r, Len(r), f)
      BY <2>2, <2>5, <2>6
    <3>2. b = Append(Append(r, v6[n + 1]), v4[n + 1])
      BY <2>3, <2>6
    <3>3. Woven(b, Len(r) + 2, f)
      BY <1>1, <2>4, <2>6, <3>1, <3>2, WovenTwo
    <3>4. Turns(v6, v4, n + 1) = Len(r) + 2
      <4>1. n + n = Len(r)
        BY <2>1, <2>5, <2>6 DEF Turns
      <4>2. Turns(v6, v4, n + 1) = (n + 1) + (n + 1)
        BY <2>6 DEF Turns
      <4> QED
        BY <4>1, <4>2
    <3> QED
      BY <3>3, <3>4
  <2>7. CASE n + 1 <= Len(v6) /\ ~(n + 1 <= Len(v4))
    <3>1. b = Append(r, v6[n + 1]) /\ f = "v6"
      BY <2>1, <2>3, <2>7 DEF f, Longer
    <3>2. Turns(v6, v4, n + 1) = Turns(v6, v4, n)
      BY <2>1, <2>7 DEF Turns
    <3> QED
      BY <1>1, <2>2, <2>4, <2>7, <3>1, <3>2, WovenRest
  <2>8. CASE ~(n + 1 <= Len(v6)) /\ n + 1 <= Len(v4)
    <3>1. b = Append(r, v4[n + 1]) /\ f = "v4"
      BY <2>1, <2>3, <2>8 DEF f, Longer
    <3>2. Turns(v6, v4, n + 1) = Turns(v6, v4, n)
      <4>1. n + 1 > Len(v6) /\ n + 1 <= Len(v4) /\ Len(v6) <= Len(v4)
        BY <2>1, <2>8
      <4>2. Turns(v6, v4, n + 1) = Len(v6) + Len(v6)
        BY <2>1, <4>1 DEF Turns
      <4>3. n <= Len(v6) => n = Len(v6)
        BY <2>1, <4>1
      <4>4. Turns(v6, v4, n) = Len(v6) + Len(v6)
        BY <2>1, <4>1, <4>3 DEF Turns
      <4> QED
        BY <4>2, <4>4
    <3> QED
      BY <1>1, <2>2, <2>4, <2>8, <3>1, <3>2, WovenRest
  <2>9. CASE ~(n + 1 <= Len(v6)) /\ ~(n + 1 <= Len(v4))
    <3>1. b = r
      BY <2>3, <2>9
    <3>2. Turns(v6, v4, n + 1) = Turns(v6, v4, n)
      BY <2>1, <2>9 DEF Turns
    <3> QED
      BY <2>2, <3>1, <3>2
  <2> QED
    BY <2>6, <2>7, <2>8, <2>9
<1> QED
  BY <1>2, <1>3, <1>4, <1>5 DEF AfterRounds

\* What interleave_addresses computes, for a list of any length.
THEOREM InterleaveLemma ==
  ASSUME NEW list \in Seq(Addresses)
  PROVE  LET order == interleave_addresses(list)
         IN  /\ order \in Seq(Addresses) /\ Len(order) = Len(list)
             /\ \A f \in Families : OfFamily(order, f) = OfFamily(list, f)
             /\ \E k \in 0 .. Len(order), f \in Families : Woven(order, k, f)
<1> DEFINE v6 == OfFamily(list, "v6")
           v4 == OfFamily(list, "v4")
           N == Len(list)
<1>1. /\ N \in Nat /\ v6 \in Seq(Addresses) /\ v4 \in Seq(Addresses)
      /\ AllOf(v6, "v6") /\ AllOf(v4, "v4")
      /\ Len(v6) + Len(v4) = N
  <2>1. AllOf(v6, "v6")
    BY FamilyType DEF AllOf
  <2>2. AllOf(v4, "v4")
    BY FamilyType DEF AllOf
  <2>3. Len(v6) + Len(v4) = N
    BY FamilyLengths
  <2> QED
    BY <2>1, <2>2, <2>3 DEF AllOf
<1>2. PICK g : IsRounds(g, v6, v4, N) /\ interleave_addresses(list) = g[N]
  BY RoundsLemma
<1> HIDE DEF v6, v4, N
<1> DEFINE S == {n \in Nat : n <= N => AfterRounds(g[n], v6, v4, n)}
<1>3. 0 \in S
  <2>1. g[0] = <<>> /\ <<>> \in Seq(Addresses) /\ Len(<<>>) = 0
    BY <1>2 DEF IsRounds
  <2>2. \A v \in Seq(Addresses) : FirstOf(<<>>, v, 0)
    BY DEF FirstOf
  <2>3. Turns(v6, v4, 0) = 0
    BY <1>1 DEF Turns
  <2>4. Woven(<<>>, 0, Longer(v6, v4))
    BY DEF Woven
  <2> QED
    BY <1>1, <2>1, <2>2, <2>3, <2>4, FamilyEmpty DEF AfterRounds
<1>4. ASSUME NEW n \in Nat, n \in S PROVE n + 1 \in S
  <2> SUFFICES ASSUME n + 1 <= N PROVE AfterRounds(g[n + 1], v6, v4, n + 1)
    OBVIOUS
  <2>1. AfterRounds(g[n], v6, v4, n) /\ n + 1 \in 1 .. N /\ (n + 1) - 1 = n
    BY <1>1, <1>4
  <2>2. g[n + 1] = Round(g[n], v6, v4, n + 1)
    BY <1>2, <2>1 DEF IsRounds
  <2> QED
    BY <1>1, <2>1, <2>2, RoundLemma
<1> HIDE DEF S
<1>5. N \in S
  BY <1>1, <1>3, <1>4, Induction
<1> DEFINE order == g[N]
<1>6. AfterRounds(order, v6, v4, N)
  BY <1>1, <1>5 DEF S
<1> HIDE DEF order
<1>7. order \in Seq(Addresses)
  BY <1>6 DEF AfterRounds
<1>8. OfFamily(order, "v6") = v6 /\ OfFamily(order, "v4") = v4
  <2>1. FirstOf(OfFamily(order, "v6"), v6, N) /\ FirstOf(OfFamily(order, "v4"), v4, N)
    BY <1>6 DEF AfterRounds
  <2>2. ASSUME NEW s, NEW v \in Seq(Addresses), FirstOf(s, v, N), Len(v) <= N
        PROVE  s = v
    <3>1. s \in Seq(Addresses) /\ Len(s) = Len(v) /\ \A i \in 1 .. Len(s) : s[i] = v[i]
      BY <1>1, <2>2 DEF FirstOf
    <3> QED
      BY <3>1, SeqEqual
  <2> QED
    BY <1>1, <2>1, <2>2
<1>9. Len(order) = N
  BY <1>1, <1>7, <1>8, FamilyLengths
<1>10. \E k \in 0 .. Len(order), f \in Families : Woven(order, k, f)
  <2>1. Woven(order, Turns(v6, v4, N), Longer(v6, v4))
    BY <1>6 DEF AfterRounds
  <2> QED
    BY <2>1 DEF Woven, Longer, Families
<1>11. interleave_addresses(list) = order
  BY <1>2 DEF order
<1> QED
  BY <1>7, <1>8, <1>9, <1>10, <1>11 DEF Families, v6, v4, N

------------------------------------------------------------------------------
LEMMA ListsLemma ==
  ASSUME NEW list \in Lists
  PROVE  list \in Seq(Addresses) /\ Len(list) \in 1 .. MaxAddresses
<1>1. PICK n \in 1 .. MaxAddresses :
        \E f \in [1 .. n -> Families] : list = [i \in 1 .. n |-> [family |-> f[i], pos |-> i]]
  BY DEF Lists
<1>2. PICK f \in [1 .. n -> Families] : list = [i \in 1 .. n |-> [family |-> f[i], pos |-> i]]
  BY <1>1
<1>3. n \in Nat
  BY AddressesAssumption
<1>4. \A i \in 1 .. n : [family |-> f[i], pos |-> i] \in Addresses
  BY <1>3 DEF Addresses
<1>5. list \in [1 .. n -> Addresses]
  BY <1>2, <1>4
<1> QED
  BY <1>3, <1>5

\* The race goes over what interleave_addresses made of the lookup.
Ordered ==
  \/ addresses = <<>> /\ ordered = <<>>
  \/ /\ addresses \in Seq(Addresses) /\ Len(addresses) \in 1 .. MaxAddresses
     /\ ordered = interleave_addresses(addresses)

LEMMA OrderedLemma ==
  ASSUME Ordered
  PROVE  /\ ordered \in Seq(Addresses) /\ addresses \in Seq(Addresses)
         /\ Len(ordered) = Len(addresses) /\ Len(ordered) \in 0 .. MaxAddresses
         /\ \A f \in Families : OfFamily(ordered, f) = OfFamily(addresses, f)
         /\ \E k \in 0 .. Len(ordered), f \in Families : Woven(ordered, k, f)
<1>1. CASE addresses = <<>> /\ ordered = <<>>
  <2>1. <<>> \in Seq(Addresses) /\ Len(<<>>) = 0
    OBVIOUS
  <2>2. Woven(<<>>, 0, "v4")
    BY DEF Woven
  <2> QED
    BY <1>1, <2>1, <2>2, AddressesAssumption DEF Families
<1>2. CASE /\ addresses \in Seq(Addresses) /\ Len(addresses) \in 1 .. MaxAddresses
           /\ ordered = interleave_addresses(addresses)
  <2>1. LET order == interleave_addresses(addresses)
        IN  /\ order \in Seq(Addresses) /\ Len(order) = Len(addresses)
            /\ \A f \in Families : OfFamily(order, f) = OfFamily(addresses, f)
            /\ \E k \in 0 .. Len(order), f \in Families : Woven(order, k, f)
    BY <1>2, InterleaveLemma
  <2> QED
    BY <1>2, <2>1, AddressesAssumption
<1> QED
  BY <1>1, <1>2 DEF Ordered

\* A woven order has the shape that Interleaved asks for.
LEMMA WovenInterleaved ==
  ASSUME Ordered
  PROVE  Interleaved
<1>1. /\ ordered \in Seq(Addresses) /\ Len(ordered) \in Nat
      /\ \A f \in Families : OfFamily(ordered, f) = OfFamily(addresses, f)
  BY OrderedLemma, AddressesAssumption
<1>2. PICK k \in 0 .. Len(ordered), f \in Families : Woven(ordered, k, f)
  BY OrderedLemma
<1>3. ASSUME NEW i \in Attempts \ {1}, ordered[i].family = ordered[i - 1].family,
             NEW j \in Attempts, j > i
      PROVE  ordered[j].family = ordered[i].family
  <2>1. ~(i \in 2 .. k)
    BY <1>2, <1>3 DEF Woven
  <2>2. i \in k + 1 .. Len(ordered) /\ j \in k + 1 .. Len(ordered)
    BY <1>1, <1>3, <2>1 DEF Attempts
  <2> QED
    BY <1>2, <2>2 DEF Woven
<1>4. ASSUME ordered[1].family = "v4", NEW j \in Attempts
      PROVE  ordered[j].family = "v4"
  <2>1. k = 0
    BY <1>2, <1>4 DEF Woven
  <2>2. 1 \in k + 1 .. Len(ordered) /\ j \in k + 1 .. Len(ordered)
    BY <1>1, <1>4, <2>1 DEF Attempts
  <2> QED
    BY <1>2, <1>4, <2>2 DEF Woven
<1> QED
  BY <1>1, <1>3, <1>4 DEF Interleaved

LEMMA OrderedInv == Spec => []Ordered
<1>1. Init => Ordered
  BY DEF Init, Ordered
<1>2. Ordered /\ [Next]_vars => Ordered'
  <2> SUFFICES ASSUME Ordered, [Next]_vars PROVE Ordered'
    OBVIOUS
  <2>1. ASSUME NEW list \in Lists, NEW o, Lookup(list, o) PROVE Ordered'
    BY <2>1, ListsLemma DEF Lookup, Ordered
  <2>2. CASE UNCHANGED <<addresses, ordered>>
    BY <2>2 DEF Ordered
  <2> QED
    BY <2>1, <2>2 DEF Next, vars, race, LookupFails, Finish, Join, JoinStream, JoinError,
       Delay, RaceFails, Deadline, ReplySuccess, ReplyFails, Shutdown, Ended
<1> QED
  BY <1>1, <1>2, PTL DEF Spec

\* The order of the race: every address once, each family in the order of
\* the lookup, IPv6 first and the families taking turns until one of them has
\* run out (interleave_addresses).
THEOREM FamiliesTakeTurns == Spec => []Interleaved
BY OrderedInv, WovenInterleaved, PTL

------------------------------------------------------------------------------
\* Before the lookup has ended, nothing was tried and nothing was told.
Untouched ==
  phase = "lookup" =>
    /\ Attempts = {} /\ next = 1 /\ finished = {} /\ joined = {}
    /\ last_error = "none" /\ reply = "none"

\* The client is told nothing while the race runs or its stream is set up.
NotTold == phase \in {"race", "reply"} => reply = "none"

\* An attempt that ended did not hang, one that was joined failed, and the
\* last error is the error of one of them.
Ends ==
  /\ \A i \in finished : outcome[i] # "hang"
  /\ \A i \in joined : outcome[i] \in Errors
  /\ IF joined = {} THEN last_error = "none"
                    ELSE \E i \in joined : outcome[i] = last_error

\* The stream that is used was accepted.
Accepted ==
  /\ winner # 0 => outcome[winner] = "ok"
  /\ phase \in {"reply", "relay"} => winner # 0

ConnectInv == TypeOK /\ NeverIdle /\ Untouched /\ NotTold /\ Ends /\ Accepted /\ ReplyTruthful

LEMMA InitConnect == Init => ConnectInv /\ Ordered
<1> SUFFICES ASSUME Init PROVE ConnectInv /\ Ordered
  OBVIOUS
<1>1. ordered = <<>> /\ addresses = <<>> /\ Len(<<>>) = 0
  BY DEF Init
<1>2. Attempts = {} /\ Started = {}
  BY <1>1 DEF Attempts, Started
<1>3. TypeOK
  <2>1. <<>> \in Seq(Outcomes) /\ Len(<<>>) = 0 /\ 1 .. 0 = {}
    OBVIOUS
  <2>2. outcome \in [Attempts -> Outcomes]
    BY <1>2, <2>1 DEF Init
  <2>3. Len(ordered) <= MaxAddresses /\ Len(addresses) = Len(ordered)
    BY <1>1, AddressesAssumption
  <2>4. next \in 1 .. MaxAddresses + 1
    BY AddressesAssumption DEF Init
  <2> QED
    BY <1>2, <2>2, <2>3, <2>4 DEF Init, TypeOK
<1> QED
  BY <1>1, <1>2, <1>3 DEF Init, ConnectInv, Ordered, NeverIdle, Untouched, NotTold, Ends, Accepted,
     ReplyTruthful, Errors

\* The lookup starts the race over a list that is not empty.
LEMMA LookupStep ==
  ASSUME ConnectInv, Ordered, NEW list \in Lists, NEW o \in [1 .. Len(list) -> Outcomes],
         Lookup(list, o)
  PROVE  ConnectInv' /\ Ordered'
<1>1. list \in Seq(Addresses) /\ Len(list) \in 1 .. MaxAddresses
  BY ListsLemma
<1>2. ordered' = interleave_addresses(list) /\ addresses' = list /\ outcome' = o
  BY DEF Lookup
<1>3. Ordered'
  BY <1>1, <1>2 DEF Ordered
<1>4. Len(ordered') = Len(list)
  <2>1. Len(interleave_addresses(list)) = Len(list)
    BY <1>1, InterleaveLemma
  <2> QED
    BY <1>2, <2>1
<1>5. /\ phase' = "race" /\ next' = 2 /\ finished' = {} /\ joined' = {}
      /\ last_error' = "none" /\ reply' = "none" /\ UNCHANGED <<winner, timed_out>>
  BY DEF Lookup, ConnectInv, Untouched
<1>6. winner = 0
  BY DEF Lookup, ConnectInv, TypeOK, Untouched
<1>7. Attempts' = 1 .. Len(list) /\ Started' = {1} /\ 1 \in Attempts'
  <2>1. Attempts' = 1 .. Len(list)
    BY <1>4 DEF Attempts
  <2>2. Len(list) \in Nat /\ Len(list) >= 1
    BY <1>1, AddressesAssumption
  <2>3. Started' = {i \in 1 .. Len(list) : i < 2}
    BY <1>5, <2>1 DEF Started
  <2> QED
    BY <2>1, <2>2, <2>3
<1>8. TypeOK'
  BY <1>1, <1>2, <1>4, <1>5, <1>6, <1>7, AddressesAssumption DEF TypeOK, ConnectInv
<1>9. NeverIdle'
  BY <1>5, <1>7 DEF NeverIdle, InFlight
<1> QED
  BY <1>3, <1>5, <1>6, <1>8, <1>9
     DEF ConnectInv, Untouched, NotTold, Ends, Accepted, ReplyTruthful, Errors

\* What the steps of the race leave alone.
LEMMA SameAttempts ==
  ASSUME UNCHANGED <<ordered, next, joined>>
  PROVE  Attempts' = Attempts /\ Started' = Started /\ InFlight' = InFlight
BY DEF Attempts, Started, InFlight

LEMMA OrderedStep ==
  ASSUME Ordered, UNCHANGED <<addresses, ordered>>
  PROVE  Ordered'
BY DEF Ordered

LEMMA FinishStep ==
  ASSUME ConnectInv, Ordered, NEW i \in Attempts, Finish(i)
  PROVE  ConnectInv' /\ Ordered'
<1>1. Ordered'
  BY OrderedStep DEF Finish
<1>2. /\ finished' = finished \cup {i} /\ i \in Started /\ i \notin joined
      /\ outcome[i] # "hang"
      /\ UNCHANGED <<phase, addresses, ordered, outcome, next, joined, last_error,
                     winner, timed_out, reply>>
  BY DEF Finish, InFlight
<1>3. Attempts' = Attempts /\ Started' = Started /\ InFlight' = InFlight
  BY <1>2, SameAttempts
<1>4. TypeOK'
  BY <1>2, <1>3 DEF ConnectInv, TypeOK
<1>5. Ends' /\ Accepted'
  BY <1>2 DEF ConnectInv, Ends, Accepted
<1>6. NeverIdle' /\ Untouched'
  BY <1>2, <1>3 DEF ConnectInv, NeverIdle, Untouched, Finish
<1>7. NotTold' /\ ReplyTruthful'
  BY <1>2, <1>3 DEF ConnectInv, NotTold, ReplyTruthful
<1> QED
  BY <1>1, <1>4, <1>5, <1>6, <1>7 DEF ConnectInv

LEMMA JoinStreamStep ==
  ASSUME ConnectInv, Ordered, NEW i \in Attempts, JoinStream(i)
  PROVE  ConnectInv' /\ Ordered'
<1>1. Ordered'
  BY OrderedStep DEF JoinStream, race
<1>2. /\ winner' = i /\ phase = "race" /\ phase' = "reply" /\ outcome[i] = "ok"
      /\ UNCHANGED <<addresses, ordered, outcome, next, finished, joined, last_error,
                     timed_out, reply>>
  BY DEF JoinStream, race
<1>3. Attempts' = Attempts /\ Started' = Started /\ InFlight' = InFlight
  BY <1>2, SameAttempts
<1>4. TypeOK'
  BY <1>2, <1>3 DEF ConnectInv, TypeOK
<1>5. reply' = "none"
  BY <1>2 DEF ConnectInv, NotTold
<1>6. i # 0
  BY DEF Attempts
<1>7. Ends' /\ Accepted'
  BY <1>2, <1>6 DEF ConnectInv, Ends, Accepted
<1> QED
  BY <1>1, <1>2, <1>4, <1>5, <1>7 DEF ConnectInv, NeverIdle, Untouched, NotTold, ReplyTruthful, Errors

\* Starting the candidate after `next` puts an attempt under way.
LEMMA StartNextLemma ==
  ASSUME Ordered, TypeOK, StartNext, UNCHANGED ordered
  PROVE  /\ Attempts' = Attempts /\ Started \subseteq Started'
         /\ next' \in 1 .. MaxAddresses + 1 /\ next <= next'
         /\ next \in Attempts => next \in Started' \ Started
<1>1. Len(ordered) \in 0 .. MaxAddresses /\ MaxAddresses \in Nat
  BY OrderedLemma, AddressesAssumption
<1>2. next \in 1 .. MaxAddresses + 1 /\ Attempts' = Attempts
  BY DEF TypeOK, Attempts
<1>3. next' = IF next \in Attempts THEN next + 1 ELSE next
  BY DEF StartNext
<1>4. next <= next' /\ next' \in 1 .. MaxAddresses + 1
  BY <1>1, <1>2, <1>3 DEF Attempts
<1>5. \A i \in Attempts : i \in Nat
  BY DEF Attempts
<1> QED
  BY <1>1, <1>2, <1>3, <1>4, <1>5 DEF Started

LEMMA JoinErrorStep ==
  ASSUME ConnectInv, Ordered, NEW i \in Attempts, JoinError(i)
  PROVE  ConnectInv' /\ Ordered'
<1>1. Ordered'
  BY OrderedStep DEF JoinError
<1>2. /\ phase = "race" /\ i \in finished /\ outcome[i] # "ok"
      /\ finished' = finished \ {i} /\ joined' = joined \cup {i}
      /\ last_error' = outcome[i] /\ StartNext
      /\ UNCHANGED <<phase, addresses, ordered, outcome, winner, timed_out, reply>>
  BY DEF JoinError
<1>3. TypeOK
  BY DEF ConnectInv
<1>4. /\ Attempts' = Attempts /\ Started \subseteq Started'
      /\ next' \in 1 .. MaxAddresses + 1
      /\ next \in Attempts => next \in Started' \ Started
  BY <1>2, <1>3, StartNextLemma
<1>5. outcome[i] \in Errors
  <2>1. outcome[i] \in Outcomes /\ outcome[i] # "hang"
    BY <1>2, <1>3 DEF TypeOK, ConnectInv, Ends
  <2> QED
    BY <1>2, <2>1 DEF Outcomes
<1>6. i \in Started /\ i \notin joined /\ joined \subseteq Started
  BY <1>2, <1>3 DEF TypeOK
<1>7. TypeOK'
  BY <1>2, <1>3, <1>4, <1>5, <1>6 DEF TypeOK
<1>8. NeverIdle'
  <2> SUFFICES ASSUME next' \in Attempts' PROVE InFlight' # {}
    BY DEF NeverIdle
  <2>1. next \in Attempts
    BY <1>2, <1>4 DEF StartNext
  <2>2. next \in Started' /\ next \notin joined'
    BY <1>2, <1>4, <1>6, <2>1
  <2> QED
    BY <2>2 DEF InFlight
<1>9. Ends' /\ Accepted'
  BY <1>2, <1>5 DEF ConnectInv, Ends, Accepted
<1>10. reply' = "none"
  BY <1>2 DEF ConnectInv, NotTold
<1> QED
  BY <1>1, <1>2, <1>7, <1>8, <1>9, <1>10 DEF ConnectInv, Untouched, NotTold, ReplyTruthful, Errors

LEMMA DelayStep ==
  ASSUME ConnectInv, Ordered, Delay
  PROVE  ConnectInv' /\ Ordered'
<1>1. Ordered'
  BY OrderedStep DEF Delay
<1>2. /\ phase = "race" /\ next \in Attempts /\ StartNext
      /\ UNCHANGED <<phase, addresses, ordered, outcome, finished, joined,
                     last_error, winner, timed_out, reply>>
  BY DEF Delay
<1>3. TypeOK
  BY DEF ConnectInv
<1>4. /\ Attempts' = Attempts /\ Started \subseteq Started'
      /\ next' \in 1 .. MaxAddresses + 1
      /\ next \in Started' \ Started
  BY <1>2, <1>3, StartNextLemma
<1>5. joined \subseteq Started
  BY <1>3 DEF TypeOK
<1>6. TypeOK'
  BY <1>2, <1>3, <1>4 DEF TypeOK
<1>7. NeverIdle'
  BY <1>2, <1>4, <1>5 DEF NeverIdle, InFlight
<1>8. Ends' /\ Accepted'
  BY <1>2 DEF ConnectInv, Ends, Accepted
<1>9. reply' = "none"
  BY <1>2 DEF ConnectInv, NotTold
<1> QED
  BY <1>1, <1>2, <1>6, <1>7, <1>8, <1>9 DEF ConnectInv, Untouched, NotTold, ReplyTruthful, Errors

\* When nothing is left, every address was tried and failed.
LEMMA RaceFailsStep ==
  ASSUME ConnectInv, Ordered, RaceFails
  PROVE  ConnectInv' /\ Ordered'
<1>1. Ordered'
  BY OrderedStep DEF RaceFails, race
<1>2. /\ phase = "race" /\ next \notin Attempts /\ InFlight = {}
      /\ reply' = last_error /\ phase' = "ended"
      /\ UNCHANGED <<addresses, ordered, outcome, next, finished, joined, last_error,
                     winner, timed_out>>
  BY DEF RaceFails, race
<1>3. TypeOK
  BY DEF ConnectInv
<1>4. Attempts' = Attempts /\ Started' = Started /\ InFlight' = InFlight
  BY <1>2, SameAttempts
<1>5. joined = Attempts
  <2>1. Len(ordered) \in Nat /\ next \in Nat /\ next >= 1
    BY <1>3, OrderedLemma, AddressesAssumption DEF TypeOK
  <2>2. next > Len(ordered)
    BY <1>2, <2>1 DEF Attempts
  <2>3. Started = Attempts
    BY <2>1, <2>2 DEF Started, Attempts
  <2> QED
    BY <1>2, <1>3, <2>3 DEF InFlight, TypeOK
<1>6. joined # {}
  BY <1>2, <1>3, <1>5 DEF TypeOK
<1>7. /\ \A i \in Attempts : outcome[i] \in Errors
      /\ \E i \in Attempts : outcome[i] = last_error
      /\ last_error \in Errors
  BY <1>5, <1>6 DEF ConnectInv, Ends
<1>8. TypeOK'
  BY <1>2, <1>3, <1>4, <1>7 DEF TypeOK, Errors
<1>9. ReplyTruthful'
  BY <1>2, <1>4, <1>5, <1>7 DEF ReplyTruthful, Errors
<1>10. Ends' /\ Accepted'
  BY <1>2 DEF ConnectInv, Ends, Accepted
<1> QED
  BY <1>1, <1>2, <1>8, <1>9, <1>10 DEF ConnectInv, NeverIdle, Untouched, NotTold

\* The steps after which the request has ended or is relayed.
LEMMA ClosingStep ==
  ASSUME ConnectInv, Ordered,
         LookupFails \/ Deadline \/ ReplySuccess \/ ReplyFails \/ Shutdown
  PROVE  ConnectInv' /\ Ordered'
<1>1. UNCHANGED <<addresses, ordered, outcome, next, finished, joined, last_error, winner>>
  BY DEF LookupFails, Deadline, ReplySuccess, ReplyFails, Shutdown, race
<1>2. Ordered'
  BY <1>1, OrderedStep
<1>3. Attempts' = Attempts /\ Started' = Started /\ InFlight' = InFlight
  BY <1>1, SameAttempts
<1>4. TypeOK
  BY DEF ConnectInv
<1>5. TypeOK'
  BY <1>1, <1>3, <1>4
     DEF TypeOK, LookupFails, Deadline, ReplySuccess, ReplyFails, Shutdown
<1>6. phase' \in {"ended", "relay"}
  BY DEF LookupFails, Deadline, ReplySuccess, ReplyFails, Shutdown
<1>7. Ends'
  BY <1>1 DEF ConnectInv, Ends
<1>8. Accepted'
  BY <1>1 DEF ConnectInv, Accepted, LookupFails, Deadline, ReplySuccess, ReplyFails, Shutdown
<1>9. ReplyTruthful'
  <2>1. CASE LookupFails
    BY <1>1, <1>3, <2>1 DEF LookupFails, ConnectInv, Untouched, ReplyTruthful
  <2>2. CASE Deadline
    BY <1>1, <1>3, <2>2 DEF Deadline, ReplyTruthful
  <2>3. CASE ReplySuccess
    BY <1>1, <1>3, <2>3 DEF ReplySuccess, ConnectInv, Accepted, ReplyTruthful, Errors
  <2>4. CASE ReplyFails \/ Shutdown
    BY <1>1, <1>3, <2>4 DEF ReplyFails, Shutdown, ConnectInv, ReplyTruthful
  <2> QED
    BY <2>1, <2>2, <2>3, <2>4
<1> QED
  BY <1>2, <1>5, <1>6, <1>7, <1>8, <1>9 DEF ConnectInv, NeverIdle, Untouched, NotTold

LEMMA StutterStep ==
  ASSUME ConnectInv, Ordered, UNCHANGED vars
  PROVE  ConnectInv' /\ Ordered'
<1>1. Attempts' = Attempts /\ Started' = Started /\ InFlight' = InFlight /\ Ordered'
  BY SameAttempts, OrderedStep DEF vars
<1> QED
  BY <1>1 DEF vars, ConnectInv, TypeOK, NeverIdle, Untouched, NotTold, Ends, Accepted, ReplyTruthful

LEMMA ConnectInvLemma == Spec => [](ConnectInv /\ Ordered)
<1>1. ConnectInv /\ Ordered /\ [Next]_vars => (ConnectInv /\ Ordered)'
  <2> SUFFICES ASSUME ConnectInv, Ordered, [Next]_vars PROVE ConnectInv' /\ Ordered'
    OBVIOUS
  <2>1. CASE UNCHANGED vars
    BY <2>1, StutterStep
  <2>2. CASE Next
    BY <2>1, <2>2, LookupStep, FinishStep, JoinStreamStep, JoinErrorStep, DelayStep,
       RaceFailsStep, ClosingStep DEF Next, Join, Ended
  <2> QED
    BY <2>1, <2>2
<1> QED
  BY <1>1, InitConnect, PTL DEF Spec

\* Every variable has its type, and what is finished or joined was started.
THEOREM TypeCorrect == Spec => []TypeOK
BY ConnectInvLemma, PTL DEF ConnectInv

\* While a candidate waits, some attempt is under way: the select of
\* happy_eyeballs.rs never waits on an empty join set.
THEOREM RaceNeverIdle == Spec => []NeverIdle
BY ConnectInvLemma, PTL DEF ConnectInv

\* The client is told "success" only with a stream, and a failure only when
\* the lookup failed, the time ran out or every address was tried and failed
\* (connect, server.rs).
THEOREM ReplyTellsTruth == Spec => []ReplyTruthful
BY ConnectInvLemma, PTL DEF ConnectInv
=============================================================================
