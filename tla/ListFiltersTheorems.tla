------------------------ MODULE ListFiltersTheorems ------------------------
(***************************************************************************)
(* What the filter of ListFilters returns, for every list and every set of *)
(* values to be thrown away.  It is defined by recursion on the list; the  *)
(* induction is over sets of numbers and of lists: what holds of a length, *)
(* of a prefix or of a list is said by membership in a set.                *)
(***************************************************************************)
EXTENDS ListFilters, FiniteSetTheorems, TLAPS

-----------------------------------------------------------------------------
(***************************************************************************)
(* Induction.                                                              *)
(***************************************************************************)

\* A set of numbers that holds 0 and the successor of each member holds all.
LEMMA Counting ==
  ASSUME NEW S, 0 \in S, \A n \in Nat : n \in S => n + 1 \in S
  PROVE  \A n \in Nat : n \in S
<1>. SUFFICES ASSUME Nat \ S # {}
              PROVE  FALSE
  OBVIOUS
<1>1. PICK n \in Nat \ S : \A m \in Nat \ S : ~(<<m, n>> \in OpToRel(<, Nat))
  BY NatLessThanWellFounded, WFMin
<1>2. \A m \in Nat \ S : ~(m < n)
  BY <1>1 DEF OpToRel
<1>3. n - 1 \in Nat /\ n - 1 \in S
  BY <1>2
<1>. QED  BY <1>3

\* A set of lists that holds the empty list and every extension of a member by
\* one entry holds all.
LEMMA Listing ==
  ASSUME NEW E, NEW S, <<>> \in S,
         \A list \in Seq(E), e \in E : list \in S => Append(list, e) \in S
  PROVE  Seq(E) \subseteq S
<1>. DEFINE L == {n \in Nat : \A list \in Seq(E) : Len(list) = n => list \in S}
<1>1. 0 \in L
  BY DEF L
<1>2. ASSUME NEW n \in Nat, n \in L
      PROVE  n + 1 \in L
  <2>. SUFFICES ASSUME NEW list \in Seq(E), Len(list) = n + 1
                PROVE  list \in S
    OBVIOUS
  <2>1. PICK front : front = SubSeq(list, 1, n)
    OBVIOUS
  <2>2. front \in Seq(E) /\ Len(front) = n /\ list[n + 1] \in E
    BY <2>1
  <2>3. list = Append(front, list[n + 1])
    BY <2>1, <2>2
  <2>. QED  BY <1>2, <2>2, <2>3
<1>3. \A n \in Nat : n \in L
  BY <1>1, <1>2, Counting
<1>. QED  BY <1>3

-----------------------------------------------------------------------------
(***************************************************************************)
(* The recursion.                                                          *)
(***************************************************************************)

\* What the recursion says of the first entries.
IsKeptTo(kept, list, gone, last) ==
    /\ kept = [n \in 0..last |-> kept[n]]
    /\ kept[0] = <<>>
    /\ \A n \in 1..last :
          kept[n] = IF list[n] \in gone THEN kept[n - 1] ELSE Append(kept[n - 1], list[n])

\* One entry of the recursion.
LEMMA KeptNext ==
  ASSUME NEW list, NEW gone, NEW last \in Nat, NEW kept, IsKeptTo(kept, list, gone, last),
         NEW l \in Nat, NEW n \in 1..last, n = l + 1
  PROVE  kept[n] = IF list[n] \in gone THEN kept[l] ELSE Append(kept[l], list[n])
<1>1. n - 1 = l
  OBVIOUS
<1>2. \A m \in 1..last : kept[m] = IF list[m] \in gone THEN kept[m - 1]
                                   ELSE Append(kept[m - 1], list[m])
  BY DEF IsKeptTo
<1>. QED  BY <1>1, <1>2

\* There is such a function,
LEMMA KeptExists ==
  ASSUME NEW list, NEW gone, NEW last \in Nat
  PROVE  \E kept : IsKeptTo(kept, list, gone, last)
<1>. DEFINE S == {l \in Nat : \E kept : IsKeptTo(kept, list, gone, l)}
<1>1. 0 \in S
  <2>1. IsKeptTo([n \in {0} |-> <<>>], list, gone, 0)
    BY DEF IsKeptTo
  <2>. QED  BY <2>1
<1>2. ASSUME NEW l \in Nat, l \in S
      PROVE  l + 1 \in S
  <2>1. PICK kept : IsKeptTo(kept, list, gone, l)
    BY <1>2
  <2>2. PICK entry : entry = IF list[l + 1] \in gone THEN kept[l]
                             ELSE Append(kept[l], list[l + 1])
    OBVIOUS
  <2>3. PICK more : more = [n \in 0..(l + 1) |-> IF n = l + 1 THEN entry ELSE kept[n]]
    OBVIOUS
  <2>4. more[0] = <<>> /\ more = [n \in 0..(l + 1) |-> more[n]]
    BY <2>1, <2>3 DEF IsKeptTo
  <2>5. ASSUME NEW n \in 1..(l + 1)
        PROVE  more[n] = IF list[n] \in gone THEN more[n - 1] ELSE Append(more[n - 1], list[n])
    <3>1. n - 1 \in 0..l /\ more[n - 1] = kept[n - 1]
      BY <2>3
    <3>2. CASE n = l + 1
      BY <2>2, <2>3, <3>1, <3>2
    <3>3. CASE n \in 1..l
      <4>1. more[n] = kept[n]
        BY <2>3, <3>3
      <4>. QED  BY <2>1, <3>1, <3>3, <4>1 DEF IsKeptTo
    <3>. QED  BY <3>2, <3>3
  <2>6. IsKeptTo(more, list, gone, l + 1)
    BY <2>4, <2>5 DEF IsKeptTo
  <2>. QED  BY <2>6
<1>3. \A l \in Nat : l \in S
  BY <1>1, <1>2, Counting
<1>. QED  BY <1>3

\* and two lists that agree on the first entries keep the same of them.
LEMMA KeptAgrees ==
  ASSUME NEW list, NEW other, NEW gone, NEW last \in Nat, NEW longer \in Nat, last <= longer,
         \A n \in 1..last : list[n] = other[n],
         NEW kept, IsKeptTo(kept, list, gone, last),
         NEW keptToo, IsKeptTo(keptToo, other, gone, longer)
  PROVE  kept[last] = keptToo[last]
<1>. DEFINE S == {l \in Nat : l <= last => kept[l] = keptToo[l]}
<1>1. 0 \in S
  BY DEF IsKeptTo
<1>2. ASSUME NEW l \in Nat, l \in S
      PROVE  l + 1 \in S
  <2>. SUFFICES ASSUME l + 1 <= last
                PROVE  kept[l + 1] = keptToo[l + 1]
    OBVIOUS
  <2>. PICK n : n = l + 1
    OBVIOUS
  <2>1. n \in 1..last /\ n \in 1..longer
    OBVIOUS
  <2>2. kept[l] = keptToo[l] /\ list[n] = other[n]
    BY <1>2, <2>1
  <2>3. kept[n] = IF list[n] \in gone THEN kept[l] ELSE Append(kept[l], list[n])
    BY <2>1, KeptNext
  <2>4. keptToo[n] = IF other[n] \in gone THEN keptToo[l] ELSE Append(keptToo[l], other[n])
    BY <2>1, KeptNext
  <2>. QED  BY <2>2, <2>3, <2>4
<1>3. \A l \in Nat : l \in S
  BY <1>1, <1>2, Counting
<1>. QED  BY <1>3

\* The filter returns what any such function returns.
LEMMA WithoutIs ==
  ASSUME NEW E, NEW list \in Seq(E), NEW gone, NEW kept, IsKeptTo(kept, list, gone, Len(list))
  PROVE  Without(list, gone) = kept[Len(list)]
<1>. DEFINE Body(f, n) == IF n = 0 THEN <<>>
                          ELSE IF list[n] \in gone THEN f[n - 1]
                          ELSE Append(f[n - 1], list[n])
            Defined(f) == f = [n \in 0..Len(list) |-> Body(f, n)]
<1>1. Len(list) \in Nat
  OBVIOUS
<1>2. Defined(kept)
  <2>1. ASSUME NEW n \in 0..Len(list)
        PROVE  kept[n] = Body(kept, n)
    <3>1. CASE n = 0
      BY <3>1 DEF IsKeptTo
    <3>2. CASE n \in 1..Len(list)
      BY <3>2 DEF IsKeptTo
    <3>. QED  BY <1>1, <3>1, <3>2
  <2>2. kept = [n \in 0..Len(list) |-> kept[n]]
    BY DEF IsKeptTo
  <2>. HIDE DEF Body
  <2>. QED  BY <2>1, <2>2
<1>3. ASSUME NEW f, Defined(f)
      PROVE  IsKeptTo(f, list, gone, Len(list))
  <2>1. \A n \in 0..Len(list) : f[n] = Body(f, n)
    BY <1>3
  <2>2. f = [n \in 0..Len(list) |-> f[n]]
    BY <1>3
  <2>3. f[0] = <<>>
    BY <1>1, <2>1
  <2>4. \A n \in 1..Len(list) : f[n] = IF list[n] \in gone THEN f[n - 1]
                                       ELSE Append(f[n - 1], list[n])
    BY <1>1, <2>1
  <2>. QED  BY <2>2, <2>3, <2>4 DEF IsKeptTo
<1>4. PICK f : f = CHOOSE g : Defined(g)
  OBVIOUS
<1>5. Without(list, gone) = f[Len(list)]
  BY <1>4 DEF Without
<1>. HIDE DEF Defined
<1>6. Defined(f)
  BY <1>2, <1>4
<1>7. f[Len(list)] = kept[Len(list)]
  BY <1>1, <1>3, <1>6, KeptAgrees
<1>. QED  BY <1>5, <1>7

-----------------------------------------------------------------------------
(***************************************************************************)
(* What the filter returns.                                                *)
(***************************************************************************)

\* The filter of no entries,
LEMMA WithoutNone ==
  ASSUME NEW gone
  PROVE  Without(<<>>, gone) = <<>>
<1>1. IsKeptTo([n \in {0} |-> <<>>], <<>>, gone, Len(<<>>))
  BY DEF IsKeptTo
<1>2. <<>> \in Seq(Nat) /\ Len(<<>>) = 0
  OBVIOUS
<1>. QED  BY <1>1, <1>2, WithoutIs

\* and of one entry more.
LEMMA WithoutNext ==
  ASSUME NEW gone, NEW E, NEW list \in Seq(E), NEW e \in E
  PROVE  Without(Append(list, e), gone) =
           IF e \in gone THEN Without(list, gone) ELSE Append(Without(list, gone), e)
<1>1. PICK l \in Nat : l = Len(list)
  OBVIOUS
<1>2. PICK more : more = Append(list, e)
  OBVIOUS
<1>3. /\ more \in Seq(E) /\ Len(more) = l + 1 /\ more[l + 1] = e
      /\ \A n \in 1..l : list[n] = more[n]
  BY <1>1, <1>2
<1>4. PICK kept : IsKeptTo(kept, list, gone, l)
  BY KeptExists
<1>5. PICK keptMore : IsKeptTo(keptMore, more, gone, l + 1)
  <2>1. l + 1 \in Nat
    OBVIOUS
  <2>. QED  BY ONLY <2>1, KeptExists
<1>6. kept[l] = keptMore[l]
  BY <1>3, <1>4, <1>5, KeptAgrees
<1>7. Without(list, gone) = kept[l] /\ Without(more, gone) = keptMore[l + 1]
  BY <1>1, <1>3, <1>4, <1>5, WithoutIs
<1>8. keptMore[l + 1] = IF e \in gone THEN keptMore[l] ELSE Append(keptMore[l], e)
  <2>1. PICK last \in Nat : last = l + 1
    OBVIOUS
  <2>. PICK n \in 1..last : n = l + 1
    BY <2>1
  <2>2. IsKeptTo(keptMore, more, gone, last)
    BY <1>5, <2>1
  <2>3. keptMore[n] = IF more[n] \in gone THEN keptMore[l] ELSE Append(keptMore[l], more[n])
    BY <2>2, KeptNext
  <2>. QED  BY <1>3, <2>3
<1>. QED  BY <1>2, <1>6, <1>7, <1>8

\* It returns a list of what is not gone;
LEMMA WithoutType ==
  ASSUME NEW gone, NEW E
  PROVE  \A list \in Seq(E) : Without(list, gone) \in Seq(E \ gone)
<1>. DEFINE S == {list \in Seq(E) : Without(list, gone) \in Seq(E \ gone)}
<1>1. <<>> \in S
  <2>1. Without(<<>>, gone) = <<>> /\ <<>> \in Seq(E) /\ <<>> \in Seq(E \ gone)
    BY WithoutNone, WithoutNext
  <2>2. Without(<<>>, gone) \in Seq(E \ gone)
    BY <2>1
  <2>. QED  BY <2>1, <2>2
<1>2. ASSUME NEW list \in Seq(E), NEW e \in E, list \in S
      PROVE  Append(list, e) \in S
  <2>1. Append(list, e) \in Seq(E)
    OBVIOUS
  <2>2. Without(Append(list, e), gone) =
          IF e \in gone THEN Without(list, gone) ELSE Append(Without(list, gone), e)
    BY WithoutNone, WithoutNext
  <2>3. Without(list, gone) \in Seq(E \ gone)
    BY <1>2
  <2>4. e \notin gone => Append(Without(list, gone), e) \in Seq(E \ gone)
    BY <2>3
  <2>5. Without(Append(list, e), gone) \in Seq(E \ gone)
    BY ONLY <2>2, <2>3, <2>4
  <2>. QED  BY <2>1, <2>5
<1>. HIDE DEF S
<1>3. Seq(E) \subseteq S
  BY <1>1, <1>2, Listing
<1>. QED  BY <1>3 DEF S

\* throwing something away first changes nothing of what is kept in the end;
LEMMA WithoutTwice ==
  ASSUME NEW gone, NEW more, gone \subseteq more, NEW E
  PROVE  \A list \in Seq(E) : Without(Without(list, gone), more) = Without(list, more)
<1>. DEFINE S == {list \in Seq(E) : Without(Without(list, gone), more) = Without(list, more)}
<1>1. <<>> \in S
  BY WithoutNone, WithoutNext
<1>2. ASSUME NEW list \in Seq(E), NEW e \in E, list \in S
      PROVE  Append(list, e) \in S
  <2>1. PICK kept : kept = Without(list, gone)
    OBVIOUS
  <2>2. kept \in Seq(E \ gone) /\ Without(kept, more) = Without(list, more)
    BY <1>2, <2>1, WithoutType
  <2>3. kept \in Seq(E)
    BY <2>2
  <2>4. /\ Without(Append(list, e), gone) = IF e \in gone THEN kept ELSE Append(kept, e)
        /\ Without(Append(list, e), more) =
              IF e \in more THEN Without(list, more) ELSE Append(Without(list, more), e)
        /\ Without(Append(kept, e), more) =
              IF e \in more THEN Without(kept, more) ELSE Append(Without(kept, more), e)
    BY <2>1, <2>3, WithoutNext
  <2>5. Without(Without(Append(list, e), gone), more) = Without(Append(list, e), more)
    BY <2>2, <2>4
  <2>6. Append(list, e) \in Seq(E)
    OBVIOUS
  <2>. QED  BY <2>5, <2>6
<1>. HIDE DEF S
<1>3. Seq(E) \subseteq S
  BY <1>1, <1>2, Listing
<1>. QED  BY <1>3 DEF S

\* Of the values to be thrown away only those in the list matter;
LEMMA WithoutSame ==
  ASSUME NEW gone, NEW other, NEW E
  PROVE  \A list \in Seq(E) : (\A i \in DOMAIN list : list[i] \in gone <=> list[i] \in other)
                                => Without(list, gone) = Without(list, other)
<1>. DEFINE Alike(list) == \A i \in DOMAIN list : list[i] \in gone <=> list[i] \in other
            S == {list \in Seq(E) : Alike(list) => Without(list, gone) = Without(list, other)}
<1>1. <<>> \in S
  BY WithoutNone
<1>2. ASSUME NEW list \in Seq(E), NEW e \in E, list \in S
      PROVE  Append(list, e) \in S
  <2>1. PICK more : more = Append(list, e)
    OBVIOUS
  <2>2. /\ more \in Seq(E) /\ Len(list) + 1 \in DOMAIN more /\ more[Len(list) + 1] = e
        /\ \A i \in DOMAIN list : i \in DOMAIN more /\ more[i] = list[i]
    BY <2>1
  <2>3. ASSUME Alike(more)
        PROVE  Without(more, gone) = Without(more, other)
    <3>1. Alike(list) /\ (e \in gone <=> e \in other)
      BY <2>2, <2>3
    <3>2. Without(list, gone) = Without(list, other)
      BY <1>2, <3>1
    <3>3. /\ Without(more, gone) = IF e \in gone THEN Without(list, gone)
                                  ELSE Append(Without(list, gone), e)
          /\ Without(more, other) = IF e \in other THEN Without(list, other)
                                   ELSE Append(Without(list, other), e)
      BY <2>1, WithoutNext
    <3>. HIDE DEF Alike
    <3>. QED  BY ONLY <3>1, <3>2, <3>3
  <2>. HIDE DEF Alike
  <2>. QED  BY <2>1, <2>2, <2>3
<1>. HIDE DEF S
<1>3. Seq(E) \subseteq S
  BY <1>1, <1>2, Listing
<1>. QED  BY <1>3 DEF S

\* where none is in the list, the list stays;
LEMMA WithoutNothing ==
  ASSUME NEW E
  PROVE  \A list \in Seq(E) : Without(list, {}) = list
<1>. DEFINE S == {list \in Seq(E) : Without(list, {}) = list}
<1>1. <<>> \in S
  BY WithoutNone
<1>2. ASSUME NEW list \in Seq(E), NEW e \in E, list \in S
      PROVE  Append(list, e) \in S
  <2>1. Without(list, {}) = list
    BY <1>2
  <2>2. Without(Append(list, e), {}) = Append(Without(list, {}), e)
    BY WithoutNext
  <2>. QED  BY <2>1, <2>2
<1>. HIDE DEF S
<1>3. Seq(E) \subseteq S
  BY <1>1, <1>2, Listing
<1>. QED  BY <1>3 DEF S

\* and two filters are one.
LEMMA WithoutBoth ==
  ASSUME NEW gone, NEW other, NEW E
  PROVE  \A list \in Seq(E) : Without(Without(list, gone), other) = Without(list, gone \cup other)
<1>. DEFINE S == {list \in Seq(E) :
                    Without(Without(list, gone), other) = Without(list, gone \cup other)}
<1>1. <<>> \in S
  BY WithoutNone
<1>2. ASSUME NEW list \in Seq(E), NEW e \in E, list \in S
      PROVE  Append(list, e) \in S
  <2>1. PICK kept : kept = Without(list, gone)
    OBVIOUS
  <2>2. kept \in Seq(E) /\ Without(kept, other) = Without(list, gone \cup other)
    <3>1. kept \in Seq(E \ gone)
      BY <2>1, WithoutType
    <3>. QED  BY <1>2, <2>1, <3>1
  <2>3. /\ Without(Append(list, e), gone) = IF e \in gone THEN kept ELSE Append(kept, e)
        /\ Without(Append(kept, e), other) =
              IF e \in other THEN Without(kept, other) ELSE Append(Without(kept, other), e)
    <3>1. Without(Append(list, e), gone) =
            IF e \in gone THEN Without(list, gone) ELSE Append(Without(list, gone), e)
      BY WithoutNext
    <3>2. kept \in Seq(E)
      BY <2>2
    <3>3. Without(Append(kept, e), other) =
            IF e \in other THEN Without(kept, other) ELSE Append(Without(kept, other), e)
      BY <3>2, WithoutNext
    <3>. QED  BY ONLY <2>1, <3>1, <3>3
  <2>4. Without(Append(list, e), gone \cup other) =
          IF e \in gone \cup other THEN Without(list, gone \cup other)
          ELSE Append(Without(list, gone \cup other), e)
    BY WithoutNext
  <2>5. Append(list, e) \in Seq(E)
    OBVIOUS
  <2>6. Without(Without(Append(list, e), gone), other) = Without(Append(list, e), gone \cup other)
    BY <2>2, <2>3, <2>4
  <2>. QED  BY <2>5, <2>6
<1>. HIDE DEF S
<1>3. Seq(E) \subseteq S
  BY <1>1, <1>2, Listing
<1>. QED  BY <1>3 DEF S

\* The places of a list whose entry is kept.
Places(list, gone) == {i \in DOMAIN list : list[i] \notin gone}

\* and it keeps one entry for each such place.
LEMMA WithoutCounts ==
  ASSUME NEW gone, NEW E
  PROVE  \A list \in Seq(E) :
            /\ IsFiniteSet(Places(list, gone))
            /\ Len(Without(list, gone)) = Cardinality(Places(list, gone))
<1>. DEFINE Counts(list) == /\ IsFiniteSet(Places(list, gone))
                            /\ Len(Without(list, gone)) = Cardinality(Places(list, gone))
            S == {list \in Seq(E) : Counts(list)}
<1>1. <<>> \in S
  <2>1. Places(<<>>, gone) = {}
    BY DEF Places
  <2>2. Without(<<>>, gone) = <<>> /\ Len(<<>>) = 0 /\ <<>> \in Seq(E)
    BY WithoutNone, WithoutNext
  <2>. QED  BY <2>1, <2>2, FS_EmptySet
<1>2. ASSUME NEW list \in Seq(E), NEW e \in E, list \in S
      PROVE  Append(list, e) \in S
  <2>1. PICK more, n : more = Append(list, e) /\ n = Len(list) + 1
    OBVIOUS
  <2>2. /\ more \in Seq(E) /\ DOMAIN more = DOMAIN list \cup {n} /\ n \notin DOMAIN list
        /\ more[n] = e /\ \A i \in DOMAIN list : more[i] = list[i]
    BY <2>1
  <2>3. Places(more, gone) = IF e \in gone THEN Places(list, gone)
                             ELSE Places(list, gone) \cup {n}
    BY <2>2 DEF Places
  <2>4. n \notin Places(list, gone)
    BY <2>2 DEF Places
  <2>5. Counts(list)
    BY <1>2
  <2>6. Without(more, gone) = IF e \in gone THEN Without(list, gone)
                              ELSE Append(Without(list, gone), e)
    BY <2>1, WithoutNext
  <2>7. Without(list, gone) \in Seq(E \ gone)
    BY WithoutType
  <2>8. Counts(more)
    <3>1. CASE e \notin gone
      <4>1. /\ IsFiniteSet(Places(list, gone) \cup {n})
            /\ Cardinality(Places(list, gone) \cup {n}) = Cardinality(Places(list, gone)) + 1
        BY <2>4, <2>5, FS_AddElement
      <4>2. Len(Append(Without(list, gone), e)) = Len(Without(list, gone)) + 1
        BY <2>7, <3>1
      <4>. QED  BY <2>3, <2>5, <2>6, <3>1, <4>1, <4>2
    <3>2. CASE e \in gone
      BY <2>3, <2>5, <2>6, <3>2
    <3>. QED  BY <3>1, <3>2
  <2>. QED  BY <2>1, <2>2, <2>8
<1>. HIDE DEF S
<1>3. Seq(E) \subseteq S
  BY <1>1, <1>2, Listing
<1>. QED  BY <1>3 DEF S


\* What is at the front of a list stays there or goes;
LEMMA WithoutFront ==
  ASSUME NEW gone, NEW E, NEW c \in E
  PROVE  \A list \in Seq(E) :
            Without(<<c>> \o list, gone) =
              IF c \in gone THEN Without(list, gone) ELSE <<c>> \o Without(list, gone)
<1>. DEFINE Fronts(list) ==
        Without(<<c>> \o list, gone) =
          IF c \in gone THEN Without(list, gone) ELSE <<c>> \o Without(list, gone)
            S == {list \in Seq(E) : Fronts(list)}
<1>1. <<>> \in S
  <2>1. <<>> \in Seq(E) /\ <<c>> \o <<>> = Append(<<>>, c) /\ Append(<<>>, c) = <<c>>
    OBVIOUS
  <2>2. Without(<<>>, gone) = <<>>
    BY WithoutNone
  <2>3. Without(Append(<<>>, c), gone) =
          IF c \in gone THEN Without(<<>>, gone) ELSE Append(Without(<<>>, gone), c)
    <3>1. PICK none : none = <<>>
      OBVIOUS
    <3>2. none \in Seq(E) /\ c \in E
      BY <2>1, <3>1
    <3>3. Without(Append(none, c), gone) =
            IF c \in gone THEN Without(none, gone) ELSE Append(Without(none, gone), c)
      BY ONLY <3>2, WithoutNext
    <3>. QED  BY <3>1, <3>3
  <2>4. Fronts(<<>>)
    BY ONLY <2>1, <2>2, <2>3
  <2>. QED  BY <2>1, <2>4
<1>2. ASSUME NEW list \in Seq(E), NEW e \in E, list \in S
      PROVE  Append(list, e) \in S
  <2>1. PICK front, kept : front = <<c>> \o list /\ kept = Without(list, gone)
    OBVIOUS
  <2>2. /\ front \in Seq(E) /\ <<c>> \o Append(list, e) = Append(front, e)
        /\ Append(list, e) \in Seq(E)
    BY <2>1
  <2>3. /\ Without(Append(list, e), gone) = IF e \in gone THEN kept ELSE Append(kept, e)
        /\ Without(Append(front, e), gone) =
              IF e \in gone THEN Without(front, gone) ELSE Append(Without(front, gone), e)
    <3>1. list \in Seq(E) /\ front \in Seq(E) /\ e \in E
      BY <2>2
    <3>2. Without(Append(list, e), gone) =
            IF e \in gone THEN Without(list, gone) ELSE Append(Without(list, gone), e)
      BY ONLY <3>1, WithoutNext
    <3>3. Without(Append(front, e), gone) =
            IF e \in gone THEN Without(front, gone) ELSE Append(Without(front, gone), e)
      BY ONLY <3>1, WithoutNext
    <3>. QED  BY ONLY <2>1, <3>2, <3>3
  <2>4. Without(front, gone) = IF c \in gone THEN kept ELSE <<c>> \o kept
    BY <1>2, <2>1
  <2>5. kept \in Seq(E \ gone)
    BY <2>1, WithoutType
  <2>6. kept \in Seq(E)
    BY <2>5
  <2>7. <<c>> \o Append(kept, e) = Append(<<c>> \o kept, e)
    BY <2>6
  <2>8. Fronts(Append(list, e))
    BY ONLY <2>2, <2>3, <2>4, <2>7
  <2>. QED  BY <2>2, <2>8
<1>. HIDE DEF S
<1>3. Seq(E) \subseteq S
  BY <1>1, <1>2, Listing
<1>. QED  BY <1>3 DEF S

\* The entries of a list.
Entries(list) == {list[i] : i \in DOMAIN list}

\* and of the entries those remain that are not thrown away.
LEMMA WithoutEntries ==
  ASSUME NEW gone, NEW E
  PROVE  \A list \in Seq(E) : Entries(Without(list, gone)) = Entries(list) \ gone
<1>. DEFINE S == {list \in Seq(E) : Entries(Without(list, gone)) = Entries(list) \ gone}
<1>1. <<>> \in S
  <2>1. <<>> \in Seq(E) /\ Without(<<>>, gone) = <<>>
    BY WithoutNone
  <2>2. Entries(<<>>) = {}
    BY DEF Entries
  <2>. QED  BY <2>1, <2>2
<1>2. ASSUME NEW list \in Seq(E), NEW e \in E, list \in S
      PROVE  Append(list, e) \in S
  <2>1. ASSUME NEW l \in Seq(E)
        PROVE  Entries(Append(l, e)) = Entries(l) \cup {e}
    <3>1. PICK more, n : more = Append(l, e) /\ n = Len(l) + 1
      OBVIOUS
    <3>2. /\ DOMAIN more = DOMAIN l \cup {n} /\ more[n] = e
          /\ \A i \in DOMAIN l : more[i] = l[i]
      BY <3>1
    <3>3. Entries(more) = Entries(l) \cup {e}
      BY ONLY <3>2 DEF Entries
    <3>. QED  BY <3>1, <3>3
  <2>2. PICK kept : kept = Without(list, gone)
    OBVIOUS
  <2>3. kept \in Seq(E \ gone)
    BY <2>2, WithoutType
  <2>4. kept \in Seq(E)
    BY <2>3
  <2>5. Without(Append(list, e), gone) = IF e \in gone THEN kept ELSE Append(kept, e)
    BY <2>2, WithoutNext
  <2>6. Entries(kept) = Entries(list) \ gone
    BY <1>2, <2>2
  <2>7. Entries(Append(list, e)) = Entries(list) \cup {e}
    BY <2>1
  <2>8. Entries(Append(kept, e)) = Entries(kept) \cup {e}
    BY <2>1, <2>4
  <2>9. Entries(Without(Append(list, e), gone)) = Entries(Append(list, e)) \ gone
    BY ONLY <2>5, <2>6, <2>7, <2>8
  <2>. QED  BY <2>9
<1>. HIDE DEF S
<1>3. Seq(E) \subseteq S
  BY <1>1, <1>2, Listing
<1>. QED  BY <1>3 DEF S
=============================================================================
