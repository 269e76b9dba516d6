----------------------------- MODULE PlashProofs -----------------------------
(***************************************************************************)
(* Proofs about the building of a plash, for any number of bundles and     *)
(* drops, any sizes of bundles and of pages, and any faults.               *)
(***************************************************************************)
EXTENDS PlashBuilder, SequenceTheorems, FiniteSetTheorems, WellFoundedInduction, TLAPS

-----------------------------------------------------------------------------
(***************************************************************************)
(* The directory of a section, for any size of its pages: it is read by    *)
(* ordinal as one sequence, an entry is added at its end, and a rollback   *)
(* cuts it back to an ordinal and leaves what is below.                    *)
(***************************************************************************)

(* Induction over the natural numbers, for a set that is given. *)
LEMMA NatSetInduction ==
    ASSUME NEW S, 0 \in S, \A n \in Nat : n \in S => n + 1 \in S
    PROVE  Nat \subseteq S
<1> DEFINE Less == {ss \in Nat \X Nat : ss[1] < ss[2]}
           T == Nat \ S
<1>1. IsWellFoundedOn(Less, Nat)
  BY NatLessThanWellFounded DEF OpToRel
<1>2. ASSUME T # {} PROVE FALSE
  <2>1. PICK m \in T : \A q \in T : ~ (<<q, m>> \in Less)
    <3> HIDE DEF Less
    <3>1. T \subseteq Nat
      OBVIOUS
    <3> QED BY <1>1, <1>2, <3>1, WFMin
  <2>2. m \in Nat /\ m # 0
    OBVIOUS
  <2>3. m - 1 \in Nat /\ m - 1 < m /\ (m - 1) + 1 = m
    BY <2>2
  <2>4. m - 1 \in T
    BY <2>2, <2>3
  <2>5. <<m - 1, m>> \in Less
    BY <2>2, <2>3
  <2> QED BY <2>1, <2>4, <2>5
<1> QED BY <1>2

(* Division by the size of a page. *)
LEMMA PagesDivide ==
    ASSUME NEW a \in Nat
    PROVE  /\ a \div PageSize \in Nat /\ a % PageSize \in 0 .. PageSize - 1
           /\ a = (a \div PageSize) * PageSize + (a % PageSize)
BY PageSizeAssumption

LEMMA PlaceOf ==
    ASSUME NEW q \in Nat, NEW r \in 0 .. PageSize - 1
    PROVE  /\ q * PageSize + r \in Nat
           /\ (q * PageSize + r) \div PageSize = q
           /\ (q * PageSize + r) % PageSize = r
BY PageSizeAssumption

LEMMA PageBefore ==
    ASSUME NEW q \in Nat, NEW r \in Nat, q < r
    PROVE  q * PageSize + PageSize <= r * PageSize
BY PageSizeAssumption

-----------------------------------------------------------------------------
(* All pages but the last one are full. *)
IsDirectory(pages, E) ==
    /\ pages \in Seq(Seq(E)) /\ Len(pages) >= 1
    /\ \A p \in 1 .. Len(pages) - 1 : Len(pages[p]) = PageSize
    /\ Len(pages[Len(pages)]) <= PageSize

(* What a directory is made of. *)
LEMMA DirectoryFacts ==
    ASSUME NEW E, NEW pages, IsDirectory(pages, E)
    PROVE  /\ Len(pages) \in Nat \ {0} /\ DOMAIN pages = 1 .. Len(pages)
           /\ \A p \in 1 .. Len(pages) :
                 pages[p] \in Seq(E) /\ Len(pages[p]) \in 0 .. PageSize
                 /\ DOMAIN pages[p] = 1 .. Len(pages[p])
           /\ GetNextDirectoryIndex(pages) = (Len(pages) - 1) * PageSize + Len(pages[Len(pages)])
           /\ GetNextDirectoryIndex(pages) \in Nat
<1>1. /\ Len(pages) \in Nat \ {0} /\ DOMAIN pages = 1 .. Len(pages)
      /\ \A p \in 1 .. Len(pages) : pages[p] \in Seq(E)
  BY DEF IsDirectory
<1>2. ASSUME NEW p \in 1 .. Len(pages)
      PROVE  Len(pages[p]) \in 0 .. PageSize /\ DOMAIN pages[p] = 1 .. Len(pages[p])
  <2>1. Len(pages[p]) \in Nat /\ DOMAIN pages[p] = 1 .. Len(pages[p])
    BY <1>1
  <2>2. p = Len(pages) \/ p \in 1 .. Len(pages) - 1
    <3> DEFINE L == Len(pages)
    <3>1. L \in Nat /\ p \in 1 .. L
      BY <1>1
    <3> HIDE DEF L
    <3>2. p = L \/ p \in 1 .. L - 1
      BY <3>1
    <3> QED BY <3>2 DEF L
  <2> QED BY <2>1, <2>2, PageSizeAssumption DEF IsDirectory
<1>3. GetNextDirectoryIndex(pages) = (Len(pages) - 1) * PageSize + Len(pages[Len(pages)])
  BY DEF GetNextDirectoryIndex, Last
<1>4. (Len(pages) - 1) * PageSize \in Nat /\ Len(pages[Len(pages)]) \in Nat
  BY <1>1, <1>2, PageSizeAssumption
<1> QED BY <1>1, <1>2, <1>3, <1>4

(* An ordinal below the next one is that of an entry, and no other is. *)
LEMMA Occupied ==
    ASSUME NEW E, NEW pages, IsDirectory(pages, E), NEW i \in Nat
    PROVE  LET page == (i \div PageSize) + 1
               pos == (i % PageSize) + 1
           IN  i < GetNextDirectoryIndex(pages)
                  <=> page \in DOMAIN pages /\ pos \in DOMAIN pages[page]
<1> DEFINE q == i \div PageSize
           r == i % PageSize
           L == Len(pages)
           k == Len(pages[L])
<1>1. q \in Nat /\ r \in 0 .. PageSize - 1 /\ i = q * PageSize + r /\ PageSize \in Nat \ {0}
  BY PagesDivide, PageSizeAssumption
<1>2. /\ L \in Nat \ {0} /\ DOMAIN pages = 1 .. L /\ k \in 0 .. PageSize
      /\ \A p \in 1 .. L : DOMAIN pages[p] = 1 .. Len(pages[p])
      /\ GetNextDirectoryIndex(pages) = (L - 1) * PageSize + k
  BY DirectoryFacts
<1>3. \A p \in 1 .. L - 1 : Len(pages[p]) = PageSize
  BY DEF IsDirectory
<1> HIDE DEF q, r, L, k
<1>4. CASE q + 1 < L
  <2>1. q * PageSize + PageSize <= (L - 1) * PageSize
    BY <1>1, <1>2, <1>4, PageBefore
  <2>2. q * PageSize \in Nat /\ (L - 1) * PageSize \in Nat
    BY <1>1, <1>2
  <2>3. i < (L - 1) * PageSize + k
    BY <1>1, <1>2, <2>1, <2>2
  <2>4. q + 1 \in 1 .. L - 1 /\ r + 1 \in 1 .. PageSize
    BY <1>1, <1>2, <1>4
  <2> QED BY <1>2, <1>3, <2>3, <2>4 DEF q, r
<1>5. CASE q + 1 = L
  <2>1. i < (L - 1) * PageSize + k <=> r < k
    <3>1. L - 1 = q /\ q * PageSize \in Nat
      BY <1>1, <1>5
    <3> QED BY <1>1, <1>2, <3>1
  <2>2. r + 1 \in 1 .. k <=> r < k
    BY <1>1, <1>2
  <2>3. q + 1 \in 1 .. L /\ DOMAIN pages[q + 1] = 1 .. k
    BY <1>1, <1>2, <1>5 DEF k
  <2> QED BY <1>2, <2>1, <2>2, <2>3 DEF q, r
<1>6. CASE q + 1 > L
  <2>1. (L - 1) * PageSize + PageSize <= q * PageSize
    BY <1>1, <1>2, <1>6, PageBefore
  <2>2. q * PageSize \in Nat /\ (L - 1) * PageSize \in Nat
    BY <1>1, <1>2
  <2>3. ~ (i < (L - 1) * PageSize + k)
    BY <1>1, <1>2, <2>1, <2>2
  <2>4. q + 1 \notin 1 .. L
    BY <1>1, <1>2, <1>6
  <2> QED BY <1>2, <2>3, <2>4 DEF q, r
<1> QED BY <1>1, <1>2, <1>4, <1>5, <1>6

(* Reading an entry. *)
LEMMA EntryAt ==
    ASSUME NEW E, NEW pages, IsDirectory(pages, E), NEW q \in Nat, NEW r \in 0 .. PageSize - 1,
           q + 1 \in DOMAIN pages, r + 1 \in DOMAIN pages[q + 1]
    PROVE  GetDirEntry(pages, q * PageSize + r) = pages[q + 1][r + 1]
BY PlaceOf DEF GetDirEntry

LEMMA EntryTyped ==
    ASSUME NEW E, NEW pages, IsDirectory(pages, E), NEW i \in Nat
    PROVE  /\ i < GetNextDirectoryIndex(pages) => GetDirEntry(pages, i) \in E
           /\ ~ (i < GetNextDirectoryIndex(pages)) => GetDirEntry(pages, i) = Reserved
<1> DEFINE page == (i \div PageSize) + 1
           pos == (i % PageSize) + 1
<1>1. i < GetNextDirectoryIndex(pages) <=> page \in DOMAIN pages /\ pos \in DOMAIN pages[page]
  BY Occupied
<1>2. page \in DOMAIN pages /\ pos \in DOMAIN pages[page] => pages[page][pos] \in E
  <2>1. page \in DOMAIN pages => pages[page] \in Seq(E)
    BY DirectoryFacts
  <2> HIDE DEF page, pos
  <2> QED BY <2>1
<1> QED BY <1>1, <1>2 DEF GetDirEntry

(* Directories that agree on the pages of an ordinal agree on its entry. *)
LEMMA SameEntry ==
    ASSUME NEW pages, NEW other, NEW i \in Nat,
           LET page == (i \div PageSize) + 1
               pos == (i % PageSize) + 1
           IN  /\ page \in DOMAIN pages /\ page \in DOMAIN other
               /\ pos \in DOMAIN pages[page] /\ pos \in DOMAIN other[page]
               /\ pages[page][pos] = other[page][pos]
    PROVE  GetDirEntry(other, i) = GetDirEntry(pages, i)
BY DEF GetDirEntry

(* One more entry. *)
LEMMA SetEntry ==
    ASSUME NEW E, NEW pages, IsDirectory(pages, E), NEW e \in E
    PROVE  LET other == SetDirectoryEntry(pages, e)
               n == GetNextDirectoryIndex(pages)
           IN  /\ IsDirectory(other, E)
               /\ GetNextDirectoryIndex(other) = n + 1
               /\ \A i \in 0 .. n - 1 : GetDirEntry(other, i) = GetDirEntry(pages, i)
               /\ GetDirEntry(other, n) = e
<1> DEFINE other == SetDirectoryEntry(pages, e)
           n == GetNextDirectoryIndex(pages)
           L == Len(pages)
           k == Len(pages[L])
           M == Len(other)
<1>1. /\ L \in Nat \ {0} /\ DOMAIN pages = 1 .. L /\ n \in Nat
      /\ \A p \in 1 .. L : pages[p] \in Seq(E) /\ DOMAIN pages[p] = 1 .. Len(pages[p])
      /\ k \in 0 .. PageSize /\ n = (L - 1) * PageSize + k
  BY DirectoryFacts
<1>2. pages \in Seq(Seq(E)) /\ \A p \in 1 .. L - 1 : Len(pages[p]) = PageSize
  BY DEF IsDirectory
<1>3. PageSize \in Nat \ {0}
  BY PageSizeAssumption
<1>4. ASSUME NEW q \in Nat, NEW r \in 0 .. PageSize - 1, IsDirectory(other, E),
             n = q * PageSize + r, Len(other) = q + 1, Len(other[q + 1]) = r + 1,
             other[q + 1][r + 1] = e,
             \A p \in 1 .. L : p \in DOMAIN other
                /\ \A s \in DOMAIN pages[p] : s \in DOMAIN other[p] /\ other[p][s] = pages[p][s]
      PROVE  /\ GetNextDirectoryIndex(other) = n + 1
             /\ \A i \in 0 .. n - 1 : GetDirEntry(other, i) = GetDirEntry(pages, i)
             /\ GetDirEntry(other, n) = e
  <2> HIDE DEF other, n, L, k
  <2>1. /\ GetNextDirectoryIndex(other) = (Len(other) - 1) * PageSize + Len(other[Len(other)])
        /\ DOMAIN other = 1 .. Len(other)
        /\ \A p \in 1 .. Len(other) : DOMAIN other[p] = 1 .. Len(other[p])
    BY <1>4, DirectoryFacts
  <2>2. GetNextDirectoryIndex(other) = q * PageSize + (r + 1) /\ q * PageSize \in Nat
    <3>1. Len(other) - 1 = q /\ Len(other[Len(other)]) = r + 1
      BY <1>4
    <3>2. q * PageSize \in Nat
      BY <1>3
    <3> QED BY <2>1, <3>1, <3>2
  <2>3. q + 1 \in DOMAIN other /\ r + 1 \in DOMAIN other[q + 1]
    BY <1>4, <2>1
  <2>4. GetDirEntry(other, n) = e
    BY <1>4, <2>3, EntryAt
  <2>5. ASSUME NEW i \in 0 .. n - 1 PROVE GetDirEntry(other, i) = GetDirEntry(pages, i)
    <3> DEFINE page == (i \div PageSize) + 1
               pos == (i % PageSize) + 1
    <3>1. i \in Nat /\ i < n
      BY <1>1, <2>5
    <3>2. page \in DOMAIN pages /\ pos \in DOMAIN pages[page]
      BY <3>1, Occupied DEF n
    <3>3. page \in DOMAIN other /\ pos \in DOMAIN other[page] /\ other[page][pos] = pages[page][pos]
      <4> HIDE DEF page, pos
      <4> QED BY <1>1, <1>4, <3>2
    <3> QED BY <3>1, <3>2, <3>3, SameEntry
  <2> QED BY <1>4, <2>2, <2>4, <2>5
<1>5. CASE k = PageSize
  <2>1. other = Append(pages, <<e>>)
    BY <1>5 DEF SetDirectoryEntry, Last
  <2>2. <<e>> \in Seq(E) /\ Len(<<e>>) = 1 /\ <<e>>[1] = e
    OBVIOUS
  <2> DEFINE page == <<e>>
  <2> HIDE DEF other, page
  <2>3. /\ other \in Seq(Seq(E)) /\ Len(other) = L + 1 /\ DOMAIN other = 1 .. L + 1
        /\ \A p \in 1 .. L : other[p] = pages[p]
        /\ other[L + 1] = page
    BY <1>1, <1>2, <2>1, <2>2 DEF page
  <2>4. Len(other[L + 1]) = 1 /\ other[L + 1][1] = e
    BY <2>2, <2>3 DEF page
  <2>5. IsDirectory(other, E)
    <3>1. \A p \in 1 .. L : Len(other[p]) = PageSize
      <4>1. \A p \in 1 .. L : p = L \/ p \in 1 .. L - 1
        <5> HIDE DEF L
        <5> QED BY <1>1
      <4> HIDE DEF L
      <4> QED BY <1>2, <1>5, <2>3, <4>1 DEF k
    <3> HIDE DEF L
    <3> QED BY <1>1, <1>3, <2>3, <2>4, <3>1 DEF IsDirectory
  <2>6. n = L * PageSize + 0 /\ L \in Nat /\ 0 \in 0 .. PageSize - 1
    <3> HIDE DEF L, k, n
    <3> QED BY <1>1, <1>3, <1>5
  <2>7. \A p \in 1 .. L : p \in DOMAIN other
            /\ \A s \in DOMAIN pages[p] : s \in DOMAIN other[p] /\ other[p][s] = pages[p][s]
    <3> HIDE DEF L
    <3> QED BY <1>1, <2>3
  <2>8. /\ GetNextDirectoryIndex(other) = n + 1
        /\ \A i \in 0 .. n - 1 : GetDirEntry(other, i) = GetDirEntry(pages, i)
        /\ GetDirEntry(other, n) = e
    <3>1. L \in Nat /\ 0 \in 0 .. PageSize - 1 /\ 0 + 1 = 1
      BY <2>6
    <3> HIDE DEF L, n
    <3> QED BY <1>4, <2>3, <2>4, <2>5, <2>6, <2>7, <3>1
  <2> QED BY <2>5, <2>8 DEF other
<1>6. CASE k # PageSize
  <2> DEFINE page == Append(pages[L], e)
  <2>1. other = [pages EXCEPT ![L] = page]
    BY <1>6 DEF SetDirectoryEntry, Last
  <2>2. /\ page \in Seq(E) /\ Len(page) = k + 1 /\ DOMAIN page = 1 .. k + 1 /\ page[k + 1] = e
        /\ \A s \in 1 .. k : page[s] = pages[L][s]
    <3>1. pages[L] \in Seq(E)
      BY <1>1
    <3> QED BY <3>1
  <2> HIDE DEF other, page
  <2>3. /\ other \in Seq(Seq(E)) /\ Len(other) = L /\ DOMAIN other = 1 .. L
        /\ \A p \in 1 .. L : other[p] = IF p = L THEN page ELSE pages[p]
    BY <1>1, <1>2, <2>1, <2>2
  <2>4. other[L] = page
    <3> HIDE DEF L
    <3> QED BY <1>1, <2>3
  <2>5. IsDirectory(other, E)
    <3> HIDE DEF L, k
    <3> QED BY <1>1, <1>2, <1>3, <1>6, <2>2, <2>3, <2>4 DEF IsDirectory
  <2>6. L - 1 \in Nat /\ k \in 0 .. PageSize - 1 /\ n = (L - 1) * PageSize + k /\ (L - 1) + 1 = L
    <3> HIDE DEF L, k, n
    <3> QED BY <1>1, <1>3, <1>6
  <2>7. \A p \in 1 .. L : p \in DOMAIN other
            /\ \A s \in DOMAIN pages[p] : s \in DOMAIN other[p] /\ other[p][s] = pages[p][s]
    <3>1. DOMAIN pages[L] = 1 .. k
      BY <1>1
    <3> HIDE DEF L, k
    <3> QED BY <1>1, <2>2, <2>3, <3>1
  <2>8. /\ GetNextDirectoryIndex(other) = n + 1
        /\ \A i \in 0 .. n - 1 : GetDirEntry(other, i) = GetDirEntry(pages, i)
        /\ GetDirEntry(other, n) = e
    <3> HIDE DEF L, n, k
    <3> QED BY <1>4, <2>2, <2>3, <2>4, <2>5, <2>6, <2>7
  <2> QED BY <2>5, <2>8 DEF other
<1> QED BY <1>4, <1>5, <1>6

(* The function of AppendEntries is there: it grows by one step. *)
LEMMA AppendSteps ==
    ASSUME NEW pages, NEW e, NEW n \in Nat
    PROVE  \E g : /\ g = [i \in 0 .. n |->
                             IF i = 0 THEN pages ELSE SetDirectoryEntry(g[i - 1], e)]
                  /\ g[n] = AppendEntries(pages, e, n)
<1> DEFINE Step(g, m) == [i \in 0 .. m |->
                             IF i = 0 THEN pages ELSE SetDirectoryEntry(g[i - 1], e)]
           S == {m \in Nat : \E g : g = Step(g, m)}
<1>1. 0 \in S
  <2> DEFINE g == [i \in 0 .. 0 |-> pages]
  <2>1. g = Step(g, 0)
    OBVIOUS
  <2> QED BY <2>1
<1>2. ASSUME NEW m \in Nat, m \in S PROVE m + 1 \in S
  <2>1. PICK g : g = Step(g, m)
    BY <1>2
  <2> DEFINE h == [i \in 0 .. m + 1 |-> IF i <= m THEN g[i] ELSE SetDirectoryEntry(g[m], e)]
  <2>2. ASSUME NEW i \in 0 .. m + 1
        PROVE  h[i] = IF i = 0 THEN pages ELSE SetDirectoryEntry(h[i - 1], e)
    <3>1. CASE i = 0
      <4>1. g[0] = pages
        BY <2>1
      <4> QED BY <3>1, <4>1
    <3>2. CASE i # 0 /\ i <= m
      <4>1. i \in 0 .. m /\ i - 1 \in 0 .. m + 1 /\ i - 1 <= m
        BY <3>2
      <4>2. g[i] = SetDirectoryEntry(g[i - 1], e)
        BY <2>1, <3>2, <4>1
      <4>3. h[i] = g[i] /\ h[i - 1] = g[i - 1]
        BY <3>2, <4>1
      <4> QED BY <3>2, <4>2, <4>3
    <3>3. CASE i = m + 1
      <4>1. h[m + 1] = SetDirectoryEntry(g[m], e) /\ h[m] = g[m] /\ (m + 1) - 1 = m /\ m + 1 # 0
        OBVIOUS
      <4> QED BY <3>3, <4>1
    <3> QED BY <2>2, <3>1, <3>2, <3>3
  <2> DEFINE k == Step(h, m + 1)
  <2>3. DOMAIN h = 0 .. m + 1 /\ DOMAIN k = 0 .. m + 1 /\ \A i \in 0 .. m + 1 : h[i] = k[i]
    BY <2>2
  <2>4. h = Step(h, m + 1)
    BY <2>3
  <2> HIDE DEF h, Step
  <2> QED BY <2>4
<1>3. n \in S
  <2> HIDE DEF S
  <2> QED BY <1>1, <1>2, NatSetInduction
<1> DEFINE after == CHOOSE g : g = Step(g, n)
<1>4. after = Step(after, n)
  BY <1>3
<1>5. AppendEntries(pages, e, n) = after[n]
  BY DEF AppendEntries
<1> QED BY <1>4, <1>5

(* The entries of a bundle, one after another. *)
LEMMA EntriesAppended ==
    ASSUME NEW E, NEW pages, IsDirectory(pages, E), NEW e \in E, NEW n \in Nat
    PROVE  LET other == AppendEntries(pages, e, n)
               k == GetNextDirectoryIndex(pages)
           IN  /\ IsDirectory(other, E)
               /\ GetNextDirectoryIndex(other) = k + n
               /\ \A i \in 0 .. k - 1 : GetDirEntry(other, i) = GetDirEntry(pages, i)
               /\ \A i \in k .. k + n - 1 : GetDirEntry(other, i) = e
<1> DEFINE k == GetNextDirectoryIndex(pages)
           Good(q, m) ==
              /\ IsDirectory(q, E)
              /\ GetNextDirectoryIndex(q) = k + m
              /\ \A i \in 0 .. k - 1 : GetDirEntry(q, i) = GetDirEntry(pages, i)
              /\ \A i \in k .. k + m - 1 : GetDirEntry(q, i) = e
<1>1. PICK g : /\ g = [i \in 0 .. n |->
                          IF i = 0 THEN pages ELSE SetDirectoryEntry(g[i - 1], e)]
               /\ g[n] = AppendEntries(pages, e, n)
  BY AppendSteps
<1>2. g[0] = pages /\ \A m \in 0 .. n - 1 : g[m + 1] = SetDirectoryEntry(g[m], e)
  <2>1. g[0] = pages
    BY <1>1
  <2>2. ASSUME NEW m \in 0 .. n - 1 PROVE g[m + 1] = SetDirectoryEntry(g[m], e)
    <3>1. m + 1 \in 0 .. n /\ m + 1 # 0 /\ (m + 1) - 1 = m
      OBVIOUS
    <3> QED BY <1>1, <3>1
  <2> QED BY <2>1, <2>2
<1>3. k \in Nat
  BY DirectoryFacts
<1> HIDE DEF k
<1> DEFINE S == {m \in Nat : m <= n => Good(g[m], m)}
<1>4. 0 \in S
  BY <1>2, <1>3 DEF k
<1>5. ASSUME NEW m \in Nat, m \in S PROVE m + 1 \in S
  <2>1. CASE m + 1 <= n
    <3>1. m \in 0 .. n - 1 /\ m <= n
      BY <2>1
    <3>2. Good(g[m], m)
      BY <1>5, <3>1
    <3> DEFINE q == g[m]
               other == SetDirectoryEntry(q, e)
    <3>3. g[m + 1] = other
      BY <1>2, <3>1
    <3> HIDE DEF other
    <3>4. /\ IsDirectory(q, E) /\ GetNextDirectoryIndex(q) = k + m
          /\ \A i \in 0 .. k - 1 : GetDirEntry(q, i) = GetDirEntry(pages, i)
          /\ \A i \in k .. k + m - 1 : GetDirEntry(q, i) = e
      BY <3>2
    <3> HIDE DEF q
    <3>5. /\ IsDirectory(other, E) /\ GetNextDirectoryIndex(other) = (k + m) + 1
          /\ \A i \in 0 .. (k + m) - 1 : GetDirEntry(other, i) = GetDirEntry(q, i)
          /\ GetDirEntry(other, k + m) = e
      BY <3>4, SetEntry DEF other
    <3>6. \A i \in 0 .. k - 1 : GetDirEntry(other, i) = GetDirEntry(pages, i)
      BY <1>3, <3>4, <3>5
    <3>7. \A i \in k .. k + (m + 1) - 1 : GetDirEntry(other, i) = e
      <4>1. \A i \in k .. k + (m + 1) - 1 : i = k + m \/ (i \in k .. k + m - 1 /\ i \in 0 .. (k + m) - 1)
        BY <1>3
      <4> QED BY <3>4, <3>5, <4>1
    <3>8. GetNextDirectoryIndex(other) = k + (m + 1)
      BY <1>3, <3>5
    <3>9. Good(other, m + 1)
      BY <3>5, <3>6, <3>7, <3>8
    <3> HIDE DEF Good
    <3> QED BY <3>3, <3>9
  <2>2. CASE ~ (m + 1 <= n)
    BY <2>2
  <2> QED BY <2>1, <2>2
<1>6. n \in S
  <2> HIDE DEF S
  <2> QED BY <1>4, <1>5, NatSetInduction
<1>7. Good(g[n], n)
  <2> HIDE DEF Good
  <2> QED BY <1>6
<1> QED BY <1>1, <1>7 DEF k

(* The first pages of a directory. *)
LEMMA FirstPages ==
    ASSUME NEW E, NEW pages \in Seq(Seq(E)), NEW m \in 1 .. Len(pages)
    PROVE  /\ SubSeq(pages, 1, m) \in Seq(Seq(E)) /\ Len(SubSeq(pages, 1, m)) = m
           /\ DOMAIN SubSeq(pages, 1, m) = 1 .. m
           /\ \A p \in 1 .. m : SubSeq(pages, 1, m)[p] = pages[p]
<1>1. Len(pages) \in Nat /\ m \in Nat /\ m <= Len(pages) /\ 1 <= m
  OBVIOUS
<1>2. \A p \in 1 .. m : pages[p] \in Seq(E)
  BY <1>1
<1>3. /\ SubSeq(pages, 1, m) \in Seq(Seq(E))
      /\ Len(SubSeq(pages, 1, m)) = m - 1 + 1
      /\ \A p \in 1 .. m - 1 + 1 : SubSeq(pages, 1, m)[p] = pages[1 + p - 1]
  BY <1>1, <1>2, SubSeqProperties, Z3
<1> QED BY <1>1, <1>3

(* A rollback to an ordinal below the next one succeeds.  To one that is   *)
(* not, it may fail, and the directory reads as before.                    *)
LEMMA RolledBack ==
    ASSUME NEW E, NEW pages, IsDirectory(pages, E), NEW ord \in Nat
    PROVE  LET undone == RollbackDir(pages, ord)
               n == GetNextDirectoryIndex(pages)
               k == GetNextDirectoryIndex(undone.pages)
           IN  /\ IsDirectory(undone.pages, E)
               /\ k = IF ord < n THEN ord ELSE n
               /\ \A i \in 0 .. k - 1 : GetDirEntry(undone.pages, i) = GetDirEntry(pages, i)
               /\ ord < n => undone.ok
<1> DEFINE undone == RollbackDir(pages, ord)
           n == GetNextDirectoryIndex(pages)
           L == Len(pages)
           q == ord \div PageSize
           r == ord % PageSize
           cut == SubSeq(pages, 1, q + 1)
<1>1. q \in Nat /\ r \in 0 .. PageSize - 1 /\ ord = q * PageSize + r /\ PageSize \in Nat \ {0}
      /\ q * PageSize \in Nat
  BY PagesDivide, PageSizeAssumption
<1>2. /\ L \in Nat \ {0} /\ DOMAIN pages = 1 .. L /\ n \in Nat /\ n = (L - 1) * PageSize + Len(pages[L])
      /\ \A p \in 1 .. L : pages[p] \in Seq(E) /\ Len(pages[p]) \in 0 .. PageSize
            /\ DOMAIN pages[p] = 1 .. Len(pages[p])
  BY DirectoryFacts
<1>3. pages \in Seq(Seq(E)) /\ \A p \in 1 .. L - 1 : Len(pages[p]) = PageSize
  BY DEF IsDirectory
<1> HIDE DEF q, r, n, L
<1>4. CASE q + 1 > L
  <2>1. undone.pages = pages /\ undone.ok = FALSE
    BY <1>4 DEF RollbackDir, q, r, L
  <2>2. ~ (ord < n)
    <3>1. (L - 1) * PageSize + PageSize <= q * PageSize
      BY <1>1, <1>2, <1>4, PageBefore
    <3>2. Len(pages[L]) \in 0 .. PageSize /\ (L - 1) * PageSize \in Nat
      BY <1>1, <1>2
    <3> DEFINE a == (L - 1) * PageSize
               b == q * PageSize
               k == Len(pages[L])
    <3>3. /\ a \in Nat /\ b \in Nat /\ k \in 0 .. PageSize /\ a + PageSize <= b
          /\ ord = b + r /\ n = a + k
      BY <1>1, <1>2, <3>1, <3>2
    <3> HIDE DEF a, b, k
    <3> QED BY <1>1, <3>3
  <2> QED BY <1>2, <2>1, <2>2 DEF n
<1>5. CASE q + 1 <= L
  <2>1. q + 1 \in 1 .. L
    BY <1>1, <1>2, <1>5
  <2>2. /\ cut \in Seq(Seq(E)) /\ Len(cut) = q + 1 /\ DOMAIN cut = 1 .. q + 1
        /\ \A p \in 1 .. q + 1 : cut[p] = pages[p]
    BY <1>3, <2>1, FirstPages DEF L
  <2>3. cut[q + 1] = pages[q + 1] /\ q + 1 \in 1 .. q + 1
    BY <1>1, <2>2
  <2>4. CASE r > Len(cut[q + 1])
    <3>1. undone.pages = cut /\ undone.ok = FALSE
      BY <1>1, <1>2, <1>5, <2>4 DEF RollbackDir, q, r, L
    <3>2. q + 1 = L
      <4>1. q + 1 \in 1 .. L - 1 \/ q + 1 = L
        BY <1>2, <2>1
      <4> QED BY <1>1, <1>3, <2>3, <2>4, <4>1
    <3>3. cut = pages
      <4>1. Len(cut) = Len(pages) /\ \A p \in 1 .. Len(cut) : cut[p] = pages[p]
        BY <2>2, <3>2 DEF L
      <4> HIDE DEF cut
      <4> QED BY <1>3, <2>2, <4>1, SeqEqual
    <3>4. ~ (ord < n)
      <4> DEFINE b == q * PageSize
                 k == Len(pages[L])
      <4>1. L - 1 = q /\ r > k /\ k \in Nat
        BY <1>1, <1>2, <2>3, <2>4, <3>2
      <4>2. b \in Nat /\ ord = b + r /\ n = b + k
        BY <1>1, <1>2, <4>1
      <4> HIDE DEF b, k
      <4> QED BY <1>1, <4>1, <4>2
    <3> QED BY <1>2, <3>1, <3>3, <3>4 DEF n
  <2>5. CASE ~ (r > Len(cut[q + 1]))
    <3> DEFINE page == SubSeq(pages[q + 1], 1, r)
               other == [cut EXCEPT ![q + 1] = page]
    <3>1. undone.pages = other /\ undone.ok = TRUE
      <4>1. undone = [ok |-> TRUE, pages |-> [cut EXCEPT ![q + 1] = SubSeq(cut[q + 1], 1, r)]]
        <5>1. ~ (q + 1 > Len(pages))
          BY <1>1, <1>2, <1>5 DEF L
        <5> QED BY <2>5, <5>1, Zenon DEF RollbackDir, q, r
      <4> HIDE DEF cut
      <4> QED BY <2>2, <2>3, <4>1
    <3>2. r \in Nat /\ r <= Len(pages[q + 1]) /\ pages[q + 1] \in Seq(E) /\ Len(pages[q + 1]) \in Nat
      BY <1>1, <1>2, <2>1, <2>3, <2>5
    <3>3. /\ page \in Seq(E) /\ Len(page) = r /\ DOMAIN page = 1 .. r
          /\ \A s \in 1 .. r : page[s] = pages[q + 1][s]
      <4> DEFINE from == pages[q + 1]
      <4>1. from \in Seq(E) /\ r <= Len(from) /\ Len(from) \in Nat
        BY <3>2
      <4> HIDE DEF from
      <4>2. \A s \in 1 .. r : from[s] \in E
        BY <3>2, <4>1
      <4>3. /\ SubSeq(from, 1, r) \in Seq(E)
            /\ Len(SubSeq(from, 1, r)) = IF 1 <= r THEN r - 1 + 1 ELSE 0
            /\ \A s \in 1 .. r - 1 + 1 : SubSeq(from, 1, r)[s] = from[1 + s - 1]
        BY <3>2, <4>1, <4>2, SubSeqProperties, Z3
      <4>4. Len(SubSeq(from, 1, r)) = r
        BY <3>2, <4>3
      <4> QED BY <3>2, <4>3, <4>4 DEF from
    <3> HIDE DEF page, cut
    <3>4. /\ other \in Seq(Seq(E)) /\ Len(other) = q + 1 /\ DOMAIN other = 1 .. q + 1
          /\ \A p \in 1 .. q + 1 : other[p] = IF p = q + 1 THEN page ELSE pages[p]
          /\ other[q + 1] = page
      BY <1>1, <2>2, <2>3, <3>3
    <3> HIDE DEF other
    <3>5. IsDirectory(other, E)
      BY <1>1, <1>2, <1>3, <2>1, <3>3, <3>4 DEF IsDirectory
    <3>6. GetNextDirectoryIndex(other) = ord
      <4>1. GetNextDirectoryIndex(other) = (Len(other) - 1) * PageSize + Len(other[Len(other)])
        BY <3>5, DirectoryFacts
      <4>2. Len(other) - 1 = q /\ Len(other[Len(other)]) = r
        BY <1>1, <3>3, <3>4
      <4> QED BY <1>1, <4>1, <4>2
    <3>7. ord <= n
      <4>1. CASE q + 1 = L
        <5>1. L - 1 = q /\ r <= Len(pages[L])
          BY <1>1, <1>2, <3>2, <4>1
        <5> QED BY <1>1, <1>2, <3>2, <4>1, <5>1
      <4>2. CASE q + 1 # L
        <5>1. q * PageSize + PageSize <= (L - 1) * PageSize
          BY <1>1, <1>2, <1>5, <4>2, PageBefore
        <5> DEFINE e == (L - 1) * PageSize
                   b == q * PageSize
                   k == Len(pages[L])
        <5>2. e \in Nat /\ k \in Nat /\ b \in Nat
          <6>1. L - 1 \in Nat /\ L \in 1 .. L
            BY <1>2
          <6>2. Len(pages[L]) \in Nat
            BY <1>1, <1>2, <6>1
          <6> QED BY <1>1, <6>1, <6>2
        <5>3. b + PageSize <= e /\ ord = b + r /\ n = e + k
          BY <1>1, <1>2, <5>1
        <5> HIDE DEF e, b, k
        <5> QED BY <1>1, <5>2, <5>3
      <4> QED BY <4>1, <4>2
    <3>8. ASSUME NEW i \in 0 .. ord - 1 PROVE GetDirEntry(other, i) = GetDirEntry(pages, i)
      <4> DEFINE a == (i \div PageSize) + 1
                 b == (i % PageSize) + 1
      <4>1. i \in Nat /\ i < ord /\ i < n
        BY <1>2, <3>7
      <4>2. a \in DOMAIN pages /\ b \in DOMAIN pages[a]
        BY <4>1, Occupied DEF n
      <4>3. a \in DOMAIN other /\ b \in DOMAIN other[a]
        BY <3>5, <3>6, <4>1, Occupied
      <4>4. other[a][b] = pages[a][b]
        <5> HIDE DEF a, b
        <5> QED BY <3>3, <3>4, <4>3
      <4> QED BY <4>1, <4>2, <4>3, <4>4, SameEntry
    <3> QED BY <1>2, <3>1, <3>5, <3>6, <3>7, <3>8 DEF n
  <2> QED BY <2>4, <2>5
<1> QED BY <1>1, <1>2, <1>4, <1>5

(* The pages one after another: the function of FlattenSeq. *)
LEMMA FlattenSteps ==
    ASSUME NEW E, NEW pages \in Seq(Seq(E)), Len(pages) >= 1
    PROVE  \E g : /\ g = [i \in 1 .. Len(pages) |->
                             IF i = 1 THEN pages[i] ELSE g[i - 1] \o pages[i]]
                  /\ g[Len(pages)] = FlattenSeq(pages)
<1> DEFINE Step(g, m) == [i \in 1 .. m |-> IF i = 1 THEN pages[i] ELSE g[i - 1] \o pages[i]]
           S == {m \in Nat : \E g : g = Step(g, m + 1)}
<1>1. 0 \in S
  <2> DEFINE g == [i \in 1 .. 0 + 1 |-> pages[i]]
  <2>1. g = Step(g, 0 + 1)
    OBVIOUS
  <2> HIDE DEF g, Step
  <2> QED BY <2>1
<1>2. ASSUME NEW m \in Nat, m \in S PROVE m + 1 \in S
  <2>1. PICK g : g = Step(g, m + 1)
    BY <1>2
  <2> DEFINE n == m + 1
             h == [i \in 1 .. n + 1 |-> IF i <= n THEN g[i] ELSE g[n] \o pages[n + 1]]
  <2>2. ASSUME NEW i \in 1 .. n + 1
        PROVE  h[i] = IF i = 1 THEN pages[i] ELSE h[i - 1] \o pages[i]
    <3>1. CASE i = 1
      <4>1. g[1] = pages[1]
        BY <2>1
      <4> QED BY <3>1, <4>1
    <3>2. CASE i # 1 /\ i <= n
      <4>1. i \in 1 .. n /\ i - 1 \in 1 .. n + 1 /\ i - 1 <= n
        BY <3>2
      <4>2. g[i] = g[i - 1] \o pages[i]
        BY <2>1, <3>2, <4>1
      <4>3. h[i] = g[i] /\ h[i - 1] = g[i - 1]
        BY <3>2, <4>1
      <4> QED BY <3>2, <4>2, <4>3
    <3>3. CASE i = n + 1
      <4>1. /\ h[n + 1] = g[n] \o pages[n + 1] /\ h[n] = g[n]
            /\ (n + 1) - 1 = n /\ n + 1 # 1
        <5>1. n \in Nat /\ n >= 1
          OBVIOUS
        <5> HIDE DEF n
        <5>2. n + 1 \in 1 .. n + 1 /\ ~ (n + 1 <= n) /\ n \in 1 .. n + 1 /\ n <= n
              /\ (n + 1) - 1 = n /\ n + 1 # 1
          BY <5>1
        <5> QED BY <5>2
      <4> HIDE DEF h, n
      <4> QED BY <3>3, <4>1
    <3> QED BY <2>2, <3>1, <3>2, <3>3
  <2> DEFINE k == Step(h, n + 1)
  <2>3. DOMAIN h = 1 .. n + 1 /\ DOMAIN k = 1 .. n + 1 /\ \A i \in 1 .. n + 1 : h[i] = k[i]
    BY <2>2
  <2>4. h = Step(h, n + 1)
    BY <2>3
  <2> HIDE DEF h, Step
  <2> QED BY <2>4
<1>3. PICK m \in Nat : m + 1 = Len(pages)
  <2>1. Len(pages) - 1 \in Nat /\ (Len(pages) - 1) + 1 = Len(pages)
    OBVIOUS
  <2> QED BY <2>1
<1>4. m \in S
  <2> HIDE DEF S
  <2> QED BY <1>1, <1>2, NatSetInduction
<1> DEFINE flatten == CHOOSE g : g = Step(g, Len(pages))
<1>5. flatten = Step(flatten, Len(pages))
  <2>1. \E g : g = Step(g, m + 1)
    <3> HIDE DEF Step
    <3> QED BY <1>4
  <2> HIDE DEF Step
  <2> QED BY <1>3, <2>1
<1>6. FlattenSeq(pages) = flatten[Len(pages)]
  BY DEF FlattenSeq
<1> QED BY <1>5, <1>6

(* The entries in the order of their ordinals. *)
LEMMA EntriesInOrder ==
    ASSUME NEW E, NEW pages, IsDirectory(pages, E), GetNextDirectoryIndex(pages) >= 1
    PROVE  /\ Entries(pages) \in Seq(E)
           /\ DOMAIN Entries(pages) = 1 .. GetNextDirectoryIndex(pages) - 1
           /\ \A i \in DOMAIN Entries(pages) : Entries(pages)[i] = GetDirEntry(pages, i)
<1> DEFINE L == Len(pages)
           n == GetNextDirectoryIndex(pages)
           Good(f, m) ==
              /\ f \in Seq(E) /\ Len(f) = (m - 1) * PageSize + Len(pages[m])
              /\ \A p \in 1 .. m : \A s \in DOMAIN pages[p] : f[(p - 1) * PageSize + s] = pages[p][s]
<1>1. /\ L \in Nat \ {0} /\ DOMAIN pages = 1 .. L /\ n = (L - 1) * PageSize + Len(pages[L]) /\ n \in Nat
      /\ \A p \in 1 .. L : pages[p] \in Seq(E) /\ Len(pages[p]) \in 0 .. PageSize
            /\ DOMAIN pages[p] = 1 .. Len(pages[p])
  BY DirectoryFacts
<1>2. pages \in Seq(Seq(E)) /\ \A p \in 1 .. L - 1 : Len(pages[p]) = PageSize
  BY DEF IsDirectory
<1>3. PICK g : /\ g = [i \in 1 .. L |-> IF i = 1 THEN pages[i] ELSE g[i - 1] \o pages[i]]
               /\ g[L] = FlattenSeq(pages)
  <2>1. Len(pages) >= 1
    BY DEF IsDirectory
  <2> QED BY <1>2, <2>1, FlattenSteps, Zenon
<1> HIDE DEF L, n
<1>4. g[1] = pages[1] /\ \A m \in 1 .. L - 1 : g[m + 1] = g[m] \o pages[m + 1]
  <2>1. g[1] = pages[1]
    BY <1>1, <1>3
  <2>2. ASSUME NEW m \in 1 .. L - 1 PROVE g[m + 1] = g[m] \o pages[m + 1]
    <3>1. m + 1 \in 1 .. L /\ m + 1 # 1 /\ (m + 1) - 1 = m
      BY <1>1
    <3> QED BY <1>3, <3>1
  <2> QED BY <2>1, <2>2
<1> DEFINE S == {m \in Nat : m + 1 <= L => Good(g[m + 1], m + 1)}
<1>5. 0 \in S
  <2>1. 1 \in 1 .. L
    BY <1>1
  <2>2. pages[1] \in Seq(E) /\ Len(pages[1]) \in Nat
    BY <1>1, <2>1
  <2>3. (1 - 1) * PageSize = 0
    BY PageSizeAssumption
  <2>4. Len(pages[1]) = (1 - 1) * PageSize + Len(pages[1])
    BY <2>2, <2>3
  <2>5. ASSUME NEW p \in 1 .. 1, NEW s \in DOMAIN pages[p]
        PROVE  pages[1][(p - 1) * PageSize + s] = pages[p][s]
    <3>1. p = 1 /\ s \in Nat
      BY <1>1, <2>1, <2>2
    <3>2. (p - 1) * PageSize + s = s
      BY <2>3, <3>1
    <3> QED BY <3>1, <3>2
  <2>6. Good(g[1], 1)
    BY <1>4, <2>2, <2>4, <2>5
  <2>7. 0 + 1 = 1
    OBVIOUS
  <2> HIDE DEF Good
  <2> QED BY <2>6, <2>7
<1>6. ASSUME NEW m \in Nat, m \in S PROVE m + 1 \in S
  <2> DEFINE k == m + 1
  <2>1. CASE k + 1 <= L
    <3>1. k \in 1 .. L - 1 /\ k \in 1 .. L /\ k + 1 \in 1 .. L /\ k \in Nat /\ k + 1 <= L /\ k <= L
      BY <1>1, <2>1
    <3>2. Good(g[k], k)
      <4> HIDE DEF Good
      <4> QED BY <1>6, <3>1
    <3> DEFINE f == g[k]
               page == pages[k + 1]
               a == k * PageSize
    <3>3. g[k + 1] = f \o page
      BY <1>4, <3>1
    <3>4. page \in Seq(E) /\ Len(page) \in Nat /\ DOMAIN page = 1 .. Len(page)
      BY <1>1, <3>1
    <3>5. /\ f \in Seq(E) /\ Len(f) = (k - 1) * PageSize + Len(pages[k])
          /\ \A p \in 1 .. k : \A s \in DOMAIN pages[p] : f[(p - 1) * PageSize + s] = pages[p][s]
      BY <3>2
    <3>6. a \in Nat /\ Len(f) = a
      <4>1. Len(pages[k]) = PageSize
        BY <1>2, <3>1
      <4>2. (k - 1) * PageSize + PageSize = k * PageSize
        BY <3>1, PageSizeAssumption
      <4>3. k * PageSize \in Nat
        BY <3>1, PageSizeAssumption
      <4> QED BY <3>5, <4>1, <4>2, <4>3
    <3> HIDE DEF f, page, a
    <3>7. /\ f \o page \in Seq(E) /\ Len(f \o page) = a + Len(page)
          /\ \A i \in 1 .. a : (f \o page)[i] = f[i]
          /\ \A s \in 1 .. Len(page) : (f \o page)[a + s] = page[s]
      <4>1. /\ f \o page \in Seq(E) /\ Len(f \o page) = Len(f) + Len(page)
            /\ \A i \in 1 .. Len(f) + Len(page) :
                  (f \o page)[i] = IF i <= Len(f) THEN f[i] ELSE page[i - Len(f)]
        BY <3>4, <3>5, ConcatProperties
      <4>2. \A i \in 1 .. a : i \in 1 .. a + Len(page) /\ i <= a
        BY <3>4, <3>6
      <4>3. \A s \in 1 .. Len(page) : a + s \in 1 .. a + Len(page) /\ ~ (a + s <= a) /\ (a + s) - a = s
        BY <3>4, <3>6
      <4> QED BY <3>6, <4>1, <4>2, <4>3
    <3>8. ASSUME NEW p \in 1 .. k + 1, NEW s \in DOMAIN pages[p]
          PROVE  (f \o page)[(p - 1) * PageSize + s] = pages[p][s]
      <4>1. CASE p = k + 1
        <5>1. (p - 1) * PageSize = a /\ pages[p] = page
          BY <3>1, <4>1 DEF a, page
        <5> QED BY <3>4, <3>7, <3>8, <5>1
      <4>2. CASE p # k + 1
        <5>1. p \in 1 .. k /\ p \in 1 .. L /\ p - 1 \in Nat /\ p - 1 < k
          <6> HIDE DEF k
          <6>1. p \in Nat /\ 1 <= p /\ p <= k /\ k \in Nat
            BY <3>1, <4>2
          <6> QED BY <1>1, <3>1, <6>1
        <5>2. s \in Nat /\ 1 <= s /\ s <= PageSize
          BY <1>1, <3>8, <5>1, PageSizeAssumption
        <5>3. (p - 1) * PageSize + PageSize <= a
          BY <3>1, <5>1, PageBefore DEF a
        <5>4. (p - 1) * PageSize \in Nat
          BY <5>1, PageSizeAssumption
        <5>5. (p - 1) * PageSize + s \in 1 .. a
          BY <3>6, <5>2, <5>3, <5>4, PageSizeAssumption
        <5> QED BY <3>5, <3>7, <3>8, <5>1, <5>5
      <4> QED BY <4>1, <4>2
    <3>9. Good(f \o page, k + 1)
      <4>1. Len(f \o page) = ((k + 1) - 1) * PageSize + Len(pages[k + 1])
        BY <3>1, <3>7 DEF a, page
      <4> QED BY <3>7, <3>8, <4>1
    <3> HIDE DEF Good
    <3>10. Good(g[k + 1], k + 1) /\ k \in Nat
      BY <3>1, <3>3, <3>9
    <3> QED BY <3>10
  <2>2. CASE ~ (k + 1 <= L)
    <3> HIDE DEF Good
    <3> QED BY <2>2
  <2> QED BY <2>1, <2>2
<1>7. L - 1 \in S /\ (L - 1) + 1 = L /\ L <= L
  <2> HIDE DEF S
  <2>1. L - 1 \in Nat /\ (L - 1) + 1 = L /\ L <= L
    BY <1>1
  <2> QED BY <1>5, <1>6, <2>1, NatSetInduction
<1>8. Good(FlattenSeq(pages), L)
  <2> HIDE DEF Good
  <2> QED BY <1>3, <1>7
<1> DEFINE f == FlattenSeq(pages)
<1>9. /\ f \in Seq(E) /\ Len(f) = n
      /\ \A p \in 1 .. L : \A s \in DOMAIN pages[p] : f[(p - 1) * PageSize + s] = pages[p][s]
  BY <1>1, <1>8
<1> HIDE DEF f
<1>10. /\ Tail(f) \in Seq(E) /\ Len(Tail(f)) = n - 1 /\ DOMAIN Tail(f) = 1 .. n - 1
       /\ \A i \in 1 .. n - 1 : Tail(f)[i] = f[i + 1]
  <2>1. f # <<>>
    BY <1>1, <1>9 DEF n
  <2>2. /\ Tail(f) \in Seq(E) /\ Len(Tail(f)) = Len(f) - 1
        /\ \A i \in 1 .. Len(Tail(f)) : Tail(f)[i] = f[i + 1]
    BY <1>9, <2>1, HeadTailProperties
  <2> QED BY <1>9, <2>2
<1>11. ASSUME NEW i \in 1 .. n - 1 PROVE f[i + 1] = GetDirEntry(pages, i)
  <2> DEFINE q == i \div PageSize
             r == i % PageSize
  <2>1. i \in Nat /\ i < n
    BY <1>1
  <2>2. q + 1 \in DOMAIN pages /\ r + 1 \in DOMAIN pages[q + 1]
    BY <2>1, Occupied DEF n
  <2>3. q \in Nat /\ r \in Nat /\ i = q * PageSize + r /\ q * PageSize \in Nat
    BY <2>1, PagesDivide, PageSizeAssumption
  <2>4. GetDirEntry(pages, i) = pages[q + 1][r + 1]
    BY <2>2 DEF GetDirEntry
  <2> HIDE DEF q, r
  <2>5. (q + 1) - 1 = q /\ i + 1 = q * PageSize + (r + 1)
    BY <2>3
  <2>6. f[((q + 1) - 1) * PageSize + (r + 1)] = pages[q + 1][r + 1]
    BY <1>1, <1>9, <2>2
  <2> QED BY <2>4, <2>5, <2>6
<1> QED BY <1>10, <1>11 DEF Entries, f, n

-----------------------------------------------------------------------------
(***************************************************************************)
(* Types of what the chain of bundles and the ordinals are made of.        *)
(***************************************************************************)
Active == {"apply", "wait", "callback", "rollback"}
Links == Bundles \cup {Closure}

ChainTyped ==
    /\ mutex \in Bundles \cup {NoBundle}
    /\ lastReady \in Links
    /\ prev \in [Links -> Links \cup {NoBundle}]
    /\ ready \in [Links -> {"open", "ok", "rolledBack"}]
    /\ pc \in [Bundles -> Active \cup {"idle", "checked", "signal", "end"}]
    /\ fate \in [Bundles -> {"none", "committed", "rolledBack", "refused"}]
    /\ inFlight \in Seq(Bundles)
OrdinalsTyped ==
    /\ dropOrder \in [Drops -> Nat]
    /\ dropBase \in [Appends -> Nat]
PlashTyped ==
    /\ status \in {"started", "pendingPulse", "summingUp", "summarized", "closed"}
    /\ cancels \in 0..MaxCancels
    /\ future \in [Appends -> {"none", "ok", "error"}]
    /\ sectionPc \in {"idle", "read", "scan", "write", "closed", "failed"}
    /\ drops \subseteq Drops
    /\ closePc \in {"idle", "summarize", "write", "wait", "close", "signal", "end"}
    /\ storage \in {"writable", "readOnly", "broken"}
    /\ reported \in BOOLEAN /\ panicked \in BOOLEAN

-----------------------------------------------------------------------------
(***************************************************************************)
(* The life of a plash: each control bundle is written at most once.       *)
(***************************************************************************)
Open == status \in {"started", "pendingPulse"}

LifeInv ==
    /\ Open <=> sectionPc = "idle"
    /\ sectionPc # "closed" => pc[SectionSummary] = "idle"
    /\ Open => drops = {} /\ \A d \in Drops : pc[DropSummary(d)] = "idle"
    /\ closePc # "idle" => drops = Drops /\ ~Open
    /\ closePc \in {"idle", "summarize", "write"} => pc[PlashSummary] = "idle"
    /\ status = "pendingPulse" \/ ~Open => merkle = nodeState

(***************************************************************************)
(* The chain.  A bundle that has come to its end has told so, or is about  *)
(* to; a bundle that was refused is nowhere in the chain.                  *)
(***************************************************************************)
Ended(b) == pc[b] \in {"signal", "end"} /\ fate[b] \in {"committed", "rolledBack"}
InChain(b) == pc[b] \in Active \/ Ended(b)
Outcome(f) == IF f = "committed" THEN "ok" ELSE "rolledBack"

BundleFits(b) ==
    /\ pc[b] \in {"idle", "checked"} \cup Active => fate[b] = "none" /\ ready[b] = "open"
    /\ pc[b] = "signal" => fate[b] \in {"committed", "rolledBack"} /\ ready[b] = "open"
    /\ pc[b] = "end" /\ fate[b] # "refused" =>
          fate[b] \in {"committed", "rolledBack"} /\ ready[b] = Outcome(fate[b])
    /\ fate[b] = "refused" => pc[b] = "end" /\ ready[b] = "open"
    /\ prev[b] \in Bundles => InChain(prev[b])
    /\ pc[b] = "callback" => mutex = b /\ PrevDone(b) /\ ~Chained(b)
    /\ pc[b] \in {"idle", "checked"} => b \notin {mutex, lastReady}
    /\ mutex = b => pc[b] = "callback"

ClosureFits ==
    /\ ready[Closure] # "open" => closePc = "end"
    /\ prev[Closure] # NoBundle => closePc \in {"close", "signal"}
    /\ prev[Closure] \in Bundles => InChain(prev[Closure])
    /\ prev[Closure] # Closure
    /\ closePc = "signal" => PrevDone(Closure)
    /\ lastReady = Closure \/ (\E b \in Bundles : prev[b] = Closure) =>
          closePc \in {"close", "signal"} \/ ready[Closure] # "open"

\* The open snapshots are the bundles that are at work, each once, and each
\* waits for the one before it, or for the closure that does.
Follows(b, c) ==
    \/ prev[b] = c
    \/ prev[b] = Closure /\ ready[Closure] = "open" /\ prev[Closure] = c

InFlight(b) == \E i \in DOMAIN inFlight : inFlight[i] = b

QueueFits ==
    /\ \A b \in Bundles : pc[b] \in Active <=> InFlight(b)
    /\ \A i, j \in DOMAIN inFlight : inFlight[i] = inFlight[j] => i = j
    /\ \A i \in DOMAIN inFlight : i + 1 \in DOMAIN inFlight =>
          Follows(inFlight[i + 1], inFlight[i])
    /\ inFlight # <<>> =>
          \/ lastReady = inFlight[Len(inFlight)]
          \/ lastReady = Closure /\ ready[Closure] = "open"
                /\ prev[Closure] = inFlight[Len(inFlight)]

\* Nothing in flight is before the first open snapshot.
HeadFits ==
    inFlight # <<>> =>
        LET h == inFlight[1] IN
        /\ prev[h] \in Bundles => Ended(prev[h])
        /\ prev[h] = Closure /\ prev[Closure] \in Bundles => Ended(prev[Closure])

ChainInv ==
    /\ \A b \in Bundles : BundleFits(b)
    /\ lastReady # Closure => InChain(lastReady)
    /\ ClosureFits /\ QueueFits /\ HeadFits
    /\ \A b \in Bundles : pc[b] = "callback" => inFlight # <<>> /\ b = inFlight[1]

-----------------------------------------------------------------------------
(***************************************************************************)
(* The ordinals of a drop.  When the first open snapshot will be rolled    *)
(* back because of the one before, so will be all others; as long as it    *)
(* will not, the open snapshots have ordinals one after another.           *)
(***************************************************************************)
ClosureDoomed ==
    \/ ready[Closure] = "rolledBack"
    \/ ready[Closure] = "open" /\ prev[Closure] = NoBundle
    \/ ready[Closure] = "open" /\ prev[Closure] \in Bundles /\ fate[prev[Closure]] = "rolledBack"
Doomed(b) ==
    \/ prev[b] \in Bundles /\ fate[prev[b]] = "rolledBack"
    \/ prev[b] = Closure /\ ClosureDoomed
HeadDoomed == inFlight # <<>> /\ Doomed(inFlight[1])

OpenOf(d) == {a \in Appends : DropOf[a] = d /\ pc[a] \in Active}
CommittedOf(d) == {a \in Appends \cap Committed : DropOf[a] = d}
Numbers(a) == {dropBase[a] + i : i \in 0..(SizeOf[a] - 1)}

Behind(d, k) ==
    /\ UNION {Numbers(a) : a \in CommittedOf(d)} = 1..k
    /\ k <= dropOrder[d]
    /\ \A a \in OpenOf(d) : k < dropBase[a]
    /\ k < dropOrder[d] => \E a \in OpenOf(d) : dropBase[a] = k + 1
Ahead(d) ==
    /\ \A a \in OpenOf(d) :
          LET end == dropBase[a] + SizeOf[a] - 1
          IN /\ end <= dropOrder[d]
             /\ end < dropOrder[d] => \E b \in OpenOf(d) : dropBase[b] = end + 1
    /\ \A i, j \in DOMAIN inFlight :
          LET a == inFlight[i]
              b == inFlight[j]
          IN i < j /\ a \in OpenOf(d) /\ b \in OpenOf(d) => dropBase[a] + SizeOf[a] <= dropBase[b]

OrdinalsInv ==
    \A d \in Drops :
        /\ \E k \in Nat : Behind(d, k)
        /\ ~HeadDoomed => Ahead(d)
        /\ \A a, b \in CommittedOf(d) : a # b => Numbers(a) \cap Numbers(b) = {}

(***************************************************************************)
(* The places of the bundles in the directories of the two sections.  The  *)
(* entries up to the k-th are those of the committed bundles.  What is     *)
(* above them was taken by open snapshots, the first of them next to the   *)
(* k-th; so it is also while a broken storage still commits what was       *)
(* prepared before it broke.                                               *)
(***************************************************************************)
Sections == {"entry", "control"}
DirEntries == Bundles \cup {Reserved}

PlacesTyped ==
    /\ dir \in [Sections -> Seq(Seq(DirEntries))]
    /\ \A s \in Sections : IsDirectory(dir[s], DirEntries)
    /\ dirIndex \in [Bundles -> Nat]

EndOf(s) == GetNextDirectoryIndex(dir[s])
OpenIn(s) == {b \in Bundles : Section(b) = s /\ pc[b] \in Active}
CommittedIn(s) == {b \in Committed : Section(b) = s}
Mended == storage # "broken" \/ (inFlight # <<>> /\ ~HeadDoomed)

Below(s, k) ==
    /\ \A i \in 1..k : GetDirEntry(dir[s], i) \in CommittedIn(s)
                       /\ i \in EntriesOf(GetDirEntry(dir[s], i))
    /\ \A b \in CommittedIn(s) : \A i \in EntriesOf(b) :
          i \in 1..k /\ GetDirEntry(dir[s], i) = b
    /\ k < EndOf(s)
    /\ \A b \in OpenIn(s) : k < dirIndex[b]
    /\ k + 1 < EndOf(s) /\ Mended => \E b \in OpenIn(s) : dirIndex[b] = k + 1
Above(s) ==
    /\ \A b \in OpenIn(s) :
          LET end == dirIndex[b] + Size(b)
          IN /\ end <= EndOf(s)
             /\ \A i \in EntriesOf(b) : GetDirEntry(dir[s], i) = b
             /\ end < EndOf(s) => \E c \in OpenIn(s) : dirIndex[c] = end
    /\ \A i, j \in DOMAIN inFlight :
          LET a == inFlight[i]
              b == inFlight[j]
          IN i < j /\ a \in OpenIn(s) /\ b \in OpenIn(s) => dirIndex[a] + Size(a) <= dirIndex[b]

PlacesInv ==
    \A s \in Sections :
        /\ \E k \in Nat : Below(s, k)
        /\ ~HeadDoomed => Above(s)

-----------------------------------------------------------------------------
(***************************************************************************)
(* The bundles are told apart.                                             *)
(***************************************************************************)
LEMMA BundlesApart ==
    /\ NoBundle \notin Links /\ Closure \notin Bundles
    /\ {PlashStart, SectionSummary, PlashSummary} \subseteq Bundles \ Appends
    /\ \A d \in Drops : LineSummary(d) \in Bundles \ Appends /\ DropSummary(d) \in Bundles \ Appends
    /\ SectionSummary # PlashSummary /\ PlashStart \notin {SectionSummary, PlashSummary}
    /\ \A d \in Drops : {LineSummary(d), DropSummary(d)} \cap {PlashStart, SectionSummary, PlashSummary} = {}
    /\ \A d, e \in Drops : LineSummary(d) # DropSummary(e)
    /\ \A d, e \in Drops : DropSummary(d) = DropSummary(e) => d = e
<1>1. /\ NoBundle # Closure
      /\ PlashStart # SectionSummary /\ PlashStart # PlashSummary /\ SectionSummary # PlashSummary
      /\ {NoBundle, Closure} \cap {PlashStart, SectionSummary, PlashSummary} = {}
  BY DEF NoBundle, Closure, PlashStart, SectionSummary, PlashSummary
<1>2. ASSUME NEW d, NEW x \in {NoBundle, Closure, PlashStart, SectionSummary, PlashSummary}
      PROVE  LineSummary(d) # x /\ DropSummary(d) # x
  <2>1. Len(x) = 1 /\ Len(LineSummary(d)) = 2 /\ Len(DropSummary(d)) = 2
    BY DEF NoBundle, Closure, PlashStart, SectionSummary, PlashSummary, LineSummary, DropSummary
  <2> QED BY <2>1
<1>3. \A d, e : LineSummary(d) # DropSummary(e)
  BY DEF LineSummary, DropSummary
<1>4. \A d, e : DropSummary(d) = DropSummary(e) => d = e
  BY DEF DropSummary
<1>5. /\ NoBundle \notin Controls /\ Closure \notin Controls
      /\ {PlashStart, SectionSummary, PlashSummary} \subseteq Controls
      /\ \A d \in Drops : LineSummary(d) \in Controls /\ DropSummary(d) \in Controls
  BY <1>1, <1>2 DEF Controls
<1>6. \A b \in Controls \cup {Closure, NoBundle} : b \notin Appends
  BY BundlesAssumption
<1> QED BY <1>1, <1>2, <1>3, <1>4, <1>5, <1>6 DEF Links, Bundles

(* The open snapshots with a new one, and without the first one. *)
LEMMA QueueAppended ==
    ASSUME NEW q \in Seq(Bundles), NEW b \in Bundles
    PROVE  /\ Append(q, b) \in Seq(Bundles) /\ Append(q, b) # <<>>
           /\ Len(Append(q, b)) = Len(q) + 1
           /\ DOMAIN Append(q, b) = 1 .. Len(q) + 1
           /\ DOMAIN q = 1 .. Len(q) /\ Len(q) \in Nat
           /\ \A i \in 1 .. Len(q) : Append(q, b)[i] = q[i]
           /\ Append(q, b)[Len(q) + 1] = b
OBVIOUS

LEMMA FirstRemoved ==
    ASSUME NEW q \in Seq(Bundles), 1 \in DOMAIN q
    PROVE  /\ RemoveAt(q, 1) \in Seq(Bundles)
           /\ Len(RemoveAt(q, 1)) = Len(q) - 1
           /\ DOMAIN RemoveAt(q, 1) = 1 .. Len(q) - 1
           /\ DOMAIN q = 1 .. Len(q) /\ Len(q) \in Nat
           /\ \A i \in 1 .. Len(q) - 1 : RemoveAt(q, 1)[i] = q[i + 1]
<1>1. DOMAIN q = 1 .. Len(q) /\ Len(q) \in Nat
  OBVIOUS
<1>2. SubSeq(q, 1, 0) = <<>>
  BY SubSeqEmpty
<1> DEFINE t == SubSeq(q, 2, Len(q))
<1>3. /\ t \in Seq(Bundles) /\ Len(t) = Len(q) - 1
      /\ \A i \in 1 .. Len(q) - 1 : t[i] = q[i + 1]
  <2>1. \A i \in 2 .. Len(q) : q[i] \in Bundles
    BY <1>1
  <2>2. /\ t \in Seq(Bundles)
        /\ Len(t) = IF 2 <= Len(q) THEN Len(q) - 2 + 1 ELSE 0
        /\ \A i \in 1 .. Len(q) - 2 + 1 : t[i] = q[2 + i - 1]
    BY <1>1, <2>1, SubSeqProperties, Z3
  <2> QED BY <1>1, <2>2
<1> HIDE DEF t
<1>4. RemoveAt(q, 1) = <<>> \o t
  BY <1>2 DEF RemoveAt, t
<1>5. RemoveAt(q, 1) = t
  BY <1>3, <1>4, ConcatEmptySeq
<1>6. DOMAIN t = 1 .. Len(q) - 1
  BY <1>3
<1> QED BY <1>1, <1>3, <1>5, <1>6

(* Whose predecessor has ended is the first of the open snapshots. *)
LEMMA EndsFirst ==
    ASSUME ChainTyped, ChainInv, NEW i \in DOMAIN inFlight, PrevDone(inFlight[i])
    PROVE  i = 1
<1>1. DOMAIN inFlight = 1 .. Len(inFlight) /\ Len(inFlight) \in Nat
  BY DEF ChainTyped
<1>2. ASSUME i # 1 PROVE FALSE
  <2>1. i - 1 \in DOMAIN inFlight /\ (i - 1) + 1 = i
    BY <1>1, <1>2
  <2>2. Follows(inFlight[i], inFlight[i - 1])
    BY <2>1 DEF ChainInv, QueueFits
  <2>3. inFlight[i - 1] \in Bundles
    BY <2>1, <1>1 DEF ChainTyped
  <2>4. ready[inFlight[i - 1]] = "open"
    BY <2>1, <2>3 DEF ChainInv, QueueFits, InFlight, BundleFits
  <2> QED BY <2>2, <2>3, <2>4, BundlesApart DEF Follows, PrevDone, Links
<1> QED BY <1>2

-----------------------------------------------------------------------------
(***************************************************************************)
(* Every step keeps the chain.  A step that is no step of the closing      *)
(* goroutine leaves it where it is, or before it joins the chain.          *)
(***************************************************************************)
SameClosing ==
    closePc' = closePc \/ (closePc \notin {"close", "signal", "end"} /\ closePc' # "signal")

LEMMA ClosingKept ==
    ASSUME ChainTyped, PlashTyped, ClosureFits, SameClosing,
           UNCHANGED <<ready, prev, lastReady>>,
           \A b \in Bundles : InChain(b) => InChain(b)'
    PROVE  ClosureFits'
<1>1. CASE closePc' = closePc
  BY <1>1 DEF ChainTyped, ClosureFits, PrevDone
<1>2. CASE closePc' # closePc
  BY <1>2 DEF ChainTyped, ClosureFits, PrevDone, SameClosing
<1> QED BY <1>1, <1>2

(* Steps that leave the chain alone. *)
LEMMA ChainUnchanged ==
    ASSUME ChainTyped, PlashTyped, ChainInv, SameClosing,
           UNCHANGED <<mutex, lastReady, prev, ready, pc, fate, inFlight>>
    PROVE  ChainTyped' /\ ChainInv'
<1>1. ChainTyped'
  BY DEF ChainTyped
<1>2. ClosureFits'
  BY ClosingKept DEF ChainInv, InChain, Ended
<1>3. (\A b \in Bundles : BundleFits(b))'
  BY DEF ChainInv, BundleFits, InChain, Ended, PrevDone, Chained
<1>4. QueueFits' /\ HeadFits'
  BY DEF ChainInv, QueueFits, HeadFits, InFlight, Follows, Ended
<1> QED BY <1>1, <1>2, <1>3, <1>4 DEF ChainInv, InChain, Ended

(* A call that has not written its bundle goes on, or is refused. *)
LEMMA CallMoves ==
    ASSUME ChainTyped, PlashTyped, ChainInv, SameClosing, NEW b \in Bundles,
           pc[b] \in {"idle", "checked"},
           \/ pc' = [pc EXCEPT ![b] = "checked"] /\ UNCHANGED fate
           \/ pc' = [pc EXCEPT ![b] = "end"] /\ fate' = [fate EXCEPT ![b] = "refused"],
           UNCHANGED <<mutex, lastReady, prev, ready, inFlight>>
    PROVE  ChainTyped' /\ ChainInv'
<1>1. ChainTyped'
  BY DEF ChainTyped
<1>2. \A c \in Bundles : c # b => pc'[c] = pc[c] /\ fate'[c] = fate[c]
  BY DEF ChainTyped
<1>3. pc'[b] \in {"checked", "end"} /\ (pc'[b] = "checked" => fate'[b] = fate[b])
      /\ (pc'[b] = "end" => fate'[b] = "refused")
  BY DEF ChainTyped
<1>4. ~InChain(b) /\ fate[b] = "none" /\ ready[b] = "open" /\ b \notin {mutex, lastReady}
  BY DEF ChainInv, BundleFits, InChain, Ended, Active
<1>5. \A c \in Bundles : InChain(c) => InChain(c)' /\ c # b
  BY <1>2, <1>4 DEF InChain, Ended
<1>6. \A c \in Bundles : Ended(c) => Ended(c)'
  BY <1>2, <1>4 DEF InChain, Ended
<1>7. ClosureFits'
  BY <1>5, ClosingKept DEF ChainInv
<1>8. ASSUME NEW c \in Bundles PROVE BundleFits(c)'
  <2>1. prev'[c] \in Bundles => InChain(prev[c])'
    BY <1>5 DEF ChainInv, BundleFits
  <2>2. CASE c = b
    BY <2>1, <2>2, <1>3, <1>4 DEF ChainInv, BundleFits, Active
  <2>3. CASE c # b
    BY <2>1, <2>3, <1>2 DEF ChainInv, BundleFits, PrevDone, Chained
  <2> QED BY <2>2, <2>3
<1>9. QueueFits'
  <2>1. \A c \in Bundles : pc'[c] \in Active <=> pc[c] \in Active
    BY <1>2, <1>3 DEF Active
  <2> QED BY <2>1 DEF ChainInv, QueueFits, InFlight, Follows
<1>10. HeadFits'
  BY <1>6 DEF ChainInv, HeadFits, ChainTyped
<1>11. (\A c \in Bundles : pc[c] = "callback" => inFlight # <<>> /\ c = inFlight[1])'
  BY <1>2, <1>3 DEF ChainInv
<1>12. lastReady' # Closure => InChain(lastReady)'
  BY <1>5 DEF ChainInv, ChainTyped, Links
<1> QED BY <1>1, <1>7, <1>8, <1>9, <1>10, <1>11, <1>12 DEF ChainInv

(* The goroutine of a bundle goes on. *)
LEMMA GoroutineMoves ==
    ASSUME ChainTyped, PlashTyped, ChainInv, SameClosing, NEW b \in Bundles,
           pc[b] \in {"apply", "wait"}, NEW next \in {"wait", "rollback", "callback"},
           pc' = [pc EXCEPT ![b] = next],
           next = "callback" => mutex = NoBundle /\ mutex' = b /\ PrevDone(b) /\ ~Chained(b),
           next # "callback" => mutex' = mutex,
           UNCHANGED <<fate, lastReady, prev, ready, inFlight>>
    PROVE  ChainTyped' /\ ChainInv'
<1>1. ChainTyped'
  BY DEF ChainTyped, Active
<1>2. \A c \in Bundles : c # b => pc'[c] = pc[c]
  BY DEF ChainTyped
<1>3. pc'[b] = next /\ next \in Active /\ pc[b] \in Active
  BY DEF ChainTyped, Active
<1>4. \A c \in Bundles : (InChain(c) => InChain(c)') /\ (Ended(c) => Ended(c)')
  BY <1>2, <1>3 DEF InChain, Ended, Active
<1>5. ClosureFits'
  BY <1>4, ClosingKept DEF ChainInv
<1>6. mutex # b
  BY DEF ChainInv, BundleFits
<1>7. ASSUME NEW c \in Bundles PROVE BundleFits(c)'
  <2>1. prev'[c] \in Bundles => InChain(prev[c])'
    BY <1>4 DEF ChainInv, BundleFits
  <2>2. fate'[c] = fate[c] /\ ready'[c] = ready[c] /\ prev'[c] = prev[c]
        /\ (PrevDone(c)' <=> PrevDone(c)) /\ (Chained(c)' <=> Chained(c))
    BY DEF PrevDone, Chained
  <2>3. CASE c = b
    BY <2>1, <2>2, <2>3, <1>3, <1>6, BundlesApart DEF ChainInv, BundleFits, Active, Links
  <2>4. CASE c # b
    <3>1. mutex' = c <=> mutex = c
      BY <2>4, BundlesApart DEF Links
    <3>2. BundleFits(c)
      BY DEF ChainInv
    <3> QED BY <2>1, <2>2, <2>4, <3>1, <3>2, <1>2 DEF BundleFits
  <2> QED BY <2>3, <2>4
<1>8. QueueFits'
  <2>1. \A c \in Bundles : pc'[c] \in Active <=> pc[c] \in Active
    BY <1>2, <1>3
  <2> QED BY <2>1 DEF ChainInv, QueueFits, InFlight, Follows
<1>9. HeadFits'
  BY <1>4 DEF ChainInv, HeadFits, ChainTyped
<1>10. ASSUME NEW c \in Bundles, pc'[c] = "callback"
       PROVE  inFlight # <<>> /\ c = inFlight[1]
  <2>1. CASE c # b
    BY <2>1, <1>2, <1>10 DEF ChainInv
  <2>2. CASE c = b
    <3>1. next = "callback"
      BY <2>2, <1>10, <1>3
    <3>2. PICK i \in DOMAIN inFlight : inFlight[i] = b
      BY <1>3 DEF ChainInv, QueueFits, InFlight
    <3>3. i = 1
      BY <3>1, <3>2, EndsFirst
    <3> QED BY <2>2, <3>2, <3>3 DEF ChainTyped
  <2> QED BY <2>1, <2>2
<1>11. lastReady' # Closure => InChain(lastReady)'
  BY <1>4 DEF ChainInv, ChainTyped, Links
<1> QED BY <1>1, <1>5, <1>7, <1>8, <1>9, <1>10, <1>11 DEF ChainInv

(* A new bundle joins the chain, behind the last one. *)
LEMMA BundleWritten ==
    ASSUME ChainTyped, PlashTyped, ChainInv, SameClosing, NEW b \in Bundles,
           pc[b] \in {"idle", "checked"}, mutex = NoBundle,
           pc' = [pc EXCEPT ![b] = "apply"],
           prev' = [prev EXCEPT ![b] = PrepareWait],
           lastReady' = b, inFlight' = Append(inFlight, b),
           UNCHANGED <<mutex, fate, ready>>
    PROVE  ChainTyped' /\ ChainInv'
<1> DEFINE q == inFlight
           n == Len(inFlight)
<1>1. PrepareWait \in Links \cup {NoBundle}
  BY DEF PrepareWait, ChainTyped
<1>2. ChainTyped'
  BY <1>1, QueueAppended DEF ChainTyped, Active, Links
<1>3. \A c \in Bundles : c # b => pc'[c] = pc[c] /\ prev'[c] = prev[c]
  BY DEF ChainTyped, Links
<1>4. pc'[b] = "apply" /\ prev'[b] = PrepareWait /\ prev'[Closure] = prev[Closure]
  BY BundlesApart DEF ChainTyped, Links
<1>5. ~InChain(b) /\ fate[b] = "none" /\ ready[b] = "open" /\ b # lastReady
  BY DEF ChainInv, BundleFits, InChain, Ended, Active
<1>6. \A c \in Bundles : (InChain(c) => InChain(c)') /\ (Ended(c) => Ended(c)' /\ c # b)
  BY <1>3, <1>5 DEF InChain, Ended
<1>7. \A c \in Bundles : prev[c] # b /\ prev[Closure] # b
  BY <1>5, BundlesApart DEF ChainInv, BundleFits, ClosureFits
<1>8. lastReady # Closure => lastReady \in Bundles /\ InChain(lastReady)
  BY DEF ChainInv, ChainTyped, Links
<1>9. PrepareWait \in {NoBundle, lastReady}
  BY DEF PrepareWait
<1>10. ASSUME NEW c \in Bundles PROVE BundleFits(c)'
  <2>1. prev'[c] \in Bundles => InChain(prev[c])'
    <3>1. ASSUME prev'[c] \in Bundles PROVE InChain(prev'[c])
      <4>1. CASE c = b
        BY <3>1, <4>1, <1>4, <1>8, <1>9, BundlesApart DEF Links
      <4>2. CASE c # b
        BY <3>1, <4>2, <1>3 DEF ChainInv, BundleFits
      <4> QED BY <4>1, <4>2
    <3>2. ASSUME NEW e \in Bundles, e = prev'[c] PROVE InChain(prev[c])'
      BY <3>1, <3>2, <1>6 DEF InChain, Ended
    <3> QED BY <3>2
  <2>2. CASE c = b
    BY <2>1, <2>2, <1>4, <1>5, BundlesApart DEF BundleFits, Active, Links, InChain, Ended
  <2>3. CASE c # b
    <3>1. BundleFits(c)
      BY DEF ChainInv
    <3>2. pc'[c] = pc[c] /\ fate'[c] = fate[c] /\ ready'[c] = ready[c]
          /\ (PrevDone(c)' <=> PrevDone(c)) /\ (Chained(c)' <=> Chained(c))
      BY <2>3, <1>3 DEF PrevDone, Chained
    <3>3. lastReady' # c
      BY <2>3
    <3> QED BY <2>1, <3>1, <3>2, <3>3 DEF BundleFits
  <2> QED BY <2>2, <2>3
<1>11. ClosureFits'
  <2>1. \E c \in Bundles : prev'[c] = Closure => lastReady = Closure \/ prev[c] = Closure
    BY <1>3, <1>4, <1>9, BundlesApart DEF Links
  <2>2. ASSUME NEW c \in Bundles, prev'[c] = Closure
        PROVE  lastReady = Closure \/ (\E e \in Bundles : prev[e] = Closure)
    BY <2>2, <1>3, <1>4, <1>9, BundlesApart DEF Links
  <2>3. PrevDone(Closure)' <=> PrevDone(Closure)
    BY <1>4 DEF PrevDone
  <2>4. prev[Closure] \in Bundles => InChain(prev[Closure])'
    BY <1>4, <1>6 DEF ChainInv, ClosureFits, InChain, Ended
  <2>5. lastReady' # Closure
    BY BundlesApart
  <2>6. CASE closePc' = closePc
    BY <2>2, <2>3, <2>4, <2>5, <2>6, <1>4 DEF ChainInv, ClosureFits
  <2>7. CASE closePc' # closePc
    BY <2>2, <2>3, <2>4, <2>5, <2>7, <1>4 DEF ChainInv, ClosureFits, SameClosing
  <2> QED BY <2>6, <2>7
<1>12. /\ q \in Seq(Bundles) /\ DOMAIN q = 1 .. n /\ n \in Nat
       /\ DOMAIN inFlight' = 1 .. n + 1 /\ Len(inFlight') = n + 1 /\ inFlight' # <<>>
       /\ \A i \in 1 .. n : inFlight'[i] = q[i] /\ q[i] \in Bundles
       /\ inFlight'[n + 1] = b
  BY QueueAppended DEF ChainTyped
<1>13. \A i \in 1 .. n : q[i] # b
  BY <1>12 DEF ChainInv, QueueFits, InFlight, Active
<1>14. QueueFits'
  <2>1. ASSUME NEW c \in Bundles PROVE pc'[c] \in Active <=> InFlight(c)'
    <3>1. InFlight(c)' <=> c = b \/ InFlight(c)
      BY <1>12 DEF InFlight
    <3> QED BY <3>1, <1>3, <1>4 DEF ChainInv, QueueFits, Active
  <2>2. ASSUME NEW i \in DOMAIN inFlight', NEW j \in DOMAIN inFlight', inFlight'[i] = inFlight'[j]
        PROVE  i = j
    BY <2>2, <1>12, <1>13 DEF ChainInv, QueueFits
  <2>3. ASSUME NEW i \in 1 .. n + 1, i + 1 \in 1 .. n + 1
        PROVE  Follows(inFlight[i + 1], inFlight[i])'
    <3>3. n \in Nat
      BY <1>12
    <3>4. i \in Nat /\ 1 <= i /\ i <= n
      BY <3>3, <2>3
    <3>1. CASE i < n
      <4>1. i \in DOMAIN q /\ i + 1 \in DOMAIN q
        BY <3>1, <1>12
      <4>2. Follows(q[i + 1], q[i])
        BY <4>1 DEF ChainInv, QueueFits
      <4> QED BY <4>1, <4>2, <1>3, <1>4, <1>12, <1>13 DEF Follows
    <3>2. CASE i >= n
      <4>7. i = n /\ n \in 1 .. n
        BY <3>2, <3>3, <3>4
      <4>1. i = n /\ n \in 1 .. n /\ q # <<>>
        BY <4>7, <1>12
      <4>5. n \in DOMAIN q /\ q[n] \in Bundles /\ n + 1 = i + 1
        BY <4>1, <1>12
      <4>2. ready[q[n]] = "open"
        BY <4>5 DEF ChainInv, QueueFits, InFlight, BundleFits
      <4>3. \/ lastReady = q[n]
            \/ lastReady = Closure /\ ready[Closure] = "open" /\ prev[Closure] = q[n]
        BY <4>1 DEF ChainInv, QueueFits
      <4>4. PrepareWait = lastReady
        BY <4>2, <4>3, <4>5, BundlesApart DEF PrepareWait, Links
      <4>6. inFlight'[i] = q[n] /\ inFlight'[i + 1] = b
        BY <4>1, <1>12
      <4> QED BY <4>3, <4>4, <4>6, <1>4 DEF Follows
    <3> QED BY <3>1, <3>2, <3>3, <3>4
  <2>4. lastReady' = inFlight'[Len(inFlight')]
    BY <1>12
  <2> QED BY <2>1, <2>2, <2>3, <2>4, <1>12 DEF QueueFits
<1>15. HeadFits'
  <2>1. CASE q # <<>>
    <3>1. 1 \in 1 .. n /\ inFlight'[1] = q[1] /\ q[1] # b
      BY <2>1, <1>12, <1>13
    <3> QED BY <2>1, <3>1, <1>3, <1>4, <1>6, <1>12 DEF ChainInv, HeadFits
  <2>2. CASE q = <<>>
    <3>1. n = 0 /\ inFlight'[1] = b
      BY <2>2, <1>12
    <3>2. \A c \in Bundles : InChain(c) => Ended(c)
      BY <3>1, <1>12 DEF ChainInv, QueueFits, InFlight, InChain
    <3>3. prev'[b] \in Bundles => Ended(prev'[b])
      BY <3>2, <1>4, <1>8, <1>9, BundlesApart DEF Links
    <3>4. prev[Closure] \in Bundles => Ended(prev[Closure])
      BY <3>2 DEF ChainInv, ClosureFits
    <3> QED BY <3>1, <3>3, <3>4, <1>4, <1>6 DEF HeadFits
  <2> QED BY <2>1, <2>2
<1>16. \A c \in Bundles : pc'[c] # "callback"
  BY <1>3, <1>4, BundlesApart DEF ChainInv, BundleFits, Links
<1>17. InChain(lastReady)'
  BY <1>4 DEF InChain, Active
<1> QED BY <1>2, <1>10, <1>11, <1>14, <1>15, <1>16, <1>17 DEF ChainInv

(* The first of the open snapshots ends. *)
LEMMA BundleEnded ==
    ASSUME ChainTyped, PlashTyped, ChainInv, SameClosing, NEW b \in Bundles,
           pc[b] \in {"callback", "rollback"}, PrevDone(b),
           pc[b] = "rollback" => mutex = NoBundle,
           NEW end \in {"committed", "rolledBack"}, EndSnapshot(b, end)
    PROVE  /\ ChainTyped' /\ ChainInv'
           /\ 1 \in DOMAIN inFlight /\ inFlight[1] = b /\ inFlight' = RemoveAt(inFlight, 1)
<1> DEFINE q == inFlight
           n == Len(inFlight)
<1>1. PICK i \in DOMAIN q : q[i] = b /\ inFlight' = RemoveAt(q, i)
  BY DEF EndSnapshot
<1>2. i = 1
  BY <1>1, EndsFirst
<1>3. 1 \in DOMAIN q /\ q[1] = b /\ inFlight' = RemoveAt(q, 1)
  BY <1>1, <1>2
<1>4. /\ q \in Seq(Bundles) /\ DOMAIN q = 1 .. n /\ n \in Nat
      /\ inFlight' \in Seq(Bundles)
      /\ DOMAIN inFlight' = 1 .. n - 1 /\ Len(inFlight') = n - 1
      /\ \A j \in 1 .. n - 1 : inFlight'[j] = q[j + 1] /\ q[j + 1] \in Bundles
      /\ inFlight' # <<>> => n - 1 \in 1 .. n - 1
  BY <1>3, FirstRemoved DEF ChainTyped
<1>5. ChainTyped'
  BY <1>4 DEF ChainTyped, EndSnapshot, Active
<1>6. \A c \in Bundles : c # b => pc'[c] = pc[c] /\ fate'[c] = fate[c]
  BY DEF ChainTyped, EndSnapshot
<1>7. pc'[b] = "signal" /\ fate'[b] = end /\ mutex' = NoBundle
      /\ UNCHANGED <<lastReady, prev, ready>>
  BY DEF ChainTyped, EndSnapshot
<1>8. Ended(b)'
  BY <1>7 DEF Ended
<1>9. \A c \in Bundles : (InChain(c) => InChain(c)') /\ (Ended(c) => Ended(c)')
  BY <1>6, <1>8 DEF InChain, Ended
<1>10. ClosureFits'
  BY <1>7, <1>9, ClosingKept DEF ChainInv
<1>11. pc[b] \in Active /\ ready[b] = "open"
  BY DEF ChainInv, BundleFits, Active
<1>12. ASSUME NEW c \in Bundles PROVE BundleFits(c)'
  <2>1. prev'[c] \in Bundles => InChain(prev[c])'
    BY <1>7, <1>9 DEF ChainInv, BundleFits
  <2>2. CASE c = b
    BY <2>1, <2>2, <1>7, <1>11, BundlesApart DEF BundleFits, Active, Links
  <2>3. CASE c # b
    <3>1. pc'[c] # "callback"
      BY <2>3, <1>6, BundlesApart DEF ChainInv, BundleFits, Links
    <3> QED BY <2>1, <2>3, <3>1, <1>6, <1>7, BundlesApart DEF ChainInv, BundleFits, Links
  <2> QED BY <2>2, <2>3
<1>13. QueueFits'
  <2>1. ASSUME NEW c \in Bundles PROVE pc'[c] \in Active <=> InFlight(c)'
    <3>1. ASSUME InFlight(c)' PROVE InFlight(c) /\ c # b
      <4>1. PICK j \in 1 .. n - 1 : inFlight'[j] = c
        BY <3>1, <1>4 DEF InFlight
      <4>2. j + 1 \in DOMAIN q /\ j + 1 # 1 /\ q[j + 1] = c
        BY <4>1, <1>4
      <4> QED BY <4>2, <1>3 DEF InFlight, ChainInv, QueueFits
    <3>2. ASSUME InFlight(c), c # b PROVE InFlight(c)'
      <4>1. PICK j \in 1 .. n : q[j] = c
        BY <3>2, <1>4 DEF InFlight
      <4>2. j - 1 \in 1 .. n - 1 /\ inFlight'[j - 1] = q[(j - 1) + 1] /\ (j - 1) + 1 = j
        BY <4>1, <3>2, <1>3, <1>4
      <4> QED BY <4>1, <4>2, <1>4 DEF InFlight
    <3> QED BY <3>1, <3>2, <1>6, <1>7 DEF ChainInv, QueueFits, Active
  <2>2. ASSUME NEW k \in DOMAIN inFlight', NEW j \in DOMAIN inFlight', inFlight'[k] = inFlight'[j]
        PROVE  k = j
    <3>1. k + 1 \in DOMAIN q /\ j + 1 \in DOMAIN q /\ q[k + 1] = q[j + 1]
      BY <2>2, <1>4
    <3> QED BY <3>1, <1>4 DEF ChainInv, QueueFits
  <2>3. ASSUME NEW j \in 1 .. n - 1, j + 1 \in 1 .. n - 1
        PROVE  Follows(inFlight[j + 1], inFlight[j])'
    <3>1. j + 1 \in DOMAIN q /\ (j + 1) + 1 \in DOMAIN q
      BY <2>3, <1>4
    <3>2. Follows(q[(j + 1) + 1], q[j + 1])
      BY <3>1 DEF ChainInv, QueueFits
    <3> QED BY <2>3, <3>2, <1>4, <1>7 DEF Follows
  <2>4. ASSUME inFlight' # <<>>
        PROVE  inFlight'[Len(inFlight')] = q[n] /\ q # <<>>
    BY <2>4, <1>3, <1>4
  <2>5. inFlight' # <<>> =>
          \/ lastReady' = inFlight'[Len(inFlight')]
          \/ lastReady' = Closure /\ ready'[Closure] = "open"
                /\ prev'[Closure] = inFlight'[Len(inFlight')]
    BY <2>4, <1>7 DEF ChainInv, QueueFits
  <2> QED BY <2>1, <2>2, <2>3, <2>5, <1>4 DEF QueueFits
<1>14. HeadFits'
  <2>1. ASSUME inFlight' # <<>>, NEW h, h = inFlight'[1]
        PROVE  /\ prev'[h] \in Bundles => Ended(prev[h])'
               /\ prev'[h] = Closure /\ prev'[Closure] \in Bundles => Ended(prev[Closure])'
    <3>1. 1 \in DOMAIN q /\ 1 + 1 \in DOMAIN q /\ h = q[1 + 1]
      BY <2>1, <1>3, <1>4
    <3>2. Follows(h, b)
      BY <3>1, <1>3 DEF ChainInv, QueueFits
    <3>3. /\ prev'[h] = b \/ (prev'[h] = Closure /\ prev'[Closure] = b)
          /\ Closure \notin Bundles
      BY <3>2, <1>7, BundlesApart DEF Follows
    <3> QED BY <3>3, <1>7 DEF Ended
  <2> QED BY <2>1 DEF HeadFits
<1>15. \A c \in Bundles : pc'[c] # "callback"
  BY <1>6, <1>7, BundlesApart DEF ChainInv, BundleFits, Links
<1>16. lastReady' # Closure => InChain(lastReady)'
  BY <1>7, <1>9 DEF ChainInv, ChainTyped, Links
<1>17. ChainInv'
  BY <1>10, <1>12, <1>13, <1>14, <1>15, <1>16 DEF ChainInv
<1> QED BY <1>3, <1>5, <1>17

(* A bundle tells the next one how it has ended. *)
LEMMA BundleSignals ==
    ASSUME ChainTyped, PlashTyped, ChainInv, SameClosing, NEW b \in Bundles, SignalNext(b)
    PROVE  ChainTyped' /\ ChainInv'
<1>1. ChainTyped'
  BY BundlesApart DEF ChainTyped, SignalNext, Links
<1>2. \A c \in Links : c # b => ready'[c] = ready[c] /\ prev'[c] = prev[c]
  BY DEF ChainTyped, SignalNext
<1>3. \A c \in Bundles : c # b => pc'[c] = pc[c]
  BY DEF ChainTyped, SignalNext
<1>4. /\ pc[b] = "signal" /\ pc'[b] = "end" /\ prev'[b] = NoBundle /\ fate' = fate
      /\ ready'[b] = Outcome(fate[b]) /\ UNCHANGED <<mutex, lastReady, inFlight>>
  BY DEF ChainTyped, SignalNext, Links, Outcome
<1>5. Closure # b /\ Closure \in Links /\ Bundles \subseteq Links
  BY BundlesApart DEF Links
<1>6. fate[b] \in {"committed", "rolledBack"} /\ ready[b] = "open"
  BY <1>4 DEF ChainInv, BundleFits
<1>7. ready'[b] \in {"ok", "rolledBack"}
  BY <1>4 DEF Outcome
<1>8. \A c \in Bundles : (InChain(c) => InChain(c)') /\ (Ended(c) => Ended(c)')
                         /\ (pc'[c] \in Active <=> pc[c] \in Active)
  BY <1>3, <1>4 DEF InChain, Ended, Active
<1>9. ASSUME NEW c \in Bundles PROVE BundleFits(c)'
  <2>1. CASE c = b
    BY <2>1, <1>4, <1>6, BundlesApart DEF ChainInv, BundleFits, Active, Links
  <2>2. CASE c # b
    <3>1. prev'[c] = prev[c] /\ ready'[c] = ready[c] /\ pc'[c] = pc[c] /\ BundleFits(c)
      BY <2>2, <1>2, <1>3, <1>5 DEF ChainInv
    <3>2. prev'[c] \in Bundles => InChain(prev[c])'
      BY <3>1, <1>8 DEF BundleFits, InChain, Ended
    <3>3. ASSUME pc[c] = "callback" PROVE PrevDone(c)' /\ ~Chained(c)'
      <4>1. PrevDone(c) /\ ~Chained(c)
        BY <3>1, <3>3 DEF BundleFits
      <4>2. CASE prev[c] = NoBundle
        BY <3>1, <4>2 DEF PrevDone, Chained
      <4>3. CASE prev[c] # NoBundle
        <5>1. prev[c] \in Links /\ prev[c] # b
          BY <4>1, <4>3, <1>6, <1>5 DEF ChainTyped, PrevDone
        <5> QED BY <3>1, <4>1, <5>1, <1>2 DEF PrevDone, Chained
      <4> QED BY <4>2, <4>3
    <3> QED BY <3>1, <3>2, <3>3, <1>4 DEF BundleFits
  <2> QED BY <2>1, <2>2
<1>10. ClosureFits'
  <2>1. prev[Closure] \in Bundles => InChain(prev[Closure])'
    BY <1>2, <1>5, <1>8 DEF ChainInv, ClosureFits, InChain, Ended
  <2>2. \A c \in Bundles : prev'[c] = Closure => prev[c] = Closure
    BY <1>2, <1>4, <1>5, BundlesApart DEF Links
  <2>3. PrevDone(Closure) => PrevDone(Closure)'
    <3>1. CASE prev[Closure] = b
      BY <3>1, <1>6, <1>2, <1>5, BundlesApart DEF PrevDone, Links
    <3>2. CASE prev[Closure] # b
      BY <3>2, <1>2, <1>5 DEF PrevDone, ChainTyped
    <3> QED BY <3>1, <3>2
  <2>4. ready'[Closure] = ready[Closure] /\ prev'[Closure] = prev[Closure]
    BY <1>2, <1>5
  <2>5. closePc' = closePc
    BY DEF SignalNext, summaryVars
  <2> QED BY <2>1, <2>2, <2>3, <2>4, <2>5, <1>4 DEF ChainInv, ClosureFits
<1>11. \A i \in DOMAIN inFlight : inFlight[i] \in Bundles /\ inFlight[i] # b
  <2>1. \A i \in DOMAIN inFlight : inFlight[i] \in Bundles
    BY DEF ChainTyped
  <2>2. ~InFlight(b)
    BY <1>4 DEF ChainInv, QueueFits, Active
  <2> QED BY <2>1, <2>2 DEF InFlight
<1>12. QueueFits'
  <2>1. ASSUME NEW i \in DOMAIN inFlight, i + 1 \in DOMAIN inFlight
        PROVE  Follows(inFlight[i + 1], inFlight[i])'
    <3>1. Follows(inFlight[i + 1], inFlight[i])
      BY <2>1 DEF ChainInv, QueueFits
    <3> QED BY <2>1, <3>1, <1>2, <1>4, <1>5, <1>11 DEF Follows
  <2>2. ready'[Closure] = ready[Closure] /\ prev'[Closure] = prev[Closure]
    BY <1>2, <1>5
  <2> QED BY <2>1, <2>2, <1>4, <1>8 DEF ChainInv, QueueFits, InFlight
<1>13. HeadFits'
  <2>1. ASSUME inFlight # <<>>, NEW h, h = inFlight[1]
        PROVE  /\ prev'[h] \in Bundles => Ended(prev[h])'
               /\ prev'[h] = Closure /\ prev'[Closure] \in Bundles => Ended(prev[Closure])'
    <3>1. 1 \in DOMAIN inFlight
      BY <2>1 DEF ChainTyped
    <3>2. prev'[h] = prev[h] /\ prev'[Closure] = prev[Closure]
      BY <2>1, <3>1, <1>2, <1>5, <1>11
    <3>3. /\ prev[h] \in Bundles => Ended(prev[h])
          /\ prev[h] = Closure /\ prev[Closure] \in Bundles => Ended(prev[Closure])
      BY <2>1 DEF ChainInv, HeadFits
    <3> QED BY <3>2, <3>3, <1>8 DEF Ended
  <2> QED BY <2>1, <1>4 DEF HeadFits
<1>14. \A c \in Bundles : pc'[c] = "callback" => inFlight' # <<>> /\ c = inFlight'[1]
  BY <1>3, <1>4 DEF ChainInv
<1>15. lastReady' # Closure => InChain(lastReady)'
  BY <1>4, <1>8 DEF ChainInv, ChainTyped, Links, InChain, Ended
<1> QED BY <1>1, <1>9, <1>10, <1>12, <1>13, <1>14, <1>15 DEF ChainInv

(* The closure joins the chain. *)
LEMMA ClosureWaits ==
    ASSUME ChainTyped, PlashTyped, ChainInv, WaitWriteBundlesAsync
    PROVE  ChainTyped' /\ ChainInv'
<1>1. PrepareWait \in {NoBundle, lastReady}
  BY DEF PrepareWait
<1>2. ChainTyped'
  BY <1>1 DEF ChainTyped, WaitWriteBundlesAsync, Links
<1>3. \A c \in Bundles : prev'[c] = prev[c] /\ prev[c] # Closure
  BY BundlesApart DEF ChainTyped, ChainInv, ClosureFits, WaitWriteBundlesAsync, Links
<1>4. /\ prev'[Closure] = PrepareWait /\ lastReady' = Closure /\ closePc' = "close"
      /\ UNCHANGED <<mutex, ready, pc, fate, inFlight>>
      /\ closePc = "wait" /\ ready[Closure] = "open" /\ lastReady # Closure
  BY DEF ChainTyped, ChainInv, ClosureFits, WaitWriteBundlesAsync, Links
<1>5. \A c \in Bundles : (InChain(c)' <=> InChain(c)) /\ (Ended(c)' <=> Ended(c))
  BY <1>4 DEF InChain, Ended
<1>6. ASSUME NEW c \in Bundles PROVE BundleFits(c)'
  <2>1. prev'[c] \in Bundles => InChain(prev[c])'
    BY <1>3, <1>4 DEF ChainInv, BundleFits, InChain, Ended
  <2>2. PrevDone(c)' = PrevDone(c) /\ Chained(c)' = Chained(c)
    BY <1>3, <1>4 DEF PrevDone, Chained
  <2>3. c # lastReady'
    BY <1>4, BundlesApart
  <2>4. BundleFits(c)
    BY DEF ChainInv
  <2> QED BY <2>1, <2>2, <2>3, <2>4, <1>3, <1>4 DEF BundleFits
<1>7. ClosureFits'
  <2>1. prev'[Closure] # Closure
    BY <1>1, <1>4, BundlesApart DEF Links
  <2>2. prev'[Closure] \in Bundles => InChain(prev[Closure])'
    BY <1>1, <1>4, BundlesApart DEF ChainInv, InChain, Ended, Links
  <2> QED BY <2>1, <2>2, <1>4 DEF ClosureFits
<1>8. \A i \in DOMAIN inFlight : inFlight[i] \in Bundles
  BY DEF ChainTyped
<1>9. QueueFits'
  <2>1. ASSUME NEW i \in DOMAIN inFlight, i + 1 \in DOMAIN inFlight
        PROVE  Follows(inFlight[i + 1], inFlight[i])'
    <3>1. Follows(inFlight[i + 1], inFlight[i])
      BY <2>1 DEF ChainInv, QueueFits
    <3> QED BY <2>1, <3>1, <1>3, <1>4, <1>8 DEF Follows
  <2>2. ASSUME inFlight # <<>> PROVE prev'[Closure] = inFlight[Len(inFlight)]
    <3>1. Len(inFlight) \in DOMAIN inFlight
      BY <2>2 DEF ChainTyped
    <3>2. lastReady = inFlight[Len(inFlight)]
      BY <2>2, <1>4 DEF ChainInv, QueueFits
    <3>3. ready[lastReady] = "open"
      BY <3>1, <3>2, <1>8 DEF ChainInv, QueueFits, InFlight, BundleFits
    <3> QED BY <3>1, <3>2, <3>3, <1>4, <1>8, BundlesApart DEF PrepareWait, Links
  <2> QED BY <2>1, <2>2, <1>4 DEF ChainInv, QueueFits, InFlight
<1>10. HeadFits'
  <2>1. ASSUME inFlight # <<>>, NEW h, h = inFlight[1]
        PROVE  prev'[h] # Closure /\ (prev'[h] \in Bundles => Ended(prev[h])')
    <3>1. h \in Bundles
      BY <2>1, <1>8 DEF ChainTyped
    <3>2. prev[h] \in Bundles => Ended(prev[h])
      BY <2>1 DEF ChainInv, HeadFits
    <3> QED BY <3>1, <3>2, <1>3, <1>5 DEF Ended
  <2> QED BY <2>1, <1>4 DEF HeadFits
<1> QED BY <1>2, <1>4, <1>6, <1>7, <1>9, <1>10 DEF ChainInv

(* The closure is called when the bundle before it has ended. *)
LEMMA ClosureCalled ==
    ASSUME ChainTyped, PlashTyped, ChainInv, ClosePlash
    PROVE  ChainTyped' /\ ChainInv'
<1>1. UNCHANGED <<mutex, lastReady, prev, ready, pc, fate, inFlight>>
      /\ closePc = "close" /\ closePc' = "signal" /\ PrevDone(Closure)
  BY DEF ClosePlash, writerVars
<1>2. ChainTyped'
  BY <1>1 DEF ChainTyped
<1>3. \A b \in Bundles : BundleFits(b)'
  BY <1>1 DEF ChainInv, BundleFits, InChain, Ended, PrevDone, Chained
<1>4. QueueFits' /\ HeadFits'
  BY <1>1 DEF ChainInv, QueueFits, HeadFits, InFlight, Follows, Ended
<1>5. ClosureFits'
  BY <1>1 DEF ChainInv, ClosureFits, PrevDone, InChain, Ended
<1> QED BY <1>1, <1>2, <1>3, <1>4, <1>5 DEF ChainInv, InChain, Ended

(* The closure passes on how the bundle before it has ended. *)
LEMMA ClosureSignals ==
    ASSUME ChainTyped, PlashTyped, ChainInv, SignalClosure
    PROVE  ChainTyped' /\ ChainInv'
<1>1. ChainTyped'
  BY DEF ChainTyped, SignalClosure, Links
<1>2. \A c \in Bundles : ready'[c] = ready[c] /\ prev'[c] = prev[c]
  BY BundlesApart DEF ChainTyped, SignalClosure, Links
<1>3. /\ ready'[Closure] \in {"ok", "rolledBack"} /\ prev'[Closure] = NoBundle
      /\ closePc = "signal" /\ closePc' = "end" /\ ready[Closure] = "open"
      /\ UNCHANGED <<mutex, lastReady, pc, fate, inFlight>>
  BY DEF ChainTyped, SignalClosure, Links, ChainInv, ClosureFits
<1>4. \A c \in Bundles : (InChain(c)' <=> InChain(c)) /\ (Ended(c)' <=> Ended(c))
  BY <1>3 DEF InChain, Ended
<1>5. ASSUME NEW c \in Bundles PROVE BundleFits(c)'
  <2>1. BundleFits(c)
    BY DEF ChainInv
  <2>2. prev'[c] \in Bundles => InChain(prev[c])'
    BY <2>1, <1>2, <1>3 DEF BundleFits, InChain, Ended
  <2>3. ASSUME pc[c] = "callback" PROVE PrevDone(c)' /\ ~Chained(c)'
    <3>1. PrevDone(c) /\ ~Chained(c)
      BY <2>1, <2>3 DEF BundleFits
    <3>2. prev[c] # Closure
      BY <3>1, <1>3, BundlesApart DEF PrevDone, Links
    <3>3. prev[c] \in Bundles \cup {NoBundle}
      BY <3>2 DEF ChainTyped, Links
    <3> QED BY <3>1, <3>3, <1>2 DEF PrevDone, Chained
  <2> QED BY <2>1, <2>2, <2>3, <1>2, <1>3 DEF BundleFits
<1>6. ClosureFits'
  BY <1>3, BundlesApart DEF ClosureFits, PrevDone, Links
<1>7. ASSUME NEW i \in DOMAIN inFlight PROVE prev[Closure] # inFlight[i]
  <2>1. inFlight[i] \in Bundles /\ InFlight(inFlight[i])
    BY DEF ChainTyped, InFlight
  <2>2. ready[inFlight[i]] = "open"
    BY <2>1 DEF ChainInv, QueueFits, BundleFits
  <2>3. PrevDone(Closure)
    BY <1>3 DEF ChainInv, ClosureFits
  <2> QED BY <2>1, <2>2, <2>3, BundlesApart DEF PrevDone, Links
<1>8. \A i \in DOMAIN inFlight : inFlight[i] \in Bundles
  BY DEF ChainTyped
<1>9. QueueFits'
  <2>1. ASSUME NEW i \in DOMAIN inFlight, i + 1 \in DOMAIN inFlight
        PROVE  Follows(inFlight[i + 1], inFlight[i])'
    <3>1. Follows(inFlight[i + 1], inFlight[i])
      BY <2>1 DEF ChainInv, QueueFits
    <3> QED BY <2>1, <3>1, <1>2, <1>3, <1>7, <1>8 DEF Follows
  <2>2. ASSUME inFlight # <<>> PROVE lastReady = inFlight[Len(inFlight)]
    <3>1. Len(inFlight) \in DOMAIN inFlight
      BY <2>2 DEF ChainTyped
    <3> QED BY <2>2, <3>1, <1>7 DEF ChainInv, QueueFits
  <2> QED BY <2>1, <2>2, <1>3 DEF ChainInv, QueueFits, InFlight
<1>10. HeadFits'
  <2>1. ASSUME inFlight # <<>>, NEW h, h = inFlight[1]
        PROVE  prev'[h] \in Bundles => Ended(prev[h])'
    <3>1. h \in Bundles
      BY <2>1, <1>8 DEF ChainTyped
    <3>2. prev[h] \in Bundles => Ended(prev[h])
      BY <2>1 DEF ChainInv, HeadFits
    <3> QED BY <3>1, <3>2, <1>2, <1>4 DEF Ended
  <2> QED BY <2>1, <1>3, BundlesApart DEF HeadFits, Links
<1> QED BY <1>1, <1>3, <1>5, <1>6, <1>9, <1>10 DEF ChainInv, InChain, Ended

-----------------------------------------------------------------------------
(***************************************************************************)
(* Every step keeps the chain and the life of the plash.                   *)
(***************************************************************************)
BuildInv == ChainTyped /\ PlashTyped /\ LifeInv /\ ChainInv

LEMMA BuildInit == Init => BuildInv
<1> SUFFICES ASSUME Init PROVE BuildInv
  OBVIOUS
<1>1. ChainTyped
  BY BundlesApart DEF Init, ChainTyped, Links, Active
<1>2. PlashTyped
  <2>1. 0 \in 0..MaxCancels /\ future \in [Appends -> {"none", "ok", "error"}]
    BY PlashAssumption DEF Init
  <2> QED BY <2>1 DEF Init, PlashTyped
<1>3. LifeInv
  BY BundlesApart DEF Init, LifeInv, Open
<1>4. /\ \A b \in Links : prev[b] = NoBundle
      /\ \A b \in Links : ready[b] = IF b = PlashStart THEN "ok" ELSE "open"
      /\ \A b \in Bundles : /\ pc[b] = IF b = PlashStart THEN "end" ELSE "idle"
                            /\ fate[b] = IF b = PlashStart THEN "committed" ELSE "none"
      /\ mutex = NoBundle /\ lastReady = PlashStart /\ inFlight = <<>>
      /\ closePc = "idle"
  BY DEF Init, Links
<1>5. PlashStart \in Bundles /\ PlashStart # Closure
  BY BundlesApart
<1>6. ASSUME NEW b \in Bundles PROVE BundleFits(b)
  <2>1. prev[b] = NoBundle /\ NoBundle \notin Bundles /\ b # NoBundle
    BY <1>4, BundlesApart DEF Links
  <2> QED BY <2>1, <1>4 DEF BundleFits, Active, Outcome, Links
<1>7. ClosureFits
  <2>1. ready[Closure] = "open" /\ prev[Closure] = NoBundle /\ NoBundle \notin Links
        /\ \A b \in Bundles : prev[b] # Closure
    BY <1>4, <1>5, BundlesApart DEF Links
  <2> QED BY <2>1, <1>4, <1>5 DEF ClosureFits, Links
<1>8. QueueFits /\ HeadFits
  BY <1>4 DEF QueueFits, HeadFits, InFlight, Active
<1>9. InChain(lastReady)
  BY <1>4, <1>5 DEF InChain, Ended
<1> QED BY <1>1, <1>2, <1>3, <1>4, <1>6, <1>7, <1>8, <1>9 DEF BuildInv, ChainInv

(* A control bundle that is not begun stays so. *)
LEMMA LifeKept ==
    ASSUME LifeInv,
           \A c \in Bundles : pc[c] = "idle" => pc'[c] = "idle" \/ c \in Appends,
           UNCHANGED <<status, sectionPc, drops, closePc, merkle, nodeState>>
    PROVE  LifeInv'
BY BundlesApart DEF LifeInv, Open

LEMMA AppendToDropInv ==
    ASSUME BuildInv, NEW a \in Appends, AppendToDrop(a)
    PROVE  BuildInv'
<1>1. a \in Bundles
  BY DEF Bundles
<1>2. ChainTyped' /\ ChainInv'
  <2>1. /\ pc[a] = "idle" /\ SameClosing /\ UNCHANGED <<mutex, lastReady, prev, ready, inFlight>>
        /\ \/ pc' = [pc EXCEPT ![a] = "checked"] /\ UNCHANGED fate
           \/ pc' = [pc EXCEPT ![a] = "end"] /\ fate' = [fate EXCEPT ![a] = "refused"]
    BY DEF AppendToDrop, SameClosing, summaryVars
  <2> QED BY <1>1, <2>1, CallMoves DEF BuildInv
<1>3. PlashTyped'
  BY DEF BuildInv, PlashTyped, AppendToDrop, plashVars, summaryVars, storageVars
<1>4. LifeInv'
  <2>1. \A c \in Bundles : pc[c] = "idle" => pc'[c] = "idle" \/ c \in Appends
    BY DEF AppendToDrop, BuildInv, ChainTyped
  <2> QED BY <2>1, LifeKept DEF BuildInv, AppendToDrop, plashVars, summaryVars
<1> QED BY <1>2, <1>3, <1>4 DEF BuildInv

(* What WriteBundle does to the chain, when it writes the bundle or fails. *)
LEMMA WriteInv ==
    ASSUME ChainTyped, PlashTyped, ChainInv, SameClosing, NEW b \in Bundles,
           pc[b] \in {"idle", "checked"}, WriteBundle(b) \/ WriteBundleFails(b)
    PROVE  /\ ChainTyped' /\ ChainInv'
           /\ storage' \in {"writable", "readOnly", "broken"}
           /\ \A c \in Bundles : c # b => pc'[c] = pc[c]
<1>1. CASE WriteBundle(b)
  <2>1. ChainTyped' /\ ChainInv'
    BY <1>1, BundleWritten DEF WriteBundle
  <2> QED BY <1>1, <2>1 DEF WriteBundle, PlashTyped, ChainTyped
<1>2. CASE WriteBundleFails(b)
  <2>1. ChainTyped' /\ ChainInv'
    BY <1>2, CallMoves DEF WriteBundleFails
  <2>2. storage' = storage \/ storage' = "broken"
    BY <1>2 DEF WriteBundleFails
  <2> QED BY <1>2, <2>1, <2>2 DEF WriteBundleFails, PlashTyped, ChainTyped
<1> QED BY <1>1, <1>2

LEMMA WriteAppendInv ==
    ASSUME BuildInv, NEW a \in Appends, WriteAppend(a)
    PROVE  BuildInv'
<1>1. a \in Bundles
  BY DEF Bundles
<1>2. /\ ChainTyped' /\ ChainInv' /\ storage' \in {"writable", "readOnly", "broken"}
      /\ \A c \in Bundles : c # a => pc'[c] = pc[c]
  BY <1>1, WriteInv DEF BuildInv, WriteAppend, SameClosing, summaryVars
<1>3. PlashTyped'
  BY <1>2 DEF BuildInv, PlashTyped, WriteAppend, plashVars, summaryVars
<1>4. LifeInv'
  BY <1>2, LifeKept DEF BuildInv, WriteAppend, plashVars, summaryVars
<1> QED BY <1>2, <1>3, <1>4 DEF BuildInv

LEMMA ApplyWriteInv ==
    ASSUME BuildInv, NEW b \in Bundles, ApplyWrite(b) \/ WaitPrevBundle(b)
    PROVE  BuildInv'
<1>1. PICK next \in {"wait", "rollback", "callback"} :
        /\ pc' = [pc EXCEPT ![b] = next]
        /\ next = "callback" => mutex = NoBundle /\ mutex' = b /\ PrevDone(b) /\ ~Chained(b)
        /\ next # "callback" => mutex' = mutex
  BY DEF ApplyWrite, WaitPrevBundle
<1>2. /\ pc[b] \in {"apply", "wait"} /\ SameClosing
      /\ UNCHANGED <<fate, lastReady, prev, ready, inFlight, storageVars, plashVars, future, summaryVars>>
  BY DEF ApplyWrite, WaitPrevBundle, SameClosing, summaryVars
<1>3. ChainTyped' /\ ChainInv'
  BY <1>1, <1>2, GoroutineMoves DEF BuildInv
<1>4. PlashTyped'
  BY <1>2 DEF BuildInv, PlashTyped, plashVars, summaryVars, storageVars
<1>5. LifeInv'
  <2>1. \A c \in Bundles : pc[c] = "idle" => pc'[c] = "idle"
    BY <1>1, <1>2 DEF BuildInv, ChainTyped
  <2> QED BY <2>1, <1>2, LifeKept DEF BuildInv, plashVars, summaryVars
<1> QED BY <1>3, <1>4, <1>5 DEF BuildInv

LEMMA SignalNextInv ==
    ASSUME BuildInv, NEW b \in Bundles, SignalNext(b)
    PROVE  BuildInv'
<1>1. ChainTyped' /\ ChainInv'
  BY BundleSignals DEF BuildInv, SameClosing, SignalNext, summaryVars
<1>2. PlashTyped'
  BY DEF BuildInv, PlashTyped, SignalNext, plashVars, summaryVars, storageVars
<1>3. LifeInv'
  <2>1. \A c \in Bundles : pc[c] = "idle" => pc'[c] = "idle"
    BY DEF BuildInv, ChainTyped, SignalNext
  <2> QED BY <2>1, LifeKept DEF BuildInv, SignalNext, plashVars, summaryVars
<1> QED BY <1>1, <1>2, <1>3 DEF BuildInv

(* How a bundle ends, whoever ends it. *)
EndsAs(b, end) ==
    /\ pc[b] \in {"callback", "rollback"} /\ PrevDone(b)
    /\ pc[b] = "rollback" => mutex = NoBundle
    /\ end \in {"committed", "rolledBack"} /\ EndSnapshot(b, end)
    /\ end = "committed" => ~Chained(b) /\ UNCHANGED storageVars
    /\ end = "rolledBack" => UndoWrite(b, Chained(b))

LEMMA UndoTyped ==
    ASSUME PlashTyped, NEW b, NEW chained, UndoWrite(b, chained)
    PROVE  storage' \in {"writable", "readOnly", "broken"}
BY DEF PlashTyped, UndoWrite, RollbackSnapshot

LEMMA EndInv ==
    ASSUME BuildInv, NEW b \in Bundles, NEW end, EndsAs(b, end), SameClosing
    PROVE  /\ ChainTyped' /\ ChainInv'
           /\ storage' \in {"writable", "readOnly", "broken"}
           /\ \A c \in Bundles : pc[c] = "idle" => pc'[c] = "idle"
           /\ 1 \in DOMAIN inFlight /\ inFlight[1] = b /\ inFlight' = RemoveAt(inFlight, 1)
<1>1. /\ ChainTyped' /\ ChainInv'
      /\ 1 \in DOMAIN inFlight /\ inFlight[1] = b /\ inFlight' = RemoveAt(inFlight, 1)
  BY BundleEnded DEF BuildInv, EndsAs
<1>2. storage' \in {"writable", "readOnly", "broken"}
  BY UndoTyped DEF EndsAs, BuildInv, PlashTyped, storageVars
<1>3. \A c \in Bundles : pc[c] = "idle" => pc'[c] = "idle"
  BY DEF EndsAs, EndSnapshot, BuildInv, ChainTyped
<1> QED BY <1>1, <1>2, <1>3

LEMMA RollbackEnds ==
    ASSUME NEW b, RollbackBundle(b)
    PROVE  EndsAs(b, "rolledBack") /\ UNCHANGED <<plashVars, found, catalog, sectionPc, drops, closePc, panicked>>
BY DEF RollbackBundle, EndsAs

(* A callback is made only when the bundle before it has been committed. *)
LEMMA CommitEnds ==
    ASSUME BuildInv, NEW b \in Bundles, pc[b] = "callback", NEW wrongLink, CommitSnapshot(b, wrongLink)
    PROVE  \E end \in {"committed", "rolledBack"} : EndsAs(b, end)
<1>1. PrevDone(b) /\ ~Chained(b)
  BY DEF BuildInv, ChainInv, BundleFits
<1>2. Chained(b) = FALSE
  BY <1>1 DEF Chained
<1>3. CASE CommitFails(b, wrongLink)
  BY <1>1, <1>2, <1>3 DEF CommitSnapshot, EndsAs
<1>4. CASE ~CommitFails(b, wrongLink)
  BY <1>1, <1>4 DEF CommitSnapshot, EndsAs
<1> QED BY <1>3, <1>4

LEMMA RollbackBundleInv ==
    ASSUME BuildInv, NEW b \in Bundles, RollbackBundle(b)
    PROVE  BuildInv'
<1>1. EndsAs(b, "rolledBack") /\ UNCHANGED <<plashVars, found, catalog, sectionPc, drops, closePc, panicked>>
  BY RollbackEnds
<1>2. /\ ChainTyped' /\ ChainInv' /\ storage' \in {"writable", "readOnly", "broken"}
      /\ \A c \in Bundles : pc[c] = "idle" => pc'[c] = "idle"
  BY <1>1, EndInv DEF SameClosing
<1>3. PlashTyped'
  <2>1. future' \in [Appends -> {"none", "ok", "error"}] /\ reported' \in BOOLEAN
    BY DEF RollbackBundle, Failed, BuildInv, PlashTyped
  <2> QED BY <2>1, <1>1, <1>2 DEF BuildInv, PlashTyped, plashVars
<1>4. LifeInv'
  BY <1>1, <1>2, LifeKept DEF BuildInv, plashVars
<1> QED BY <1>2, <1>3, <1>4 DEF BuildInv

LEMMA CompleteAppendInv ==
    ASSUME BuildInv, NEW a \in Bundles, CompleteAppend(a)
    PROVE  BuildInv'
<1>1. PICK indices \in {"ok", "empty"}, wrongLink \in BOOLEAN :
        /\ CommitDropUpdate(a, indices)
        /\ \E result \in {UpdateResult(indices)}
                            \cup (IF CommitFails(a, wrongLink) THEN {"error"} ELSE {}) :
            future' = [future EXCEPT ![a] = IF result = "empty" THEN @ ELSE result]
        /\ panicked' = (UpdateResult(indices) = "empty")
        /\ CommitSnapshot(a, wrongLink)
  BY DEF CompleteAppend
<1>2. /\ pc[a] = "callback" /\ a \in Appends /\ SameClosing
      /\ UNCHANGED <<found, catalog, sectionPc, drops, closePc, reported>>
  BY DEF CompleteAppend, SameClosing
<1>3. PICK end \in {"committed", "rolledBack"} : EndsAs(a, end)
  BY <1>1, <1>2, CommitEnds
<1>4. /\ ChainTyped' /\ ChainInv' /\ storage' \in {"writable", "readOnly", "broken"}
      /\ \A c \in Bundles : pc[c] = "idle" => pc'[c] = "idle"
  BY <1>2, <1>3, EndInv
<1>5. UNCHANGED <<status, cancels, nodeState>> /\ (status # "started" => merkle' = merkle)
  BY <1>1 DEF CommitDropUpdate
<1>6. PlashTyped'
  <2>1. PICK result \in {"ok", "empty", "error"} :
            future' = [future EXCEPT ![a] = IF result = "empty" THEN @ ELSE result]
    BY <1>1 DEF UpdateResult
  <2>2. future' \in [Appends -> {"none", "ok", "error"}]
    BY <2>1, <1>2 DEF BuildInv, PlashTyped
  <2>3. panicked' \in BOOLEAN
    BY <1>1
  <2> QED BY <2>2, <2>3, <1>2, <1>4, <1>5 DEF BuildInv, PlashTyped
<1>7. LifeInv'
  BY <1>2, <1>4, <1>5, BundlesApart DEF BuildInv, LifeInv, Open
<1> QED BY <1>4, <1>6, <1>7 DEF BuildInv

(* The last drop has come when all have. *)
LEMMA LastDropIsLast ==
    ASSUME NEW ds \in SUBSET Drops, LastDrop(ds)
    PROVE  ds = Drops
<1>1. IsFiniteSet(Drops)
  BY PlashAssumption
<1>2. /\ IsFiniteSet(ds) /\ Cardinality(ds) <= Cardinality(Drops)
      /\ Cardinality(ds) = Cardinality(Drops) => ds = Drops
  BY <1>1, FS_Subset
<1>3. Cardinality(ds) \in Nat /\ Cardinality(Drops) \in Nat
  BY <1>1, <1>2, FS_CardinalityType
<1> QED BY <1>2, <1>3 DEF LastDrop

(* The closing goroutine is started once, by the last drop. *)
LEMMA ControlClosing ==
    ASSUME BuildInv, NEW b \in Bundles, CompleteControl(b)
    PROVE  /\ SameClosing /\ drops' \subseteq Drops
           /\ Open => drops' = drops
           /\ closePc # "idle" => drops' = drops /\ closePc' = closePc
           /\ closePc' # closePc => closePc = "idle" /\ closePc' = "summarize" /\ drops' = Drops /\ ~Open
<1>1. /\ pc[b] = "callback"
      /\ drops' = drops \cup {d \in Drops : b = DropSummary(d)}
      /\ closePc' = (IF drops' # drops /\ LastDrop(drops') THEN "summarize" ELSE closePc)
  BY DEF CompleteControl
<1>2. drops' \subseteq Drops /\ drops \subseteq drops'
  BY <1>1 DEF BuildInv, PlashTyped
<1>3. ASSUME Open PROVE drops' = drops
  <2>1. \A d \in Drops : b # DropSummary(d)
    BY <1>1, <1>3 DEF BuildInv, LifeInv
  <2> QED BY <1>1, <2>1
<1>4. closePc # "idle" => drops' = drops /\ closePc' = closePc
  BY <1>1, <1>2 DEF BuildInv, LifeInv
<1>5. closePc' # closePc => closePc = "idle" /\ closePc' = "summarize" /\ drops' = Drops /\ ~Open
  BY <1>1, <1>2, <1>3, <1>4, LastDropIsLast
<1> QED BY <1>2, <1>3, <1>4, <1>5 DEF SameClosing

LEMMA CompleteControlInv ==
    ASSUME BuildInv, NEW b \in Bundles, CompleteControl(b)
    PROVE  BuildInv'
<1>1. /\ pc[b] = "callback" /\ UNCHANGED <<plashVars, future, found, catalog, sectionPc, panicked>>
      /\ reported' = (reported \/ CommitFails(b, FALSE))
      /\ CommitSnapshot(b, FALSE)
  BY DEF CompleteControl
<1>2. /\ SameClosing /\ drops' \subseteq Drops
      /\ Open => drops' = drops
      /\ closePc # "idle" => drops' = drops /\ closePc' = closePc
      /\ closePc' # closePc => closePc = "idle" /\ closePc' = "summarize" /\ drops' = Drops /\ ~Open
  BY ControlClosing
<1>3. PICK end \in {"committed", "rolledBack"} : EndsAs(b, end)
  BY <1>1, CommitEnds
<1>4. /\ ChainTyped' /\ ChainInv' /\ storage' \in {"writable", "readOnly", "broken"}
      /\ \A c \in Bundles : pc[c] = "idle" => pc'[c] = "idle"
  BY <1>2, <1>3, EndInv
<1>5. PlashTyped'
  <2>1. reported' \in BOOLEAN
    BY <1>1
  <2> QED BY <2>1, <1>1, <1>2, <1>4 DEF BuildInv, PlashTyped, plashVars
<1>6. LifeInv'
  BY <1>1, <1>2, <1>4, BundlesApart DEF BuildInv, LifeInv, Open, plashVars, PlashTyped
<1> QED BY <1>4, <1>5, <1>6 DEF BuildInv

(* The pulse change, and the steps of the summaries that write nothing. *)
LEMMA PulseStepsInv ==
    ASSUME BuildInv, PreparePulseChange \/ CancelPulseChange \/ CommitPulseChange
    PROVE  BuildInv'
<1>1. UNCHANGED <<writerVars, storageVars, future, found, catalog, drops, closePc, reported, panicked, merkle>>
  BY DEF PreparePulseChange, CancelPulseChange, CommitPulseChange, summaryVars
<1>2. ChainTyped' /\ ChainInv'
  BY <1>1, ChainUnchanged DEF BuildInv, SameClosing, writerVars
<1>3. PlashTyped'
  BY <1>1, PlashAssumption
  DEF BuildInv, PlashTyped, PreparePulseChange, CancelPulseChange, CommitPulseChange,
      summaryVars, storageVars
<1>4. LifeInv'
  <2>1. pc' = pc
    BY <1>1 DEF writerVars
  <2> QED BY <1>1, <2>1, BundlesApart
  DEF BuildInv, LifeInv, Open, PreparePulseChange, CancelPulseChange, CommitPulseChange,
      summaryVars
<1> QED BY <1>2, <1>3, <1>4 DEF BuildInv

LEMMA ReadCatalogInv ==
    ASSUME BuildInv, ReadCatalog \/ ReadPage
    PROVE  BuildInv'
<1>1. /\ UNCHANGED <<writerVars, storageVars, plashVars, future, drops, closePc>>
      /\ sectionPc \in {"read", "scan"} /\ sectionPc' \in {"read", "scan", "write", "failed"}
      /\ panicked' \in {TRUE, panicked} /\ reported' \in {TRUE, reported}
  BY DEF ReadCatalog, ReadPage
<1>2. ChainTyped' /\ ChainInv'
  BY <1>1, ChainUnchanged DEF BuildInv, SameClosing, writerVars
<1>3. panicked' \in BOOLEAN /\ reported' \in BOOLEAN
  BY <1>1 DEF BuildInv, PlashTyped
<1>4. PlashTyped'
  BY <1>1, <1>3 DEF BuildInv, PlashTyped, plashVars, storageVars
<1>5. LifeInv'
  <2>1. pc' = pc
    BY <1>1 DEF writerVars
  <2> QED BY <1>1, <2>1 DEF BuildInv, LifeInv, Open, plashVars
<1> QED BY <1>2, <1>4, <1>5 DEF BuildInv

(* A control bundle that is not begun is written. *)
LEMMA ControlWritten ==
    ASSUME BuildInv, SameClosing, NEW b \in Bundles, pc[b] = "idle", WriteControl(b)
    PROVE  /\ ChainTyped' /\ ChainInv'
           /\ storage' \in {"writable", "readOnly", "broken"} /\ reported' \in BOOLEAN
           /\ \A c \in Bundles : c # b => pc'[c] = pc[c]
           /\ UNCHANGED <<plashVars, future, found, catalog, drops, panicked>>
<1>1. /\ ChainTyped' /\ ChainInv' /\ storage' \in {"writable", "readOnly", "broken"}
      /\ \A c \in Bundles : c # b => pc'[c] = pc[c]
  BY WriteInv DEF BuildInv, WriteControl
<1>2. reported' \in {TRUE, reported} /\ UNCHANGED <<plashVars, future, found, catalog, drops, panicked>>
  BY DEF WriteControl
<1>3. reported' \in BOOLEAN
  BY <1>2 DEF BuildInv, PlashTyped
<1> QED BY <1>1, <1>2, <1>3

LEMMA SummaryInv ==
    ASSUME BuildInv,
           WriteSectionSummary \/ WritePlashSummary
              \/ \E d \in Drops : AppendToDropSummary(d) \/ FinalizeDropSummary(d)
    PROVE  BuildInv'
<1>1. CASE WriteSectionSummary
  <2>1. /\ sectionPc = "write" /\ sectionPc' = "closed" /\ closePc' = closePc
        /\ WriteControl(SectionSummary) /\ pc[SectionSummary] = "idle" /\ SectionSummary \in Bundles
    BY <1>1, BundlesApart DEF WriteSectionSummary, BuildInv, LifeInv
  <2>2. /\ ChainTyped' /\ ChainInv'
        /\ storage' \in {"writable", "readOnly", "broken"} /\ reported' \in BOOLEAN
        /\ \A c \in Bundles : c # SectionSummary => pc'[c] = pc[c]
        /\ UNCHANGED <<plashVars, future, found, catalog, drops, panicked>>
    BY <2>1, ControlWritten DEF SameClosing
  <2>3. PlashTyped'
    BY <2>1, <2>2 DEF BuildInv, PlashTyped, plashVars
  <2>4. LifeInv'
    BY <2>1, <2>2, BundlesApart DEF BuildInv, LifeInv, Open, plashVars
  <2> QED BY <2>2, <2>3, <2>4 DEF BuildInv
<1>2. CASE WritePlashSummary
  <2>1. /\ closePc = "write" /\ closePc' \in {"end", "wait"} /\ sectionPc' = sectionPc
        /\ WriteControl(PlashSummary) /\ pc[PlashSummary] = "idle" /\ PlashSummary \in Bundles
    BY <1>2, BundlesApart DEF WritePlashSummary, BuildInv, LifeInv
  <2>2. /\ ChainTyped' /\ ChainInv'
        /\ storage' \in {"writable", "readOnly", "broken"} /\ reported' \in BOOLEAN
        /\ \A c \in Bundles : c # PlashSummary => pc'[c] = pc[c]
        /\ UNCHANGED <<plashVars, future, found, catalog, drops, panicked>>
    BY <2>1, ControlWritten DEF SameClosing
  <2>3. PlashTyped'
    BY <2>1, <2>2 DEF BuildInv, PlashTyped, plashVars
  <2>4. LifeInv'
    BY <2>1, <2>2, BundlesApart DEF BuildInv, LifeInv, Open, plashVars
  <2> QED BY <2>2, <2>3, <2>4 DEF BuildInv
<1>3. ASSUME NEW d \in Drops, AppendToDropSummary(d) \/ FinalizeDropSummary(d)
      PROVE  BuildInv'
  <2>1. PICK b \in {LineSummary(d), DropSummary(d)} : pc[b] = "idle" /\ WriteControl(b)
    BY <1>3 DEF AppendToDropSummary, FinalizeDropSummary
  <2>2. b \in Bundles /\ b # SectionSummary /\ b # PlashSummary
    BY <2>1, BundlesApart
  <2>3. UNCHANGED <<sectionPc, closePc>> /\ status = "summingUp"
    BY <1>3 DEF AppendToDropSummary, FinalizeDropSummary
  <2>4. /\ ChainTyped' /\ ChainInv'
        /\ storage' \in {"writable", "readOnly", "broken"} /\ reported' \in BOOLEAN
        /\ \A c \in Bundles : c # b => pc'[c] = pc[c]
        /\ UNCHANGED <<plashVars, future, found, catalog, drops, panicked>>
    BY <2>1, <2>2, <2>3, ControlWritten DEF SameClosing
  <2>5. PlashTyped'
    BY <2>3, <2>4 DEF BuildInv, PlashTyped, plashVars
  <2>6. LifeInv'
    BY <2>2, <2>3, <2>4, BundlesApart DEF BuildInv, LifeInv, Open, plashVars
  <2> QED BY <2>4, <2>5, <2>6 DEF BuildInv
<1> QED BY <1>1, <1>2, <1>3

LEMMA ClosingInv ==
    ASSUME BuildInv, Summarize \/ WaitWriteBundlesAsync \/ ClosePlash \/ SignalClosure
    PROVE  BuildInv'
<1>1. ChainTyped' /\ ChainInv'
  <2>1. CASE Summarize
    BY <2>1, ChainUnchanged DEF BuildInv, Summarize, SameClosing, writerVars
  <2> QED BY <2>1, ClosureWaits, ClosureCalled, ClosureSignals DEF BuildInv
<1>2. /\ UNCHANGED <<cancels, merkle, nodeState, pc, future, sectionPc, drops, panicked>>
      /\ storage' \in {storage, "readOnly"}
      /\ status' \in {status, "summarized", "closed"} /\ reported' \in BOOLEAN
      /\ closePc \in {"summarize", "wait", "close", "signal"}
      /\ closePc' \in {"write", "close", "signal", "end"}
      /\ closePc' = "write" <=> closePc = "summarize"
  BY DEF Summarize, WaitWriteBundlesAsync, ClosePlash, SignalClosure, writerVars, storageVars,
         plashVars, BuildInv, PlashTyped
<1>3. PlashTyped'
  BY <1>2 DEF BuildInv, PlashTyped
<1>4. LifeInv'
  BY <1>2 DEF BuildInv, LifeInv, Open, PlashTyped
<1> QED BY <1>1, <1>3, <1>4 DEF BuildInv

LEMMA BuildNext == BuildInv /\ [Next]_vars => BuildInv'
<1> SUFFICES ASSUME BuildInv, [Next]_vars PROVE BuildInv'
  OBVIOUS
<1>1. CASE UNCHANGED vars
  <2>1. ChainTyped' /\ ChainInv'
    BY <1>1, ChainUnchanged DEF BuildInv, vars, SameClosing, writerVars, summaryVars
  <2>2. PlashTyped' /\ LifeInv'
    BY <1>1 DEF BuildInv, PlashTyped, LifeInv, Open, vars, writerVars, storageVars, plashVars, summaryVars
  <2> QED BY <2>1, <2>2 DEF BuildInv
<1>2. ASSUME NEW b \in Bundles, Goroutine(b) PROVE BuildInv'
  BY <1>2, ApplyWriteInv, RollbackBundleInv, SignalNextInv, CompleteAppendInv, CompleteControlInv
  DEF Goroutine
<1>3. ASSUME NEW a \in Appends, AppendToDrop(a) \/ WriteAppend(a) PROVE BuildInv'
  BY <1>3, AppendToDropInv, WriteAppendInv
<1>4. ASSUME Summaries PROVE BuildInv'
  BY <1>4, ReadCatalogInv, SummaryInv, ClosingInv DEF Summaries
<1> QED BY <1>1, <1>2, <1>3, <1>4, PulseStepsInv DEF Next, Progress

-----------------------------------------------------------------------------
(***************************************************************************)
(* The steps, as the open snapshots see them: a snapshot is taken, or the  *)
(* first one ends, or they stay and so does what becomes of the first one. *)
(***************************************************************************)
Quiet ==
    /\ HeadDoomed => HeadDoomed'
    /\ UNCHANGED <<inFlight, dirIndex, dropOrder, dropBase>>
    /\ \A b \in Bundles :
          /\ pc'[b] \in Active <=> pc[b] \in Active
          /\ fate'[b] = fate[b] \/ (fate[b] = "none" /\ fate'[b] = "refused")
    /\ storage = "broken" => storage' = "broken"

Writes(b) == pc[b] \in {"idle", "checked"} /\ WriteBundle(b)
WriteFails(b) == pc[b] \in {"idle", "checked"} /\ WriteBundleFails(b) /\ Quiet
Ends(b, end) == EndsAs(b, end) /\ SameClosing

(* Whether the first open snapshot is to be rolled back is known from the  *)
(* bundle before it, or before the closure.                                *)
LEMMA DoomKept ==
    ASSUME ChainTyped, ChainInv, inFlight' = inFlight,
           inFlight # <<>> => prev'[inFlight[1]] = prev[inFlight[1]],
           \A c \in Bundles : InChain(c) => fate'[c] = fate[c],
           ready'[Closure] = ready[Closure], prev'[Closure] = prev[Closure]
    PROVE  HeadDoomed => HeadDoomed'
<1> SUFFICES ASSUME inFlight # <<>>, NEW h, h = inFlight[1], Doomed(h) PROVE Doomed(h)'
  BY DEF HeadDoomed
<1>1. h \in Bundles
  BY DEF ChainTyped
<1>2. CASE prev[h] \in Bundles /\ fate[prev[h]] = "rolledBack"
  BY <1>1, <1>2 DEF ChainInv, BundleFits, Doomed
<1>3. CASE prev[h] = Closure /\ ClosureDoomed
  <2>1. prev[Closure] \in Bundles => InChain(prev[Closure])
    BY DEF ChainInv, ClosureFits
  <2>2. ClosureDoomed'
    BY <1>3, <2>1 DEF ClosureDoomed
  <2> QED BY <1>3, <2>2 DEF Doomed
<1> QED BY <1>2, <1>3 DEF Doomed

(* A bundle that has waited and is not chained is not doomed. *)
LEMMA NotDoomed ==
    ASSUME ChainTyped, ChainInv, NEW b \in Bundles, PrevDone(b), ~Chained(b)
    PROVE  ~Doomed(b)
<1>1. ASSUME prev[b] \in Bundles, fate[prev[b]] = "rolledBack" PROVE FALSE
  <2>1. ready[prev[b]] # "open" /\ ready[prev[b]] # "rolledBack"
    BY <1>1, BundlesApart DEF PrevDone, Chained, Links
  <2>2. InChain(prev[b]) /\ BundleFits(prev[b])
    BY <1>1 DEF ChainInv, BundleFits
  <2> QED BY <1>1, <2>1, <2>2 DEF InChain, Ended, BundleFits, Outcome
<1>2. ASSUME prev[b] = Closure, ClosureDoomed PROVE FALSE
  BY <1>2, BundlesApart DEF PrevDone, Chained, ClosureDoomed, Links
<1> QED BY <1>1, <1>2 DEF Doomed

(* A new snapshot does not change what becomes of the first one. *)
LEMMA DoomWritten ==
    ASSUME BuildInv, NEW b \in Bundles, pc[b] \in {"idle", "checked"}, WriteBundle(b)
    PROVE  HeadDoomed => HeadDoomed'
<1> DEFINE n == Len(inFlight)
<1>1. /\ DOMAIN inFlight = 1 .. n /\ n \in Nat
      /\ \A i \in 1 .. n : inFlight'[i] = inFlight[i] /\ inFlight[i] \in Bundles
      /\ inFlight' # <<>>
  BY QueueAppended DEF BuildInv, ChainTyped, WriteBundle
<1>2. /\ \A c \in Bundles : c # b => prev'[c] = prev[c]
      /\ fate' = fate /\ ready' = ready /\ prev'[Closure] = prev[Closure]
  BY BundlesApart DEF BuildInv, ChainTyped, WriteBundle, Links
<1> SUFFICES ASSUME inFlight # <<>>, Doomed(inFlight[1]) PROVE HeadDoomed'
  BY DEF HeadDoomed
<1>3. 1 \in 1 .. n
  BY <1>1
<1>4. PICK h \in Bundles : h = inFlight[1] /\ h = inFlight'[1]
  BY <1>3, <1>1
<1>5. h # b
  BY <1>3, <1>4, <1>1 DEF BuildInv, ChainInv, QueueFits, InFlight, Active
<1>6. prev'[h] = prev[h] /\ Doomed(h)
  BY <1>4, <1>5, <1>2
<1>7. Doomed(h)'
  BY <1>6, <1>2 DEF Doomed, ClosureDoomed
<1> QED BY <1>1, <1>4, <1>7 DEF HeadDoomed, Doomed, ClosureDoomed

(* When the first open snapshot is rolled back, so is the next one. *)
LEMMA DoomedNext ==
    ASSUME BuildInv, NEW b \in Bundles, EndsAs(b, "rolledBack"),
           1 \in DOMAIN inFlight, inFlight[1] = b, inFlight' = RemoveAt(inFlight, 1),
           inFlight' # <<>>
    PROVE  HeadDoomed'
<1> DEFINE n == Len(inFlight)
<1>1. /\ DOMAIN inFlight = 1 .. n /\ n \in Nat
      /\ inFlight' \in Seq(Bundles) /\ Len(inFlight') = n - 1
      /\ \A i \in 1 .. n - 1 : inFlight'[i] = inFlight[i + 1]
  BY FirstRemoved DEF BuildInv, ChainTyped
<1>2. fate'[b] = "rolledBack" /\ UNCHANGED <<prev, ready>>
  BY DEF BuildInv, ChainTyped, EndsAs, EndSnapshot
<1>3. 1 + 1 \in DOMAIN inFlight /\ inFlight'[1] = inFlight[1 + 1]
  BY <1>1
<1>4. PICK h : h = inFlight'[1]
  OBVIOUS
<1>5. Follows(h, b)
  BY <1>3, <1>4 DEF BuildInv, ChainInv, QueueFits
<1>6. Doomed(h)'
  BY <1>5, <1>2 DEF Follows, Doomed, ClosureDoomed
<1> QED BY <1>4, <1>6 DEF HeadDoomed, Doomed, ClosureDoomed

(* A call or a goroutine moves on. *)
LEMMA QuietMove ==
    ASSUME BuildInv, NEW b \in Bundles, NEW next,
           pc' = [pc EXCEPT ![b] = next], next \in Active <=> pc[b] \in Active,
           fate' = fate \/ (~InChain(b) /\ fate[b] = "none" /\ fate' = [fate EXCEPT ![b] = "refused"]),
           UNCHANGED <<prev, ready, inFlight, dirIndex, dropOrder, dropBase>>,
           storage = "broken" => storage' = "broken"
    PROVE  Quiet
<1>1. \A c \in Bundles : InChain(c) => fate'[c] = fate[c]
  BY DEF BuildInv, ChainTyped
<1>2. HeadDoomed => HeadDoomed'
  BY <1>1, DoomKept DEF BuildInv
<1>3. \A c \in Bundles :
          /\ pc'[c] \in Active <=> pc[c] \in Active
          /\ fate'[c] = fate[c] \/ (fate[c] = "none" /\ fate'[c] = "refused")
  BY DEF BuildInv, ChainTyped
<1> QED BY <1>2, <1>3 DEF Quiet

(* Nothing of the chain moves. *)
LEMMA QuietStill ==
    ASSUME BuildInv, UNCHANGED <<prev, ready, pc, fate, inFlight, dirIndex, dropOrder, dropBase>>,
           storage = "broken" => storage' = "broken"
    PROVE  Quiet
<1>1. HeadDoomed => HeadDoomed'
  BY DoomKept DEF BuildInv
<1> QED BY <1>1 DEF Quiet

LEMMA QuietSignal ==
    ASSUME BuildInv, NEW b \in Bundles, SignalNext(b)
    PROVE  Quiet
<1>1. /\ UNCHANGED <<fate, inFlight, dirIndex, dropOrder, dropBase, storage>>
      /\ pc[b] = "signal" /\ pc' = [pc EXCEPT ![b] = "end"]
      /\ \A c \in Links : c # b => prev'[c] = prev[c] /\ ready'[c] = ready[c]
  BY DEF SignalNext, storageVars, BuildInv, ChainTyped
<1>2. Closure \in Links /\ Closure # b /\ Bundles \subseteq Links
  BY BundlesApart DEF Links
<1>3. ASSUME inFlight # <<>> PROVE prev'[inFlight[1]] = prev[inFlight[1]]
  <2>1. 1 \in DOMAIN inFlight /\ inFlight[1] \in Bundles
    BY <1>3 DEF BuildInv, ChainTyped
  <2>2. inFlight[1] # b
    BY <2>1, <1>1 DEF BuildInv, ChainInv, QueueFits, InFlight, Active
  <2> QED BY <2>1, <2>2, <1>1, <1>2
<1>4. HeadDoomed => HeadDoomed'
  BY <1>1, <1>2, <1>3, DoomKept DEF BuildInv
<1>5. \A a \in Bundles : pc'[a] \in Active <=> pc[a] \in Active
  BY <1>1 DEF BuildInv, ChainTyped, Active
<1> QED BY <1>1, <1>4, <1>5 DEF Quiet

LEMMA QuietClosure ==
    ASSUME BuildInv, WaitWriteBundlesAsync \/ SignalClosure
    PROVE  Quiet
<1>1. /\ UNCHANGED <<pc, fate, inFlight, dirIndex, dropOrder, dropBase, storage>>
      /\ \A c \in Bundles : prev'[c] = prev[c]
  BY BundlesApart DEF WaitWriteBundlesAsync, SignalClosure, storageVars, BuildInv, ChainTyped, Links
<1>2. HeadDoomed => HeadDoomed'
  <2> SUFFICES ASSUME inFlight # <<>>, NEW h, h = inFlight[1], Doomed(h) PROVE Doomed(h)'
    BY <1>1 DEF HeadDoomed
  <2>1. h \in Bundles
    BY DEF BuildInv, ChainTyped
  <2>2. CASE prev[h] \in Bundles /\ fate[prev[h]] = "rolledBack"
    BY <2>1, <2>2, <1>1 DEF Doomed
  <2>3. CASE prev[h] = Closure /\ ClosureDoomed
    <3>1. SignalClosure
      BY <2>1, <2>3 DEF WaitWriteBundlesAsync, BuildInv, ChainInv, ClosureFits
    <3>2. ready[Closure] = "open"
      BY <3>1 DEF SignalClosure, BuildInv, ChainInv, ClosureFits
    <3>3. ready'[Closure] = IF prev[Closure] # NoBundle /\ ready[prev[Closure]] = "ok"
                            THEN "ok" ELSE "rolledBack"
      BY <3>1 DEF SignalClosure, BuildInv, ChainTyped, Links
    <3>4. ASSUME prev[Closure] \in Bundles, fate[prev[Closure]] = "rolledBack"
          PROVE  ready[prev[Closure]] # "ok"
      BY <3>4 DEF BuildInv, ChainInv, ClosureFits, InChain, Ended, BundleFits, Outcome
    <3>5. ready'[Closure] = "rolledBack"
      BY <2>3, <3>2, <3>3, <3>4 DEF ClosureDoomed
    <3> QED BY <2>1, <2>3, <3>5, <1>1 DEF Doomed, ClosureDoomed
  <2> QED BY <2>2, <2>3 DEF Doomed
<1> QED BY <1>1, <1>2 DEF Quiet

LEMMA WriteKinds ==
    ASSUME BuildInv, NEW b \in Bundles, pc[b] \in {"idle", "checked"},
           WriteBundle(b) \/ WriteBundleFails(b)
    PROVE  Writes(b) \/ WriteFails(b)
<1>1. CASE WriteBundle(b)
  BY <1>1 DEF Writes
<1>2. CASE WriteBundleFails(b)
  <2>1. ~InChain(b) /\ fate[b] = "none" /\ ~("end" \in Active) /\ ~(pc[b] \in Active)
    BY DEF BuildInv, ChainInv, BundleFits, InChain, Ended, Active
  <2>2. /\ pc' = [pc EXCEPT ![b] = "end"] /\ fate' = [fate EXCEPT ![b] = "refused"]
        /\ UNCHANGED <<prev, ready, inFlight, dirIndex, dropOrder, dropBase>>
        /\ storage = "broken" => storage' = "broken"
    BY <1>2 DEF WriteBundleFails
  <2> QED BY <1>2, <2>1, <2>2, QuietMove DEF WriteFails
<1> QED BY <1>1, <1>2

LEMMA StepKinds ==
    ASSUME BuildInv, [Next]_vars
    PROVE  \/ Quiet /\ dir' = dir
           \/ \E b \in Bundles : Writes(b) \/ WriteFails(b)
           \/ \E b \in Bundles : \E end \in {"committed", "rolledBack"} : Ends(b, end)
<1> DEFINE Goal ==
           \/ Quiet /\ dir' = dir
           \/ \E b \in Bundles : Writes(b) \/ WriteFails(b)
           \/ \E b \in Bundles : \E end \in {"committed", "rolledBack"} : Ends(b, end)
<1> SUFFICES Goal
  OBVIOUS
<1>1. CASE UNCHANGED vars
  BY <1>1, QuietStill DEF vars, writerVars, storageVars
<1>2. ASSUME NEW b \in Bundles, Goroutine(b) PROVE Goal
  <2>1. CASE ApplyWrite(b) \/ WaitPrevBundle(b)
    <3>1. PICK next \in {"wait", "rollback", "callback"} : pc' = [pc EXCEPT ![b] = next]
      BY <2>1 DEF ApplyWrite, WaitPrevBundle
    <3>2. pc[b] \in Active /\ next \in Active
          /\ UNCHANGED <<prev, ready, fate, inFlight, dir, dirIndex, dropOrder, dropBase, storage>>
      BY <2>1 DEF ApplyWrite, WaitPrevBundle, storageVars, Active
    <3> QED BY <3>1, <3>2, QuietMove
  <2>2. CASE RollbackBundle(b)
    <3>1. Ends(b, "rolledBack")
      BY <2>2, RollbackEnds DEF Ends, SameClosing
    <3> QED BY <3>1
  <2>3. CASE SignalNext(b)
    BY <2>3, QuietSignal DEF SignalNext, storageVars
  <2>4. CASE CompleteAppend(b)
    <3>1. pc[b] = "callback" /\ closePc' = closePc /\ \E wrongLink \in BOOLEAN : CommitSnapshot(b, wrongLink)
      BY <2>4 DEF CompleteAppend
    <3> QED BY <3>1, CommitEnds DEF Ends, SameClosing
  <2>5. CASE CompleteControl(b)
    <3>1. pc[b] = "callback" /\ CommitSnapshot(b, FALSE)
      BY <2>5 DEF CompleteControl
    <3>2. SameClosing
      BY <2>5, ControlClosing
    <3> QED BY <3>1, <3>2, CommitEnds DEF Ends
  <2> QED BY <1>2, <2>1, <2>2, <2>3, <2>4, <2>5 DEF Goroutine
<1>3. ASSUME NEW a \in Appends, AppendToDrop(a) PROVE Goal
  <2>1. /\ a \in Bundles /\ fate[a] = "none" /\ ~InChain(a) /\ pc[a] \notin Active
        /\ "checked" \notin Active /\ "end" \notin Active
    BY <1>3 DEF AppendToDrop, BuildInv, ChainInv, BundleFits, InChain, Ended, Active, Bundles
  <2>2. PICK next \in {"checked", "end"} : pc' = [pc EXCEPT ![a] = next]
    BY <1>3 DEF AppendToDrop
  <2>3. /\ UNCHANGED <<prev, ready, inFlight, dir, dirIndex, dropOrder, dropBase, storage>>
        /\ fate' = fate \/ fate' = [fate EXCEPT ![a] = "refused"]
    BY <1>3 DEF AppendToDrop, storageVars
  <2> QED BY <2>1, <2>2, <2>3, QuietMove
<1>4. ASSUME NEW a \in Appends, WriteAppend(a) PROVE Goal
  <2>1. a \in Bundles /\ pc[a] = "checked" /\ (WriteBundle(a) \/ WriteBundleFails(a))
    BY <1>4 DEF WriteAppend, Bundles
  <2> QED BY <2>1, WriteKinds
<1>5. CASE PreparePulseChange \/ CancelPulseChange \/ CommitPulseChange \/ ReadCatalog \/ ReadPage
             \/ Summarize \/ ClosePlash
  <2>1. UNCHANGED <<writerVars, dir, dirIndex, dropOrder, dropBase>>
        /\ (storage = "broken" => storage' = "broken")
    BY <1>5 DEF PreparePulseChange, CancelPulseChange, CommitPulseChange, ReadCatalog, ReadPage,
                Summarize, ClosePlash, storageVars
  <2> QED BY <2>1, QuietStill DEF writerVars
<1>6. CASE WriteSectionSummary
  <2>1. SectionSummary \in Bundles /\ pc[SectionSummary] = "idle"
        /\ (WriteBundle(SectionSummary) \/ WriteBundleFails(SectionSummary))
    BY <1>6, BundlesApart DEF WriteSectionSummary, WriteControl, BuildInv, LifeInv
  <2> QED BY <2>1, WriteKinds
<1>7. CASE WritePlashSummary
  <2>1. PlashSummary \in Bundles /\ pc[PlashSummary] = "idle"
        /\ (WriteBundle(PlashSummary) \/ WriteBundleFails(PlashSummary))
    BY <1>7, BundlesApart DEF WritePlashSummary, WriteControl, BuildInv, LifeInv
  <2> QED BY <2>1, WriteKinds
<1>8. ASSUME NEW d \in Drops, AppendToDropSummary(d) \/ FinalizeDropSummary(d) PROVE Goal
  <2>1. PICK b \in {LineSummary(d), DropSummary(d)} :
            pc[b] = "idle" /\ (WriteBundle(b) \/ WriteBundleFails(b))
    BY <1>8 DEF AppendToDropSummary, FinalizeDropSummary, WriteControl
  <2>2. b \in Bundles
    BY <2>1, BundlesApart
  <2> QED BY <2>1, <2>2, WriteKinds
<1>9. CASE WaitWriteBundlesAsync \/ SignalClosure
  BY <1>9, QuietClosure DEF WaitWriteBundlesAsync, SignalClosure, storageVars
<1> HIDE DEF Goal
<1> QED BY <1>1, <1>2, <1>3, <1>4, <1>5, <1>6, <1>7, <1>8, <1>9 DEF Next, Progress, Summaries

-----------------------------------------------------------------------------
(***************************************************************************)
(* The ordinals.                                                           *)
(***************************************************************************)
LEMMA SizesAre ==
    /\ \A a \in Appends : DropOf[a] \in Drops /\ SizeOf[a] \in Nat /\ SizeOf[a] >= 1
    /\ \A a \in Appends : Size(a) = SizeOf[a]
BY PlashAssumption DEF Size

LEMMA NumbersAre ==
    ASSUME OrdinalsTyped, NEW a \in Appends
    PROVE  \A x : x \in Numbers(a) <=> x \in Nat /\ dropBase[a] <= x /\ x < dropBase[a] + SizeOf[a]
<1>1. dropBase[a] \in Nat /\ SizeOf[a] \in Nat
  BY SizesAre DEF OrdinalsTyped
<1>2. ASSUME NEW x \in Nat, dropBase[a] <= x, x < dropBase[a] + SizeOf[a]
      PROVE  x \in Numbers(a)
  <2>1. x - dropBase[a] \in 0..(SizeOf[a] - 1) /\ x = dropBase[a] + (x - dropBase[a])
    BY <1>1, <1>2
  <2> QED BY <2>1 DEF Numbers
<1>3. ASSUME NEW x \in Numbers(a)
      PROVE  x \in Nat /\ dropBase[a] <= x /\ x < dropBase[a] + SizeOf[a]
  BY <1>1, <1>3 DEF Numbers
<1> QED BY <1>2, <1>3

(* An open append is one of the open snapshots. *)
LEMMA OpenInFlight ==
    ASSUME BuildInv, NEW d \in Drops, NEW a \in OpenOf(d)
    PROVE  \E i \in DOMAIN inFlight : inFlight[i] = a
BY DEF BuildInv, ChainInv, QueueFits, InFlight, OpenOf, Bundles

(* What the steps that take and give back no ordinals leave as it is. *)
LEMMA OrdinalsKept ==
    ASSUME OrdinalsTyped, OrdinalsInv, HeadDoomed => HeadDoomed',
           UNCHANGED <<dropOrder, dropBase, inFlight>>,
           \A a \in Appends : /\ pc'[a] \in Active <=> pc[a] \in Active
                              /\ fate'[a] = "committed" <=> fate[a] = "committed"
    PROVE  OrdinalsTyped' /\ OrdinalsInv'
<1>1. OrdinalsTyped'
  BY DEF OrdinalsTyped
<1>2. ASSUME NEW d \in Drops
      PROVE  /\ (\E k \in Nat : Behind(d, k))'
             /\ ~HeadDoomed' => Ahead(d)'
             /\ \A a, b \in CommittedOf(d)' : a # b => Numbers(a)' \cap Numbers(b)' = {}
  <2>1. OpenOf(d)' = OpenOf(d) /\ CommittedOf(d)' = CommittedOf(d)
    BY DEF OpenOf, CommittedOf, Committed, Bundles
  <2>2. \A a : Numbers(a)' = Numbers(a)
    BY DEF Numbers
  <2>3. \A k : Behind(d, k)' <=> Behind(d, k)
    BY <2>1, <2>2 DEF Behind
  <2>4. Ahead(d)' <=> Ahead(d)
    BY <2>1 DEF Ahead
  <2> QED BY <2>1, <2>2, <2>3, <2>4 DEF OrdinalsInv
<1> QED BY <1>1, <1>2 DEF OrdinalsInv

(* A new bundle takes the ordinals after the last ones of its drop. *)
LEMMA OrdinalsTaken ==
    ASSUME BuildInv, OrdinalsTyped, OrdinalsInv, BuildInv', NEW b \in Bundles,
           pc[b] \in {"idle", "checked"}, WriteBundle(b)
    PROVE  OrdinalsTyped' /\ OrdinalsInv'
<1> DEFINE n == Len(inFlight)
<1>1. /\ DOMAIN inFlight = 1 .. n /\ n \in Nat
      /\ DOMAIN inFlight' = 1 .. n + 1
      /\ \A i \in 1 .. n : inFlight'[i] = inFlight[i] /\ inFlight[i] \in Bundles
      /\ inFlight'[n + 1] = b
  BY QueueAppended DEF BuildInv, ChainTyped, WriteBundle
<1>2. /\ \A c \in Bundles : c # b => pc'[c] = pc[c] /\ prev'[c] = prev[c]
      /\ pc'[b] = "apply" /\ fate' = fate /\ fate[b] = "none" /\ ready' = ready
      /\ prev'[Closure] = prev[Closure]
  BY BundlesApart DEF BuildInv, ChainTyped, WriteBundle, Links, ChainInv, BundleFits
<1>3. HeadDoomed => HeadDoomed'
  BY DoomWritten
<1>4. CASE b \notin Appends
  <2>1. UNCHANGED <<dropBase, dropOrder>>
    BY <1>4 DEF WriteBundle, PrepareWrite
  <2>2. OrdinalsTyped'
    BY <2>1 DEF OrdinalsTyped
  <2>3. ASSUME NEW d \in Drops
        PROVE  /\ (\E k \in Nat : Behind(d, k))'
               /\ ~HeadDoomed' => Ahead(d)'
               /\ \A a, c \in CommittedOf(d)' : a # c => Numbers(a)' \cap Numbers(c)' = {}
    <3>1. OpenOf(d)' = OpenOf(d) /\ CommittedOf(d)' = CommittedOf(d)
      BY <1>2, <1>4 DEF OpenOf, CommittedOf, Committed, Bundles
    <3>2. \A a : Numbers(a)' = Numbers(a)
      BY <2>1 DEF Numbers
    <3>3. \A k : Behind(d, k)' <=> Behind(d, k)
      BY <2>1, <3>1, <3>2 DEF Behind
    <3>4. Ahead(d) => Ahead(d)'
      <4> SUFFICES ASSUME Ahead(d) PROVE Ahead(d)'
        OBVIOUS
      <4>1. ASSUME NEW i \in DOMAIN inFlight', NEW j \in DOMAIN inFlight', i < j,
                   inFlight'[i] \in OpenOf(d)', inFlight'[j] \in OpenOf(d)'
            PROVE  dropBase'[inFlight'[i]] + SizeOf[inFlight'[i]] <= dropBase'[inFlight'[j]]
        <5>1. b \notin OpenOf(d)
          BY <1>4 DEF OpenOf
        <5>2. i \in 1 .. n /\ j \in 1 .. n
          BY <4>1, <5>1, <3>1, <1>1
        <5> QED BY <4>1, <5>2, <3>1, <2>1, <1>1 DEF Ahead
      <4> QED BY <4>1, <3>1, <2>1 DEF Ahead
    <3> QED BY <1>3, <3>1, <3>2, <3>3, <3>4 DEF OrdinalsInv
  <2> QED BY <2>2, <2>3 DEF OrdinalsInv
<1>5. CASE b \in Appends
  <2> DEFINE e == DropOf[b]
             last == dropOrder[e]
  <2>1. e \in Drops /\ SizeOf[b] \in Nat /\ SizeOf[b] >= 1 /\ last \in Nat
    BY <1>5, SizesAre DEF OrdinalsTyped
  <2>2. /\ dropBase'[b] = last + 1 /\ dropOrder'[e] = last + SizeOf[b]
        /\ \A a \in Appends : a # b => dropBase'[a] = dropBase[a]
        /\ \A d \in Drops : d # e => dropOrder'[d] = dropOrder[d]
        /\ OrdinalsTyped'
    <3>1. /\ dropBase' = [dropBase EXCEPT ![b] = last + 1]
          /\ dropOrder' = [dropOrder EXCEPT ![e] = last + SizeOf[b]]
      BY <1>5, SizesAre DEF WriteBundle, PrepareWrite
    <3> QED BY <3>1, <1>5, <2>1 DEF OrdinalsTyped
  <2>3. ASSUME NEW d \in Drops
        PROVE  /\ (\E k \in Nat : Behind(d, k))'
               /\ ~HeadDoomed' => Ahead(d)'
               /\ \A a, c \in CommittedOf(d)' : a # c => Numbers(a)' \cap Numbers(c)' = {}
    <3>1. CommittedOf(d)' = CommittedOf(d) /\ b \notin CommittedOf(d) /\ CommittedOf(d) \subseteq Appends
      BY <1>2 DEF CommittedOf, Committed
    <3>2. \A a \in CommittedOf(d) : Numbers(a)' = Numbers(a)
      BY <2>2, <3>1 DEF Numbers
    <3>3. OpenOf(d)' = IF d = e THEN OpenOf(d) \cup {b} ELSE OpenOf(d)
      BY <1>2, <1>5 DEF OpenOf, Bundles, Active
    <3>4. OpenOf(d) \subseteq Appends /\ b \notin OpenOf(d)
      BY DEF OpenOf, Active
    <3>5. PICK k \in Nat : Behind(d, k)
      BY DEF OrdinalsInv
    <3>6. UNION {Numbers(a) : a \in CommittedOf(d)}' = 1..k
      BY <3>1, <3>2, <3>5 DEF Behind
    <3>7. \A a \in OpenOf(d) : dropBase'[a] = dropBase[a]
      BY <2>2, <3>4
    <3>8. dropOrder[d] \in Nat /\ k <= dropOrder[d] /\ dropOrder[d] <= dropOrder'[d] /\ dropOrder'[d] \in Nat
      BY <2>1, <2>2, <3>5 DEF Behind, OrdinalsTyped
    <3>9. Behind(d, k)'
      <4>1. ASSUME NEW a \in OpenOf(d)' PROVE k < dropBase'[a]
        <5>1. CASE a = b
          BY <5>1, <4>1, <3>3, <3>4, <3>8, <2>2
        <5>2. CASE a # b
          BY <5>2, <4>1, <3>3, <3>5, <3>7 DEF Behind
        <5> QED BY <5>1, <5>2
      <4>2. ASSUME k < dropOrder'[d] PROVE \E a \in OpenOf(d)' : dropBase'[a] = k + 1
        <5>1. CASE k < dropOrder[d]
          BY <5>1, <3>3, <3>5, <3>7 DEF Behind
        <5>2. CASE k >= dropOrder[d]
          <6>1. d = e /\ k = last
            BY <4>2, <5>2, <3>8, <2>2
          <6> QED BY <6>1, <3>3, <2>2
        <5> QED BY <5>1, <5>2, <3>8
      <4>3. k <= dropOrder'[d]
        BY <3>8
      <4> QED BY <3>6, <4>1, <4>2, <4>3 DEF Behind
    <3>10. ASSUME ~HeadDoomed' PROVE Ahead(d)'
      <4>1. Ahead(d)
        BY <3>10, <1>3 DEF OrdinalsInv
      <4>2. \A a \in OpenOf(d) : dropBase[a] \in Nat /\ SizeOf[a] \in Nat /\ SizeOf[a] >= 1
        BY <3>4, SizesAre DEF OrdinalsTyped
      <4>3. ASSUME NEW a \in OpenOf(d)'
            PROVE  /\ dropBase'[a] + SizeOf[a] - 1 <= dropOrder'[d]
                   /\ dropBase'[a] + SizeOf[a] - 1 < dropOrder'[d] =>
                        \E c \in OpenOf(d)' : dropBase'[c] = dropBase'[a] + SizeOf[a] - 1 + 1
        <5>1. CASE a = b
          BY <5>1, <4>3, <3>3, <3>4, <2>1, <2>2
        <5>2. CASE a # b
          <6> DEFINE end == dropBase[a] + SizeOf[a] - 1
          <6>1. a \in OpenOf(d) /\ dropBase'[a] = dropBase[a] /\ end \in Nat
            BY <5>2, <4>2, <4>3, <3>3, <3>7
          <6>2. end <= dropOrder[d] /\ (end < dropOrder[d] => \E c \in OpenOf(d) : dropBase[c] = end + 1)
            BY <6>1, <4>1 DEF Ahead
          <6>3. CASE end < dropOrder[d]
            BY <6>1, <6>2, <6>3, <3>3, <3>7, <3>8
          <6>4. CASE end = dropOrder[d]
            <7>1. CASE d = e
              <8>1. dropBase'[b] = end + 1 /\ b \in OpenOf(d)'
                BY <6>4, <7>1, <2>2, <3>3
              <8> QED BY <8>1, <6>1, <6>2, <3>8
            <7>2. CASE d # e
              BY <7>2, <6>1, <6>4, <2>2
            <7> QED BY <7>1, <7>2
          <6> QED BY <6>1, <6>2, <6>3, <6>4, <3>8
        <5> QED BY <5>1, <5>2
      <4>4. ASSUME NEW i \in DOMAIN inFlight', NEW j \in DOMAIN inFlight', i < j,
                   inFlight'[i] \in OpenOf(d)', inFlight'[j] \in OpenOf(d)'
            PROVE  dropBase'[inFlight'[i]] + SizeOf[inFlight'[i]] <= dropBase'[inFlight'[j]]
        <5>1. i \in 1 .. n /\ inFlight'[i] = inFlight[i]
          BY <4>4, <1>1
        <5>2. inFlight[i] # b
          BY <5>1, <1>1 DEF BuildInv, ChainInv, QueueFits, InFlight, Active
        <5>3. inFlight[i] \in OpenOf(d)
          BY <4>4, <5>1, <5>2, <3>3
        <5>4. CASE j \in 1 .. n
          <6>1. inFlight[j] # b /\ inFlight'[j] = inFlight[j]
            BY <5>4, <1>1 DEF BuildInv, ChainInv, QueueFits, InFlight, Active
          <6>2. inFlight[j] \in OpenOf(d)
            BY <4>4, <6>1, <3>3
          <6> QED BY <4>1, <4>4, <5>1, <5>3, <5>4, <6>1, <6>2, <3>7, <1>1 DEF Ahead
        <5>5. CASE j \notin 1 .. n
          <6>1. inFlight'[j] = b
            BY <5>5, <4>4, <1>1
          <6>2. d = e
            BY <6>1, <4>4, <3>3, <3>4
          <6>3. dropBase[inFlight[i]] + SizeOf[inFlight[i]] - 1 <= last
            BY <6>2, <5>3, <4>1 DEF Ahead
          <6> QED BY <6>1, <6>2, <6>3, <5>1, <5>3, <4>2, <3>7, <2>1, <2>2
        <5> QED BY <5>4, <5>5
      <4> QED BY <4>3, <4>4 DEF Ahead
    <3>11. \A a, c \in CommittedOf(d)' : a # c => Numbers(a)' \cap Numbers(c)' = {}
      BY <3>1, <3>2 DEF OrdinalsInv
    <3> QED BY <3>9, <3>10, <3>11
  <2> QED BY <2>2, <2>3 DEF OrdinalsInv
<1> QED BY <1>4, <1>5

(* The first open snapshot is committed: its ordinals are the next ones.   *)
LEMMA OrdinalsCommitted ==
    ASSUME BuildInv, OrdinalsTyped, OrdinalsInv, BuildInv', NEW b \in Bundles,
           EndsAs(b, "committed"),
           1 \in DOMAIN inFlight, inFlight[1] = b, inFlight' = RemoveAt(inFlight, 1)
    PROVE  OrdinalsTyped' /\ OrdinalsInv'
<1> DEFINE n == Len(inFlight)
<1>1. /\ DOMAIN inFlight = 1 .. n /\ n \in Nat
      /\ DOMAIN inFlight' = 1 .. n - 1
      /\ \A i \in 1 .. n - 1 : inFlight'[i] = inFlight[i + 1]
  BY FirstRemoved DEF BuildInv, ChainTyped
<1>2. /\ \A c \in Bundles : c # b => pc'[c] = pc[c] /\ fate'[c] = fate[c]
      /\ pc'[b] = "signal" /\ fate'[b] = "committed" /\ fate[b] = "none" /\ pc[b] \in Active
      /\ UNCHANGED <<dropOrder, dropBase>>
  BY DEF BuildInv, ChainTyped, EndsAs, EndSnapshot, storageVars, ChainInv, BundleFits, Active
<1>3. ~HeadDoomed
  <2>1. ~Doomed(b)
    BY NotDoomed DEF BuildInv, EndsAs
  <2> QED BY <2>1 DEF HeadDoomed
<1>4. OrdinalsTyped'
  BY <1>2 DEF OrdinalsTyped
<1>5. ASSUME NEW d \in Drops
      PROVE  /\ (\E k \in Nat : Behind(d, k))'
             /\ ~HeadDoomed' => Ahead(d)'
             /\ \A a, c \in CommittedOf(d)' : a # c => Numbers(a)' \cap Numbers(c)' = {}
  <2>1. Ahead(d)
    BY <1>3 DEF OrdinalsInv
  <2>2. OpenOf(d)' = OpenOf(d) \ {b}
    BY <1>2 DEF OpenOf, Bundles, Active
  <2>3. \A a : Numbers(a)' = Numbers(a)
    BY <1>2 DEF Numbers
  <2>4. PICK k \in Nat : Behind(d, k)
    BY DEF OrdinalsInv
  <2>5. /\ \A a \in OpenOf(d) : a \in Appends /\ dropBase[a] \in Nat /\ SizeOf[a] \in Nat /\ SizeOf[a] >= 1
        /\ dropOrder[d] \in Nat
    BY SizesAre DEF OrdinalsTyped, OpenOf
  <2>6. ASSUME NEW i \in DOMAIN inFlight', NEW j \in DOMAIN inFlight', i < j,
               inFlight'[i] \in OpenOf(d)', inFlight'[j] \in OpenOf(d)'
        PROVE  dropBase'[inFlight'[i]] + SizeOf[inFlight'[i]] <= dropBase'[inFlight'[j]]
    <3>1. i + 1 \in DOMAIN inFlight /\ j + 1 \in DOMAIN inFlight /\ i + 1 < j + 1
          /\ inFlight'[i] = inFlight[i + 1] /\ inFlight'[j] = inFlight[j + 1]
      BY <2>6, <1>1
    <3> QED BY <2>1, <2>2, <2>6, <3>1, <1>2 DEF Ahead
  <2>7. CASE b \notin OpenOf(d)
    <3>1. OpenOf(d)' = OpenOf(d)
      BY <2>2, <2>7
    <3>2. CommittedOf(d)' = CommittedOf(d)
      BY <2>7, <1>2 DEF OpenOf, CommittedOf, Committed, Bundles
    <3>3. Behind(d, k)'
      BY <3>1, <3>2, <2>3, <2>4, <1>2 DEF Behind
    <3>4. Ahead(d)'
      BY <3>1, <2>1, <2>6, <1>2 DEF Ahead
    <3> QED BY <3>2, <3>3, <3>4, <2>3 DEF OrdinalsInv
  <2>8. CASE b \in OpenOf(d)
    <3>12. PICK end \in Nat : end = dropBase[b] + SizeOf[b] - 1
      BY <2>5, <2>8
    <3>1. b \in Appends /\ DropOf[b] = d
      BY <2>5, <2>8 DEF OpenOf
    <3>2. ASSUME NEW a \in OpenOf(d), a # b PROVE end < dropBase[a]
      <4>1. PICK j \in DOMAIN inFlight : inFlight[j] = a
        BY OpenInFlight
      <4>2. 1 < j
        BY <4>1, <3>2, <1>1
      <4>3. dropBase[b] + SizeOf[b] <= dropBase[a]
        BY <2>1, <2>8, <4>1, <4>2 DEF Ahead
      <4> QED BY <4>3, <2>5, <2>8, <3>12
    <3>3. dropBase[b] = k + 1
      <4>1. k < dropBase[b] /\ end <= dropOrder[d]
        BY <2>1, <2>4, <2>8, <3>12 DEF Behind, Ahead
      <4>2. k < dropOrder[d]
        BY <4>1, <2>5, <2>8, <3>12
      <4>3. PICK a \in OpenOf(d) : dropBase[a] = k + 1
        BY <4>2, <2>4 DEF Behind
      <4> QED BY <4>1, <4>3, <3>2, <3>12, <2>5, <2>8
    <3>4. CommittedOf(d)' = CommittedOf(d) \cup {b} /\ b \notin CommittedOf(d)
      BY <3>1, <1>2 DEF CommittedOf, Committed, Bundles
    <3>5. \A x : x \in Numbers(b) <=> x \in (k + 1) .. end
      BY <3>1, <3>3, <3>12, <2>5, <2>8, NumbersAre
    <3>6. \A a \in CommittedOf(d) : Numbers(a) \subseteq 1..k
      BY <2>4 DEF Behind
    <3>7. end \in Nat /\ k < end
      BY <3>1, <3>3, <3>12, <2>5, <2>8
    <3>8. UNION {Numbers(a) : a \in CommittedOf(d)}' = 1..end
      <4>1. UNION {Numbers(a) : a \in CommittedOf(d)}' = (UNION {Numbers(a) : a \in CommittedOf(d)}) \cup Numbers(b)
        BY <3>4, <2>3
      <4>2. UNION {Numbers(a) : a \in CommittedOf(d)} = 1..k
        BY <2>4 DEF Behind
      <4> QED BY <4>1, <4>2, <3>5, <3>7
    <3>9. Behind(d, end)'
      <4>1. end <= dropOrder'[d] /\ \A a \in OpenOf(d)' : end < dropBase'[a]
        BY <2>1, <2>2, <2>8, <3>2, <3>12, <1>2 DEF Ahead
      <4>2. ASSUME end < dropOrder'[d] PROVE \E a \in OpenOf(d)' : dropBase'[a] = end + 1
        <5>1. PICK a \in OpenOf(d) : dropBase[a] = end + 1
          BY <4>2, <2>1, <2>8, <3>12, <1>2 DEF Ahead
        <5>2. a # b
          BY <5>1, <3>3, <3>7
        <5> QED BY <5>1, <5>2, <2>2, <1>2
      <4> QED BY <3>8, <4>1, <4>2 DEF Behind
    <3>10. Ahead(d)'
      <4>1. ASSUME NEW a \in OpenOf(d)'
            PROVE  /\ dropBase'[a] + SizeOf[a] - 1 <= dropOrder'[d]
                   /\ dropBase'[a] + SizeOf[a] - 1 < dropOrder'[d] =>
                        \E c \in OpenOf(d)' : dropBase'[c] = dropBase'[a] + SizeOf[a] - 1 + 1
        <5>1. a \in OpenOf(d) /\ a # b /\ end < dropBase[a]
          BY <4>1, <2>2, <3>2
        <5>2. dropBase[a] + SizeOf[a] - 1 <= dropOrder[d]
          BY <5>1, <2>1 DEF Ahead
        <5>3. ASSUME dropBase[a] + SizeOf[a] - 1 < dropOrder[d]
              PROVE  \E c \in OpenOf(d)' : dropBase[c] = dropBase[a] + SizeOf[a] - 1 + 1
          <6>1. PICK c \in OpenOf(d) : dropBase[c] = dropBase[a] + SizeOf[a] - 1 + 1
            BY <5>1, <5>3, <2>1 DEF Ahead
          <6>2. c # b
            BY <5>1, <6>1, <3>3, <3>7, <2>5
          <6> QED BY <6>1, <6>2, <2>2
        <5> QED BY <5>2, <5>3, <1>2
      <4> QED BY <4>1, <2>6 DEF Ahead
    <3>11. \A a, c \in CommittedOf(d)' : a # c => Numbers(a)' \cap Numbers(c)' = {}
      <4>1. \A a \in CommittedOf(d) : Numbers(a) \cap Numbers(b) = {}
        BY <3>5, <3>6
      <4> QED BY <4>1, <3>4, <2>3 DEF OrdinalsInv
    <3> QED BY <3>7, <3>9, <3>10, <3>11
  <2> QED BY <2>7, <2>8
<1> QED BY <1>4, <1>5 DEF OrdinalsInv

(* The first open snapshot is rolled back: the ordinals up to those of the *)
(* committed bundles stay, and all open snapshots will be rolled back.     *)
LEMMA OrdinalsGivenBack ==
    ASSUME BuildInv, OrdinalsTyped, OrdinalsInv, BuildInv', NEW b \in Bundles,
           EndsAs(b, "rolledBack"),
           1 \in DOMAIN inFlight, inFlight[1] = b, inFlight' = RemoveAt(inFlight, 1)
    PROVE  OrdinalsTyped' /\ OrdinalsInv'
<1> DEFINE n == Len(inFlight)
<1>1. /\ DOMAIN inFlight = 1 .. n /\ n \in Nat
      /\ DOMAIN inFlight' = 1 .. n - 1
      /\ inFlight' \in Seq(Bundles) /\ Len(inFlight') = n - 1
      /\ \A i \in 1 .. n - 1 : inFlight'[i] = inFlight[i + 1]
  BY FirstRemoved DEF BuildInv, ChainTyped
<1>2. /\ \A c \in Bundles : c # b => pc'[c] = pc[c] /\ fate'[c] = fate[c]
      /\ pc'[b] = "signal" /\ fate'[b] = "rolledBack" /\ fate[b] = "none" /\ pc[b] \in Active
      /\ UNCHANGED <<prev, ready>>
  BY DEF BuildInv, ChainTyped, EndsAs, EndSnapshot, ChainInv, BundleFits, Active
<1>3. inFlight' # <<>> => HeadDoomed'
  BY DoomedNext
<1>4. /\ b \notin Appends => UNCHANGED <<dropOrder, dropBase>>
      /\ b \in Appends =>
            /\ dropOrder' = [dropOrder EXCEPT ![DropOf[b]] =
                                IF dropBase[b] - 1 < @ THEN dropBase[b] - 1 ELSE @]
            /\ dropBase' = [dropBase EXCEPT ![b] = 0]
  BY DEF EndsAs, UndoWrite, ApplyRollback
<1>5. ASSUME b \in Appends PROVE dropBase[b] \in Nat /\ dropBase[b] >= 1 /\ DropOf[b] \in Drops
  <2>1. dropBase[b] \in Nat /\ DropOf[b] \in Drops /\ b \in OpenOf(DropOf[b])
    BY <1>2, <1>5, SizesAre DEF OrdinalsTyped, OpenOf
  <2>2. PICK k \in Nat : Behind(DropOf[b], k)
    BY <2>1 DEF OrdinalsInv
  <2> QED BY <2>1, <2>2 DEF Behind
<1>6. OrdinalsTyped'
  BY <1>4, <1>5 DEF OrdinalsTyped
<1>7. ASSUME NEW d \in Drops
      PROVE  /\ (\E k \in Nat : Behind(d, k))'
             /\ ~HeadDoomed' => Ahead(d)'
             /\ \A a, c \in CommittedOf(d)' : a # c => Numbers(a)' \cap Numbers(c)' = {}
  <2>1. CommittedOf(d)' = CommittedOf(d) /\ b \notin CommittedOf(d) /\ CommittedOf(d) \subseteq Appends
    BY <1>2 DEF CommittedOf, Committed
  <2>2. \A a \in Appends : a # b => dropBase'[a] = dropBase[a]
    BY <1>4 DEF OrdinalsTyped
  <2>3. \A a \in CommittedOf(d) : Numbers(a)' = Numbers(a)
    BY <2>1, <2>2 DEF Numbers
  <2>4. OpenOf(d)' = OpenOf(d) \ {b} /\ OpenOf(d) \subseteq Appends
    BY <1>2 DEF OpenOf, Bundles, Active
  <2>5. PICK k \in Nat : Behind(d, k)
    BY DEF OrdinalsInv
  <2>6. /\ dropOrder[d] \in Nat /\ dropOrder'[d] \in Nat
        /\ dropOrder'[d] = IF b \in OpenOf(d) /\ dropBase[b] - 1 < dropOrder[d]
                           THEN dropBase[b] - 1 ELSE dropOrder[d]
    <3>1. b \in OpenOf(d) <=> b \in Appends /\ DropOf[b] = d
      BY <1>2 DEF OpenOf
    <3> QED BY <3>1, <1>4, <1>6 DEF OrdinalsTyped
  <2>7. b \in OpenOf(d) => k < dropBase[b] /\ dropBase[b] \in Nat
    BY <2>4, <2>5, <1>5 DEF Behind
  <2>8. Behind(d, k)'
    <3>1. UNION {Numbers(a) : a \in CommittedOf(d)}' = 1..k
      BY <2>1, <2>3, <2>5 DEF Behind
    <3>2. k <= dropOrder'[d]
      BY <2>5, <2>6, <2>7 DEF Behind
    <3>3. \A a \in OpenOf(d)' : k < dropBase'[a]
      BY <2>2, <2>4, <2>5 DEF Behind
    <3>4. ASSUME k < dropOrder'[d] PROVE \E a \in OpenOf(d)' : dropBase'[a] = k + 1
      <4>1. k < dropOrder[d]
        BY <3>4, <2>6
      <4>2. PICK a \in OpenOf(d) : dropBase[a] = k + 1
        BY <4>1, <2>5 DEF Behind
      <4>3. a # b
        BY <4>2, <3>4, <2>6, <2>7
      <4> QED BY <4>2, <4>3, <2>2, <2>4
    <3> QED BY <3>1, <3>2, <3>3, <3>4 DEF Behind
  <2>9. ASSUME ~HeadDoomed' PROVE Ahead(d)'
    <3>1. inFlight' = <<>>
      BY <2>9, <1>3
    <3>2. DOMAIN inFlight' = {}
      BY <3>1
    <3>3. \A a \in Bundles : pc'[a] \notin Active
      BY <3>2 DEF BuildInv, ChainInv, QueueFits, InFlight
    <3>4. OpenOf(d)' = {}
      BY <3>3 DEF OpenOf, Bundles
    <3> QED BY <3>2, <3>4 DEF Ahead
  <2> QED BY <2>1, <2>3, <2>8, <2>9 DEF OrdinalsInv
<1> QED BY <1>6, <1>7 DEF OrdinalsInv

LEMMA OrdinalsInit == Init => OrdinalsTyped /\ OrdinalsInv
<1> SUFFICES ASSUME Init PROVE OrdinalsTyped /\ OrdinalsInv
  OBVIOUS
<1>1. OrdinalsTyped
  BY DEF Init, OrdinalsTyped
<1>2. \A a \in Appends : fate[a] # "committed" /\ pc[a] \notin Active
  BY BundlesApart DEF Init, Bundles, Active
<1>3. ASSUME NEW d \in Drops
      PROVE  OpenOf(d) = {} /\ CommittedOf(d) = {} /\ dropOrder[d] = 0
  BY <1>2 DEF OpenOf, CommittedOf, Committed, Init
<1>4. ASSUME NEW d \in Drops PROVE Behind(d, 0) /\ Ahead(d)
  BY <1>3 DEF Behind, Ahead
<1> QED BY <1>1, <1>3, <1>4 DEF OrdinalsInv

LEMMA OrdinalsNext ==
    BuildInv /\ OrdinalsTyped /\ OrdinalsInv /\ [Next]_vars => OrdinalsTyped' /\ OrdinalsInv'
<1> SUFFICES ASSUME BuildInv, OrdinalsTyped, OrdinalsInv, [Next]_vars
             PROVE  OrdinalsTyped' /\ OrdinalsInv'
  OBVIOUS
<1>1. BuildInv'
  BY BuildNext
<1>2. ASSUME Quiet PROVE OrdinalsTyped' /\ OrdinalsInv'
  <2>1. \A a \in Appends : /\ pc'[a] \in Active <=> pc[a] \in Active
                           /\ fate'[a] = "committed" <=> fate[a] = "committed"
    BY <1>2 DEF Quiet, Bundles
  <2> QED BY <1>2, <2>1, OrdinalsKept DEF Quiet
<1>3. ASSUME NEW b \in Bundles, Writes(b) PROVE OrdinalsTyped' /\ OrdinalsInv'
  BY <1>1, <1>3, OrdinalsTaken DEF Writes
<1>4. ASSUME NEW b \in Bundles, NEW end \in {"committed", "rolledBack"}, Ends(b, end)
      PROVE  OrdinalsTyped' /\ OrdinalsInv'
  <2>1. 1 \in DOMAIN inFlight /\ inFlight[1] = b /\ inFlight' = RemoveAt(inFlight, 1)
    BY <1>4, EndInv DEF Ends
  <2>2. CASE end = "committed"
    BY <1>1, <1>4, <2>1, <2>2, OrdinalsCommitted DEF Ends
  <2>3. CASE end = "rolledBack"
    BY <1>1, <1>4, <2>1, <2>3, OrdinalsGivenBack DEF Ends
  <2> QED BY <2>2, <2>3
<1> QED BY <1>2, <1>3, <1>4, StepKinds DEF WriteFails

-----------------------------------------------------------------------------
(***************************************************************************)
(* The places in the directories.                                          *)
(***************************************************************************)
LEMMA PlacesAre ==
    /\ Reserved \notin Bundles /\ Bundles \subseteq DirEntries
    /\ \A b \in Bundles : Section(b) \in Sections /\ Size(b) \in Nat /\ Size(b) >= 1
<1>1. Reserved \notin {PlashStart, SectionSummary, PlashSummary}
  BY DEF Reserved, PlashStart, SectionSummary, PlashSummary
<1>2. ASSUME NEW d PROVE LineSummary(d) # Reserved /\ DropSummary(d) # Reserved
  <2>1. Len(Reserved) = 1 /\ Len(LineSummary(d)) = 2 /\ Len(DropSummary(d)) = 2
    BY DEF Reserved, LineSummary, DropSummary
  <2> QED BY <2>1
<1>3. Reserved \notin Appends
  BY BundlesAssumption
<1>4. Reserved \notin Bundles
  BY <1>1, <1>2, <1>3 DEF Bundles, Controls
<1>5. \A b \in Bundles : Section(b) \in Sections /\ Size(b) \in Nat /\ Size(b) >= 1
  BY PlashAssumption DEF Section, Sections, Size
<1> QED BY <1>4, <1>5 DEF DirEntries

LEMMA EntriesAre ==
    ASSUME PlacesTyped, NEW b \in Bundles
    PROVE  \A x : x \in EntriesOf(b) <=> x \in Nat /\ dirIndex[b] <= x /\ x < dirIndex[b] + Size(b)
<1>1. dirIndex[b] \in Nat /\ Size(b) \in Nat
  BY PlacesAre DEF PlacesTyped
<1>2. ASSUME NEW x \in Nat, dirIndex[b] <= x, x < dirIndex[b] + Size(b)
      PROVE  x \in EntriesOf(b)
  <2>1. x - dirIndex[b] \in 0..(Size(b) - 1) /\ x = dirIndex[b] + (x - dirIndex[b])
    BY <1>1, <1>2
  <2> QED BY <2>1 DEF EntriesOf
<1>3. ASSUME NEW x \in EntriesOf(b)
      PROVE  x \in Nat /\ dirIndex[b] <= x /\ x < dirIndex[b] + Size(b)
  BY <1>1, <1>3 DEF EntriesOf
<1> QED BY <1>2, <1>3

(* What the steps that take and give back no places leave as it is. *)
LEMMA PlacesKept ==
    ASSUME PlacesTyped, PlacesInv, PlacesTyped', HeadDoomed => HeadDoomed',
           UNCHANGED <<dirIndex, inFlight>>, storage = "broken" => storage' = "broken",
           \A s \in Sections :
              /\ EndOf(s)' = EndOf(s)
              /\ \A i \in 1 .. EndOf(s) - 1 : GetDirEntry(dir'[s], i) = GetDirEntry(dir[s], i),
           \A b \in Bundles : /\ pc'[b] \in Active <=> pc[b] \in Active
                              /\ fate'[b] = "committed" <=> fate[b] = "committed"
    PROVE  PlacesInv'
<1>1. ASSUME NEW s \in Sections
      PROVE  /\ (\E k \in Nat : Below(s, k))'
             /\ ~HeadDoomed' => Above(s)'
  <2>1. OpenIn(s)' = OpenIn(s) /\ CommittedIn(s)' = CommittedIn(s)
    BY DEF OpenIn, CommittedIn, Committed
  <2>2. \A b : EntriesOf(b)' = EntriesOf(b)
    BY DEF EntriesOf
  <2>3. PICK k \in Nat : Below(s, k)
    BY DEF PlacesInv
  <2>4. EndOf(s) \in Nat /\ EndOf(s)' = EndOf(s)
    BY DirectoryFacts DEF PlacesTyped, EndOf
  <2>5. \A i \in 1 .. EndOf(s) - 1 : GetDirEntry(dir[s], i)' = GetDirEntry(dir[s], i)
    OBVIOUS
  <2>6. \A i \in 1 .. k : i \in 1 .. EndOf(s) - 1
    BY <2>3, <2>4 DEF Below
  <2>7. Mended' => Mended
    BY DEF Mended
  <2>8. \A b \in CommittedIn(s) : \A i \in EntriesOf(b) :
          i \in 1..k /\ GetDirEntry(dir[s], i)' = b
    BY <2>3, <2>5, <2>6 DEF Below
  <2>9. \A i \in 1..k : GetDirEntry(dir[s], i)' \in CommittedIn(s)
                       /\ i \in EntriesOf(GetDirEntry(dir[s], i)')
    BY <2>3, <2>5, <2>6 DEF Below
  <2>10. /\ k < EndOf(s)
         /\ \A b \in OpenIn(s) : k < dirIndex[b]
         /\ k + 1 < EndOf(s) /\ Mended => \E b \in OpenIn(s) : dirIndex[b] = k + 1
    BY <2>3 DEF Below
  <2>11. Below(s, k)'
    <3>1. (\A i \in 1..k : GetDirEntry(dir[s], i) \in CommittedIn(s)
                       /\ i \in EntriesOf(GetDirEntry(dir[s], i)))'
      BY <2>1, <2>2, <2>9
    <3> QED BY <2>1, <2>2, <2>4, <2>7, <2>8, <2>10, <3>1 DEF Below
  <2>12. ASSUME Above(s) PROVE Above(s)'
    <3>1. ASSUME NEW b \in OpenIn(s), NEW i \in EntriesOf(b)
          PROVE  GetDirEntry(dir[s], i)' = b
      <4>1. b \in Bundles /\ dirIndex[b] + Size(b) <= EndOf(s) /\ GetDirEntry(dir[s], i) = b
        BY <2>12, <3>1 DEF Above, OpenIn
      <4>2. i \in Nat /\ i < EndOf(s) /\ k < i
        BY <4>1, <2>4, <2>10, <3>1, EntriesAre, PlacesAre DEF PlacesTyped
      <4>3. i \in 1 .. EndOf(s) - 1
        BY <4>2, <2>4
      <4> QED BY <4>1, <4>3, <2>5
    <3> QED BY <3>1, <2>1, <2>2, <2>4, <2>12 DEF Above
  <2> QED BY <2>11, <2>12 DEF PlacesInv
<1> QED BY <1>1 DEF PlacesInv

(* A new bundle takes the entries after the last ones of its section. *)
LEMMA PlacesTaken ==
    ASSUME BuildInv, PlacesTyped, PlacesInv, NEW b \in Bundles,
           pc[b] \in {"idle", "checked"}, WriteBundle(b)
    PROVE  PlacesTyped' /\ PlacesInv'
<1> DEFINE n == Len(inFlight)
<1>1. /\ DOMAIN inFlight = 1 .. n /\ n \in Nat
      /\ DOMAIN inFlight' = 1 .. n + 1
      /\ \A i \in 1 .. n : inFlight'[i] = inFlight[i] /\ inFlight[i] \in Bundles
      /\ inFlight'[n + 1] = b
  BY QueueAppended DEF BuildInv, ChainTyped, WriteBundle
<1>2. /\ \A c \in Bundles : c # b => pc'[c] = pc[c]
      /\ pc'[b] = "apply" /\ fate' = fate /\ fate[b] = "none" /\ pc[b] \notin Active
  BY BundlesApart DEF BuildInv, ChainTyped, WriteBundle, ChainInv, BundleFits, Active
<1>3. HeadDoomed => HeadDoomed'
  BY DoomWritten
<1> DEFINE e == Section(b)
           last == EndOf(e)
           z == Size(b)
<1>4. e \in Sections /\ z \in Nat /\ z >= 1 /\ b \in DirEntries
  BY PlacesAre
<1>5. IsDirectory(dir[e], DirEntries) /\ last \in Nat
  BY <1>4, DirectoryFacts DEF PlacesTyped, EndOf
<1>6. /\ IsDirectory(AppendEntries(dir[e], b, z), DirEntries)
      /\ GetNextDirectoryIndex(AppendEntries(dir[e], b, z)) = last + z
      /\ \A i \in 0 .. last - 1 : GetDirEntry(AppendEntries(dir[e], b, z), i) = GetDirEntry(dir[e], i)
      /\ \A i \in last .. last + z - 1 : GetDirEntry(AppendEntries(dir[e], b, z), i) = b
  BY <1>4, <1>5, EntriesAppended DEF EndOf
<1>7. /\ dirIndex' = [dirIndex EXCEPT ![b] = last]
      /\ dir' = [dir EXCEPT ![e] = AppendEntries(@, b, z)]
      /\ storage = "writable" /\ storage' = storage
  BY DEF WriteBundle, PrepareWrite, EndOf
<1>8. /\ dir'[e] = AppendEntries(dir[e], b, z) /\ \A s \in Sections : s # e => dir'[s] = dir[s]
      /\ dirIndex'[b] = last /\ \A c \in Bundles : c # b => dirIndex'[c] = dirIndex[c]
      /\ dirIndex' \in [Bundles -> Nat]
  BY <1>4, <1>5, <1>7 DEF PlacesTyped
<1>9. PlacesTyped'
  <2>1. AppendEntries(dir[e], b, z) \in Seq(Seq(DirEntries))
    BY <1>6 DEF IsDirectory
  <2>2. dir' \in [Sections -> Seq(Seq(DirEntries))]
    BY <1>7, <2>1, <1>4 DEF PlacesTyped
  <2>3. \A s \in Sections : IsDirectory(dir'[s], DirEntries)
    BY <1>6, <1>8 DEF PlacesTyped
  <2> QED BY <1>8, <2>2, <2>3 DEF PlacesTyped
<1>10. /\ EndOf(e)' = last + z
       /\ \A i \in 0 .. last - 1 : GetDirEntry(dir'[e], i) = GetDirEntry(dir[e], i)
       /\ \A i \in last .. last + z - 1 : GetDirEntry(dir'[e], i) = b
       /\ \A s \in Sections : s # e => EndOf(s)' = EndOf(s)
  BY <1>6, <1>8 DEF EndOf
<1>11. /\ \A c \in Bundles : c # b => EntriesOf(c)' = EntriesOf(c)
       /\ \A x : x \in EntriesOf(b)' <=> x \in Nat /\ last <= x /\ x < last + z
  <2>1. \A x : x \in EntriesOf(b)' <=> x \in Nat /\ dirIndex'[b] <= x /\ x < dirIndex'[b] + Size(b)
    <3> DEFINE base == dirIndex'[b]
    <3>1. EntriesOf(b)' = {base + i : i \in 0..(z - 1)}
      BY DEF EntriesOf
    <3>2. base \in Nat
      BY <1>8
    <3> HIDE DEF base, z
    <3>3. ASSUME NEW x \in Nat, base <= x, x < base + z
          PROVE  x \in {base + i : i \in 0..(z - 1)}
      <4>1. x - base \in 0..(z - 1) /\ x = base + (x - base)
        BY <3>2, <3>3, <1>4
      <4> QED BY <4>1
    <3>4. ASSUME NEW x \in {base + i : i \in 0..(z - 1)}
          PROVE  x \in Nat /\ base <= x /\ x < base + z
      BY <3>2, <3>4, <1>4
    <3> QED BY <3>1, <3>3, <3>4 DEF base, z
  <2> QED BY <2>1, <1>8 DEF EntriesOf
<1> HIDE DEF n, e, last, z
<1>12. ASSUME NEW s \in Sections
       PROVE  /\ (\E k \in Nat : Below(s, k))'
              /\ ~HeadDoomed' => Above(s)'
  <2>1. CommittedIn(s)' = CommittedIn(s) /\ b \notin CommittedIn(s) /\ CommittedIn(s) \subseteq Bundles
    BY <1>2 DEF CommittedIn, Committed
  <2>2. OpenIn(s)' = IF s = e THEN OpenIn(s) \cup {b} ELSE OpenIn(s)
    BY <1>2 DEF OpenIn, Active, e
  <2>3. OpenIn(s) \subseteq Bundles /\ b \notin OpenIn(s)
    BY <1>2 DEF OpenIn
  <2>4. PICK k \in Nat : Below(s, k)
    BY DEF PlacesInv
  <2>5. PICK m \in Nat : m = EndOf(s)
    BY DirectoryFacts DEF PlacesTyped, EndOf
  <2>6. PICK m2 \in Nat : m2 = EndOf(s)'
    BY <1>9, DirectoryFacts DEF PlacesTyped, EndOf
  <2>7. k < m /\ m <= m2 /\ (s # e => m2 = m) /\ (s = e => m = last /\ m2 = last + z)
    BY <2>4, <2>5, <2>6, <1>4, <1>10 DEF Below, last
  <2>8. \A i \in 1 .. m - 1 : GetDirEntry(dir'[s], i) = GetDirEntry(dir[s], i)
    BY <2>5, <2>7, <1>8, <1>10
  <2>9. \A i \in 1 .. k : i \in 1 .. m - 1
    BY <2>7
  <2>10. \A c \in OpenIn(s) : dirIndex'[c] = dirIndex[c] /\ EntriesOf(c)' = EntriesOf(c)
    BY <2>3, <1>8, <1>11
  <2>11. Below(s, k)'
    <3>1. \A i \in 1..k : GetDirEntry(dir'[s], i) \in CommittedIn(s)'
                       /\ (i \in EntriesOf(GetDirEntry(dir[s], i)))'
      <4> SUFFICES ASSUME NEW i \in 1 .. k
                   PROVE  GetDirEntry(dir'[s], i) \in CommittedIn(s)'
                       /\ (i \in EntriesOf(GetDirEntry(dir[s], i)))'
        OBVIOUS
      <4>1. PICK c : c = GetDirEntry(dir[s], i) /\ c = GetDirEntry(dir'[s], i)
        BY <2>8, <2>9
      <4>2. c \in CommittedIn(s) /\ i \in EntriesOf(c)
        BY <4>1, <2>4 DEF Below
      <4>3. EntriesOf(c)' = EntriesOf(c)
        BY <4>2, <2>1, <1>11
      <4>4. i \in EntriesOf(c)'
        BY <4>2, <4>3
      <4> QED BY <4>1, <4>2, <4>4, <2>1 DEF EntriesOf
    <3>2. \A c \in CommittedIn(s)' : \A i \in EntriesOf(c)' :
            i \in 1..k /\ GetDirEntry(dir'[s], i) = c
      <4> SUFFICES ASSUME NEW c \in CommittedIn(s), NEW i \in EntriesOf(c)'
                   PROVE  i \in 1..k /\ GetDirEntry(dir'[s], i) = c
        BY <2>1
      <4>1. i \in EntriesOf(c)
        BY <2>1, <1>11
      <4>2. i \in 1..k /\ GetDirEntry(dir[s], i) = c
        BY <4>1, <2>4 DEF Below
      <4> QED BY <4>2, <2>8, <2>9
    <3>3. k < m2
      BY <2>7
    <3>4. ASSUME NEW c \in OpenIn(s)' PROVE k < dirIndex'[c]
      <4>1. CASE c = b
        BY <4>1, <3>4, <2>2, <2>3, <2>7, <1>8
      <4>2. CASE c # b
        <5>1. c \in OpenIn(s)
          BY <4>2, <3>4, <2>2
        <5> QED BY <5>1, <2>4, <2>10 DEF Below
      <4> QED BY <4>1, <4>2
    <3>5. ASSUME k + 1 < m2 PROVE \E c \in OpenIn(s)' : dirIndex'[c] = k + 1
      <4>1. CASE k + 1 < m
        <5>1. Mended
          BY <1>7 DEF Mended
        <5>2. PICK c \in OpenIn(s) : dirIndex[c] = k + 1
          BY <4>1, <5>1, <2>4, <2>5 DEF Below
        <5> QED BY <5>2, <2>2, <2>10
      <4>2. CASE ~ (k + 1 < m)
        <5>1. s = e /\ last = k + 1
          BY <4>2, <3>5, <2>7
        <5> QED BY <5>1, <2>2, <1>8
      <4> QED BY <4>1, <4>2
    <3> QED BY <3>1, <3>2, <3>3, <3>4, <3>5, <2>6 DEF Below
  <2>12. ASSUME ~HeadDoomed' PROVE Above(s)'
    <3>1. Above(s)
      BY <2>12, <1>3 DEF PlacesInv
    <3>2. \A c \in OpenIn(s) : dirIndex[c] \in Nat /\ Size(c) \in Nat /\ Size(c) >= 1
      BY <2>3, PlacesAre DEF PlacesTyped
    <3>3. \A c \in OpenIn(s) : dirIndex[c] + Size(c) <= m
      BY <3>1, <2>5 DEF Above
    <3>4. ASSUME NEW c \in OpenIn(s)'
          PROVE  /\ dirIndex'[c] + Size(c) <= m2
                 /\ \A i \in EntriesOf(c)' : GetDirEntry(dir'[s], i) = c
                 /\ dirIndex'[c] + Size(c) < m2 =>
                      \E d \in OpenIn(s)' : dirIndex'[d] = dirIndex'[c] + Size(c)
      <4>1. CASE c = b
        <5>1. s = e
          BY <4>1, <3>4, <2>2, <2>3
        <5>2. dirIndex'[c] + Size(c) = m2
          BY <4>1, <5>1, <2>7, <1>8 DEF z
        <5>3. \A i \in EntriesOf(c)' : GetDirEntry(dir'[s], i) = c
          <6> SUFFICES ASSUME NEW i \in EntriesOf(b)' PROVE GetDirEntry(dir'[e], i) = b
            BY <4>1, <5>1
          <6>1. i \in last .. last + z - 1
            BY <1>11, <1>4, <1>5
          <6> QED BY <6>1, <1>10
        <5> QED BY <5>2, <5>3, <2>7
      <4>2. CASE c # b
        <5>1. c \in OpenIn(s) /\ c \in Bundles
          BY <4>2, <3>4, <2>2, <2>3
        <5>2. PICK end \in Nat : end = dirIndex[c] + Size(c) /\ end <= m
          BY <5>1, <3>2, <3>3
        <5>3. dirIndex'[c] + Size(c) = end /\ EntriesOf(c)' = EntriesOf(c)
          BY <5>1, <5>2, <2>10
        <5>4. ASSUME NEW i \in EntriesOf(c) PROVE GetDirEntry(dir'[s], i) = c
          <6>1. GetDirEntry(dir[s], i) = c
            BY <5>1, <5>4, <3>1 DEF Above
          <6>2. i \in Nat /\ i < end /\ dirIndex[c] <= i
            BY <5>1, <5>2, <5>4, EntriesAre
          <6>3. k < dirIndex[c]
            BY <5>1, <2>4 DEF Below
          <6>4. i \in 1 .. m - 1
            BY <6>2, <6>3, <5>1, <5>2, <3>2
          <6> QED BY <6>1, <6>4, <2>8
        <5>5. ASSUME end < m2 PROVE \E d \in OpenIn(s)' : dirIndex'[d] = end
          <6>1. CASE end < m
            <7>1. PICK d \in OpenIn(s) : dirIndex[d] = end
              BY <6>1, <5>1, <5>2, <3>1, <2>5 DEF Above
            <7> QED BY <7>1, <2>2, <2>10
          <6>2. CASE end = m
            <7>1. s = e /\ last = end
              BY <6>2, <5>5, <2>7
            <7> QED BY <7>1, <2>2, <1>8
          <6> QED BY <6>1, <6>2, <5>2
        <5> QED BY <5>2, <5>3, <5>4, <5>5, <2>7
      <4> QED BY <4>1, <4>2
    <3>5. ASSUME NEW i \in DOMAIN inFlight', NEW j \in DOMAIN inFlight', i < j,
                 inFlight'[i] \in OpenIn(s)', inFlight'[j] \in OpenIn(s)'
          PROVE  dirIndex'[inFlight'[i]] + Size(inFlight'[i]) <= dirIndex'[inFlight'[j]]
      <4>1. i \in 1 .. n /\ inFlight'[i] = inFlight[i]
        BY <3>5, <1>1
      <4>2. inFlight[i] # b
        BY <4>1, <1>1, <1>2 DEF BuildInv, ChainInv, QueueFits, InFlight
      <4>3. inFlight[i] \in OpenIn(s)
        BY <3>5, <4>1, <4>2, <2>2
      <4>4. CASE j \in 1 .. n
        <5>1. inFlight[j] # b /\ inFlight'[j] = inFlight[j]
          BY <4>4, <1>1, <1>2 DEF BuildInv, ChainInv, QueueFits, InFlight
        <5>2. inFlight[j] \in OpenIn(s)
          BY <3>5, <5>1, <2>2
        <5> QED BY <3>1, <3>5, <4>1, <4>3, <4>4, <5>1, <5>2, <2>10, <1>1 DEF Above
      <4>5. CASE j \notin 1 .. n
        <5>1. inFlight'[j] = b
          BY <4>5, <3>5, <1>1
        <5>2. s = e
          BY <5>1, <3>5, <2>2, <2>3
        <5> QED BY <5>1, <5>2, <4>1, <4>3, <3>3, <2>7, <2>10, <1>8
      <4> QED BY <4>4, <4>5
    <3> QED BY <3>4, <3>5, <2>6 DEF Above
  <2> QED BY <2>11, <2>12
<1> QED BY <1>9, <1>12 DEF PlacesInv

(* An open bundle is one of the open snapshots. *)
LEMMA OpenInQueue ==
    ASSUME BuildInv, NEW s, NEW b \in OpenIn(s)
    PROVE  \E i \in DOMAIN inFlight : inFlight[i] = b
BY DEF BuildInv, ChainInv, QueueFits, InFlight, OpenIn

(* The first open snapshot is committed: its entries are the next ones. *)
LEMMA PlacesCommitted ==
    ASSUME BuildInv, PlacesTyped, PlacesInv, NEW b \in Bundles, EndsAs(b, "committed"),
           1 \in DOMAIN inFlight, inFlight[1] = b, inFlight' = RemoveAt(inFlight, 1)
    PROVE  PlacesTyped' /\ PlacesInv'
<1> DEFINE n == Len(inFlight)
<1>1. /\ DOMAIN inFlight = 1 .. n /\ n \in Nat
      /\ DOMAIN inFlight' = 1 .. n - 1
      /\ \A i \in 1 .. n - 1 : inFlight'[i] = inFlight[i + 1]
  BY FirstRemoved DEF BuildInv, ChainTyped
<1>2. /\ \A c \in Bundles : c # b => pc'[c] = pc[c] /\ fate'[c] = fate[c]
      /\ pc'[b] = "signal" /\ fate'[b] = "committed" /\ fate[b] = "none" /\ pc[b] \in Active
      /\ UNCHANGED <<dir, dirIndex, storage>>
  BY DEF BuildInv, ChainTyped, EndsAs, EndSnapshot, storageVars, ChainInv, BundleFits, Active
<1>3. ~HeadDoomed /\ Mended
  <2>1. ~Doomed(b)
    BY NotDoomed DEF BuildInv, EndsAs
  <2>2. inFlight # <<>>
    BY <1>1
  <2> QED BY <2>1, <2>2 DEF HeadDoomed, Mended
<1>4. PlacesTyped'
  BY <1>2 DEF PlacesTyped
<1> HIDE DEF n
<1>5. ASSUME NEW s \in Sections
      PROVE  /\ (\E k \in Nat : Below(s, k))'
             /\ ~HeadDoomed' => Above(s)'
  <2>1. Above(s)
    BY <1>3 DEF PlacesInv
  <2>2. OpenIn(s)' = OpenIn(s) \ {b}
    BY <1>2 DEF OpenIn, Active
  <2>3. (\A c : EntriesOf(c)' = EntriesOf(c)) /\ EndOf(s)' = EndOf(s)
    BY <1>2 DEF EntriesOf, EndOf
  <2>4. PICK k \in Nat : Below(s, k)
    BY DEF PlacesInv
  <2>5. PICK m \in Nat : m = EndOf(s)
    BY DirectoryFacts DEF PlacesTyped, EndOf
  <2>6. \A a \in OpenIn(s) : a \in Bundles /\ dirIndex[a] \in Nat /\ Size(a) \in Nat /\ Size(a) >= 1
    BY PlacesAre DEF PlacesTyped, OpenIn
  <2>7. ASSUME NEW i \in DOMAIN inFlight', NEW j \in DOMAIN inFlight', i < j,
               inFlight'[i] \in OpenIn(s)', inFlight'[j] \in OpenIn(s)'
        PROVE  dirIndex'[inFlight'[i]] + Size(inFlight'[i]) <= dirIndex'[inFlight'[j]]
    <3>1. i + 1 \in DOMAIN inFlight /\ j + 1 \in DOMAIN inFlight /\ i + 1 < j + 1
          /\ inFlight'[i] = inFlight[i + 1] /\ inFlight'[j] = inFlight[j + 1]
      BY <2>7, <1>1
    <3> QED BY <2>1, <2>2, <2>7, <3>1, <1>2 DEF Above
  <2>8. CASE b \notin OpenIn(s)
    <3>1. OpenIn(s)' = OpenIn(s)
      BY <2>2, <2>8
    <3>2. CommittedIn(s)' = CommittedIn(s)
      BY <2>8, <1>2 DEF OpenIn, CommittedIn, Committed
    <3>3. Below(s, k)'
      <4>1. (\A i \in 1..k : GetDirEntry(dir[s], i) \in CommittedIn(s)
                             /\ i \in EntriesOf(GetDirEntry(dir[s], i)))'
        BY <3>2, <2>3, <2>4, <1>2 DEF Below
      <4>2. (\A c \in CommittedIn(s) : \A i \in EntriesOf(c) :
                i \in 1..k /\ GetDirEntry(dir[s], i) = c)'
        BY <3>2, <2>3, <2>4, <1>2 DEF Below
      <4> QED BY <4>1, <4>2, <3>1, <2>3, <2>4, <1>2, <1>3 DEF Below
    <3>4. Above(s)'
      BY <3>1, <2>1, <2>3, <2>7, <1>2 DEF Above
    <3> QED BY <3>3, <3>4
  <2>9. CASE b \in OpenIn(s)
    <3>1. PICK end \in Nat : end + 1 = dirIndex[b] + Size(b)
      <4>1. dirIndex[b] + Size(b) - 1 \in Nat /\ (dirIndex[b] + Size(b) - 1) + 1 = dirIndex[b] + Size(b)
        BY <2>6, <2>9
      <4> QED BY <4>1
    <3>2. Section(b) = s /\ end + 1 <= m /\ k < dirIndex[b] /\ dirIndex[b] \in Nat /\ dirIndex[b] <= end
      BY <2>1, <2>4, <2>5, <2>6, <2>9, <3>1 DEF OpenIn, Above, Below
    <3>3. ASSUME NEW a \in OpenIn(s), a # b PROVE end < dirIndex[a]
      <4>1. PICK j \in DOMAIN inFlight : inFlight[j] = a
        BY OpenInQueue
      <4>2. 1 < j
        BY <4>1, <3>3, <1>1
      <4>3. dirIndex[b] + Size(b) <= dirIndex[a]
        BY <2>1, <2>9, <4>1, <4>2 DEF Above
      <4> QED BY <4>3, <2>6, <3>1
    <3>4. dirIndex[b] = k + 1
      <4>1. k + 1 < m
        BY <3>2
      <4>2. PICK a \in OpenIn(s) : dirIndex[a] = k + 1
        BY <4>1, <2>4, <2>5, <1>3 DEF Below
      <4> QED BY <4>2, <3>2, <3>3
    <3>5. CommittedIn(s)' = CommittedIn(s) \cup {b} /\ b \notin CommittedIn(s)
      BY <3>2, <1>2 DEF CommittedIn, Committed
    <3>6. \A x : x \in EntriesOf(b) <=> x \in (k + 1) .. end
      <4>1. \A x : x \in EntriesOf(b) <=> x \in Nat /\ dirIndex[b] <= x /\ x < dirIndex[b] + Size(b)
        BY EntriesAre
      <4> QED BY <4>1, <3>1, <3>4
    <3>7. k < end
      BY <3>2, <3>4
    <3>8. \A i \in EntriesOf(b) : GetDirEntry(dir[s], i) = b
      BY <2>1, <2>9 DEF Above
    <3>9. Below(s, end)'
      <4>1. ASSUME NEW i \in 1 .. end
            PROVE  GetDirEntry(dir[s], i)' \in CommittedIn(s)' /\ (i \in EntriesOf(GetDirEntry(dir[s], i)))'
        <5>1. PICK c : c = GetDirEntry(dir[s], i) /\ c = GetDirEntry(dir'[s], i)
          BY <1>2
        <5>2. c \in CommittedIn(s)' /\ i \in EntriesOf(c)
          <6>1. CASE i \in 1 .. k
            BY <6>1, <5>1, <3>5, <2>4 DEF Below
          <6>2. CASE i \in (k + 1) .. end
            BY <6>2, <5>1, <3>5, <3>6, <3>8
          <6> QED BY <6>1, <6>2, <3>7
        <5> QED BY <5>1, <5>2, <1>2 DEF EntriesOf
      <4>2. ASSUME NEW c \in CommittedIn(s)', NEW i \in EntriesOf(c)'
            PROVE  i \in 1 .. end /\ GetDirEntry(dir'[s], i) = c
        <5>1. i \in EntriesOf(c)
          BY <4>2, <2>3
        <5>2. CASE c = b
          BY <5>1, <5>2, <3>6, <3>7, <3>8, <1>2
        <5>3. CASE c # b
          <6>1. i \in 1 .. k /\ GetDirEntry(dir[s], i) = c
            BY <5>1, <5>3, <4>2, <3>5, <2>4 DEF Below
          <6> QED BY <6>1, <3>7, <1>2
        <5> QED BY <5>2, <5>3
      <4>3. end < m /\ \A a \in OpenIn(s)' : end < dirIndex'[a]
        BY <2>2, <3>2, <3>3, <1>2
      <4>4. ASSUME end + 1 < m PROVE \E a \in OpenIn(s)' : dirIndex'[a] = end + 1
        <5>1. PICK a \in OpenIn(s) : dirIndex[a] = end + 1
          BY <4>4, <2>1, <2>5, <2>9, <3>1 DEF Above
        <5>2. a # b
          BY <5>1, <3>4, <3>7
        <5> QED BY <5>1, <5>2, <2>2, <1>2
      <4> QED BY <4>1, <4>2, <4>3, <4>4, <2>3, <2>5 DEF Below
    <3>10. Above(s)'
      <4>1. ASSUME NEW a \in OpenIn(s)'
            PROVE  /\ dirIndex[a] + Size(a) <= m
                   /\ \A i \in EntriesOf(a) : GetDirEntry(dir[s], i) = a
                   /\ dirIndex[a] + Size(a) < m =>
                        \E c \in OpenIn(s)' : dirIndex[c] = dirIndex[a] + Size(a)
        <5>1. a \in OpenIn(s) /\ a # b /\ end < dirIndex[a]
          BY <4>1, <2>2, <3>3
        <5>2. dirIndex[a] + Size(a) <= m /\ \A i \in EntriesOf(a) : GetDirEntry(dir[s], i) = a
          BY <5>1, <2>1, <2>5 DEF Above
        <5>3. ASSUME dirIndex[a] + Size(a) < m
              PROVE  \E c \in OpenIn(s)' : dirIndex[c] = dirIndex[a] + Size(a)
          <6>1. PICK c \in OpenIn(s) : dirIndex[c] = dirIndex[a] + Size(a)
            BY <5>1, <5>3, <2>1, <2>5 DEF Above
          <6>2. c # b
            BY <5>1, <6>1, <3>4, <3>7, <2>6
          <6> QED BY <6>1, <6>2, <2>2
        <5> QED BY <5>2, <5>3
      <4>2. (\A a \in OpenIn(s) :
              LET e == dirIndex[a] + Size(a)
              IN /\ e <= EndOf(s)
                 /\ \A i \in EntriesOf(a) : GetDirEntry(dir[s], i) = a
                 /\ e < EndOf(s) => \E c \in OpenIn(s) : dirIndex[c] = e)'
        BY <4>1, <2>3, <2>5, <1>2
      <4> QED BY <4>2, <2>7 DEF Above
    <3> QED BY <3>9, <3>10
  <2> QED BY <2>8, <2>9
<1> QED BY <1>4, <1>5 DEF PlacesInv

(* The first open snapshot is rolled back: the entries of the committed    *)
(* bundles stay, and all open snapshots will be rolled back.               *)
LEMMA PlacesGivenBack ==
    ASSUME BuildInv, PlacesTyped, PlacesInv, BuildInv', NEW b \in Bundles, EndsAs(b, "rolledBack"),
           1 \in DOMAIN inFlight, inFlight[1] = b, inFlight' = RemoveAt(inFlight, 1)
    PROVE  PlacesTyped' /\ PlacesInv'
<1>1. /\ \A c \in Bundles : c # b => pc'[c] = pc[c] /\ fate'[c] = fate[c]
      /\ pc'[b] = "signal" /\ fate'[b] = "rolledBack" /\ fate[b] = "none" /\ pc[b] \in Active
  BY DEF BuildInv, ChainTyped, EndsAs, EndSnapshot, ChainInv, BundleFits, Active
<1>2. inFlight' # <<>> => HeadDoomed'
  BY DoomedNext
<1> DEFINE e == Section(b)
           undone == RollbackDir(dir[e], dirIndex[b])
<1>3. e \in Sections /\ dirIndex[b] \in Nat /\ IsDirectory(dir[e], DirEntries)
  BY PlacesAre DEF PlacesTyped
<1>4. /\ dirIndex' = [dirIndex EXCEPT ![b] = 0]
      /\ storage = "writable" => dir' = [dir EXCEPT ![e] = undone.pages]
      /\ storage # "writable" => storage' = "broken" /\ dir' = dir
      /\ storage = "broken" => storage' = "broken"
  BY DEF EndsAs, UndoWrite, RollbackSnapshot
<1>5. /\ IsDirectory(undone.pages, DirEntries)
      /\ GetNextDirectoryIndex(undone.pages) =
            IF dirIndex[b] < EndOf(e) THEN dirIndex[b] ELSE EndOf(e)
      /\ \A i \in 0 .. GetNextDirectoryIndex(undone.pages) - 1 :
            GetDirEntry(undone.pages, i) = GetDirEntry(dir[e], i)
  <2>1. ASSUME NEW pages, IsDirectory(pages, DirEntries), NEW ord \in Nat
        PROVE  LET after == RollbackDir(pages, ord).pages
                   m == GetNextDirectoryIndex(pages)
               IN  /\ IsDirectory(after, DirEntries)
                   /\ GetNextDirectoryIndex(after) = IF ord < m THEN ord ELSE m
                   /\ \A i \in 0 .. GetNextDirectoryIndex(after) - 1 :
                         GetDirEntry(after, i) = GetDirEntry(pages, i)
    BY <2>1, RolledBack, Zenon
  <2> QED BY <1>3, <2>1 DEF EndOf
<1> HIDE DEF undone
<1>6. PlacesTyped'
  <2>1. undone.pages \in Seq(Seq(DirEntries))
    BY <1>5 DEF IsDirectory
  <2>2. dir' \in [Sections -> Seq(Seq(DirEntries))]
    BY <1>3, <1>4, <2>1 DEF PlacesTyped
  <2>3. \A s \in Sections : IsDirectory(dir'[s], DirEntries)
    BY <1>3, <1>4, <1>5 DEF PlacesTyped
  <2>4. dirIndex' \in [Bundles -> Nat]
    BY <1>4 DEF PlacesTyped
  <2> QED BY <2>2, <2>3, <2>4 DEF PlacesTyped
<1>7. \A c \in Bundles : c # b => dirIndex'[c] = dirIndex[c] /\ EntriesOf(c)' = EntriesOf(c)
  BY <1>4 DEF PlacesTyped, EntriesOf
<1>8. ASSUME NEW s \in Sections
      PROVE  /\ (\E k \in Nat : Below(s, k))'
             /\ ~HeadDoomed' => Above(s)'
  <2>1. CommittedIn(s)' = CommittedIn(s) /\ b \notin CommittedIn(s) /\ CommittedIn(s) \subseteq Bundles
    BY <1>1 DEF CommittedIn, Committed
  <2>2. OpenIn(s)' = OpenIn(s) \ {b} /\ OpenIn(s) \subseteq Bundles
    BY <1>1 DEF OpenIn, Active
  <2>3. PICK k \in Nat : Below(s, k)
    BY DEF PlacesInv
  <2>4. PICK m \in Nat : m = EndOf(s)
    BY DirectoryFacts DEF PlacesTyped, EndOf
  <2>5. PICK m2 \in Nat : m2 = EndOf(s)'
    BY <1>6, DirectoryFacts DEF PlacesTyped, EndOf
  <2>6. b \in OpenIn(s) <=> s = e
    BY <1>1 DEF OpenIn
  <2>7. /\ k < m /\ (b \in OpenIn(s) => k < dirIndex[b])
        /\ \A a \in OpenIn(s) : k < dirIndex[a]
        /\ k + 1 < m /\ Mended => \E a \in OpenIn(s) : dirIndex[a] = k + 1
    BY <2>3, <2>4 DEF Below
  <2>8. /\ m2 <= m /\ k < m2
        /\ storage = "writable" /\ s = e => m2 <= dirIndex[b]
        /\ \A i \in 1 .. m2 - 1 : GetDirEntry(dir'[s], i) = GetDirEntry(dir[s], i)
    <3>1. CASE storage = "writable" /\ s = e
      <4>1. dir'[s] = undone.pages
        BY <3>1, <1>3, <1>4 DEF PlacesTyped
      <4>2. m2 = IF dirIndex[b] < m THEN dirIndex[b] ELSE m
        BY <4>1, <3>1, <2>4, <2>5, <1>5 DEF EndOf
      <4>3. \A i \in 0 .. m2 - 1 : GetDirEntry(dir'[s], i) = GetDirEntry(dir[s], i)
        BY <4>1, <3>1, <2>5, <1>5 DEF EndOf
      <4> QED BY <4>2, <4>3, <3>1, <2>6, <2>7, <1>3
    <3>2. CASE ~ (storage = "writable" /\ s = e)
      <4>1. dir'[s] = dir[s]
        BY <3>2, <1>4 DEF PlacesTyped
      <4>2. m2 = m
        BY <4>1, <2>4, <2>5 DEF EndOf
      <4> QED BY <4>1, <4>2, <3>2, <2>7
    <3> QED BY <3>1, <3>2
  <2>9. \A i \in 1 .. k : i \in 1 .. m2 - 1
    BY <2>8
  <2>10. Below(s, k)'
    <3>1. ASSUME NEW i \in 1 .. k
          PROVE  GetDirEntry(dir[s], i)' \in CommittedIn(s)' /\ (i \in EntriesOf(GetDirEntry(dir[s], i)))'
      <4>1. PICK c : c = GetDirEntry(dir[s], i) /\ c = GetDirEntry(dir'[s], i)
        BY <2>8, <2>9
      <4>2. c \in CommittedIn(s) /\ i \in EntriesOf(c)
        BY <4>1, <2>3 DEF Below
      <4>3. c # b /\ c \in Bundles
        BY <4>2, <2>1
      <4>4. i \in EntriesOf(c)'
        BY <4>2, <4>3, <1>7
      <4> QED BY <4>1, <4>2, <4>4, <2>1 DEF EntriesOf
    <3>2. ASSUME NEW c \in CommittedIn(s)', NEW i \in EntriesOf(c)'
          PROVE  i \in 1 .. k /\ GetDirEntry(dir'[s], i) = c
      <4>1. i \in EntriesOf(c) /\ c \in CommittedIn(s)
        BY <3>2, <2>1, <1>7
      <4>2. i \in 1 .. k /\ GetDirEntry(dir[s], i) = c
        BY <4>1, <2>3 DEF Below
      <4> QED BY <4>2, <2>8, <2>9
    <3>3. \A a \in OpenIn(s)' : k < dirIndex'[a]
      BY <2>2, <2>7, <1>7
    <3>4. ASSUME k + 1 < m2, Mended' PROVE \E a \in OpenIn(s)' : dirIndex'[a] = k + 1
      <4>1. storage' # "broken"
        BY <3>4, <1>2 DEF Mended
      <4>2. storage = "writable" /\ Mended
        BY <4>1, <1>4 DEF Mended
      <4>3. PICK a \in OpenIn(s) : dirIndex[a] = k + 1
        BY <4>2, <3>4, <2>7, <2>8
      <4>4. a # b
        BY <4>2, <4>3, <3>4, <2>6, <2>8
      <4> QED BY <4>3, <4>4, <2>2, <1>7
    <3> QED BY <3>1, <3>2, <3>3, <3>4, <2>5, <2>8 DEF Below
  <2>11. ASSUME ~HeadDoomed' PROVE Above(s)'
    <3>1. DOMAIN inFlight' = {}
      BY <2>11, <1>2
    <3>2. \A a \in Bundles : pc'[a] \notin Active
      BY <3>1 DEF BuildInv, ChainInv, QueueFits, InFlight
    <3>3. OpenIn(s)' = {}
      BY <3>2 DEF OpenIn
    <3> QED BY <3>1, <3>3 DEF Above
  <2> QED BY <2>10, <2>11
<1> QED BY <1>6, <1>8 DEF PlacesInv

LEMMA FirstDirectories ==
    /\ IsDirectory(EmptyDirectory, DirEntries) /\ GetNextDirectoryIndex(EmptyDirectory) = 1
    /\ IsDirectory(SetDirectoryEntry(EmptyDirectory, PlashStart), DirEntries)
    /\ GetNextDirectoryIndex(SetDirectoryEntry(EmptyDirectory, PlashStart)) = 2
    /\ GetDirEntry(SetDirectoryEntry(EmptyDirectory, PlashStart), 1) = PlashStart
<1>1. <<Reserved>> \in Seq(DirEntries) /\ Len(<<Reserved>>) = 1
  BY DEF DirEntries
<1>2. /\ EmptyDirectory \in Seq(Seq(DirEntries)) /\ Len(EmptyDirectory) = 1
      /\ EmptyDirectory[1] = <<Reserved>>
  BY <1>1 DEF EmptyDirectory
<1>3. IsDirectory(EmptyDirectory, DirEntries)
  BY <1>1, <1>2, PageSizeAssumption DEF IsDirectory
<1>4. GetNextDirectoryIndex(EmptyDirectory) = 1
  <2>1. GetNextDirectoryIndex(EmptyDirectory) =
           (Len(EmptyDirectory) - 1) * PageSize + Len(EmptyDirectory[Len(EmptyDirectory)])
    BY <1>3, DirectoryFacts
  <2> QED BY <2>1, <1>1, <1>2, PageSizeAssumption
<1>5. PlashStart \in DirEntries
  BY BundlesApart DEF DirEntries
<1>6. LET other == SetDirectoryEntry(EmptyDirectory, PlashStart)
          n == GetNextDirectoryIndex(EmptyDirectory)
      IN  /\ IsDirectory(other, DirEntries)
          /\ GetNextDirectoryIndex(other) = n + 1
          /\ GetDirEntry(other, n) = PlashStart
  BY <1>3, <1>5, SetEntry
<1> QED BY <1>3, <1>4, <1>6

LEMMA PlacesInit == Init => PlacesTyped /\ PlacesInv
<1> SUFFICES ASSUME Init PROVE PlacesTyped /\ PlacesInv
  OBVIOUS
<1>1. /\ dir["entry"] = EmptyDirectory /\ dir["control"] = SetDirectoryEntry(EmptyDirectory, PlashStart)
      /\ dir = [s \in Sections |-> dir[s]]
      /\ dirIndex = [b \in Bundles |-> IF b = PlashStart THEN 1 ELSE 0]
  BY DEF Init, Sections
<1>2. PlacesTyped
  <2>1. \A s \in Sections : IsDirectory(dir[s], DirEntries)
    BY <1>1, FirstDirectories DEF Sections
  <2> QED BY <1>1, <2>1 DEF PlacesTyped, IsDirectory
<1>3. /\ \A b \in Bundles : (fate[b] = "committed" <=> b = PlashStart) /\ pc[b] \notin Active
      /\ PlashStart \in Bundles /\ Section(PlashStart) = "control" /\ Size(PlashStart) = 1
      /\ inFlight = <<>>
  BY BundlesApart DEF Init, Active, Section, Size
<1>4. \A s : OpenIn(s) = {}
  BY <1>3 DEF OpenIn
<1>5. CommittedIn("entry") = {} /\ CommittedIn("control") = {PlashStart}
  BY <1>3 DEF CommittedIn, Committed
<1>6. EndOf("entry") = 1 /\ EndOf("control") = 2
  BY <1>1, FirstDirectories DEF EndOf
<1>7. \A x : x \in EntriesOf(PlashStart) <=> x = 1
  <2>1. dirIndex[PlashStart] = 1
    BY <1>1, <1>3
  <2> QED BY <2>1, <1>2, <1>3, EntriesAre
<1>8. GetDirEntry(dir["control"], 1) = PlashStart
  BY <1>1, FirstDirectories
<1>9. Below("entry", 0)
  BY <1>4, <1>5, <1>6 DEF Below
<1>10. Below("control", 1)
  <2>1. \A i \in 1..1 : i = 1
    OBVIOUS
  <2> QED BY <2>1, <1>4, <1>5, <1>6, <1>7, <1>8 DEF Below
<1>11. \A s : Above(s)
  BY <1>3, <1>4 DEF Above
<1> QED BY <1>2, <1>9, <1>10, <1>11 DEF PlacesInv, Sections

(* A bundle that is not prepared to the end leaves the directory as it was. *)
LEMMA PlacesRefused ==
    ASSUME PlacesTyped, PlacesInv, NEW b \in Bundles, WriteFails(b)
    PROVE  PlacesTyped' /\ PlacesInv'
<1> DEFINE e == Section(b)
<1>1. e \in Sections /\ Size(b) \in Nat /\ b \in DirEntries
  BY PlacesAre
<1>2. /\ IsDirectory(dir[e], DirEntries) /\ EndOf(e) \in Nat
  BY <1>1, DirectoryFacts DEF PlacesTyped, EndOf
<1>3. /\ dir'[e] = dir[e] \/ \E k \in 0..(Size(b) - 1) :
            dir'[e] = RollbackDir(AppendEntries(dir[e], b, k), EndOf(e)).pages
      /\ DOMAIN dir' = Sections /\ \A s \in Sections : s # e => dir'[s] = dir[s]
      /\ dir' = [s \in Sections |-> dir'[s]]
  BY <1>1 DEF WriteFails, WriteBundleFails, PlacesTyped, EndOf
<1>4. ASSUME NEW k \in 0..(Size(b) - 1), NEW pages,
             pages = RollbackDir(AppendEntries(dir[e], b, k), EndOf(e)).pages
      PROVE  /\ IsDirectory(pages, DirEntries)
             /\ GetNextDirectoryIndex(pages) = EndOf(e)
             /\ \A i \in 0 .. EndOf(e) - 1 : GetDirEntry(pages, i) = GetDirEntry(dir[e], i)
  <2> DEFINE more == AppendEntries(dir[e], b, k)
  <2>1. k \in Nat
    BY <1>1
  <2>2. /\ IsDirectory(more, DirEntries)
        /\ GetNextDirectoryIndex(more) = EndOf(e) + k
        /\ \A i \in 0 .. EndOf(e) - 1 : GetDirEntry(more, i) = GetDirEntry(dir[e], i)
    BY <1>1, <1>2, <2>1, EntriesAppended DEF EndOf
  <2> HIDE DEF more
  <2>3. /\ IsDirectory(pages, DirEntries)
        /\ GetNextDirectoryIndex(pages) =
              IF EndOf(e) < GetNextDirectoryIndex(more) THEN EndOf(e) ELSE GetNextDirectoryIndex(more)
        /\ \A i \in 0 .. GetNextDirectoryIndex(pages) - 1 : GetDirEntry(pages, i) = GetDirEntry(more, i)
    BY <1>2, <1>4, <2>2, RolledBack DEF more
  <2>4. GetNextDirectoryIndex(pages) = EndOf(e)
    BY <2>1, <2>2, <2>3, <1>2
  <2> QED BY <2>2, <2>3, <2>4
<1>5. /\ IsDirectory(dir'[e], DirEntries)
      /\ GetNextDirectoryIndex(dir'[e]) = EndOf(e)
      /\ \A i \in 0 .. EndOf(e) - 1 : GetDirEntry(dir'[e], i) = GetDirEntry(dir[e], i)
  BY <1>2, <1>3, <1>4 DEF EndOf
<1>6. PlacesTyped'
  <2>1. \A s \in Sections : IsDirectory(dir'[s], DirEntries)
    BY <1>3, <1>5 DEF PlacesTyped
  <2>2. \A s \in Sections : dir'[s] \in Seq(Seq(DirEntries))
    BY <2>1 DEF IsDirectory
  <2> QED BY <2>1, <2>2, <1>3 DEF PlacesTyped, WriteFails, Quiet
<1>7. ASSUME NEW s \in Sections
      PROVE  /\ EndOf(s)' = EndOf(s)
             /\ \A i \in 1 .. EndOf(s) - 1 : GetDirEntry(dir'[s], i) = GetDirEntry(dir[s], i)
  <2>1. CASE s = e
    BY <2>1, <1>2, <1>5 DEF EndOf
  <2>2. CASE s # e
    BY <2>2, <1>3 DEF EndOf
  <2> QED BY <2>1, <2>2
<1>8. \A c \in Bundles : /\ pc'[c] \in Active <=> pc[c] \in Active
                         /\ fate'[c] = "committed" <=> fate[c] = "committed"
  BY DEF WriteFails, Quiet
<1> QED BY <1>6, <1>7, <1>8, PlacesKept DEF WriteFails, Quiet

LEMMA PlacesNext ==
    BuildInv /\ PlacesTyped /\ PlacesInv /\ [Next]_vars => PlacesTyped' /\ PlacesInv'
<1> SUFFICES ASSUME BuildInv, PlacesTyped, PlacesInv, [Next]_vars
             PROVE  PlacesTyped' /\ PlacesInv'
  OBVIOUS
<1>1. CASE Quiet /\ dir' = dir
  <2>1. PlacesTyped'
    BY <1>1 DEF PlacesTyped, Quiet
  <2>2. \A s \in Sections :
              /\ EndOf(s)' = EndOf(s)
              /\ \A i \in 1 .. EndOf(s) - 1 : GetDirEntry(dir'[s], i) = GetDirEntry(dir[s], i)
    BY <1>1 DEF EndOf
  <2>3. \A c \in Bundles : /\ pc'[c] \in Active <=> pc[c] \in Active
                           /\ fate'[c] = "committed" <=> fate[c] = "committed"
    BY <1>1 DEF Quiet
  <2> QED BY <1>1, <2>1, <2>2, <2>3, PlacesKept DEF Quiet
<1>2. ASSUME NEW b \in Bundles, Writes(b) PROVE PlacesTyped' /\ PlacesInv'
  BY <1>2, PlacesTaken DEF Writes
<1>3. ASSUME NEW b \in Bundles, WriteFails(b) PROVE PlacesTyped' /\ PlacesInv'
  BY <1>3, PlacesRefused
<1>4. ASSUME NEW b \in Bundles, NEW end \in {"committed", "rolledBack"}, Ends(b, end)
      PROVE  PlacesTyped' /\ PlacesInv'
  <2>1. 1 \in DOMAIN inFlight /\ inFlight[1] = b /\ inFlight' = RemoveAt(inFlight, 1)
    BY <1>4, EndInv DEF Ends
  <2>2. BuildInv'
    BY BuildNext
  <2>3. CASE end = "committed"
    BY <1>4, <2>1, <2>3, PlacesCommitted DEF Ends
  <2>4. CASE end = "rolledBack"
    BY <1>4, <2>1, <2>2, <2>4, PlacesGivenBack DEF Ends
  <2> QED BY <2>3, <2>4
<1> QED BY <1>1, <1>2, <1>3, <1>4, StepKinds

-----------------------------------------------------------------------------
(***************************************************************************)
(* What clients were told.  A bundle whose Commit can not find a wrong     *)
(* link is committed when its client is told that it is registered: it is  *)
(* the first open snapshot, and its entries are in their places.           *)
(***************************************************************************)
Acknowledged == {a \in Appends : future[a] = "ok" /\ ~May(a, "commit")}

AckInv ==
    /\ merkle \in Seq(Bundles)
    /\ \A a \in Acknowledged : fate[a] = "committed" /\ a \in ToSet(merkle)

LEMMA CommittedStay ==
    ASSUME BuildInv, PlacesTyped, [Next]_vars, NEW b \in Bundles, fate[b] = "committed"
    PROVE  fate'[b] = "committed" /\ dirIndex'[b] = dirIndex[b]
<1>1. CASE Quiet
  BY <1>1 DEF Quiet
<1>2. ASSUME NEW c \in Bundles, Writes(c) PROVE fate'[b] = "committed" /\ dirIndex'[b] = dirIndex[b]
  <2>1. c # b
    BY <1>2 DEF Writes, BuildInv, ChainInv, BundleFits
  <2> QED BY <1>2, <2>1 DEF Writes, WriteBundle, PrepareWrite, PlacesTyped
<1>3. ASSUME NEW c \in Bundles, NEW end, Ends(c, end)
      PROVE  fate'[b] = "committed" /\ dirIndex'[b] = dirIndex[b]
  <2>1. c # b
    BY <1>3 DEF Ends, EndsAs, BuildInv, ChainInv, BundleFits, Active
  <2>2. fate'[b] = fate[b]
    BY <1>3, <2>1 DEF Ends, EndsAs, EndSnapshot, BuildInv, ChainTyped
  <2>3. dirIndex'[b] = dirIndex[b]
    BY <1>3, <2>1 DEF Ends, EndsAs, UndoWrite, storageVars, PlacesTyped
  <2> QED BY <2>2, <2>3
<1> QED BY <1>1, <1>2, <1>3, StepKinds DEF WriteFails

(* Only the callback of an append answers that it is registered. *)
Unanswered ==
    /\ merkle' = merkle
    /\ \A a \in Appends : future'[a] = "ok" => future[a] = "ok"

LEMMA AnswerSteps ==
    ASSUME BuildInv, [Next]_vars
    PROVE  Unanswered \/ \E a \in Appends : CompleteAppend(a)
<1> DEFINE Goal == Unanswered \/ \E a \in Appends : CompleteAppend(a)
<1> SUFFICES Goal
  OBVIOUS
<1>0. future \in [Appends -> {"none", "ok", "error"}]
  BY DEF BuildInv, PlashTyped
<1>1. CASE UNCHANGED vars
  BY <1>1 DEF vars, plashVars, summaryVars, Unanswered
<1>2. ASSUME NEW b \in Bundles, Goroutine(b) PROVE Goal
  <2>1. CASE ApplyWrite(b) \/ WaitPrevBundle(b) \/ SignalNext(b)
    BY <2>1 DEF ApplyWrite, WaitPrevBundle, SignalNext, plashVars, summaryVars, Unanswered
  <2>2. CASE RollbackBundle(b)
    BY <2>2, <1>0 DEF RollbackBundle, Failed, plashVars, Unanswered
  <2>3. CASE CompleteAppend(b)
    BY <2>3 DEF CompleteAppend
  <2>4. CASE CompleteControl(b)
    BY <2>4 DEF CompleteControl, plashVars, Unanswered
  <2> QED BY <1>2, <2>1, <2>2, <2>3, <2>4 DEF Goroutine
<1>3. ASSUME NEW a \in Appends, AppendToDrop(a) \/ WriteAppend(a) PROVE Goal
  <2>1. future' = future \/ future' = [future EXCEPT ![a] = "error"]
    BY <1>3 DEF AppendToDrop, WriteAppend
  <2> QED BY <1>0, <1>3, <2>1 DEF AppendToDrop, WriteAppend, plashVars, summaryVars, Unanswered
<1>4. CASE PreparePulseChange \/ CancelPulseChange \/ CommitPulseChange
             \/ Summarize \/ ClosePlash \/ WaitWriteBundlesAsync \/ SignalClosure
  BY <1>4 DEF PreparePulseChange, CancelPulseChange, CommitPulseChange, Summarize, ClosePlash,
              WaitWriteBundlesAsync, SignalClosure, plashVars, summaryVars, Unanswered
<1>5. CASE ReadCatalog \/ ReadPage
  BY <1>5 DEF ReadCatalog, ReadPage, plashVars, Unanswered
<1>6. CASE WriteSectionSummary \/ WritePlashSummary
             \/ \E d \in Drops : AppendToDropSummary(d) \/ FinalizeDropSummary(d)
  BY <1>6 DEF WriteSectionSummary, WritePlashSummary, AppendToDropSummary, FinalizeDropSummary,
              WriteControl, plashVars, Unanswered
<1> HIDE DEF Goal
<1> QED BY <1>1, <1>2, <1>3, <1>4, <1>5, <1>6 DEF Next, Progress, Summaries

(* In the callback the entries of the bundle are in their places, so that  *)
(* Commit fails only because of a wrong link.                              *)
LEMMA CallbackStored ==
    ASSUME BuildInv, PlacesTyped, PlacesInv, NEW b \in Bundles, pc[b] = "callback"
    PROVE  \A wrongLink \in BOOLEAN : CommitFails(b, wrongLink) => wrongLink
<1>1. inFlight # <<>> /\ inFlight[1] = b /\ PrevDone(b) /\ ~Chained(b)
  BY DEF BuildInv, ChainInv, BundleFits
<1>2. ~HeadDoomed
  BY <1>1, NotDoomed DEF BuildInv, HeadDoomed
<1>3. Section(b) \in Sections /\ b \in OpenIn(Section(b))
  BY PlacesAre DEF OpenIn, Active
<1>4. \A i \in EntriesOf(b) : GetDirEntry(dir[Section(b)], i) = b
  BY <1>2, <1>3 DEF PlacesInv, Above
<1> QED BY <1>4, PlacesAre DEF CommitFails

LEMMA AckComplete ==
    ASSUME BuildInv, PlacesTyped, PlacesInv, AckInv, NEW a \in Appends, CompleteAppend(a), [Next]_vars
    PROVE  AckInv'
<1>1. a \in Bundles /\ pc[a] = "callback" /\ fate[a] = "none"
  BY DEF CompleteAppend, Bundles, BuildInv, ChainInv, BundleFits, Active
<1>2. PICK indices \in {"ok", "empty"}, wrongLink \in BOOLEAN :
        /\ wrongLink => May(a, "commit")
        /\ CommitDropUpdate(a, indices)
        /\ \E result \in {UpdateResult(indices)}
                            \cup (IF CommitFails(a, wrongLink) THEN {"error"} ELSE {}) :
             future' = [future EXCEPT ![a] = IF result = "empty" THEN @ ELSE result]
        /\ CommitSnapshot(a, wrongLink)
  BY DEF CompleteAppend
<1>3. future[a] # "ok" \/ May(a, "commit")
  BY <1>1 DEF AckInv, Acknowledged
<1>4. ASSUME a \in Acknowledged'
      PROVE  status = "started" /\ fate'[a] = "committed" /\ merkle' = Append(merkle, a)
  <2>1. future'[a] = "ok" /\ ~May(a, "commit")
    BY <1>4 DEF Acknowledged, May
  <2>2. ~CommitFails(a, wrongLink)
    BY <2>1, <1>1, <1>2, CallbackStored
  <2>3. UpdateResult(indices) = "ok"
    BY <2>1, <2>2, <1>2, <1>3 DEF BuildInv, PlashTyped, UpdateResult
  <2>4. status = "started" /\ indices = "ok"
    BY <2>3 DEF UpdateResult
  <2>5. fate' = [fate EXCEPT ![a] = "committed"]
    BY <2>2, <1>2 DEF CommitSnapshot, EndSnapshot
  <2> QED BY <2>4, <2>5, <1>1, <1>2 DEF CommitDropUpdate, BuildInv, ChainTyped
<1>5. merkle' = merkle \/ merkle' = Append(merkle, a)
  BY <1>2 DEF CommitDropUpdate
<1>6. /\ merkle' \in Seq(Bundles) /\ ToSet(merkle) \subseteq ToSet(merkle')
      /\ merkle' = Append(merkle, a) => a \in ToSet(merkle')
  <2>1. merkle \in Seq(Bundles)
    BY DEF AckInv
  <2>2. /\ Append(merkle, a) \in Seq(Bundles)
        /\ ToSet(merkle) \subseteq ToSet(Append(merkle, a)) /\ a \in ToSet(Append(merkle, a))
    BY <2>1, <1>1, QueueAppended DEF ToSet
  <2> QED BY <2>1, <2>2, <1>5
<1>7. \A c \in Appends : c # a => (c \in Acknowledged' <=> c \in Acknowledged)
  BY <1>2 DEF Acknowledged, May, BuildInv, PlashTyped
<1>8. \A c \in Acknowledged : c \in Bundles /\ fate'[c] = "committed" /\ dirIndex'[c] = dirIndex[c]
  BY CommittedStay DEF AckInv, Acknowledged, Bundles
<1>9. \A c \in Acknowledged' : c \in Appends
  BY DEF Acknowledged
<1>10. \A c \in Acknowledged' : fate'[c] = "committed" /\ c \in ToSet(merkle')
  BY <1>4, <1>6, <1>7, <1>8, <1>9 DEF AckInv
<1> QED BY <1>6, <1>10 DEF AckInv

LEMMA AckNext ==
    BuildInv /\ PlacesTyped /\ PlacesInv /\ AckInv /\ [Next]_vars => AckInv'
<1> SUFFICES ASSUME BuildInv, PlacesTyped, PlacesInv, AckInv, [Next]_vars PROVE AckInv'
  OBVIOUS
<1>1. CASE \E a \in Appends : CompleteAppend(a)
  BY <1>1, AckComplete
<1>2. CASE Unanswered
  <2>1. \A c \in Acknowledged' : c \in Acknowledged
    BY <1>2 DEF Unanswered, Acknowledged, May
  <2>2. \A c \in Acknowledged : c \in Bundles /\ fate'[c] = "committed" /\ dirIndex'[c] = dirIndex[c]
    BY CommittedStay DEF AckInv, Acknowledged, Bundles
  <2>3. merkle' = merkle
    BY <1>2 DEF Unanswered
  <2> QED BY <2>1, <2>2, <2>3 DEF AckInv
<1> QED BY <1>1, <1>2, AnswerSteps

LEMMA AckInit == Init => AckInv
<1> SUFFICES ASSUME Init PROVE AckInv
  OBVIOUS
<1>1. Acknowledged = {}
  BY DEF Init, Acknowledged
<1> QED BY <1>1 DEF Init, AckInv

-----------------------------------------------------------------------------
(***************************************************************************)
(* What the summary of the section is made of.  The directory that was got *)
(* and the directory there is now have the acknowledged entries in their   *)
(* places, so that a page read from both has them too; the last page is    *)
(* the last one of the directory that was got.                             *)
(***************************************************************************)
Listed(a, i) ==
    /\ GetDirEntry(found, i) = a
    /\ (i \div PageSize) + 1 \in DOMAIN catalog => GetDirEntry(catalog, i) = a

CatalogInv ==
    /\ found \in Seq(Seq(DirEntries)) /\ catalog \in Seq(Seq(DirEntries))
    /\ sectionPc \in {"idle", "read"} => catalog = <<>>
    /\ sectionPc \notin {"idle", "read"} =>
          \A a \in Acknowledged : \A i \in EntriesOf(a) : Listed(a, i)
    /\ sectionPc \in {"write", "closed"} => Len(catalog) = Len(found)

(* Only the reading of the directory changes the catalog. *)
CatalogKept ==
    /\ UNCHANGED <<found, catalog>>
    /\ \/ sectionPc' = sectionPc
       \/ sectionPc = "idle" /\ sectionPc' = "read"
       \/ sectionPc = "write" /\ sectionPc' = "closed"

LEMMA CatalogSteps ==
    ASSUME BuildInv, [Next]_vars
    PROVE  CatalogKept \/ ReadCatalog \/ ReadPage
<1> DEFINE Goal == CatalogKept \/ ReadCatalog \/ ReadPage
<1> SUFFICES Goal
  OBVIOUS
<1>1. CASE UNCHANGED vars
  BY <1>1 DEF vars, summaryVars, CatalogKept
<1>2. ASSUME NEW b \in Bundles, Goroutine(b) PROVE Goal
  BY <1>2 DEF Goroutine, ApplyWrite, WaitPrevBundle, SignalNext, RollbackBundle, CompleteAppend,
              CompleteControl, summaryVars, CatalogKept
<1>3. ASSUME NEW a \in Appends, AppendToDrop(a) \/ WriteAppend(a) PROVE Goal
  BY <1>3 DEF AppendToDrop, WriteAppend, summaryVars, CatalogKept
<1>4. CASE CommitPulseChange
  BY <1>4 DEF CommitPulseChange, BuildInv, LifeInv, Open, CatalogKept
<1>5. CASE PreparePulseChange \/ CancelPulseChange
             \/ Summarize \/ ClosePlash \/ WaitWriteBundlesAsync \/ SignalClosure
  BY <1>5 DEF PreparePulseChange, CancelPulseChange, Summarize, ClosePlash,
              WaitWriteBundlesAsync, SignalClosure, summaryVars, CatalogKept
<1>6. CASE WriteSectionSummary \/ WritePlashSummary
             \/ \E d \in Drops : AppendToDropSummary(d) \/ FinalizeDropSummary(d)
  BY <1>6 DEF WriteSectionSummary, WritePlashSummary, AppendToDropSummary, FinalizeDropSummary,
              WriteControl, CatalogKept
<1> HIDE DEF Goal
<1>7. CASE ReadCatalog \/ ReadPage
  BY <1>7 DEF Goal
<1> QED BY <1>1, <1>2, <1>3, <1>4, <1>5, <1>6, <1>7 DEF Next, Progress, Summaries

(* Once the pulse has changed nothing is acknowledged any more. *)
LEMMA NoneAcknowledged ==
    ASSUME BuildInv, PlacesTyped, AckInv, [Next]_vars, sectionPc # "idle",
           NEW c \in Acknowledged', NEW i \in EntriesOf(c)'
    PROVE  c \in Acknowledged /\ i \in EntriesOf(c)
<1>1. status # "started"
  BY DEF BuildInv, LifeInv, Open
<1>2. c \in Appends /\ future'[c] = "ok" /\ ~May(c, "commit")
  BY DEF Acknowledged, May
<1>3. c \in Acknowledged
  <2>1. CASE Unanswered
    BY <2>1, <1>2 DEF Unanswered, Acknowledged
  <2>2. ASSUME NEW a \in Appends, CompleteAppend(a) PROVE c \in Acknowledged
    <3>1. PICK result \in {"error"} :
              future' = [future EXCEPT ![a] = IF result = "empty" THEN @ ELSE result]
      BY <1>1, <2>2 DEF CompleteAppend, UpdateResult
    <3> QED BY <1>2, <3>1 DEF Acknowledged, BuildInv, PlashTyped
  <2> QED BY <2>1, <2>2, AnswerSteps
<1>4. c \in Bundles /\ dirIndex'[c] = dirIndex[c]
  BY <1>2, <1>3, CommittedStay DEF AckInv, Bundles
<1> QED BY <1>3, <1>4 DEF EntriesOf

(* The entries of what is acknowledged are in their places now. *)
LEMMA AcknowledgedPlaced ==
    ASSUME PlacesTyped, PlacesInv, AckInv, NEW c \in Acknowledged, NEW i \in EntriesOf(c)
    PROVE  i \in Nat /\ GetDirEntry(dir["entry"], i) = c /\ c # Reserved
<1>1. Section(c) = "entry" /\ c \in CommittedIn("entry") /\ "entry" \in Sections
  BY DEF Section, CommittedIn, Committed, Acknowledged, Sections, AckInv, Bundles
<1>2. PICK k \in Nat : Below("entry", k)
  BY <1>1 DEF PlacesInv
<1>3. i \in 1 .. k /\ GetDirEntry(dir["entry"], i) = c
  BY <1>1, <1>2 DEF Below
<1>4. c # Reserved
  BY BundlesAssumption DEF Acknowledged
<1> QED BY <1>3, <1>4

LEMMA PageListed ==
    ASSUME CatalogInv, PlacesTyped, NEW p, NEW page \in PagesSeen(p)
    PROVE  /\ page \in Seq(DirEntries)
           /\ \A pos, c : (\A v \in PageVersions(p) : pos \in DOMAIN v /\ v[pos] = c)
                             => pos \in DOMAIN page /\ page[pos] = c
<1>1. "entry" \in Sections /\ dir["entry"] \in Seq(Seq(DirEntries))
  BY DEF PlacesTyped, Sections
<1>2. \A v \in PageVersions(p) : v \in Seq(DirEntries)
  BY <1>1 DEF PageVersions, CatalogInv
<1>3. PICK v \in PageVersions(p) : page \in [DOMAIN v -> UNION {ToSet(w) : w \in PageVersions(p)}]
  BY DEF PagesSeen
<1>4. \A i \in DOMAIN page : \E w \in PageVersions(p) : i \in DOMAIN w /\ page[i] = w[i]
  BY DEF PagesSeen
<1>5. v \in Seq(DirEntries) /\ DOMAIN v = 1 .. Len(v) /\ Len(v) \in Nat
  BY <1>2, <1>3
<1>6. page \in [1 .. Len(v) -> DirEntries]
  <2>1. \A i \in DOMAIN page : page[i] \in DirEntries
    BY <1>2, <1>4
  <2> QED BY <1>3, <1>5, <2>1
<1>7. page \in Seq(DirEntries)
  BY <1>5, <1>6
<1> QED BY <1>3, <1>4, <1>7

LEMMA ReadPageListed ==
    ASSUME BuildInv, PlacesTyped, PlacesInv, AckInv, CatalogInv, ReadPage, [Next]_vars
    PROVE  CatalogInv'
<1> DEFINE p == Len(catalog) + 1
<1>1. PICK page \in PagesSeen(p) :
        \/ catalog' = catalog /\ sectionPc' \in {sectionPc, "failed"}
        \/ catalog' = Append(catalog, page) /\ sectionPc' = (IF LastPage(p) THEN "write" ELSE "scan")
  BY DEF ReadPage
<1>2. sectionPc = "scan" /\ found' = found
  BY DEF ReadPage
<1>3. catalog \in Seq(Seq(DirEntries)) /\ Len(catalog) \in Nat /\ DOMAIN catalog = 1 .. Len(catalog)
  BY DEF CatalogInv
<1>4. page \in Seq(DirEntries)
  BY PageListed
<1> HIDE DEF p
<1>5. ASSUME NEW c \in Acknowledged', NEW i \in EntriesOf(c)'
      PROVE  Listed(c, i) /\ i \in Nat /\ GetDirEntry(dir["entry"], i) = c /\ c # Reserved
  <2>1. c \in Acknowledged /\ i \in EntriesOf(c)
    BY <1>2, <1>5, NoneAcknowledged
  <2> QED BY <1>2, <2>1, AcknowledgedPlaced DEF CatalogInv
<1>6. CASE catalog' = catalog /\ sectionPc' \in {sectionPc, "failed"}
  <2>1. \A c \in Acknowledged' : \A i \in EntriesOf(c)' : Listed(c, i)'
    BY <1>2, <1>5, <1>6 DEF Listed
  <2> QED BY <1>2, <1>6, <2>1 DEF CatalogInv
<1>7. CASE catalog' = Append(catalog, page) /\ sectionPc' = (IF LastPage(p) THEN "write" ELSE "scan")
  <2>1. /\ catalog' \in Seq(Seq(DirEntries)) /\ Len(catalog') = p /\ DOMAIN catalog' = 1 .. p
        /\ catalog'[p] = page /\ \A q \in DOMAIN catalog : catalog'[q] = catalog[q]
    BY <1>3, <1>4, <1>7 DEF p
  <2>2. ASSUME NEW c \in Acknowledged', NEW i \in EntriesOf(c)' PROVE Listed(c, i)'
    <3> DEFINE q == (i \div PageSize) + 1
               pos == (i % PageSize) + 1
    <3>1. Listed(c, i) /\ i \in Nat /\ GetDirEntry(dir["entry"], i) = c /\ c # Reserved
      BY <1>5, <2>2
    <3>2. /\ q \in DOMAIN found /\ pos \in DOMAIN found[q] /\ found[q][pos] = c
          /\ q \in DOMAIN dir["entry"] /\ pos \in DOMAIN dir["entry"][q] /\ dir["entry"][q][pos] = c
      BY <3>1 DEF GetDirEntry, Listed
    <3>3. \A v \in PageVersions(q) : pos \in DOMAIN v /\ v[pos] = c
      BY <3>2 DEF PageVersions
    <3>4. CASE q \in DOMAIN catalog
      <4>1. GetDirEntry(catalog, i) = c
        BY <3>1, <3>4 DEF Listed
      <4>2. GetDirEntry(catalog', i) = GetDirEntry(catalog, i)
        BY <1>3, <2>1, <3>4 DEF GetDirEntry, p
      <4> QED BY <1>2, <3>1, <4>1, <4>2 DEF Listed
    <3>5. CASE q = p
      <4>1. pos \in DOMAIN page /\ page[pos] = c
        BY <3>3, <3>5, PageListed
      <4>2. GetDirEntry(catalog', i) = c
        BY <1>3, <2>1, <3>5, <4>1 DEF GetDirEntry, p
      <4> QED BY <1>2, <3>1, <4>2 DEF Listed
    <3>6. CASE q \notin DOMAIN catalog'
      BY <1>2, <3>1, <3>6 DEF Listed
    <3> HIDE DEF q, pos
    <3>7. q \in DOMAIN catalog' => q \in DOMAIN catalog \/ q = p
      BY <1>3, <2>1 DEF p
    <3> QED BY <3>4, <3>5, <3>6, <3>7
  <2>3. sectionPc' = "write" => Len(catalog') = Len(found')
    BY <1>2, <1>7, <2>1 DEF LastPage
  <2> QED BY <1>2, <1>7, <2>1, <2>2, <2>3 DEF CatalogInv
<1> QED BY <1>1, <1>6, <1>7

LEMMA CatalogNext ==
    BuildInv /\ PlacesTyped /\ PlacesInv /\ AckInv /\ CatalogInv /\ [Next]_vars => CatalogInv'
<1> SUFFICES ASSUME BuildInv, PlacesTyped, PlacesInv, AckInv, CatalogInv, [Next]_vars
             PROVE  CatalogInv'
  OBVIOUS
<1>1. CASE CatalogKept
  <2>1. ASSUME sectionPc' \notin {"idle", "read"}, NEW c \in Acknowledged', NEW i \in EntriesOf(c)'
        PROVE  Listed(c, i)'
    <3>1. sectionPc \notin {"idle", "read"}
      BY <1>1, <2>1 DEF CatalogKept
    <3>2. c \in Acknowledged /\ i \in EntriesOf(c)
      BY <2>1, <3>1, NoneAcknowledged
    <3> QED BY <1>1, <3>1, <3>2 DEF CatalogInv, CatalogKept, Listed
  <2> QED BY <1>1, <2>1 DEF CatalogInv, CatalogKept
<1>2. CASE ReadCatalog
  <2>1. sectionPc = "read" /\ catalog' = catalog /\ catalog = <<>>
    BY <1>2 DEF ReadCatalog, CatalogInv
  <2>2. CASE storage = "broken"
    BY <1>2, <2>1, <2>2 DEF ReadCatalog, CatalogInv
  <2>3. CASE storage # "broken"
    <3>1. found' = dir["entry"] /\ sectionPc' = "scan"
      BY <1>2, <2>3 DEF ReadCatalog
    <3>2. dir["entry"] \in Seq(Seq(DirEntries))
      BY DEF PlacesTyped, Sections
    <3>3. ASSUME NEW c \in Acknowledged', NEW i \in EntriesOf(c)' PROVE Listed(c, i)'
      <4>1. c \in Acknowledged /\ i \in EntriesOf(c)
        BY <2>1, <3>3, NoneAcknowledged
      <4>2. GetDirEntry(dir["entry"], i) = c
        BY <4>1, AcknowledgedPlaced
      <4> QED BY <2>1, <3>1, <4>2 DEF Listed
    <3> QED BY <2>1, <3>1, <3>2, <3>3 DEF CatalogInv
  <2> QED BY <2>2, <2>3
<1>3. CASE ReadPage
  BY <1>3, ReadPageListed
<1> QED BY <1>1, <1>2, <1>3, CatalogSteps

LEMMA CatalogInit == Init => CatalogInv
BY DEF Init, CatalogInv

-----------------------------------------------------------------------------
(***************************************************************************)
(* What the writer of a plash guarantees.                                  *)
(***************************************************************************)
PlashInv ==
    /\ BuildInv /\ OrdinalsTyped /\ OrdinalsInv
    /\ PlacesTyped /\ PlacesInv /\ AckInv /\ CatalogInv

\* In every reachable state the chain of goroutines is in the order the bundles were
\* prepared in, and the ordinals, the directories and the answers to the clients fit
\* to it (bundleWriter, dropAssistant, cabinetSection, plashAssistant).
THEOREM PlashInvariant == Spec => []PlashInv
<1>1. Init => PlashInv
  BY BuildInit, OrdinalsInit, PlacesInit, AckInit, CatalogInit DEF PlashInv
<1>2. PlashInv /\ [Next]_vars => PlashInv'
  BY BuildNext, OrdinalsNext, PlacesNext, AckNext, CatalogNext DEF PlashInv
<1> QED BY <1>1, <1>2, PTL DEF Spec

\* The state of the writer, the storage and the plash has its type, whatever the
\* bundles, their sizes and their faults are.
THEOREM TypeCorrect == Spec => []TypeOK
<1>1. PlashInv => TypeOK
  BY DEF PlashInv, BuildInv, ChainTyped, PlashTyped, OrdinalsTyped, PlacesTyped, Links, Active, TypeOK
<1> QED BY <1>1, PlashInvariant, PTL

\* The entries of a committed bundle stay where its indices say, whatever is rolled
\* back after it (cabinetSection.rollbackDirectory, sectionSnapshot).
THEOREM CommittedStaysIntact == Spec => []CommittedIntact
<1>1. PlashInv => CommittedIntact
  <2> SUFFICES ASSUME PlashInv, NEW b \in Committed, NEW i \in EntriesOf(b)
               PROVE  GetDirEntry(dir[Section(b)], i) = b
    BY DEF CommittedIntact
  <2>1. Section(b) \in Sections /\ b \in CommittedIn(Section(b))
    BY PlacesAre DEF Committed, CommittedIn
  <2>2. PICK k \in Nat : Below(Section(b), k)
    BY <2>1 DEF PlashInv, PlacesInv
  <2> QED BY <2>1, <2>2 DEF Below
<1> QED BY <1>1, PlashInvariant, PTL

\* Once no snapshot is open, the directories of a storage that is not broken hold the
\* committed bundles and nothing else, without a gap (Snapshot.Rollback).
THEOREM RollbacksLeaveNothing == Spec => []NothingLeftBehind
<1>1. PlashInv => NothingLeftBehind
  <2> SUFFICES ASSUME PlashInv, inFlight = <<>>, storage # "broken",
                      NEW s \in DOMAIN dir, NEW i \in DOMAIN Entries(dir[s])
               PROVE  /\ fate[Entries(dir[s])[i]] = "committed"
                      /\ i \in EntriesOf(Entries(dir[s])[i])
    BY DEF NothingLeftBehind
  <2>1. s \in Sections /\ IsDirectory(dir[s], DirEntries)
    BY DEF PlashInv, PlacesTyped
  <2>2. PICK k \in Nat : Below(s, k)
    BY <2>1 DEF PlashInv, PlacesInv
  <2>3. OpenIn(s) = {}
    BY OpenInQueue DEF PlashInv
  <2>4. EndOf(s) \in Nat /\ k < EndOf(s) /\ ~ (k + 1 < EndOf(s))
    BY <2>1, <2>2, <2>3, DirectoryFacts DEF Below, Mended, EndOf
  <2>5. EndOf(s) = k + 1
    BY <2>4
  <2>6. DOMAIN Entries(dir[s]) = 1 .. k /\ Entries(dir[s])[i] = GetDirEntry(dir[s], i)
    <3>1. /\ GetNextDirectoryIndex(dir[s]) >= 1
          /\ GetNextDirectoryIndex(dir[s]) - 1 = k
      BY <2>5 DEF EndOf
    <3> QED BY <2>1, <3>1, EntriesInOrder
  <2> QED BY <2>2, <2>6 DEF Below, CommittedIn, Committed
<1> QED BY <1>1, PlashInvariant, PTL

\* What a client was told is registered is stored, and is in the state the node
\* reports, unless Commit can find a wrong link after the callback
\* (plashAssistant.commitDropUpdate, bundleWriter.applyBundleSafely).
THEOREM AcknowledgedIsReported == Spec => []AcknowledgedReported
<1>1. PlashInv => AcknowledgedReported
  <2> SUFFICES ASSUME PlashInv, NEW a \in Appends, future[a] = "ok", ~May(a, "commit")
               PROVE  /\ fate[a] = "committed"
                      /\ a \in ToSet(IF status \in {"started", "pendingPulse"} THEN merkle ELSE nodeState)
    BY DEF AcknowledgedReported
  <2>1. fate[a] = "committed" /\ a \in ToSet(merkle)
    BY DEF PlashInv, AckInv, Acknowledged
  <2>2. status \notin {"started", "pendingPulse"} => merkle = nodeState
    BY DEF PlashInv, BuildInv, LifeInv, Open
  <2> QED BY <2>1, <2>2
<1> QED BY <1>1, PlashInvariant, PTL

\* The summary of the entry section lists every acknowledged record at its index,
\* though ReadCatalog does not wait for the bundles in flight and reads its pages unlocked
\* (SectionSummaryWriter.ReadCatalog, plashAssistant.writeSectionSummaries).
THEOREM SummaryListsAll == Spec => []SummaryComplete
<1>1. PlashInv => SummaryComplete
  <2> SUFFICES ASSUME PlashInv, fate[SectionSummary] = "committed",
                      NEW a \in Appends, future[a] = "ok", ~May(a, "commit"), NEW i \in EntriesOf(a)
               PROVE  GetDirEntry(catalog, i) = a
    BY DEF SummaryComplete
  <2>1. sectionPc = "closed"
    BY BundlesApart DEF PlashInv, BuildInv, LifeInv, ChainInv, BundleFits
  <2>2. a \in Acknowledged /\ a # Reserved
    BY BundlesAssumption DEF Acknowledged
  <2>3. /\ Listed(a, i) /\ Len(catalog) = Len(found)
        /\ found \in Seq(Seq(DirEntries)) /\ catalog \in Seq(Seq(DirEntries))
    BY <2>1, <2>2 DEF PlashInv, CatalogInv
  <2>4. (i \div PageSize) + 1 \in DOMAIN found
    BY <2>2, <2>3 DEF Listed, GetDirEntry
  <2> QED BY <2>3, <2>4 DEF Listed
<1> QED BY <1>1, PlashInvariant, PTL

\* The records of a drop are numbered without gap or repetition, whatever bundles
\* fail, in whatever order their goroutines run (entryWriter.PrepareWrite,
\* ApplyRollback).
THEOREM OrdinalsDense == Spec => []DropOrdinalsDense
<1>1. PlashInv => DropOrdinalsDense
  <2> SUFFICES ASSUME PlashInv, NEW d \in Drops
               PROVE  /\ \A a, b \in CommittedOf(d) : a # b => Numbers(a) \cap Numbers(b) = {}
                      /\ inFlight = <<>> => UNION {Numbers(a) : a \in CommittedOf(d)} = 1..dropOrder[d]
    BY DEF DropOrdinalsDense, Numbers, CommittedOf
  <2>1. PICK k \in Nat : Behind(d, k)
    BY DEF PlashInv, OrdinalsInv
  <2>2. ASSUME inFlight = <<>> PROVE k = dropOrder[d]
    <3>1. OpenOf(d) = {}
      BY <2>2, OpenInFlight DEF PlashInv
    <3> QED BY <3>1, <2>1 DEF Behind, PlashInv, OrdinalsTyped
  <2> QED BY <2>1, <2>2 DEF PlashInv, OrdinalsInv, Behind
<1> QED BY <1>1, PlashInvariant, PTL

\* The state that was reported at PreparePulseChange is final once the pulse change
\* is committed (plashAssistant.commitDropUpdate).
THEOREM ReportedStateFinal == Spec => []NodeStateFinal
<1>1. PlashInv => NodeStateFinal
  BY DEF PlashInv, BuildInv, LifeInv, Open, NodeStateFinal
<1> QED BY <1>1, PlashInvariant, PTL

\* Snapshots end in the order they were taken, commits and rollbacks alike
\* (bundleWriter.applyBundleSafely, waitPrevBundle).
THEOREM SnapshotsInSequence == Spec => SequenceKept
<1> DEFINE Kept == \A b \in Bundles :
                      (fate'[b] # fate[b] /\ fate'[b] \in {"committed", "rolledBack"})
                          => b = Head(inFlight)
<1>1. ASSUME PlashInv, NEW b \in Bundles, NEW end, Ends(b, end) PROVE Kept
  <2>1. 1 \in DOMAIN inFlight /\ inFlight[1] = b
    BY <1>1, EndInv DEF PlashInv, Ends
  <2>2. \A c \in Bundles : c # b => fate'[c] = fate[c]
    BY <1>1 DEF Ends, EndsAs, EndSnapshot, PlashInv, BuildInv, ChainTyped
  <2>3. Head(inFlight) = b
    BY <2>1 DEF PlashInv, BuildInv, ChainTyped
  <2> QED BY <2>2, <2>3
<1>2. ASSUME Quiet PROVE Kept
  BY <1>2 DEF Quiet
<1>3. ASSUME NEW b \in Bundles, Writes(b) PROVE Kept
  BY <1>3 DEF Writes, WriteBundle
<1>4. PlashInv /\ [Next]_vars => Kept
  BY <1>1, <1>2, <1>3, StepKinds DEF PlashInv, WriteFails
<1>5. [Kept]_vars => [\A b \in Bundles :
                        (fate'[b] # fate[b] /\ fate'[b] \in {"committed", "rolledBack"})
                            => b = Head(inFlight)]_vars
  OBVIOUS
<1> QED BY <1>4, <1>5, PlashInvariant, PTL DEF Spec, SequenceKept
=============================================================================
