--------------------------- MODULE SemaphoresProofs ---------------------------
(***************************************************************************)
(* Proofs about the semaphores, for any machines, children and limits.     *)
(***************************************************************************)
EXTENDS Semaphores, FiniteSetTheorems, SequenceTheorems, TLAPS

-----------------------------------------------------------------------------
(* No entry stands twice in a queue. *)
Distinct(q) == \A i, j \in DOMAIN q : q[i] = q[j] => i = j

(* The position of an entry that is in a queue. *)
LEMMA IndexOfIn ==
    ASSUME NEW q \in Queue, NEW m, In(m, q)
    PROVE  IndexOf(m, q) \in 1 .. Len(q) /\ q[IndexOf(m, q)] = m
BY DEF In, IndexOf, Queue

(* The first entry of a queue, if there is one. *)
LEMMA FirstOfIn ==
    ASSUME NEW q \in Queue
    PROVE  FirstOf(q) = NoMachine \/ (FirstOf(q) \in Machines /\ In(FirstOf(q), q))
<1>1. CASE q # <<>>
  <2>1. 1 \in DOMAIN q /\ q[1] \in Machines
    BY <1>1 DEF Queue
  <2> QED BY <1>1, <2>1 DEF FirstOf, In
<1> QED BY <1>1 DEF FirstOf

(* The first n entries of a queue, and the others. *)
LEMMA FirstNProperties ==
    ASSUME NEW q \in Queue, NEW n \in 0 .. Len(q)
    PROVE  /\ FirstN(q, n) \in Queue
           /\ Len(FirstN(q, n)) = n
           /\ \A j \in 1 .. n : FirstN(q, n)[j] = q[j]
<1>1. \A j \in 1 .. n : q[j] \in Machines
  BY DEF Queue
<1> QED
  BY <1>1, SubSeqProperties, Z3 DEF FirstN, Queue

LEMMA DropNProperties ==
    ASSUME NEW q \in Queue, NEW n \in 0 .. Len(q)
    PROVE  /\ DropN(q, n) \in Queue
           /\ Len(DropN(q, n)) = Len(q) - n
           /\ \A j \in 1 .. Len(q) - n : DropN(q, n)[j] = q[n + j]
<1>1. \A j \in n + 1 .. Len(q) : q[j] \in Machines
  BY DEF Queue
<1>2. n + 1 \in Int /\ Len(q) \in Int
  BY DEF Queue
<1>3. /\ DropN(q, n) \in Queue
      /\ Len(DropN(q, n)) = IF n + 1 <= Len(q) THEN Len(q) - (n + 1) + 1 ELSE 0
      /\ \A j \in 1 .. Len(q) - (n + 1) + 1 : DropN(q, n)[j] = q[n + 1 + j - 1]
  BY <1>1, <1>2, SubSeqProperties DEF DropN, Queue
<1> QED
  BY <1>2, <1>3

LEMMA ConcatQueues ==
    ASSUME NEW q \in Queue, NEW r \in Queue
    PROVE  /\ q \o r \in Queue
           /\ Len(q \o r) = Len(q) + Len(r)
           /\ \A j \in 1 .. Len(q) + Len(r) :
                 (q \o r)[j] = IF j <= Len(q) THEN q[j] ELSE r[j - Len(q)]
BY ConcatProperties DEF Queue

(* Entries of two queues, one behind the other. *)
LEMMA ConcatIn ==
    ASSUME NEW q \in Queue, NEW r \in Queue
    PROVE  /\ \A x : In(x, q \o r) <=> In(x, q) \/ In(x, r)
           /\ Distinct(q) /\ Distinct(r) /\ (\A x : ~ (In(x, q) /\ In(x, r)))
                => Distinct(q \o r)
<1> DEFINE s == q \o r
<1>1. /\ s \in Queue
      /\ Len(s) = Len(q) + Len(r)
      /\ \A j \in 1 .. Len(q) + Len(r) :
            s[j] = IF j <= Len(q) THEN q[j] ELSE r[j - Len(q)]
  BY ConcatQueues
<1> HIDE DEF s
<1>2. ASSUME NEW x, In(x, s) PROVE In(x, q) \/ In(x, r)
  <2>1. PICK j \in 1 .. Len(s) : s[j] = x
    BY <1>1, <1>2 DEF In, Queue
  <2>2. CASE j <= Len(q)
    BY <1>1, <2>1, <2>2 DEF In, Queue
  <2>3. CASE j > Len(q)
    <3>1. j - Len(q) \in 1 .. Len(r) /\ r[j - Len(q)] = x
      BY <1>1, <2>1, <2>3 DEF Queue
    <3> QED BY <3>1 DEF In, Queue
  <2> QED BY <1>1, <2>1, <2>2, <2>3 DEF Queue
<1>3. ASSUME NEW x, In(x, q) PROVE In(x, s)
  BY <1>1, <1>3 DEF In, Queue
<1>4. ASSUME NEW x, In(x, r) PROVE In(x, s)
  <2>1. PICK j \in 1 .. Len(r) : r[j] = x
    BY <1>4 DEF In, Queue
  <2>2. Len(q) + j \in 1 .. Len(s) /\ s[Len(q) + j] = x
    BY <1>1, <2>1 DEF Queue
  <2> QED BY <1>1, <2>2 DEF In, Queue
<1>5. ASSUME Distinct(q), Distinct(r), \A x : ~ (In(x, q) /\ In(x, r))
      PROVE  Distinct(s)
  <2> SUFFICES ASSUME NEW i \in 1 .. Len(s), NEW j \in 1 .. Len(s), s[i] = s[j]
               PROVE  i = j
    BY <1>1 DEF Distinct, Queue
  <2>1. CASE i <= Len(q) /\ j <= Len(q)
    BY <1>1, <1>5, <2>1 DEF Distinct, Queue
  <2>2. CASE i > Len(q) /\ j > Len(q)
    <3>1. /\ i - Len(q) \in DOMAIN r /\ j - Len(q) \in DOMAIN r
          /\ r[i - Len(q)] = r[j - Len(q)]
      BY <1>1, <2>2 DEF Queue
    <3>2. i - Len(q) = j - Len(q)
      BY <3>1, <1>5 DEF Distinct
    <3> QED BY <1>1, <3>2 DEF Queue
  <2>3. CASE i <= Len(q) /\ j > Len(q)
    <3>1. /\ i \in DOMAIN q /\ j - Len(q) \in DOMAIN r
          /\ q[i] = s[i] /\ r[j - Len(q)] = s[i]
      BY <1>1, <2>3 DEF Queue
    <3> QED BY <3>1, <1>5 DEF In
  <2>4. CASE i > Len(q) /\ j <= Len(q)
    <3>1. /\ j \in DOMAIN q /\ i - Len(q) \in DOMAIN r
          /\ q[j] = s[j] /\ r[i - Len(q)] = s[j]
      BY <1>1, <2>4 DEF Queue
    <3> QED BY <3>1, <1>5 DEF In
  <2> QED BY <1>1, <2>1, <2>2, <2>3, <2>4 DEF Queue
<1> QED
  BY <1>2, <1>3, <1>4, <1>5 DEF s

(* A queue that is cut in two: each entry is in one of the parts. *)
LEMMA SplitIn ==
    ASSUME NEW q \in Queue, NEW n \in 0 .. Len(q), Distinct(q)
    PROVE  /\ \A x : In(x, q) <=> In(x, FirstN(q, n)) \/ In(x, DropN(q, n))
           /\ \A x : ~ (In(x, FirstN(q, n)) /\ In(x, DropN(q, n)))
           /\ Distinct(FirstN(q, n)) /\ Distinct(DropN(q, n))
<1> DEFINE f == FirstN(q, n)
           d == DropN(q, n)
<1>1. f \in Queue /\ Len(f) = n /\ \A j \in 1 .. n : f[j] = q[j]
  BY FirstNProperties
<1>2. /\ d \in Queue /\ Len(d) = Len(q) - n
      /\ \A j \in 1 .. Len(q) - n : d[j] = q[n + j]
  BY DropNProperties
<1> HIDE DEF f, d
<1>3. ASSUME NEW x, In(x, f) PROVE In(x, q)
  BY <1>1, <1>3 DEF In, Queue
<1>4. ASSUME NEW x, In(x, d) PROVE In(x, q)
  <2>1. PICK j \in 1 .. Len(d) : d[j] = x
    BY <1>2, <1>4 DEF In, Queue
  <2>2. n + j \in 1 .. Len(q) /\ q[n + j] = x
    BY <1>2, <2>1 DEF Queue
  <2> QED BY <2>2 DEF In, Queue
<1>5. ASSUME NEW x, In(x, q) PROVE In(x, f) \/ In(x, d)
  <2>1. PICK j \in 1 .. Len(q) : q[j] = x
    BY <1>5 DEF In, Queue
  <2>2. CASE j <= n
    BY <1>1, <2>1, <2>2 DEF In, Queue
  <2>3. CASE j > n
    <3>1. j - n \in 1 .. Len(d) /\ d[j - n] = x
      BY <1>2, <2>1, <2>3 DEF Queue
    <3> QED BY <1>2, <3>1 DEF In, Queue
  <2> QED BY <2>1, <2>2, <2>3 DEF Queue
<1>6. ASSUME NEW x, In(x, f), In(x, d) PROVE FALSE
  <2>1. PICK i \in 1 .. n : f[i] = x
    BY <1>1, <1>6 DEF In, Queue
  <2>2. PICK j \in 1 .. Len(d) : d[j] = x
    BY <1>2, <1>6 DEF In, Queue
  <2>3. i \in DOMAIN q /\ n + j \in DOMAIN q /\ q[i] = q[n + j] /\ i # n + j
    BY <1>1, <1>2, <2>1, <2>2 DEF Queue
  <2> QED BY <2>3 DEF Distinct
<1>7. Distinct(f)
  BY <1>1 DEF Distinct, Queue
<1>8. Distinct(d)
  <2> SUFFICES ASSUME NEW i \in 1 .. Len(d), NEW j \in 1 .. Len(d), d[i] = d[j]
               PROVE  i = j
    BY <1>2 DEF Distinct, Queue
  <2>1. n + i \in DOMAIN q /\ n + j \in DOMAIN q /\ q[n + i] = q[n + j]
    BY <1>2 DEF Queue
  <2>2. n + i = n + j
    BY <2>1 DEF Distinct
  <2> QED BY <2>2, <1>2 DEF Queue
<1> QED
  BY <1>3, <1>4, <1>5, <1>6, <1>7, <1>8 DEF f, d

(* A queue of one entry, and Append as a concatenation. *)
LEMMA OneEntry ==
    ASSUME NEW m \in Machines
    PROVE  /\ <<m>> \in Queue /\ Len(<<m>>) = 1 /\ Distinct(<<m>>)
           /\ \A x : In(x, <<m>>) <=> x = m
BY DEF Queue, Distinct, In

LEMMA AppendIn ==
    ASSUME NEW q \in Queue, NEW m \in Machines
    PROVE  /\ Append(q, m) \in Queue
           /\ Len(Append(q, m)) = Len(q) + 1
           /\ \A x : In(x, Append(q, m)) <=> In(x, q) \/ x = m
           /\ Distinct(q) /\ ~ In(m, q) => Distinct(Append(q, m))
<1>1. Append(q, m) = q \o <<m>>
  BY AppendIsConcat DEF Queue
<1>2. /\ <<m>> \in Queue /\ Len(<<m>>) = 1 /\ Distinct(<<m>>)
      /\ \A x : In(x, <<m>>) <=> x = m
  BY OneEntry
<1>3. q \o <<m>> \in Queue /\ Len(q \o <<m>>) = Len(q) + Len(<<m>>)
  BY <1>2, ConcatQueues
<1>4. \A x : In(x, q \o <<m>>) <=> In(x, q) \/ x = m
  BY <1>2, ConcatIn
<1>5. Distinct(q) /\ ~ In(m, q) => Distinct(q \o <<m>>)
  BY <1>2, ConcatIn
<1> QED
  BY <1>1, <1>2, <1>3, <1>4, <1>5

(* removeFromQueue takes one entry out and keeps the others. *)
LEMMA WithoutProperties ==
    ASSUME NEW q \in Queue, NEW m, In(m, q), Distinct(q)
    PROVE  /\ Without(q, m) \in Queue
           /\ Len(Without(q, m)) = Len(q) - 1
           /\ Distinct(Without(q, m))
           /\ \A x : In(x, Without(q, m)) <=> In(x, q) /\ x # m
<1> DEFINE i == IndexOf(m, q)
           f == FirstN(q, i - 1)
           d == DropN(q, i)
<1>1. i \in 1 .. Len(q) /\ q[i] = m
  BY IndexOfIn
<1>2. i - 1 \in 0 .. Len(q) /\ i \in 0 .. Len(q) /\ Len(q) \in Nat
  BY <1>1 DEF Queue
<1>3. f \in Queue /\ Len(f) = i - 1 /\ \A j \in 1 .. i - 1 : f[j] = q[j]
  BY <1>2, FirstNProperties
<1>4. /\ d \in Queue /\ Len(d) = Len(q) - i
      /\ \A j \in 1 .. Len(q) - i : d[j] = q[i + j]
  BY <1>2, DropNProperties
<1>5. Distinct(f) /\ Distinct(d)
  BY <1>2, SplitIn
<1>6. Without(q, m) = f \o d
  BY DEF Without
<1> HIDE DEF f, d, i
<1>7. \A x : ~ (In(x, f) /\ In(x, d))
  <2> SUFFICES ASSUME NEW a \in 1 .. i - 1, NEW b \in 1 .. Len(d), f[a] = d[b]
               PROVE  FALSE
    BY <1>3, <1>4 DEF In, Queue
  <2>1. a \in DOMAIN q /\ i + b \in DOMAIN q /\ q[a] = q[i + b] /\ a # i + b
    BY <1>1, <1>2, <1>3, <1>4 DEF Queue
  <2> QED BY <2>1 DEF Distinct
<1>8. ASSUME NEW x PROVE In(x, f) \/ In(x, d) <=> In(x, q) /\ x # m
  <2>1. ASSUME NEW j \in 1 .. i - 1, f[j] = x PROVE In(x, q) /\ x # m
    <3>1. j \in DOMAIN q /\ i \in DOMAIN q /\ q[j] = x /\ j # i
      BY <1>1, <1>2, <1>3, <2>1 DEF Queue
    <3> QED BY <3>1, <1>1 DEF In, Distinct
  <2>2. ASSUME NEW j \in 1 .. Len(d), d[j] = x PROVE In(x, q) /\ x # m
    <3>1. i + j \in DOMAIN q /\ i \in DOMAIN q /\ q[i + j] = x /\ i + j # i
      BY <1>1, <1>2, <1>4, <2>2 DEF Queue
    <3> QED BY <3>1, <1>1 DEF In, Distinct
  <2>3. ASSUME NEW j \in 1 .. Len(q), q[j] = x, x # m PROVE In(x, f) \/ In(x, d)
    <3>1. CASE j < i
      BY <1>2, <1>3, <2>3, <3>1 DEF In, Queue
    <3>2. CASE j > i
      <4>1. j - i \in 1 .. Len(d) /\ d[j - i] = x
        BY <1>1, <1>2, <1>4, <2>3, <3>2 DEF Queue
      <4> QED BY <1>4, <4>1 DEF In, Queue
    <3> QED BY <1>1, <2>3, <3>1, <3>2
  <2> QED BY <1>3, <1>4, <2>1, <2>2, <2>3 DEF In, Queue
<1>9. f \o d \in Queue /\ Len(f \o d) = Len(f) + Len(d)
  BY <1>3, <1>4, ConcatQueues
<1>10. Distinct(f \o d)
  BY <1>3, <1>4, <1>5, <1>7, ConcatIn
<1>11. \A x : In(x, f \o d) <=> In(x, q) /\ x # m
  BY <1>3, <1>4, <1>8, ConcatIn
<1> QED
  BY <1>2, <1>3, <1>4, <1>6, <1>9, <1>10, <1>11

(* An entry that is put before another one. *)
LEMMA InsertProperties ==
    ASSUME NEW q \in Queue, NEW i \in 1 .. Len(q), NEW m \in Machines,
           Distinct(q), ~ In(m, q)
    PROVE  /\ InsertBefore(q, i, m) \in Queue
           /\ Len(InsertBefore(q, i, m)) = Len(q) + 1
           /\ Distinct(InsertBefore(q, i, m))
           /\ \A x : In(x, InsertBefore(q, i, m)) <=> In(x, q) \/ x = m
<1> DEFINE f == FirstN(q, i - 1)
           d == DropN(q, i - 1)
<1>1. i - 1 \in 0 .. Len(q) /\ Len(q) \in Nat
  BY DEF Queue
<1>2. f \in Queue /\ Len(f) = i - 1 /\ d \in Queue /\ Len(d) = Len(q) - (i - 1)
  BY <1>1, FirstNProperties, DropNProperties
<1>3. /\ \A x : In(x, q) <=> In(x, f) \/ In(x, d)
      /\ \A x : ~ (In(x, f) /\ In(x, d))
      /\ Distinct(f) /\ Distinct(d)
  BY <1>1, SplitIn
<1>4. InsertBefore(q, i, m) = (f \o <<m>>) \o d
  BY DEF InsertBefore
<1> HIDE DEF f, d
<1>5. f \o <<m>> = Append(f, m)
  BY <1>2, AppendIsConcat DEF Queue
<1>6. /\ Append(f, m) \in Queue /\ Len(Append(f, m)) = i
      /\ \A x : In(x, Append(f, m)) <=> In(x, f) \/ x = m
  BY <1>1, <1>2, AppendIn
<1>7. Distinct(Append(f, m))
  BY <1>2, <1>3, AppendIn
<1>8. \A x : ~ (In(x, Append(f, m)) /\ In(x, d))
  BY <1>3, <1>6
<1> DEFINE t == Append(f, m) \o d
<1>9. t \in Queue /\ Len(t) = i + Len(d)
  BY <1>2, <1>6, ConcatQueues
<1>10. Distinct(t)
  BY <1>2, <1>3, <1>6, <1>7, <1>8, ConcatIn
<1>11. \A x : In(x, t) <=> In(x, q) \/ x = m
  BY <1>2, <1>3, <1>6, ConcatIn
<1> HIDE DEF t
<1>12. InsertBefore(q, i, m) = t
  BY <1>4, <1>5 DEF t
<1> QED
  BY <1>1, <1>2, <1>9, <1>10, <1>11, <1>12

(* A queue has as many entries as machines stand in it. *)
LEMMA QueueCount ==
    ASSUME NEW q \in Queue, Distinct(q)
    PROVE  LET S == {m \in Machines : In(m, q)}
           IN  IsFiniteSet(S) /\ Cardinality(S) = Len(q)
<1> DEFINE S == {m \in Machines : In(m, q)}
<1>1. Len(q) \in Nat /\ q \in [1 .. Len(q) -> S]
  BY DEF Queue, In
<1>2. q \in Bijection(1 .. Len(q), S)
  <2>1. \A a, b \in 1 .. Len(q) : q[a] = q[b] => a = b
    BY DEF Distinct, Queue
  <2>2. \A t \in S : \E a \in 1 .. Len(q) : q[a] = t
    BY DEF In, Queue
  <2> QED BY <1>1, <2>1, <2>2 DEF Bijection, Injection, Surjection, IsInjective
<1>3. ExistsBijection(1 .. Len(q), S)
  BY <1>2 DEF ExistsBijection
<1> HIDE DEF S
<1>4. IsFiniteSet(S)
  BY <1>1, <1>3, FS_NatBijection
<1> QED
  BY <1>1, <1>3, <1>4, FS_CountingElements DEF S

-----------------------------------------------------------------------------
(***************************************************************************)
(* The inductive invariant.  Every machine that has a holder stands in one *)
(* place, at most once, and the owner of the holder agrees with the place; *)
(* the boost position is an entry of the waiting queue; the count of each  *)
(* child is the number of its holders at the parent.                       *)
(***************************************************************************)
Owners == Children \cup {Direct, None}

StandsOnce(s, st, m) ==
    /\ In(m, s.active) => ~ In(m, s.awaiters)
    /\ In(m, s.active) \/ In(m, s.awaiters) => st[m] # None
    /\ \A c \in Children :
          /\ In(m, s.child[c].parked) =>
                /\ st[m] = c
                /\ ~ In(m, s.active) /\ ~ In(m, s.awaiters)
                /\ ~ In(m, s.child[c].awaiters)
          /\ In(m, s.child[c].awaiters) =>
                st[m] = c /\ ~ In(m, s.active) /\ ~ In(m, s.awaiters)
    /\ \/ st[m] = None
       \/ In(m, s.active) \/ In(m, s.awaiters)
       \/ \E c \in Children : In(m, s.child[c].parked) \/ In(m, s.child[c].awaiters)

QueuesDistinct(s) ==
    /\ Distinct(s.active) /\ Distinct(s.awaiters)
    /\ \A c \in Children : Distinct(s.child[c].parked) /\ Distinct(s.child[c].awaiters)

BoostStands(s) == s.boostHead = NoMachine \/ In(s.boostHead, s.awaiters)

Placed(s, st) ==
    /\ s \in Sema
    /\ st \in [Machines -> Owners]
    /\ QueuesDistinct(s)
    /\ BoostStands(s)
    /\ \A m \in Machines : StandsOnce(s, st, m)

AtParent(s, st, c) ==
    {m \in Machines : st[m] = c /\ (In(m, s.active) \/ In(m, s.awaiters))}

Counted(s, st) ==
    \A c \in Children : s.child[c].atParent = Cardinality(AtParent(s, st, c))

Booked(s, st) == Placed(s, st) /\ Counted(s, st)

(* The count of a child is never negative, and not zero when one of its    *)
(* holders stands at the parent.                                           *)
LEMMA CountIsNat ==
    ASSUME NEW s, NEW st, NEW c
    PROVE  /\ IsFiniteSet(AtParent(s, st, c))
           /\ Cardinality(AtParent(s, st, c)) \in Nat
           /\ \A m \in AtParent(s, st, c) :
                 /\ IsFiniteSet(AtParent(s, st, c) \ {m})
                 /\ Cardinality(AtParent(s, st, c) \ {m})
                        = Cardinality(AtParent(s, st, c)) - 1
<1>1. IsFiniteSet(AtParent(s, st, c))
  BY ConstantsAssumption, FS_Subset DEF AtParent
<1> QED
  BY <1>1, FS_CardinalityType, FS_RemoveElement

(* What a step on the queues of the parent has to keep: entries move       *)
(* between the two queues of the parent.                                   *)
LEMMA MovesAtParent ==
    ASSUME NEW s, NEW st, Booked(s, st), NEW t \in Sema,
           t.child = s.child,
           Distinct(t.active), Distinct(t.awaiters), BoostStands(t),
           \A m \in Machines :
              /\ In(m, t.active) => ~ In(m, t.awaiters)
              /\ In(m, t.active) \/ In(m, t.awaiters)
                    <=> In(m, s.active) \/ In(m, s.awaiters)
    PROVE  Booked(t, st)
<1>1. Placed(t, st)
  BY DEF Booked, Placed, QueuesDistinct, StandsOnce
<1>2. \A c \in Children : AtParent(t, st, c) = AtParent(s, st, c)
  BY DEF AtParent
<1> QED
  BY <1>1, <1>2 DEF Booked, Counted
LEMMA TakenBounds ==
    ASSUME NEW n \in Int, NEW q \in Queue
    PROVE  /\ Taken(n, q) \in 0 .. Len(q)
           /\ n >= 0 => Taken(n, q) <= n
           /\ n > Len(q) => Taken(n, q) = Len(q)
           /\ 0 <= n /\ n <= Len(q) => Taken(n, q) = n
           /\ n <= 0 => Taken(n, q) = 0
BY DEF Taken, Queue

(* A limit raised by d lets j of the n waiters in: as many as it has places *)
(* for, so it is used up when some are left, and it is kept.                *)
LEMMA RaiseFits ==
    ASSUME NEW use \in Int, NEW limit \in Nat, NEW d \in Int, d >= 0,
           NEW n \in Nat, NEW j \in 0 .. n,
           d > n => j = n, 0 <= d /\ d <= n => j = d
    PROVE  /\ use >= limit /\ n - j > 0 => use + j >= d + limit
           /\ use <= limit => use + j <= d + limit
OBVIOUS

(* moveToActive lets the first k waiters pass; no child sees it. *)
LEMMA MoveToActiveBooked ==
    ASSUME NEW s, NEW st, Booked(s, st), NEW n \in Int
    PROVE  LET t == MoveToActive(s, n)
               k == Taken(n, s.awaiters)
           IN  /\ Booked(t, st)
               /\ t.limit = s.limit /\ t.child = s.child
               /\ Len(t.active) = Len(s.active) + k
               /\ Len(t.awaiters) = Len(s.awaiters) - k
<1> DEFINE t == MoveToActive(s, n)
           k == Taken(n, s.awaiters)
           f == FirstN(s.awaiters, k)
           d == DropN(s.awaiters, k)
<1>1. /\ s \in Sema /\ QueuesDistinct(s) /\ BoostStands(s)
      /\ \A m \in Machines : StandsOnce(s, st, m)
  BY DEF Booked, Placed
<1>2. s.active \in Queue /\ s.awaiters \in Queue
      /\ Distinct(s.active) /\ Distinct(s.awaiters)
  BY <1>1 DEF Sema, QueuesDistinct
<1>3. k \in 0 .. Len(s.awaiters)
  BY <1>2, TakenBounds
<1>4. /\ f \in Queue /\ Len(f) = k
      /\ d \in Queue /\ Len(d) = Len(s.awaiters) - k
  <2> HIDE DEF k
  <2> QED BY <1>2, <1>3, FirstNProperties, DropNProperties
<1>5. /\ \A x : In(x, s.awaiters) <=> In(x, f) \/ In(x, d)
      /\ \A x : ~ (In(x, f) /\ In(x, d))
      /\ Distinct(f) /\ Distinct(d)
  BY <1>2, <1>3, SplitIn
<1>6. \A x : In(x, f) => x \in Machines
  BY <1>4 DEF In, Queue
<1>7. \A x : ~ (In(x, s.active) /\ In(x, f))
  BY <1>1, <1>5, <1>6 DEF StandsOnce
<1>8. /\ s.active \o f \in Queue /\ Len(s.active \o f) = Len(s.active) + k
      /\ Distinct(s.active \o f)
      /\ \A x : In(x, s.active \o f) <=> In(x, s.active) \/ In(x, f)
  <2>1. s.active \o f \in Queue /\ Len(s.active \o f) = Len(s.active) + Len(f)
    BY <1>2, <1>4, ConcatQueues
  <2>2. Distinct(s.active \o f)
    BY <1>2, <1>4, <1>5, <1>7, ConcatIn
  <2>3. \A x : In(x, s.active \o f) <=> In(x, s.active) \/ In(x, f)
    BY <1>2, <1>4, ConcatIn
  <2> QED BY <1>4, <2>1, <2>2, <2>3
<1> DEFINE boost == IF In(s.boostHead, f) THEN FirstOf(d) ELSE s.boostHead
<1>9. /\ t \in [limit : {s.limit}, active : {s.active \o f}, awaiters : {d},
                boostHead : {boost}, child : {s.child}]
  BY <1>1 DEF MoveToActive, Sema
<1> HIDE DEF k, f, d, t
<1>10. boost = NoMachine \/ (boost \in Machines /\ In(boost, d))
  <2>1. CASE ~ In(s.boostHead, f)
    BY <2>1, <1>1, <1>4, <1>5 DEF BoostStands, Sema
  <2>2. CASE In(s.boostHead, f)
    BY <2>2, <1>4, FirstOfIn
  <2> QED BY <2>1, <2>2
<1> HIDE DEF boost
<1>11. t \in Sema
  BY <1>1, <1>4, <1>8, <1>9, <1>10 DEF Sema
<1>12. Booked(t, st)
  <2>1. t.active = s.active \o f /\ t.awaiters = d /\ t.child = s.child
        /\ t.boostHead = boost
    BY <1>9
  <2>2. \A m \in Machines :
          /\ In(m, t.active) => ~ In(m, t.awaiters)
          /\ In(m, t.active) \/ In(m, t.awaiters)
                <=> In(m, s.active) \/ In(m, s.awaiters)
    BY <1>1, <1>5, <1>8, <2>1 DEF StandsOnce
  <2>3. BoostStands(t)
    BY <1>10, <2>1 DEF BoostStands
  <2>4. Distinct(t.active) /\ Distinct(t.awaiters)
    BY <1>5, <1>8, <2>1
  <2> QED BY <1>11, <2>1, <2>2, <2>3, <2>4, MovesAtParent
<1> QED
  BY <1>4, <1>8, <1>9, <1>12 DEF t, k

(* moveToInactive takes the first k waiters of a child to the parent, and  *)
(* counts them there.                                                      *)
LEMMA MoveToInactiveBooked ==
    ASSUME NEW s, NEW st, Booked(s, st), NEW c \in Children, NEW n \in Int
    PROVE  LET t == MoveToInactive(s, c, n)
               k == Taken(n, s.child[c].awaiters)
           IN  /\ Booked(t, st)
               /\ t.limit = s.limit /\ t.active = s.active
               /\ t.child[c].limit = s.child[c].limit
               /\ t.child[c].parked = s.child[c].parked
               /\ t.child[c].atParent = s.child[c].atParent + k
               /\ Len(t.child[c].awaiters) = Len(s.child[c].awaiters) - k
               /\ Len(t.awaiters) = Len(s.awaiters) + k
               /\ \A o \in Children \ {c} : t.child[o] = s.child[o]
<1> DEFINE w == s.child[c].awaiters
           k == Taken(n, w)
           f == FirstN(w, k)
           d == DropN(w, k)
           t == MoveToInactive(s, c, n)
<1>1. /\ s \in Sema /\ st \in [Machines -> Owners] /\ QueuesDistinct(s) /\ BoostStands(s)
      /\ \A m \in Machines : StandsOnce(s, st, m)
      /\ Counted(s, st)
  BY DEF Booked, Placed
<1>2. /\ s.child \in [Children -> ChildSema] /\ s.child[c] \in ChildSema
      /\ s.awaiters \in Queue /\ w \in Queue
      /\ Distinct(s.awaiters) /\ Distinct(w)
  BY <1>1 DEF Sema, ChildSema, QueuesDistinct
<1>3. k \in 0 .. Len(w)
  BY <1>2, TakenBounds
<1> DEFINE e == [s.child[c] EXCEPT !.awaiters = d, !.atParent = s.child[c].atParent + k]
<1>4. t = [s EXCEPT !.awaiters = s.awaiters \o f,
                    !.child = [s.child EXCEPT ![c] = e]]
  <2>1. t = [s EXCEPT !.awaiters = s.awaiters \o f,
                      !.child[c].awaiters = d,
                      !.child[c].atParent = s.child[c].atParent + k]
    BY DEF MoveToInactive
  <2> HIDE DEF t, k, f, d, w
  <2> QED BY <2>1, <1>1, <1>2 DEF Sema, ChildSema
<1>5. /\ f \in Queue /\ Len(f) = k
      /\ d \in Queue /\ Len(d) = Len(w) - k
  <2> HIDE DEF k, w
  <2> QED BY <1>2, <1>3, FirstNProperties, DropNProperties
<1>6. /\ \A x : In(x, w) <=> In(x, f) \/ In(x, d)
      /\ \A x : ~ (In(x, f) /\ In(x, d))
      /\ Distinct(f) /\ Distinct(d)
  <2> HIDE DEF k, w
  <2> QED BY <1>2, <1>3, SplitIn
<1>7. \A x : In(x, f) => x \in Machines
  <2> HIDE DEF f
  <2> QED BY <1>5 DEF In, Queue
<1> DEFINE a == s.awaiters \o f
<1>8. /\ a \in Queue /\ Len(a) = Len(s.awaiters) + k
      /\ Distinct(a)
      /\ \A x : In(x, a) <=> In(x, s.awaiters) \/ In(x, f)
  <2> HIDE DEF f, d, k
  <2>1. \A x : ~ (In(x, s.awaiters) /\ In(x, f))
    BY <1>1, <1>6, <1>7 DEF StandsOnce
  <2>2. a \in Queue /\ Len(a) = Len(s.awaiters) + Len(f)
    BY <1>2, <1>5, ConcatQueues
  <2>3. Distinct(a)
    BY <1>2, <1>5, <1>6, <2>1, ConcatIn
  <2>4. \A x : In(x, a) <=> In(x, s.awaiters) \/ In(x, f)
    BY <1>2, <1>5, ConcatIn
  <2> QED BY <1>5, <2>2, <2>3, <2>4
<1> HIDE DEF k, f, d, a, t, w
<1>9. /\ t.limit = s.limit /\ t.active = s.active /\ t.boostHead = s.boostHead
      /\ t.awaiters = a
      /\ t.child \in [Children -> ChildSema]
      /\ t.child[c].limit = s.child[c].limit
      /\ t.child[c].parked = s.child[c].parked
      /\ t.child[c].atParent = s.child[c].atParent + k
      /\ t.child[c].awaiters = d
      /\ \A o \in Children \ {c} : t.child[o] = s.child[o]
      /\ t \in Sema
  <2>1. k \in Int
    BY <1>2, <1>3 DEF Queue
  <2>2. /\ e \in ChildSema /\ e.limit = s.child[c].limit /\ e.parked = s.child[c].parked
        /\ e.awaiters = d /\ e.atParent = s.child[c].atParent + k
    <3> DEFINE r == s.child[c]
    <3>1. r \in ChildSema /\ r.atParent + k \in Int
      BY <1>2, <2>1 DEF ChildSema
    <3>2. e = [r EXCEPT !.awaiters = d, !.atParent = r.atParent + k]
      OBVIOUS
    <3> HIDE DEF r, e
    <3>3. /\ e \in ChildSema /\ e.limit = r.limit /\ e.parked = r.parked
          /\ e.awaiters = d /\ e.atParent = r.atParent + k
      BY <1>5, <3>1, <3>2 DEF ChildSema
    <3> QED BY <3>3 DEF r
  <2>3. t = [s EXCEPT !.awaiters = a, !.child = [s.child EXCEPT ![c] = e]]
    BY <1>4 DEF a
  <2> HIDE DEF e
  <2>4. /\ [s.child EXCEPT ![c] = e] \in [Children -> ChildSema]
        /\ [s.child EXCEPT ![c] = e][c] = e
        /\ \A o \in Children \ {c} : [s.child EXCEPT ![c] = e][o] = s.child[o]
    BY <1>2, <2>2
  <2>5. /\ t.limit = s.limit /\ t.active = s.active /\ t.boostHead = s.boostHead
        /\ t.awaiters = a /\ t.child = [s.child EXCEPT ![c] = e] /\ t \in Sema
    BY <1>1, <1>8, <2>3, <2>4 DEF Sema
  <2> QED BY <2>2, <2>4, <2>5
<1>10. QueuesDistinct(t) /\ BoostStands(t)
  BY <1>1, <1>6, <1>8, <1>9 DEF QueuesDistinct, BoostStands
<1>11. ASSUME NEW m \in Machines PROVE StandsOnce(t, st, m)
  <2>1. StandsOnce(s, st, m)
    BY <1>1
  <2>2. In(m, f) => In(m, w)
    BY <1>6
  <2>3. In(m, w) => st[m] = c /\ ~ In(m, s.active) /\ ~ In(m, s.awaiters) /\ st[m] # None
    BY <2>1, OwnersAssumption DEF StandsOnce, w
  <2>4. In(m, t.active) => ~ In(m, t.awaiters)
    BY <1>8, <1>9, <2>1, <2>2, <2>3 DEF StandsOnce
  <2>5. In(m, t.active) \/ In(m, t.awaiters) => st[m] # None
    BY <1>8, <1>9, <2>1, <2>2, <2>3 DEF StandsOnce
  <2>6. ASSUME NEW o \in Children
        PROVE  /\ In(m, t.child[o].parked) =>
                    /\ st[m] = o
                    /\ ~ In(m, t.active) /\ ~ In(m, t.awaiters)
                    /\ ~ In(m, t.child[o].awaiters)
               /\ In(m, t.child[o].awaiters) =>
                    st[m] = o /\ ~ In(m, t.active) /\ ~ In(m, t.awaiters)
    <3>1. CASE o = c
      BY <1>6, <1>8, <1>9, <2>1, <2>2, <3>1 DEF StandsOnce, w
    <3>2. CASE o # c
      BY <1>6, <1>8, <1>9, <2>1, <2>2, <2>3, <3>2 DEF StandsOnce, w
    <3> QED BY <3>1, <3>2
  <2>7. \/ st[m] = None
        \/ In(m, t.active) \/ In(m, t.awaiters)
        \/ \E o \in Children : In(m, t.child[o].parked) \/ In(m, t.child[o].awaiters)
    <3>1. CASE st[m] = None \/ In(m, s.active) \/ In(m, s.awaiters)
      BY <1>8, <1>9, <3>1
    <3>2. ASSUME NEW o \in Children, In(m, s.child[o].parked) \/ In(m, s.child[o].awaiters)
          PROVE  \/ In(m, t.awaiters)
                 \/ In(m, t.child[o].parked) \/ In(m, t.child[o].awaiters)
      BY <1>6, <1>8, <1>9, <3>2 DEF w
    <3> QED BY <2>1, <3>1, <3>2 DEF StandsOnce
  <2> QED BY <2>4, <2>5, <2>6, <2>7 DEF StandsOnce
<1>12. Counted(t, st)
  <2> DEFINE F == {m \in Machines : In(m, f)}
             A == AtParent(s, st, c)
  <2>1. IsFiniteSet(F) /\ Cardinality(F) = k
    BY <1>5, <1>6, QueueCount
  <2>2. \A m \in Machines : In(m, f) => st[m] = c /\ ~ In(m, s.active) /\ ~ In(m, s.awaiters)
    BY <1>1, <1>6 DEF StandsOnce, w
  <2>3. AtParent(t, st, c) = A \cup F /\ A \cap F = {}
    BY <1>8, <1>9, <2>2 DEF AtParent
  <2>4. \A o \in Children \ {c} : AtParent(t, st, o) = AtParent(s, st, o)
    BY <1>8, <1>9, <2>2 DEF AtParent
  <2>5. IsFiniteSet(A) /\ Cardinality(A) \in Nat
    BY CountIsNat
  <2> HIDE DEF A, F
  <2>6. Cardinality(A \cup F) = Cardinality(A) + k
    <3>1. Cardinality(A \cap F) = 0
      BY <2>3, FS_EmptySet
    <3>2. Cardinality(A \cup F) = Cardinality(A) + Cardinality(F) - Cardinality(A \cap F)
      BY <2>1, <2>5, FS_Union
    <3>3. k \in Nat
      BY <1>2, <1>3 DEF Queue
    <3> QED BY <2>1, <2>5, <3>1, <3>2, <3>3
  <2>7. s.child[c].atParent = Cardinality(A)
    BY <1>1 DEF Counted, A
  <2> QED BY <1>1, <1>9, <2>3, <2>4, <2>6, <2>7 DEF Counted
<1>13. Booked(t, st)
  BY <1>1, <1>9, <1>10, <1>11, <1>12 DEF Booked, Placed
<1> QED
  BY <1>5, <1>8, <1>9, <1>13 DEF t, k, w

-----------------------------------------------------------------------------
(* What an operation that touches one holder has to keep: every other      *)
(* machine stays where it is, and each child counts the one that moved.    *)
SamePlace(s, t, x) ==
    /\ In(x, t.active) <=> In(x, s.active)
    /\ In(x, t.awaiters) <=> In(x, s.awaiters)
    /\ \A c \in Children :
          /\ In(x, t.child[c].parked) <=> In(x, s.child[c].parked)
          /\ In(x, t.child[c].awaiters) <=> In(x, s.child[c].awaiters)

One(m, S) == IF m \in S THEN 1 ELSE 0

LEMMA OneMoves ==
    ASSUME NEW s, NEW st, Booked(s, st),
           NEW t \in Sema, NEW u \in [Machines -> Owners], NEW m \in Machines,
           QueuesDistinct(t), BoostStands(t),
           StandsOnce(t, u, m),
           \A x \in Machines \ {m} : SamePlace(s, t, x) /\ u[x] = st[x],
           \A c \in Children :
              t.child[c].atParent = s.child[c].atParent
                 - One(m, AtParent(s, st, c)) + One(m, AtParent(t, u, c))
    PROVE  Booked(t, u)
<1>1. ASSUME NEW x \in Machines \ {m} PROVE StandsOnce(t, u, x)
  <2>1. StandsOnce(s, st, x) /\ SamePlace(s, t, x) /\ u[x] = st[x]
    BY DEF Booked, Placed
  <2> QED BY <2>1 DEF StandsOnce, SamePlace
<1>2. ASSUME NEW c \in Children PROVE t.child[c].atParent = Cardinality(AtParent(t, u, c))
  <2> DEFINE A == AtParent(s, st, c)
             B == AtParent(t, u, c)
  <2>1. A \ {m} = B \ {m}
    BY DEF AtParent, SamePlace
  <2>2. /\ Cardinality(A) \in Nat /\ Cardinality(B) \in Nat
        /\ m \in A => Cardinality(A \ {m}) = Cardinality(A) - 1
        /\ m \in B => Cardinality(B \ {m}) = Cardinality(B) - 1
        /\ m \notin A => A \ {m} = A
        /\ m \notin B => B \ {m} = B
    BY CountIsNat
  <2>3. s.child[c].atParent = Cardinality(A)
    BY DEF Booked, Counted
  <2>4. t.child[c].atParent = Cardinality(A) - One(m, A) + One(m, B)
    BY <2>3
  <2> SUFFICES t.child[c].atParent = Cardinality(B)
    OBVIOUS
  <2> DEFINE d == Cardinality(A \ {m})
  <2>5. d \in Int /\ Cardinality(A) = d + One(m, A)
    <3>1. CASE m \in A
      BY <2>2, <3>1 DEF One
    <3>2. CASE m \notin A
      <4>1. A \ {m} = A
        BY <3>2
      <4>2. One(m, A) = 0 /\ d = Cardinality(A)
        BY <4>1, <3>2 DEF One
      <4> QED BY <2>2, <4>2
    <3> QED BY <3>1, <3>2
  <2>6. Cardinality(B) = d + One(m, B)
    <3>1. CASE m \in B
      <4>1. Cardinality(B \ {m}) = d
        BY <2>1
      <4>2. One(m, B) = 1
        BY <3>1 DEF One
      <4> QED BY <2>2, <3>1, <4>1, <4>2
    <3>2. CASE m \notin B
      <4>1. B = A \ {m}
        BY <2>1, <3>2
      <4>2. One(m, B) = 0 /\ Cardinality(B) = d
        BY <4>1, <3>2 DEF One
      <4> QED BY <2>5, <4>2
    <3> QED BY <3>1, <3>2
  <2>7. One(m, A) \in Int /\ One(m, B) \in Int
    BY DEF One
  <2> HIDE DEF A, B, d
  <2> QED BY <2>4, <2>5, <2>6, <2>7
<1> QED
  BY <1>1, <1>2 DEF Booked, Placed, Counted

(* _addSlot: the new waiter stands in the waiting queue of the semaphore.  *)
LEMMA AddSlotProperties ==
    ASSUME NEW s \in Sema, NEW m \in Machines, NEW f, NEW first,
           Distinct(s.awaiters), BoostStands(s), ~ In(m, s.awaiters)
    PROVE  LET t == AddSlot(s, m, f, first)
           IN  /\ t \in Sema
               /\ t.limit = s.limit /\ t.active = s.active /\ t.child = s.child
               /\ Distinct(t.awaiters) /\ BoostStands(t)
               /\ \A x : In(x, t.awaiters) <=> In(x, s.awaiters) \/ x = m
<1> DEFINE t == AddSlot(s, m, f, first)
<1>1. s.awaiters \in Queue /\ s.boostHead \in Machines \cup {NoMachine}
  BY DEF Sema
<1>2. CASE AllowsPriority /\ (f = "high" \/ first)
  <2> DEFINE q == <<m>> \o s.awaiters
  <2>1. t = [s EXCEPT !.awaiters = q]
    BY <1>2 DEF AddSlot
  <2>2. q \in Queue
    BY <1>1, OneEntry, ConcatQueues
  <2>3. /\ Distinct(q)
        /\ \A x : In(x, q) <=> In(x, s.awaiters) \/ x = m
    BY <1>1, OneEntry, ConcatIn
  <2> HIDE DEF q, t
  <2> QED BY <2>1, <2>2, <2>3 DEF Sema, BoostStands, t
<1>3. CASE /\ AllowsPriority /\ f = "boosted" /\ ~ first /\ s.boostHead # NoMachine
  <2> DEFINE q == InsertBefore(s.awaiters, IndexOf(s.boostHead, s.awaiters), m)
  <2>1. t = [s EXCEPT !.awaiters = q]
    BY <1>3 DEF AddSlot
  <2>2. In(s.boostHead, s.awaiters)
    BY <1>3 DEF BoostStands
  <2>3. IndexOf(s.boostHead, s.awaiters) \in 1 .. Len(s.awaiters)
    BY <1>1, <2>2, IndexOfIn
  <2>4. /\ q \in Queue /\ Distinct(q)
        /\ \A x : In(x, q) <=> In(x, s.awaiters) \/ x = m
    BY <1>1, <2>3, InsertProperties
  <2> HIDE DEF q, t
  <2> QED BY <2>1, <2>4 DEF Sema, BoostStands, t
<1>4. CASE /\ ~ (AllowsPriority /\ (f = "high" \/ first))
           /\ ~ (AllowsPriority /\ f = "boosted" /\ ~ first /\ s.boostHead # NoMachine)
  <2> DEFINE q == Append(s.awaiters, m)
             b == IF AllowsPriority /\ f = "plain" /\ s.boostHead = NoMachine
                  THEN m ELSE s.boostHead
  <2>1. t = [s EXCEPT !.awaiters = q, !.boostHead = b]
    BY <1>4 DEF AddSlot
  <2>2. /\ q \in Queue /\ Distinct(q)
        /\ \A x : In(x, q) <=> In(x, s.awaiters) \/ x = m
    BY <1>1, AppendIn
  <2>3. b \in Machines \cup {NoMachine} /\ (b = NoMachine \/ In(b, q))
    BY <1>1, <2>2 DEF BoostStands
  <2> HIDE DEF q, b, t
  <2> QED BY <2>1, <2>2, <2>3 DEF Sema, BoostStands, t
<1> QED
  BY <1>2, <1>3, <1>4

(* removeFromQueue on the waiters of the semaphore. *)
LEMMA RemoveAwaiterProperties ==
    ASSUME NEW s \in Sema, NEW m \in Machines,
           Distinct(s.awaiters), BoostStands(s), In(m, s.awaiters)
    PROVE  LET t == RemoveAwaiter(s, m)
           IN  /\ t \in Sema
               /\ t.limit = s.limit /\ t.active = s.active /\ t.child = s.child
               /\ t.awaiters = Without(s.awaiters, m)
               /\ Distinct(t.awaiters) /\ BoostStands(t)
               /\ \A x : In(x, t.awaiters) <=> In(x, s.awaiters) /\ x # m
<1> DEFINE t == RemoveAwaiter(s, m)
           q == Without(s.awaiters, m)
           i == IndexOf(m, s.awaiters)
           d == DropN(s.awaiters, i)
           b == IF s.boostHead = m THEN FirstOf(d) ELSE s.boostHead
<1>1. s.awaiters \in Queue /\ s.boostHead \in Machines \cup {NoMachine}
  BY DEF Sema
<1>2. t = [s EXCEPT !.awaiters = q, !.boostHead = b]
  BY DEF RemoveAwaiter
<1>3. /\ q \in Queue /\ Distinct(q)
      /\ \A x : In(x, q) <=> In(x, s.awaiters) /\ x # m
  BY <1>1, WithoutProperties
<1>4. i \in 1 .. Len(s.awaiters) /\ s.awaiters[i] = m
  BY <1>1, IndexOfIn
<1>5. i \in 0 .. Len(s.awaiters)
  BY <1>1, <1>4 DEF Queue
<1>6. /\ d \in Queue /\ Len(d) = Len(s.awaiters) - i
      /\ \A j \in 1 .. Len(s.awaiters) - i : d[j] = s.awaiters[i + j]
  <2> HIDE DEF i
  <2> QED BY <1>1, <1>5, DropNProperties
<1> HIDE DEF i, d
<1>7. \A x : In(x, d) => In(x, s.awaiters) /\ x # m
  <2> SUFFICES ASSUME NEW j \in 1 .. Len(d)
               PROVE  In(d[j], s.awaiters) /\ d[j] # m
    BY <1>6 DEF In, Queue
  <2>1. /\ i + j \in DOMAIN s.awaiters /\ i \in DOMAIN s.awaiters
        /\ d[j] = s.awaiters[i + j] /\ i + j # i
    BY <1>1, <1>4, <1>6 DEF Queue
  <2> QED BY <1>4, <2>1 DEF In, Distinct
<1>8. b \in Machines \cup {NoMachine} /\ (b = NoMachine \/ In(b, q))
  <2>1. CASE s.boostHead = m
    BY <2>1, <1>3, <1>6, <1>7, FirstOfIn
  <2>2. CASE s.boostHead # m
    BY <2>2, <1>1, <1>3 DEF BoostStands
  <2> QED BY <2>1, <2>2
<1> HIDE DEF q, b, t
<1> QED
  BY <1>2, <1>3, <1>8 DEF Sema, BoostStands, t, q

(* The waiters of a child that has room move on, so that there is no room  *)
(* left or nobody waits.                                                   *)
LEMMA ChildUpdateQueueBooked ==
    ASSUME NEW s, NEW st, Booked(s, st), NEW c \in Children
    PROVE  LET t == ChildUpdateQueue(s, c)
           IN  /\ Booked(t, st)
               /\ t.limit = s.limit /\ t.active = s.active
               /\ t.child[c].limit = s.child[c].limit
               /\ t.child[c].awaiters # <<>> => ChildUse(t, c) >= t.child[c].limit
               /\ ChildUse(s, c) <= s.child[c].limit => ChildUse(t, c) <= t.child[c].limit
               /\ s.child[c].awaiters = <<>> \/ ChildUse(s, c) >= s.child[c].limit
                     => Len(t.awaiters) = Len(s.awaiters)
               /\ \A o \in Children \ {c} : t.child[o] = s.child[o]
<1> DEFINE t == ChildUpdateQueue(s, c)
           w == s.child[c].awaiters
           n == s.child[c].limit - ChildUse(s, c)
           k == Taken(n, w)
<1>1. s.child[c] \in ChildSema /\ s \in Sema
  BY DEF Booked, Placed, Sema
<1>2. /\ w \in Queue /\ s.child[c].parked \in Queue /\ s.child[c].limit \in Nat
      /\ s.child[c].atParent \in Int
  BY <1>1 DEF ChildSema
<1>3. ChildUse(s, c) \in Int /\ n \in Int
  <2>1. Len(s.child[c].parked) \in Int
    BY <1>2 DEF Queue
  <2>2. ChildUse(s, c) \in Int
    BY <1>2, <2>1 DEF ChildUse
  <2> QED BY <1>2, <2>2
<1>4. /\ Booked(t, st)
      /\ t.limit = s.limit /\ t.active = s.active
      /\ t.child[c].limit = s.child[c].limit
      /\ t.child[c].parked = s.child[c].parked
      /\ t.child[c].atParent = s.child[c].atParent + k
      /\ Len(t.child[c].awaiters) = Len(w) - k
      /\ Len(t.awaiters) = Len(s.awaiters) + k
      /\ \A o \in Children \ {c} : t.child[o] = s.child[o]
  BY <1>3, MoveToInactiveBooked DEF ChildUpdateQueue
<1>5. /\ k \in 0 .. Len(w)
      /\ n >= 0 => k <= n
      /\ n > Len(w) => k = Len(w)
      /\ 0 <= n /\ n <= Len(w) => k = n
      /\ n <= 0 => k = 0
  BY <1>2, <1>3, TakenBounds
<1>6. t.child[c] \in ChildSema /\ t.awaiters \in Queue /\ s.awaiters \in Queue
  BY <1>1, <1>4 DEF Booked, Placed, Sema
<1>7. ChildUse(t, c) = ChildUse(s, c) + k
  <2>1. Len(s.child[c].parked) \in Int /\ k \in Int
    BY <1>2, <1>5 DEF Queue
  <2> QED BY <1>2, <1>4, <2>1 DEF ChildUse
<1> HIDE DEF t, k
<1>8. t.child[c].awaiters # <<>> => Len(t.child[c].awaiters) > 0
  BY <1>6 DEF ChildSema, Queue
<1>9. Len(w) \in Nat /\ (w = <<>> => Len(w) = 0) /\ Len(s.awaiters) \in Nat
  BY <1>2, <1>6 DEF Queue
<1>10. s.child[c].limit = n + ChildUse(s, c)
  BY <1>2, <1>3
<1>15. w = s.child[c].awaiters
  OBVIOUS
<1> HIDE DEF n, w
<1>11. t.child[c].awaiters # <<>> => ChildUse(t, c) >= t.child[c].limit
  BY <1>3, <1>4, <1>5, <1>7, <1>8, <1>9, <1>10
<1>12. ChildUse(s, c) <= s.child[c].limit => ChildUse(t, c) <= t.child[c].limit
  BY <1>3, <1>4, <1>5, <1>7, <1>9, <1>10
<1>13. w = <<>> \/ ChildUse(s, c) >= s.child[c].limit => Len(t.awaiters) = Len(s.awaiters)
  BY <1>3, <1>4, <1>5, <1>9, <1>10
<1> QED
  BY <1>4, <1>11, <1>12, <1>13, <1>15 DEF t

-----------------------------------------------------------------------------
(* Another state of one child. *)
SetChild(s, c, e) == [s EXCEPT !.child = [s.child EXCEPT ![c] = e]]

LEMMA SetChildProperties ==
    ASSUME NEW s \in Sema, NEW c \in Children, NEW e \in ChildSema
    PROVE  LET t == SetChild(s, c, e)
           IN  /\ t \in Sema
               /\ t.limit = s.limit /\ t.active = s.active /\ t.awaiters = s.awaiters
               /\ t.boostHead = s.boostHead
               /\ t.child[c] = e
               /\ \A o \in Children \ {c} : t.child[o] = s.child[o]
<1> DEFINE ch == [s.child EXCEPT ![c] = e]
           t == SetChild(s, c, e)
<1>1. s.child \in [Children -> ChildSema]
  BY DEF Sema
<1>2. /\ ch \in [Children -> ChildSema] /\ ch[c] = e
      /\ \A o \in Children \ {c} : ch[o] = s.child[o]
  BY <1>1
<1>3. t = [s EXCEPT !.child = ch]
  BY DEF SetChild
<1> HIDE DEF ch, t
<1>4. /\ t \in Sema /\ t.child = ch
      /\ t.limit = s.limit /\ t.active = s.active /\ t.awaiters = s.awaiters
      /\ t.boostHead = s.boostHead
  BY <1>2, <1>3 DEF Sema
<1> QED
  BY <1>2, <1>4 DEF t

(* A child whose count and whose queues change, its limit does not. *)
Child(k, n, p, w) ==
    [limit |-> k.limit, atParent |-> n, parked |-> p, awaiters |-> w]

LEMMA ChildRecords ==
    ASSUME NEW k \in ChildSema
    PROVE  /\ \A n \in Int :
                 [k EXCEPT !.atParent = n] = Child(k, n, k.parked, k.awaiters)
           /\ \A p \in Queue :
                 [k EXCEPT !.parked = p] = Child(k, k.atParent, p, k.awaiters)
           /\ \A w \in Queue :
                 [k EXCEPT !.awaiters = w] = Child(k, k.atParent, k.parked, w)
           /\ \A n \in Int, p \in Queue :
                 /\ [k EXCEPT !.atParent = n, !.parked = p] = Child(k, n, p, k.awaiters)
                 /\ [k EXCEPT !.parked = p, !.atParent = n] = Child(k, n, p, k.awaiters)
<1>1. \A n \in Int : [k EXCEPT !.atParent = n] = Child(k, n, k.parked, k.awaiters)
  BY DEF Child, ChildSema
<1>2. \A p \in Queue : [k EXCEPT !.parked = p] = Child(k, k.atParent, p, k.awaiters)
  BY DEF Child, ChildSema
<1>3. \A w \in Queue : [k EXCEPT !.awaiters = w] = Child(k, k.atParent, k.parked, w)
  BY DEF Child, ChildSema
<1>4. ASSUME NEW n \in Int, NEW p \in Queue
      PROVE  [k EXCEPT !.atParent = n, !.parked = p] = Child(k, n, p, k.awaiters)
  <2> DEFINE e == [k EXCEPT !.atParent = n, !.parked = p]
  <2>1. /\ e \in ChildSema /\ e.limit = k.limit /\ e.awaiters = k.awaiters
        /\ e.atParent = n /\ e.parked = p
    BY DEF ChildSema
  <2> HIDE DEF e
  <2>2. e = Child(k, n, p, k.awaiters)
    BY <2>1 DEF Child, ChildSema
  <2> QED BY <2>2 DEF e
<1>5. ASSUME NEW n \in Int, NEW p \in Queue
      PROVE  [k EXCEPT !.parked = p, !.atParent = n] = Child(k, n, p, k.awaiters)
  <2> DEFINE e == [k EXCEPT !.parked = p, !.atParent = n]
  <2>1. /\ e \in ChildSema /\ e.limit = k.limit /\ e.awaiters = k.awaiters
        /\ e.atParent = n /\ e.parked = p
    BY DEF ChildSema
  <2> HIDE DEF e
  <2>2. e = Child(k, n, p, k.awaiters)
    BY <2>1 DEF Child, ChildSema
  <2> QED BY <2>2 DEF e
<1> QED
  BY <1>1, <1>2, <1>3, <1>4, <1>5

(* The updates of a child that the operations make. *)
LEMMA CountForm ==
    ASSUME NEW s \in Sema, NEW c \in Children, NEW n \in Int
    PROVE  [s EXCEPT !.child[c].atParent = n]
              = SetChild(s, c, Child(s.child[c], n, s.child[c].parked, s.child[c].awaiters))
<1> DEFINE k == s.child[c]
<1>1. k \in ChildSema /\ s.child \in [Children -> ChildSema]
  BY DEF Sema
<1>2. [s EXCEPT !.child[c].atParent = n] = SetChild(s, c, [k EXCEPT !.atParent = n])
  BY <1>1 DEF SetChild, Sema
<1>3. [k EXCEPT !.atParent = n] = Child(k, n, k.parked, k.awaiters)
  BY <1>1, ChildRecords
<1> QED
  BY <1>2, <1>3

LEMMA ParkedForm ==
    ASSUME NEW s \in Sema, NEW c \in Children, NEW p \in Queue
    PROVE  [s EXCEPT !.child[c].parked = p]
              = SetChild(s, c, Child(s.child[c], s.child[c].atParent, p, s.child[c].awaiters))
<1> DEFINE k == s.child[c]
<1>1. k \in ChildSema /\ s.child \in [Children -> ChildSema]
  BY DEF Sema
<1>2. [s EXCEPT !.child[c].parked = p] = SetChild(s, c, [k EXCEPT !.parked = p])
  BY <1>1 DEF SetChild, Sema
<1>3. [k EXCEPT !.parked = p] = Child(k, k.atParent, p, k.awaiters)
  BY <1>1, ChildRecords
<1> QED
  BY <1>2, <1>3

LEMMA AwaitersForm ==
    ASSUME NEW s \in Sema, NEW c \in Children, NEW w \in Queue
    PROVE  [s EXCEPT !.child[c].awaiters = w]
              = SetChild(s, c, Child(s.child[c], s.child[c].atParent, s.child[c].parked, w))
<1> DEFINE k == s.child[c]
<1>1. k \in ChildSema /\ s.child \in [Children -> ChildSema]
  BY DEF Sema
<1>2. [s EXCEPT !.child[c].awaiters = w] = SetChild(s, c, [k EXCEPT !.awaiters = w])
  BY <1>1 DEF SetChild, Sema
<1>3. [k EXCEPT !.awaiters = w] = Child(k, k.atParent, k.parked, w)
  BY <1>1, ChildRecords
<1> QED
  BY <1>2, <1>3

LEMMA CountParkedForm ==
    ASSUME NEW s \in Sema, NEW c \in Children, NEW n \in Int, NEW p \in Queue
    PROVE  [s EXCEPT !.child[c].atParent = n, !.child[c].parked = p]
              = SetChild(s, c, Child(s.child[c], n, p, s.child[c].awaiters))
<1> DEFINE k == s.child[c]
<1>1. k \in ChildSema /\ s.child \in [Children -> ChildSema]
  BY DEF Sema
<1>2. [s EXCEPT !.child[c].atParent = n, !.child[c].parked = p]
         = SetChild(s, c, [k EXCEPT !.atParent = n, !.parked = p])
  BY <1>1 DEF SetChild, Sema
<1>3. [k EXCEPT !.atParent = n, !.parked = p] = Child(k, n, p, k.awaiters)
  BY <1>1, ChildRecords
<1> QED
  BY <1>2, <1>3

LEMMA ParkedCountForm ==
    ASSUME NEW s \in Sema, NEW c \in Children, NEW n \in Int, NEW p \in Queue
    PROVE  [s EXCEPT !.child[c].parked = p, !.child[c].atParent = n]
              = SetChild(s, c, Child(s.child[c], n, p, s.child[c].awaiters))
<1> DEFINE k == s.child[c]
<1>1. k \in ChildSema /\ s.child \in [Children -> ChildSema]
  BY DEF Sema
<1>2. [s EXCEPT !.child[c].parked = p, !.child[c].atParent = n]
         = SetChild(s, c, [k EXCEPT !.parked = p, !.atParent = n])
  BY <1>1 DEF SetChild, Sema
<1>3. [k EXCEPT !.parked = p, !.atParent = n] = Child(k, n, p, k.awaiters)
  BY <1>1, ChildRecords
<1> QED
  BY <1>2, <1>3

-----------------------------------------------------------------------------
(* The properties of one state of the semaphore. *)
NobodyIdle(s) ==
    \A c \in Children :
       s.child[c].awaiters # <<>> => ChildUse(s, c) >= s.child[c].limit

ChildrenWithin(s) == \A c \in Children : ChildUse(s, c) <= s.child[c].limit

Full(s) == s.awaiters # <<>> => Len(s.active) >= s.limit

(* updateQueue fills the free places, and no more. *)
LEMMA UpdateQueueBooked ==
    ASSUME NEW s, NEW st, Booked(s, st)
    PROVE  LET t == UpdateQueue(s)
           IN  /\ Booked(t, st)
               /\ t.limit = s.limit /\ t.child = s.child
               /\ Full(t)
               /\ Len(s.active) <= s.limit => Len(t.active) <= t.limit
<1> DEFINE t == UpdateQueue(s)
           n == s.limit - Len(s.active)
           k == Taken(n, s.awaiters)
<1>1. s \in Sema
  BY DEF Booked, Placed
<1>2. s.awaiters \in Queue /\ s.active \in Queue /\ s.limit \in Nat
  BY <1>1 DEF Sema
<1>3. Len(s.active) \in Nat /\ Len(s.awaiters) \in Nat /\ n \in Int
  BY <1>2 DEF Queue
<1>4. /\ Booked(t, st) /\ t.limit = s.limit /\ t.child = s.child
      /\ Len(t.active) = Len(s.active) + k
      /\ Len(t.awaiters) = Len(s.awaiters) - k
  BY <1>3, MoveToActiveBooked DEF UpdateQueue
<1>5. /\ k \in 0 .. Len(s.awaiters)
      /\ n >= 0 => k <= n
      /\ n > Len(s.awaiters) => k = Len(s.awaiters)
      /\ 0 <= n /\ n <= Len(s.awaiters) => k = n
      /\ n <= 0 => k = 0
  BY <1>2, <1>3, TakenBounds
<1>6. t.awaiters # <<>> => Len(t.awaiters) > 0
  <2>1. t.awaiters \in Queue
    BY <1>4 DEF Booked, Placed, Sema
  <2> HIDE DEF t
  <2> QED BY <2>1 DEF Queue
<1> HIDE DEF t, k
<1>7. Full(t)
  BY <1>2, <1>3, <1>4, <1>5, <1>6 DEF Full
<1>8. Len(s.active) <= s.limit => Len(t.active) <= t.limit
  BY <1>2, <1>3, <1>4, <1>5
<1> QED
  BY <1>4, <1>7, <1>8 DEF t

-----------------------------------------------------------------------------
(* A machine joins a queue of the semaphore: createDependency, and the     *)
(* partial acquire of a parked machine.                                    *)
JoinParent(s, m, f, first) ==
    IF CanPassThrough(s) THEN [s EXCEPT !.active = Append(@, m)]
                         ELSE AddSlot(s, m, f, first)

LEMMA JoinParentProperties ==
    ASSUME NEW s \in Sema, NEW m \in Machines, NEW f, NEW first,
           QueuesDistinct(s), BoostStands(s),
           ~ In(m, s.active), ~ In(m, s.awaiters)
    PROVE  LET t == JoinParent(s, m, f, first)
           IN  /\ t \in Sema
               /\ t.limit = s.limit /\ t.child = s.child
               /\ Distinct(t.active) /\ Distinct(t.awaiters) /\ BoostStands(t)
               /\ \A x \in Machines \ {m} :
                     /\ In(x, t.active) <=> In(x, s.active)
                     /\ In(x, t.awaiters) <=> In(x, s.awaiters)
               /\ In(m, t.active) <=> ~ In(m, t.awaiters)
               /\ Len(s.active) <= s.limit => Len(t.active) <= t.limit
               /\ Full(s) => Full(t)
<1> DEFINE t == JoinParent(s, m, f, first)
<1>1. /\ s.active \in Queue /\ s.awaiters \in Queue /\ s.limit \in Nat
      /\ Distinct(s.active) /\ Distinct(s.awaiters)
  BY DEF Sema, QueuesDistinct
<1>2. Len(s.active) \in Nat
  BY <1>1 DEF Queue
<1>3. CASE CanPassThrough(s)
  <2> DEFINE q == Append(s.active, m)
  <2>1. t = [s EXCEPT !.active = q]
    BY <1>3 DEF JoinParent
  <2>2. /\ q \in Queue /\ Len(q) = Len(s.active) + 1 /\ Distinct(q)
        /\ \A x : In(x, q) <=> In(x, s.active) \/ x = m
    BY <1>1, AppendIn
  <2> HIDE DEF q, t
  <2>3. /\ t \in Sema /\ t.active = q /\ t.limit = s.limit /\ t.child = s.child
        /\ t.awaiters = s.awaiters /\ t.boostHead = s.boostHead
    BY <2>1, <2>2 DEF Sema
  <2>4. Len(t.active) <= t.limit
    BY <1>1, <1>2, <1>3, <2>2, <2>3 DEF CanPassThrough
  <2>5. Full(s) => Full(t)
    BY <1>1, <1>2, <1>3, <2>3 DEF Full, CanPassThrough
  <2> QED BY <1>1, <2>2, <2>3, <2>4, <2>5 DEF BoostStands, t
<1>4. CASE ~ CanPassThrough(s)
  <2>1. t = AddSlot(s, m, f, first)
    BY <1>4 DEF JoinParent
  <2>2. /\ t \in Sema
        /\ t.limit = s.limit /\ t.active = s.active /\ t.child = s.child
        /\ Distinct(t.awaiters) /\ BoostStands(t)
        /\ \A x : In(x, t.awaiters) <=> In(x, s.awaiters) \/ x = m
    BY <1>1, <2>1, AddSlotProperties
  <2> HIDE DEF t
  <2>3. Full(t)
    BY <1>1, <1>2, <1>4, <2>2 DEF Full, CanPassThrough
  <2> QED BY <1>1, <2>2, <2>3 DEF t
<1> QED
  BY <1>3, <1>4

(* A machine left the queues of the semaphore; nothing else happened yet.  *)
LeftParent(s, a, m) ==
    /\ a \in Sema
    /\ a.limit = s.limit /\ a.child = s.child
    /\ Distinct(a.active) /\ Distinct(a.awaiters) /\ BoostStands(a)
    /\ \A x \in Machines :
          /\ In(x, a.active) <=> In(x, s.active) /\ x # m
          /\ In(x, a.awaiters) <=> In(x, s.awaiters) /\ x # m

LEMMA LeaveActive ==
    ASSUME NEW s, NEW st, Booked(s, st), NEW m \in Machines, In(m, s.active)
    PROVE  LET a == [s EXCEPT !.active = Without(@, m)]
           IN  /\ LeftParent(s, a, m) /\ a.awaiters = s.awaiters
               /\ Len(a.active) = Len(s.active) - 1
<1> DEFINE q == Without(s.active, m)
           a == [s EXCEPT !.active = q]
<1>1. /\ s \in Sema /\ QueuesDistinct(s) /\ BoostStands(s)
      /\ \A x \in Machines : StandsOnce(s, st, x)
  BY DEF Booked, Placed
<1>2. /\ s.active \in Queue /\ Distinct(s.active) /\ Distinct(s.awaiters)
  BY <1>1 DEF Sema, QueuesDistinct
<1>3. /\ q \in Queue /\ Len(q) = Len(s.active) - 1 /\ Distinct(q)
      /\ \A x : In(x, q) <=> In(x, s.active) /\ x # m
  BY <1>2, WithoutProperties
<1> HIDE DEF q
<1>4. /\ a \in Sema /\ a.active = q /\ a.limit = s.limit /\ a.child = s.child
      /\ a.awaiters = s.awaiters /\ a.boostHead = s.boostHead
  BY <1>1, <1>3 DEF Sema
<1>5. ~ In(m, s.awaiters)
  BY <1>1 DEF StandsOnce
<1> HIDE DEF a
<1>6. LeftParent(s, a, m)
  BY <1>1, <1>2, <1>3, <1>4, <1>5 DEF LeftParent, BoostStands
<1> QED
  BY <1>3, <1>4, <1>6 DEF a, q

LEMMA LeaveAwaiters ==
    ASSUME NEW s, NEW st, Booked(s, st), NEW m \in Machines, In(m, s.awaiters)
    PROVE  LET a == RemoveAwaiter(s, m)
           IN  LeftParent(s, a, m) /\ a.active = s.active
<1> DEFINE a == RemoveAwaiter(s, m)
<1>1. /\ s \in Sema /\ QueuesDistinct(s) /\ BoostStands(s)
      /\ \A x \in Machines : StandsOnce(s, st, x)
  BY DEF Booked, Placed
<1>2. Distinct(s.active) /\ Distinct(s.awaiters)
  BY <1>1 DEF QueuesDistinct
<1>3. /\ a \in Sema
      /\ a.limit = s.limit /\ a.active = s.active /\ a.child = s.child
      /\ Distinct(a.awaiters) /\ BoostStands(a)
      /\ \A x : In(x, a.awaiters) <=> In(x, s.awaiters) /\ x # m
  BY <1>1, <1>2, RemoveAwaiterProperties
<1>4. ~ In(m, s.active)
  BY <1>1 DEF StandsOnce
<1> HIDE DEF a
<1> QED
  BY <1>2, <1>3, <1>4 DEF LeftParent, a

(* A holder in a queue of the semaphore is released: its child counts one  *)
(* less, before it hands its place on.                                     *)
LEMMA ReleasedFromParent ==
    ASSUME NEW s, NEW st, Booked(s, st), NEW m \in Machines,
           In(m, s.active) \/ In(m, s.awaiters),
           NEW a, LeftParent(s, a, m)
    PROVE  LET t == AfterRelease(a, st[m])
               u == [st EXCEPT ![m] = None]
           IN  /\ Booked(t, u)
               /\ t.limit = s.limit /\ t.active = a.active
               /\ NobodyIdle(s) => NobodyIdle(t)
               /\ ChildrenWithin(s) => ChildrenWithin(t)
<1> DEFINE u == [st EXCEPT ![m] = None]
           o == st[m]
           t == AfterRelease(a, o)
<1>1. /\ s \in Sema /\ st \in [Machines -> Owners] /\ QueuesDistinct(s)
      /\ \A x \in Machines : StandsOnce(s, st, x)
  BY DEF Booked, Placed
<1>2. /\ a \in Sema /\ a.limit = s.limit /\ a.child = s.child
      /\ Distinct(a.active) /\ Distinct(a.awaiters) /\ BoostStands(a)
      /\ \A x \in Machines :
            /\ In(x, a.active) <=> In(x, s.active) /\ x # m
            /\ In(x, a.awaiters) <=> In(x, s.awaiters) /\ x # m
  BY DEF LeftParent
<1>3. /\ u \in [Machines -> Owners] /\ u[m] = None
      /\ \A x \in Machines \ {m} : u[x] = st[x]
  BY <1>1 DEF Owners
<1>4. \A c \in Children : /\ s.child[c] \in ChildSema
                          /\ ~ In(m, s.child[c].parked) /\ ~ In(m, s.child[c].awaiters)
  BY <1>1 DEF StandsOnce, Sema
<1>5. \A c \in Children : /\ m \in AtParent(s, st, c) <=> o = c
                          /\ c # None
  BY OwnersAssumption DEF AtParent
<1> HIDE DEF u, o, t
<1>6. ASSUME NEW r \in Sema,
             r.active = a.active, r.awaiters = a.awaiters, r.boostHead = a.boostHead,
             \A c \in Children :
                /\ r.child[c].parked = s.child[c].parked
                /\ r.child[c].awaiters = s.child[c].awaiters
                /\ r.child[c].atParent = s.child[c].atParent - (IF o = c THEN 1 ELSE 0)
      PROVE  Booked(r, u)
  <2>1. QueuesDistinct(r) /\ BoostStands(r)
    BY <1>1, <1>2, <1>6 DEF QueuesDistinct, BoostStands
  <2>2. StandsOnce(r, u, m)
    BY <1>2, <1>3, <1>4, <1>6 DEF StandsOnce
  <2>3. \A x \in Machines \ {m} : SamePlace(s, r, x) /\ u[x] = st[x]
    BY <1>2, <1>3, <1>6 DEF SamePlace
  <2>4. ASSUME NEW c \in Children
        PROVE  r.child[c].atParent = s.child[c].atParent
                  - One(m, AtParent(s, st, c)) + One(m, AtParent(r, u, c))
    <3>1. One(m, AtParent(r, u, c)) = 0
      BY <1>3, <1>5 DEF AtParent, One
    <3>2. One(m, AtParent(s, st, c)) = IF o = c THEN 1 ELSE 0
      BY <1>5 DEF One
    <3>3. s.child[c].atParent \in Int
      BY <1>4 DEF ChildSema
    <3> QED BY <1>6, <3>1, <3>2, <3>3
  <2> QED BY <1>3, <2>1, <2>2, <2>3, <2>4, OneMoves
<1>7. CASE o \notin Children
  <2>1. t = a
    BY <1>7 DEF t, AfterRelease
  <2>2. \A c \in Children : s.child[c].atParent = s.child[c].atParent - (IF o = c THEN 1 ELSE 0)
    BY <1>4, <1>7 DEF ChildSema
  <2>3. Booked(t, u)
    BY <1>2, <1>6, <2>1, <2>2
  <2> QED BY <1>2, <2>1, <2>3 DEF NobodyIdle, ChildrenWithin, ChildUse, t, u, o
<1>8. CASE o \in Children
  <2> DEFINE k == s.child[o]
             e == Child(k, k.atParent - 1, k.parked, k.awaiters)
             r == SetChild(a, o, e)
  <2>1. t = ChildUpdateQueue([a EXCEPT !.child[o].atParent = a.child[o].atParent - 1], o)
    BY <1>8 DEF t, AfterRelease
  <2>2. k \in ChildSema /\ k.atParent - 1 \in Int /\ k.parked \in Queue /\ k.awaiters \in Queue
    BY <1>4, <1>8 DEF ChildSema
  <2>3. t = ChildUpdateQueue(r, o)
    <3> DEFINE n == a.child[o].atParent - 1
    <3>1. n \in Int /\ n = k.atParent - 1
      BY <1>2, <2>2
    <3>2. t = ChildUpdateQueue([a EXCEPT !.child[o].atParent = n], o)
      BY <2>1
    <3> HIDE DEF n
    <3>3. [a EXCEPT !.child[o].atParent = n]
            = SetChild(a, o, Child(a.child[o], n, a.child[o].parked, a.child[o].awaiters))
      BY <1>2, <1>8, <3>1, CountForm
    <3> QED BY <1>2, <3>1, <3>2, <3>3
  <2>4. e \in ChildSema
    BY <2>2 DEF Child, ChildSema
  <2>5. /\ e.parked = k.parked /\ e.awaiters = k.awaiters /\ e.limit = k.limit
        /\ e.atParent = k.atParent - 1
    BY DEF Child
  <2>6. /\ r \in Sema
        /\ r.limit = a.limit /\ r.active = a.active /\ r.awaiters = a.awaiters
        /\ r.boostHead = a.boostHead
        /\ r.child[o] = e
        /\ \A c \in Children \ {o} : r.child[c] = a.child[c]
    BY <1>2, <1>8, <2>4, SetChildProperties
  <2> HIDE DEF r, e
  <2>7. \A c \in Children :
           /\ r.child[c].parked = s.child[c].parked
           /\ r.child[c].awaiters = s.child[c].awaiters
           /\ r.child[c].atParent = s.child[c].atParent - (IF o = c THEN 1 ELSE 0)
           /\ r.child[c].limit = s.child[c].limit
    BY <1>2, <1>4, <2>5, <2>6 DEF ChildSema
  <2>8. Booked(r, u)
    BY <1>6, <2>6, <2>7
  <2>9. /\ Booked(t, u)
        /\ t.limit = r.limit /\ t.active = r.active
        /\ t.child[o].awaiters # <<>> => ChildUse(t, o) >= t.child[o].limit
        /\ ChildUse(r, o) <= r.child[o].limit => ChildUse(t, o) <= t.child[o].limit
        /\ \A c \in Children \ {o} : t.child[c] = r.child[c]
    BY <1>8, <2>3, <2>8, ChildUpdateQueueBooked
  <2>10. \A c \in Children \ {o} : ChildUse(t, c) = ChildUse(s, c) /\ t.child[c] = s.child[c]
    BY <1>2, <2>6, <2>9 DEF ChildUse
  <2>11. NobodyIdle(s) => NobodyIdle(t)
    BY <2>9, <2>10 DEF NobodyIdle
  <2>12. ChildUse(s, o) <= s.child[o].limit => ChildUse(r, o) <= r.child[o].limit
    <3>1. Len(k.parked) \in Nat /\ k.atParent \in Int /\ k.limit \in Nat
      BY <2>2 DEF ChildSema, Queue
    <3>2. ChildUse(r, o) = Len(k.parked) + (k.atParent - 1) /\ r.child[o].limit = k.limit
      BY <2>5, <2>6 DEF ChildUse
    <3>3. ChildUse(s, o) = Len(k.parked) + k.atParent
      BY DEF ChildUse
    <3> QED BY SMTT(30), <3>1, <3>2, <3>3
  <2>13. ChildrenWithin(s) => ChildrenWithin(t)
    BY <1>8, <2>9, <2>10, <2>12 DEF ChildrenWithin
  <2> QED BY <1>2, <2>6, <2>9, <2>11, <2>13 DEF t, u, o
<1> QED
  BY <1>7, <1>8

(* A machine without a holder stands nowhere. *)
LEMMA NoneStandsNowhere ==
    ASSUME NEW s, NEW st, Booked(s, st), NEW m \in Machines, st[m] = None
    PROVE  /\ ~ In(m, s.active) /\ ~ In(m, s.awaiters)
           /\ \A c \in Children :
                 /\ ~ In(m, s.child[c].parked) /\ ~ In(m, s.child[c].awaiters)
                 /\ m \notin AtParent(s, st, c)
<1>1. StandsOnce(s, st, m)
  BY DEF Booked, Placed
<1> QED
  BY <1>1, OwnersAssumption DEF StandsOnce, AtParent

(* CreateDependency of the semaphore itself. *)
LEMMA AcquireParentBooked ==
    ASSUME NEW s, NEW st, Booked(s, st), NEW m \in Machines, st[m] = None, NEW f
    PROVE  LET t == CreateDependency(s, m, f)
           IN  /\ Booked(t, [st EXCEPT ![m] = Direct])
               /\ t.limit = s.limit /\ t.child = s.child
               /\ Len(s.active) <= s.limit => Len(t.active) <= t.limit
               /\ Full(s) => Full(t)
<1> DEFINE t == CreateDependency(s, m, f)
           u == [st EXCEPT ![m] = Direct]
<1>1. /\ s \in Sema /\ st \in [Machines -> Owners] /\ QueuesDistinct(s) /\ BoostStands(s)
  BY DEF Booked, Placed
<1>2. /\ ~ In(m, s.active) /\ ~ In(m, s.awaiters)
      /\ \A c \in Children :
            /\ ~ In(m, s.child[c].parked) /\ ~ In(m, s.child[c].awaiters)
            /\ m \notin AtParent(s, st, c)
  BY NoneStandsNowhere
<1>3. t = JoinParent(s, m, f, FALSE)
  BY DEF CreateDependency, JoinParent
<1>4. /\ t \in Sema
      /\ t.limit = s.limit /\ t.child = s.child
      /\ Distinct(t.active) /\ Distinct(t.awaiters) /\ BoostStands(t)
      /\ \A x \in Machines \ {m} :
            /\ In(x, t.active) <=> In(x, s.active)
            /\ In(x, t.awaiters) <=> In(x, s.awaiters)
      /\ In(m, t.active) <=> ~ In(m, t.awaiters)
      /\ Len(s.active) <= s.limit => Len(t.active) <= t.limit
      /\ Full(s) => Full(t)
  <2> HIDE DEF t
  <2> QED BY <1>1, <1>2, <1>3, JoinParentProperties
<1>5. /\ u \in [Machines -> Owners] /\ u[m] = Direct /\ Direct # None
      /\ \A x \in Machines \ {m} : u[x] = st[x]
  BY <1>1 DEF Owners, Direct, None
<1> HIDE DEF t, u
<1>6. QueuesDistinct(t)
  BY <1>1, <1>4 DEF QueuesDistinct
<1>7. StandsOnce(t, u, m)
  BY <1>2, <1>4, <1>5 DEF StandsOnce
<1>8. \A x \in Machines \ {m} : SamePlace(s, t, x) /\ u[x] = st[x]
  BY <1>4, <1>5 DEF SamePlace
<1>9. ASSUME NEW c \in Children
      PROVE  t.child[c].atParent = s.child[c].atParent
                - One(m, AtParent(s, st, c)) + One(m, AtParent(t, u, c))
  <2>1. m \notin AtParent(t, u, c)
    BY <1>5, OwnersAssumption DEF AtParent
  <2>2. One(m, AtParent(s, st, c)) = 0 /\ One(m, AtParent(t, u, c)) = 0
    BY <1>2, <2>1 DEF One
  <2>3. s.child[c].atParent \in Int
    BY <1>1 DEF Sema, ChildSema
  <2> QED BY <1>4, <2>2, <2>3
<1>10. Booked(t, u)
  BY <1>4, <1>5, <1>6, <1>7, <1>8, <1>9, OneMoves
<1> QED
  BY <1>4, <1>10 DEF t, u

(* The states of a child as the operations change it. *)
LEMMA ChildType ==
    ASSUME NEW k \in ChildSema, NEW n \in Int, NEW p \in Queue, NEW w \in Queue
    PROVE  LET e == Child(k, n, p, w)
           IN  /\ e \in ChildSema
               /\ e.limit = k.limit /\ e.atParent = n /\ e.parked = p /\ e.awaiters = w
BY DEF Child, ChildSema

(* The use of a child as its count and its parked machines change. *)
LEMMA UseOf ==
    ASSUME NEW s \in Sema, NEW c \in Children
    PROVE  /\ ChildUse(s, c) = Len(s.child[c].parked) + s.child[c].atParent
           /\ ChildUse(s, c) \in Int
           /\ Len(s.child[c].parked) \in Nat /\ s.child[c].atParent \in Int
           /\ s.child[c].limit \in Nat
<1>1. s.child[c] \in ChildSema
  BY DEF Sema
<1>2. s.child[c].parked \in Queue /\ s.child[c].atParent \in Int /\ s.child[c].limit \in Nat
  BY <1>1 DEF ChildSema
<1>3. Len(s.child[c].parked) \in Nat
  BY <1>2 DEF Queue
<1> QED
  BY <1>2, <1>3 DEF ChildUse

(* A child with room lets a machine through to the semaphore. *)
LEMMA AcquireChildBooked ==
    ASSUME NEW s, NEW st, Booked(s, st), NEW m \in Machines, st[m] = None, NEW f,
           NEW c \in Children, ChildCanPassThrough(s, c)
    PROVE  LET t == [CreateDependency(s, m, f) EXCEPT !.child[c].atParent = @ + 1]
           IN  /\ Booked(t, [st EXCEPT ![m] = c])
               /\ t.limit = s.limit
               /\ Len(s.active) <= s.limit => Len(t.active) <= t.limit
               /\ Full(s) => Full(t)
               /\ NobodyIdle(s) => NobodyIdle(t)
               /\ ChildrenWithin(s) => ChildrenWithin(t)
<1> DEFINE a == CreateDependency(s, m, f)
           n == a.child[c].atParent + 1
           k == a.child[c]
           e == Child(k, n, k.parked, k.awaiters)
           t == [a EXCEPT !.child[c].atParent = n]
           u == [st EXCEPT ![m] = c]
<1>1. /\ s \in Sema /\ st \in [Machines -> Owners] /\ QueuesDistinct(s) /\ BoostStands(s)
  BY DEF Booked, Placed
<1>2. /\ ~ In(m, s.active) /\ ~ In(m, s.awaiters)
      /\ \A o \in Children :
            /\ ~ In(m, s.child[o].parked) /\ ~ In(m, s.child[o].awaiters)
            /\ m \notin AtParent(s, st, o)
  BY NoneStandsNowhere
<1>3. a = JoinParent(s, m, f, FALSE)
  BY DEF CreateDependency, JoinParent
<1>4. /\ a \in Sema
      /\ a.limit = s.limit /\ a.child = s.child
      /\ Distinct(a.active) /\ Distinct(a.awaiters) /\ BoostStands(a)
      /\ \A x \in Machines \ {m} :
            /\ In(x, a.active) <=> In(x, s.active)
            /\ In(x, a.awaiters) <=> In(x, s.awaiters)
      /\ In(m, a.active) <=> ~ In(m, a.awaiters)
      /\ Len(s.active) <= s.limit => Len(a.active) <= a.limit
      /\ Full(s) => Full(a)
  <2> HIDE DEF a
  <2> QED BY <1>1, <1>2, <1>3, JoinParentProperties
<1>5. /\ u \in [Machines -> Owners] /\ u[m] = c /\ c # None
      /\ \A x \in Machines \ {m} : u[x] = st[x]
  BY <1>1, OwnersAssumption DEF Owners
<1> HIDE DEF a, u
<1>6. k \in ChildSema /\ n \in Int /\ k.parked \in Queue /\ k.awaiters \in Queue
  BY <1>4 DEF Sema, ChildSema
<1>7. /\ e \in ChildSema
      /\ e.limit = k.limit /\ e.atParent = n /\ e.parked = k.parked /\ e.awaiters = k.awaiters
  <2> HIDE DEF k, n
  <2> QED BY <1>6, ChildType
<1>8. t = SetChild(a, c, e)
  <2> HIDE DEF n
  <2> QED BY <1>4, <1>6, CountForm
<1>9. /\ t \in Sema
      /\ t.limit = a.limit /\ t.active = a.active /\ t.awaiters = a.awaiters
      /\ t.boostHead = a.boostHead
      /\ t.child[c] = e
      /\ \A o \in Children \ {c} : t.child[o] = s.child[o]
  <2> HIDE DEF e, t
  <2> QED BY <1>4, <1>7, <1>8, SetChildProperties
<1> HIDE DEF e, t
<1>10. \A o \in Children :
          /\ t.child[o].parked = s.child[o].parked
          /\ t.child[o].awaiters = s.child[o].awaiters
          /\ t.child[o].limit = s.child[o].limit
          /\ t.child[o].atParent = s.child[o].atParent + (IF o = c THEN 1 ELSE 0)
  <2>1. \A o \in Children : s.child[o].atParent \in Int
    BY <1>1 DEF Sema, ChildSema
  <2> QED BY <1>4, <1>7, <1>9, <2>1
<1>11. QueuesDistinct(t) /\ BoostStands(t)
  BY <1>1, <1>4, <1>9, <1>10 DEF QueuesDistinct, BoostStands
<1>12. StandsOnce(t, u, m)
  BY <1>2, <1>4, <1>5, <1>9, <1>10 DEF StandsOnce
<1>13. \A x \in Machines \ {m} : SamePlace(s, t, x) /\ u[x] = st[x]
  BY <1>4, <1>5, <1>9, <1>10 DEF SamePlace
<1>14. ASSUME NEW o \in Children
       PROVE  t.child[o].atParent = s.child[o].atParent
                 - One(m, AtParent(s, st, o)) + One(m, AtParent(t, u, o))
  <2>1. m \in AtParent(t, u, o) <=> o = c
    BY <1>4, <1>5, <1>9 DEF AtParent
  <2>2. One(m, AtParent(s, st, o)) = 0 /\ One(m, AtParent(t, u, o)) = IF o = c THEN 1 ELSE 0
    BY <1>2, <2>1 DEF One
  <2>3. s.child[o].atParent \in Int
    BY <1>1 DEF Sema, ChildSema
  <2> QED BY <1>10, <2>2, <2>3
<1>15. Booked(t, u)
  BY <1>5, <1>9, <1>11, <1>12, <1>13, <1>14, OneMoves
<1>16. ASSUME NEW o \in Children
       PROVE  /\ ChildUse(t, o) = ChildUse(s, o) + (IF o = c THEN 1 ELSE 0)
              /\ ChildUse(s, o) \in Int /\ s.child[o].limit \in Nat
  <2>1. /\ ChildUse(s, o) = Len(s.child[o].parked) + s.child[o].atParent
        /\ ChildUse(s, o) \in Int /\ s.child[o].limit \in Nat
        /\ Len(s.child[o].parked) \in Nat /\ s.child[o].atParent \in Int
    BY <1>1, UseOf
  <2>2. ChildUse(t, o) = Len(s.child[o].parked)
                            + (s.child[o].atParent + (IF o = c THEN 1 ELSE 0))
    BY <1>10 DEF ChildUse
  <2> DEFINE d == IF o = c THEN 1 ELSE 0
  <2>3. d \in Int
    OBVIOUS
  <2>4. ChildUse(t, o) = Len(s.child[o].parked) + (s.child[o].atParent + d)
    BY <2>2
  <2> HIDE DEF d
  <2>5. ChildUse(t, o) = ChildUse(s, o) + d
    BY <2>1, <2>3, <2>4
  <2> QED BY <2>1, <2>5 DEF d
<1>17. NobodyIdle(s) => NobodyIdle(t)
  BY <1>10, <1>16 DEF NobodyIdle
<1>18. ChildrenWithin(s) => ChildrenWithin(t)
  BY <1>10, <1>16 DEF ChildrenWithin, ChildCanPassThrough
<1>19. Full(s) => Full(t)
  BY <1>4, <1>9 DEF Full
<1> QED
  BY <1>4, <1>9, <1>15, <1>17, <1>18, <1>19 DEF t, u, a

(* A child without room keeps a machine in its own queue. *)
LEMMA WaitAtChildBooked ==
    ASSUME NEW s, NEW st, Booked(s, st), NEW m \in Machines, st[m] = None,
           NEW c \in Children, ~ ChildCanPassThrough(s, c)
    PROVE  LET t == [s EXCEPT !.child[c].awaiters = Append(@, m)]
           IN  /\ Booked(t, [st EXCEPT ![m] = c])
               /\ t.limit = s.limit /\ t.active = s.active /\ t.awaiters = s.awaiters
               /\ NobodyIdle(s) => NobodyIdle(t)
               /\ ChildrenWithin(s) => ChildrenWithin(t)
<1> DEFINE k == s.child[c]
           w == Append(s.child[c].awaiters, m)
           e == Child(k, k.atParent, k.parked, w)
           t == [s EXCEPT !.child[c].awaiters = w]
           u == [st EXCEPT ![m] = c]
<1>1. /\ s \in Sema /\ st \in [Machines -> Owners] /\ QueuesDistinct(s) /\ BoostStands(s)
  BY DEF Booked, Placed
<1>2. /\ ~ In(m, s.active) /\ ~ In(m, s.awaiters)
      /\ \A o \in Children :
            /\ ~ In(m, s.child[o].parked) /\ ~ In(m, s.child[o].awaiters)
            /\ m \notin AtParent(s, st, o)
  BY NoneStandsNowhere
<1>3. /\ u \in [Machines -> Owners] /\ u[m] = c /\ c # None
      /\ \A x \in Machines \ {m} : u[x] = st[x]
  BY <1>1, OwnersAssumption DEF Owners
<1>4. k \in ChildSema /\ k.atParent \in Int /\ k.parked \in Queue /\ k.awaiters \in Queue
  BY <1>1 DEF Sema, ChildSema
<1>5. /\ w \in Queue /\ Distinct(w)
      /\ \A x : In(x, w) <=> In(x, s.child[c].awaiters) \/ x = m
  BY <1>1, <1>2, <1>4, AppendIn DEF QueuesDistinct
<1> HIDE DEF w, u
<1>6. /\ e \in ChildSema
      /\ e.limit = k.limit /\ e.atParent = k.atParent /\ e.parked = k.parked /\ e.awaiters = w
  <2> HIDE DEF k
  <2> QED BY <1>4, <1>5 DEF Child, ChildSema
<1>7. t = SetChild(s, c, e)
  BY <1>1, <1>5, AwaitersForm
<1>8. /\ t \in Sema
      /\ t.limit = s.limit /\ t.active = s.active /\ t.awaiters = s.awaiters
      /\ t.boostHead = s.boostHead
      /\ t.child[c] = e
      /\ \A o \in Children \ {c} : t.child[o] = s.child[o]
  <2> HIDE DEF e, t
  <2> QED BY <1>1, <1>6, <1>7, SetChildProperties
<1> HIDE DEF e, t
<1>9. \A o \in Children :
         /\ t.child[o].parked = s.child[o].parked
         /\ t.child[o].awaiters = IF o = c THEN w ELSE s.child[o].awaiters
         /\ t.child[o].limit = s.child[o].limit
         /\ t.child[o].atParent = s.child[o].atParent
  BY <1>6, <1>8
<1>10. QueuesDistinct(t) /\ BoostStands(t)
  BY <1>1, <1>5, <1>8, <1>9 DEF QueuesDistinct, BoostStands
<1>11. StandsOnce(t, u, m)
  BY <1>2, <1>3, <1>5, <1>8, <1>9 DEF StandsOnce
<1>12. \A x \in Machines \ {m} : SamePlace(s, t, x) /\ u[x] = st[x]
  BY <1>3, <1>5, <1>8, <1>9 DEF SamePlace
<1>13. ASSUME NEW o \in Children
       PROVE  t.child[o].atParent = s.child[o].atParent
                 - One(m, AtParent(s, st, o)) + One(m, AtParent(t, u, o))
  <2>1. m \notin AtParent(t, u, o)
    BY <1>2, <1>8 DEF AtParent
  <2>2. One(m, AtParent(s, st, o)) = 0 /\ One(m, AtParent(t, u, o)) = 0
    BY <1>2, <2>1 DEF One
  <2>3. s.child[o].atParent \in Int
    BY <1>1 DEF Sema, ChildSema
  <2> QED BY <1>9, <2>2, <2>3
<1>14. Booked(t, u)
  BY <1>3, <1>8, <1>10, <1>11, <1>12, <1>13, OneMoves
<1>15. \A o \in Children :
          /\ ChildUse(t, o) = ChildUse(s, o)
          /\ ChildUse(s, o) \in Int /\ s.child[o].limit \in Nat
  BY <1>1, <1>8, <1>9, UseOf
<1>16. NobodyIdle(s) => NobodyIdle(t)
  BY <1>9, <1>15 DEF NobodyIdle, ChildCanPassThrough
<1>17. ChildrenWithin(s) => ChildrenWithin(t)
  BY <1>9, <1>15 DEF ChildrenWithin
<1> QED
  BY <1>8, <1>14, <1>16, <1>17 DEF t, u, w

(* tryPartialRelease: a holder leaves the semaphore and is parked in its   *)
(* child, which counts it as before.                                       *)
Park(a, c, m) == [a EXCEPT !.child[c].atParent = @ - 1,
                           !.child[c].parked = Append(@, m)]

LEMMA ParkBooked ==
    ASSUME NEW s, NEW st, Booked(s, st), NEW m \in Machines,
           NEW c \in Children, m \in AtParent(s, st, c),
           NEW a, LeftParent(s, a, m)
    PROVE  LET t == Park(a, c, m)
           IN  /\ Booked(t, st)
               /\ t.limit = s.limit /\ t.active = a.active /\ t.awaiters = a.awaiters
               /\ NobodyIdle(s) => NobodyIdle(t)
               /\ ChildrenWithin(s) => ChildrenWithin(t)
<1> DEFINE k == a.child[c]
           n == a.child[c].atParent - 1
           p == Append(a.child[c].parked, m)
           e == Child(k, n, p, k.awaiters)
           t == Park(a, c, m)
<1>1. /\ s \in Sema /\ st \in [Machines -> Owners] /\ QueuesDistinct(s)
      /\ \A x \in Machines : StandsOnce(s, st, x)
  BY DEF Booked, Placed
<1>2. /\ a \in Sema /\ a.limit = s.limit /\ a.child = s.child
      /\ Distinct(a.active) /\ Distinct(a.awaiters) /\ BoostStands(a)
      /\ \A x \in Machines :
            /\ In(x, a.active) <=> In(x, s.active) /\ x # m
            /\ In(x, a.awaiters) <=> In(x, s.awaiters) /\ x # m
  BY DEF LeftParent
<1>3. \A o \in Children : /\ s.child[o] \in ChildSema
                          /\ ~ In(m, s.child[o].parked) /\ ~ In(m, s.child[o].awaiters)
  BY <1>1 DEF StandsOnce, Sema, AtParent
<1>4. k \in ChildSema /\ n \in Int /\ k.parked \in Queue /\ k.awaiters \in Queue
  BY <1>2 DEF Sema, ChildSema
<1>5. /\ p \in Queue /\ Distinct(p) /\ Len(p) = Len(s.child[c].parked) + 1
      /\ \A x : In(x, p) <=> In(x, s.child[c].parked) \/ x = m
  BY <1>1, <1>2, <1>3, <1>4, AppendIn DEF QueuesDistinct
<1>6. /\ e \in ChildSema
      /\ e.limit = k.limit /\ e.atParent = n /\ e.parked = p /\ e.awaiters = k.awaiters
  <2> HIDE DEF k, n, p
  <2> QED BY <1>4, <1>5 DEF Child, ChildSema
<1>7. t = SetChild(a, c, e)
  <2>0. t = [a EXCEPT !.child[c].atParent = n, !.child[c].parked = p]
    BY DEF Park
  <2>1. n \in Int /\ p \in Queue /\ a \in Sema
    BY <1>2, <1>4, <1>5
  <2> HIDE DEF n, p, t
  <2> QED BY <2>0, <2>1, CountParkedForm
<1>8. /\ t \in Sema
      /\ t.limit = a.limit /\ t.active = a.active /\ t.awaiters = a.awaiters
      /\ t.boostHead = a.boostHead
      /\ t.child[c] = e
      /\ \A o \in Children \ {c} : t.child[o] = s.child[o]
  <2> HIDE DEF e, t
  <2> QED BY <1>2, <1>6, <1>7, SetChildProperties
<1> HIDE DEF e, t, p
<1>9. \A o \in Children :
         /\ t.child[o].parked = IF o = c THEN p ELSE s.child[o].parked
         /\ t.child[o].awaiters = s.child[o].awaiters
         /\ t.child[o].limit = s.child[o].limit
         /\ t.child[o].atParent = s.child[o].atParent - (IF o = c THEN 1 ELSE 0)
  <2>1. \A o \in Children : s.child[o].atParent \in Int
    BY <1>3 DEF ChildSema
  <2> QED BY <1>2, <1>6, <1>8, <2>1
<1>10. QueuesDistinct(t) /\ BoostStands(t)
  BY <1>1, <1>2, <1>5, <1>8, <1>9 DEF QueuesDistinct, BoostStands
<1>11. StandsOnce(t, st, m)
  <2>1. st[m] = c
    BY DEF AtParent
  <2> QED BY <1>2, <1>3, <1>5, <1>8, <1>9, <2>1 DEF StandsOnce
<1>12. \A x \in Machines \ {m} : SamePlace(s, t, x) /\ st[x] = st[x]
  BY <1>2, <1>5, <1>8, <1>9 DEF SamePlace
<1>13. ASSUME NEW o \in Children
       PROVE  t.child[o].atParent = s.child[o].atParent
                 - One(m, AtParent(s, st, o)) + One(m, AtParent(t, st, o))
  <2>1. m \notin AtParent(t, st, o) /\ (m \in AtParent(s, st, o) <=> o = c)
    BY <1>2, <1>8 DEF AtParent
  <2>2. One(m, AtParent(t, st, o)) = 0 /\ One(m, AtParent(s, st, o)) = IF o = c THEN 1 ELSE 0
    BY <2>1 DEF One
  <2>3. s.child[o].atParent \in Int
    BY <1>3 DEF ChildSema
  <2> QED BY <1>9, <2>2, <2>3
<1>14. Booked(t, st)
  BY <1>1, <1>8, <1>10, <1>11, <1>12, <1>13, OneMoves
<1>15. ASSUME NEW o \in Children PROVE ChildUse(t, o) = ChildUse(s, o)
  <2>1. CASE o # c
    BY <1>8, <2>1 DEF ChildUse
  <2>2. CASE o = c
    <3>1. /\ ChildUse(s, c) = Len(s.child[c].parked) + s.child[c].atParent
          /\ Len(s.child[c].parked) \in Nat /\ s.child[c].atParent \in Int
      BY <1>1, UseOf
    <3>2. ChildUse(t, c) = Len(p) + (s.child[c].atParent - 1)
      BY <1>2, <1>6, <1>8 DEF ChildUse
    <3>3. ChildUse(t, c) = ChildUse(s, c)
      BY <1>5, <3>1, <3>2
    <3> QED BY <2>2, <3>3
  <2> QED BY <2>1, <2>2
<1>16. NobodyIdle(s) => NobodyIdle(t)
  BY <1>9, <1>15 DEF NobodyIdle
<1>17. ChildrenWithin(s) => ChildrenWithin(t)
  BY <1>9, <1>15 DEF ChildrenWithin
<1> QED
  BY <1>2, <1>8, <1>14, <1>16, <1>17 DEF t, p

(* tryPartialAcquire: a parked machine stands at the semaphore again.      *)
LEMMA UnparkBooked ==
    ASSUME NEW s, NEW st, Booked(s, st), NEW m \in Machines,
           NEW c \in Children, In(m, s.child[c].parked), NEW f, NEW first
    PROVE  LET a == [s EXCEPT !.child[c].parked = Without(@, m),
                              !.child[c].atParent = @ + 1]
               t == JoinParent(a, m, f, first)
           IN  /\ a.limit = s.limit /\ a.active = s.active
               /\ Booked(t, st)
               /\ t.limit = s.limit
               /\ Len(s.active) <= s.limit => Len(t.active) <= t.limit
               /\ Full(s) => Full(t)
               /\ NobodyIdle(s) => NobodyIdle(t)
               /\ ChildrenWithin(s) => ChildrenWithin(t)
<1> DEFINE k == s.child[c]
           n == s.child[c].atParent + 1
           p == Without(s.child[c].parked, m)
           e == Child(k, n, p, k.awaiters)
           a == [s EXCEPT !.child[c].parked = p, !.child[c].atParent = n]
           t == JoinParent(a, m, f, first)
<1>1. /\ s \in Sema /\ st \in [Machines -> Owners] /\ QueuesDistinct(s) /\ BoostStands(s)
      /\ StandsOnce(s, st, m)
  BY DEF Booked, Placed
<1>2. /\ st[m] = c /\ c # None /\ ~ In(m, s.active) /\ ~ In(m, s.awaiters)
      /\ ~ In(m, s.child[c].awaiters)
      /\ \A o \in Children \ {c} : ~ In(m, s.child[o].parked) /\ ~ In(m, s.child[o].awaiters)
  BY <1>1, OwnersAssumption DEF StandsOnce
<1>3. \A o \in Children : s.child[o] \in ChildSema
  BY <1>1 DEF Sema
<1>4. k \in ChildSema /\ n \in Int /\ k.parked \in Queue /\ k.awaiters \in Queue
  BY <1>3 DEF ChildSema
<1>5. /\ p \in Queue /\ Distinct(p) /\ Len(p) = Len(s.child[c].parked) - 1
      /\ \A x : In(x, p) <=> In(x, s.child[c].parked) /\ x # m
  BY <1>1, <1>4, WithoutProperties DEF QueuesDistinct
<1>6. /\ e \in ChildSema
      /\ e.limit = k.limit /\ e.atParent = n /\ e.parked = p /\ e.awaiters = k.awaiters
  <2> HIDE DEF k, n, p
  <2> QED BY <1>4, <1>5 DEF Child, ChildSema
<1>7. a = SetChild(s, c, e)
  <2> HIDE DEF n, p
  <2> QED BY <1>1, <1>4, <1>5, ParkedCountForm
<1>8. /\ a \in Sema
      /\ a.limit = s.limit /\ a.active = s.active /\ a.awaiters = s.awaiters
      /\ a.boostHead = s.boostHead
      /\ a.child[c] = e
      /\ \A o \in Children \ {c} : a.child[o] = s.child[o]
  <2> HIDE DEF e, a
  <2> QED BY <1>1, <1>6, <1>7, SetChildProperties
<1> HIDE DEF e, a, p
<1>9. QueuesDistinct(a) /\ BoostStands(a) /\ (Full(s) => Full(a))
  BY <1>1, <1>5, <1>6, <1>8 DEF QueuesDistinct, BoostStands, Full
<1>10. /\ t \in Sema
       /\ t.limit = a.limit /\ t.child = a.child
       /\ Distinct(t.active) /\ Distinct(t.awaiters) /\ BoostStands(t)
       /\ \A x \in Machines \ {m} :
             /\ In(x, t.active) <=> In(x, a.active)
             /\ In(x, t.awaiters) <=> In(x, a.awaiters)
       /\ In(m, t.active) <=> ~ In(m, t.awaiters)
       /\ Len(a.active) <= a.limit => Len(t.active) <= t.limit
       /\ Full(a) => Full(t)
  BY <1>2, <1>8, <1>9, JoinParentProperties
<1> HIDE DEF t
<1>11. \A o \in Children :
          /\ t.child[o].parked = IF o = c THEN p ELSE s.child[o].parked
          /\ t.child[o].awaiters = s.child[o].awaiters
          /\ t.child[o].limit = s.child[o].limit
          /\ t.child[o].atParent = s.child[o].atParent + (IF o = c THEN 1 ELSE 0)
  <2>1. \A o \in Children : s.child[o].atParent \in Int
    BY <1>3 DEF ChildSema
  <2> QED BY <1>6, <1>8, <1>10, <2>1
<1>12. QueuesDistinct(t)
  BY <1>1, <1>5, <1>10, <1>11 DEF QueuesDistinct
<1>13. StandsOnce(t, st, m)
  BY <1>2, <1>5, <1>10, <1>11 DEF StandsOnce
<1>14. \A x \in Machines \ {m} : SamePlace(s, t, x) /\ st[x] = st[x]
  BY <1>5, <1>8, <1>10, <1>11 DEF SamePlace
<1>15. ASSUME NEW o \in Children
       PROVE  t.child[o].atParent = s.child[o].atParent
                 - One(m, AtParent(s, st, o)) + One(m, AtParent(t, st, o))
  <2>1. m \notin AtParent(s, st, o) /\ (m \in AtParent(t, st, o) <=> o = c)
    BY <1>2, <1>10 DEF AtParent
  <2>2. One(m, AtParent(s, st, o)) = 0 /\ One(m, AtParent(t, st, o)) = IF o = c THEN 1 ELSE 0
    BY <2>1 DEF One
  <2>3. s.child[o].atParent \in Int
    BY <1>3 DEF ChildSema
  <2> QED BY <1>11, <2>2, <2>3
<1>16. Booked(t, st)
  BY <1>1, <1>10, <1>12, <1>13, <1>14, <1>15, OneMoves
<1>17. ASSUME NEW o \in Children PROVE ChildUse(t, o) = ChildUse(s, o)
  <2>1. CASE o # c
    BY <1>8, <1>10, <2>1 DEF ChildUse
  <2>2. CASE o = c
    <3>1. /\ ChildUse(s, c) = Len(s.child[c].parked) + s.child[c].atParent
          /\ Len(s.child[c].parked) \in Nat /\ s.child[c].atParent \in Int
      BY <1>1, UseOf
    <3>2. ChildUse(t, c) = Len(p) + (s.child[c].atParent + 1)
      BY <1>6, <1>8, <1>10 DEF ChildUse
    <3> QED BY SMTT(30), <1>5, <2>2, <3>1, <3>2
  <2> QED BY <2>1, <2>2
<1>18. NobodyIdle(s) => NobodyIdle(t)
  BY <1>11, <1>17 DEF NobodyIdle
<1>19. ChildrenWithin(s) => ChildrenWithin(t)
  BY <1>11, <1>17 DEF ChildrenWithin
<1> QED
  BY <1>8, <1>9, <1>10, <1>16, <1>18, <1>19 DEF t, a, p

(* A holder that stands in a queue of a child is released: the count of    *)
(* the child stays.                                                        *)
LEMMA LeaveChildBooked ==
    ASSUME NEW s, NEW st, Booked(s, st), NEW m \in Machines, NEW c \in Children,
           In(m, s.child[c].parked) \/ In(m, s.child[c].awaiters),
           NEW p \in Queue, NEW w \in Queue, Distinct(p), Distinct(w),
           \A x : In(x, p) <=> In(x, s.child[c].parked) /\ x # m,
           \A x : In(x, w) <=> In(x, s.child[c].awaiters) /\ x # m
    PROVE  LET t == SetChild(s, c, Child(s.child[c], s.child[c].atParent, p, w))
           IN  /\ Booked(t, [st EXCEPT ![m] = None])
               /\ t.limit = s.limit /\ t.active = s.active /\ t.awaiters = s.awaiters
               /\ t.child[c].limit = s.child[c].limit
               /\ t.child[c].atParent = s.child[c].atParent
               /\ t.child[c].parked = p /\ t.child[c].awaiters = w
               /\ \A o \in Children \ {c} : t.child[o] = s.child[o]
<1> DEFINE k == s.child[c]
           e == Child(k, k.atParent, p, w)
           t == SetChild(s, c, e)
           u == [st EXCEPT ![m] = None]
<1>1. /\ s \in Sema /\ st \in [Machines -> Owners] /\ QueuesDistinct(s) /\ BoostStands(s)
      /\ StandsOnce(s, st, m)
  BY DEF Booked, Placed
<1>2. /\ ~ In(m, s.active) /\ ~ In(m, s.awaiters)
      /\ \A o \in Children \ {c} : ~ In(m, s.child[o].parked) /\ ~ In(m, s.child[o].awaiters)
  BY <1>1 DEF StandsOnce
<1>3. k \in ChildSema
  BY <1>1 DEF Sema
<1>4. /\ e \in ChildSema
      /\ e.limit = k.limit /\ e.atParent = k.atParent /\ e.parked = p /\ e.awaiters = w
  <2> HIDE DEF k
  <2> QED BY <1>3 DEF Child, ChildSema
<1> HIDE DEF e
<1>5. /\ t \in Sema
      /\ t.limit = s.limit /\ t.active = s.active /\ t.awaiters = s.awaiters
      /\ t.boostHead = s.boostHead
      /\ t.child[c] = e
      /\ \A o \in Children \ {c} : t.child[o] = s.child[o]
  BY <1>1, <1>4, SetChildProperties
<1>6. /\ u \in [Machines -> Owners] /\ u[m] = None
      /\ \A x \in Machines \ {m} : u[x] = st[x]
  BY <1>1 DEF Owners
<1> HIDE DEF t, u
<1>7. QueuesDistinct(t) /\ BoostStands(t)
  BY <1>1, <1>4, <1>5 DEF QueuesDistinct, BoostStands
<1>8. StandsOnce(t, u, m)
  BY <1>2, <1>4, <1>5, <1>6 DEF StandsOnce
<1>9. \A x \in Machines \ {m} : SamePlace(s, t, x) /\ u[x] = st[x]
  BY <1>4, <1>5, <1>6 DEF SamePlace
<1>10. ASSUME NEW o \in Children
       PROVE  t.child[o].atParent = s.child[o].atParent
                 - One(m, AtParent(s, st, o)) + One(m, AtParent(t, u, o))
  <2>1. m \notin AtParent(s, st, o) /\ m \notin AtParent(t, u, o)
    BY <1>2, <1>5 DEF AtParent
  <2>2. One(m, AtParent(s, st, o)) = 0 /\ One(m, AtParent(t, u, o)) = 0
    BY <2>1 DEF One
  <2>3. s.child[o].atParent \in Int
    BY <1>1 DEF Sema, ChildSema
  <2>4. t.child[o].atParent = s.child[o].atParent
    BY <1>4, <1>5
  <2> QED BY <2>2, <2>3, <2>4
<1>11. Booked(t, u)
  BY <1>5, <1>6, <1>7, <1>8, <1>9, <1>10, OneMoves
<1> QED
  BY <1>4, <1>5, <1>11 DEF t, u, e

(* SafeRelease of a parked holder. *)
LEMMA ReleaseParkedBooked ==
    ASSUME NEW s, NEW st, Booked(s, st), NEW m \in Machines, NEW c \in Children,
           In(m, s.child[c].parked)
    PROVE  LET t == ChildUpdateQueue([s EXCEPT !.child[c].parked = Without(@, m)], c)
           IN  /\ Booked(t, [st EXCEPT ![m] = None])
               /\ t.limit = s.limit /\ t.active = s.active
               /\ NobodyIdle(s) => NobodyIdle(t)
               /\ ChildrenWithin(s) => ChildrenWithin(t)
<1> DEFINE p == Without(s.child[c].parked, m)
           r == [s EXCEPT !.child[c].parked = p]
           t == ChildUpdateQueue(r, c)
           u == [st EXCEPT ![m] = None]
           w == s.child[c].awaiters
<1>1. s \in Sema /\ QueuesDistinct(s) /\ StandsOnce(s, st, m)
  BY DEF Booked, Placed
<1>2. s.child[c] \in ChildSema /\ s.child[c].parked \in Queue /\ w \in Queue
  BY <1>1 DEF Sema, ChildSema
<1>3. /\ p \in Queue /\ Len(p) = Len(s.child[c].parked) - 1 /\ Distinct(p)
      /\ \A x : In(x, p) <=> In(x, s.child[c].parked) /\ x # m
  BY <1>1, <1>2, WithoutProperties DEF QueuesDistinct
<1>4. Distinct(w) /\ \A x : In(x, w) <=> In(x, s.child[c].awaiters) /\ x # m
  BY <1>1 DEF QueuesDistinct, StandsOnce
<1>5. r = SetChild(s, c, Child(s.child[c], s.child[c].atParent, p, w))
  <2> HIDE DEF p
  <2> QED BY <1>1, <1>3, ParkedForm
<1> HIDE DEF p, r
<1>6. /\ Booked(r, u)
      /\ r.limit = s.limit /\ r.active = s.active /\ r.awaiters = s.awaiters
      /\ r.child[c].limit = s.child[c].limit
      /\ r.child[c].atParent = s.child[c].atParent
      /\ r.child[c].parked = p
      /\ \A o \in Children \ {c} : r.child[o] = s.child[o]
  <2> DEFINE k == s.child[c]
             e == Child(k, k.atParent, p, w)
  <2>1. Booked(SetChild(s, c, e), u)
    BY ZenonT(40), <1>2, <1>3, <1>4, LeaveChildBooked
  <2> HIDE DEF w, u
  <2>2. /\ e \in ChildSema /\ e.limit = k.limit /\ e.atParent = k.atParent
        /\ e.parked = p
    <3>1. k \in ChildSema
      BY <1>2
    <3> HIDE DEF k
    <3> QED BY <1>2, <1>3, <3>1 DEF Child, ChildSema
  <2>3. r = SetChild(s, c, e)
    BY <1>5
  <2> HIDE DEF e
  <2> QED BY <1>1, <2>1, <2>2, <2>3, SetChildProperties
<1>7. /\ Booked(t, u)
      /\ t.limit = r.limit /\ t.active = r.active
      /\ t.child[c].awaiters # <<>> => ChildUse(t, c) >= t.child[c].limit
      /\ ChildUse(r, c) <= r.child[c].limit => ChildUse(t, c) <= t.child[c].limit
      /\ \A o \in Children \ {c} : t.child[o] = r.child[o]
  <2> HIDE DEF u
  <2> QED BY <1>6, ChildUpdateQueueBooked
<1>8. ChildUse(s, c) <= s.child[c].limit => ChildUse(r, c) <= r.child[c].limit
  <2>1. /\ ChildUse(s, c) = Len(s.child[c].parked) + s.child[c].atParent
        /\ Len(s.child[c].parked) \in Nat /\ s.child[c].atParent \in Int
        /\ s.child[c].limit \in Nat
    BY <1>1, UseOf
  <2>2. ChildUse(r, c) = Len(p) + s.child[c].atParent
    BY <1>6 DEF ChildUse
  <2> QED BY <1>3, <1>6, <2>1, <2>2
<1> HIDE DEF t
<1>9. \A o \in Children \ {c} : ChildUse(t, o) = ChildUse(s, o) /\ t.child[o] = s.child[o]
  BY <1>6, <1>7 DEF ChildUse
<1>10. NobodyIdle(s) => NobodyIdle(t)
  BY <1>7, <1>9 DEF NobodyIdle
<1>11. ChildrenWithin(s) => ChildrenWithin(t)
  BY <1>7, <1>8, <1>9 DEF ChildrenWithin
<1> QED
  BY <1>6, <1>7, <1>10, <1>11 DEF t, r, p

(* SafeRelease of a holder that waits in a child: nobody else moves.       *)
LEMMA ReleaseChildAwaiterBooked ==
    ASSUME NEW s, NEW st, Booked(s, st), NobodyIdle(s), NEW m \in Machines,
           NEW c \in Children, In(m, s.child[c].awaiters)
    PROVE  LET t == [s EXCEPT !.child[c].awaiters = Without(@, m)]
           IN  /\ Booked(t, [st EXCEPT ![m] = None])
               /\ t.limit = s.limit /\ t.active = s.active
               /\ NobodyIdle(t)
               /\ ChildrenWithin(s) => ChildrenWithin(t)
               /\ Full(s) => Full(t)
<1> DEFINE w == Without(s.child[c].awaiters, m)
           t == [s EXCEPT !.child[c].awaiters = w]
           u == [st EXCEPT ![m] = None]
           p == s.child[c].parked
<1>1. s \in Sema /\ QueuesDistinct(s) /\ StandsOnce(s, st, m)
  BY DEF Booked, Placed
<1>2. s.child[c] \in ChildSema /\ s.child[c].awaiters \in Queue /\ p \in Queue
  BY <1>1 DEF Sema, ChildSema
<1>3. /\ w \in Queue /\ Distinct(w)
      /\ \A x : In(x, w) <=> In(x, s.child[c].awaiters) /\ x # m
  BY <1>1, <1>2, WithoutProperties DEF QueuesDistinct
<1>4. Distinct(p) /\ \A x : In(x, p) <=> In(x, s.child[c].parked) /\ x # m
  BY <1>1 DEF QueuesDistinct, StandsOnce
<1>5. t = SetChild(s, c, Child(s.child[c], s.child[c].atParent, p, w))
  <2> HIDE DEF w
  <2> QED BY <1>1, <1>3, AwaitersForm
<1> HIDE DEF w, t
<1>6. /\ Booked(t, u)
      /\ t.limit = s.limit /\ t.active = s.active /\ t.awaiters = s.awaiters
      /\ t.child[c].limit = s.child[c].limit
      /\ t.child[c].atParent = s.child[c].atParent
      /\ t.child[c].parked = s.child[c].parked
      /\ \A o \in Children \ {c} : t.child[o] = s.child[o]
  <2> DEFINE k == s.child[c]
             e == Child(k, k.atParent, p, w)
  <2>1. Booked(SetChild(s, c, e), u)
    BY ZenonT(40), <1>2, <1>3, <1>4, LeaveChildBooked
  <2> HIDE DEF u
  <2>2. /\ e \in ChildSema /\ e.limit = k.limit /\ e.atParent = k.atParent
        /\ e.parked = p
    <3>1. k \in ChildSema
      BY <1>2
    <3>2. p \in Queue
      BY <1>2
    <3> HIDE DEF k, p
    <3> QED BY <1>3, <3>1, <3>2 DEF Child, ChildSema
  <2>3. t = SetChild(s, c, e)
    BY <1>5
  <2> HIDE DEF e
  <2> QED BY <1>1, <2>1, <2>2, <2>3, SetChildProperties
<1>7. ChildUse(t, c) = ChildUse(s, c) /\ ChildUse(t, c) >= t.child[c].limit
  <2>1. s.child[c].awaiters # <<>>
    BY DEF In
  <2> QED BY <1>6, <2>1 DEF ChildUse, NobodyIdle
<1> HIDE DEF u
<1>8. \A o \in Children \ {c} : ChildUse(t, o) = ChildUse(s, o) /\ t.child[o] = s.child[o]
  BY <1>6 DEF ChildUse
<1>9. NobodyIdle(t)
  BY <1>7, <1>8 DEF NobodyIdle
<1>10. ChildrenWithin(s) => ChildrenWithin(t)
  BY <1>6, <1>7, <1>8 DEF ChildrenWithin
<1>11. Full(s) => Full(t)
  BY <1>6 DEF Full
<1> QED
  BY <1>6, <1>9, <1>10, <1>11 DEF t, u, w

(* AdjustLimit of the semaphore. *)
LEMMA AdjustLimitBooked ==
    ASSUME NEW s, NEW st, Booked(s, st), NEW v \in Nat
    PROVE  LET r == [s EXCEPT !.limit = v]
               t == IF v < s.limit THEN r ELSE MoveToActive(r, v - s.limit)
           IN  /\ Booked(t, st)
               /\ t.child = s.child
               /\ Full(s) => Full(t)
               /\ ~ (v < s.limit) /\ Len(s.active) <= s.limit => Len(t.active) <= t.limit
<1> DEFINE r == [s EXCEPT !.limit = v]
           n == v - s.limit
           k == Taken(n, r.awaiters)
           t == IF v < s.limit THEN r ELSE MoveToActive(r, n)
<1>1. s \in Sema
  BY DEF Booked, Placed
<1>2. /\ r \in Sema /\ r.limit = v /\ r.active = s.active /\ r.awaiters = s.awaiters
      /\ r.boostHead = s.boostHead /\ r.child = s.child
  BY <1>1 DEF Sema
<1> HIDE DEF r
<1>3. Booked(r, st)
  <2>1. /\ Distinct(s.active) /\ Distinct(s.awaiters) /\ BoostStands(s)
        /\ \A m \in Machines : StandsOnce(s, st, m)
    BY DEF Booked, Placed, QueuesDistinct
  <2>2. BoostStands(r)
    BY <1>2, <2>1 DEF BoostStands
  <2>3. \A m \in Machines : In(m, s.active) => ~ In(m, s.awaiters)
    BY <2>1 DEF StandsOnce
  <2> QED BY <1>2, <2>1, <2>2, <2>3, MovesAtParent
<1>4. s.active \in Queue /\ s.awaiters \in Queue /\ s.limit \in Nat /\ n \in Int
  BY <1>1 DEF Sema
<1>5. Len(s.active) \in Nat /\ Len(s.awaiters) \in Nat
  BY <1>4 DEF Queue
<1>6. CASE v < s.limit
  <2>1. t = r
    BY <1>6
  <2> HIDE DEF t
  <2>2. Full(s) => Full(t)
    BY <1>2, <1>4, <1>5, <1>6, <2>1 DEF Full
  <2> QED BY <1>2, <1>3, <1>6, <2>1, <2>2 DEF t, r
<1>7. CASE ~ (v < s.limit)
  <2>1. t = MoveToActive(r, n)
    BY <1>7
  <2>2. /\ Booked(t, st) /\ t.limit = v /\ t.child = s.child
        /\ Len(t.active) = Len(s.active) + k
        /\ Len(t.awaiters) = Len(s.awaiters) - k
    <3> HIDE DEF t, n
    <3> QED BY <1>2, <1>3, <1>4, <2>1, MoveToActiveBooked
  <2>3. /\ k \in 0 .. Len(s.awaiters)
        /\ n >= 0 => k <= n
        /\ n > Len(s.awaiters) => k = Len(s.awaiters)
        /\ 0 <= n /\ n <= Len(s.awaiters) => k = n
    <3> HIDE DEF n
    <3> QED BY <1>2, <1>4, TakenBounds
  <2>4. /\ t.awaiters # <<>> => Len(t.awaiters) > 0
        /\ Len(s.awaiters) > 0 => s.awaiters # <<>>
    <3>1. t.awaiters \in Queue
      BY <2>2 DEF Booked, Placed, Sema
    <3> HIDE DEF t
    <3> QED BY <1>4, <3>1 DEF Queue
  <2> HIDE DEF t, k
  <2>5. Full(s) => Full(t)
    <3> SUFFICES ASSUME Full(s), t.awaiters # <<>> PROVE Len(t.active) >= t.limit
      BY DEF Full
    <3>1. n >= 0 /\ v = n + s.limit
      BY <1>4, <1>7
    <3> HIDE DEF n
    <3>2. k = n /\ Len(s.awaiters) > 0
      BY <1>4, <1>5, <2>2, <2>3, <2>4, <3>1
    <3>3. Len(s.active) >= s.limit
      BY <2>4, <3>2 DEF Full
    <3> QED BY <1>4, <1>5, <2>2, <3>1, <3>2, <3>3
  <2>6. Len(s.active) <= s.limit => Len(t.active) <= t.limit
    BY <1>4, <1>5, <1>7, <2>2, <2>3
  <2> QED BY <2>2, <2>5, <2>6 DEF t, r
<1> QED
  BY <1>6, <1>7

(* AdjustLimit of a child. *)
LEMMA AdjustChildLimitBooked ==
    ASSUME NEW s, NEW st, Booked(s, st), NobodyIdle(s), NEW c \in Children, NEW v \in Nat
    PROVE  LET r == [s EXCEPT !.child[c].limit = v]
               d == v - s.child[c].limit
               t == IF d < 0 \/ s.child[c].awaiters = <<>> THEN r
                    ELSE UpdateQueue(MoveToInactive(r, c, d))
           IN  /\ Booked(t, st)
               /\ t.limit = s.limit
               /\ NobodyIdle(t)
               /\ Full(s) => Full(t)
               /\ ~ (v < s.child[c].limit) /\ ChildrenWithin(s) => ChildrenWithin(t)
               /\ Len(s.active) <= s.limit => Len(t.active) <= t.limit
<1> DEFINE k == s.child[c]
           e == [k EXCEPT !.limit = v]
           r == [s EXCEPT !.child[c].limit = v]
           d == v - s.child[c].limit
           i == MoveToInactive(r, c, d)
           j == Taken(d, s.child[c].awaiters)
           t == IF d < 0 \/ s.child[c].awaiters = <<>> THEN r ELSE UpdateQueue(i)
<1>1. /\ s \in Sema /\ st \in [Machines -> Owners] /\ QueuesDistinct(s) /\ BoostStands(s)
      /\ \A m \in Machines : StandsOnce(s, st, m)
      /\ Counted(s, st)
  BY DEF Booked, Placed
<1>2. k \in ChildSema /\ s.child \in [Children -> ChildSema]
  BY <1>1 DEF Sema
<1>3. /\ e \in ChildSema /\ e.limit = v /\ e.atParent = k.atParent
      /\ e.parked = k.parked /\ e.awaiters = k.awaiters
  <2> HIDE DEF k
  <2> QED BY <1>2 DEF ChildSema
<1>4. r = SetChild(s, c, e)
  BY <1>1, <1>2 DEF SetChild, Sema
<1> HIDE DEF e, r
<1>5. /\ r \in Sema
      /\ r.limit = s.limit /\ r.active = s.active /\ r.awaiters = s.awaiters
      /\ r.boostHead = s.boostHead
      /\ r.child[c] = e
      /\ \A o \in Children \ {c} : r.child[o] = s.child[o]
  BY <1>1, <1>3, <1>4, SetChildProperties
<1>6. \A o \in Children :
         /\ r.child[o].parked = s.child[o].parked
         /\ r.child[o].awaiters = s.child[o].awaiters
         /\ r.child[o].atParent = s.child[o].atParent
         /\ r.child[o].limit = IF o = c THEN v ELSE s.child[o].limit
         /\ ChildUse(r, o) = ChildUse(s, o)
  BY <1>3, <1>5 DEF ChildUse
<1>7. Booked(r, st)
  <2>1. QueuesDistinct(r) /\ BoostStands(r)
    BY <1>1, <1>5, <1>6 DEF QueuesDistinct, BoostStands
  <2>2. \A m \in Machines : StandsOnce(r, st, m)
    BY <1>1, <1>5, <1>6 DEF StandsOnce
  <2>3. \A o \in Children : AtParent(r, st, o) = AtParent(s, st, o)
    BY <1>5 DEF AtParent
  <2> QED BY <1>1, <1>5, <1>6, <2>1, <2>2, <2>3 DEF Booked, Placed, Counted
<1>8. /\ ChildUse(s, c) \in Int /\ s.child[c].limit \in Nat
      /\ s.child[c].awaiters \in Queue
  BY <1>1, <1>2, UseOf DEF ChildSema
<1>9. d \in Int /\ v = d + s.child[c].limit
  BY <1>8
<1> HIDE DEF d
<1>10. CASE d < 0 \/ s.child[c].awaiters = <<>>
  <2>1. t = r
    BY <1>10
  <2> HIDE DEF t
  <2>2. NobodyIdle(t)
    BY <1>6, <1>8, <1>9, <1>10, <2>1 DEF NobodyIdle
  <2>3. ~ (v < s.child[c].limit) /\ ChildrenWithin(s) => ChildrenWithin(t)
    BY <1>6, <1>8, <2>1 DEF ChildrenWithin
  <2>4. Full(s) => Full(t)
    BY <1>5, <2>1 DEF Full
  <2> QED BY <1>5, <1>7, <2>1, <2>2, <2>3, <2>4 DEF t, r, d
<1>11. CASE ~ (d < 0 \/ s.child[c].awaiters = <<>>)
  <2>1. t = UpdateQueue(i)
    BY <1>11
  <2>2. /\ Booked(i, st)
        /\ i.limit = s.limit /\ i.active = s.active
        /\ i.child[c].limit = v
        /\ i.child[c].parked = s.child[c].parked
        /\ i.child[c].atParent = s.child[c].atParent + j
        /\ Len(i.child[c].awaiters) = Len(s.child[c].awaiters) - j
        /\ \A o \in Children \ {c} : i.child[o] = s.child[o]
    <3>1. /\ Booked(i, st)
          /\ i.limit = r.limit /\ i.active = r.active
          /\ i.child[c].limit = r.child[c].limit
          /\ i.child[c].parked = r.child[c].parked
          /\ i.child[c].atParent = r.child[c].atParent + Taken(d, r.child[c].awaiters)
          /\ Len(i.child[c].awaiters) = Len(r.child[c].awaiters) - Taken(d, r.child[c].awaiters)
          /\ \A o \in Children \ {c} : i.child[o] = r.child[o]
      BY <1>7, <1>9, MoveToInactiveBooked
    <3> HIDE DEF i
    <3> QED BY <1>5, <1>6, <3>1
  <2>3. /\ j \in 0 .. Len(s.child[c].awaiters)
        /\ d >= 0 => j <= d
        /\ d > Len(s.child[c].awaiters) => j = Len(s.child[c].awaiters)
        /\ 0 <= d /\ d <= Len(s.child[c].awaiters) => j = d
    BY <1>8, <1>9, TakenBounds
  <2> HIDE DEF i, j
  <2>4. ChildUse(i, c) = ChildUse(s, c) + j
    <3>1. /\ ChildUse(s, c) = Len(s.child[c].parked) + s.child[c].atParent
          /\ Len(s.child[c].parked) \in Nat /\ s.child[c].atParent \in Int
      BY <1>1, UseOf
    <3>2. j \in Int /\ ChildUse(i, c) = Len(s.child[c].parked) + (s.child[c].atParent + j)
      BY <2>2, <2>3 DEF ChildUse
    <3> QED BY <3>1, <3>2
  <2>5. Len(s.child[c].awaiters) \in Nat
        /\ (i.child[c].awaiters # <<>> => Len(i.child[c].awaiters) > 0)
    <3>1. i.child[c].awaiters \in Queue
      BY <2>2 DEF Booked, Placed, Sema, ChildSema
    <3> QED BY <1>8, <3>1 DEF Queue
  <2>6. ChildUse(s, c) >= s.child[c].limit
    BY <1>11 DEF NobodyIdle
  <2>7. i.child[c].awaiters # <<>> => ChildUse(i, c) >= i.child[c].limit
    <3>1. /\ Len(i.child[c].awaiters) = Len(s.child[c].awaiters) - j
          /\ i.child[c].limit = v /\ d >= 0
      BY <1>9, <1>11, <2>2
    <3> QED BY <1>8, <1>9, <2>3, <2>4, <2>5, <2>6, <3>1, RaiseFits
  <2>8. \A o \in Children \ {c} : i.child[o] = s.child[o] /\ ChildUse(i, o) = ChildUse(s, o)
    BY <2>2 DEF ChildUse
  <2>9. NobodyIdle(i)
    BY <2>7, <2>8 DEF NobodyIdle
  <2>10. ChildUse(s, c) <= s.child[c].limit => ChildUse(i, c) <= i.child[c].limit
    <3>1. i.child[c].limit = v /\ d >= 0
      BY <1>9, <1>11, <2>2
    <3> QED BY <1>8, <1>9, <2>3, <2>4, <2>5, <3>1, RaiseFits
  <2>11. ChildrenWithin(s) => ChildrenWithin(i)
    BY <2>8, <2>10 DEF ChildrenWithin
  <2>12. /\ Booked(t, st) /\ t.limit = i.limit /\ t.child = i.child /\ Full(t)
         /\ Len(i.active) <= i.limit => Len(t.active) <= t.limit
    <3> HIDE DEF t
    <3> QED BY <2>1, <2>2, UpdateQueueBooked
  <2> HIDE DEF t
  <2>13. NobodyIdle(t) /\ (ChildrenWithin(s) => ChildrenWithin(t))
    BY <2>9, <2>11, <2>12 DEF NobodyIdle, ChildrenWithin, ChildUse
  <2> QED BY <2>2, <2>12, <2>13 DEF t, i, r, d
<1> QED
  BY <1>10, <1>11

-----------------------------------------------------------------------------
(***************************************************************************)
(* The steps of the specification.  SemaInv is what the operations keep of *)
(* the queues; a step that keeps Full hands a free place on.               *)
(***************************************************************************)
Within(s) == Len(s.active) <= s.limit /\ ChildrenWithin(s)

SemaInv ==
    /\ Booked(sema, stacker)
    /\ NobodyIdle(sema)
    /\ ~ lowered => Within(sema)

LEMMA AcquireParentStep ==
    ASSUME SemaInv, NEW m \in Machines, NEW f \in Flags, AcquireParent(m, f)
    PROVE  SemaInv' /\ (Full(sema) => Full(sema'))
<1> DEFINE t == CreateDependency(sema, m, f)
<1>1. /\ stacker[m] = None /\ sema' = t
      /\ stacker' = [stacker EXCEPT ![m] = Direct] /\ lowered' = lowered
  BY DEF AcquireParent
<1>2. Booked(sema, stacker) /\ NobodyIdle(sema) /\ (~ lowered => Within(sema))
  BY DEF SemaInv
<1>3. /\ Booked(t, [stacker EXCEPT ![m] = Direct])
      /\ t.limit = sema.limit /\ t.child = sema.child
      /\ Len(sema.active) <= sema.limit => Len(t.active) <= t.limit
      /\ Full(sema) => Full(t)
  BY <1>1, <1>2, AcquireParentBooked
<1> HIDE DEF t
<1>4. /\ NobodyIdle(sema) => NobodyIdle(t)
      /\ ChildrenWithin(sema) => ChildrenWithin(t)
  BY <1>3 DEF NobodyIdle, ChildrenWithin, ChildUse
<1> QED
  BY <1>1, <1>2, <1>3, <1>4 DEF SemaInv, Within

LEMMA AcquireChildStep ==
    ASSUME SemaInv, NEW m \in Machines, NEW c \in Children, NEW f \in Flags,
           AcquireChild(m, c, f)
    PROVE  SemaInv' /\ (Full(sema) => Full(sema'))
<1>1. stacker[m] = None /\ stacker' = [stacker EXCEPT ![m] = c] /\ lowered' = lowered
  BY DEF AcquireChild
<1>2. Booked(sema, stacker) /\ NobodyIdle(sema) /\ (~ lowered => Within(sema))
  BY DEF SemaInv
<1>3. CASE ChildCanPassThrough(sema, c)
  <2> DEFINE t == [CreateDependency(sema, m, f) EXCEPT !.child[c].atParent = @ + 1]
  <2>1. sema' = t
    BY <1>3 DEF AcquireChild
  <2>2. /\ Booked(t, [stacker EXCEPT ![m] = c])
        /\ t.limit = sema.limit
        /\ Len(sema.active) <= sema.limit => Len(t.active) <= t.limit
        /\ Full(sema) => Full(t)
        /\ NobodyIdle(sema) => NobodyIdle(t)
        /\ ChildrenWithin(sema) => ChildrenWithin(t)
    BY <1>1, <1>2, <1>3, AcquireChildBooked
  <2> HIDE DEF t
  <2> QED BY <1>1, <1>2, <2>1, <2>2 DEF SemaInv, Within
<1>4. CASE ~ ChildCanPassThrough(sema, c)
  <2> DEFINE t == [sema EXCEPT !.child[c].awaiters = Append(@, m)]
  <2>1. sema' = t
    BY <1>4 DEF AcquireChild
  <2>2. /\ Booked(t, [stacker EXCEPT ![m] = c])
        /\ t.limit = sema.limit /\ t.active = sema.active /\ t.awaiters = sema.awaiters
        /\ NobodyIdle(sema) => NobodyIdle(t)
        /\ ChildrenWithin(sema) => ChildrenWithin(t)
    BY <1>1, <1>2, <1>4, WaitAtChildBooked
  <2> HIDE DEF t
  <2> QED BY <1>1, <1>2, <2>1, <2>2 DEF SemaInv, Within, Full
<1> QED
  BY <1>3, <1>4

LEMMA ReleaseActiveStep ==
    ASSUME SemaInv, NEW m \in Machines, ReleaseActive(m)
    PROVE  SemaInv' /\ (Full(sema) => Full(sema'))
<1> DEFINE a == [sema EXCEPT !.active = Without(@, m)]
           r == AfterRelease(a, stacker[m])
           t == UpdateQueue(r)
           u == [stacker EXCEPT ![m] = None]
<1>1. In(m, sema.active) /\ sema' = t /\ stacker' = u /\ lowered' = lowered
  BY DEF ReleaseActive, Forget
<1>2. Booked(sema, stacker) /\ NobodyIdle(sema) /\ (~ lowered => Within(sema))
  BY DEF SemaInv
<1>3. LeftParent(sema, a, m) /\ Len(a.active) = Len(sema.active) - 1
  BY <1>1, <1>2, LeaveActive
<1> HIDE DEF a, t
<1>4. /\ Booked(r, u)
      /\ r.limit = sema.limit /\ r.active = a.active
      /\ NobodyIdle(sema) => NobodyIdle(r)
      /\ ChildrenWithin(sema) => ChildrenWithin(r)
  BY <1>1, <1>2, <1>3, ReleasedFromParent
<1> HIDE DEF r, u
<1>5. /\ Booked(t, u) /\ t.limit = r.limit /\ t.child = r.child /\ Full(t)
      /\ Len(r.active) <= r.limit => Len(t.active) <= t.limit
  BY <1>4, UpdateQueueBooked DEF t
<1>6. Len(sema.active) <= sema.limit => Len(r.active) <= r.limit
  <2>1. sema.active \in Queue /\ sema.limit \in Nat
    BY <1>2 DEF Booked, Placed, Sema
  <2>2. Len(sema.active) \in Nat
    BY <2>1 DEF Queue
  <2> QED BY <1>3, <1>4, <2>1, <2>2
<1>7. /\ NobodyIdle(r) => NobodyIdle(t)
      /\ ChildrenWithin(r) => ChildrenWithin(t)
  BY <1>5 DEF NobodyIdle, ChildrenWithin, ChildUse
<1> QED
  BY <1>1, <1>2, <1>4, <1>5, <1>6, <1>7 DEF SemaInv, Within

LEMMA ReleaseAwaiterStep ==
    ASSUME SemaInv, NEW m \in Machines, ReleaseAwaiter(m)
    PROVE  SemaInv' /\ (Full(sema) => Full(sema'))
<1> DEFINE a == RemoveAwaiter(sema, m)
           t == AfterRelease(a, stacker[m])
           u == [stacker EXCEPT ![m] = None]
<1>1. In(m, sema.awaiters) /\ sema' = t /\ stacker' = u /\ lowered' = lowered
  BY DEF ReleaseAwaiter, Forget
<1>2. Booked(sema, stacker) /\ NobodyIdle(sema) /\ (~ lowered => Within(sema))
  BY DEF SemaInv
<1>3. LeftParent(sema, a, m) /\ a.active = sema.active
  BY <1>1, <1>2, LeaveAwaiters
<1> HIDE DEF a
<1>4. /\ Booked(t, u)
      /\ t.limit = sema.limit /\ t.active = a.active
      /\ NobodyIdle(sema) => NobodyIdle(t)
      /\ ChildrenWithin(sema) => ChildrenWithin(t)
  BY <1>1, <1>2, <1>3, ReleasedFromParent
<1> HIDE DEF t, u
<1>5. sema.awaiters # <<>>
  BY <1>1 DEF In
<1>6. Full(sema) => Full(t)
  BY <1>3, <1>4, <1>5 DEF Full
<1> QED
  BY <1>1, <1>2, <1>3, <1>4, <1>6 DEF SemaInv, Within

(* A machine that stops while it is parked: Full may be lost. *)
LEMMA ReleaseParkedStep ==
    ASSUME SemaInv, NEW m \in Machines, NEW c \in Children, ReleaseParked(m, c)
    PROVE  SemaInv'
<1> DEFINE t == ChildUpdateQueue([sema EXCEPT !.child[c].parked = Without(@, m)], c)
<1>1. /\ In(m, sema.child[c].parked) /\ sema' = t
      /\ stacker' = [stacker EXCEPT ![m] = None] /\ lowered' = lowered
  BY DEF ReleaseParked, Forget
<1>2. Booked(sema, stacker) /\ NobodyIdle(sema) /\ (~ lowered => Within(sema))
  BY DEF SemaInv
<1>3. /\ Booked(t, [stacker EXCEPT ![m] = None])
      /\ t.limit = sema.limit /\ t.active = sema.active
      /\ NobodyIdle(sema) => NobodyIdle(t)
      /\ ChildrenWithin(sema) => ChildrenWithin(t)
  BY <1>1, <1>2, ReleaseParkedBooked
<1> HIDE DEF t
<1> QED
  BY <1>1, <1>2, <1>3 DEF SemaInv, Within

LEMMA ReleaseChildAwaiterStep ==
    ASSUME SemaInv, NEW m \in Machines, NEW c \in Children, ReleaseChildAwaiter(m, c)
    PROVE  SemaInv' /\ (Full(sema) => Full(sema'))
<1> DEFINE t == [sema EXCEPT !.child[c].awaiters = Without(@, m)]
<1>1. /\ In(m, sema.child[c].awaiters) /\ sema' = t
      /\ stacker' = [stacker EXCEPT ![m] = None] /\ lowered' = lowered
  BY DEF ReleaseChildAwaiter, Forget
<1>2. Booked(sema, stacker) /\ NobodyIdle(sema) /\ (~ lowered => Within(sema))
  BY DEF SemaInv
<1>3. /\ Booked(t, [stacker EXCEPT ![m] = None])
      /\ t.limit = sema.limit /\ t.active = sema.active
      /\ NobodyIdle(t)
      /\ ChildrenWithin(sema) => ChildrenWithin(t)
      /\ Full(sema) => Full(t)
  BY <1>1, <1>2, ReleaseChildAwaiterBooked
<1> HIDE DEF t
<1> QED
  BY <1>1, <1>2, <1>3 DEF SemaInv, Within

LEMMA PartialReleaseStep ==
    ASSUME SemaInv, NEW m \in Machines, NEW c \in Children, PartialRelease(m, c)
    PROVE  SemaInv' /\ (Full(sema) => Full(sema'))
<1>1. stacker[m] = c /\ stacker' = stacker /\ lowered' = lowered
  BY DEF PartialRelease
<1>2. Booked(sema, stacker) /\ NobodyIdle(sema) /\ (~ lowered => Within(sema))
  BY DEF SemaInv
<1>3. /\ Len(sema.active) \in Nat /\ sema.limit \in Nat
  <2>1. sema.active \in Queue /\ sema.limit \in Nat
    BY <1>2 DEF Booked, Placed, Sema
  <2> QED BY <2>1 DEF Queue
<1>4. ASSUME NEW a, LeftParent(sema, a, m), m \in AtParent(sema, stacker, c),
             Len(sema.active) <= sema.limit => Len(a.active) <= a.limit,
             sema' = UpdateQueue(Park(a, c, m))
      PROVE  SemaInv' /\ (Full(sema) => Full(sema'))
  <2> DEFINE r == Park(a, c, m)
             t == UpdateQueue(r)
  <2>1. /\ Booked(r, stacker)
        /\ r.limit = sema.limit /\ r.active = a.active
        /\ NobodyIdle(sema) => NobodyIdle(r)
        /\ ChildrenWithin(sema) => ChildrenWithin(r)
    <3>1. LeftParent(sema, a, m) /\ m \in AtParent(sema, stacker, c)
      BY <1>4
    <3> QED BY <1>2, <3>1, ParkBooked
  <2>2. sema' = t
    BY <1>4
  <2> HIDE DEF r
  <2>3. /\ Booked(t, stacker) /\ t.limit = r.limit /\ t.child = r.child /\ Full(t)
        /\ Len(r.active) <= r.limit => Len(t.active) <= t.limit
    BY <2>1, UpdateQueueBooked
  <2> HIDE DEF t
  <2>4. /\ NobodyIdle(r) => NobodyIdle(t)
        /\ ChildrenWithin(r) => ChildrenWithin(t)
    BY <2>3 DEF NobodyIdle, ChildrenWithin, ChildUse
  <2>5. a.limit = sema.limit
    BY <1>4 DEF LeftParent
  <2>6. Len(sema.active) <= sema.limit => Len(t.active) <= t.limit
    BY <1>4, <2>1, <2>3, <2>5
  <2> QED BY <1>1, <1>2, <2>1, <2>2, <2>3, <2>4, <2>6 DEF SemaInv, Within
<1>5. CASE /\ In(m, sema.active)
           /\ sema' = UpdateQueue([sema EXCEPT !.active = Without(@, m),
                                               !.child[c].atParent = @ - 1,
                                               !.child[c].parked = Append(@, m)])
  <2> DEFINE a == [sema EXCEPT !.active = Without(@, m)]
  <2>1. LeftParent(sema, a, m) /\ Len(a.active) = Len(sema.active) - 1
    BY <1>2, <1>5, LeaveActive
  <2>2. sema' = UpdateQueue(Park(a, c, m))
    <3>1. sema \in Sema
      BY <1>2 DEF Booked, Placed
    <3>2. [sema EXCEPT !.active = Without(@, m), !.child[c].atParent = @ - 1,
                       !.child[c].parked = Append(@, m)]
            = Park(a, c, m)
      BY <3>1 DEF Sema, Park
    <3> QED BY <1>5, <3>2
  <2>3. m \in AtParent(sema, stacker, c)
    BY <1>1, <1>5 DEF AtParent
  <2>4. a.limit = sema.limit
    BY <2>1 DEF LeftParent
  <2> HIDE DEF a
  <2>5. Len(sema.active) <= sema.limit => Len(a.active) <= a.limit
    BY <1>3, <2>1, <2>4
  <2> QED BY <1>4, <2>1, <2>2, <2>3, <2>5
<1>6. CASE /\ In(m, sema.awaiters)
           /\ sema' = UpdateQueue([RemoveAwaiter(sema, m) EXCEPT
                                               !.child[c].atParent = @ - 1,
                                               !.child[c].parked = Append(@, m)])
  <2> DEFINE a == RemoveAwaiter(sema, m)
  <2>1. LeftParent(sema, a, m) /\ a.active = sema.active
    BY <1>2, <1>6, LeaveAwaiters
  <2>2. sema' = UpdateQueue(Park(a, c, m))
    BY <1>6 DEF Park
  <2>3. m \in AtParent(sema, stacker, c)
    BY <1>1, <1>6 DEF AtParent
  <2>4. a.limit = sema.limit
    BY <2>1 DEF LeftParent
  <2> HIDE DEF a
  <2> QED BY <1>4, <2>1, <2>2, <2>3, <2>4
<1> QED
  BY <1>5, <1>6 DEF PartialRelease

LEMMA PartialAcquireStep ==
    ASSUME SemaInv, NEW m \in Machines, NEW c \in Children, PartialAcquire(m, c)
    PROVE  SemaInv' /\ (Full(sema) => Full(sema'))
<1> DEFINE a == [sema EXCEPT !.child[c].parked = Without(@, m),
                             !.child[c].atParent = @ + 1]
           t == JoinParent(a, m, slotFlags[m], PrioritizePartial)
<1>1. In(m, sema.child[c].parked) /\ stacker' = stacker /\ lowered' = lowered
  BY DEF PartialAcquire
<1>2. Booked(sema, stacker) /\ NobodyIdle(sema) /\ (~ lowered => Within(sema))
  BY DEF SemaInv
<1>3. /\ a.limit = sema.limit /\ a.active = sema.active
      /\ Booked(t, stacker)
      /\ t.limit = sema.limit
      /\ Len(sema.active) <= sema.limit => Len(t.active) <= t.limit
      /\ Full(sema) => Full(t)
      /\ NobodyIdle(sema) => NobodyIdle(t)
      /\ ChildrenWithin(sema) => ChildrenWithin(t)
  BY <1>1, <1>2, UnparkBooked
<1>4. sema' = IF CanPassThrough(sema)
              THEN [a EXCEPT !.active = Append(@, m)]
              ELSE AddSlot(a, m, slotFlags[m], PrioritizePartial)
  BY DEF PartialAcquire
<1> HIDE DEF a
<1>5. sema' = t
  BY <1>3, <1>4 DEF JoinParent, CanPassThrough
<1> HIDE DEF t
<1> QED
  BY <1>1, <1>2, <1>3, <1>5 DEF SemaInv, Within

LEMMA AdjustLimitStep ==
    ASSUME SemaInv, NEW v \in Limits, AdjustLimit(v)
    PROVE  SemaInv' /\ (Full(sema) => Full(sema'))
<1> DEFINE r == [sema EXCEPT !.limit = v]
           t == IF v < sema.limit THEN r ELSE MoveToActive(r, v - sema.limit)
<1>1. sema' = t /\ stacker' = stacker /\ lowered' = (lowered \/ v < sema.limit)
  BY DEF AdjustLimit
<1>2. Booked(sema, stacker) /\ NobodyIdle(sema) /\ (~ lowered => Within(sema))
  BY DEF SemaInv
<1>3. v \in Nat
  BY ConstantsAssumption
<1>4. /\ Booked(t, stacker)
      /\ t.child = sema.child
      /\ Full(sema) => Full(t)
      /\ ~ (v < sema.limit) /\ Len(sema.active) <= sema.limit => Len(t.active) <= t.limit
  BY <1>2, <1>3, AdjustLimitBooked
<1> HIDE DEF t
<1>5. /\ NobodyIdle(sema) => NobodyIdle(t)
      /\ ChildrenWithin(sema) => ChildrenWithin(t)
  BY <1>4 DEF NobodyIdle, ChildrenWithin, ChildUse
<1> QED
  BY <1>1, <1>2, <1>4, <1>5 DEF SemaInv, Within

LEMMA AdjustChildLimitStep ==
    ASSUME SemaInv, NEW c \in Children, NEW v \in ChildLimits, AdjustChildLimit(c, v)
    PROVE  SemaInv' /\ (Full(sema) => Full(sema'))
<1> DEFINE r == [sema EXCEPT !.child[c].limit = v]
           d == v - sema.child[c].limit
           t == IF d < 0 \/ sema.child[c].awaiters = <<>> THEN r
                ELSE UpdateQueue(MoveToInactive(r, c, d))
<1>1. sema' = t /\ stacker' = stacker /\ lowered' = (lowered \/ v < sema.child[c].limit)
  BY DEF AdjustChildLimit
<1>2. Booked(sema, stacker) /\ NobodyIdle(sema) /\ (~ lowered => Within(sema))
  BY DEF SemaInv
<1>3. v \in Nat
  BY ConstantsAssumption
<1>4. /\ Booked(t, stacker)
      /\ t.limit = sema.limit
      /\ NobodyIdle(t)
      /\ Full(sema) => Full(t)
      /\ ~ (v < sema.child[c].limit) /\ ChildrenWithin(sema) => ChildrenWithin(t)
      /\ Len(sema.active) <= sema.limit => Len(t.active) <= t.limit
  BY <1>2, <1>3, AdjustChildLimitBooked
<1> HIDE DEF t
<1> QED
  BY <1>1, <1>2, <1>4 DEF SemaInv, Within

-----------------------------------------------------------------------------
(* The places of a machine, as Accounting counts them. *)
PlacesIn(a, q, m) == [at : {a}, i : Times(m, q)]

LEMMA PlacesInQueue ==
    ASSUME NEW a, NEW q \in Queue, NEW m, Distinct(q)
    PROVE  /\ ~ In(m, q) => PlacesIn(a, q, m) = {}
           /\ In(m, q) => \E x : PlacesIn(a, q, m) = {x}
<1>1. ~ In(m, q) => PlacesIn(a, q, m) = {}
  BY DEF PlacesIn, Times, In
<1>2. ASSUME In(m, q) PROVE \E x : PlacesIn(a, q, m) = {x}
  <2>1. PICK j \in DOMAIN q : q[j] = m
    BY <1>2 DEF In
  <2>2. Times(m, q) = {j}
    BY <2>1 DEF Times, Distinct
  <2>3. [at : {a}, i : {j}] = {[at |-> a, i |-> j]}
    <3>1. [at |-> a, i |-> j] \in [at : {a}, i : {j}]
      OBVIOUS
    <3>2. \A x \in [at : {a}, i : {j}] : x = [at |-> a, i |-> j]
      OBVIOUS
    <3> QED BY <3>1, <3>2
  <2> QED BY <2>2, <2>3 DEF PlacesIn
<1> QED
  BY <1>1, <1>2

LEMMA BookedAccounts ==
    ASSUME Booked(sema, stacker)
    PROVE  Accounting
<1>1. /\ sema \in Sema /\ stacker \in [Machines -> Owners] /\ QueuesDistinct(sema)
      /\ \A m \in Machines : StandsOnce(sema, stacker, m)
      /\ Counted(sema, stacker)
  BY DEF Booked, Placed
<1>2. /\ sema.active \in Queue /\ sema.awaiters \in Queue
      /\ Distinct(sema.active) /\ Distinct(sema.awaiters)
      /\ \A c \in Children :
            /\ sema.child[c].parked \in Queue /\ sema.child[c].awaiters \in Queue
            /\ Distinct(sema.child[c].parked) /\ Distinct(sema.child[c].awaiters)
  BY <1>1 DEF Sema, ChildSema, QueuesDistinct
<1> DEFINE Here(m, c) == PlacesIn(<<c, "parked">>, sema.child[c].parked, m)
                            \cup PlacesIn(<<c, "awaiters">>, sema.child[c].awaiters, m)
           AtChild(m) == UNION {Here(m, c) : c \in Children \cap {stacker[m]}}
           Places(m) == PlacesIn("active", sema.active, m)
                            \cup PlacesIn("awaiters", sema.awaiters, m) \cup AtChild(m)
<1>3. ASSUME NEW m \in Machines
      PROVE  Cardinality(Places(m)) = IF stacker[m] = None THEN 0 ELSE 1
  <2> DEFINE o == stacker[m]
             A == PlacesIn("active", sema.active, m)
             W == PlacesIn("awaiters", sema.awaiters, m)
  <2>1. StandsOnce(sema, stacker, m)
    BY <1>1
  <2>2. /\ ~ In(m, sema.active) => A = {}
        /\ In(m, sema.active) => \E x : A = {x}
    BY <1>2, PlacesInQueue
  <2>3. /\ ~ In(m, sema.awaiters) => W = {}
        /\ In(m, sema.awaiters) => \E x : W = {x}
    BY <1>2, PlacesInQueue
  <2>4. o \notin Children => AtChild(m) = {}
    OBVIOUS
  <2>5. CASE o = None
    <3>1. A = {} /\ W = {}
      BY <2>1, <2>2, <2>3, <2>5 DEF StandsOnce
    <3>2. AtChild(m) = {}
      BY <2>4, <2>5, OwnersAssumption
    <3>3. Places(m) = {}
      BY <3>1, <3>2
    <3> QED BY <2>5, <3>3, FS_EmptySet
  <2>6. CASE o # None
    <3>1. \E x : Places(m) = {x}
      <4>1. CASE o \notin Children
        <5>1. AtChild(m) = {}
          BY <2>4, <4>1
        <5>2. ~ (In(m, sema.active) /\ In(m, sema.awaiters))
              /\ (In(m, sema.active) \/ In(m, sema.awaiters))
          BY <2>1, <2>6, <4>1 DEF StandsOnce
        <5> HIDE DEF A, W, AtChild
        <5> QED BY <2>2, <2>3, <5>1, <5>2 DEF A, W
      <4>2. CASE o \in Children
        <5> DEFINE P == PlacesIn(<<o, "parked">>, sema.child[o].parked, m)
                   Q == PlacesIn(<<o, "awaiters">>, sema.child[o].awaiters, m)
        <5>1. AtChild(m) = P \cup Q
          BY <4>2
        <5>2. /\ ~ In(m, sema.child[o].parked) => P = {}
              /\ In(m, sema.child[o].parked) => \E x : P = {x}
          BY <1>2, <4>2, PlacesInQueue
        <5>3. /\ ~ In(m, sema.child[o].awaiters) => Q = {}
              /\ In(m, sema.child[o].awaiters) => \E x : Q = {x}
          BY <1>2, <4>2, PlacesInQueue
        <5>4. /\ In(m, sema.active) => ~ In(m, sema.awaiters)
              /\ In(m, sema.child[o].parked) =>
                    /\ ~ In(m, sema.active) /\ ~ In(m, sema.awaiters)
                    /\ ~ In(m, sema.child[o].awaiters)
              /\ In(m, sema.child[o].awaiters) =>
                    ~ In(m, sema.active) /\ ~ In(m, sema.awaiters)
              /\ \/ In(m, sema.active) \/ In(m, sema.awaiters)
                 \/ In(m, sema.child[o].parked) \/ In(m, sema.child[o].awaiters)
          BY <2>1, <2>6, <4>2 DEF StandsOnce
        <5>5. Places(m) = A \cup W \cup (P \cup Q)
          BY <5>1
        <5> HIDE DEF A, W, P, Q, Places, o
        <5> QED BY <2>2, <2>3, <5>2, <5>3, <5>4, <5>5
      <4> QED BY <4>1, <4>2
    <3> QED BY <2>6, <3>1, FS_Singleton
  <2> QED BY <2>5, <2>6
<1>4. \A c \in Children :
         sema.child[c].atParent =
            Cardinality({m \in Machines : stacker[m] = c
                           /\ (In(m, sema.active) \/ In(m, sema.awaiters))})
  BY <1>1 DEF Counted, AtParent
<1> HIDE DEF Places
<1> QED
  BY <1>3, <1>4 DEF Accounting, Places, PlacesIn

-----------------------------------------------------------------------------
(* The rest of the type invariant: the flags and the bounded counters.     *)
RestTyped ==
    /\ slotFlags \in [Machines -> Flags]
    /\ parks \in [Machines -> 0 .. MaxParks]
    /\ prioritized \in 0 .. MaxPrioritized
    /\ lowered \in BOOLEAN

LEMMA RestTypedStep ==
    ASSUME RestTyped, SemaInv, Next
    PROVE  RestTyped'
<1> USE ConstantsAssumption
<1>1. ASSUME NEW f \in Flags, WithinBounds(f)
      PROVE  prioritized' \in 0 .. MaxPrioritized
  BY <1>1 DEF RestTyped, WithinBounds
<1>2. \A f \in Flags : KeptFlags(sema, f) \in Flags
  BY DEF KeptFlags, Flags
<1>3. "plain" \in Flags
  BY DEF Flags
<1>4. ASSUME NEW m \in Machines, NEW f \in Flags, AcquireParent(m, f) PROVE RestTyped'
  BY <1>1, <1>2, <1>4 DEF AcquireParent, RestTyped
<1>5. ASSUME NEW m \in Machines, NEW c \in Children, NEW f \in Flags, AcquireChild(m, c, f)
      PROVE  RestTyped'
  BY <1>1, <1>2, <1>3, <1>5 DEF AcquireChild, RestTyped
<1>6. ASSUME NEW m \in Machines, Forget(m) PROVE RestTyped'
  BY <1>3, <1>6 DEF Forget, RestTyped
<1>7. ASSUME NEW m \in Machines, NEW c \in Children, PartialRelease(m, c) PROVE RestTyped'
  <2>1. /\ parks[m] < MaxParks /\ parks' = [parks EXCEPT ![m] = @ + 1]
        /\ UNCHANGED <<slotFlags, prioritized, lowered>>
    BY <1>7 DEF PartialRelease
  <2> QED BY <2>1 DEF RestTyped
<1>8. ASSUME NEW m \in Machines, NEW c \in Children, PartialAcquire(m, c) PROVE RestTyped'
  BY <1>8 DEF PartialAcquire, RestTyped
<1>9. ASSUME NEW v \in Limits, AdjustLimit(v) PROVE RestTyped'
  BY <1>9 DEF AdjustLimit, RestTyped
<1>10. ASSUME NEW c \in Children, NEW v \in ChildLimits, AdjustChildLimit(c, v)
       PROVE  RestTyped'
  BY <1>10 DEF AdjustChildLimit, RestTyped
<1> QED
  BY <1>4, <1>5, <1>6, <1>7, <1>8, <1>9, <1>10
     DEF Next, ReleaseActive, ReleaseAwaiter, ReleaseParked, ReleaseChildAwaiter

LEMMA SemaInvStep ==
    ASSUME SemaInv, Next
    PROVE  /\ SemaInv'
           /\ \/ Full(sema) => Full(sema')
              \/ \E m \in Machines, c \in Children : ReleaseParked(m, c)
<1>1. ASSUME NEW m \in Machines, NEW c \in Children, ReleaseParked(m, c)
      PROVE  SemaInv' /\ \E x \in Machines, y \in Children : ReleaseParked(x, y)
  BY <1>1, ReleaseParkedStep
<1> QED
  BY <1>1, AcquireParentStep, AcquireChildStep, ReleaseActiveStep, ReleaseAwaiterStep,
     ReleaseChildAwaiterStep, PartialReleaseStep, PartialAcquireStep,
     AdjustLimitStep, AdjustChildLimitStep DEF Next

SemaphoresInv == SemaInv /\ RestTyped

(* Booked holds of the empty semaphore that newSemaphore makes.            *)
LEMMA InitInv == Init => SemaphoresInv
<1> SUFFICES ASSUME Init PROVE SemaphoresInv
  OBVIOUS
<1> USE ConstantsAssumption
<1>1. \A x : ~ In(x, <<>>)
  BY DEF In
<1>2. <<>> \in Queue /\ Distinct(<<>>) /\ Len(<<>>) = 0
  BY DEF Queue, Distinct
<1>3. sema \in Sema
  BY <1>2 DEF Init, Sema, ChildSema
<1>4. /\ sema.active = <<>> /\ sema.awaiters = <<>> /\ sema.boostHead = NoMachine
      /\ sema.limit \in Nat
      /\ \A c \in Children : /\ sema.child[c].parked = <<>> /\ sema.child[c].awaiters = <<>>
                             /\ sema.child[c].atParent = 0 /\ sema.child[c].limit = 0
  BY DEF Init
<1>5. stacker \in [Machines -> Owners] /\ \A m \in Machines : stacker[m] = None
  BY DEF Init, Owners
<1>6. Placed(sema, stacker)
  BY <1>1, <1>2, <1>3, <1>4, <1>5 DEF Placed, QueuesDistinct, BoostStands, StandsOnce
<1>7. Counted(sema, stacker)
  <2>1. \A c \in Children : AtParent(sema, stacker, c) = {}
    BY <1>1, <1>4 DEF AtParent
  <2> QED BY <1>4, <2>1, FS_EmptySet DEF Counted
<1>8. NobodyIdle(sema)
  BY <1>4 DEF NobodyIdle
<1>9. Within(sema)
  BY <1>2, <1>4 DEF Within, ChildrenWithin, ChildUse
<1>10. RestTyped
  <2>1. 0 \in 0 .. MaxParks /\ 0 \in 0 .. MaxPrioritized
    OBVIOUS
  <2>2. slotFlags \in [Machines -> Flags] /\ parks \in [Machines -> 0 .. MaxParks]
    BY <2>1 DEF Init, Flags
  <2> QED BY <2>1, <2>2 DEF Init, RestTyped
<1> QED
  BY <1>6, <1>7, <1>8, <1>9, <1>10 DEF SemaphoresInv, SemaInv, Booked

LEMMA Invariance == Spec => []SemaphoresInv
<1>1. SemaphoresInv /\ [Next]_vars => SemaphoresInv'
  <2> SUFFICES ASSUME SemaphoresInv, [Next]_vars PROVE SemaphoresInv'
    OBVIOUS
  <2>1. CASE Next
    BY <2>1, SemaInvStep, RestTypedStep DEF SemaphoresInv
  <2>2. CASE UNCHANGED vars
    BY <2>2 DEF vars, SemaphoresInv, SemaInv, RestTyped
  <2> QED BY <2>1, <2>2
<1> QED
  BY InitInv, <1>1, PTL DEF Spec

-----------------------------------------------------------------------------
(* Queues hold machines, limits are natural numbers, and the count that a  *)
(* child decrements at every release (subSemaQueueController.afterRelease, *)
(* tryPartialRelease) never goes below zero.                               *)
THEOREM SemaphoresTyped == Spec => []TypeOK
<1>1. SemaphoresInv => TypeOK
  <2> SUFFICES ASSUME SemaphoresInv PROVE TypeOK
    OBVIOUS
  <2>1. sema \in Sema /\ stacker \in [Machines -> Owners] /\ Counted(sema, stacker)
    BY DEF SemaphoresInv, SemaInv, Booked, Placed
  <2>2. \A c \in Children : sema.child[c].atParent \in Nat
    BY <2>1, CountIsNat DEF Counted
  <2> QED BY <2>1, <2>2 DEF TypeOK, SemaphoresInv, RestTyped, Owners
<1> QED
  BY Invariance, <1>1, PTL

(* A machine with a holder stands once in one queue, of its own child or   *)
(* of the parent, and workerAtParentCount of each child is the number of   *)
(* its holders at the parent, whatever machines acquire, release, park and *)
(* stop in whatever order.                                                 *)
THEOREM HoldersAccounted == Spec => []Accounting
<1>1. SemaphoresInv => Accounting
  BY BookedAccounts DEF SemaphoresInv, SemaInv
<1> QED
  BY Invariance, <1>1, PTL

(* As long as no limit is lowered, never more machines have passed than    *)
(* the limit of the semaphore, and never more hold a child, parked ones    *)
(* included, than its limit.                                               *)
THEOREM LimitsRespected == Spec => []WithinLimit
<1>1. SemaphoresInv => WithinLimit
  BY DEF SemaphoresInv, SemaInv, Within, ChildrenWithin, WithinLimit
<1> QED
  BY Invariance, <1>1, PTL

(* No machine waits at a child that has a free place: every release and    *)
(* every adjustment of a child updates its queue.                          *)
THEOREM ChildrenNotIdle == Spec => []ChildNotIdle
<1>1. SemaphoresInv => ChildNotIdle
  BY DEF SemaphoresInv, SemaInv, NobodyIdle, ChildNotIdle
<1> QED
  BY Invariance, <1>1, PTL

(* Every step that frees a place of the semaphore hands it on to a machine *)
(* that waits there, except the release of a parked machine: its place in  *)
(* the child goes to a waiter that subSemaQueueController.SafeRelease does *)
(* not let through.                                                        *)
THEOREM FreePlacesHandedOn == Spec => PlacesHandedOn
<1>1. SemaphoresInv /\ [Next]_vars =>
        [ParentNotIdle => ParentNotIdle'
                            \/ \E m \in Machines, c \in Children : ReleaseParked(m, c)]_vars
  <2> SUFFICES ASSUME SemaphoresInv, Next
               PROVE  ParentNotIdle => ParentNotIdle'
                         \/ \E m \in Machines, c \in Children : ReleaseParked(m, c)
    OBVIOUS
  <2>1. \/ Full(sema) => Full(sema')
        \/ \E m \in Machines, c \in Children : ReleaseParked(m, c)
    BY SemaInvStep DEF SemaphoresInv
  <2> QED BY <2>1 DEF Full, ParentNotIdle
<1> QED
  BY Invariance, <1>1, PTL DEF Spec, PlacesHandedOn
===============================================================================
