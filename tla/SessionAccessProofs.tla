------------------------ MODULE SessionAccessProofs ------------------------
(***************************************************************************)
(* Proofs about SessionAccess, for every set of users, every grace and     *)
(* every number of handlers at work: every variable stays in its range and *)
(* nobody is in the member list twice, the promised access lasts, and a    *)
(* request is answered by what the list was while it ran.                  *)
(*                                                                         *)
(* What the loop of RemoveMember keeps is proved by induction along the    *)
(* list, as the absence of a least index at which the claim fails.         *)
(***************************************************************************)
EXTENDS SessionAccess, FiniteSetTheorems, SequenceTheorems, WellFoundedInduction, TLAPS

-----------------------------------------------------------------------------
(* The inductive invariant *)

\* Nobody is in the list twice.
Distinct == \A i, j \in 1..count : cells[i] = cells[j] => i = j

\* Without an entry there is no owner and no list.
NoEntry == ~entry => owner = Nobody /\ cells = <<>> /\ count = 0

\* Nothing is promised of an exposed entry; and an entry as old as the grace
\* is exposed if its session is missing, or was when a listing under way looked.
Exposure ==
  /\ exposed => made = Nobody /\ granted = {}
  /\ entry /\ age = Grace /\ (~record \/ listing = "missing") => exposed

\* The array a request reads, and where its user is found in it: no further
\* than the list as it was read unless they were in while the request ran,
\* and still ahead of the scan if they were never out and nobody was removed.
Read == IF req.copy = <<>> THEN cells ELSE req.copy
Ahead == \E p \in req.at..req.length : Read[p] = req.user
Scan ==
  Scanning =>
    /\ req.at # 0 /\ req.length <= Len(Read)
    /\ \A i \in 1..req.length : Read[i] = req.user => req.wasIn
    /\ ~req.wasOut /\ ~req.removal =>
         Ahead /\ (req.copy = <<>> => req.length <= count)

IInv == /\ Ranges /\ Distinct /\ NoEntry /\ Exposure /\ LastingAccess
        /\ Scan /\ AnswerIsCurrent

-----------------------------------------------------------------------------
(* Lemmas: the least number, and the list RemoveMember keeps *)

\* A set of numbers that is not empty has a least one.
LEMMA LeastNat ==
  ASSUME NEW T, T \subseteq Nat, T # {}
  PROVE  \E n \in T : \A m \in T : ~(m < n)
<1>1. \E n \in T : \A m \in T : ~(<<m, n>> \in OpToRel(<, Nat))
  BY NatLessThanWellFounded, WFMin
<1>2. \A m, n \in Nat : m < n => <<m, n>> \in OpToRel(<, Nat)
  BY DEF OpToRel
<1> QED
  BY <1>1, <1>2

\* What the loop does with the i-th member, having kept F[i - 1] of those before.
KeptNext(F, u, i) ==
  IF i = 0 THEN <<>>
  ELSE IF cells[i] # u THEN Append(F[i - 1], cells[i]) ELSE F[i - 1]
KeptUpTo(n, F, u) == F = [i \in 0..n |-> KeptNext(F, u, i)]

\* The loop of RemoveMember has a result for every number of rounds: were there
\* a number for which it has none, the least would follow one for which it has.
LEMMA KeptExists ==
  ASSUME NEW u, NEW n \in Nat
  PROVE  \E F : KeptUpTo(n, F, u)
<1> DEFINE T == {k \in Nat : ~ \E F : KeptUpTo(k, F, u)}
<1> SUFFICES ASSUME T # {} PROVE FALSE
  OBVIOUS
<1>1. PICK k \in T : \A m \in T : ~(m < k)
  BY LeastNat
<1> HIDE DEF T
<1>2. k \in Nat /\ ~ \E F : KeptUpTo(k, F, u)
  BY <1>1 DEF T
<1>3. k # 0
  <2>1. KeptUpTo(0, [i \in 0..0 |-> <<>>], u)
    BY DEF KeptUpTo, KeptNext
  <2> QED
    BY <2>1, <1>2
<1>4. k - 1 \in Nat /\ k - 1 < k
  BY <1>2, <1>3
<1>5. k - 1 \notin T
  BY <1>1, <1>4
<1>6. PICK G : KeptUpTo(k - 1, G, u)
  BY <1>4, <1>5 DEF T
<1>7. /\ DOMAIN G = 0..(k - 1)
      /\ \A i \in 0..(k - 1) : G[i] = KeptNext(G, u, i)
  BY <1>6 DEF KeptUpTo
<1> DEFINE H == [i \in 0..k |-> IF i < k THEN G[i] ELSE KeptNext(G, u, k)]
<1>8. ASSUME NEW i \in 0..k PROVE H[i] = KeptNext(H, u, i)
  <2>1. CASE i = 0
    BY <2>1, <1>2, <1>3, <1>7 DEF KeptNext
  <2>2. CASE i # 0
    <3>1. H[i - 1] = G[i - 1]
      BY <2>2, <1>2
    <3>2. H[i] = KeptNext(G, u, i)
      BY <1>2, <1>7
    <3> QED
      BY <2>2, <3>1, <3>2 DEF KeptNext
  <2> QED
    BY <2>1, <2>2
<1>9. KeptUpTo(k, H, u)
  BY <1>8 DEF KeptUpTo
<1> QED
  BY <1>2, <1>9

\* Keep is the result of as many rounds as the list is long.
LEMMA KeepUnfolds ==
  ASSUME NEW u, count \in Nat
  PROVE  \E F : KeptUpTo(count, F, u) /\ Keep(u) = F[count]
<1>1. Keep(u) = (CHOOSE F : KeptUpTo(count, F, u))[count]
  BY DEF Keep, KeptUpTo, KeptNext
<1>2. \E F : KeptUpTo(count, F, u)
  BY KeptExists
<1>3. KeptUpTo(count, CHOOSE F : KeptUpTo(count, F, u), u)
  BY <1>2
<1> QED
  BY <1>1, <1>3

\* Of the first n members s is the others than u, each once, in their order
\* where u is not among them.
IsKept(s, n, u) ==
  /\ s \in Seq(Users) /\ Len(s) <= n
  /\ \A i \in 1..Len(s) : s[i] # u /\ \E j \in 1..n : cells[j] = s[i]
  /\ \A j \in 1..n : cells[j] # u => \E i \in 1..Len(s) : s[i] = cells[j]
  /\ (\A j \in 1..n : cells[j] # u)
        => Len(s) = n /\ \A j \in 1..n : s[j] = cells[j]

KeptOnce(s) == \A i, j \in 1..Len(s) : s[i] = s[j] => i = j

\* What is where after an Append.
LEMMA AppendFacts ==
  ASSUME NEW S, NEW s \in Seq(S), NEW x \in S
  PROVE  /\ Append(s, x) \in Seq(S) /\ Len(Append(s, x)) = Len(s) + 1
         /\ \A i \in 1..Len(s) : Append(s, x)[i] = s[i]
         /\ Append(s, x)[Len(s) + 1] = x
OBVIOUS

\* One more round of the loop keeps what the rounds before it established.
LEMMA KeptStep ==
  ASSUME NEW n \in Nat, n < count, count \in 0..Len(cells), cells \in Seq(Users), Distinct,
         NEW u, NEW s, IsKept(s, n, u), KeptOnce(s),
         NEW t, t = IF cells[n + 1] # u THEN Append(s, cells[n + 1]) ELSE s
  PROVE  IsKept(t, n + 1, u) /\ KeptOnce(t)
<1>0. n + 1 \in 1..count /\ n + 1 \in 1..Len(cells) /\ cells[n + 1] \in Users /\ n \in Nat
      /\ Len(cells) \in Nat
  OBVIOUS
<1>a. s \in Seq(Users) /\ Len(s) <= n /\ Len(s) \in Nat
  BY DEF IsKept
<1>b. /\ \A i \in 1..Len(s) : s[i] # u /\ \E j \in 1..n : cells[j] = s[i]
      /\ \A j \in 1..n : cells[j] # u => \E i \in 1..Len(s) : s[i] = cells[j]
      /\ (\A j \in 1..n : cells[j] # u)
            => Len(s) = n /\ \A j \in 1..n : s[j] = cells[j]
  BY DEF IsKept
<1>c. 1..n \subseteq 1..(n + 1) /\ \A j \in 1..(n + 1) : j \in 1..n \/ j = n + 1
  BY <1>0
<1>1. CASE cells[n + 1] = u
  <2>1. t = s
    BY <1>1
  <2>2. ~ \A j \in 1..(n + 1) : cells[j] # u
    BY <1>1, <1>0
  <2>3. \A j \in 1..(n + 1) : cells[j] # u => \E i \in 1..Len(s) : s[i] = cells[j]
    BY <1>1, <1>b, <1>c
  <2>4. \A i \in 1..Len(s) : s[i] # u /\ \E j \in 1..(n + 1) : cells[j] = s[i]
    BY <1>b, <1>c
  <2>5. Len(s) <= n + 1
    BY <1>a, <1>0
  <2> QED
    BY <2>1, <2>2, <2>3, <2>4, <2>5, <1>a DEF IsKept
<1>2. CASE cells[n + 1] # u
  <2> DEFINE x == cells[n + 1]
  <2>1. t = Append(s, x)
    BY <1>2
  <2>2. /\ t \in Seq(Users) /\ Len(t) = Len(s) + 1
        /\ \A i \in 1..Len(s) : t[i] = s[i]
        /\ t[Len(s) + 1] = x
    BY <2>1, <1>a, <1>0, AppendFacts
  <2>c. /\ \A i \in 1..Len(t) : i \in 1..Len(s) \/ i = Len(s) + 1
        /\ 1..Len(s) \subseteq 1..Len(t) /\ Len(s) + 1 \in 1..Len(t)
    BY <2>2, <1>a
  <2>3. Len(t) <= n + 1
    BY <2>2, <1>a, <1>0
  <2>4. \A i \in 1..Len(t) : t[i] # u /\ \E j \in 1..(n + 1) : cells[j] = t[i]
    BY <2>2, <2>c, <1>b, <1>c, <1>2, <1>0
  <2>5. ASSUME NEW j \in 1..(n + 1), cells[j] # u PROVE \E i \in 1..Len(t) : t[i] = cells[j]
    <3>1. CASE j = n + 1
      BY <3>1, <2>c, <2>2
    <3>2. CASE j \in 1..n
      <4>1. PICK i \in 1..Len(s) : s[i] = cells[j]
        BY <3>2, <2>5, <1>b
      <4> QED
        BY <4>1, <2>c, <2>2
    <3> QED
      BY <3>1, <3>2, <1>c
  <2>6. ASSUME \A j \in 1..(n + 1) : cells[j] # u
        PROVE  Len(t) = n + 1 /\ \A j \in 1..(n + 1) : t[j] = cells[j]
    <3>1. Len(s) = n /\ \A j \in 1..n : s[j] = cells[j]
      BY <2>6, <1>b, <1>c
    <3> QED
      BY <3>1, <2>2, <1>c
  <2>7. ASSUME NEW i \in 1..Len(t), NEW j \in 1..Len(t), t[i] = t[j] PROVE i = j
    <3>1. \A k \in 1..Len(s) : s[k] # x
      <4>1. SUFFICES ASSUME NEW k \in 1..Len(s), s[k] = x PROVE FALSE
        OBVIOUS
      <4>2. PICK m \in 1..n : cells[m] = x
        BY <4>1, <1>b
      <4>3. m \in 1..count /\ n + 1 \in 1..count /\ m # n + 1
        BY <1>0
      <4> QED
        BY <4>2, <4>3 DEF Distinct
    <3>2. CASE i \in 1..Len(s) /\ j \in 1..Len(s)
      BY <3>2, <2>2, <2>7 DEF KeptOnce
    <3>3. CASE i \in 1..Len(s) /\ j = Len(s) + 1
      BY <3>3, <3>1, <2>2, <2>7
    <3>4. CASE j \in 1..Len(s) /\ i = Len(s) + 1
      BY <3>4, <3>1, <2>2, <2>7
    <3> QED
      BY <3>2, <3>3, <3>4, <2>c
  <2>8. KeptOnce(t)
    BY <2>7 DEF KeptOnce
  <2> QED
    BY <2>2, <2>3, <2>4, <2>5, <2>6, <2>8 DEF IsKept
<1> QED
  BY <1>1, <1>2

\* RemoveMember keeps exactly the others, in their order and once each.
LEMMA KeepFacts ==
  ASSUME NEW u, count \in 0..Len(cells), cells \in Seq(Users), Distinct
  PROVE  IsKept(Keep(u), count, u) /\ KeptOnce(Keep(u))
<1>0. count \in Nat /\ Len(cells) \in Nat
  OBVIOUS
<1>1. PICK F : KeptUpTo(count, F, u) /\ Keep(u) = F[count]
  BY <1>0, KeepUnfolds
<1>2. \A i \in 0..count : F[i] = KeptNext(F, u, i)
  BY <1>1 DEF KeptUpTo
<1> DEFINE Good(k) == IsKept(F[k], k, u) /\ KeptOnce(F[k])
<1> DEFINE T == {k \in 0..count : ~ Good(k)}
<1> SUFFICES ASSUME T # {} PROVE FALSE
  BY <1>0, <1>1
<1>3. T \subseteq Nat
  BY <1>0
<1>4. PICK k \in T : \A m \in T : ~(m < k)
  BY <1>3, LeastNat
<1>5. k \in 0..count /\ k \in Nat /\ ~ Good(k)
  BY <1>3, <1>4
<1> HIDE DEF T, Good
<1>6. k # 0
  <2>1. F[0] = <<>>
    BY <1>2, <1>0 DEF KeptNext
  <2>2. Good(0)
    BY <2>1 DEF Good, IsKept, KeptOnce
  <2> QED
    BY <2>2, <1>5
<1>7. k - 1 \in Nat /\ k - 1 < k /\ k - 1 < count /\ k - 1 \in 0..count /\ (k - 1) + 1 = k
  BY <1>5, <1>6, <1>0
<1>8. Good(k - 1)
  BY <1>4, <1>7 DEF T
<1>9. F[k] = IF cells[(k - 1) + 1] # u THEN Append(F[k - 1], cells[(k - 1) + 1]) ELSE F[k - 1]
  BY <1>2, <1>5, <1>6, <1>7 DEF KeptNext
<1>10. IsKept(F[k], (k - 1) + 1, u) /\ KeptOnce(F[k])
  BY <1>7, <1>8, <1>9, KeptStep DEF Good
<1> QED
  BY <1>10, <1>7, <1>5 DEF Good

-----------------------------------------------------------------------------
(* Lemmas: the operations of the store *)

Requests == [user : Users \cup {Nobody}, at : Nat, length : Nat, copy : Seq(Users),
             answer : Answer, wasIn : BOOLEAN, wasOut : BOOLEAN, removal : BOOLEAN]

\* The list is a beginning of an array of users.
LEMMA ListRanges ==
  ASSUME Ranges
  PROVE  /\ cells \in Seq(Users) /\ Len(cells) \in Nat /\ count \in Nat /\ count <= Len(cells)
         /\ count \in 0..Len(cells)
         /\ \A i \in 1..Len(cells) : cells[i] \in Users
<1>1. cells \in Seq(Users) /\ count \in 0..Len(cells)
  BY DEF Ranges
<1> QED
  BY <1>1

\* What becomes of a list that gets a member.
LEMMA AddFacts ==
  ASSUME Ranges, Distinct, NEW u \in Users, u \notin Members, Add(u)
  PROVE  /\ count' = count + 1 /\ cells' \in Seq(Users)
         /\ count' \in 0..Len(cells') /\ Len(cells) <= Len(cells')
         /\ \A i \in 1..Len(cells) : i # count + 1 => cells'[i] = cells[i]
         /\ cells'[count + 1] = u
         /\ Distinct' /\ Members' = Members \cup {u}
<1>0. /\ cells \in Seq(Users) /\ Len(cells) \in Nat /\ count \in Nat /\ count <= Len(cells)
      /\ \A i \in 1..Len(cells) : cells[i] \in Users
  BY ListRanges
<1>1. /\ count' = count + 1 /\ cells' \in Seq(Users) /\ count' <= Len(cells')
      /\ Len(cells) <= Len(cells') /\ Len(cells') \in Nat
      /\ \A i \in 1..Len(cells) : i # count + 1 => cells'[i] = cells[i]
      /\ cells'[count + 1] = u
  <2>1. CASE count < Len(cells) /\ cells' = [cells EXCEPT ![count + 1] = u]
    <3>1. count + 1 \in 1..Len(cells)
      BY <1>0, <2>1
    <3>2. cells' \in Seq(Users) /\ Len(cells') = Len(cells)
      BY <1>0, <2>1, <3>1
    <3>3. count' = count + 1
      BY DEF Add
    <3>4. cells'[count + 1] = u /\ \A i \in 1..Len(cells) : i # count + 1 => cells'[i] = cells[i]
      BY <1>0, <2>1, <3>1
    <3> QED
      BY <1>0, <2>1, <3>1, <3>2, <3>3, <3>4
  <2>2. CASE count = Len(cells) /\ cells' = Append(cells, u)
    BY <1>0, <2>2, AppendFacts DEF Add
  <2> QED
    BY <2>1, <2>2 DEF Add
<1>2. \A i \in 1..count : cells'[i] = cells[i] /\ cells[i] # u
  BY <1>0, <1>1 DEF Members
<1>3. \A i \in 1..count' : i \in 1..count \/ i = count + 1
  BY <1>0, <1>1
<1>4. 1..count \subseteq 1..count' /\ count + 1 \in 1..count'
  BY <1>0, <1>1
<1>5. Members' = Members \cup {u}
  <2>1. ASSUME NEW x \in Members' PROVE x \in Members \cup {u}
    BY <1>1, <1>2, <1>3 DEF Members
  <2>2. ASSUME NEW x \in Members PROVE x \in Members'
    BY <1>2, <1>4 DEF Members
  <2>3. u \in Members'
    BY <1>1, <1>4 DEF Members
  <2> QED
    BY <2>1, <2>2, <2>3
<1>6. Distinct'
  <2>1. SUFFICES ASSUME NEW i \in 1..count', NEW j \in 1..count', cells'[i] = cells'[j]
                 PROVE  i = j
    BY DEF Distinct
  <2> QED
    BY <2>1, <1>1, <1>2, <1>3 DEF Distinct
<1> QED
  BY <1>0, <1>1, <1>5, <1>6

\* An array whose beginning is overwritten: the new beginning, then the old rest.
LEMMA Spliced ==
  ASSUME NEW S, NEW s \in Seq(S), NEW c \in Seq(S), Len(s) <= Len(c),
         NEW r, r = s \o SubSeq(c, Len(s) + 1, Len(c))
  PROVE  /\ r \in Seq(S) /\ Len(r) = Len(c)
         /\ \A i \in 1..Len(s) : r[i] = s[i]
         /\ \A i \in 1..Len(c) : i > Len(s) => r[i] = c[i]
<1> DEFINE t == SubSeq(c, Len(s) + 1, Len(c))
<1>0. Len(s) \in Nat /\ Len(c) \in Nat
  OBVIOUS
<1>1. t \in Seq(S) /\ Len(t) = Len(c) - Len(s)
  BY <1>0
<1>2. \A i \in 1..Len(t) : t[i] = c[Len(s) + i]
  BY <1>0, <1>1
<1>6. r = s \o t
  OBVIOUS
<1> HIDE DEF t
<1>3. r \in Seq(S) /\ Len(r) = Len(s) + Len(t)
  BY <1>1, <1>6
<1>4. \A i \in 1..Len(s) : r[i] = s[i]
  BY <1>0, <1>1, <1>3, <1>6
<1>5. ASSUME NEW i \in 1..Len(c), i > Len(s) PROVE r[i] = c[i]
  <2>1. i - Len(s) \in 1..Len(t) /\ Len(s) + (i - Len(s)) = i
    BY <1>0, <1>1, <1>5
  <2>2. r[i] = t[i - Len(s)]
    BY <1>0, <1>1, <1>3, <1>5, <1>6, <2>1
  <2> QED
    BY <2>1, <2>2, <1>2
<1> QED
  BY <1>0, <1>1, <1>3, <1>4, <1>5

\* What becomes of a list that loses one, or keeps all it has.
LEMMA RemoveFacts ==
  ASSUME Ranges, Distinct, NEW u \in Users, RemoveMember(u), entry
  PROVE  /\ cells' \in Seq(Users) /\ count' \in 0..Len(cells')
         /\ Len(cells') = Len(cells)
         /\ \A i \in 1..Len(cells) : i > count' => cells'[i] = cells[i]
         /\ u \notin Members => cells' = cells /\ count' = count
         /\ Distinct' /\ Members' = Members \ {u}
<1>0. /\ cells \in Seq(Users) /\ Len(cells) \in Nat /\ count \in Nat /\ count <= Len(cells)
      /\ count \in 0..Len(cells)
  BY ListRanges
<1> DEFINE s == Keep(u)
<1>1. IsKept(s, count, u) /\ KeptOnce(s)
  BY <1>0, KeepFacts
<1>2. count' = Len(s) /\ cells' = s \o SubSeq(cells, Len(s) + 1, Len(cells))
  BY DEF RemoveMember
<1> HIDE DEF s
<1>3. s \in Seq(Users) /\ Len(s) \in Nat /\ Len(s) <= count /\ Len(s) <= Len(cells)
  BY <1>0, <1>1 DEF IsKept
<1>4. /\ cells' \in Seq(Users) /\ Len(cells') = Len(cells)
      /\ \A i \in 1..count' : cells'[i] = s[i]
      /\ \A i \in 1..Len(cells) : i > count' => cells'[i] = cells[i]
  BY <1>0, <1>2, <1>3, Spliced
<1>5. Distinct'
  BY <1>1, <1>2, <1>4 DEF Distinct, KeptOnce
<1>6. Members' = Members \ {u}
  <2>1. Members' = {cells'[i] : i \in 1..count'}
    BY DEF Members
  <2>2. ASSUME NEW x \in Members' PROVE x \in Members \ {u}
    BY <2>1, <2>2, <1>1, <1>2, <1>4 DEF Members, IsKept
  <2>3. ASSUME NEW x \in Members \ {u} PROVE x \in Members'
    BY <2>1, <2>3, <1>1, <1>2, <1>4 DEF Members, IsKept
  <2> QED
    BY <2>2, <2>3
<1>7. ASSUME u \notin Members PROVE cells' = cells /\ count' = count
  <2>1. \A j \in 1..count : cells[j] # u
    BY <1>7 DEF Members
  <2>2. Len(s) = count /\ \A j \in 1..count : s[j] = cells[j]
    BY <2>1, <1>1 DEF IsKept
  <2>3. \A i \in 1..Len(cells) : cells'[i] = cells[i]
    <3>1. ASSUME NEW i \in 1..Len(cells) PROVE cells'[i] = cells[i]
      <4>1. i \in 1..count' \/ i > count'
        BY <1>0, <1>2, <1>3
      <4> QED
        BY <4>1, <1>2, <1>4, <2>2
    <3> QED
      BY <3>1
  <2>4. count' = count
    BY <1>2, <2>2
  <2>5. cells' = cells
    BY <1>0, <1>4, <2>3, SeqEqual
  <2> QED
    BY <2>4, <2>5
<1> QED
  BY <1>0, <1>2, <1>3, <1>4, <1>5, <1>6, <1>7

-----------------------------------------------------------------------------
(* Lemmas: a change of the store under a request *)

\* How the store's list changes under a request: to another array, or in
\* place, where a cell is only overwritten with a member, and where without a
\* removal the members keep their cells.
Moves(moved, removed) ==
  /\ Seen(moved, removed)
  /\ ~moved => /\ Len(cells) <= Len(cells')
               /\ \A i \in 1..Len(cells) :
                    cells'[i] = cells[i] \/ (entry' /\ i \in 1..count')
  /\ ~moved /\ ~removed => /\ count <= count'
                           /\ \A i \in 1..count : cells'[i] = cells[i]

\* The user of the request is in after the step.
InNow == entry' /\ \/ owner' = req.user
                   \/ \E i \in 1..count' : cells'[i] = req.user

\* What a request under way notes of a change of the store.
LEMMA SeenFields ==
  ASSUME Ranges, NEW moved \in BOOLEAN, NEW removed \in BOOLEAN, Seen(moved, removed), Scanning
  PROVE  /\ req'.user = req.user /\ req'.at = req.at /\ req'.length = req.length
         /\ req'.answer = req.answer
         /\ req'.wasIn = (req.wasIn \/ InNow) /\ req'.wasOut = (req.wasOut \/ ~InNow)
         /\ req'.removal = (req.removal \/ removed)
         /\ req'.copy = IF moved /\ req.copy = <<>> THEN cells ELSE req.copy
         /\ req' \in Requests
<1>1. req \in Requests /\ cells \in Seq(Users)
  BY DEF Ranges, Requests
<1>2. req' = [req EXCEPT !.wasIn = @ \/ InNow, !.wasOut = @ \/ ~InNow,
                         !.removal = @ \/ removed,
                         !.copy = IF moved /\ @ = <<>> THEN cells ELSE @]
  BY DEF Seen, InNow
<1> DEFINE in == InNow
<1>3. in \in BOOLEAN
  BY DEF InNow
<1>4. req' = [req EXCEPT !.wasIn = @ \/ in, !.wasOut = @ \/ ~in,
                         !.removal = @ \/ removed,
                         !.copy = IF moved /\ @ = <<>> THEN cells ELSE @]
  BY <1>2
<1> HIDE DEF in
<1>5. /\ req'.user = req.user /\ req'.at = req.at /\ req'.length = req.length
      /\ req'.answer = req.answer
      /\ req'.wasIn = (req.wasIn \/ in) /\ req'.wasOut = (req.wasOut \/ ~in)
      /\ req'.removal = (req.removal \/ removed)
      /\ req'.copy = IF moved /\ req.copy = <<>> THEN cells ELSE req.copy
  BY <1>1, <1>4 DEF Requests
<1>6. req' \in Requests
  BY <1>1, <1>3, <1>4 DEF Requests
<1> QED
  BY <1>5, <1>6 DEF in

\* A change of the store that moves nobody but under a removal leaves the scan of
\* a request sound, and its answer.
LEMMA ScanMoves ==
  ASSUME IInv, cells' \in Seq(Users), count' \in 0..Len(cells'),
         NEW moved \in BOOLEAN, NEW removed \in BOOLEAN, Moves(moved, removed)
  PROVE  Scan' /\ AnswerIsCurrent' /\ req' \in Requests
<1>0. /\ cells \in Seq(Users) /\ Len(cells) \in Nat /\ count \in Nat /\ count <= Len(cells)
      /\ cells' \in Seq(Users) /\ Len(cells') \in Nat /\ count' \in Nat
      /\ req \in Requests
  BY ListRanges DEF IInv, Ranges, Requests
<1>1. CASE ~Scanning
  <2>1. req' = req /\ ~Scanning'
    BY <1>1 DEF Moves, Seen, Scanning
  <2> QED
    BY <2>1, <1>0 DEF Scan, AnswerIsCurrent, IInv
<1>2. CASE Scanning
  <2>1. /\ req'.user = req.user /\ req'.at = req.at /\ req'.length = req.length
        /\ req'.answer = req.answer /\ req' \in Requests
        /\ req'.wasIn = (req.wasIn \/ InNow) /\ req'.wasOut = (req.wasOut \/ ~InNow)
        /\ req'.removal = (req.removal \/ removed)
        /\ req'.copy = IF moved /\ req.copy = <<>> THEN cells ELSE req.copy
    BY <1>2, SeenFields DEF Moves, IInv
  <2>2. Scanning' /\ AnswerIsCurrent'
    BY <2>1, <1>2 DEF Scanning, AnswerIsCurrent
  <2>3. /\ req.at \in Nat /\ req.length \in Nat /\ req.copy \in Seq(Users)
        /\ req.wasIn \in BOOLEAN /\ req.wasOut \in BOOLEAN /\ req.removal \in BOOLEAN
    BY <1>0 DEF Requests
  <2>4. /\ req.at # 0 /\ req.length <= Len(Read)
        /\ \A i \in 1..req.length : Read[i] = req.user => req.wasIn
        /\ ~req.wasOut /\ ~req.removal =>
             Ahead /\ (req.copy = <<>> => req.length <= count)
    BY <1>2 DEF Scan, IInv
  \* The array that is read, before and after.
  <2>5. Read \in Seq(Users) /\ Len(Read) \in Nat
    BY <1>0, <2>3 DEF Read
  <2>6. Read' = IF req'.copy = <<>> THEN cells' ELSE req'.copy
    BY DEF Read
  <2>7. CASE req.copy # <<>> \/ (moved /\ cells # <<>>)
    <3>1. Read' = Read /\ req'.copy # <<>>
      BY <2>7, <2>1, <2>6 DEF Read
    <3>2. Ahead' <=> Ahead
      BY <3>1, <2>1 DEF Ahead
    <3>3. /\ req'.at # 0 /\ req'.length <= Len(Read')
          /\ \A i \in 1..req'.length : Read'[i] = req'.user => req'.wasIn
      BY <3>1, <2>1, <2>4
    <3>4. ~req'.wasOut /\ ~req'.removal => Ahead' /\ (req'.copy = <<>> => req'.length <= count')
      BY <3>1, <3>2, <2>1, <2>3, <2>4
    <3> QED
      BY <3>3, <3>4, <2>1, <2>2 DEF Scan
  <2>8. CASE req.copy = <<>> /\ moved /\ cells = <<>>
    <3>1. Read = <<>> /\ Len(Read) = 0 /\ req.length = 0
      BY <2>8, <2>3, <2>4 DEF Read
    <3>2. ~Ahead
      BY <3>1, <2>3, <2>4 DEF Ahead
    <3>3. req'.wasOut \/ req'.removal
      BY <3>2, <2>1, <2>3, <2>4
    <3>4. Read' \in Seq(Users)
      BY <1>0, <2>1, <2>6 DEF Requests
    <3>5. /\ req'.at # 0 /\ req'.length <= Len(Read')
          /\ \A i \in 1..req'.length : Read'[i] = req'.user => req'.wasIn
      BY <3>1, <3>4, <2>1, <2>4
    <3> QED
      BY <3>3, <3>5, <2>1, <2>2 DEF Scan
  <2>9. CASE req.copy = <<>> /\ ~moved
    <3>1. Read = cells /\ Read' = cells' /\ req'.copy = <<>>
      BY <2>9, <2>1, <2>6 DEF Read
    <3>2. /\ Len(cells) <= Len(cells')
          /\ \A i \in 1..Len(cells) :
               cells'[i] = cells[i] \/ (entry' /\ i \in 1..count')
      BY <2>9 DEF Moves
    <3>3. req'.at # 0 /\ req'.length <= Len(Read')
      BY <3>1, <3>2, <2>1, <2>3, <2>4, <1>0
    <3>4. ASSUME NEW i \in 1..req'.length, Read'[i] = req'.user PROVE req'.wasIn
      <4>1. i \in 1..Len(cells) /\ i \in 1..req.length
        BY <3>1, <2>1, <2>3, <2>4, <1>0
      <4>2. CASE cells'[i] = cells[i]
        BY <4>1, <4>2, <3>1, <3>4, <2>1, <2>4
      <4>3. CASE entry' /\ i \in 1..count'
        <5>1. InNow
          BY <4>3, <3>1, <3>4, <2>1 DEF InNow
        <5> QED
          BY <5>1, <2>1
      <4> QED
        BY <4>1, <4>2, <4>3, <3>2
    <3>5. ASSUME ~req'.wasOut, ~req'.removal
          PROVE  Ahead' /\ (req'.copy = <<>> => req'.length <= count')
      <4>1. ~req.wasOut /\ ~req.removal /\ ~removed
        BY <3>5, <2>1, <2>3
      <4>2. Ahead /\ req.length <= count
        BY <4>1, <2>4, <2>9
      <4>3. count <= count' /\ \A i \in 1..count : cells'[i] = cells[i]
        BY <4>1, <2>9 DEF Moves
      <4>4. PICK p \in req.at..req.length : Read[p] = req.user
        BY <4>2 DEF Ahead
      <4>5. p \in 1..count
        BY <4>2, <4>4, <2>3, <2>4, <1>0
      <4>6. p \in req'.at..req'.length /\ Read'[p] = req'.user
        BY <4>3, <4>4, <4>5, <3>1, <2>1
      <4> QED
        BY <4>2, <4>3, <4>6, <2>1, <2>3, <1>0 DEF Ahead
    <3> QED
      BY <3>3, <3>4, <3>5, <2>1, <2>2 DEF Scan
  <2> QED
    BY <2>7, <2>8, <2>9, <2>1
<1> QED
  BY <1>1, <1>2

-----------------------------------------------------------------------------
(* Lemmas: what each operation of the store preserves *)

\* The part of the invariant about the store and the request.
StoreInv ==
  /\ entry \in BOOLEAN /\ owner \in Users \cup {Nobody} /\ age \in 0..Grace
  /\ cells \in Seq(Users) /\ count \in 0..Len(cells) /\ req \in Requests
  /\ Distinct /\ NoEntry /\ Scan /\ AnswerIsCurrent

\* The part about what was promised; and no operation of the store brings an
\* entry to the grace.
Promised ==
  /\ made \in Users \cup {Nobody} /\ granted \subseteq Users /\ LastingAccess
  /\ exposed => made = Nobody /\ granted = {}
Older == entry /\ age = Grace

\* The parts of the invariant about the store hold.
LEMMA StoreNow ==
  ASSUME IInv
  PROVE  StoreInv /\ Promised /\ Ranges
BY DEF IInv, Ranges, StoreInv, Promised, Exposure, Requests

\* A step that leaves the store and the request alone keeps them.
LEMMA StoreKept ==
  ASSUME IInv, UNCHANGED <<storeVars, req>>
  PROVE  StoreInv'
<1>1. StoreInv
  BY StoreNow
<1>2. /\ entry' = entry /\ owner' = owner /\ age' = age /\ cells' = cells /\ count' = count
      /\ req' = req
  BY DEF storeVars
<1> QED
  BY <1>1, <1>2
  DEF StoreInv, Distinct, NoEntry, Scan, Scanning, Read, Ahead, AnswerIsCurrent

\* A step that leaves the list and the promises alone keeps the promises.
LEMMA PromisedKept ==
  ASSUME IInv, UNCHANGED <<owner, cells, count, promiseVars, exposed>>
  PROVE  Promised'
<1>1. Promised
  BY StoreNow
<1>2. /\ owner' = owner /\ cells' = cells /\ count' = count /\ exposed' = exposed
      /\ made' = made /\ granted' = granted
  BY DEF promiseVars
<1> QED
  BY <1>1, <1>2 DEF Promised, LastingAccess, Members

\* The list is as it was, under a request that may see another owner.
LEMMA ListKept ==
  ASSUME IInv, UNCHANGED <<cells, count>>, entry' = TRUE, owner' \in Users \cup {Nobody},
         age' \in 0..Grace, Seen(FALSE, FALSE)
  PROVE  StoreInv'
<1>0. /\ cells \in Seq(Users) /\ Len(cells) \in Nat /\ count \in Nat /\ count <= Len(cells)
      /\ count \in 0..Len(cells) /\ Distinct
  BY ListRanges DEF IInv
<1>1. cells' = cells /\ count' = count
  OBVIOUS
<1>2. Moves(FALSE, FALSE)
  <2>1. Len(cells) <= Len(cells') /\ \A i \in 1..Len(cells) : cells'[i] = cells[i]
    BY <1>0, <1>1
  <2>2. count <= count' /\ \A i \in 1..count : cells'[i] = cells[i]
    BY <1>0, <1>1
  <2> QED
    BY <2>1, <2>2, Zenon DEF Moves
<1>3. Scan' /\ AnswerIsCurrent' /\ req' \in Requests
  BY <1>0, <1>1, <1>2, ScanMoves
<1>4. Distinct' /\ NoEntry'
  BY <1>0, <1>1 DEF Distinct, NoEntry
<1> QED
  BY <1>0, <1>1, <1>3, <1>4 DEF StoreInv

\* An entry that is made, or found, is no older than before.
LEMMA AgeRange ==
  ASSUME IInv, age' = IF entry THEN age ELSE 0
  PROVE  age' \in 0..Grace /\ (Older' => Older)
BY AccessAssumption DEF IInv, Ranges, Older

\* SetOwner keeps the parts about the store; it makes no entry older.
LEMMA SetOwnerKeeps ==
  ASSUME IInv, NEW u \in Users \cup {Nobody}, SetOwner(u), exposed' = exposed
  PROVE  StoreInv' /\ Promised' /\ (Older' => Older)
<1>0. Promised /\ cells' = cells /\ count' = count /\ owner' = u /\ entry' = TRUE
  BY StoreNow DEF SetOwner
<1>1. age' \in 0..Grace /\ (Older' => Older)
  BY AgeRange DEF SetOwner
<1>2. StoreInv'
  BY <1>0, <1>1, ListKept DEF SetOwner
<1>3. Members' = Members
  BY <1>0 DEF Members
<1>4. Promised'
  <2>1. CASE exposed
    <3>1. made' = made /\ granted' = granted
      BY <2>1 DEF SetOwner, Promise, promiseVars
    <3> QED
      BY <2>1, <3>1, <1>0 DEF Promised, LastingAccess
  <2>2. CASE ~exposed
    <3>1. made' = u /\ granted' = granted
      BY <2>2 DEF SetOwner, Promise
    <3> QED
      BY <2>2, <3>1, <1>0, <1>3 DEF Promised, LastingAccess
  <2> QED
    BY <2>1, <2>2
<1> QED
  BY <1>1, <1>2, <1>4

\* AddMember keeps the parts about the store, in place or in a new array.
LEMMA AddMemberKeeps ==
  ASSUME IInv, NEW u \in Users, AddMember(u), exposed' = exposed
  PROVE  StoreInv' /\ Promised' /\ (Older' => Older)
<1>0. /\ StoreInv /\ Promised /\ Ranges /\ Distinct /\ owner' = owner /\ entry' = TRUE
      /\ owner' \in Users \cup {Nobody}
  BY StoreNow DEF AddMember, StoreInv
<1>1. age' \in 0..Grace /\ (Older' => Older)
  BY AgeRange DEF AddMember
<1>2. CASE u \in Members \cup {owner}
  <2>1. UNCHANGED <<cells, count, promiseVars>> /\ Seen(FALSE, FALSE)
    BY <1>2 DEF AddMember
  <2>2. StoreInv'
    BY <1>0, <1>1, <2>1, ListKept
  <2>3. Promised'
    BY <1>0, <2>1, PromisedKept
  <2> QED
    BY <1>1, <2>2, <2>3
<1>3. CASE u \notin Members \cup {owner}
  <2>1. Add(u) /\ u \notin Members
    BY <1>3 DEF AddMember
  <2>2. /\ count' = count + 1 /\ cells' \in Seq(Users)
        /\ count' \in 0..Len(cells') /\ Len(cells) <= Len(cells')
        /\ \A i \in 1..Len(cells) : i # count + 1 => cells'[i] = cells[i]
        /\ cells'[count + 1] = u
        /\ Distinct' /\ Members' = Members \cup {u}
    BY <1>0, <2>1, AddFacts
  <2>3. count \in Nat /\ count <= Len(cells) /\ Len(cells) \in Nat
    BY <1>0, ListRanges
  <2>4. PICK moved \in BOOLEAN : Seen(moved, FALSE)
    BY <2>1 DEF Add
  <2>5. Moves(moved, FALSE)
    <3>1. \A i \in 1..Len(cells) : cells'[i] = cells[i] \/ (entry' /\ i \in 1..count')
      BY <2>2, <2>3, <1>0
    <3>2. count <= count' /\ \A i \in 1..count : cells'[i] = cells[i]
      BY <2>2, <2>3
    <3> QED
      BY <2>2, <2>4, <3>1, <3>2 DEF Moves
  <2>6. Scan' /\ AnswerIsCurrent' /\ req' \in Requests
    BY <2>2, <2>5, ScanMoves
  <2>7. StoreInv'
    BY <1>0, <1>1, <2>2, <2>6 DEF StoreInv, NoEntry
  <2>8. Promised'
    <3>1. CASE exposed
      <4>1. made' = made /\ granted' = granted
        BY <3>1, <2>1 DEF Add, Promise, promiseVars
      <4> QED
        BY <3>1, <4>1, <1>0 DEF Promised, LastingAccess
    <3>2. CASE ~exposed
      <4>1. made' = made /\ granted' = granted \cup {u}
        BY <3>2, <2>1 DEF Add, Promise
      <4> QED
        BY <3>2, <4>1, <1>0, <2>2 DEF Promised, LastingAccess
    <3> QED
      BY <3>1, <3>2
  <2> QED
    BY <1>1, <2>7, <2>8
<1> QED
  BY <1>2, <1>3

\* RemoveMember keeps the parts about the store, under a scan of its array too.
LEMMA RemoveMemberKeeps ==
  ASSUME IInv, NEW u \in Users, RemoveMember(u), exposed' = exposed
  PROVE  StoreInv' /\ Promised' /\ (Older' => Older)
<1>0. StoreInv /\ Promised /\ Ranges /\ Distinct /\ entry \in BOOLEAN
  BY StoreNow DEF StoreInv
<1>1. CASE ~entry
  <2>1. UNCHANGED <<storeVars, promiseVars, req>>
    BY <1>1 DEF RemoveMember
  <2>2. StoreInv' /\ Promised'
    BY <2>1, StoreKept, PromisedKept DEF storeVars
  <2> QED
    BY <2>1, <2>2 DEF storeVars, Older
<1>2. CASE entry
  <2>1. /\ cells' \in Seq(Users) /\ count' \in 0..Len(cells')
        /\ Len(cells') = Len(cells)
        /\ \A i \in 1..Len(cells) : i > count' => cells'[i] = cells[i]
        /\ u \notin Members => cells' = cells /\ count' = count
        /\ Distinct' /\ Members' = Members \ {u}
    BY <1>0, <1>2, RemoveFacts
  <2>2. entry' = entry /\ owner' = owner /\ age' = age /\ Seen(FALSE, u \in Members)
    BY <1>2 DEF RemoveMember
  <2>3. count \in Nat /\ count <= Len(cells) /\ Len(cells) \in Nat /\ count' \in Nat
    BY <1>0, <2>1, ListRanges
  <2>4. Moves(FALSE, u \in Members)
    <3>1. \A i \in 1..Len(cells) : cells'[i] = cells[i] \/ (entry' /\ i \in 1..count')
      BY <2>1, <2>2, <2>3, <1>2
    <3>2. u \notin Members => count <= count' /\ \A i \in 1..count : cells'[i] = cells[i]
      BY <2>1, <2>3
    <3> QED
      <4>1. Len(cells) <= Len(cells')
        BY <2>1, <2>3
      <4> QED
        BY <2>2, <3>1, <3>2, <4>1, Zenon DEF Moves
  <2>5. Scan' /\ AnswerIsCurrent' /\ req' \in Requests
    <3>1. (u \in Members) \in BOOLEAN
      OBVIOUS
    <3> QED
      BY <3>1, <2>1, <2>4, ScanMoves
  <2>6. StoreInv'
    BY <1>0, <1>2, <2>1, <2>2, <2>5 DEF StoreInv, NoEntry
  <2>7. Promised'
    <3>1. CASE exposed
      <4>1. made' = made /\ granted' = granted
        BY <3>1, <1>2 DEF RemoveMember, Promise, promiseVars
      <4> QED
        BY <3>1, <4>1, <1>0 DEF Promised, LastingAccess
    <3>2. CASE ~exposed
      <4>1. made' = made /\ granted' = granted \ {u}
        BY <3>2, <1>2 DEF RemoveMember, Promise
      <4> QED
        BY <3>2, <4>1, <1>0, <2>1, <2>2 DEF Promised, LastingAccess
    <3> QED
      BY <3>1, <3>2
  <2> QED
    BY <2>2, <2>6, <2>7 DEF Older
<1> QED
  BY <1>0, <1>1, <1>2

\* Delete keeps the parts about the store: a scan goes on in its copy.
LEMMA DeleteKeeps ==
  ASSUME IInv, Delete
  PROVE  StoreInv' /\ ~Older'
<1>1. /\ entry' = FALSE /\ owner' = Nobody /\ age' = 0 /\ cells' = <<>> /\ count' = 0
      /\ Seen(TRUE, FALSE)
  BY DEF Delete
<1>2. cells' \in Seq(Users) /\ count' \in 0..Len(cells')
  BY <1>1
<1>3. Moves(TRUE, FALSE)
  BY <1>1 DEF Moves
<1>4. Scan' /\ AnswerIsCurrent' /\ req' \in Requests
  BY <1>2, <1>3, ScanMoves
<1>5. Distinct' /\ NoEntry'
  BY <1>1 DEF Distinct, NoEntry
<1>6. age' \in 0..Grace
  BY <1>1, AccessAssumption
<1> QED
  BY <1>1, <1>2, <1>4, <1>5, <1>6 DEF StoreInv, Older

-----------------------------------------------------------------------------
(* Lemmas: every step preserves the invariant *)

HandlerRanges ==
  /\ record \in BOOLEAN /\ exposed \in BOOLEAN
  /\ launch \in {"new", "owned", "started", "failed", "announced"}
  /\ reg \in {"none", "saved"} \X (Users \cup {Nobody})
  /\ gone \in 0..Grace
  /\ listing \in {"none", "live", "missing"}
  /\ change \in {NoChange} \cup ({"add", "remove"} \X Users)
StaleIsExposed == Older /\ (~record \/ listing = "missing") => exposed

\* The invariant, taken apart by what the handlers disturb.
LEMMA Apart ==
  ASSUME IInv
  PROVE  StoreInv /\ Promised /\ HandlerRanges /\ StaleIsExposed
BY StoreNow DEF IInv, Ranges, HandlerRanges, Exposure, StaleIsExposed, Older

\* The invariant, put together from these parts.
LEMMA Together ==
  ASSUME StoreInv', Promised', HandlerRanges', StaleIsExposed'
  PROVE  IInv'
BY DEF IInv, Ranges, StoreInv, Promised, HandlerRanges, Exposure, StaleIsExposed, Older, Requests

\* No entry, no handler, no promise.
LEMMA InitHolds ==
  Init => IInv
<1> SUFFICES ASSUME Init PROVE IInv
  OBVIOUS
<1>1. /\ record = FALSE /\ launch = "new" /\ reg = NoOwner
      /\ entry = FALSE /\ owner = Nobody /\ age = 0
      /\ cells = <<>> /\ count = 0 /\ listing = "none" /\ change = NoChange
      /\ req = Idle /\ made = Nobody /\ granted = {} /\ gone = 0 /\ exposed = FALSE
  BY DEF Init
<1>2. Ranges
  <2>1. reg \in {"none", "saved"} \X (Users \cup {Nobody})
    BY <1>1 DEF NoOwner
  <2>2. cells \in Seq(Users) /\ count \in 0..Len(cells)
    BY <1>1
  <2>3. req \in Requests
    BY <1>1 DEF Requests, Idle, Answer
  <2>4. age \in 0..Grace /\ gone \in 0..Grace
    BY <1>1, AccessAssumption
  <2> QED
    BY <1>1, <2>1, <2>2, <2>3, <2>4 DEF Ranges, Requests
<1>3. Distinct /\ NoEntry /\ Exposure /\ LastingAccess
  BY <1>1 DEF Distinct, NoEntry, Exposure, LastingAccess
<1>4. req.user = Nobody /\ req.answer = "none"
  BY <1>1 DEF Idle
<1>5. ~Scanning
  BY <1>4 DEF Scanning
<1>6. Scan /\ AnswerIsCurrent
  BY <1>4, <1>5 DEF Scan, AnswerIsCurrent
<1> QED
  BY <1>2, <1>3, <1>6 DEF IInv

\* A request that copies the list finds in it who was in at that moment.
LEMMA RequestStartKeeps ==
  ASSUME IInv, NEW u \in Users, RequestStart(u)
  PROVE  StoreInv'
<1>0. StoreInv /\ u # Nobody
  BY StoreNow, AccessAssumption
<1>1. /\ entry' = entry /\ owner' = owner /\ age' = age /\ cells' = cells /\ count' = count
  BY DEF RequestStart, storeVars
<1>2. /\ cells \in Seq(Users) /\ count \in Nat /\ Len(cells) \in Nat /\ count <= Len(cells)
      /\ entry \in BOOLEAN
  BY <1>0 DEF StoreInv
<1> DEFINE in == Allowed(u)
           first == IF owner = u THEN "in" ELSE "none"
<1>3. in \in BOOLEAN /\ first \in {"in", "none"} /\ (first = "in" <=> owner = u)
  <2>1. CASE entry
    BY <2>1 DEF Allowed
  <2>2. CASE ~entry
    BY <2>2 DEF Allowed
  <2>3. first \in {"in", "none"} /\ (first = "in" <=> owner = u)
    OBVIOUS
  <2>4. in \in BOOLEAN
    BY DEF Allowed
  <2> QED
    BY <2>3, <2>4
<1>4. req' = [Idle EXCEPT !.user = u, !.at = 1, !.length = count,
                          !.answer = first, !.wasIn = in, !.wasOut = ~in]
  BY DEF RequestStart
<1>5. owner = u => in
  BY <1>0 DEF StoreInv, NoEntry, Allowed
<1>6. in /\ owner # u => \E p \in 1..count : cells[p] = u
  BY DEF Allowed, Members
<1>7. \A i \in 1..count : cells[i] = u => in
  <2>1. SUFFICES ASSUME NEW i \in 1..count, cells[i] = u PROVE in
    OBVIOUS
  <2>2. entry
    BY <2>1, <1>0 DEF StoreInv, NoEntry
  <2> QED
    BY <2>1, <2>2 DEF Allowed, Members
<1> HIDE DEF in, first
<1>8. /\ req'.user = u /\ req'.at = 1 /\ req'.length = count /\ req'.copy = <<>>
      /\ req'.answer = first /\ req'.wasIn = in /\ req'.wasOut = ~in /\ req'.removal = FALSE
  BY <1>4 DEF Idle
<1>9. req' \in Requests
  <2>1. req' = [user |-> u, at |-> 1, length |-> count, copy |-> <<>>, answer |-> first,
                wasIn |-> in, wasOut |-> ~in, removal |-> FALSE]
    BY <1>4 DEF Idle
  <2>2. /\ u \in Users \cup {Nobody} /\ 1 \in Nat /\ <<>> \in Seq(Users) /\ first \in Answer
        /\ FALSE \in BOOLEAN
    BY <1>3 DEF Answer
  <2>3. (~in) \in BOOLEAN
    BY <1>3
  <2> QED
    BY <2>1, <2>2, <2>3, <1>2, <1>3 DEF Requests
<1>10. Read' = cells
  BY <1>8, <1>1 DEF Read
<1>11. AnswerIsCurrent'
  BY <1>3, <1>5, <1>8 DEF AnswerIsCurrent
<1>12. Scan'
  <2>1. SUFFICES ASSUME Scanning' PROVE
          /\ req'.at # 0 /\ req'.length <= Len(Read')
          /\ \A i \in 1..req'.length : Read'[i] = req'.user => req'.wasIn
          /\ ~req'.wasOut /\ ~req'.removal =>
               Ahead' /\ (req'.copy = <<>> => req'.length <= count')
    BY DEF Scan
  <2>2. owner # u
    BY <2>1, <1>3, <1>8 DEF Scanning
  <2>3. /\ req'.at # 0 /\ req'.length <= Len(Read')
        /\ \A i \in 1..req'.length : Read'[i] = req'.user => req'.wasIn
    BY <1>2, <1>7, <1>8, <1>10
  <2>4. ~req'.wasOut => Ahead' /\ req'.length <= count'
    <3>1. SUFFICES ASSUME ~req'.wasOut PROVE Ahead' /\ req'.length <= count'
      OBVIOUS
    <3>2. in
      BY <3>1, <1>3, <1>8
    <3>3. PICK p \in 1..count : cells[p] = u
      BY <3>2, <2>2, <1>6
    <3>4. p \in req'.at..req'.length /\ Read'[p] = req'.user
      BY <3>3, <1>8, <1>10
    <3>5. Ahead'
      BY <3>4 DEF Ahead
    <3> QED
      BY <3>5, <1>1, <1>2, <1>8
  <2> QED
    BY <2>3, <2>4
<1> QED
  BY <1>0, <1>1, <1>9, <1>11, <1>12 DEF StoreInv, Distinct, NoEntry

\* A step of the scan looks at one user and leaves the others ahead.
LEMMA RequestScanKeeps ==
  ASSUME IInv, RequestScan
  PROVE  StoreInv'
<1>0. StoreInv
  BY StoreNow
<1>1. /\ entry' = entry /\ owner' = owner /\ age' = age /\ cells' = cells /\ count' = count
  BY DEF RequestScan, storeVars
<1>2. req \in Requests /\ Scanning /\ req.answer = "none"
  BY <1>0 DEF StoreInv, RequestScan, Scanning
<1>3. /\ req.at # 0 /\ req.length <= Len(Read)
      /\ \A i \in 1..req.length : Read[i] = req.user => req.wasIn
      /\ ~req.wasOut /\ ~req.removal =>
           Ahead /\ (req.copy = <<>> => req.length <= count)
  BY <1>0, <1>2 DEF StoreInv, Scan
<1>4. req.at \in Nat /\ req.length \in Nat /\ req.wasOut \in BOOLEAN /\ req.removal \in BOOLEAN
  BY <1>2 DEF Requests
<1>5. \/ req.at > req.length /\ req' = [req EXCEPT !.answer = "out"]
      \/ req.at <= req.length /\ Read[req.at] = req.user /\ req' = [req EXCEPT !.answer = "in"]
      \/ /\ req.at <= req.length /\ Read[req.at] # req.user
         /\ req' = [req EXCEPT !.at = req.at + 1]
  BY <1>4 DEF RequestScan, Read
<1>6. ASSUME NEW a \in {"in", "out"}, req' = [req EXCEPT !.answer = a],
             a = "in" => req.wasIn, a = "out" => req.wasOut \/ req.removal
      PROVE  StoreInv'
  <2>1. /\ req'.answer = a /\ req'.wasIn = req.wasIn /\ req'.wasOut = req.wasOut
        /\ req'.removal = req.removal /\ req' \in Requests
    BY <1>2, <1>6 DEF Requests, Answer
  <2>2. ~Scanning' /\ AnswerIsCurrent'
    BY <2>1, <1>6 DEF Scanning, AnswerIsCurrent
  <2> QED
    BY <1>0, <1>1, <2>1, <2>2 DEF StoreInv, Distinct, NoEntry, Scan
<1>7. CASE req.at > req.length /\ req' = [req EXCEPT !.answer = "out"]
  <2>1. ~Ahead
    BY <1>4, <1>7 DEF Ahead
  <2>2. req.wasOut \/ req.removal
    BY <2>1, <1>3
  <2> QED
    BY <2>2, <1>6, <1>7
<1>8. CASE /\ req.at <= req.length /\ Read[req.at] = req.user
           /\ req' = [req EXCEPT !.answer = "in"]
  <2>1. req.wasIn
    BY <1>3, <1>4, <1>8
  <2> QED
    BY <2>1, <1>6, <1>8
<1>9. CASE /\ req.at <= req.length /\ Read[req.at] # req.user
           /\ req' = [req EXCEPT !.at = req.at + 1]
  <2>1. /\ req'.user = req.user /\ req'.at = req.at + 1 /\ req'.length = req.length
        /\ req'.copy = req.copy /\ req'.answer = req.answer /\ req'.wasIn = req.wasIn
        /\ req'.wasOut = req.wasOut /\ req'.removal = req.removal
        /\ req' \in Requests
    BY <1>2, <1>4, <1>9 DEF Requests
  <2>2. Read' = Read /\ Scanning' /\ AnswerIsCurrent'
    BY <2>1, <1>0, <1>1, <1>2 DEF Read, Scanning, AnswerIsCurrent, StoreInv
  <2>3. Ahead => Ahead'
    <3>1. SUFFICES ASSUME NEW p \in req.at..req.length, Read[p] = req.user PROVE Ahead'
      BY DEF Ahead
    <3>2. p # req.at
      BY <1>9, <3>1
    <3>3. p \in (req.at + 1)..req.length
      BY <3>2, <1>4
    <3> QED
      BY <3>1, <3>3, <2>1, <2>2 DEF Ahead
  <2>4. Scan'
    BY <2>1, <2>2, <2>3, <1>1, <1>3, <1>4 DEF Scan
  <2> QED
    BY <1>0, <1>1, <2>1, <2>2, <2>4 DEF StoreInv, Distinct, NoEntry
<1> QED
  BY <1>5, <1>7, <1>8, <1>9

\* A request that returns leaves no scan behind.
LEMMA RequestDoneKeeps ==
  ASSUME IInv, RequestDone
  PROVE  StoreInv'
<1>0. StoreInv
  BY StoreNow
<1>1. /\ entry' = entry /\ owner' = owner /\ age' = age /\ cells' = cells /\ count' = count
      /\ req' = Idle
  BY DEF RequestDone, storeVars
<1>2. req'.user = Nobody /\ req'.answer = "none" /\ req' \in Requests
  BY <1>1 DEF Idle, Requests, Answer
<1>3. Scan' /\ AnswerIsCurrent'
  BY <1>2 DEF Scan, Scanning, AnswerIsCurrent
<1> QED
  BY <1>0, <1>1, <1>2, <1>3 DEF StoreInv, Distinct, NoEntry

\* What is left when a step touches the request only.
LEMMA RestKept ==
  ASSUME IInv, UNCHANGED <<record, storeVars, handlerVars, promiseVars, pastVars>>
  PROVE  Promised' /\ HandlerRanges' /\ StaleIsExposed'
<1>1. Promised /\ HandlerRanges /\ StaleIsExposed
  BY Apart
<1>2. /\ record' = record /\ launch' = launch /\ reg' = reg /\ listing' = listing
      /\ change' = change /\ gone' = gone /\ exposed' = exposed
      /\ entry' = entry /\ age' = age
      /\ UNCHANGED <<owner, cells, count, promiseVars, exposed>>
  BY DEF storeVars, handlerVars, pastVars
<1>3. Promised'
  BY <1>2, PromisedKept
<1> QED
  BY <1>1, <1>2, <1>3 DEF HandlerRanges, StaleIsExposed, Older

\* The inductive invariant is inductive.
LEMMA StepKeeps ==
  ASSUME IInv, [Next]_vars
  PROVE  IInv'
<1>0. StoreInv /\ Promised /\ HandlerRanges /\ StaleIsExposed
  BY Apart
<1>a. Grace \in Nat /\ Grace # 0 /\ 0 \in 0..Grace
  BY AccessAssumption
<1>1. ASSUME NEW u \in Users \cup {Nobody}, Create(u) PROVE IInv'
  <2>1. /\ launch' = "owned" /\ record' = record /\ reg' = reg /\ listing' = listing
        /\ change' = change /\ gone' = gone /\ exposed' = exposed
    BY <1>1 DEF Create, pastVars
  <2>2. HandlerRanges'
    BY <2>1, <1>0 DEF HandlerRanges
  <2>3. StoreInv' /\ Promised' /\ (Older' => Older)
    <3>1. CASE u # Nobody
      BY <3>1, <1>1, <2>1, SetOwnerKeeps DEF Create
    <3>2. CASE u = Nobody
      <4>1. UNCHANGED <<storeVars, promiseVars, req>>
        BY <3>2, <1>1 DEF Create
      <4> QED
        BY <4>1, <2>1, StoreKept, PromisedKept DEF storeVars, Older
    <3> QED
      BY <3>1, <3>2
  <2>4. StaleIsExposed'
    BY <2>1, <2>3, <1>0 DEF StaleIsExposed
  <2> QED
    BY <2>2, <2>3, <2>4, Together
<1>2. ASSUME NEW u \in Users \cup {Nobody}, RegisterSave(u) PROVE IInv'
  <2>1. /\ launch' = "announced" /\ record' = TRUE /\ listing' = listing
        /\ change' = change /\ gone' = (IF gone = Grace THEN gone ELSE 0) /\ exposed' = exposed
        /\ reg' = (IF u # Nobody THEN <<"saved", u>> ELSE reg)
        /\ UNCHANGED <<storeVars, req>> /\ UNCHANGED promiseVars
    BY <1>2 DEF RegisterSave
  <2>2. HandlerRanges'
    BY <2>1, <1>0, <1>a DEF HandlerRanges
  <2>3. StoreInv' /\ Promised' /\ (Older' => Older)
    BY <2>1, StoreKept, PromisedKept DEF storeVars, Older
  <2>4. StaleIsExposed'
    BY <2>1, <2>3, <1>0 DEF StaleIsExposed
  <2> QED
    BY <2>2, <2>3, <2>4, Together
<1>3. CASE Launched
  <2>1. /\ launch' = "started" /\ record' = TRUE /\ reg' = reg /\ listing' = listing
        /\ change' = change /\ gone' = gone /\ exposed' = exposed
        /\ UNCHANGED <<storeVars, req>> /\ UNCHANGED promiseVars
    BY <1>3 DEF Launched, pastVars
  <2>2. HandlerRanges'
    BY <2>1, <1>0 DEF HandlerRanges
  <2>3. StoreInv' /\ Promised' /\ (Older' => Older)
    BY <2>1, StoreKept, PromisedKept DEF storeVars, Older
  <2>4. StaleIsExposed'
    BY <2>1, <2>3, <1>0 DEF StaleIsExposed
  <2> QED
    BY <2>2, <2>3, <2>4, Together
<1>4. CASE LaunchFails
  <2>1. /\ launch' = "failed" /\ record' = record /\ reg' = reg /\ listing' = listing
        /\ change' = change /\ gone' = gone /\ exposed' = exposed
        /\ made' = Nobody /\ granted' = {} /\ Delete
    BY <1>4 DEF LaunchFails, NoPromise, pastVars
  <2>2. HandlerRanges'
    BY <2>1, <1>0 DEF HandlerRanges
  <2>3. StoreInv' /\ ~Older'
    BY <2>1, DeleteKeeps
  <2>4. Promised' /\ StaleIsExposed'
    BY <2>1, <2>3 DEF Promised, LastingAccess, StaleIsExposed
  <2> QED
    BY <2>2, <2>3, <2>4, Together
<1>5. CASE RegisterOwn
  <2>1. /\ launch' = launch /\ record' = record /\ reg' = NoOwner /\ listing' = listing
        /\ change' = change /\ gone' = gone /\ exposed' = exposed
        /\ SetOwner(reg[2])
    BY <1>5 DEF RegisterOwn, pastVars
  <2>2. reg[2] \in Users \cup {Nobody} /\ NoOwner \in {"none", "saved"} \X (Users \cup {Nobody})
    BY <1>0 DEF HandlerRanges, NoOwner
  <2>3. HandlerRanges'
    BY <2>1, <2>2, <1>0 DEF HandlerRanges
  <2>4. StoreInv' /\ Promised' /\ (Older' => Older)
    BY <2>1, <2>2, SetOwnerKeeps
  <2>5. StaleIsExposed'
    BY <2>1, <2>4, <1>0 DEF StaleIsExposed
  <2> QED
    BY <2>3, <2>4, <2>5, Together
<1>6. CASE RecordGoes
  <2>1. /\ record' = FALSE /\ UNCHANGED <<storeVars, req>> /\ UNCHANGED handlerVars
        /\ gone' = gone /\ Expose(Older)
    BY <1>6 DEF RecordGoes, Older
  <2>2. /\ launch' = launch /\ reg' = reg /\ listing' = listing /\ change' = change
        /\ entry' = entry /\ owner' = owner /\ age' = age /\ cells' = cells /\ count' = count
    BY <2>1 DEF handlerVars, storeVars
  <2>3. StoreInv' /\ (Older' <=> Older)
    BY <2>1, <2>2, StoreKept DEF Older
  <2>4. CASE Older
    <3>1. exposed' = TRUE /\ made' = Nobody /\ granted' = {}
      BY <2>1, <2>4 DEF Expose, NoPromise
    <3>2. Promised' /\ StaleIsExposed' /\ HandlerRanges'
      BY <3>1, <2>1, <2>2, <1>0 DEF Promised, LastingAccess, StaleIsExposed, HandlerRanges
    <3> QED
      BY <3>2, <2>3, Together
  <2>5. CASE ~Older
    <3>1. exposed' = exposed /\ UNCHANGED promiseVars
      BY <2>1, <2>5 DEF Expose
    <3>2. Promised'
      BY <3>1, <2>2, PromisedKept
    <3>3. StaleIsExposed' /\ HandlerRanges'
      BY <3>1, <2>1, <2>2, <2>3, <2>5, <1>0 DEF StaleIsExposed, HandlerRanges
    <3> QED
      BY <3>2, <3>3, <2>3, Together
  <2> QED
    BY <2>4, <2>5
<1>7. ASSUME NEW u \in Users, RequestStart(u) PROVE IInv'
  <2>1. StoreInv'
    BY <1>7, RequestStartKeeps
  <2>2. UNCHANGED <<record, storeVars, handlerVars, promiseVars, pastVars>>
    BY <1>7 DEF RequestStart
  <2> QED
    BY <2>1, <2>2, RestKept, Together
<1>8. ASSUME NEW u \in Users, NEW op \in {"add", "remove"}, ChangeCheck(op, u) PROVE IInv'
  <2>1. /\ launch' = launch /\ record' = record /\ reg' = reg /\ listing' = listing
        /\ change' = <<op, u>> /\ gone' = gone /\ exposed' = exposed
        /\ UNCHANGED <<storeVars, req>> /\ UNCHANGED promiseVars
    BY <1>8 DEF ChangeCheck, pastVars
  <2>2. change' \in {"add", "remove"} \X Users
    BY <2>1
  <2>3. HandlerRanges'
    BY <2>1, <2>2, <1>0 DEF HandlerRanges
  <2>4. StoreInv' /\ Promised' /\ (Older' => Older)
    BY <2>1, StoreKept, PromisedKept DEF storeVars, Older
  <2>5. StaleIsExposed'
    BY <2>1, <2>4, <1>0 DEF StaleIsExposed
  <2> QED
    BY <2>3, <2>4, <2>5, Together
<1>9. CASE ChangeApply
  <2>1. /\ launch' = launch /\ record' = record /\ reg' = reg /\ listing' = listing
        /\ change' = NoChange /\ gone' = gone /\ exposed' = exposed
        /\ change # NoChange
        /\ IF change[1] = "add" THEN AddMember(change[2]) ELSE RemoveMember(change[2])
    BY <1>9 DEF ChangeApply, pastVars
  <2>2. change[2] \in Users
    BY <2>1, <1>0 DEF HandlerRanges
  <2>3. HandlerRanges'
    BY <2>1, <1>0 DEF HandlerRanges
  <2>4. StoreInv' /\ Promised' /\ (Older' => Older)
    BY <2>1, <2>2, AddMemberKeeps, RemoveMemberKeeps
  <2>5. StaleIsExposed'
    BY <2>1, <2>4, <1>0 DEF StaleIsExposed
  <2> QED
    BY <2>3, <2>4, <2>5, Together
<1>10. CASE ListLive
  <2>1. /\ launch' = launch /\ record' = record /\ reg' = reg
        /\ listing' = (IF record THEN "live" ELSE "missing")
        /\ change' = change /\ gone' = gone /\ exposed' = exposed
        /\ UNCHANGED <<storeVars, req>> /\ UNCHANGED promiseVars
    BY <1>10 DEF ListLive, pastVars
  <2>2. HandlerRanges'
    BY <2>1, <1>0 DEF HandlerRanges
  <2>3. StoreInv' /\ Promised' /\ (Older' => Older)
    BY <2>1, StoreKept, PromisedKept DEF storeVars, Older
  <2>4. StaleIsExposed'
    BY <2>1, <2>3, <1>0 DEF StaleIsExposed, HandlerRanges
  <2> QED
    BY <2>2, <2>3, <2>4, Together
<1>11. CASE Prune
  <2>1. /\ launch' = launch /\ record' = record /\ reg' = reg /\ listing' = "none"
        /\ change' = change /\ UNCHANGED promiseVars
    BY <1>11 DEF Prune
  <2>2. CASE Orphan
    <3>1. Delete /\ gone' = 0 /\ exposed' = FALSE
      BY <2>2, <1>11 DEF Prune
    <3>2. exposed
      BY <2>2, <1>0 DEF Orphan, StaleIsExposed, Older
    <3>3. made' = Nobody /\ granted' = {}
      BY <3>2, <2>1, <1>0 DEF Promised, promiseVars
    <3>4. StoreInv' /\ ~Older'
      BY <3>1, DeleteKeeps
    <3>5. Promised' /\ StaleIsExposed'
      BY <3>3, <3>4 DEF Promised, LastingAccess, StaleIsExposed
    <3>6. HandlerRanges'
      <4>1. exposed' \in BOOLEAN /\ gone' \in 0..Grace /\ listing' \in {"none", "live", "missing"}
        BY <2>1, <3>1, <1>a
      <4> QED
        BY <2>1, <4>1, <1>0 DEF HandlerRanges
    <3> QED
      BY <3>4, <3>5, <3>6, Together
  <2>3. CASE ~Orphan
    <3>1. UNCHANGED <<storeVars, req>> /\ gone' = gone /\ exposed' = exposed
      BY <2>3, <1>11 DEF Prune, pastVars
    <3>2. StoreInv' /\ Promised' /\ (Older' => Older)
      BY <3>1, <2>1, StoreKept, PromisedKept DEF storeVars, Older
    <3>3. HandlerRanges' /\ StaleIsExposed'
      BY <2>1, <3>1, <3>2, <1>0 DEF HandlerRanges, StaleIsExposed
    <3> QED
      BY <3>2, <3>3, Together
  <2> QED
    BY <2>2, <2>3
<1>12. CASE RequestScan
  <2>1. StoreInv'
    BY <1>12, RequestScanKeeps
  <2>2. UNCHANGED <<record, storeVars, handlerVars, promiseVars, pastVars>>
    BY <1>12 DEF RequestScan
  <2> QED
    BY <2>1, <2>2, RestKept, Together
<1>13. CASE RequestDone
  <2>1. StoreInv'
    BY <1>13, RequestDoneKeeps
  <2>2. UNCHANGED <<record, storeVars, handlerVars, promiseVars, pastVars>>
    BY <1>13 DEF RequestDone
  <2> QED
    BY <2>1, <2>2, RestKept, Together
<1>14. CASE Tick
  <2>1. /\ record' = record /\ entry' = entry /\ owner' = owner /\ cells' = cells
        /\ count' = count /\ UNCHANGED handlerVars /\ req' = req
        /\ Expose(~record /\ entry /\ age' = Grace)
        /\ age' = (IF entry /\ age < Grace THEN age + 1 ELSE age)
        /\ gone' = (IF ~record /\ entry /\ gone < Grace THEN gone + 1 ELSE gone)
    BY <1>14 DEF Tick
  <2>2. launch' = launch /\ reg' = reg /\ listing' = listing /\ change' = change
    BY <2>1 DEF handlerVars
  <2>3. listing = "none"
    <3>1. "list" \notin Busy
      BY <1>14 DEF Tick
    <3> QED
      BY <3>1 DEF Busy
  <2>4. age' \in 0..Grace /\ gone' \in 0..Grace
    BY <2>1, <1>0, <1>a DEF StoreInv, HandlerRanges
  <2>5. StoreInv'
    BY <2>1, <2>4, <1>0
    DEF StoreInv, Distinct, NoEntry, Scan, Scanning, Read, Ahead, AnswerIsCurrent
  <2>6. CASE ~record /\ entry /\ age' = Grace
    <3>1. exposed' = TRUE /\ made' = Nobody /\ granted' = {}
      BY <2>1, <2>6 DEF Expose, NoPromise
    <3>2. Promised' /\ StaleIsExposed' /\ HandlerRanges'
      BY <3>1, <2>1, <2>2, <2>4, <1>0 DEF Promised, LastingAccess, StaleIsExposed, HandlerRanges
    <3> QED
      BY <3>2, <2>5, Together
  <2>7. CASE ~(~record /\ entry /\ age' = Grace)
    <3>1. exposed' = exposed /\ UNCHANGED promiseVars
      BY <2>1, <2>7 DEF Expose
    <3>2. Promised'
      BY <3>1, <2>1, PromisedKept
    <3>3. StaleIsExposed'
      BY <2>1, <2>2, <2>3, <2>7 DEF StaleIsExposed, Older
    <3>4. HandlerRanges'
      BY <3>1, <2>1, <2>2, <2>4, <1>0 DEF HandlerRanges
    <3> QED
      BY <3>2, <3>3, <3>4, <2>5, Together
  <2> QED
    BY <2>6, <2>7
<1>15. CASE UNCHANGED vars
  <2>1. /\ UNCHANGED <<storeVars, req>>
        /\ UNCHANGED <<record, storeVars, handlerVars, promiseVars, pastVars>>
    BY <1>15 DEF vars
  <2> QED
    BY <2>1, StoreKept, RestKept, Together
<1> QED
  BY <1>1, <1>2, <1>3, <1>4, <1>5, <1>6, <1>7, <1>8, <1>9, <1>10, <1>11, <1>12, <1>13,
     <1>14, <1>15 DEF Next

-----------------------------------------------------------------------------
(* Theorems *)

\* Every reachable state satisfies the inductive invariant.
THEOREM SpecIInv ==
  Spec => []IInv
<1>1. Init => IInv
  BY InitHolds
<1>2. IInv /\ [Next]_vars => IInv'
  BY StepKeeps
<1> QED
  BY <1>1, <1>2, PTL DEF Spec

\* A list without repetition has as many members as places.
LEMMA MembersCounted ==
  ASSUME Ranges, Distinct
  PROVE  Cardinality(Members) = count
<1>0. count \in Nat
  BY ListRanges
<1> DEFINE f == [i \in 1..count |-> cells[i]]
<1>1. f \in Bijection(1..count, Members)
  BY DEF Members, Distinct, Bijection, Injection, Surjection, IsInjective
<1>2. ExistsBijection(1..count, Members)
  BY <1>1 DEF ExistsBijection
<1>3. IsFiniteSet(1..count) /\ Cardinality(1..count) = count
  BY <1>0, FS_Interval
<1> QED
  BY <1>2, <1>3, FS_Bijection

\* Every variable stays in its range, and nobody is in the member list twice:
\* not by a second add that raced the first, nor by what a removal leaves
\* behind the list (AddMember, RemoveMember).
THEOREM SpecTypeOK ==
  Spec => []TypeOK
<1>1. IInv => TypeOK
  BY MembersCounted DEF IInv, TypeOK
<1> QED
  BY <1>1, SpecIInv, PTL

\* The owner last recorded and the members added and not removed keep their
\* access through launches, suspensions and listings that read the live set
\* before it changed, unless the session was missing with an entry older than
\* the grace (users.go, Prune).
THEOREM SpecLastingAccess ==
  Spec => []LastingAccess
<1>1. IInv => LastingAccess
  BY DEF IInv
<1> QED
  BY <1>1, SpecIInv, PTL

\* A request that scans the member list while the store writes to the same
\* array lets nobody in who was not in while it ran, and turns nobody away who
\* was in all along unless a member was removed meanwhile (ACL, Allows).
THEOREM SpecAnswerIsCurrent ==
  Spec => []AnswerIsCurrent
<1>1. IInv => AnswerIsCurrent
  BY DEF IInv
<1> QED
  BY <1>1, SpecIInv, PTL
=============================================================================
