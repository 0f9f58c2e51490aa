---------------------------- MODULE MsgFifoProofs ----------------------------
(***************************************************************************)
(* The ring of MsgQueue is the queue of MsgFifo, for every number of slots, *)
(* growth, window, thread and message.  The places that are alive, in       *)
(* order, are the queue; what a step does to the ring is a map that keeps   *)
(* the order, from the places afterwards to the places before, and what the *)
(* map misses is what the step takes out of the queue.                      *)
(***************************************************************************)
EXTENDS MsgQueueProofs, SequenceTheorems

-----------------------------------------------------------------------------
(* Subsequences.                                                           *)

\* e lists the n integers of K in order.
Lists(e, n, K) ==
  /\ K \subseteq Int /\ n \in Nat /\ e \in [1 .. n -> K]
  /\ \A r, t \in 1 .. n : r < t => e[r] < e[t]
  /\ \A i \in K : \E r \in 1 .. n : e[r] = i

\* The order of the list is the order of the integers.
LEMMA ListOrders ==
  ASSUME NEW n, NEW K, NEW e, Lists(e, n, K),
         NEW r \in 1 .. n, NEW t \in 1 .. n
  PROVE  /\ e[r] < e[t] => r < t
         /\ e[r] = e[t] => r = t
  <1>1. e[r] \in Int /\ e[t] \in Int /\ r \in Int /\ t \in Int
    <2>1. e[r] \in K /\ e[t] \in K /\ \A i \in K : i \in Int
      BY DEF Lists
    <2>2. QED BY <2>1
  <1>2. (r < t => e[r] < e[t]) /\ (t < r => e[t] < e[r])
    BY DEF Lists
  <1>3. QED BY <1>1, <1>2

\* There are as many integers as the list is long.
LEMMA ListCounts ==
  ASSUME NEW n, NEW K, NEW e, Lists(e, n, K)
  PROVE  IsFiniteSet(K) /\ Cardinality(K) = n
  <1>1. n \in Nat /\ e \in [1 .. n -> K]
    BY DEF Lists
  <1>2. \A r, t \in 1 .. n : e[r] = e[t] => r = t
    BY ListOrders
  <1>3. \A i \in K : \E r \in 1 .. n : e[r] = i
    BY DEF Lists
  <1>4. e \in Bijection(1 .. n, K)
    BY <1>1, <1>2, <1>3 DEF Bijection, Injection, Surjection, IsInjective
  <1>5. IsFiniteSet(1 .. n) /\ Cardinality(1 .. n) = n
    <2>1. 1 \in Int /\ n \in Int
      BY <1>1
    <2>2. QED BY <1>1, <2>1, FS_Interval
  <1>6. ExistsBijection(1 .. n, K)
    BY <1>4 DEF ExistsBijection
  <1>7. QED BY <1>5, <1>6, FS_Bijection

\* And the list up to one of them lists those that are less.
LEMMA ListRanks ==
  ASSUME NEW n, NEW K, NEW e, Lists(e, n, K), NEW r \in 1 .. n
  PROVE  Cardinality({j \in K : j < e[r]}) = r - 1
  <1> DEFINE B == {j \in K : j < e[r]}
             b == [t \in 1 .. r - 1 |-> e[t]]
  <1>1. n \in Nat /\ r \in Nat /\ r - 1 \in Nat /\ \A t \in 1 .. r - 1 : t \in 1 .. n
    BY DEF Lists
  <1>2. \A t \in 1 .. r - 1 : e[t] \in B
    BY <1>1 DEF Lists
  <1>3. ASSUME NEW j \in B PROVE \E t \in 1 .. r - 1 : e[t] = j
    <2>1. PICK t \in 1 .. n : e[t] = j
      BY DEF Lists
    <2>2. t < r
      BY <2>1, ListOrders
    <2>3. QED BY <1>1, <2>1, <2>2
  <1> HIDE DEF B
  <1>4. Lists(b, r - 1, B)
    <2>1. B \subseteq Int
      BY DEF B, Lists
    <2>2. \A t, u \in 1 .. r - 1 : t < u => e[t] < e[u]
      BY <1>1 DEF Lists
    <2>3. QED BY <1>1, <1>2, <1>3, <2>1, <2>2 DEF Lists
  <1> HIDE DEF b
  <1>5. QED BY <1>4, ListCounts DEF B

\* So the list gives the elements Nth picks.
LEMMA ListIsNth ==
  ASSUME NEW n, NEW K, NEW e, Lists(e, n, K), NEW r \in 1 .. n
  PROVE  Nth(K, r) = e[r]
  <1>1. e[r] \in K /\ Cardinality({j \in K : j < e[r]}) = r - 1
    <2>1. e[r] \in K
      BY DEF Lists
    <2>2. QED BY <2>1, ListRanks
  <1>2. ASSUME NEW i \in K, Cardinality({j \in K : j < i}) = r - 1
        PROVE  i = e[r]
    <2>1. PICK t \in 1 .. n : e[t] = i
      BY DEF Lists
    <2>2. t - 1 = r - 1
      BY <1>2, <2>1, ListRanks
    <2>3. QED BY <2>1, <2>2
  <1>3. QED BY <1>1, <1>2 DEF Nth

\* What Part selects, by a list of the places.
LEMMA PartIs ==
  ASSUME NEW n, NEW K, NEW e, Lists(e, n, K), NEW s
  PROVE  Part(s, K) = [r \in 1 .. n |-> s[e[r]]]
  BY ListCounts, ListIsNth DEF Part

\* To select all is to change nothing.
LEMMA PartAll ==
  ASSUME NEW n \in Nat, NEW s
  PROVE  Part(s, 1 .. n) = [r \in 1 .. n |-> s[r]]
  <1> DEFINE K == 1 .. n
             e == [r \in 1 .. n |-> r]
  <1>1. Lists(e, n, K)
    BY DEF Lists
  <1>2. \A r \in 1 .. n : e[r] = r
    OBVIOUS
  <1> HIDE DEF e, K
  <1>3. Part(s, K) = [r \in 1 .. n |-> s[e[r]]]
    BY <1>1, PartIs
  <1>4. QED BY <1>2, <1>3 DEF K

\* A map that keeps the order carries the places L2 of s2 to places of s, and
\* what it misses of L is all that s2 lacks.
LEMMA PartOfPart ==
  ASSUME NEW n, NEW L, NEW e, Lists(e, n, L),
         NEW n2, NEW L2, NEW e2, Lists(e2, n2, L2),
         NEW place, NEW s, NEW s2,
         \A i \in L2 : place[i] \in L /\ s2[i] = s[place[i]],
         \A i, j \in L2 : i < j => place[i] < place[j]
  PROVE  Part(s2, L2) =
           Part(Part(s, L), {r \in 1 .. n : \E i \in L2 : place[i] = e[r]})
  <1> DEFINE R == {r \in 1 .. n : \E i \in L2 : place[i] = e[r]}
             q == [r \in 1 .. n |-> s[e[r]]]
             At(t) == CHOOSE r \in 1 .. n : e[r] = place[e2[t]]
             at == [t \in 1 .. n2 |-> At(t)]
  <1>1. \A t \in 1 .. n2 : e2[t] \in L2 /\ place[e2[t]] \in L
    BY DEF Lists
  <1>2. \A t \in 1 .. n2 : at[t] \in 1 .. n /\ e[at[t]] = place[e2[t]]
    <2>1. TAKE t \in 1 .. n2
    <2>2. \E r \in 1 .. n : e[r] = place[e2[t]]
      BY <1>1 DEF Lists
    <2>3. QED BY <2>2
  <1> HIDE DEF at
  <1>3. \A t \in 1 .. n2 : at[t] \in R
    BY <1>1, <1>2
  <1>4. ASSUME NEW t \in 1 .. n2, NEW u \in 1 .. n2, t < u
        PROVE  at[t] < at[u]
    <2>1. e2[t] < e2[u]
      BY <1>4 DEF Lists
    <2>2. place[e2[t]] < place[e2[u]]
      BY <1>1, <2>1
    <2>3. e[at[t]] < e[at[u]]
      BY <1>2, <2>2
    <2>4. QED BY <1>2, <2>3, ListOrders
  <1>5. ASSUME NEW r \in R PROVE \E t \in 1 .. n2 : at[t] = r
    <2>1. PICK i \in L2 : place[i] = e[r]
      OBVIOUS
    <2>2. PICK t \in 1 .. n2 : e2[t] = i
      BY DEF Lists
    <2>3. r \in 1 .. n /\ e[at[t]] = e[r]
      BY <1>2, <2>1, <2>2
    <2>4. QED BY <1>2, <2>3, ListOrders
  <1>6. R \subseteq Int /\ n2 \in Nat
    BY DEF Lists
  <1>7. at \in [1 .. n2 -> R]
    BY <1>3 DEF at
  <1>8. Lists(at, n2, R)
    BY <1>4, <1>5, <1>6, <1>7 DEF Lists
  <1>9. Part(s, L) = q /\ Part(s2, L2) = [t \in 1 .. n2 |-> s2[e2[t]]]
    BY PartIs
  <1> HIDE DEF R, q
  <1>10. Part(q, R) = [t \in 1 .. n2 |-> q[at[t]]]
    BY <1>8, PartIs
  <1>11. ASSUME NEW t \in 1 .. n2 PROVE q[at[t]] = s2[e2[t]]
    <2>1. q[at[t]] = s[e[at[t]]]
      BY <1>2 DEF q
    <2>2. QED BY <1>1, <1>2, <2>1
  <1>12. Part(s2, L2) = Part(q, R)
    BY <1>9, <1>10, <1>11
  <1>13. QED BY <1>9, <1>12 DEF R

\* Every finite set of places has its list.
LEMMA SetLists ==
  ASSUME NEW n \in Nat, NEW K \in SUBSET (0 .. n - 1)
  PROVE  Lists([r \in 1 .. Cardinality(K) |-> Nth(K, r)], Cardinality(K), K)
  <1> DEFINE Rank(i) == Cardinality({j \in K : j < i})
             e == [r \in 1 .. Cardinality(K) |-> Nth(K, r)]
  <1>1. /\ \A i \in K : Rank(i) \in 0 .. Cardinality(K) - 1
        /\ \A i, j \in K : i < j => Rank(i) < Rank(j)
        /\ \A r \in 0 .. Cardinality(K) - 1 : \E i \in K : Rank(i) = r
    BY RankOrders
  <1>2. \A r : Nth(K, r) = CHOOSE i \in K : Rank(i) = r - 1
    BY DEF Nth
  <1>3. Cardinality(K) \in Nat /\ K \subseteq Int
    BY KeptFew
  <1> HIDE DEF Rank
  <1>4. \A r \in 1 .. Cardinality(K) : e[r] \in K /\ Rank(e[r]) = r - 1
    <2>1. TAKE r \in 1 .. Cardinality(K)
    <2>2. r - 1 \in 0 .. Cardinality(K) - 1
      BY <1>3
    <2>3. PICK i \in K : Rank(i) = r - 1
      BY <1>1, <2>2
    <2>4. e[r] = CHOOSE j \in K : Rank(j) = r - 1
      BY <1>2
    <2>5. QED BY <2>3, <2>4
  <1>5. e \in [1 .. Cardinality(K) -> K]
    BY <1>4
  <1> HIDE DEF e
  <1>6. \A i \in K : i \in Int /\ Rank(i) \in Int
    BY <1>1, <1>3
  <1>7. \A i, j \in K : Rank(i) = Rank(j) => i = j
    <2>1. TAKE i, j \in K
    <2>2. (i < j => Rank(i) < Rank(j)) /\ (j < i => Rank(j) < Rank(i))
      BY <1>1
    <2>3. QED BY <1>6, <2>2
  <1>8. ASSUME NEW r \in 1 .. Cardinality(K), NEW t \in 1 .. Cardinality(K), r < t
        PROVE  e[r] < e[t]
    <2>1. e[r] \in K /\ e[t] \in K /\ Rank(e[r]) = r - 1 /\ Rank(e[t]) = t - 1
      BY <1>4
    <2>2. ~ (t - 1 < r - 1) /\ t - 1 # r - 1
      BY <1>3, <1>8
    <2>3. e[t] < e[r] => Rank(e[t]) < Rank(e[r])
      BY <1>1, <2>1
    <2>4. e[r] # e[t] /\ ~ (e[t] < e[r])
      BY <2>1, <2>2, <2>3
    <2>5. e[r] \in Int /\ e[t] \in Int
      BY <1>6, <2>1
    <2>6. QED BY <2>4, <2>5
  <1>9. ASSUME NEW i \in K PROVE \E r \in 1 .. Cardinality(K) : e[r] = i
    <2>1. Rank(i) + 1 \in 1 .. Cardinality(K) /\ (Rank(i) + 1) - 1 = Rank(i)
      BY <1>1, <1>3
    <2>2. e[Rank(i) + 1] \in K /\ Rank(e[Rank(i) + 1]) = Rank(i)
      BY <1>4, <2>1
    <2>3. QED BY <1>7, <2>1, <2>2
  <1>10. Lists(e, Cardinality(K), K)
    BY <1>3, <1>5, <1>8, <1>9 DEF Lists
  <1>11. QED BY <1>10 DEF e

-----------------------------------------------------------------------------
(* The queue in the ring.                                                  *)

Queue == Part(Contents, Live)
Length == Cardinality(Live)
Order == [r \in 1 .. Length |-> Nth(Live, r)]

LEMMA LiveLists ==
  /\ RingType => Lists(Order, Length, Live)
  /\ RingType' => Lists(Order', Length', Live')
  <1>1. RingType => count \in Nat
    BY DEF RingType
  <1>2. RingType' => count' \in Nat
    BY DEF RingType
  <1>3. Live \in SUBSET (0 .. count - 1) /\ Live' \in SUBSET (0 .. count' - 1)
    BY DEF Live
  <1> HIDE DEF Live
  <1>4. RingType => Lists(Order, Length, Live)
    BY <1>1, <1>3, SetLists DEF Order, Length
  <1>5. Order' = [r \in 1 .. Cardinality(Live') |-> Nth(Live', r)]
    BY DEF Order, Length, Nth
  <1>6. RingType' => Lists(Order', Length', Live')
    <2>1. Length' = Cardinality(Live')
      BY DEF Length
    <2>2. RingType' => Lists([r \in 1 .. Cardinality(Live') |-> Nth(Live', r)],
                             Cardinality(Live'), Live')
      BY <1>2, <1>3, SetLists
    <2>3. QED BY <1>5, <2>1, <2>2
  <1>7. QED BY <1>4, <1>6

LEMMA QueueIs ==
  ASSUME RingType
  PROVE  /\ Length \in Nat
         /\ DOMAIN Queue = 1 .. Length
         /\ \A r \in 1 .. Length : Order[r] \in Live /\ Queue[r] = Item(Order[r])
         /\ Queue = [r \in 1 .. Length |-> Queue[r]]
  <1>1. Lists(Order, Length, Live)
    BY LiveLists
  <1>2. Queue = [r \in 1 .. Length |-> Contents[Order[r]]]
    BY <1>1, PartIs DEF Queue
  <1>3. Length \in Nat /\ \A r \in 1 .. Length : Order[r] \in Live
    BY <1>1 DEF Lists
  <1>4. \A i \in Live : Contents[i] = Item(i)
    BY DEF Contents, Live
  <1>5. QED BY <1>2, <1>3, <1>4

LEMMA LiveMessages ==
  ASSUME RingType, NEW i \in Live PROVE Item(i) \in Message
  <1>1. Item(i) \in Slot /\ Item(i).hwnd # Invalid
    <2>1. i \in 0 .. size - 1
      BY DEF Live, RingType
    <2>2. QED BY <2>1, PosFits DEF Live, IsDead
  <1>2. QED BY <1>1 DEF Slot, Message

\* A step that keeps the messages of M, in their order, selects them.
LEMMA Selected ==
  ASSUME RingType, RingType', NEW M \in SUBSET Live, NEW place,
         \A i \in Live' : place[i] \in M /\ Item(i)' = Item(place[i]),
         \A i, j \in Live' : i < j => place[i] < place[j],
         \A i \in M : \E j \in Live' : place[j] = i
  PROVE  Queue' = Part(Queue, {r \in 1 .. Length : Order[r] \in M})
  <1> DEFINE R == {r \in 1 .. Length : \E i \in Live' : place[i] = Order[r]}
  <1>1. Lists(Order, Length, Live) /\ Lists(Order', Length', Live')
    BY LiveLists
  <1>2. \A i \in Live : Contents[i] = Item(i)
    BY DEF Contents, Live
  <1>3. \A i \in Live' : Contents'[i] = Item(i)'
    BY DEF Contents, Live
  <1>4. \A i \in Live' : place[i] \in Live /\ Contents'[i] = Contents[place[i]]
    BY <1>2, <1>3
  <1>5. Part(Contents', Live') = Part(Part(Contents, Live), R)
    BY <1>1, <1>4, PartOfPart
  <1>6. R = {r \in 1 .. Length : Order[r] \in M}
    OBVIOUS
  <1>7. Queue' = Part(Contents', Live')
    BY DEF Queue, Part, Nth
  <1>8. QED BY <1>5, <1>6, <1>7 DEF Queue

\* One that keeps them all leaves the queue as it is.
LEMMA SelectedAll ==
  ASSUME RingType, Queue' = Part(Queue, {r \in 1 .. Length : Order[r] \in Live})
  PROVE  Queue' = Queue
  <1>1. /\ Length \in Nat /\ Queue = [r \in 1 .. Length |-> Queue[r]]
        /\ \A r \in 1 .. Length : Order[r] \in Live
    BY QueueIs
  <1>2. {r \in 1 .. Length : Order[r] \in Live} = 1 .. Length
    BY <1>1
  <1>3. \A s : Part(s, 1 .. Length) = [r \in 1 .. Length |-> s[r]]
    BY <1>1, PartAll
  <1>4. Queue' = [r \in 1 .. Length |-> Queue[r]]
    BY <1>2, <1>3
  <1>5. QED BY <1>1, <1>4

\* A step that leaves each message where it is, and dead or alive as it was,
\* is none for the queue.
LEMMA SameQueue ==
  ASSUME RingType, UNCHANGED << ring, windows >>
  PROVE  Queue' = Queue
  <1>1. \A i : Item(i)' = Item(i)
    BY DEF ring, Item, Pos
  <1>2. count' = count /\ \A i : IsDead(Item(i))' <=> IsDead(Item(i))
    BY <1>1 DEF ring, IsDead
  <1>3. Live' = Live
    BY <1>2 DEF Live
  <1>4. Contents' = Contents
    BY <1>1, <1>2 DEF Contents
  <1>5. QED BY <1>3, <1>4 DEF Queue, Part, Nth

-----------------------------------------------------------------------------
(* Reads.                                                                  *)

\* Dead messages are not in the queue, so what a look drops of them does not
\* show; what it takes is missed.
LEMMA ReadSelects ==
  ASSUME RingOK, NEW n \in 0 .. count, NEW fRemove \in BOOLEAN,
         NEW f, NEW fCheckChild, _CheckThreadQueue(f, fRemove, fCheckChild, n),
         windows' = windows
  PROVE  Queue' = Part(Queue, {r \in 1 .. Length :
                                 Order[r] \in Live \ Took(n, fRemove)})
  <1> DEFINE Gone == {i \in 0 .. count - 1 : IsDead(Item(i))}
                       \cup Took(n, fRemove)
             M == Live \ Took(n, fRemove)
  <1>1. RingType /\ RingType'
    BY LookWhole DEF RingOK
  <1>2. Kept(Gone, Took(n, fRemove))
    BY ReadsKeepOrder
  <1>3. PICK place \in [0 .. count' - 1 -> 0 .. count - 1] :
          /\ \A r \in 0 .. count' - 1 : Item(r)' = Item(place[r])
          /\ \A r, s \in 0 .. count' - 1 : r < s => place[r] < place[s]
          /\ \A i \in (0 .. count - 1) \ Gone :
               \E r \in 0 .. count' - 1 : place[r] = i
          /\ \A r \in 0 .. count' - 1 : place[r] \notin Took(n, fRemove)
    BY <1>2 DEF Kept
  <1>4. \A r \in 0 .. count' - 1 : IsDead(Item(r))' <=> IsDead(Item(place[r]))
    BY <1>3 DEF IsDead
  <1>5. Live' = {r \in 0 .. count' - 1 : ~ IsDead(Item(r))'}
    BY DEF Live
  <1>6. \A i \in Live' : place[i] \in M /\ Item(i)' = Item(place[i])
    BY <1>3, <1>4, <1>5 DEF Live
  <1>7. \A i, j \in Live' : i < j => place[i] < place[j]
    BY <1>3, <1>5
  <1>8. ASSUME NEW i \in M PROVE \E j \in Live' : place[j] = i
    <2>1. i \in (0 .. count - 1) \ Gone /\ ~ IsDead(Item(i))
      BY DEF Live
    <2>2. PICK j \in 0 .. count' - 1 : place[j] = i
      BY <1>3, <2>1
    <2>3. QED BY <1>4, <1>5, <2>1, <2>2
  <1>9. M \in SUBSET Live
    OBVIOUS
  <1> HIDE DEF M
  <1>10. Queue' = Part(Queue, {r \in 1 .. Length : Order[r] \in M})
    BY <1>1, <1>6, <1>7, <1>8, <1>9, Selected
  <1>11. QED BY <1>10 DEF M

\* A look that removes nothing is none for the queue.
LEMMA LookLooks ==
  ASSUME RingOK, NEW n \in 0 .. count, NEW fRemove \in BOOLEAN,
         NEW f, NEW fCheckChild, _CheckThreadQueue(f, fRemove, fCheckChild, n),
         windows' = windows, ~ Removes(n, fRemove)
  PROVE  Queue' = Queue
  <1>1. Live \ Took(n, fRemove) = Live
    BY DEF Took
  <1>2. QED BY <1>1, ReadSelects, SelectedAll DEF RingOK

\* One that does takes the first that passes, and no other.
LEMMA LookTakes ==
  ASSUME RingOK, NEW n \in 0 .. count, NEW fRemove \in BOOLEAN,
         NEW f, NEW fCheckChild, _CheckThreadQueue(f, fRemove, fCheckChild, n),
         windows' = windows, Removes(n, fRemove)
  PROVE  \E i \in DOMAIN Queue :
           /\ Passes(f, fCheckChild, Queue[i]) /\ Queue[i].message # WM_PAINT
           /\ \A j \in 1 .. i - 1 : ~ Passes(f, fCheckChild, Queue[j])
           /\ Queue' = Part(Queue, DOMAIN Queue \ {i})
  <1>1. /\ n < count /\ Item(n).message # WM_PAINT
        /\ Passes(f, fCheckChild, Item(n)) /\ ~ IsDead(Item(n))
        /\ \A i \in 0 .. n - 1 :
             IsDead(Item(i)) \/ ~ Passes(f, fCheckChild, Item(i))
    BY DEF _CheckThreadQueue, IsFirst, Removes
  <1>2. n \in Live /\ Took(n, fRemove) = {n}
    BY <1>1 DEF Live, Took, RingOK, RingType
  <1>3. /\ Lists(Order, Length, Live)
        /\ DOMAIN Queue = 1 .. Length /\ Length \in Nat
        /\ \A r \in 1 .. Length : Order[r] \in Live /\ Queue[r] = Item(Order[r])
    BY LiveLists, QueueIs DEF RingOK
  <1>4. PICK i \in 1 .. Length : Order[i] = n
    BY <1>2, <1>3 DEF Lists
  <1>5. Passes(f, fCheckChild, Queue[i]) /\ Queue[i].message # WM_PAINT
    BY <1>1, <1>3, <1>4
  <1>6. ASSUME NEW j \in 1 .. i - 1 PROVE ~ Passes(f, fCheckChild, Queue[j])
    <2>1. j \in 1 .. Length /\ j < i
      BY <1>3
    <2>2. Order[j] < n
      BY <1>3, <1>4, <2>1 DEF Lists
    <2>3. Order[j] \in 0 .. n - 1 /\ ~ IsDead(Item(Order[j]))
      BY <1>3, <2>1, <2>2 DEF Live, RingOK, RingType
    <2>4. QED BY <1>1, <1>3, <2>1, <2>3
  <1>7. \A r \in 1 .. Length : Order[r] \in Live \ {n} <=> r # i
    BY <1>3, <1>4, ListOrders
  <1>8. {r \in 1 .. Length : Order[r] \in Live \ {n}} = DOMAIN Queue \ {i}
    BY <1>3, <1>7
  <1>9. Queue' = Part(Queue, DOMAIN Queue \ {i})
    BY <1>2, <1>8, ReadSelects
  <1>10. QED BY <1>3, <1>5, <1>6, <1>9

-----------------------------------------------------------------------------
(* Posts.                                                                  *)

\* A message that goes in and is not dead is the last of the queue; one of a
\* window that has died since does not show.
LEMMA InsertAppends ==
  ASSUME RingOK, NEW m \in Message, _InsertQueue(m), windows' = windows
  PROVE  Queue' = Queue \/ Queue' = Append(Queue, m)
  <1>0. PICK c \in Nat : c = count
    BY DEF RingOK, RingType
  <1> DEFINE e == [r \in 1 .. Length + 1 |-> IF r = Length + 1 THEN c
                                             ELSE Order[r]]
             id == [i \in Live' |-> i]
  <1>1. RingType /\ RingType'
    BY InsertWhole DEF RingOK
  <1>2. CASE UNCHANGED ring
    BY <1>1, <1>2, SameQueue
  <1>3. CASE /\ count' = count + 1
             /\ \A i \in 0 .. count - 1 : Item(i)' = Item(i)
             /\ \A i \in 0 .. count : i = count => Item(i)' = m
    <2>1. Item(c)' = m
      BY <1>0, <1>3
    <2>2. \A i \in 0 .. c - 1 : IsDead(Item(i))' <=> IsDead(Item(i))
      BY <1>0, <1>3 DEF IsDead
    <2>3. Live' = {i \in 0 .. c : ~ IsDead(Item(i))'}
      BY <1>0, <1>3 DEF Live
    <2>4. IsDead(Item(c))' <=> IsDead(m)
      BY <2>1 DEF IsDead
    <2>5. CASE IsDead(m)
      <3>1. Live' = Live
        BY <1>0, <2>2, <2>3, <2>4, <2>5 DEF Live
      <3>2. \A i \in Live' : id[i] \in Live /\ Item(i)' = Item(id[i])
        BY <1>3, <3>1 DEF Live
      <3>3. \A i, j \in Live' : i < j => id[i] < id[j]
        OBVIOUS
      <3>4. \A i \in Live : \E j \in Live' : id[j] = i
        BY <3>1
      <3> HIDE DEF id
      <3>5. QED BY <1>1, <3>2, <3>3, <3>4, Selected, SelectedAll
    <2>6. CASE ~ IsDead(m)
      <3>1. Live' = Live \cup {c}
        BY <1>0, <2>2, <2>3, <2>4, <2>6 DEF Live
      <3>2. /\ Lists(Order, Length, Live) /\ Length \in Nat
            /\ \A r \in 1 .. Length : Order[r] \in Live /\ Queue[r] = Item(Order[r])
            /\ Queue = [r \in 1 .. Length |-> Queue[r]]
        BY <1>1, LiveLists, QueueIs
      <3>3. \A i \in Live : i \in 0 .. c - 1
        BY <1>0 DEF Live
      <3>4. Lists(e, Length + 1, Live')
        <4>1. Live' \subseteq Int
          BY <3>1, <3>3
        <4>2. e \in [1 .. Length + 1 -> Live']
          BY <3>1, <3>2
        <4>3. \A r, t \in 1 .. Length + 1 : r < t => e[r] < e[t]
          <5>1. TAKE r, t \in 1 .. Length + 1
          <5>2. HAVE r < t
          <5>3. r \in 1 .. Length /\ e[r] = Order[r]
            BY <3>2, <5>2
          <5>4. CASE t = Length + 1
            <6>1. e[t] = c /\ Order[r] \in Live
              BY <3>2, <5>3, <5>4
            <6>2. Order[r] \in 0 .. c - 1
              BY <3>3, <6>1
            <6>3. QED BY <5>3, <6>1, <6>2
          <5>5. CASE t # Length + 1
            <6>1. t \in 1 .. Length /\ e[t] = Order[t]
              BY <3>2, <5>5
            <6>2. QED BY <3>2, <5>2, <5>3, <6>1 DEF Lists
          <5>6. QED BY <5>4, <5>5
        <4>4. ASSUME NEW i \in Live' PROVE \E r \in 1 .. Length + 1 : e[r] = i
          <5>1. CASE i = c
            BY <3>2, <5>1
          <5>2. CASE i \in Live
            <6>1. PICK r \in 1 .. Length : Order[r] = i
              BY <3>2, <5>2 DEF Lists
            <6>2. r \in 1 .. Length + 1 /\ e[r] = i
              BY <3>2, <6>1
            <6>3. QED BY <6>2
          <5>3. QED BY <3>1, <5>1, <5>2
        <4>5. QED BY <3>2, <4>1, <4>2, <4>3, <4>4 DEF Lists
      <3>5. \A r \in 1 .. Length : e[r] = Order[r]
        BY <3>2
      <3>6. e[Length + 1] = c
        BY <3>2
      <3> HIDE DEF e
      <3>7. Queue' = [r \in 1 .. Length + 1 |-> Contents'[e[r]]]
        <4>1. Queue' = Part(Contents', Live')
          BY DEF Queue, Part, Nth
        <4>2. QED BY <3>4, <4>1, PartIs
      <3>8. \A i \in 0 .. c : Contents'[i] = Item(i)'
        BY <1>0, <1>3 DEF Contents
      <3>9. \A r \in 1 .. Length : Contents'[e[r]] = Queue[r]
        <4>1. TAKE r \in 1 .. Length
        <4>2. Order[r] \in 0 .. c - 1 /\ Order[r] \in 0 .. c
          BY <3>2, <3>3
        <4>3. QED BY <1>0, <1>3, <3>2, <3>5, <3>8, <4>2
      <3>10. Contents'[e[Length + 1]] = m
        BY <2>1, <3>6, <3>8
      <3>11. Queue \in Seq(Message)
        <4>1. \A r \in 1 .. Length : Queue[r] \in Message
          BY <1>1, <3>2, LiveMessages
        <4>2. Queue \in [1 .. Length -> Message]
          BY <3>2, <4>1
        <4>3. QED BY <3>2, <4>2, SeqDef
      <3>12. Append(Queue, m) = [r \in 1 .. Length + 1 |->
                                   IF r = Length + 1 THEN m ELSE Queue[r]]
        <4>1. Len(Queue) = Length
          BY <1>1, <3>2, <3>11, QueueIs
        <4> DEFINE q == [r \in 1 .. Length + 1 |->
                           IF r = Length + 1 THEN m ELSE Queue[r]]
        <4>2. q \in [1 .. Length + 1 -> Message]
          <5>1. \A r \in 1 .. Length : Queue[r] \in Message
            BY <1>1, <3>2, LiveMessages
          <5>2. QED BY <3>2, <5>1
        <4>3. Length + 1 \in Nat
          BY <3>2
        <4> HIDE DEF q
        <4>4. q \in Seq(Message)
          BY <4>2, <4>3, SeqDef
        <4>5. Len(q) = Length + 1
          BY <4>2, <4>3, <4>4
        <4>6. /\ Append(Queue, m) \in Seq(Message)
              /\ Len(Append(Queue, m)) = Length + 1
              /\ \A r \in 1 .. Length : Append(Queue, m)[r] = Queue[r]
              /\ Append(Queue, m)[Length + 1] = m
          BY <4>1, <3>11, AppendProperties
        <4>7. \A r \in 1 .. Length + 1 : Append(Queue, m)[r] = q[r]
          BY <3>2, <4>6 DEF q
        <4>8. Append(Queue, m) = q
          BY <4>4, <4>5, <4>6, <4>7, SeqEqual
        <4>9. QED BY <4>8 DEF q
      <3>13. QED BY <3>2, <3>7, <3>9, <3>10, <3>12
    <2>7. QED BY <2>5, <2>6
  <1>4. QED BY <1>2, <1>3, PutIn

-----------------------------------------------------------------------------
(* Messages that are dropped together.                                     *)

\* A step that leaves all messages but those of S alive and where they are.
LEMMA Purges ==
  ASSUME RingType, RingType', NEW S, NEW D, D = Live,
         Live' = {i \in D : Item(i) \notin S},
         \A i \in Live' : Item(i)' = Item(i)
  PROVE  Queue' = Part(Queue, {r \in DOMAIN Queue : Queue[r] \notin S})
  <1> DEFINE M == {i \in Live : Item(i) \notin S}
             id == [i \in Live' |-> i]
  <1>1. Live' = M
    OBVIOUS
  <1>2. \A i \in Live' : id[i] \in M /\ Item(i)' = Item(id[i])
    BY <1>1
  <1>3. \A i, j \in Live' : i < j => id[i] < id[j]
    OBVIOUS
  <1>4. \A i \in M : \E j \in Live' : id[j] = i
    BY <1>1
  <1>5. M \in SUBSET Live
    OBVIOUS
  <1> HIDE DEF id, M
  <1>6. Queue' = Part(Queue, {r \in 1 .. Length : Order[r] \in M})
    BY <1>2, <1>3, <1>4, <1>5, Selected
  <1>7. /\ DOMAIN Queue = 1 .. Length
        /\ \A r \in 1 .. Length : Order[r] \in Live /\ Queue[r] = Item(Order[r])
    BY QueueIs
  <1>8. {r \in 1 .. Length : Order[r] \in M}
          = {r \in DOMAIN Queue : Queue[r] \notin S}
    BY <1>7 DEF M
  <1>9. QED BY <1>6, <1>8

\* What a filter that clears lets through.
Cleared(f) == {m \in Message : f.hwnd \in {NoWindow, m.hwnd}
                                /\ m.message \in f.kinds}

LEMMA ClearPurges ==
  ASSUME RingType, RingType', NEW f, ClearThreadQueue(f)
  PROVE  Queue' = Part(Queue, {r \in DOMAIN Queue : Queue[r] \notin Cleared(f)})
  <1> DEFINE Hit(m) == f.hwnd \in {NoWindow, m.hwnd} /\ m.message \in f.kinds
  <1>1. PICK D : D = Live
    OBVIOUS
  <1>2. /\ count' = count /\ windows' = windows
        /\ \A i : Pos(i)' = Pos(i)
        /\ \A i \in 0 .. count - 1 : Pos(i) \in 0 .. size - 1
    <2>1. \A i \in 0 .. count - 1 : i \in 0 .. size
      BY DEF RingType
    <2>2. QED BY <2>1, PosFits DEF ClearThreadQueue, Pos
  <1>3. lpMsgData' =
          [p \in 0 .. size - 1 |->
             IF (\E i \in 0 .. count - 1 : Pos(i) = p) /\ Hit(lpMsgData[p])
             THEN [lpMsgData[p] EXCEPT !.hwnd = Invalid] ELSE lpMsgData[p]]
    BY DEF ClearThreadQueue
  <1> HIDE DEF Hit
  <1>4. \A i \in 0 .. count - 1 :
          Item(i)' = IF Hit(Item(i)) THEN [Item(i) EXCEPT !.hwnd = Invalid]
                     ELSE Item(i)
    <2>1. TAKE i \in 0 .. count - 1
    <2>2. Item(i)' = lpMsgData'[Pos(i)]
      BY <1>2 DEF Item
    <2>3. QED BY <1>2, <1>3, <2>2 DEF Item
  <1>5. \A i \in 0 .. count - 1 : Item(i) \in Slot
    <2>1. \A i \in 0 .. count - 1 : i \in 0 .. size - 1
      BY DEF RingType
    <2>2. QED BY <2>1, PosFits
  <1>6. \A i \in 0 .. count - 1 :
          IsDead(Item(i))' <=> IsDead(Item(i)) \/ Hit(Item(i))
    <2>1. TAKE i \in 0 .. count - 1
    <2>2. CASE Hit(Item(i))
      <3>1. Item(i)'.hwnd = Invalid
        BY <1>4, <1>5, <2>2 DEF Slot
      <3>2. QED BY <2>2, <3>1 DEF IsDead
    <2>3. CASE ~ Hit(Item(i))
      BY <1>2, <1>4, <2>3 DEF IsDead
    <2>4. QED BY <2>2, <2>3
  <1>7. Live' = {i \in 0 .. count - 1 : ~ IsDead(Item(i))'}
    BY <1>2 DEF Live
  <1>8. \A i \in Live : Item(i) \in Cleared(f) <=> Hit(Item(i))
    BY LiveMessages DEF Cleared, Hit
  <1>9. Live' = {i \in D : Item(i) \notin Cleared(f)}
    BY <1>1, <1>6, <1>7, <1>8 DEF Live
  <1>10. \A i \in Live' : Item(i)' = Item(i)
    BY <1>4, <1>6, <1>7
  <1>11. QED BY <1>1, <1>9, <1>10, Purges

LEMMA DestroyPurges ==
  ASSUME RingType, RingType', NEW w \in Windows, DestroyWindow(w)
  PROVE  Queue' = Part(Queue, {r \in DOMAIN Queue :
                                 Queue[r] \notin {m \in Message : m.hwnd = w}})
  <1>1. PICK D : D = Live
    OBVIOUS
  <1>2. /\ count' = count /\ windows' = windows \ {w}
        /\ \A i : Item(i)' = Item(i)
    BY DEF DestroyWindow, ring, Item, Pos
  <1>3. \A i : IsDead(Item(i))' <=> IsDead(Item(i)) \/ Item(i).hwnd = w
    BY <1>2 DEF IsDead
  <1>4. Live' = {i \in 0 .. count - 1 : ~ IsDead(Item(i))'}
    BY <1>2 DEF Live
  <1>5. \A i \in Live : Item(i) \in Message
    BY LiveMessages
  <1>6. Live' = {i \in D : Item(i) \notin {m \in Message : m.hwnd = w}}
    BY <1>1, <1>3, <1>4, <1>5 DEF Live
  <1>7. QED BY <1>1, <1>2, <1>6, Purges

-----------------------------------------------------------------------------
(* The queue of the specification.                                         *)

asked == reader.filter

\* The instance has its own names for the same selection.
LEMMA FifoParts == \A s, K : Fifo!Part(s, K) = Part(s, K)
  <1>1. \A S : Fifo!Cardinality(S) = Cardinality(S)
    BY DEF Fifo!Cardinality, Cardinality
  <1>2. \A K, r : Fifo!Nth(K, r) = Nth(K, r)
    BY <1>1 DEF Fifo!Nth, Nth
  <1>3. QED BY <1>1, <1>2 DEF Fifo!Part, Part

\* A step of the reader looks or takes.
LEMMA ReaderImplements ==
  ASSUME IInv, NEW f \in Filters \cup {Any}, NEW fRemove \in BOOLEAN,
         NEW found, NEW notFound, CheckThreadQueue(f, fRemove, found, notFound)
  PROVE  Fifo!FifoNext
  <1>1. PICK n \in 0 .. count :
          /\ _CheckThreadQueue(f, fRemove, TRUE, n)
          /\ reader' = [at |-> IF n < count THEN found ELSE notFound,
                        filter |-> f]
          /\ windows' = windows
    BY DEF CheckThreadQueue
  <1>2. RingOK
    BY RingFacts DEF IInv
  <1>3. CASE ~ Removes(n, fRemove)
    <2>1. Queue' = Queue
      BY <1>1, <1>2, <1>3, LookLooks
    <2>2. Fifo!Look(f)
      BY <1>1, <2>1 DEF Fifo!Look, Queue
    <2>3. QED BY <2>2 DEF Fifo!FifoNext
  <1>4. CASE Removes(n, fRemove)
    <2>1. \E i \in DOMAIN Queue :
            /\ Passes(f, TRUE, Queue[i]) /\ Queue[i].message # WM_PAINT
            /\ \A j \in 1 .. i - 1 : ~ Passes(f, TRUE, Queue[j])
            /\ Queue' = Part(Queue, DOMAIN Queue \ {i})
      BY <1>1, <1>2, <1>4, LookTakes
    <2>2. Fifo!Take(f)
      BY <1>1, <2>1, FifoParts DEF Fifo!Take, Queue
    <2>3. QED BY <2>2 DEF Fifo!FifoNext
  <1>5. QED BY <1>3, <1>4

\* A message that is brought is put into the queue, or nothing happens to it.
LEMMA BringImplements ==
  ASSUME IInv, NEW m \in Message, _InsertQueue(m), UNCHANGED << windows, reader >>
  PROVE  Fifo!FifoNext \/ UNCHANGED << Queue, asked >>
  <1>1. Queue' = Queue \/ Queue' = Append(Queue, m)
    BY RingFacts, InsertAppends DEF IInv
  <1>2. CASE Queue' = Append(Queue, m)
    <2>1. Fifo!Put(m)
      BY <1>2 DEF Fifo!Put, Queue
    <2>2. QED BY <2>1 DEF Fifo!FifoNext
  <1>3. QED BY <1>1, <1>2 DEF asked

LEMMA WriterImplements ==
  ASSUME IInv, NEW w \in Writers, Writer(w)
  PROVE  Fifo!FifoNext \/ UNCHANGED << Queue, asked >>
  <1>1. RingType /\ RingOK
    BY RingFacts DEF IInv
  <1>2. ASSUME NEW m \in Message, Post(w, m)
        PROVE  Fifo!FifoNext \/ UNCHANGED << Queue, asked >>
    BY <1>2, BringImplements DEF Post
  <1>3. ASSUME NEW m \in Message, PostOnlyOne(w, m)
        PROVE  UNCHANGED << Queue, asked >>
    <2> DEFINE f == [hwnd |-> m.hwnd, kinds |-> {m.message}]
    <2>1. PICK n \in 0 .. count : _CheckThreadQueue(f, FALSE, FALSE, n)
      BY <1>3 DEF PostOnlyOne
    <2>2. UNCHANGED << windows, reader >> /\ ~ Removes(n, FALSE)
      BY <1>3 DEF PostOnlyOne, Removes
    <2> HIDE DEF f
    <2>3. Queue' = Queue
      BY <1>1, <2>1, <2>2, LookLooks
    <2>4. QED BY <2>2, <2>3 DEF asked
  <1>4. CASE Insert(w)
    <2>1. writer[w].msg \in Message
      BY DEF IInv, TypeOK
    <2>2. QED BY <1>4, <2>1, BringImplements DEF Insert
  <1>5. CASE Signal(w)
    BY <1>1, <1>5, SameQueue DEF Signal, asked
  <1>6. QED BY <1>2, <1>3, <1>4, <1>5 DEF Writer

\* Every step of the ring is one of the queue, or none.
LEMMA StepImplements ==
  ASSUME IInv, IInv', [Next]_vars
  PROVE  Fifo!FifoNext \/ UNCHANGED << Queue, asked >>
  <1>1. RingType /\ RingType'
    BY RingFacts DEF IInv, TypeOK, RingType
  <1>2. CASE Reader
    <2>1. ASSUME NEW f \in Filters, GetMessage(f) PROVE Fifo!FifoNext
      BY <2>1, ReaderImplements DEF GetMessage
    <2>2. ASSUME NEW f \in Filters, NEW b \in BOOLEAN, PeekMessage(f, b)
          PROVE  Fifo!FifoNext
      BY <2>2, ReaderImplements DEF PeekMessage
    <2>3. CASE GetAgain
      <3>1. reader.filter \in Filters \cup {Any}
        BY DEF IInv, TypeOK
      <3>2. QED BY <2>3, <3>1, ReaderImplements DEF GetAgain
    <2>4. CASE WinMsg_Wait
      <3>1. UNCHANGED << ring, windows >>
        BY <2>4 DEF WinMsg_Wait
      <3>2. reader'.filter = reader.filter
        BY <2>4 DEF WinMsg_Wait, IInv, TypeOK
      <3>3. QED BY <1>1, <3>1, <3>2, SameQueue DEF asked
    <2>5. QED BY <1>2, <2>1, <2>2, <2>3, <2>4 DEF Reader
  <1>3. ASSUME NEW f \in Clears, ClearThreadQueue(f) PROVE Fifo!FifoNext
    <2>1. Queue' = Part(Queue, {r \in DOMAIN Queue : Queue[r] \notin Cleared(f)})
      BY <1>1, <1>3, ClearPurges
    <2>2. asked' = asked
      BY <1>3 DEF ClearThreadQueue, asked
    <2>3. Fifo!Purge(Cleared(f))
      BY <2>1, <2>2, FifoParts DEF Fifo!Purge, Queue, asked
    <2>4. QED BY <2>3 DEF Fifo!FifoNext, Cleared
  <1>4. ASSUME NEW w \in Windows, DestroyWindow(w) PROVE Fifo!FifoNext
    <2> DEFINE S == {m \in Message : m.hwnd = w}
    <2>1. Queue' = Part(Queue, {r \in DOMAIN Queue : Queue[r] \notin S})
      BY <1>1, <1>4, DestroyPurges
    <2>2. asked' = asked
      BY <1>4 DEF DestroyWindow, asked
    <2>3. Fifo!Purge(S)
      BY <2>1, <2>2, FifoParts DEF Fifo!Purge, Queue, asked
    <2>4. QED BY <2>3 DEF Fifo!FifoNext
  <1>5. CASE UNCHANGED vars
    BY <1>1, <1>5, SameQueue DEF vars, asked
  <1>6. QED BY <1>2, <1>3, <1>4, <1>5, WriterImplements DEF Next

\* The ring, with its growth, its removals from the middle and the messages of
\* dead windows in it, is a queue: what is posted stays in the order in which
\* it was posted until the reader takes it, the first that passes its filter,
\* or until it is cleared with its kind or its window (msgqueue.c).
THEOREM RingIsFifo == Spec => ImplementsFifo
  <1>1. Init => Fifo!FifoInit
    <2> SUFFICES ASSUME Init PROVE Fifo!FifoInit
      OBVIOUS
    <2>1. Live = {} /\ Cardinality(Live) = 0
      BY FS_EmptySet DEF Init, Live
    <2>2. Queue = << >>
      BY <2>1 DEF Queue, Part
    <2>3. reader.filter \in Filters \cup {Any}
      BY DEF Init
    <2>4. QED BY <2>2, <2>3 DEF Fifo!FifoInit, Queue
  <1>2. IInv /\ IInv' /\ [Next]_vars => [Fifo!FifoNext]_(Fifo!fifoVars)
    BY StepImplements DEF Fifo!fifoVars, Queue, asked
  <1>3. QED
    BY <1>1, <1>2, Invariance, PTL DEF Spec, ImplementsFifo, Fifo!FifoSpec
=============================================================================
