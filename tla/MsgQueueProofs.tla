--------------------------- MODULE MsgQueueProofs ---------------------------
(***************************************************************************)
(* Proofs about MsgQueue for every number of slots, growth, window, thread *)
(* and message: the ring stays whole, growth keeps its messages in order,  *)
(* and what one thread posts with ATQ_ONLYONE is in it once.               *)
(***************************************************************************)
EXTENDS MsgQueue, FiniteSetTheorems, TLAPS

\* The part of the type invariant that is about the ring.
RingType ==
  /\ size \in Nat \ {0} /\ count \in 0 .. size
  /\ nQueueHead \in 0 .. size - 1 /\ nQueueTail \in 0 .. size - 1
  /\ lpMsgData \in [0 .. size - 1 -> Slot]

RingOK == RingType /\ RingWhole

LEMMA PosFits ==
  ASSUME RingType
  PROVE  /\ \A i \in 0 .. size : Pos(i) \in 0 .. size - 1
         /\ \A i, j \in 0 .. size - 1 : Pos(i) = Pos(j) => i = j
         /\ \A i \in 0 .. size - 1 : Item(i) \in Slot
  BY DEF RingType, Pos, Wrap, Item

LEMMA BlankSlot == Blank \in Message /\ Message \subseteq Slot
  BY MsgQueueAssumption DEF Blank, Message, Slot, Handles

\* Put writes behind the last message.
LEMMA PutWhole ==
  ASSUME RingOK, NEW m \in Message, count < size, Put(m)
  PROVE  RingOK'
  <1>1. RingType'
    BY BlankSlot DEF RingOK, RingType, Put, Wrap
  <1>2. RingWhole'
    BY DEF RingOK, RingType, RingWhole, Put, Pos, Wrap
  <1>3. QED BY <1>1, <1>2 DEF RingOK

LEMMA GrowWhole ==
  ASSUME RingOK, NEW m \in Message, count = size, GrowAndPut(m)
  PROVE  RingOK'
  <1>1. RingType'
    BY BlankSlot, MsgQueueAssumption
    DEF RingOK, RingType, GrowAndPut, Grown, Wrap
  <1>2. RingWhole'
    BY MsgQueueAssumption
    DEF RingOK, RingType, RingWhole, GrowAndPut, Pos, Wrap
  <1>3. QED BY <1>1, <1>2 DEF RingOK

\* Growth keeps every message in its place in the order and puts the new one
\* behind them, although it moves the messages from before the head, over the
\* end of the new ring if they do not fit (_InsertQueue).
THEOREM GrowthKeepsOrder ==
  ASSUME RingOK, NEW m \in Message, count = size, GrowAndPut(m)
  PROVE  /\ count' = count + 1
         /\ \A i \in 0 .. count - 1 : Item(i)' = Item(i)
         /\ lpMsgData'[Wrap(nQueueHead' + count, size')] = m
  <1>1. \A i \in 0 .. count - 1 : Item(i)' = Item(i)
    <2>1. TAKE i \in 0 .. count - 1
    <2>2. CASE nQueueHead + i < size
      BY <2>2, MsgQueueAssumption
      DEF RingOK, RingType, GrowAndPut, Grown, Item, Pos, Wrap
    <2>3. CASE nQueueHead + i >= size
      BY <2>3, MsgQueueAssumption
      DEF RingOK, RingType, GrowAndPut, Grown, Item, Pos, Wrap
    <2>4. QED BY <2>2, <2>3 DEF RingOK, RingType
  <1>2. count' = count + 1
    BY DEF GrowAndPut
  <1>3. lpMsgData'[Wrap(nQueueHead' + count, size')] = m
    BY MsgQueueAssumption DEF RingOK, RingType, GrowAndPut, Wrap
  <1>4. QED BY <1>1, <1>2, <1>3

\* Put leaves the messages where they are and puts the new one behind them.
LEMMA PutKeepsOrder ==
  ASSUME RingOK, NEW m \in Message, count < size, Put(m)
  PROVE  /\ count' = count + 1
         /\ \A i \in 0 .. count - 1 : Item(i)' = Item(i)
         /\ lpMsgData'[Wrap(nQueueHead' + count, size')] = m
  <1>1. \A i \in 0 .. count - 1 : Item(i)' = Item(i)
    BY DEF RingOK, RingType, RingWhole, Put, Item, Pos, Wrap
  <1>2. lpMsgData'[Wrap(nQueueHead' + count, size')] = m
    BY DEF RingOK, RingType, RingWhole, Put, Pos, Wrap
  <1>3. QED BY <1>1, <1>2 DEF Put

LEMMA InsertWhole ==
  ASSUME RingOK, NEW m \in Message, _InsertQueue(m)
  PROVE  RingOK'
  <1>1. CASE UNCHANGED ring
    BY <1>1 DEF RingOK, RingType, RingWhole, ring, Pos, Wrap
  <1>2. CASE count < size /\ Put(m)
    BY <1>2, PutWhole
  <1>3. CASE count = size /\ GrowAndPut(m)
    BY <1>3, GrowWhole
  <1>4. QED
    BY <1>1, <1>2, <1>3 DEF _InsertQueue, RingOK, RingType

-----------------------------------------------------------------------------
(* Reads.                                                                  *)

LEMMA PopWhole ==
  ASSUME RingOK, NEW n \in 0 .. count, NEW fRemove \in BOOLEAN,
         PopHead(n, fRemove)
  PROVE  RingOK'
  <1> DEFINE k == IF Removes(n, fRemove) THEN n + 1 ELSE n
  <1>1. k \in 0 .. count
    BY DEF Removes, RingOK, RingType
  <1>2. /\ nQueueHead' = Pos(k) /\ count' = count - k
        /\ size' = size /\ nQueueTail' = nQueueTail
    BY DEF PopHead
  <1>3. lpMsgData' \in [0 .. size - 1 -> Slot]
    BY BlankSlot DEF PopHead, RingOK, RingType
  <1> HIDE DEF k
  <1>4. RingType'
    BY <1>1, <1>2, <1>3, PosFits DEF RingOK, RingType
  <1>5. RingWhole'
    BY <1>1, <1>2 DEF RingOK, RingType, RingWhole, Pos, Wrap
  <1>6. QED BY <1>4, <1>5 DEF RingOK

\* Which messages are squeezed out does not matter: what is kept is a part of
\* what was there.
LEMMA KeptFew ==
  ASSUME NEW n \in Nat, NEW K \in SUBSET (0 .. n - 1)
  PROVE  /\ IsFiniteSet(K) /\ Cardinality(K) \in 0 .. n
         /\ \A i \in K : Cardinality({j \in K : j < i}) \in 0 .. i
  <1>1. \A c \in 0 .. n : IsFiniteSet(0 .. c - 1) /\ Cardinality(0 .. c - 1) = c
    <2>1. TAKE c \in 0 .. n
    <2>2. c \in Nat /\ 0 \in Int /\ c - 1 \in Int
      OBVIOUS
    <2>3. QED BY <2>2, FS_Interval
  <1>2. \A S : \A c \in 0 .. n : S \subseteq 0 .. c - 1
           => IsFiniteSet(S) /\ Cardinality(S) \in 0 .. c
    <2>1. TAKE S
    <2>2. TAKE c \in 0 .. n
    <2>3. HAVE S \subseteq 0 .. c - 1
    <2>4. IsFiniteSet(S) /\ Cardinality(S) <= Cardinality(0 .. c - 1)
      BY <1>1, <2>3, FS_Subset
    <2>5. Cardinality(S) \in Nat
      BY <2>4, FS_CardinalityType
    <2>6. QED BY <1>1, <2>4, <2>5
  <1>3. IsFiniteSet(K) /\ Cardinality(K) \in 0 .. n
    <2>1. K \subseteq 0 .. n - 1 /\ n \in 0 .. n
      OBVIOUS
    <2>2. QED BY <1>2, <2>1
  <1>4. ASSUME NEW i \in K PROVE Cardinality({j \in K : j < i}) \in 0 .. i
    <2>1. i \in 0 .. n
      OBVIOUS
    <2>2. ASSUME NEW j \in K, j < i PROVE j \in 0 .. i - 1
      BY <2>2, <2>1
    <2>3. {j \in K : j < i} \subseteq 0 .. i - 1
      BY <2>2
    <2>4. QED BY <1>2, <2>1, <2>3
  <1>5. QED BY <1>3, <1>4

\* Squeezing keeps the order: the messages that are kept have the places from
\* 0 on, each before the ones that came after it.
LEMMA RankOrders ==
  ASSUME NEW n \in Nat, NEW K \in SUBSET (0 .. n - 1)
  PROVE  LET Rank(i) == Cardinality({j \in K : j < i})
         IN  /\ \A i \in K : Rank(i) \in 0 .. Cardinality(K) - 1
             /\ \A i, j \in K : i < j => Rank(i) < Rank(j)
             /\ \A r \in 0 .. Cardinality(K) - 1 : \E i \in K : Rank(i) = r
  <1> DEFINE Before(i) == {j \in K : j < i}
             Rank(i) == Cardinality(Before(i))
  <1>1. K \subseteq Int /\ IsFiniteSet(K) /\ Cardinality(K) \in Nat
    BY KeptFew
  <1>2. \A i \in K : IsFiniteSet(Before(i)) /\ Rank(i) \in Nat
    <2>1. TAKE i \in K
    <2>2. Before(i) \in SUBSET K
      OBVIOUS
    <2>3. IsFiniteSet(Before(i))
      BY <1>1, <2>2, FS_Subset
    <2>4. QED BY <2>3, FS_CardinalityType
  <1>3. ASSUME NEW i \in K PROVE Rank(i) < Cardinality(K)
    <2>1. Before(i) \in SUBSET K /\ Before(i) # K
      BY <1>1
    <2>2. Rank(i) <= Cardinality(K) /\ Rank(i) # Cardinality(K)
      BY <1>1, <2>1, FS_Subset
    <2>3. QED BY <1>1, <1>2, <2>2
  <1>4. ASSUME NEW i \in K, NEW j \in K, i < j PROVE Rank(i) < Rank(j)
    <2>1. i \in Int /\ j \in Int /\ \A x \in K : x \in Int
      BY <1>1
    <2>2. \A x \in K : x < i => x < j
      BY <1>4, <2>1
    <2>3. i \in Before(j) /\ i \notin Before(i)
      BY <1>4, <2>1
    <2>4. Before(i) \in SUBSET Before(j)
      BY <2>2
    <2> HIDE DEF Before
    <2>5. Rank(i) <= Rank(j) /\ Rank(i) # Rank(j)
      BY <1>2, <2>3, <2>4, FS_Subset
    <2>6. QED BY <1>2, <2>5
  <1>5. ASSUME NEW r \in 0 .. Cardinality(K) - 1
        PROVE  \E i \in K : Rank(i) = r
    <2> DEFINE R == 0 .. Cardinality(K) - 1
               f == [i \in K |-> Rank(i)]
    <2>1. IsFiniteSet(R) /\ Cardinality(R) = Cardinality(K)
      <3>1. 0 \in Int /\ Cardinality(K) - 1 \in Int
        BY <1>1
      <3>2. QED BY <1>1, <3>1, FS_Interval
    <2> HIDE DEF Rank, Before
    <2>2. f \in [K -> R]
      BY <1>1, <1>2, <1>3
    <2>3. \A i, j \in K : f[i] = f[j] => i = j
      BY <1>1, <1>2, <1>4
    <2>4. f \in Injection(K, R)
      BY <2>2, <2>3 DEF Injection, IsInjective
    <2> HIDE DEF f, R
    <2>5. f \in Surjection(K, R)
      BY <2>1, <2>4, FS_Injection
    <2>6. r \in R
      BY DEF R
    <2>7. PICK i \in K : f[i] = r
      BY <2>5, <2>6 DEF Surjection
    <2>8. QED BY <2>7 DEF f
  <1> HIDE DEF Rank, Before
  <1>6. \A i \in K : Rank(i) \in 0 .. Cardinality(K) - 1
    BY <1>1, <1>2, <1>3
  <1>7. QED BY <1>4, <1>5, <1>6 DEF Rank, Before

LEMMA SqueezeWhole ==
  ASSUME RingOK, NEW n \in 0 .. count, NEW fRemove \in BOOLEAN,
         Squeeze(n, fRemove)
  PROVE  RingOK'
  <1> DEFINE marked == Marked(n, fRemove)
             kept == {i \in 0 .. count - 1 :
                        i \notin marked /\ Item(i).hwnd # Invalid}
             To(i) == Pos(Cardinality({j \in kept : j < i}))
  <1>1. CASE marked = {}
    <2>1. UNCHANGED ring
      BY <1>1 DEF Squeeze
    <2>2. QED BY <2>1 DEF RingOK, RingType, RingWhole, ring, Pos, Wrap
  <1>2. CASE marked # {}
    <2>1. /\ lpMsgData' = [p \in 0 .. size - 1 |->
                             IF \E i \in kept : To(i) = p
                             THEN Item(CHOOSE i \in kept : To(i) = p)
                             ELSE Blank]
          /\ count' = Cardinality(kept)
          /\ nQueueTail' = Pos(Cardinality(kept))
          /\ size' = size /\ nQueueHead' = nQueueHead
      BY <1>2 DEF Squeeze
    <2>2. Cardinality(kept) \in 0 .. count
      <3>1. count \in Nat /\ kept \in SUBSET (0 .. count - 1)
        BY DEF RingOK, RingType
      <3> HIDE DEF kept
      <3>2. QED BY <3>1, KeptFew
    <2>3. \A i \in kept : Item(i) \in Slot
      BY PosFits DEF RingOK, RingType
    <2> HIDE DEF kept, To
    <2>4. lpMsgData' \in [0 .. size - 1 -> Slot]
      BY <2>1, <2>3, BlankSlot
    <2>5. Pos(Cardinality(kept)) \in 0 .. size - 1
      BY <2>2, PosFits DEF RingOK, RingType
    <2>6. count' \in 0 .. size'
      BY <2>1, <2>2 DEF RingOK, RingType
    <2>7. RingType'
      BY <2>1, <2>4, <2>5, <2>6 DEF RingOK, RingType
    <2>8. RingWhole'
      BY <2>1 DEF RingWhole, Pos
    <2>9. QED BY <2>7, <2>8 DEF RingOK
  <1>3. QED BY <1>1, <1>2

LEMMA LookWhole ==
  ASSUME RingOK, NEW n \in 0 .. count, NEW fRemove \in BOOLEAN,
         NEW f, NEW fCheckChild, _CheckThreadQueue(f, fRemove, fCheckChild, n)
  PROVE  RingOK'
  BY PopWhole, SqueezeWhole DEF _CheckThreadQueue

\* Every message that is left was there before, and in the same order: place[r]
\* is where the one with the number r was.  Those not in Gone are left, those
\* in Taken are not.
Kept(Gone, Taken) ==
  \E place \in [0 .. count' - 1 -> 0 .. count - 1] :
    /\ \A r \in 0 .. count' - 1 : Item(r)' = Item(place[r])
    /\ \A r, s \in 0 .. count' - 1 : r < s => place[r] < place[s]
    /\ \A i \in (0 .. count - 1) \ Gone : \E r \in 0 .. count' - 1 : place[r] = i
    /\ \A r \in 0 .. count' - 1 : place[r] \notin Taken

\* The one message that a look takes.
Took(n, fRemove) == {i \in {n} : Removes(i, fRemove)}

LEMMA UnchangedKeeps ==
  ASSUME RingType, UNCHANGED ring, NEW Gone
  PROVE  Kept(Gone, {})
  <1> DEFINE place == [r \in 0 .. count - 1 |-> r]
  <1>1. place \in [0 .. count' - 1 -> 0 .. count - 1]
    BY DEF ring
  <1>2. \A r \in 0 .. count' - 1 : Item(r)' = Item(place[r])
    BY DEF ring, Item, Pos
  <1>3. \A r, s \in 0 .. count' - 1 : r < s => place[r] < place[s]
    BY DEF ring
  <1>4. \A i \in 0 .. count - 1 : \E r \in 0 .. count' - 1 : place[r] = i
    BY DEF ring
  <1> HIDE DEF place
  <1>5. QED BY <1>1, <1>2, <1>3, <1>4 DEF Kept

LEMMA PopKeeps ==
  ASSUME RingOK, NEW n \in 0 .. count, NEW fRemove \in BOOLEAN,
         PopHead(n, fRemove), NEW Gone,
         0 .. n - 1 \subseteq Gone, Removes(n, fRemove) => n \in Gone
  PROVE  Kept(Gone, Took(n, fRemove))
  <1> DEFINE k == IF Removes(n, fRemove) THEN n + 1 ELSE n
             place == [r \in 0 .. count - k - 1 |-> r + k]
  <1>1. k \in 0 .. count
    BY DEF Removes, RingOK, RingType
  <1>2. 0 .. k - 1 \subseteq Gone
    BY DEF RingOK, RingType
  <1>3. /\ nQueueHead' = Pos(k) /\ count' = count - k /\ size' = size
        /\ lpMsgData' = [p \in 0 .. size - 1 |->
                           IF \E i \in 0 .. k - 1 : Pos(i) = p
                           THEN Blank ELSE lpMsgData[p]]
    BY DEF PopHead
  <1> HIDE DEF k
  <1>4. place \in [0 .. count' - 1 -> 0 .. count - 1]
    BY <1>1, <1>3 DEF RingOK, RingType
  <1>5. ASSUME NEW r \in 0 .. count' - 1 PROVE Item(r)' = Item(place[r])
    <2>1. place[r] = r + k /\ r + k \in 0 .. count - 1
      BY <1>1, <1>3 DEF RingOK, RingType
    <2>2. Pos(r)' = Pos(r + k)
      BY <1>1, <1>3, <2>1 DEF Pos, Wrap, RingOK, RingType
    <2>3. Pos(r + k) \in 0 .. size - 1
      <3>1. r + k \in 0 .. size
        BY <2>1 DEF RingOK, RingType
      <3>2. QED BY <3>1, PosFits DEF RingOK
    <2>4. \A i \in 0 .. k - 1 : Pos(i) # Pos(r + k)
      BY <1>1, <1>3, <2>1, PosFits DEF RingOK, RingType
    <2>5. Item(r)' = lpMsgData'[Pos(r)']
      BY DEF Item
    <2>6. QED BY <1>3, <2>1, <2>2, <2>3, <2>4, <2>5 DEF Item
  <1>6. \A r, s \in 0 .. count' - 1 : r < s => place[r] < place[s]
    BY <1>1, <1>3 DEF RingOK, RingType
  <1>7. ASSUME NEW i \in 0 .. count - 1, i \notin Gone
        PROVE  \E r \in 0 .. count' - 1 : place[r] = i
    <2>1. i - k \in 0 .. count' - 1
      BY <1>2, <1>1, <1>3, <1>7 DEF RingOK, RingType
    <2>2. i - k \in 0 .. count - k - 1 /\ (i - k) + k = i
      BY <1>1, <1>3, <2>1 DEF RingOK, RingType
    <2>3. place[i - k] = i
      BY <2>2
    <2>4. QED BY <2>1, <2>3
  <1>8. ASSUME NEW r \in 0 .. count' - 1 PROVE place[r] \notin Took(n, fRemove)
    <2>1. place[r] = r + k /\ r \in Nat
      BY <1>1, <1>3 DEF RingOK, RingType
    <2>2. Removes(n, fRemove) => k = n + 1
      BY DEF k
    <2>3. Removes(n, fRemove) => place[r] # n
      BY <2>1, <2>2 DEF RingOK, RingType
    <2>4. QED BY <2>3 DEF Took
  <1> HIDE DEF place
  <1>9. QED BY <1>4, <1>5, <1>6, <1>7, <1>8 DEF Kept

LEMMA SqueezeKeeps ==
  ASSUME RingOK, NEW n \in 0 .. count, NEW fRemove \in BOOLEAN,
         Squeeze(n, fRemove), NEW Gone,
         \A i \in 0 .. count - 1 :
           i \in Marked(n, fRemove) \/ Item(i).hwnd = Invalid => i \in Gone
  PROVE  Kept(Gone, Took(n, fRemove))
  <1> DEFINE marked == Marked(n, fRemove)
             kept == {i \in 0 .. count - 1 :
                        i \notin marked /\ Item(i).hwnd # Invalid}
             Rank(i) == Cardinality({j \in kept : j < i})
             To(i) == Pos(Rank(i))
  <1>1. CASE marked = {}
    <2>1. Took(n, fRemove) = {}
      BY <1>1 DEF Took, Marked
    <2>2. QED BY <1>1, <2>1, UnchangedKeeps DEF Squeeze, RingOK
  <1>2. CASE marked # {}
    <2>1. /\ lpMsgData' = [p \in 0 .. size - 1 |->
                             IF \E i \in kept : To(i) = p
                             THEN Item(CHOOSE i \in kept : To(i) = p)
                             ELSE Blank]
          /\ count' = Cardinality(kept)
          /\ size' = size /\ nQueueHead' = nQueueHead
      BY <1>2 DEF Squeeze
    <2>2. count \in Nat /\ kept \in SUBSET (0 .. count - 1)
      BY DEF RingOK, RingType
    <2>3. \A i \in 0 .. count - 1 : i \notin Gone => i \in kept
      OBVIOUS
    <2>4. \A i \in kept : i \notin Took(n, fRemove)
      BY DEF Took, Marked
    <2> HIDE DEF kept
    <2>5. Cardinality(kept) \in 0 .. count
      BY <2>2, KeptFew
    <2>6. /\ \A i \in kept : Rank(i) \in 0 .. Cardinality(kept) - 1
          /\ \A i, j \in kept : i < j => Rank(i) < Rank(j)
          /\ \A r \in 0 .. Cardinality(kept) - 1 : \E i \in kept : Rank(i) = r
      BY <2>2, RankOrders
    <2> HIDE DEF Rank
    <2> DEFINE place == [r \in 0 .. count' - 1 |-> CHOOSE i \in kept : To(i) = Pos(r)]
    <2>7. ASSUME NEW r \in 0 .. count' - 1
          PROVE  /\ Pos(r) \in 0 .. size - 1
                 /\ \E i \in kept : To(i) = Pos(r)
                 /\ place[r] \in kept /\ Rank(place[r]) = r
      <3>1. r \in 0 .. size - 1 /\ r \in 0 .. Cardinality(kept) - 1
        BY <2>1, <2>5 DEF RingOK, RingType
      <3>2. PICK i \in kept : Rank(i) = r
        BY <2>6, <3>1
      <3>3. place[r] \in kept /\ Pos(Rank(place[r])) = Pos(r)
        BY <3>2
      <3>4. Rank(place[r]) \in 0 .. size - 1
        BY <2>5, <2>6, <3>3 DEF RingOK, RingType
      <3>5. Rank(place[r]) = r
        BY <3>1, <3>3, <3>4, PosFits DEF RingOK
      <3>6. Pos(r) \in 0 .. size - 1
        BY <3>1, PosFits DEF RingOK, RingType
      <3>7. QED BY <3>2, <3>3, <3>5, <3>6
    <2>8. place \in [0 .. count' - 1 -> 0 .. count - 1]
      BY <2>2, <2>7
    <2>9. ASSUME NEW r \in 0 .. count' - 1 PROVE Item(r)' = Item(place[r])
      <3>1. Item(r)' = lpMsgData'[Pos(r)]
        BY <2>1 DEF Item, Pos
      <3>2. lpMsgData'[Pos(r)] = Item(CHOOSE i \in kept : To(i) = Pos(r))
        BY <2>1, <2>7
      <3>3. QED BY <3>1, <3>2
    <2>10. ASSUME NEW r \in 0 .. count' - 1, NEW s \in 0 .. count' - 1, r < s
          PROVE  place[r] < place[s]
      <3>1. /\ place[r] \in kept /\ Rank(place[r]) = r
            /\ place[s] \in kept /\ Rank(place[s]) = s
        BY <2>7
      <3> HIDE DEF place
      <3>2. r \in Int /\ s \in Int /\ r # s /\ ~ (s < r)
        BY <2>1, <2>5, <2>10 DEF RingOK, RingType
      <3>3. ~ (place[s] < place[r]) /\ place[r] # place[s]
        BY <2>6, <3>1, <3>2
      <3>4. place[r] \in Int /\ place[s] \in Int
        <4>1. \A x \in kept : x \in 0 .. count - 1
          BY <2>2
        <4>2. QED BY <3>1, <4>1
      <3>5. QED BY <3>3, <3>4
    <2>11. ASSUME NEW i \in 0 .. count - 1, i \notin Gone
          PROVE  \E r \in 0 .. count' - 1 : place[r] = i
      <3>1. i \in kept /\ Rank(i) \in 0 .. count' - 1
        BY <2>3, <2>1, <2>6, <2>11
      <3>2. place[Rank(i)] \in kept /\ Rank(place[Rank(i)]) = Rank(i)
        BY <2>7, <3>1
      <3> HIDE DEF place
      <3>3. \A x \in kept : x \in Int
        BY <2>2
      <3>4. place[Rank(i)] = i
        <4> DEFINE j == place[Rank(i)]
        <4>1. j \in kept /\ Rank(j) = Rank(i) /\ j \in Int /\ i \in Int
          BY <3>1, <3>2, <3>3
        <4>2. Rank(i) \in Int
          BY <3>1
        <4> HIDE DEF j
        <4>3. ~ (i < j) /\ ~ (j < i)
          BY <2>6, <3>1, <4>1, <4>2
        <4>4. i = j
          BY <4>1, <4>3
        <4>5. QED BY <4>4 DEF j
      <3>5. QED BY <3>1, <3>4
    <2>12. \A r \in 0 .. count' - 1 : place[r] \notin Took(n, fRemove)
      BY <2>7, <2>4
    <2> HIDE DEF place
    <2>13. QED BY <2>8, <2>9, <2>10, <2>11, <2>12 DEF Kept
  <1>3. QED BY <1>1, <1>2

\* Looking for a message, with or without a filter, removes the one it takes
\* and some of dead windows, and leaves all others as they are and in their
\* order (_CheckThreadQueue).
THEOREM ReadsKeepOrder ==
  ASSUME RingOK, NEW n \in 0 .. count, NEW fRemove \in BOOLEAN,
         NEW f, NEW fCheckChild, _CheckThreadQueue(f, fRemove, fCheckChild, n)
  PROVE  Kept({i \in 0 .. count - 1 : IsDead(Item(i))} \cup Took(n, fRemove),
              Took(n, fRemove))
  <1> DEFINE Gone == {i \in 0 .. count - 1 : IsDead(Item(i))}
                       \cup Took(n, fRemove)
  <1>1. CASE PopHead(n, fRemove) /\ f.hwnd = NoWindow /\ f.kinds = Kinds
    <2>1. \A i \in 0 .. n - 1 : i \in 0 .. count - 1 /\ Item(i).message \in Kinds
      BY PosFits DEF RingOK, RingType, Slot
    <2>2. \A i \in 0 .. n - 1 : IsDead(Item(i))
      BY <1>1, <2>1 DEF _CheckThreadQueue, IsFirst, Passes
    <2>3. 0 .. n - 1 \subseteq Gone
      BY <2>1, <2>2
    <2>4. Removes(n, fRemove) => n \in Gone
      BY DEF Took
    <2> HIDE DEF Gone
    <2>5. QED BY <1>1, <2>3, <2>4, PopKeeps DEF Gone
  <1>2. CASE Squeeze(n, fRemove)
    <2>1. \A i \in 0 .. count - 1 :
            i \in Marked(n, fRemove) \/ Item(i).hwnd = Invalid => i \in Gone
      BY DEF Marked, Took, IsDead
    <2> HIDE DEF Gone
    <2>2. QED BY <1>2, <2>1, SqueezeKeeps DEF Gone
  <1>3. QED BY <1>1, <1>2 DEF _CheckThreadQueue

-----------------------------------------------------------------------------
(* The invariant of the specification.                                     *)

\* What w alone posts, and only with ATQ_ONLYONE.
Alone(w) ==
  {m \in OnlyOnes[w] \ Posts[w] :
     \A v \in Writers \ {w} : m \notin OnlyOnes[v] \cup Posts[v]}

\* OnlyOne, in other words.
Once ==
  \A w \in Writers : \A m \in Alone(w) : \A i, j \in Live :
    Item(i) = m /\ Item(j) = m => i = j

\* Between the look and the insertion nobody else can bring the message in.
Inserting ==
  \A w \in Writers : writer[w].at = "insert" =>
    /\ writer[w].msg \in OnlyOnes[w]
    /\ writer[w].msg \in Alone(w) => \A i \in Live : Item(i) # writer[w].msg

IInv == TypeOK /\ RingWhole /\ ReaderRoused /\ Once /\ Inserting

LEMMA RingFacts ==
  /\ TypeOK => RingType
  /\ TypeOK /\ RingWhole => RingOK
  BY DEF TypeOK, RingType, RingOK

\* A step that brings nothing in and goes nowhere leaves both alone.
LEMMA KeptOnce ==
  ASSUME IInv, NEW Gone, NEW Taken, Kept(Gone, Taken),
         windows' = windows, count' \in Nat
  PROVE  /\ Once'
         /\ \A r \in Live' : \E i \in Live : Item(i) = Item(r)'
  <1>1. PICK place \in [0 .. count' - 1 -> 0 .. count - 1] :
          /\ \A r \in 0 .. count' - 1 : Item(r)' = Item(place[r])
          /\ \A r, s \in 0 .. count' - 1 : r < s => place[r] < place[s]
    BY DEF Kept
  <1>2. ASSUME NEW r \in Live'
        PROVE  /\ r \in 0 .. count' - 1 /\ place[r] \in Live
               /\ Item(r)' = Item(place[r])
    <2>1. r \in 0 .. count' - 1 /\ ~ IsDead(Item(r))'
      BY DEF Live
    <2>2. Item(r)' = Item(place[r]) /\ place[r] \in 0 .. count - 1
      BY <1>1, <2>1
    <2>3. ~ IsDead(Item(place[r]))
      BY <2>1, <2>2 DEF IsDead
    <2>4. QED BY <2>1, <2>2, <2>3 DEF Live
  <1>3. ASSUME NEW w \in Writers, NEW m \in Alone(w),
               NEW r \in Live', NEW s \in Live', Item(r)' = m, Item(s)' = m
        PROVE  r = s
    <2>1. place[r] = place[s]
      BY <1>2, <1>3 DEF IInv, Once
    <2>2. r \in 0 .. count' - 1 /\ s \in 0 .. count' - 1
      BY <1>2
    <2>3. count \in Int /\ count' \in Int
      BY DEF IInv, TypeOK
    <2>4. place[r] \in 0 .. count - 1 /\ place[s] \in 0 .. count - 1
      BY <1>2 DEF Live
    <2>5. /\ r < s => place[r] < place[s]
          /\ s < r => place[s] < place[r]
      BY <1>1, <2>2
    <2>6. place[r] \in Int /\ ~ (place[r] < place[s]) /\ ~ (place[s] < place[r])
      BY <2>1, <2>3, <2>4
    <2>7. QED BY <2>2, <2>3, <2>5, <2>6
  <1>4. Once'
    BY <1>3 DEF Once
  <1>5. QED BY <1>2, <1>4

\* A message that is put in is the last one.
LEMMA PutIn ==
  ASSUME RingOK, NEW m \in Message, _InsertQueue(m)
  PROVE  \/ UNCHANGED ring
         \/ /\ count' = count + 1
            /\ \A i \in 0 .. count - 1 : Item(i)' = Item(i)
            /\ \A i \in 0 .. count : i = count => Item(i)' = m
  <1>1. CASE UNCHANGED ring
    BY <1>1
  <1>2. CASE \/ count < size /\ Put(m)
             \/ count = size /\ GrowAndPut(m)
    <2>1. /\ count' = count + 1
          /\ \A i \in 0 .. count - 1 : Item(i)' = Item(i)
          /\ lpMsgData'[Wrap(nQueueHead' + count, size')] = m
      BY <1>2, PutKeepsOrder, GrowthKeepsOrder
    <2>2. \A i \in 0 .. count : i = count => Item(i)' = m
      BY <2>1 DEF Item, Pos
    <2>3. QED BY <2>1, <2>2
  <1>3. QED
    BY <1>1, <1>2 DEF _InsertQueue, RingOK, RingType

\* So nothing alive is in the queue that was not, except that message, ...
LEMMA InsertBrings ==
  ASSUME IInv, NEW m \in Message, _InsertQueue(m), windows' = windows
  PROVE  \A r \in Live' :
           \/ r \in Live /\ Item(r) = Item(r)'
           \/ r \in Nat /\ r = count /\ Item(r)' = m
  <1>1. RingOK
    BY RingFacts DEF IInv
  <1>2. CASE UNCHANGED ring
    BY <1>2 DEF ring, Live, Item, Pos, IsDead
  <1>3. CASE /\ count' = count + 1
             /\ \A i \in 0 .. count - 1 : Item(i)' = Item(i)
             /\ \A i \in 0 .. count : i = count => Item(i)' = m
    <2>1. TAKE r \in Live'
    <2>2. r \in 0 .. count' - 1 /\ ~ IsDead(Item(r))'
      BY DEF Live
    <2>3. CASE r = count
      BY <1>1, <1>3, <2>2, <2>3 DEF RingOK, RingType
    <2>4. CASE r # count
      <3>1. r \in 0 .. count - 1 /\ Item(r)' = Item(r)
        BY <1>1, <1>3, <2>2, <2>4 DEF RingOK, RingType
      <3>2. ~ IsDead(Item(r))
        BY <2>2, <3>1 DEF IsDead
      <3>3. QED BY <3>1, <3>2 DEF Live
    <2>5. QED BY <2>3, <2>4
  <1>4. QED BY <1>1, <1>2, <1>3, PutIn

\* ... and what is there once stays so if that message is not.
LEMMA InsertOnce ==
  ASSUME IInv, NEW m \in Message, _InsertQueue(m), windows' = windows,
         \A w \in Writers : m \in Alone(w) => \A i \in Live : Item(i) # m
  PROVE  Once'
  <1>1. ASSUME NEW w \in Writers, NEW a \in Alone(w),
               NEW r \in Live', NEW s \in Live', Item(r)' = a, Item(s)' = a
        PROVE  r = s
    <2>1. CASE a = m
      BY <1>1, <2>1, InsertBrings
    <2>2. CASE a # m
      <3>1. r \in Live /\ Item(r) = a /\ s \in Live /\ Item(s) = a
        BY <1>1, <2>2, InsertBrings
      <3>2. QED BY <3>1 DEF IInv, Once
    <2>3. QED BY <2>1, <2>2
  <1>2. QED BY <1>1 DEF Once

-----------------------------------------------------------------------------
(* The steps.                                                              *)

LEMMA InitHolds == Init => IInv
  <1> SUFFICES ASSUME Init PROVE IInv
    OBVIOUS
  <1>1. TypeOK
    <2>1. /\ lpMsgData \in [0 .. size - 1 -> Slot] /\ size \in Nat \ {0}
          /\ writer \in [Writers -> [at : {"idle", "insert", "signal"},
                                    msg : Message]]
      BY BlankSlot, MsgQueueAssumption DEF Init
    <2>2. reader \in [at : {"run", "get", "idle"}, filter : Filters \cup {Any}]
      BY DEF Init
    <2>3. count \in 0 .. size /\ nQueueHead \in 0 .. size - 1
          /\ nQueueTail \in 0 .. size - 1
      BY <2>1 DEF Init
    <2>4. QED BY <2>1, <2>2, <2>3 DEF Init, TypeOK
  <1>2. RingWhole
    BY MsgQueueAssumption DEF Init, RingWhole, Pos, Wrap
  <1>3. Live = {}
    BY DEF Init, Live
  <1>4. ReaderRoused /\ Once
    BY <1>3 DEF Init, ReaderRoused, Once
  <1>5. Inserting
    BY DEF Init, Inserting
  <1>6. QED BY <1>1, <1>2, <1>4, <1>5 DEF IInv

LEMMA RingPart ==
  ASSUME RingOK', UNCHANGED << hWaitEvent, windows, writer, reader >>, TypeOK
  PROVE  TypeOK' /\ RingWhole'
  BY DEF RingOK, RingType, TypeOK

\* A message goes in and its writer turns to the event.
LEMMA BringStep ==
  ASSUME IInv, NEW w \in Writers, NEW m \in Message, _InsertQueue(m),
         Turns(w, "signal", Blank), UNCHANGED << hWaitEvent, windows, reader >>,
         \A v \in Writers : m \in Alone(v) =>
            v = w /\ \A i \in Live : Item(i) # m
  PROVE  IInv'
  <1>1. RingOK'
    BY InsertWhole, RingFacts DEF IInv
  <1>2. TypeOK'
    BY <1>1, BlankSlot DEF IInv, RingOK, RingType, TypeOK, Turns
  <1>3. RingWhole'
    BY <1>1 DEF RingOK
  <1>4. writer'[w].at = "signal"
    BY DEF IInv, TypeOK, Turns
  <1>5. ReaderRoused'
    BY <1>4 DEF ReaderRoused
  <1>6. Once'
    BY InsertOnce
  <1>7. ASSUME NEW v \in Writers, writer'[v].at = "insert"
        PROVE  /\ writer'[v].msg \in OnlyOnes[v]
               /\ writer'[v].msg \in Alone(v)
                    => \A i \in Live' : Item(i)' # writer'[v].msg
    <2>1. v # w /\ writer'[v] = writer[v]
      BY <1>4, <1>7 DEF IInv, TypeOK, Turns
    <2>2. /\ writer[v].msg \in OnlyOnes[v]
          /\ writer[v].msg \in Alone(v)
               => \A i \in Live : Item(i) # writer[v].msg
      BY <1>7, <2>1 DEF IInv, Inserting
    <2>3. ASSUME writer[v].msg \in Alone(v), NEW i \in Live'
          PROVE  Item(i)' # writer[v].msg
      BY <2>1, <2>2, <2>3, InsertBrings
    <2>4. QED BY <2>1, <2>2, <2>3
  <1>8. Inserting'
    BY <1>7 DEF Inserting
  <1>9. QED BY <1>2, <1>3, <1>5, <1>6, <1>8 DEF IInv

LEMMA PostStep ==
  ASSUME IInv, NEW w \in Writers, NEW m \in Message, Post(w, m)
  PROVE  IInv'
  <1>1. \A v \in Writers : m \notin Alone(v)
    BY DEF Post, Alone
  <1>2. QED BY <1>1, BringStep DEF Post

LEMMA InsertStep ==
  ASSUME IInv, NEW w \in Writers, Insert(w)
  PROVE  IInv'
  <1>1. /\ writer[w].at = "insert" /\ writer[w].msg \in Message
        /\ writer[w].msg \in OnlyOnes[w]
        /\ writer[w].msg \in Alone(w) => \A i \in Live : Item(i) # writer[w].msg
    BY DEF Insert, IInv, Inserting, TypeOK
  <1>2. \A v \in Writers : writer[w].msg \in Alone(v) =>
          v = w /\ \A i \in Live : Item(i) # writer[w].msg
    BY <1>1 DEF Alone
  <1>3. QED BY <1>1, <1>2, BringStep DEF Insert

LEMMA SignalStep ==
  ASSUME IInv, NEW w \in Writers, Signal(w)
  PROVE  IInv'
  <1>1. TypeOK'
    BY BlankSlot DEF IInv, TypeOK, Signal, Turns, ring
  <1>2. RingWhole' /\ Once' /\ ReaderRoused'
    BY DEF IInv, RingWhole, Once, ReaderRoused, Signal, ring,
           Live, Item, Pos, IsDead
  <1>3. Inserting'
    BY DEF IInv, TypeOK, Inserting, Signal, Turns, ring, Live, Item, Pos, IsDead
  <1>4. QED BY <1>1, <1>2, <1>3 DEF IInv

\* A look by a writer or by the reader.
LEMMA LookStep ==
  ASSUME IInv, NEW n \in 0 .. count, NEW fRemove \in BOOLEAN,
         NEW f, NEW fCheckChild, _CheckThreadQueue(f, fRemove, fCheckChild, n),
         UNCHANGED << hWaitEvent, windows >>
  PROVE  /\ RingOK' /\ Once'
         /\ \A r \in Live' : \E i \in Live : Item(i) = Item(r)'
  <1>1. RingOK /\ RingOK'
    BY LookWhole, RingFacts DEF IInv
  <1>2. count' \in Nat
    BY <1>1 DEF RingOK, RingType
  <1>3. \E Gone, Taken : Kept(Gone, Taken)
    BY <1>1, ReadsKeepOrder
  <1>4. QED BY <1>1, <1>2, <1>3, KeptOnce

LEMMA PostOnlyOneStep ==
  ASSUME IInv, NEW w \in Writers, NEW m \in Message, PostOnlyOne(w, m)
  PROVE  IInv'
  <1> DEFINE f == [hwnd |-> m.hwnd, kinds |-> {m.message}]
  <1>1. /\ CanPost(w, m) /\ m \in OnlyOnes[w]
        /\ UNCHANGED << hWaitEvent, windows, reader >>
    BY DEF PostOnlyOne
  <1>2. PICK n \in 0 .. count :
          /\ _CheckThreadQueue(f, FALSE, FALSE, n)
          /\ IF n = count THEN Turns(w, "insert", m) ELSE UNCHANGED writer
    BY DEF PostOnlyOne
  <1>3. /\ RingOK' /\ Once'
        /\ \A r \in Live' : \E i \in Live : Item(i) = Item(r)'
    BY <1>1, <1>2, LookStep
  <1>4. \/ writer' = writer
        \/ /\ n = count
           /\ writer' = [writer EXCEPT ![w] = [at |-> "insert", msg |-> m]]
    BY <1>2 DEF Turns
  <1>5. TypeOK'
    <2>1. writer' \in [Writers -> [at : {"idle", "insert", "signal"}, msg : Message]]
      BY <1>4 DEF IInv, TypeOK
    <2>2. RingType'
      BY <1>3 DEF RingOK
    <2>3. hWaitEvent \in BOOLEAN /\ windows \subseteq Windows
          /\ reader \in [at : {"run", "get", "idle"}, filter : Filters \cup {Any}]
      BY DEF IInv, TypeOK
    <2> HIDE DEF f
    <2>4. QED BY <1>1, <2>1, <2>2, <2>3 DEF RingType, TypeOK
  <1>6. RingWhole'
    BY <1>3 DEF RingOK
  <1>7. ReaderRoused'
    <2>1. \A v \in Writers : writer[v].at = "signal" => writer'[v].at = "signal"
      BY <1>1, <1>4 DEF CanPost, IInv, TypeOK
    <2>2. QED BY <1>1, <1>3, <2>1 DEF IInv, ReaderRoused
  <1>8. n = count => \A i \in Live : Item(i) # m
    <2>1. SUFFICES ASSUME n = count, NEW i \in Live, Item(i) = m PROVE FALSE
      OBVIOUS
    <2>2. i \in 0 .. n - 1 /\ ~ IsDead(Item(i))
      BY <2>1 DEF Live
    <2>3. ~ Passes(f, FALSE, Item(i))
      BY <1>2, <2>2 DEF _CheckThreadQueue, IsFirst
    <2>4. QED BY <2>1, <2>3 DEF Passes
  <1>9. ASSUME NEW v \in Writers, writer'[v].at = "insert"
        PROVE  /\ writer'[v].msg \in OnlyOnes[v]
               /\ writer'[v].msg \in Alone(v)
                    => \A i \in Live' : Item(i)' # writer'[v].msg
    <2>1. /\ writer'[v].msg \in OnlyOnes[v]
          /\ writer'[v].msg \in Alone(v)
               => \A i \in Live : Item(i) # writer'[v].msg
      <3>1. CASE writer' = writer
        <4>1. writer[v].at = "insert" /\ writer'[v] = writer[v]
          BY <1>9, <3>1
        <4>2. QED BY <4>1 DEF IInv, Inserting
      <3>2. CASE n = count /\ writer' = [writer EXCEPT ![w] = [at |-> "insert", msg |-> m]]
        <4>1. CASE v = w
          <5>1. writer'[v].msg = m
            BY <3>2, <4>1 DEF IInv, TypeOK
          <5>2. QED BY <1>1, <1>8, <3>2, <4>1, <5>1
        <4>2. CASE v # w
          <5>1. writer'[v] = writer[v]
            BY <3>2, <4>2 DEF IInv, TypeOK
          <5>2. QED BY <1>9, <5>1 DEF IInv, Inserting
        <4>3. QED BY <4>1, <4>2
      <3>3. QED BY <1>4, <3>1, <3>2
    <2>2. QED BY <1>3, <2>1
  <1>10. Inserting'
    BY <1>9 DEF Inserting
  <1>11. QED BY <1>3, <1>5, <1>6, <1>7, <1>10 DEF IInv

\* PeekMessage and GetMessage, the first time and again.
LEMMA ReadStep ==
  ASSUME IInv, NEW f \in Filters \cup {Any}, NEW fRemove \in BOOLEAN,
         NEW notFound \in {"run", "idle"},
         CheckThreadQueue(f, fRemove, "run", notFound)
  PROVE  IInv'
  <1>1. PICK n \in 0 .. count :
          /\ _CheckThreadQueue(f, fRemove, TRUE, n)
          /\ reader' = [at |-> IF n < count THEN "run" ELSE notFound,
                        filter |-> f]
          /\ UNCHANGED << hWaitEvent, windows, writer >>
    BY DEF CheckThreadQueue
  <1>2. /\ RingOK' /\ Once'
        /\ \A r \in Live' : \E i \in Live : Item(i) = Item(r)'
    BY <1>1, LookStep
  <1>3. TypeOK'
    BY <1>1, <1>2 DEF IInv, RingOK, RingType, TypeOK
  <1>4. RingWhole'
    BY <1>2 DEF RingOK
  <1>5. ReaderRoused'
    <2>1. SUFFICES ASSUME reader'.at = "idle", NEW r \in Live',
                          Passes(reader'.filter, TRUE, Item(r)')
                   PROVE  FALSE
      BY DEF ReaderRoused, Passes
    <2>2. n = count /\ reader'.filter = f
      BY <1>1, <2>1 DEF IInv, TypeOK
    <2>3. PICK i \in Live : Item(i) = Item(r)'
      BY <1>2, <2>1
    <2>4. i \in 0 .. n - 1 /\ ~ IsDead(Item(i))
      BY <2>2 DEF Live
    <2>5. ~ Passes(f, TRUE, Item(i))
      BY <1>1, <2>4 DEF _CheckThreadQueue, IsFirst
    <2>6. QED BY <2>1, <2>2, <2>3, <2>5
  <1>6. Inserting'
    BY <1>1, <1>2 DEF IInv, Inserting
  <1>7. QED BY <1>2, <1>3, <1>4, <1>5, <1>6 DEF IInv

LEMMA WaitStep ==
  ASSUME IInv, WinMsg_Wait
  PROVE  IInv'
  <1>1. TypeOK'
    BY DEF IInv, TypeOK, WinMsg_Wait, ring
  <1>2. reader'.at = "get"
    BY DEF IInv, TypeOK, WinMsg_Wait
  <1>3. ReaderRoused'
    BY <1>2 DEF ReaderRoused
  <1>4. RingWhole' /\ Once' /\ Inserting'
    BY DEF IInv, RingWhole, Once, Inserting, WinMsg_Wait, ring,
           Live, Item, Pos, IsDead
  <1>5. QED BY <1>1, <1>3, <1>4 DEF IInv

\* What is marked stays in its slot, and is dead.
LEMMA ClearStep ==
  ASSUME IInv, NEW f \in Clears, ClearThreadQueue(f)
  PROVE  IInv'
  <1>1. /\ UNCHANGED << size, count, nQueueHead, nQueueTail, hWaitEvent, windows,
                        writer, reader >>
        /\ DOMAIN lpMsgData' = 0 .. size - 1
        /\ \A p \in 0 .. size - 1 :
             \/ lpMsgData'[p] = lpMsgData[p]
             \/ lpMsgData'[p] = [lpMsgData[p] EXCEPT !.hwnd = Invalid]
    BY DEF ClearThreadQueue
  <1>2. lpMsgData' \in [0 .. size - 1 -> Slot]
    BY DEF ClearThreadQueue, IInv, TypeOK, Slot
  <1>3. TypeOK' /\ RingWhole'
    BY <1>1, <1>2 DEF IInv, TypeOK, RingWhole, Pos
  <1>4. ASSUME NEW r \in Live' PROVE r \in Live /\ Item(r)' = Item(r)
    <2>1. r \in 0 .. count - 1 /\ r \in 0 .. size - 1 /\ ~ IsDead(Item(r))'
      BY <1>1 DEF Live, IInv, TypeOK
    <2>2. Item(r)' = lpMsgData'[Pos(r)]
      BY <1>1 DEF Item, Pos
    <2>3. RingType /\ r \in 0 .. size
      BY <2>1, RingFacts DEF IInv, TypeOK
    <2>4. Pos(r) \in 0 .. size - 1 /\ Item(r) \in Slot
      BY <2>1, <2>3, PosFits
    <2>5. /\ Item(r)' = lpMsgData'[Pos(r)] /\ Pos(r) \in 0 .. size - 1
          /\ Item(r) \in Slot
      BY <2>2, <2>4
    <2>6. Item(r)' = Item(r)
      BY <1>1, <2>1, <2>5 DEF IsDead, Item, Slot
    <2>7. ~ IsDead(Item(r))
      BY <1>1, <2>1, <2>6 DEF IsDead
    <2>8. QED BY <2>1, <2>6, <2>7 DEF Live
  <1>5. ReaderRoused' /\ Once' /\ Inserting'
    BY <1>1, <1>4 DEF IInv, ReaderRoused, Once, Inserting, Passes
  <1>6. QED BY <1>3, <1>5 DEF IInv

LEMMA DestroyStep ==
  ASSUME IInv, NEW w \in Windows, DestroyWindow(w)
  PROVE  IInv'
  <1>1. TypeOK' /\ RingWhole'
    BY DEF IInv, TypeOK, RingWhole, Pos, DestroyWindow, ring
  <1>2. ASSUME NEW r \in Live' PROVE r \in Live /\ Item(r)' = Item(r)
    BY DEF DestroyWindow, ring, Live, Item, Pos, IsDead
  <1>3. ReaderRoused' /\ Once' /\ Inserting'
    BY <1>2 DEF DestroyWindow, IInv, ReaderRoused, Once, Inserting, Passes
  <1>4. QED BY <1>1, <1>3 DEF IInv

LEMMA NextHolds == IInv /\ [Next]_vars => IInv'
  <1> SUFFICES ASSUME IInv, [Next]_vars PROVE IInv'
    OBVIOUS
  <1>1. ASSUME NEW w \in Writers, Writer(w) PROVE IInv'
    BY <1>1, PostStep, PostOnlyOneStep, InsertStep, SignalStep DEF Writer
  <1>2. CASE Reader
    <2>1. ASSUME NEW f \in Filters, GetMessage(f) PROVE IInv'
      BY <2>1, ReadStep DEF GetMessage
    <2>2. ASSUME NEW f \in Filters, NEW b \in BOOLEAN, PeekMessage(f, b)
          PROVE  IInv'
      BY <2>2, ReadStep DEF PeekMessage
    <2>3. CASE GetAgain
      <3>1. reader.filter \in Filters \cup {Any}
        BY DEF IInv, TypeOK
      <3>2. QED BY <2>3, <3>1, ReadStep DEF GetAgain
    <2>4. QED BY <1>2, <2>1, <2>2, <2>3, WaitStep DEF Reader
  <1>3. CASE UNCHANGED vars
    <2>1. TypeOK' /\ RingWhole'
      BY <1>3 DEF vars, ring, IInv, TypeOK, RingWhole, Pos
    <2>2. ReaderRoused'
      BY <1>3 DEF vars, ring, IInv, ReaderRoused, Live, Item, Pos, IsDead, Passes
    <2>3. Once'
      BY <1>3 DEF vars, ring, IInv, Once, Live, Item, Pos, IsDead
    <2>4. Inserting'
      BY <1>3 DEF vars, ring, IInv, Inserting, Live, Item, Pos, IsDead
    <2>5. QED BY <2>3, <2>1, <2>2, <2>4 DEF IInv
  <1>4. QED BY <1>1, <1>2, <1>3, ClearStep, DestroyStep DEF Next

-----------------------------------------------------------------------------
(* The theorems.                                                           *)

THEOREM Invariance == Spec => []IInv
  BY InitHolds, NextHolds, PTL DEF Spec

\* Every variable has its type; the count, the head and the tail are in range.
THEOREM TypeCorrect == Spec => []TypeOK
  <1>1. IInv => TypeOK
    BY DEF IInv
  <1>2. QED BY <1>1, Invariance, PTL

\* The head, the tail and the count describe one stretch of the ring.
THEOREM RingStaysWhole == Spec => []RingWhole
  <1>1. IInv => RingWhole
    BY DEF IInv
  <1>2. QED BY <1>1, Invariance, PTL

\* No message is put in without the thread's being roused for it.
THEOREM ReaderIsRoused == Spec => []ReaderRoused
  <1>1. IInv => ReaderRoused
    BY DEF IInv
  <1>2. QED BY <1>1, Invariance, PTL

\* What one thread alone posts with ATQ_ONLYONE is in the queue at most once.
THEOREM OnlyOneHolds == Spec => []OnlyOne
  <1>1. ASSUME IInv, NEW w \in Writers, NEW m \in OnlyOnes[w] \ Posts[w],
               \A v \in Writers \ {w} : m \notin OnlyOnes[v] \cup Posts[v]
        PROVE  Cardinality({i \in Live : Item(i) = m}) <= 1
    <2> DEFINE S == {i \in Live : Item(i) = m}
    <2>1. m \in Alone(w)
      BY <1>1 DEF Alone
    <2>2. \A i, j \in S : i = j
      BY <1>1, <2>1 DEF IInv, Once
    <2>3. S = {} \/ \E i : S = {i}
      BY <2>2
    <2> HIDE DEF S
    <2>4. Cardinality(S) = 0 \/ Cardinality(S) = 1
      BY <2>3, FS_EmptySet, FS_Singleton
    <2>5. QED BY <2>4 DEF S
  <1>2. IInv => OnlyOne
    BY <1>1 DEF OnlyOne
  <1>3. QED BY <1>2, Invariance, PTL
=============================================================================
