--------------------------- MODULE RunQueueProofs ---------------------------
(***************************************************************************)
(* Proofs about RunQueue, for any threads, priorities, policies and calls. *)
(* AloneWhenRotated is their only premise: they speak of runs in which no  *)
(* thread of THREAD_POLICY_ROTATION with ticks left is rescheduled in a    *)
(* ring it shares, which breaks that ring.                                 *)
(***************************************************************************)
EXTENDS RunQueue, FiniteSetTheorems, TLAPS

-----------------------------------------------------------------------------
(* The rings. *)

\* AddToRunQueue keeps the rings whole and adds just the one thread.
LEMMA LinkWhole ==
  ASSUME NEW q \in Rings, NEW pri \in [Threads -> Levels], NEW t \in Threads,
         Whole(q, pri), ~Linked(q, t), NoThread \notin Threads
  PROVE  LET r == Link(q, t, pri[t])
         IN /\ r \in Rings /\ Whole(r, pri)
            /\ \A u \in Threads : Linked(r, u) <=> u = t \/ Linked(q, u)
<1> DEFINE p == pri[t]
           list == q.lpThreadList[p]
           last == q.lpPrevRun[list]
           r == Link(q, t, p)
<1>1. p \in Levels
  OBVIOUS
<1>2. CASE list = NoThread
  <2>1. Ring(q, pri, p) = {}
    BY <1>1, <1>2 DEF Whole, ListsAgree, Ring, Rings
  <2>2. /\ r.lpNextRun = [q.lpNextRun EXCEPT ![t] = t]
        /\ r.lpPrevRun = [q.lpPrevRun EXCEPT ![t] = t]
        /\ r.lpThreadList = [q.lpThreadList EXCEPT ![p] = t]
        /\ r.dwPriorityBitmap = q.dwPriorityBitmap \cup {p}
        /\ r.uPriorityGroup = q.uPriorityGroup \cup {Group(p)}
        /\ r \in Rings
    BY <1>1, <1>2 DEF Link, Rings
  <2>3. \A u \in Threads : Linked(r, u) <=> u = t \/ Linked(q, u)
    BY <2>2 DEF Linked, Rings
  <2>4. \A x \in Levels : Ring(r, pri, x) = IF x = p THEN {t} ELSE Ring(q, pri, x)
    BY <2>1, <2>3 DEF Ring
  <2>5. LinksAgree(r, pri)
    <3> SUFFICES ASSUME NEW u \in Threads, Linked(r, u)
                 PROVE  /\ r.lpNextRun[u] \in Ring(r, pri, pri[u])
                        /\ r.lpPrevRun[u] \in Ring(r, pri, pri[u])
                        /\ r.lpPrevRun[r.lpNextRun[u]] = u
                        /\ r.lpNextRun[r.lpPrevRun[u]] = u
      BY DEF LinksAgree
    <3>1. CASE u = t
      BY <3>1, <2>2, <2>4 DEF Rings
    <3>2. CASE u # t
      <4>1. Linked(q, u)
        BY <3>2, <2>3
      <4>2. /\ q.lpNextRun[u] \in Ring(q, pri, pri[u])
            /\ q.lpPrevRun[u] \in Ring(q, pri, pri[u])
            /\ q.lpPrevRun[q.lpNextRun[u]] = u
            /\ q.lpNextRun[q.lpPrevRun[u]] = u
        BY <4>1 DEF Whole, LinksAgree
      <4>3. q.lpNextRun[u] # t /\ q.lpPrevRun[u] # t /\ pri[u] # p
        BY <4>2, <4>1, <2>1 DEF Ring
      <4> QED
        BY <4>2, <4>3, <3>2, <2>2, <2>4 DEF Rings, Ring
    <3> QED
      BY <3>1, <3>2
  <2>6. ListsAgree(r, pri)
    <3> SUFFICES ASSUME NEW x \in Levels
                 PROVE  /\ Ring(r, pri, x) = {} => r.lpThreadList[x] = NoThread
                        /\ Ring(r, pri, x) # {} =>
                             r.lpThreadList[x] \in Ring(r, pri, x)
                        /\ x \in r.dwPriorityBitmap <=> Ring(r, pri, x) # {}
      BY DEF ListsAgree
    <3> QED
      BY <2>2, <2>4 DEF Whole, ListsAgree, Rings
  <2>7. GroupsAgree(r)
    BY <2>2 DEF Whole, GroupsAgree, Rings
  <2>8. OneRing(r, pri)
    <3> SUFFICES ASSUME NEW S \in SUBSET Threads, NEW x \in Levels,
                        S # {}, S \subseteq Ring(r, pri, x),
                        \A u \in S : r.lpNextRun[u] \in S
                 PROVE  S = Ring(r, pri, x)
      BY DEF OneRing
    <3>1. CASE x = p
      BY <3>1, <2>4
    <3>2. CASE x # p
      <4>1. t \notin S
        BY <3>2 DEF Ring
      <4>2. \A u \in S : q.lpNextRun[u] \in S
        BY <4>1, <2>2 DEF Rings
      <4> QED
        BY <3>2, <4>2, <2>4 DEF Whole, OneRing
    <3> QED
      BY <3>1, <3>2
  <2> QED
    BY <2>2, <2>3, <2>5, <2>6, <2>7, <2>8 DEF Whole
<1>3. CASE list # NoThread
  <2>1. list \in Ring(q, pri, p)
    BY <1>1, <1>3 DEF Whole, ListsAgree
  <2>2. /\ list \in Threads /\ Linked(q, list) /\ pri[list] = p /\ list # t
        /\ last \in Threads /\ Linked(q, last) /\ pri[last] = p /\ last # t
        /\ q.lpNextRun[last] = list
    BY <2>1 DEF Whole, LinksAgree, Ring
  <2>3. /\ r.lpNextRun = [q.lpNextRun EXCEPT ![last] = t, ![t] = list]
        /\ r.lpPrevRun = [q.lpPrevRun EXCEPT ![t] = last, ![list] = t]
        /\ r.lpThreadList = [q.lpThreadList EXCEPT ![p] = t]
        /\ r.dwPriorityBitmap = q.dwPriorityBitmap
        /\ r.uPriorityGroup = q.uPriorityGroup
        /\ r \in Rings
    BY <1>1, <1>3, <2>2 DEF Link, Rings
  <2>a. /\ r.lpNextRun[t] = list /\ r.lpNextRun[last] = t
        /\ r.lpPrevRun[t] = last /\ r.lpPrevRun[list] = t
        /\ \A u \in Threads \ {t, last} : r.lpNextRun[u] = q.lpNextRun[u]
        /\ \A u \in Threads \ {t, list} : r.lpPrevRun[u] = q.lpPrevRun[u]
    <3>1. /\ q.lpNextRun \in [Threads -> Threads \cup {NoThread}]
          /\ q.lpPrevRun \in [Threads -> Threads \cup {NoThread}]
      BY DEF Rings
    <3>2. r.lpNextRun = [q.lpNextRun EXCEPT ![last] = t, ![t] = list]
      BY <2>3
    <3>3. r.lpPrevRun = [q.lpPrevRun EXCEPT ![t] = last, ![list] = t]
      BY <2>3
    <3>4. /\ r.lpNextRun[t] = list /\ r.lpNextRun[last] = t
          /\ \A u \in Threads \ {t, last} : r.lpNextRun[u] = q.lpNextRun[u]
      BY <3>1, <3>2, <2>2
    <3>5. /\ r.lpPrevRun[t] = last /\ r.lpPrevRun[list] = t
          /\ \A u \in Threads \ {t, list} : r.lpPrevRun[u] = q.lpPrevRun[u]
      BY <3>1, <3>3, <2>2
    <3> QED
      BY <3>4, <3>5
  <2>4. \A u \in Threads : Linked(r, u) <=> u = t \/ Linked(q, u)
    BY <2>2, <2>3 DEF Linked, Rings
  <2>5. \A x \in Levels :
          Ring(r, pri, x) = IF x = p THEN Ring(q, pri, p) \cup {t}
                                     ELSE Ring(q, pri, x)
    BY <2>4 DEF Ring
  <2>6. LinksAgree(r, pri)
    <3> SUFFICES ASSUME NEW u \in Threads, Linked(r, u)
                 PROVE  /\ r.lpNextRun[u] \in Ring(r, pri, pri[u])
                        /\ r.lpPrevRun[u] \in Ring(r, pri, pri[u])
                        /\ r.lpPrevRun[r.lpNextRun[u]] = u
                        /\ r.lpNextRun[r.lpPrevRun[u]] = u
      BY DEF LinksAgree
    <3>1. CASE u = t
      BY <3>1, <2>2, <2>a, <2>4 DEF Ring
    <3>2. CASE u # t
      <4>1. Linked(q, u)
        BY <3>2, <2>4
      <4>2. /\ q.lpNextRun[u] \in Ring(q, pri, pri[u])
            /\ q.lpPrevRun[u] \in Ring(q, pri, pri[u])
            /\ q.lpPrevRun[q.lpNextRun[u]] = u
            /\ q.lpNextRun[q.lpPrevRun[u]] = u
        BY <4>1 DEF Whole, LinksAgree
      <4>3. q.lpNextRun[u] # t /\ q.lpPrevRun[u] # t
        BY <4>2 DEF Ring
      <4>4. u # last => q.lpNextRun[u] # list
        BY <4>2, <2>2
      <4>5. u # list => q.lpPrevRun[u] # last
        BY <4>2, <2>2
      <4> QED
        <5>1. /\ u = last => r.lpNextRun[u] = t
              /\ u # last => r.lpNextRun[u] = q.lpNextRun[u]
              /\ u = list => r.lpPrevRun[u] = t
              /\ u # list => r.lpPrevRun[u] = q.lpPrevRun[u]
          BY <3>2, <2>a
        <5>2. /\ r.lpNextRun[u] \in Ring(r, pri, pri[u])
              /\ r.lpPrevRun[u] \in Ring(r, pri, pri[u])
          BY <4>2, <5>1, <2>2, <2>4 DEF Ring
        <5>3. r.lpPrevRun[r.lpNextRun[u]] = u
          <6>1. CASE u = last
            BY <6>1, <5>1, <2>a
          <6>2. CASE u # last
            <7>1. q.lpNextRun[u] \in Threads \ {t, list}
              BY <6>2, <4>2, <4>3, <4>4 DEF Ring
            <7> QED
              BY <6>2, <7>1, <4>2, <5>1, <2>a
          <6> QED
            BY <6>1, <6>2
        <5>4. r.lpNextRun[r.lpPrevRun[u]] = u
          BY <4>2, <4>3, <4>5, <5>1, <2>2, <2>a DEF Ring
        <5> QED
          BY <5>2, <5>3, <5>4
    <3> QED
      BY <3>1, <3>2
  <2>7. ListsAgree(r, pri)
    <3> SUFFICES ASSUME NEW x \in Levels
                 PROVE  /\ Ring(r, pri, x) = {} => r.lpThreadList[x] = NoThread
                        /\ Ring(r, pri, x) # {} =>
                             r.lpThreadList[x] \in Ring(r, pri, x)
                        /\ x \in r.dwPriorityBitmap <=> Ring(r, pri, x) # {}
      BY DEF ListsAgree
    <3> QED
      BY <2>1, <2>3, <2>5 DEF Whole, ListsAgree, Rings
  <2>8. GroupsAgree(r)
    BY <2>3 DEF Whole, GroupsAgree
  <2>9. OneRing(r, pri)
    <3> SUFFICES ASSUME NEW S \in SUBSET Threads, NEW x \in Levels,
                        S # {}, S \subseteq Ring(r, pri, x),
                        \A u \in S : r.lpNextRun[u] \in S
                 PROVE  S = Ring(r, pri, x)
      BY DEF OneRing
    <3>1. CASE x = p
      <4> DEFINE T == S \ {t}
      <4>1. t \in S => list \in S
        BY <2>a
      <4>2. T # {} /\ T \subseteq Ring(q, pri, p)
        BY <3>1, <4>1, <2>2, <2>5
      <4>3. \A u \in T : q.lpNextRun[u] \in T
        <5> SUFFICES ASSUME NEW u \in T PROVE q.lpNextRun[u] \in T
          OBVIOUS
        <5>1. CASE u = last
          BY <5>1, <2>2, <2>a, <4>1
        <5>2. CASE u # last
          <6>1. r.lpNextRun[u] = q.lpNextRun[u]
            BY <5>2, <2>a, <4>2 DEF Ring
          <6>2. q.lpNextRun[u] # t
            BY <4>2 DEF Whole, LinksAgree, Ring
          <6> QED
            BY <6>1, <6>2
        <5> QED
          BY <5>1, <5>2
      <4>4. T = Ring(q, pri, p)
        BY <4>2, <4>3, <1>1 DEF Whole, OneRing
      <4>5. t \in S
        <5>1. last \in Ring(q, pri, p)
          BY <2>2 DEF Ring
        <5> QED
          BY <5>1, <4>4, <2>a
      <4> QED
        BY <3>1, <4>4, <4>5, <2>5
    <3>2. CASE x # p
      <4>1. t \notin S /\ last \notin S
        BY <3>2, <2>2 DEF Ring
      <4>2. \A u \in S : q.lpNextRun[u] \in S
        BY <4>1, <2>3 DEF Rings
      <4> QED
        BY <3>2, <4>2, <2>5 DEF Whole, OneRing
    <3> QED
      BY <3>1, <3>2
  <2> QED
    BY <2>3, <2>4, <2>6, <2>7, <2>8, <2>9 DEF Whole
<1> QED
  BY <1>2, <1>3

\* RemoveFromRunQueue keeps the rings whole and removes just the one thread.
LEMMA UnlinkWhole ==
  ASSUME NEW q \in Rings, NEW pri \in [Threads -> Levels], NEW t \in Threads,
         Whole(q, pri), Linked(q, t), NoThread \notin Threads
  PROVE  LET r == Unlink(q, t, pri[t])
         IN /\ r \in Rings /\ Whole(r, pri)
            /\ \A u \in Threads : Linked(r, u) <=> u # t /\ Linked(q, u)
<1> DEFINE p == pri[t]
           next == q.lpNextRun[t]
           prev == q.lpPrevRun[t]
           r == Unlink(q, t, p)
<1>1. p \in Levels
  OBVIOUS
<1>2. /\ next \in Threads /\ Linked(q, next) /\ pri[next] = p
      /\ prev \in Threads /\ Linked(q, prev) /\ pri[prev] = p
      /\ q.lpPrevRun[next] = t /\ q.lpNextRun[prev] = t
  BY DEF Whole, LinksAgree, Ring
<1>3. t \in Ring(q, pri, p)
  BY DEF Ring
<1>4. q.lpThreadList[p] \in Ring(q, pri, p) /\ p \in q.dwPriorityBitmap
  BY <1>1, <1>3 DEF Whole, ListsAgree
<1>5. CASE next = t
  <2>1. prev = t
    BY <1>2, <1>5
  <2>2. Ring(q, pri, p) = {t}
    <3>1. {t} \in SUBSET Threads /\ {t} # {} /\ {t} \subseteq Ring(q, pri, p)
      BY <1>3
    <3>2. \A u \in {t} : q.lpNextRun[u] \in {t}
      BY <1>5
    <3> QED
      BY <3>1, <3>2, <1>1 DEF Whole, OneRing
  <2>3. /\ r.lpNextRun = [q.lpNextRun EXCEPT ![t] = NoThread]
        /\ r.lpPrevRun = [q.lpPrevRun EXCEPT ![t] = NoThread]
        /\ r.lpThreadList = [q.lpThreadList EXCEPT ![p] = NoThread]
        /\ r.dwPriorityBitmap = q.dwPriorityBitmap \ {p}
        /\ r.uPriorityGroup =
             IF \E x \in r.dwPriorityBitmap : Group(x) = Group(p)
             THEN q.uPriorityGroup ELSE q.uPriorityGroup \ {Group(p)}
        /\ r \in Rings
    BY ZenonT(60), <1>1, <1>5 DEF Unlink, ClearPriorityBitmap, Rings
  <2>4. \A u \in Threads : Linked(r, u) <=> u # t /\ Linked(q, u)
    BY <2>3 DEF Linked, Rings
  <2>5. \A x \in Levels : Ring(r, pri, x) = IF x = p THEN {} ELSE Ring(q, pri, x)
    BY <2>2, <2>4 DEF Ring
  <2>6. LinksAgree(r, pri)
    <3> SUFFICES ASSUME NEW u \in Threads, Linked(r, u)
                 PROVE  /\ r.lpNextRun[u] \in Ring(r, pri, pri[u])
                        /\ r.lpPrevRun[u] \in Ring(r, pri, pri[u])
                        /\ r.lpPrevRun[r.lpNextRun[u]] = u
                        /\ r.lpNextRun[r.lpPrevRun[u]] = u
      BY DEF LinksAgree
    <3>1. u # t /\ Linked(q, u)
      BY <2>4
    <3>2. pri[u] # p
      BY <3>1, <2>2 DEF Ring
    <3>3. /\ q.lpNextRun[u] \in Ring(q, pri, pri[u])
          /\ q.lpPrevRun[u] \in Ring(q, pri, pri[u])
          /\ q.lpPrevRun[q.lpNextRun[u]] = u
          /\ q.lpNextRun[q.lpPrevRun[u]] = u
      BY <3>1 DEF Whole, LinksAgree
    <3>4. q.lpNextRun[u] # t /\ q.lpPrevRun[u] # t
      BY <3>2, <3>3 DEF Ring
    <3> QED
      BY <3>1, <3>2, <3>3, <3>4, <2>3, <2>5 DEF Rings, Ring
  <2>7. ListsAgree(r, pri)
    <3> SUFFICES ASSUME NEW x \in Levels
                 PROVE  /\ Ring(r, pri, x) = {} => r.lpThreadList[x] = NoThread
                        /\ Ring(r, pri, x) # {} =>
                             r.lpThreadList[x] \in Ring(r, pri, x)
                        /\ x \in r.dwPriorityBitmap <=> Ring(r, pri, x) # {}
      BY DEF ListsAgree
    <3> QED
      BY <2>3, <2>5 DEF Whole, ListsAgree, Rings
  <2>8. GroupsAgree(r)
    <3>1. q.uPriorityGroup = {Group(x) : x \in q.dwPriorityBitmap}
      BY DEF Whole, GroupsAgree
    <3>2. CASE \E x \in r.dwPriorityBitmap : Group(x) = Group(p)
      <4>1. r.uPriorityGroup = q.uPriorityGroup
        BY <3>2, <2>3
      <4>2. {Group(x) : x \in q.dwPriorityBitmap}
              = {Group(x) : x \in r.dwPriorityBitmap}
        BY <3>2, <2>3
      <4> QED
        BY <3>1, <4>1, <4>2 DEF GroupsAgree
    <3>3. CASE ~ \E x \in r.dwPriorityBitmap : Group(x) = Group(p)
      <4>1. r.uPriorityGroup = q.uPriorityGroup \ {Group(p)}
        BY <3>3, <2>3
      <4>2. {Group(x) : x \in q.dwPriorityBitmap} \ {Group(p)}
              = {Group(x) : x \in r.dwPriorityBitmap}
        BY <3>3, <2>3
      <4> QED
        BY <3>1, <4>1, <4>2 DEF GroupsAgree
    <3> QED
      BY <3>2, <3>3
  <2>9. OneRing(r, pri)
    <3> SUFFICES ASSUME NEW S \in SUBSET Threads, NEW x \in Levels,
                        S # {}, S \subseteq Ring(r, pri, x),
                        \A u \in S : r.lpNextRun[u] \in S
                 PROVE  S = Ring(r, pri, x)
      BY DEF OneRing
    <3>1. x # p
      BY <2>5
    <3>2. t \notin S
      BY <2>4 DEF Ring
    <3>3. \A u \in S : q.lpNextRun[u] \in S
      BY <3>2, <2>3 DEF Rings
    <3> QED
      BY <3>1, <3>3, <2>5 DEF Whole, OneRing
  <2> QED
    BY <2>3, <2>4, <2>6, <2>7, <2>8, <2>9 DEF Whole
<1>6. CASE next # t
  <2>1. prev # t
    BY <1>2, <1>6
  <2>2. /\ r.lpNextRun = [q.lpNextRun EXCEPT ![prev] = next, ![t] = NoThread]
        /\ r.lpPrevRun = [q.lpPrevRun EXCEPT ![next] = prev, ![t] = NoThread]
        /\ r.lpThreadList = [q.lpThreadList EXCEPT ![p] = IF @ = t THEN next
                                                          ELSE @]
        /\ r.dwPriorityBitmap = q.dwPriorityBitmap
        /\ r.uPriorityGroup = q.uPriorityGroup
        /\ r \in Rings
    BY <1>1, <1>2, <1>6 DEF Unlink, Rings
  <2>3. \A u \in Threads : Linked(r, u) <=> u # t /\ Linked(q, u)
    BY <1>2, <2>1, <2>2, <1>6 DEF Linked, Rings
  <2>4. \A x \in Levels :
          Ring(r, pri, x) = IF x = p THEN Ring(q, pri, p) \ {t}
                                     ELSE Ring(q, pri, x)
    BY <2>3 DEF Ring
  <2>5. next \in Ring(r, pri, p)
    BY <1>2, <1>6, <2>3 DEF Ring
  <2>6. LinksAgree(r, pri)
    <3> SUFFICES ASSUME NEW u \in Threads, Linked(r, u)
                 PROVE  /\ r.lpNextRun[u] \in Ring(r, pri, pri[u])
                        /\ r.lpPrevRun[u] \in Ring(r, pri, pri[u])
                        /\ r.lpPrevRun[r.lpNextRun[u]] = u
                        /\ r.lpNextRun[r.lpPrevRun[u]] = u
      BY DEF LinksAgree
    <3>1. u # t /\ Linked(q, u)
      BY <2>3
    <3>2. /\ q.lpNextRun[u] \in Ring(q, pri, pri[u])
          /\ q.lpPrevRun[u] \in Ring(q, pri, pri[u])
          /\ q.lpPrevRun[q.lpNextRun[u]] = u
          /\ q.lpNextRun[q.lpPrevRun[u]] = u
      BY <3>1 DEF Whole, LinksAgree
    <3>3. /\ u = prev => r.lpNextRun[u] = next /\ r.lpPrevRun[next] = u
          /\ u = next => r.lpPrevRun[u] = prev /\ r.lpNextRun[prev] = u
      BY <1>2, <1>6, <2>1, <2>2 DEF Rings
    <3>4. u # prev => /\ r.lpNextRun[u] = q.lpNextRun[u]
                      /\ q.lpNextRun[u] \notin {t, next}
      BY <3>1, <3>2, <1>2, <2>2 DEF Rings
    <3>5. u # next => /\ r.lpPrevRun[u] = q.lpPrevRun[u]
                      /\ q.lpPrevRun[u] \notin {t, prev}
      BY <3>1, <3>2, <1>2, <2>2 DEF Rings
    <3>6. r.lpNextRun[u] \in Ring(r, pri, pri[u])
      BY <3>2, <3>3, <3>4, <1>2, <2>4, <2>5 DEF Ring
    <3>7. prev \in Ring(r, pri, p)
      BY <1>2, <2>1, <2>3 DEF Ring
    <3>8. r.lpPrevRun[u] \in Ring(r, pri, pri[u])
      BY <3>2, <3>3, <3>5, <3>7, <1>2, <2>4 DEF Ring
    <3>9. r.lpPrevRun[r.lpNextRun[u]] = u
      BY <3>2, <3>3, <3>4, <2>2 DEF Rings, Ring
    <3>10. r.lpNextRun[r.lpPrevRun[u]] = u
      BY <3>2, <3>3, <3>5, <2>2 DEF Rings, Ring
    <3> QED
      BY <3>6, <3>8, <3>9, <3>10
  <2>7. ListsAgree(r, pri)
    <3> SUFFICES ASSUME NEW x \in Levels
                 PROVE  /\ Ring(r, pri, x) = {} => r.lpThreadList[x] = NoThread
                        /\ Ring(r, pri, x) # {} =>
                             r.lpThreadList[x] \in Ring(r, pri, x)
                        /\ x \in r.dwPriorityBitmap <=> Ring(r, pri, x) # {}
      BY DEF ListsAgree
    <3> QED
      BY <1>3, <1>4, <2>2, <2>4, <2>5 DEF Whole, ListsAgree, Rings
  <2>8. GroupsAgree(r)
    BY <2>2 DEF Whole, GroupsAgree
  <2>9. OneRing(r, pri)
    <3> SUFFICES ASSUME NEW S \in SUBSET Threads, NEW x \in Levels,
                        S # {}, S \subseteq Ring(r, pri, x),
                        \A u \in S : r.lpNextRun[u] \in S
                 PROVE  S = Ring(r, pri, x)
      BY DEF OneRing
    <3>1. t \notin S
      BY <2>3 DEF Ring
    <3>2. CASE prev \in S
      <4> DEFINE T == S \cup {t}
      <4>1. x = p
        BY <3>2, <1>2 DEF Ring
      <4>2. next \in S
        BY <3>2, <1>2, <2>1, <2>2 DEF Rings
      <4>3. T \in SUBSET Threads /\ T # {} /\ T \subseteq Ring(q, pri, p)
        BY <4>1, <1>3, <2>4
      <4>4. \A u \in T : q.lpNextRun[u] \in T
        BY <4>2, <3>1, <1>2, <2>2 DEF Rings
      <4>5. T = Ring(q, pri, p)
        BY <4>3, <4>4, <1>1 DEF Whole, OneRing
      <4> QED
        BY <4>1, <4>5, <3>1, <2>4
    <3>3. CASE prev \notin S
      <4>1. \A u \in S : q.lpNextRun[u] \in S
        BY <3>1, <3>3, <2>2 DEF Rings
      <4>2. S \subseteq Ring(q, pri, x)
        BY <2>4
      <4>3. S = Ring(q, pri, x)
        BY <4>1, <4>2 DEF Whole, OneRing
      <4>4. x # p
        BY <4>3, <3>1, <1>3
      <4> QED
        BY <4>3, <4>4, <2>4
    <3> QED
      BY <3>2, <3>3
  <2> QED
    BY <2>2, <2>3, <2>6, <2>7, <2>8, <2>9 DEF Whole
<1> QED
  BY <1>5, <1>6

\* A thread outside the rings may be given any priority.
LEMMA OutsideWhole ==
  ASSUME NEW q \in Rings, NEW pri \in [Threads -> Levels], NEW t \in Threads,
         NEW p \in Levels, Whole(q, pri), ~Linked(q, t)
  PROVE  Whole(q, [pri EXCEPT ![t] = p])
<1> DEFINE new == [pri EXCEPT ![t] = p]
<1>1. \A x \in Levels : Ring(q, new, x) = Ring(q, pri, x)
  BY DEF Ring
<1>2. \A u \in Threads : Linked(q, u) => new[u] = pri[u]
  OBVIOUS
<1>3. LinksAgree(q, new)
  BY <1>1, <1>2 DEF Whole, LinksAgree
<1>4. ListsAgree(q, new)
  BY <1>1 DEF Whole, ListsAgree
<1>5. OneRing(q, new)
  BY <1>1 DEF Whole, OneRing
<1> QED
  BY <1>3, <1>4, <1>5 DEF Whole

\* MoveToEndOfRunQueue is harmless in a ring of one thread.
LEMMA MoveAlone ==
  ASSUME NEW q \in Rings, NEW pri \in [Threads -> Levels], NEW t \in Threads,
         Whole(q, pri), Linked(q, t), Ring(q, pri, pri[t]) = {t}
  PROVE  MoveToEndOfRunQueue(q, t, pri[t]) = q
<1> DEFINE p == pri[t]
           r == MoveToEndOfRunQueue(q, t, p)
<1>1. q.lpNextRun[t] = t /\ q.lpPrevRun[t] = t
  BY DEF Whole, LinksAgree
<1>2. p \in Levels /\ q.lpThreadList[p] = t
  BY DEF Whole, ListsAgree
<1>3. r \in Rings
  BY ZenonT(60), <1>1, <1>2 DEF MoveToEndOfRunQueue, Rings
<1>4. \A u \in Threads : r.lpNextRun[u] = q.lpNextRun[u]
  BY <1>1, <1>2 DEF MoveToEndOfRunQueue, Rings
<1>5. \A u \in Threads : r.lpPrevRun[u] = q.lpPrevRun[u]
  BY <1>1, <1>2 DEF MoveToEndOfRunQueue, Rings
<1>6. \A x \in Levels : r.lpThreadList[x] = q.lpThreadList[x]
  BY <1>1, <1>2 DEF MoveToEndOfRunQueue, Rings
<1>7. /\ r.dwPriorityBitmap = q.dwPriorityBitmap
      /\ r.uPriorityGroup = q.uPriorityGroup
  BY <1>2 DEF MoveToEndOfRunQueue, Rings
<1>8. r.lpNextRun = q.lpNextRun
  BY <1>3, <1>4 DEF Rings
<1>9. r.lpPrevRun = q.lpPrevRun
  BY <1>3, <1>5 DEF Rings
<1>10. r.lpThreadList = q.lpThreadList
  BY <1>3, <1>6 DEF Rings
<1> QED
  BY <1>3, <1>7, <1>8, <1>9, <1>10 DEF Rings

\* GetHighestPriority finds the list of the most urgent threads.
LEMMA HighestIsMin ==
  ASSUME NEW q \in Rings, NEW pri \in [Threads -> Levels], NEW p \in Levels,
         Whole(q, pri), Highest(q, p), Levels \subseteq 0 .. 255
  PROVE  /\ q.lpThreadList[p] \in Ring(q, pri, p)
         /\ \A u \in Threads : Linked(q, u) => p <= pri[u]
<1>1. p \in q.dwPriorityBitmap
  BY DEF Highest
<1>2. q.lpThreadList[p] \in Ring(q, pri, p)
  BY <1>1 DEF Whole, ListsAgree
<1>3. ASSUME NEW u \in Threads, Linked(q, u)
      PROVE  p <= pri[u]
  <2>1. pri[u] \in q.dwPriorityBitmap
    BY <1>3 DEF Whole, ListsAgree, Ring
  <2>2. Group(pri[u]) \in q.uPriorityGroup
    BY <2>1 DEF Whole, GroupsAgree
  <2>3. Group(p) <= Group(pri[u])
    BY <2>2 DEF Highest
  <2>4. Group(pri[u]) = Group(p) => p <= pri[u]
    BY <2>1 DEF Highest
  <2>5. p \in 0 .. 255 /\ pri[u] \in 0 .. 255
    OBVIOUS
  <2> QED
    BY <2>3, <2>4, <2>5 DEF Group
<1> QED
  BY <1>2, <1>3

\* The walk of GetNextRun stays in its ring.
LEMMA WalkInRing ==
  ASSUME NEW q \in Rings, NEW pri \in [Threads -> Levels], NEW p \in Levels,
         Whole(q, pri), q.lpThreadList[p] \in Ring(q, pri, p)
  PROVE  Walk(q, q.lpThreadList[p]) \subseteq Ring(q, pri, p)
<1> DEFINE S == Ring(q, pri, p)
<1>1. S \in SUBSET Threads
  BY DEF Ring
<1>2. \A u \in S : q.lpNextRun[u] \in S
  BY DEF Whole, LinksAgree, Ring
<1> QED
  BY <1>1, <1>2 DEF Walk

-----------------------------------------------------------------------------
(* The parts of actions that change the rings. *)

Queued(q) == {u \in Threads : Linked(q, u)}

\* KL_GetCountRunning follows one insertion and one removal.
LEMMA CountChanges ==
  ASSUME NEW q, NEW r, NEW t \in Threads \ {Idle}
  PROVE  /\ Cardinality(Queued(q) \ {Idle}) \in Int
         /\ ~Linked(q, t) /\ Queued(r) = Queued(q) \cup {t} =>
              Cardinality(Queued(r) \ {Idle})
                = Cardinality(Queued(q) \ {Idle}) + 1
         /\ Linked(q, t) /\ Queued(r) = Queued(q) \ {t} =>
              Cardinality(Queued(r) \ {Idle})
                = Cardinality(Queued(q) \ {Idle}) - 1
<1> DEFINE S == Queued(q) \ {Idle}
<1>1. IsFiniteSet(S)
  <2>1. S \subseteq Threads
    BY DEF Queued
  <2> QED
    BY <2>1, ThreadsAssumption, FS_Subset
<1>2. Cardinality(S) \in Int
  BY <1>1, FS_CardinalityType
<1>3. ASSUME ~Linked(q, t), Queued(r) = Queued(q) \cup {t}
      PROVE  Cardinality(Queued(r) \ {Idle}) = Cardinality(S) + 1
  <2>1. t \notin S /\ Queued(r) \ {Idle} = S \cup {t}
    BY <1>3 DEF Queued
  <2> QED
    BY <1>1, <2>1, FS_AddElement
<1>4. ASSUME Linked(q, t), Queued(r) = Queued(q) \ {t}
      PROVE  Cardinality(Queued(r) \ {Idle}) = Cardinality(S) - 1
  <2>1. t \in S /\ Queued(r) \ {Idle} = S \ {t}
    BY <1>4 DEF Queued
  <2> QED
    BY <1>1, <2>1, FS_RemoveElement
<1> QED
  BY <1>2, <1>3, <1>4

\* AddToRunQueue for a thread that is not linked.
LEMMA AddKeeps ==
  ASSUME NEW q \in Rings, NEW n, NEW pri \in [Threads -> Levels],
         NEW state \in [Threads -> States], NEW t \in Threads \ {Idle},
         Whole(q, pri), ~Linked(q, t), n = Cardinality(Queued(q) \ {Idle}),
         AddToRunQueue(q, n, pri, state, t)
  PROVE  /\ rq' \in Rings /\ Whole(rq', pri)
         /\ \A u \in Threads :
              Linked(rq', u) <=> \/ Linked(q, u)
                                 \/ u = t /\ nSuspendCount[t] = 0
         /\ nCountRunning' = Cardinality(Queued(rq') \ {Idle})
         /\ nCountRunning' \in Int
         /\ dwState' = IF nSuspendCount[t] = 0 THEN state
                       ELSE [state EXCEPT ![t] = "SUSPENDED"]
         /\ bNeedResched' = (\/ bNeedResched
                             \/ /\ nSuspendCount[t] = 0
                                /\ pri[t] <= pri[lpCurThread])
<1>1. n \in Int
  BY CountChanges
<1>2. /\ dwState' = IF nSuspendCount[t] = 0 THEN state
                    ELSE [state EXCEPT ![t] = "SUSPENDED"]
      /\ bNeedResched' = (\/ bNeedResched
                          \/ /\ nSuspendCount[t] = 0
                             /\ pri[t] <= pri[lpCurThread])
  BY DEF AddToRunQueue, StillSuspended, Preempts
<1>3. CASE nSuspendCount[t] = 0
  <2>1. rq' = Link(q, t, pri[t]) /\ nCountRunning' = n + 1
    BY <1>3 DEF AddToRunQueue, StillSuspended
  <2>2. /\ rq' \in Rings /\ Whole(rq', pri)
        /\ \A u \in Threads : Linked(rq', u) <=> u = t \/ Linked(q, u)
    BY <2>1, LinkWhole, ThreadsAssumption
  <2>3. Queued(rq') = Queued(q) \cup {t}
    BY <2>2 DEF Queued
  <2>4. Cardinality(Queued(rq') \ {Idle}) = Cardinality(Queued(q) \ {Idle}) + 1
    BY <2>3, CountChanges
  <2> QED
    BY <1>1, <1>2, <1>3, <2>1, <2>2, <2>4
<1>4. CASE nSuspendCount[t] # 0
  <2>1. rq' = q /\ nCountRunning' = n
    BY <1>4 DEF AddToRunQueue, StillSuspended
  <2> QED
    BY <1>1, <1>2, <1>4, <2>1
<1> QED
  BY <1>3, <1>4

\* What GetNextRun returns is in the rings, and no thread in them is more
\* urgent.
LEMMA GetNextRunFinds ==
  ASSUME NEW q \in Rings, NEW pri \in [Threads -> Levels],
         NEW ticks \in [Threads -> Nat], NEW boost \in [Threads -> Nat],
         NEW yields, Whole(q, pri), GetNextRun(q, ticks, boost, yields)
  PROVE  /\ lpCurThread' \in Threads /\ Linked(q, lpCurThread')
         /\ \A u \in Threads : Linked(q, u) => pri[lpCurThread'] <= pri[u]
         /\ nTickCount' \in [Threads -> Nat] /\ nBoost' \in [Threads -> Nat]
<1>1. PICK p \in Levels :
        /\ Highest(q, p)
        /\ lpCurThread' \in {q.lpThreadList[p]} \cup Walk(q, q.lpThreadList[p])
        /\ nBoost' = IF boost[lpCurThread'] # 0
                     THEN [boost EXCEPT ![lpCurThread'] = @ - 1] ELSE boost
        /\ \/ nTickCount' = ticks
           \/ nTickCount' = [t \in Threads |->
                               IF t \in Walk(q, q.lpThreadList[p])
                               THEN nRotate(t) ELSE ticks[t]]
  BY DEF GetNextRun
<1>2. /\ q.lpThreadList[p] \in Ring(q, pri, p)
      /\ \A u \in Threads : Linked(q, u) => p <= pri[u]
  BY <1>1, HighestIsMin, LevelsAssumption DEF IDLE_PRIORITY
<1>3. lpCurThread' \in Ring(q, pri, p)
  BY <1>1, <1>2, WalkInRing
<1>4. nTickCount' \in [Threads -> Nat]
  BY <1>1, BoundsAssumption DEF nRotate
<1>5. nBoost' \in [Threads -> Nat]
  BY <1>1, <1>3 DEF Ring
<1> QED
  BY <1>2, <1>3, <1>4, <1>5 DEF Ring

\* The ring of a thread that is its own successor has no other thread.
LEMMA AloneInRing ==
  ASSUME IInv, rq.lpNextRun[lpCurThread] = lpCurThread
  PROVE  Ring(rq, nCurPriority, nCurPriority[lpCurThread]) = {lpCurThread}
<1>1. /\ lpCurThread \in Threads /\ Linked(rq, lpCurThread)
      /\ nCurPriority[lpCurThread] \in Levels
  BY DEF IInv, TypeOK, QueuedIffRunnable
<1> DEFINE S == {lpCurThread}
<1>2. /\ S \in SUBSET Threads /\ S # {}
      /\ S \subseteq Ring(rq, nCurPriority, nCurPriority[lpCurThread])
      /\ \A t \in S : rq.lpNextRun[t] \in S
  BY <1>1 DEF Ring
<1>3. OneRing(rq, nCurPriority)
  BY DEF IInv, RingsWhole, Whole
<1> HIDE DEF S
<1>4. S = Ring(rq, nCurPriority, nCurPriority[lpCurThread])
  BY <1>1, <1>2, <1>3 DEF OneRing
<1> QED
  BY <1>4 DEF S

\* Schedule, from the states its caller has set: only the caller may leave
\* the rings.
LEMMA ScheduleKeeps ==
  ASSUME IInv, RotatesAlone, NEW state \in [Threads -> States],
         state[Idle] = "RUNNING", Schedule(state)
  PROVE  /\ rq' \in Rings /\ Whole(rq', nCurPriority)
         /\ \A u \in Threads :
              Linked(rq', u) <=> /\ Linked(rq, u)
                                 /\ u = lpCurThread => dwState'[u] = "RUNNING"
         /\ nCountRunning' = Cardinality(Queued(rq') \ {Idle})
         /\ nCountRunning' \in Int
         /\ dwState' \in [Threads -> States] /\ dwTimeout' \subseteq Threads
         /\ \A u \in Threads \ {lpCurThread} : dwState'[u] = state[u]
         /\ dwState'[lpCurThread] \in {state[lpCurThread], "RUNNING"}
         /\ state[lpCurThread] = "SUSPENDED" => dwState'[lpCurThread] # "RUNNING"
         /\ bNeedResched' = FALSE
         /\ lpCurThread' \in Threads /\ Linked(rq', lpCurThread')
         /\ \A u \in Threads :
              Linked(rq', u) => nCurPriority[lpCurThread'] <= nCurPriority[u]
         /\ nTickCount' \in [Threads -> Nat] /\ nBoost' \in [Threads -> Nat]
<1> DEFINE t == lpCurThread
           p == nCurPriority[t]
           rotates == nTickCount[t] # 0 /\ fPolicy[t] = "ROTATION"
           yields == state[t] = "INTERRUPTIBLE" /\ t \in dwTimeout
           leaves == state[t] # "RUNNING" /\ ~yields
           q == IF rotates THEN MoveToEndOfRunQueue(rq, t, p) ELSE rq
           ticks == IF rotates THEN [nTickCount EXCEPT ![t] = nRotate(t)]
                               ELSE nTickCount
           boost == IF leaves \/ yields THEN [nBoost EXCEPT ![t] = 0] ELSE nBoost
<1>1. /\ rq \in Rings /\ nCurPriority \in [Threads -> Levels]
      /\ t \in Threads /\ Linked(rq, t) /\ Whole(rq, nCurPriority)
      /\ nTickCount \in [Threads -> Nat] /\ nBoost \in [Threads -> Nat]
      /\ nCountRunning = Cardinality(Queued(rq) \ {Idle})
      /\ nCountRunning \in Int /\ dwTimeout \subseteq Threads
  BY DEF IInv, TypeOK, QueuedIffRunnable, RingsWhole, CountAgrees, InRings, Queued
<1>2. q = rq
  BY <1>1, AloneInRing, MoveAlone DEF RotatesAlone
<1>3. /\ rq' = IF leaves THEN Unlink(q, t, p) ELSE q
      /\ nCountRunning' = IF leaves THEN nCountRunning - 1 ELSE nCountRunning
      /\ dwState' = IF yields THEN [state EXCEPT ![t] = "RUNNING"] ELSE state
      /\ dwTimeout' = IF yields THEN dwTimeout \ {t} ELSE dwTimeout
      /\ bNeedResched' = FALSE
      /\ GetNextRun(rq', ticks, boost, yields)
  BY DEF Schedule
<1>4. /\ dwState' \in [Threads -> States] /\ dwTimeout' \subseteq Threads
      /\ \A u \in Threads \ {t} : dwState'[u] = state[u]
      /\ dwState'[t] \in {state[t], "RUNNING"}
      /\ state[t] = "SUSPENDED" => dwState'[t] # "RUNNING"
      /\ leaves <=> dwState'[t] # "RUNNING"
  BY <1>1, <1>3 DEF States
<1>5. /\ rq' \in Rings /\ Whole(rq', nCurPriority)
      /\ \A u \in Threads :
           Linked(rq', u) <=> Linked(rq, u) /\ (u = t => ~leaves)
      /\ nCountRunning' = Cardinality(Queued(rq') \ {Idle})
      /\ nCountRunning' \in Int
  <2>1. CASE leaves
    <3>1. rq' = Unlink(rq, t, p) /\ nCountRunning' = nCountRunning - 1
      BY <2>1, <1>2, <1>3
    <3>2. /\ rq' \in Rings /\ Whole(rq', nCurPriority)
          /\ \A u \in Threads : Linked(rq', u) <=> u # t /\ Linked(rq, u)
      BY <3>1, <1>1, UnlinkWhole, ThreadsAssumption
    <3>3. t # Idle
      BY <2>1
    <3>4. Queued(rq') = Queued(rq) \ {t}
      BY <3>2 DEF Queued
    <3>5. Cardinality(Queued(rq') \ {Idle})
            = Cardinality(Queued(rq) \ {Idle}) - 1
      BY <3>3, <3>4, <1>1, CountChanges
    <3> QED
      BY <2>1, <3>1, <3>2, <3>5, <1>1
  <2>2. CASE ~leaves
    <3>1. rq' = rq /\ nCountRunning' = nCountRunning
      BY <2>2, <1>2, <1>3
    <3> QED
      BY <2>2, <3>1, <1>1
  <2> QED
    BY <2>1, <2>2
<1>6. ticks \in [Threads -> Nat] /\ boost \in [Threads -> Nat]
  BY <1>1, BoundsAssumption DEF nRotate
<1>7. /\ lpCurThread' \in Threads /\ Linked(rq', lpCurThread')
      /\ \A u \in Threads :
           Linked(rq', u) => nCurPriority[lpCurThread'] <= nCurPriority[u]
      /\ nTickCount' \in [Threads -> Nat] /\ nBoost' \in [Threads -> Nat]
  <2> HIDE DEF yields, ticks, boost
  <2> QED
    BY <1>1, <1>3, <1>5, <1>6, GetNextRunFinds
<1> QED
  BY <1>3, <1>4, <1>5, <1>7

-----------------------------------------------------------------------------
(* The inductive step. *)

\* A step that leaves the rings and the processor alone, and changes the
\* state of nobody but the thread that runs.
LEMMA QuietKeeps ==
  ASSUME IInv, TypeOK', Places',
         UNCHANGED << rq, nCountRunning, nCurPriority, lpCurThread, lparg,
                      fault >>,
         bNeedResched => bNeedResched',
         \A u \in Threads \ {lpCurThread} :
           dwState'[u] = dwState[u] /\ nSuspendCount'[u] = nSuspendCount[u],
         nSuspendCount'[lpCurThread] > 0 =>
           dwState'[lpCurThread] = "SUSPENDED" /\ pc'[lpCurThread] = "sche",
         \A m \in Threads : pc'[m] = "add" <=> pc[m] = "add"
  PROVE  IInv'
<1>1. RingsWhole' /\ UrgentRequested' /\ CountAgrees'
  BY DEF IInv, RingsWhole, UrgentRequested, CountAgrees, InRings
<1>2. \A u \in Threads : BeingResumed(u) <=> BeingResumed(u)'
  BY DEF BeingResumed
<1>3. ~BeingResumed(lpCurThread)
  BY DEF IInv, Resumptions, BeingResumed
<1>4. QueuedIffRunnable'
  BY <1>2, <1>3 DEF IInv, QueuedIffRunnable
<1>5. SuspendedOffQueue'
  <2> SUFFICES ASSUME NEW u \in Threads, Linked(rq, u), nSuspendCount'[u] > 0
               PROVE  /\ u = lpCurThread /\ dwState'[u] = "SUSPENDED"
                      /\ pc'[u] = "sche"
    BY DEF SuspendedOffQueue, InRings
  <2>1. CASE u = lpCurThread
    BY <2>1
  <2>2. CASE u # lpCurThread
    BY <2>2 DEF IInv, SuspendedOffQueue, InRings
  <2> QED
    BY <2>1, <2>2
<1>6. Resumptions'
  BY DEF IInv, Resumptions
<1> QED
  BY <1>1, <1>4, <1>5, <1>6 DEF IInv

\* A step that ends in Schedule.
LEMMA SwitchKeeps ==
  ASSUME IInv, RotatesAlone, NEW state \in [Threads -> States],
         Schedule(state), state[Idle] = "RUNNING",
         \A u \in Threads \ {lpCurThread} : state[u] = dwState[u],
         nSuspendCount[lpCurThread] > 0 => state[lpCurThread] = "SUSPENDED",
         UNCHANGED << nSuspendCount, nCurPriority, nLockScheCount, lparg,
                      fault >>,
         timer' = timer, inIsr' \in BOOLEAN,
         pc' \in [Threads -> Labels], pc'[Idle] \in {"run", "sche"},
         \A m \in Threads : pc'[m] = "add" <=> pc[m] = "add"
  PROVE  IInv'
<1> DEFINE t == lpCurThread
<1>1. /\ rq' \in Rings /\ Whole(rq', nCurPriority)
      /\ \A u \in Threads :
           Linked(rq', u) <=> /\ Linked(rq, u)
                              /\ u = lpCurThread => dwState'[u] = "RUNNING"
      /\ nCountRunning' = Cardinality(Queued(rq') \ {Idle})
      /\ nCountRunning' \in Int
      /\ dwState' \in [Threads -> States] /\ dwTimeout' \subseteq Threads
      /\ \A u \in Threads \ {lpCurThread} : dwState'[u] = state[u]
      /\ dwState'[lpCurThread] \in {state[lpCurThread], "RUNNING"}
      /\ state[lpCurThread] = "SUSPENDED" => dwState'[lpCurThread] # "RUNNING"
      /\ bNeedResched' = FALSE
      /\ lpCurThread' \in Threads /\ Linked(rq', lpCurThread')
      /\ \A u \in Threads :
           Linked(rq', u) => nCurPriority[lpCurThread'] <= nCurPriority[u]
      /\ nTickCount' \in [Threads -> Nat] /\ nBoost' \in [Threads -> Nat]
  BY ScheduleKeeps
<1>2. t \in Threads
  BY DEF IInv, TypeOK
<1>3. TypeOK'
  BY <1>1 DEF IInv, TypeOK
<1>4. RingsWhole' /\ CountAgrees' /\ UrgentRequested'
  BY <1>1 DEF IInv, RingsWhole, CountAgrees, UrgentRequested,
              InRings, Queued
<1>5. \A u \in Threads : BeingResumed(u)' <=> BeingResumed(u)
  BY DEF BeingResumed
<1>6. \A u \in Threads : BeingResumed(u) => u # t /\ ~Linked(rq, u)
  BY DEF IInv, Resumptions, BeingResumed, QueuedIffRunnable
<1>7. \A u \in Threads :
        Linked(rq', u) <=> dwState'[u] = "RUNNING" /\ ~BeingResumed(u)
  BY <1>1, <1>6 DEF IInv, QueuedIffRunnable
<1>8. QueuedIffRunnable'
  BY <1>1, <1>5, <1>7 DEF QueuedIffRunnable
<1>9. SuspendedOffQueue'
  <2> SUFFICES ASSUME NEW u \in Threads, Linked(rq', u), nSuspendCount[u] > 0
               PROVE  FALSE
    BY DEF SuspendedOffQueue, InRings
  <2>1. u = t
    BY <1>1 DEF IInv, SuspendedOffQueue, InRings
  <2> QED
    BY <2>1, <1>1
<1>10. dwState'[lpCurThread'] = "RUNNING"
  BY <1>1, <1>7
<1>11. dwState'[Idle] = "RUNNING"
  BY <1>1, ThreadsAssumption
<1>12. Places'
  BY <1>10, <1>11 DEF IInv, Places
<1>13. Resumptions'
  <2> SUFFICES ASSUME NEW m \in Threads, pc[m] = "add"
               PROVE  /\ lparg[m] \in Threads \ {Idle, lpCurThread'}
                      /\ dwState'[lparg[m]] = "RUNNING"
                      /\ fault \/ nSuspendCount[lparg[m]] = 0
                      /\ \A n \in Threads :
                           pc[n] = "add" /\ lparg[n] = lparg[m] => n = m
    BY <1>2 DEF Resumptions
  <2>1. /\ lparg[m] \in Threads \ {Idle, t} /\ dwState[lparg[m]] = "RUNNING"
        /\ fault \/ nSuspendCount[lparg[m]] = 0
        /\ \A n \in Threads : pc[n] = "add" /\ lparg[n] = lparg[m] => n = m
    BY DEF IInv, Resumptions
  <2>2. BeingResumed(lparg[m])
    BY DEF BeingResumed
  <2>3. lparg[m] # lpCurThread'
    BY <2>1, <2>2, <1>1, <1>7
  <2> QED
    BY <2>1, <2>3, <1>1
<1> QED
  BY <1>3, <1>4, <1>8, <1>9, <1>12, <1>13 DEF IInv

\* A sleeping thread is woken.
LEMMA WakeKeeps ==
  ASSUME IInv, NEW u \in Threads, NEW bHighLevel, Asleep(u),
         _WakeupThread(u, bHighLevel),
         UNCHANGED << nSuspendCount, nCurPriority, nTickCount, nLockScheCount,
                      lpCurThread, pc, lparg, fault >>,
         dwTimeout' \subseteq Threads, timer' \subseteq Threads,
         inIsr' \in BOOLEAN
  PROVE  IInv'
<1> DEFINE state == [dwState EXCEPT ![u] = "RUNNING"]
<1>1. /\ rq \in Rings /\ nCurPriority \in [Threads -> Levels]
      /\ lpCurThread \in Threads /\ Whole(rq, nCurPriority)
      /\ nCountRunning = Cardinality(Queued(rq) \ {Idle})
      /\ nBoost \in [Threads -> Nat] /\ dwState \in [Threads -> States]
  BY DEF IInv, TypeOK, RingsWhole, CountAgrees, InRings, Queued
<1>2. u # Idle /\ ~BeingResumed(u)
  BY DEF IInv, Places, Asleep, Resumptions, BeingResumed
<1>3. Linked(rq, u) <=> u = lpCurThread
  BY <1>2 DEF IInv, QueuedIffRunnable, Asleep
<1>4. Linked(rq, u) <=> rq.lpNextRun[u] # NoThread
  BY <1>1, ThreadsAssumption DEF Whole, LinksAgree, Ring, Linked
<1>5. CASE u = lpCurThread
  <2>1. /\ dwState' = state
        /\ UNCHANGED << rq, nCountRunning, bNeedResched, nBoost >>
    BY <1>3, <1>4, <1>5 DEF _WakeupThread
  <2>2. TypeOK'
    BY <2>1 DEF IInv, TypeOK, States
  <2>3. Places'
    BY <2>1, <1>5, <1>1 DEF IInv, Places, States
  <2>4. nSuspendCount[lpCurThread] = 0
    BY <1>1, <1>3, <1>5 DEF IInv, SuspendedOffQueue, InRings, Asleep, TypeOK
  <2> QED
    BY <1>5, <2>1, <2>2, <2>3, <2>4, <1>1, QuietKeeps
<1>6. CASE u # lpCurThread
  <2>1. /\ nBoost' \in [Threads -> Nat]
        /\ AddToRunQueue(rq, nCountRunning, nCurPriority, state, u)
    BY <1>1, <1>3, <1>4, <1>6 DEF _WakeupThread
  <2>2. state \in [Threads -> States]
    BY <1>1 DEF States
  <2>3. /\ rq' \in Rings /\ Whole(rq', nCurPriority)
        /\ \A v \in Threads :
             Linked(rq', v) <=> \/ Linked(rq, v)
                                \/ v = u /\ nSuspendCount[u] = 0
        /\ nCountRunning' = Cardinality(Queued(rq') \ {Idle})
        /\ nCountRunning' \in Int
        /\ dwState' = IF nSuspendCount[u] = 0 THEN state
                      ELSE [state EXCEPT ![u] = "SUSPENDED"]
        /\ bNeedResched' = (\/ bNeedResched
                            \/ /\ nSuspendCount[u] = 0
                               /\ nCurPriority[u] <= nCurPriority[lpCurThread])
    <3> HIDE DEF state
    <3> QED
      BY <1>1, <1>2, <1>3, <1>6, <2>1, <2>2, AddKeeps
  <2>4. \A v \in Threads :
          /\ v # u => dwState'[v] = dwState[v]
          /\ v = u => dwState'[v] = IF nSuspendCount[u] = 0 THEN "RUNNING"
                                                          ELSE "SUSPENDED"
    BY <2>3, <1>1
  <2>5. TypeOK'
    BY <2>1, <2>2, <2>3 DEF IInv, TypeOK, States
  <2>6. RingsWhole' /\ CountAgrees'
    BY <2>3 DEF IInv, RingsWhole, CountAgrees, InRings, Queued
  <2>7. \A v \in Threads : BeingResumed(v)' <=> BeingResumed(v)
    BY DEF BeingResumed
  <2>8. QueuedIffRunnable'
    <3> SUFFICES ASSUME NEW v \in Threads
                 PROVE  Linked(rq', v) <=> \/ v = lpCurThread
                                          \/ /\ dwState'[v] = "RUNNING"
                                             /\ ~BeingResumed(v)
      BY <2>7 DEF QueuedIffRunnable
    <3>1. Linked(rq, v) <=> \/ v = lpCurThread
                            \/ dwState[v] = "RUNNING" /\ ~BeingResumed(v)
      BY DEF IInv, QueuedIffRunnable
    <3>2. CASE v = u
      <4>1. Linked(rq', u) <=> nSuspendCount[u] = 0
        BY <1>3, <1>6, <2>3
      <4>2. dwState'[u] = "RUNNING" <=> nSuspendCount[u] = 0
        BY <2>4
      <4> QED
        BY <3>2, <4>1, <4>2, <1>2, <1>6
    <3>3. CASE v # u
      BY <3>1, <3>3, <2>3, <2>4
    <3> QED
      BY <3>2, <3>3
  <2>9. UrgentRequested'
    <3> SUFFICES ASSUME ~bNeedResched', NEW v \in Threads, Linked(rq', v)
                 PROVE  nCurPriority[lpCurThread] <= nCurPriority[v]
      BY DEF UrgentRequested, InRings
    <3>1. CASE Linked(rq, v)
      BY <3>1, <2>3 DEF IInv, UrgentRequested, InRings
    <3>2. CASE v = u /\ nSuspendCount[u] = 0
      <4>1. ~(nCurPriority[u] <= nCurPriority[lpCurThread])
        BY <3>2, <2>3
      <4>2. nCurPriority[u] \in 0 .. 255 /\ nCurPriority[lpCurThread] \in 0 .. 255
        <5>1. nCurPriority[u] \in Levels /\ nCurPriority[lpCurThread] \in Levels
          BY <1>1
        <5>2. Levels \subseteq 0 .. 255
          BY LevelsAssumption DEF IDLE_PRIORITY
        <5> QED
          BY <5>1, <5>2
      <4> QED
        <5> DEFINE a == nCurPriority[u]
                   b == nCurPriority[lpCurThread]
        <5>1. a \in 0 .. 255 /\ b \in 0 .. 255 /\ ~(a <= b)
          BY <4>1, <4>2
        <5> HIDE DEF a, b
        <5>2. b <= a
          BY <5>1
        <5> QED
          BY <5>2, <3>2 DEF a, b
    <3> QED
      BY <3>1, <3>2, <2>3
  <2>10. SuspendedOffQueue'
    <3> SUFFICES ASSUME NEW v \in Threads, Linked(rq', v), nSuspendCount[v] > 0
                 PROVE  /\ v = lpCurThread /\ dwState'[v] = "SUSPENDED"
                        /\ pc[v] = "sche"
      BY DEF SuspendedOffQueue, InRings
    <3>1. Linked(rq, v)
      BY <2>3
    <3> QED
      BY <3>1, <2>4, <1>6 DEF IInv, SuspendedOffQueue, InRings
  <2>11. Places'
    BY <1>1, <1>2, <1>6, <2>4, ThreadsAssumption DEF IInv, Places
  <2>12. Resumptions'
    <3> SUFFICES ASSUME NEW m \in Threads, pc[m] = "add"
                 PROVE  /\ lparg[m] \in Threads \ {Idle, lpCurThread}
                        /\ dwState'[lparg[m]] = "RUNNING"
                        /\ fault \/ nSuspendCount[lparg[m]] = 0
                        /\ \A n \in Threads :
                             pc[n] = "add" /\ lparg[n] = lparg[m] => n = m
      BY DEF Resumptions
    <3>1. lparg[m] # u
      BY <1>2 DEF BeingResumed
    <3> QED
      BY <3>1, <2>4 DEF IInv, Resumptions
  <2> QED
    BY <2>5, <2>6, <2>8, <2>9, <2>10, <2>11, <2>12 DEF IInv
<1> QED
  BY <1>5, <1>6

\* The thread that runs between two calls is THREAD_RUNNING, not suspended
\* and not being resumed.
LEMMA RunsFree ==
  ASSUME IInv, pc[lpCurThread] \notin {"sche", "nap"}
  PROVE  /\ lpCurThread \in Threads /\ Linked(rq, lpCurThread)
         /\ dwState[lpCurThread] = "RUNNING" /\ nSuspendCount[lpCurThread] = 0
<1>1. /\ lpCurThread \in Threads /\ Linked(rq, lpCurThread)
      /\ dwState[lpCurThread] = "RUNNING"
      /\ nSuspendCount[lpCurThread] \in 0 .. MaxSuspend
  BY DEF IInv, TypeOK, QueuedIffRunnable, Places
<1>2. ~(nSuspendCount[lpCurThread] > 0)
  BY <1>1 DEF IInv, SuspendedOffQueue, InRings
<1>3. MaxSuspend \in Nat
  BY BoundsAssumption
<1> QED
  BY <1>1, <1>2, <1>3

LEMMA LocalStepsKeep ==
  ASSUME IInv, NEW t \in Threads,
         \/ SleepZero(t) \/ DelTimer(t) \/ EndWait(t) \/ LockSchedule(t)
         \/ UnlockSchedule(t) \/ CheckResched(t) \/ IdleLoop
  PROVE  IInv'
<1>1. pc \in [Threads -> Labels] /\ lpCurThread \in Threads /\ Calls[Idle] = {}
  BY ThreadsAssumption DEF IInv, TypeOK
<1>2. /\ UNCHANGED << rq, nCountRunning, nCurPriority, lpCurThread, lparg,
                      fault, bNeedResched, dwState, nSuspendCount >>
      /\ \A m \in Threads : pc'[m] = "add" <=> pc[m] = "add"
      /\ pc' \in [Threads -> Labels]
  BY <1>1 DEF SleepZero, DelTimer, EndWait, LockSchedule, UnlockSchedule,
              CheckResched, IdleLoop, Goto, At, Makes, threadVars, Labels
<1>3. TypeOK'
  <2>1. /\ nTickCount' \in [Threads -> Nat] /\ nBoost' \in [Threads -> Nat]
        /\ nLockScheCount' \in [Threads -> {0, 1}]
    BY DEF IInv, TypeOK, SleepZero, DelTimer, EndWait, LockSchedule,
           UnlockSchedule, CheckResched, IdleLoop, threadVars
  <2>2. /\ dwTimeout' \subseteq Threads /\ timer' \subseteq Threads
        /\ inIsr' \in BOOLEAN
    BY DEF IInv, TypeOK, SleepZero, DelTimer, EndWait, LockSchedule,
           UnlockSchedule, CheckResched, IdleLoop, threadVars
  <2> QED
    BY <1>2, <2>1, <2>2 DEF IInv, TypeOK
<1>4. pc[lpCurThread] \notin {"sche", "nap"} /\ (t = lpCurThread \/ IdleLoop)
  BY DEF SleepZero, DelTimer, EndWait, LockSchedule, UnlockSchedule,
         CheckResched, IdleLoop, At, Makes
<1>5. pc'[Idle] \in {"run", "sche"} /\ nLockScheCount'[Idle] = 0
  <2>1. pc[Idle] \in {"run", "sche"} /\ nLockScheCount[Idle] = 0
    BY DEF IInv, Places
  <2>2. CASE IdleLoop
    BY <2>1, <2>2, <1>1 DEF IdleLoop, Goto, Labels
  <2>3. CASE t = Idle /\ ~IdleLoop
    BY <2>1, <2>3, <1>1 DEF SleepZero, DelTimer, EndWait, LockSchedule,
       UnlockSchedule, CheckResched, At, Makes
  <2>4. CASE t # Idle /\ ~IdleLoop
    BY <2>1, <2>4, <1>1, ThreadsAssumption DEF SleepZero, DelTimer, EndWait,
       LockSchedule, UnlockSchedule, CheckResched, Goto, threadVars, IInv, TypeOK
  <2> QED
    BY <2>2, <2>3, <2>4
<1>6. Places'
  BY <1>2, <1>4, <1>5, RunsFree DEF IInv, Places
<1>7. nSuspendCount[lpCurThread] = 0
  BY <1>4, RunsFree
<1> QED
  BY <1>2, <1>3, <1>6, <1>7, QuietKeeps

\* The steps that set the state of the caller and go on to Schedule.
LEMMA GoingToSleepKeeps ==
  ASSUME IInv, NEW t \in Threads,
         \/ \E time \in {"zero", "finite", "infinite"} : ScheduleTimeout(t, time)
         \/ SuspendSelf(t) \/ DeleteThread(t)
  PROVE  IInv'
<1>1. /\ pc \in [Threads -> Labels] /\ dwState \in [Threads -> States]
      /\ t = lpCurThread /\ pc[t] \in {"run", "zero"}
  BY DEF IInv, TypeOK, ScheduleTimeout, SuspendSelf, DeleteThread, Makes, At
<1>2. /\ UNCHANGED << rq, nCountRunning, nCurPriority, lpCurThread, lparg,
                      fault, bNeedResched, nBoost, nLockScheCount, inIsr >>
      /\ pc' \in [Threads -> Labels] /\ pc'[t] \in {"sche", "nap"}
      /\ \A u \in Threads \ {t} : pc'[u] = pc[u]
      /\ dwState' \in [Threads -> States]
      /\ \A u \in Threads \ {t} : dwState'[u] = dwState[u]
  BY <1>1 DEF ScheduleTimeout, SuspendSelf, DeleteThread, Goto, Labels, States
<1>3. t # Idle
  BY <1>1, ThreadsAssumption DEF IInv, Places, ScheduleTimeout, SuspendSelf,
     DeleteThread, Makes, At
<1>4. /\ nSuspendCount' \in [Threads -> 0 .. MaxSuspend]
      /\ \A u \in Threads \ {t} : nSuspendCount'[u] = nSuspendCount[u]
      /\ nSuspendCount'[t] > 0 => dwState'[t] = "SUSPENDED" /\ pc'[t] = "sche"
  <2>1. nSuspendCount[t] = 0
    BY <1>1, RunsFree
  <2>2. CASE SuspendSelf(t)
    <3>1. 1 \in 0 .. MaxSuspend
      BY BoundsAssumption
    <3> QED
      BY <2>2, <3>1, <1>1 DEF SuspendSelf, Goto, IInv, TypeOK
  <2>3. CASE ~SuspendSelf(t)
    BY <2>1, <2>3 DEF ScheduleTimeout, DeleteThread, IInv, TypeOK
  <2> QED
    BY <2>2, <2>3
<1>5. /\ dwTimeout' \subseteq Threads /\ timer' \subseteq Threads
      /\ nTickCount' \in [Threads -> Nat]
  BY DEF IInv, TypeOK, ScheduleTimeout, SuspendSelf, DeleteThread
<1>6. TypeOK'
  BY <1>2, <1>4, <1>5 DEF IInv, TypeOK
<1>7. Places'
  BY <1>1, <1>2, <1>3, ThreadsAssumption DEF IInv, Places
<1>8. \A m \in Threads : pc'[m] = "add" <=> pc[m] = "add"
  BY <1>1, <1>2
<1> QED
  BY <1>1, <1>2, <1>4, <1>6, <1>7, <1>8, QuietKeeps

LEMMA TickKeeps ==
  ASSUME IInv, NEW n \in 1 .. MaxLostTicks, Tick(n)
  PROVE  IInv'
<1>1. lpCurThread \in Threads
  BY DEF IInv, TypeOK
<1>2. nTickCount' \in [Threads -> Nat] /\ bNeedResched' \in BOOLEAN
  <2>1. CASE fPolicy[lpCurThread] = "FIFO"
    BY <2>1 DEF Tick, IInv, TypeOK
  <2>2. CASE fPolicy[lpCurThread] # "FIFO"
    <3>1. nTickCount[lpCurThread] - n \in Int
      BY <1>1, BoundsAssumption DEF IInv, TypeOK
    <3>2. SliceLeft(nTickCount[lpCurThread] - n) \in Nat
      BY <3>1 DEF SliceLeft
    <3> QED
      BY <2>2, <3>2 DEF Tick, IInv, TypeOK
  <2> QED
    BY <2>1, <2>2
<1>3. /\ UNCHANGED << rq, nCountRunning, dwState, nSuspendCount, nCurPriority,
                      nBoost, nLockScheCount, dwTimeout, timer, lpCurThread,
                      pc, lparg, fault >>
      /\ inIsr' = TRUE /\ (bNeedResched => bNeedResched')
  BY DEF Tick
<1>4. TypeOK' /\ Places'
  BY <1>2, <1>3 DEF IInv, TypeOK, Places
<1>5. nSuspendCount[lpCurThread] > 0 =>
        dwState[lpCurThread] = "SUSPENDED" /\ pc[lpCurThread] = "sche"
  BY <1>1 DEF IInv, SuspendedOffQueue, InRings, QueuedIffRunnable
<1> QED
  BY <1>3, <1>4, <1>5, QuietKeeps

LEMMA WakeUpsKeep ==
  ASSUME IInv, NEW u \in Threads,
         \/ \E t \in Threads : Up(t, u)
         \/ IsrUp(u) \/ ThreadTimeout(u)
  PROVE  IInv'
<1>1. CASE (\E t \in Threads : Up(t, u)) \/ IsrUp(u)
  <2>1. Rouse(u) /\ inIsr' \in BOOLEAN
    BY <1>1 DEF Up, IsrUp, IInv, TypeOK
  <2> QED
    BY <2>1, WakeKeeps DEF Rouse, IInv, TypeOK
<1>2. CASE ThreadTimeout(u) /\ Asleep(u)
  <2>1. dwTimeout' \subseteq Threads /\ timer' \subseteq Threads /\ inIsr' = TRUE
    BY <1>2 DEF ThreadTimeout, IInv, TypeOK
  <2> QED
    BY <1>2, <2>1, WakeKeeps DEF ThreadTimeout
<1>3. CASE ThreadTimeout(u) /\ ~Asleep(u)
  <2>1. /\ UNCHANGED << rq, nCountRunning, dwState, nBoost, bNeedResched,
                        nSuspendCount, nCurPriority, nTickCount,
                        nLockScheCount, lpCurThread, pc, lparg, fault >>
        /\ dwTimeout' \subseteq Threads /\ timer' \subseteq Threads
        /\ inIsr' = TRUE
    BY <1>3 DEF ThreadTimeout, IInv, TypeOK
  <2>2. TypeOK' /\ Places'
    BY <2>1 DEF IInv, TypeOK, Places
  <2>3. nSuspendCount[lpCurThread] > 0 =>
          dwState[lpCurThread] = "SUSPENDED" /\ pc[lpCurThread] = "sche"
    BY DEF IInv, TypeOK, SuspendedOffQueue, InRings, QueuedIffRunnable
  <2> QED
    BY <2>1, <2>2, <2>3, QuietKeeps
<1> QED
  BY <1>1, <1>2, <1>3

LEMMA SchedulingKeeps ==
  ASSUME IInv, Reschedules => RotatesAlone, NEW t \in Threads,
         CallSchedule(t) \/ Wait(t) \/ IsrReturn
  PROVE  IInv'
<1>1. /\ pc \in [Threads -> Labels] /\ dwState \in [Threads -> States]
      /\ lpCurThread \in Threads
      /\ dwState[Idle] = "RUNNING" /\ pc[Idle] \in {"run", "sche"}
  BY DEF IInv, TypeOK, Places
<1>2. nSuspendCount[lpCurThread] > 0 =>
        dwState[lpCurThread] = "SUSPENDED" /\ pc[lpCurThread] = "sche"
  BY <1>1 DEF IInv, SuspendedOffQueue, InRings, QueuedIffRunnable
<1>3. CASE CallSchedule(t)
  <2>1. /\ Schedule(dwState) /\ inIsr' \in BOOLEAN /\ timer' = timer
        /\ UNCHANGED << nSuspendCount, nCurPriority, nLockScheCount, lparg,
                        fault >>
        /\ pc' \in [Threads -> Labels] /\ pc'[Idle] \in {"run", "sche"}
        /\ \A m \in Threads : pc'[m] = "add" <=> pc[m] = "add"
    BY <1>1, <1>3, ThreadsAssumption DEF CallSchedule, Goto, Labels
  <2>2. RotatesAlone
    BY <1>3 DEF CallSchedule, Reschedules
  <2> QED
    BY <1>1, <1>2, <2>1, <2>2, SwitchKeeps
<1>4. CASE Wait(t)
  <2> DEFINE state == [dwState EXCEPT ![t] = "UNINTERRUPTIBLE"]
  <2>1. t = lpCurThread /\ pc[t] \in {"run", "wait"} /\ t # Idle
    BY <1>1, <1>4, ThreadsAssumption DEF Wait, Makes, At
  <2>2. /\ Schedule(state) /\ inIsr' = inIsr /\ timer' = timer
        /\ UNCHANGED << nSuspendCount, nCurPriority, nLockScheCount, lparg,
                        fault >>
        /\ pc' \in [Threads -> Labels] /\ pc'[Idle] \in {"run", "sche"}
        /\ \A m \in Threads : pc'[m] = "add" <=> pc[m] = "add"
    BY <1>1, <1>4, <2>1, ThreadsAssumption DEF Wait, Goto, Labels
  <2>3. /\ state \in [Threads -> States] /\ state[Idle] = "RUNNING"
        /\ \A u \in Threads \ {lpCurThread} : state[u] = dwState[u]
    BY <1>1, <2>1, ThreadsAssumption DEF States
  <2>4. ~(nSuspendCount[lpCurThread] > 0) /\ inIsr \in BOOLEAN
    BY <1>2, <2>1 DEF IInv, TypeOK
  <2>5. RotatesAlone
    BY <1>4, <2>1 DEF Reschedules
  <2> HIDE DEF state
  <2> QED
    BY <2>2, <2>3, <2>4, <2>5, SwitchKeeps
<1>5. CASE IsrReturn /\ bNeedResched /\ nLockScheCount[lpCurThread] = 0
  <2>1. /\ Schedule(dwState) /\ inIsr' = FALSE
        /\ UNCHANGED << nSuspendCount, nCurPriority, nLockScheCount, timer, pc,
                        lparg, fault >>
    BY <1>5 DEF IsrReturn
  <2>2. RotatesAlone
    BY <1>5 DEF Reschedules
  <2> QED
    BY <1>1, <1>2, <2>1, <2>2, SwitchKeeps
<1>6. CASE IsrReturn /\ ~(bNeedResched /\ nLockScheCount[lpCurThread] = 0)
  <2>1. /\ UNCHANGED << rq, nCountRunning, dwState, nTickCount, nBoost,
                        dwTimeout, lpCurThread, bNeedResched, nSuspendCount,
                        nCurPriority, nLockScheCount, timer, pc, lparg, fault >>
        /\ inIsr' = FALSE
    BY <1>6 DEF IsrReturn
  <2>2. TypeOK' /\ Places'
    BY <2>1 DEF IInv, TypeOK, Places
  <2> QED
    BY <1>2, <2>1, <2>2, QuietKeeps
<1> QED
  BY <1>3, <1>4, <1>5, <1>6

\* Whoever finds a thread in the rings, between two calls, finds it not
\* suspended and not being resumed.
LEMMA LinkedFree ==
  ASSUME IInv, pc[lpCurThread] = "run", NEW u \in Threads, Linked(rq, u)
  PROVE  nSuspendCount[u] = 0 /\ ~BeingResumed(u)
<1>1. nSuspendCount[u] \in 0 .. MaxSuspend /\ MaxSuspend \in Nat
  BY BoundsAssumption DEF IInv, TypeOK
<1>2. ~(nSuspendCount[u] > 0)
  BY DEF IInv, SuspendedOffQueue, InRings
<1>3. ~BeingResumed(u)
  BY DEF IInv, QueuedIffRunnable, Resumptions, BeingResumed
<1> QED
  BY <1>1, <1>2, <1>3

\* A thread that is THREAD_RUNNING and in no ring is being resumed.
LEMMA MissingResumed ==
  ASSUME IInv, NEW u \in Threads, dwState[u] = "RUNNING", ~Linked(rq, u)
  PROVE  BeingResumed(u)
BY DEF IInv, QueuedIffRunnable

LEMMA SuspendKeeps ==
  ASSUME IInv, NEW t \in Threads, NEW u \in Threads,
         DoSuspendThread(t, u)
  PROVE  IInv'
<1>1. /\ t = lpCurThread /\ pc[t] = "run" /\ u # t /\ u # Idle
      /\ Makes(t, "manage") /\ nSuspendCount[u] < MaxSuspend
      /\ nSuspendCount' = [nSuspendCount EXCEPT ![u] = @ + 1]
      /\ UNCHANGED << nCurPriority, nTickCount, nLockScheCount, dwTimeout, timer,
                      lpCurThread, bNeedResched, inIsr, pc, lparg >>
  BY DEF DoSuspendThread, Makes, At
<1>2. /\ rq \in Rings /\ nCurPriority \in [Threads -> Levels]
      /\ Whole(rq, nCurPriority) /\ nBoost \in [Threads -> Nat]
      /\ nCountRunning = Cardinality(Queued(rq) \ {Idle})
      /\ dwState \in [Threads -> States]
      /\ nSuspendCount \in [Threads -> 0 .. MaxSuspend]
  BY DEF IInv, TypeOK, RingsWhole, CountAgrees, InRings, Queued
<1>3. nSuspendCount' \in [Threads -> 0 .. MaxSuspend]
  <2>1. nSuspendCount[u] + 1 \in 0 .. MaxSuspend
    BY <1>1, <1>2, BoundsAssumption
  <2> QED
    BY <1>1, <1>2, <2>1
<1>4. /\ \A v \in Threads : BeingResumed(v)' <=> BeingResumed(v)
      /\ \A v \in Threads \ {u} : nSuspendCount'[v] = nSuspendCount[v]
  BY <1>1, <1>2 DEF BeingResumed
<1>5. CASE dwState[u] = "RUNNING" /\ Linked(rq, u)
  <2>1. nSuspendCount[u] = 0 /\ ~BeingResumed(u)
    BY <1>1, <1>5, LinkedFree
  <2>2. /\ rq' = Unlink(rq, u, nCurPriority[u])
        /\ nCountRunning' = nCountRunning - 1
        /\ nBoost' = [nBoost EXCEPT ![u] = 0]
        /\ dwState' = [dwState EXCEPT ![u] = "SUSPENDED"]
        /\ fault' = fault
    BY <1>5, <2>1 DEF DoSuspendThread, Runnable
  <2>3. /\ rq' \in Rings /\ Whole(rq', nCurPriority)
        /\ \A v \in Threads : Linked(rq', v) <=> v # u /\ Linked(rq, v)
    BY <1>2, <1>5, <2>2, UnlinkWhole, ThreadsAssumption
  <2>4. nCountRunning' = Cardinality(Queued(rq') \ {Idle}) /\ nCountRunning' \in Int
    <3>1. Queued(rq') = Queued(rq) \ {u}
      BY <2>3 DEF Queued
    <3> QED
      BY <3>1, <1>1, <1>2, <1>5, <2>2, CountChanges
  <2>5. TypeOK'
    BY <1>1, <1>2, <1>3, <2>2, <2>3, <2>4 DEF IInv, TypeOK, States
  <2>6. RingsWhole' /\ CountAgrees' /\ UrgentRequested'
    BY <1>1, <2>2, <2>3, <2>4 DEF IInv, RingsWhole, CountAgrees,
       UrgentRequested, InRings, Queued
  <2>7. QueuedIffRunnable'
    BY <1>1, <1>2, <1>4, <2>2, <2>3 DEF IInv, QueuedIffRunnable
  <2>8. SuspendedOffQueue'
    <3> SUFFICES ASSUME NEW v \in Threads, v # u, Linked(rq, v),
                        nSuspendCount'[v] > 0
                 PROVE  /\ v = lpCurThread /\ dwState'[v] = "SUSPENDED"
                        /\ pc[v] = "sche"
      BY <1>1, <2>3 DEF SuspendedOffQueue, InRings
    <3>1. nSuspendCount[v] > 0 /\ dwState'[v] = dwState[v]
      BY <1>1, <1>2, <2>2
    <3> QED
      BY <3>1 DEF IInv, SuspendedOffQueue, InRings
  <2>9. Places'
    BY <1>1, <2>2 DEF IInv, Places
  <2>10. Resumptions'
    <3>1. \A m \in Threads : pc[m] = "add" => lparg[m] # u
      BY <2>1 DEF BeingResumed
    <3>2. \A v \in Threads \ {u} : dwState'[v] = dwState[v]
      BY <1>2, <2>2
    <3> QED
      BY <1>1, <1>4, <2>2, <3>1, <3>2 DEF IInv, Resumptions
  <2> QED
    BY <2>5, <2>6, <2>7, <2>8, <2>9, <2>10 DEF IInv
<1>6. CASE ~(dwState[u] = "RUNNING" /\ Linked(rq, u))
  <2>1. /\ UNCHANGED << rq, nCountRunning, dwState, nBoost >>
        /\ dwState[u] = "RUNNING" /\ nSuspendCount[u] = 0 => fault'
        /\ (fault => fault') /\ fault' \in BOOLEAN
    BY <1>6 DEF DoSuspendThread, Runnable, IInv, TypeOK
  <2>2. TypeOK' /\ RingsWhole' /\ CountAgrees'
        /\ UrgentRequested' /\ QueuedIffRunnable' /\ Places' /\ Resumptions'
    <3>1. TypeOK'
      BY <1>1, <1>3, <2>1 DEF IInv, TypeOK
    <3>2. RingsWhole' /\ CountAgrees' /\ UrgentRequested'
      BY <1>1, <2>1 DEF IInv, RingsWhole, CountAgrees,
         UrgentRequested, InRings
    <3>3. QueuedIffRunnable' /\ Places'
      BY <1>1, <1>4, <2>1 DEF IInv, QueuedIffRunnable, Places
    <3>4. \A m \in Threads :
            pc[m] = "add" => fault' \/ nSuspendCount'[lparg[m]] = 0
      <4> SUFFICES ASSUME NEW m \in Threads, pc[m] = "add"
                   PROVE  fault' \/ nSuspendCount'[lparg[m]] = 0
        OBVIOUS
      <4>1. /\ lparg[m] \in Threads /\ dwState[lparg[m]] = "RUNNING"
            /\ fault \/ nSuspendCount[lparg[m]] = 0
        BY DEF IInv, Resumptions
      <4>2. CASE fault
        BY <4>2, <2>1
      <4>3. CASE ~fault /\ lparg[m] = u
        BY <4>1, <4>3, <2>1
      <4>4. CASE ~fault /\ lparg[m] # u
        BY <4>1, <4>4, <1>4
      <4> QED
        BY <4>2, <4>3, <4>4
    <3>5. Resumptions'
      BY <1>1, <2>1, <3>4 DEF IInv, Resumptions
    <3> QED
      BY <3>1, <3>2, <3>3, <3>5
  <2>3. ~Linked(rq, u)
    BY <1>1, <1>6 DEF IInv, QueuedIffRunnable
  <2>4. SuspendedOffQueue'
    <3> SUFFICES ASSUME NEW v \in Threads, v # u, Linked(rq, v),
                        nSuspendCount'[v] > 0
                 PROVE  /\ v = lpCurThread /\ dwState[v] = "SUSPENDED"
                        /\ pc[v] = "sche"
      BY <1>1, <2>1, <2>3 DEF SuspendedOffQueue, InRings
    <3>1. nSuspendCount[v] > 0
      BY <1>1, <1>2
    <3> QED
      BY <3>1 DEF IInv, SuspendedOffQueue, InRings
  <2> QED
    BY <2>2, <2>4 DEF IInv
<1> QED
  BY <1>5, <1>6

LEMMA ResumeKeeps ==
  ASSUME IInv, ~fault, NEW t \in Threads, NEW u \in Threads,
         DoResumeThread(t, u)
  PROVE  IInv'
<1>1. /\ t = lpCurThread /\ pc[t] = "run" /\ u # t /\ u # Idle
      /\ Makes(t, "manage") /\ nSuspendCount[u] # 0
      /\ nSuspendCount' = [nSuspendCount EXCEPT ![u] = @ - 1]
      /\ UNCHANGED << rq, nCountRunning, nCurPriority, nTickCount, nBoost,
                      nLockScheCount, dwTimeout, timer, lpCurThread,
                      bNeedResched, inIsr, fault >>
  BY DEF DoResumeThread, Makes, At
<1>2. /\ nSuspendCount \in [Threads -> 0 .. MaxSuspend]
      /\ dwState \in [Threads -> States] /\ pc \in [Threads -> Labels]
      /\ lparg \in [Threads -> Threads \cup {NoThread}]
  BY DEF IInv, TypeOK
<1>3. nSuspendCount' \in [Threads -> 0 .. MaxSuspend]
  <2>1. nSuspendCount[u] - 1 \in 0 .. MaxSuspend
    BY <1>1, <1>2, BoundsAssumption
  <2> QED
    BY <1>1, <1>2, <2>1
<1>4. \A m \in Threads : pc[m] = "add" => lparg[m] # u /\ m # t
  BY <1>1 DEF IInv, Resumptions
<1>5. t # Idle
  BY <1>1, ThreadsAssumption DEF Makes
<1>6. RingsWhole' /\ CountAgrees' /\ UrgentRequested'
  BY <1>1 DEF IInv, RingsWhole, CountAgrees, UrgentRequested, InRings
<1>7. dwState[t] = "RUNNING" /\ nSuspendCount[t] = 0
  BY <1>1, RunsFree
<1>8. \A v \in Threads : Linked(rq, v) => ~(nSuspendCount[v] > 0)
  BY <1>1, <1>7 DEF IInv, SuspendedOffQueue, InRings
<1>9. CASE dwState[u] = "SUSPENDED" /\ nSuspendCount[u] = 1
  <2>1. /\ dwState' = [dwState EXCEPT ![u] = "RUNNING"]
        /\ pc' = [pc EXCEPT ![t] = "add"]
        /\ lparg' = [lparg EXCEPT ![t] = u]
    BY <1>9 DEF DoResumeThread, Goto
  <2>2. TypeOK'
    BY <1>1, <1>2, <1>3, <2>1 DEF IInv, TypeOK, States, Labels
  <2>3. ~Linked(rq, u)
    BY <1>1, <1>9 DEF IInv, QueuedIffRunnable
  <2>4. \A v \in Threads : BeingResumed(v)' <=> BeingResumed(v) \/ v = u
    BY <1>1, <1>2, <1>4, <2>1 DEF BeingResumed
  <2>5. QueuedIffRunnable'
    <3> SUFFICES ASSUME NEW v \in Threads
                 PROVE  Linked(rq, v) <=> \/ v = lpCurThread
                                          \/ /\ dwState'[v] = "RUNNING"
                                             /\ ~BeingResumed(v)'
      BY <1>1 DEF QueuedIffRunnable
    <3>1. Linked(rq, v) <=> \/ v = lpCurThread
                            \/ dwState[v] = "RUNNING" /\ ~BeingResumed(v)
      BY DEF IInv, QueuedIffRunnable
    <3>2. v # u => dwState'[v] = dwState[v]
      BY <1>2, <2>1
    <3> QED
      BY <3>1, <3>2, <1>1, <2>3, <2>4
  <2>6. SuspendedOffQueue'
    <3> SUFFICES ASSUME NEW v \in Threads, Linked(rq, v), nSuspendCount'[v] > 0
                 PROVE  FALSE
      BY <1>1 DEF SuspendedOffQueue, InRings
    <3> QED
      BY <1>1, <1>2, <1>8, <2>3
  <2>7. Places'
    BY <1>1, <1>2, <1>5, <1>7, <2>1, ThreadsAssumption DEF IInv, Places
  <2>8. Resumptions'
    <3> SUFFICES ASSUME NEW m \in Threads, pc'[m] = "add"
                 PROVE  /\ lparg'[m] \in Threads \ {Idle, lpCurThread}
                        /\ dwState'[lparg'[m]] = "RUNNING"
                        /\ nSuspendCount'[lparg'[m]] = 0
                        /\ \A n \in Threads :
                             pc'[n] = "add" /\ lparg'[n] = lparg'[m] => n = m
      BY <1>1 DEF Resumptions
    <3>1. /\ dwState'[u] = "RUNNING" /\ nSuspendCount'[u] = 0 /\ lparg'[t] = u
          /\ \A v \in Threads \ {u} : /\ dwState'[v] = dwState[v]
                                       /\ nSuspendCount'[v] = nSuspendCount[v]
          /\ \A n \in Threads \ {t} : lparg'[n] = lparg[n] /\ pc'[n] = pc[n]
      BY <1>1, <1>2, <1>9, <2>1
    <3>2. \A n \in Threads \ {t} : pc'[n] = "add" => lparg'[n] # u
      BY <3>1, <1>4
    <3>3. CASE m = t
      BY <3>1, <3>2, <3>3, <1>1
    <3>4. CASE m # t
      <4>1. /\ lparg[m] \in Threads \ {Idle, lpCurThread, u}
            /\ dwState[lparg[m]] = "RUNNING" /\ nSuspendCount[lparg[m]] = 0
            /\ \A n \in Threads : pc[n] = "add" /\ lparg[n] = lparg[m] => n = m
        BY <3>1, <3>2, <3>4 DEF IInv, Resumptions
      <4> QED
        BY <3>1, <3>4, <4>1
    <3> QED
      BY <3>3, <3>4
  <2> QED
    BY <1>6, <2>2, <2>5, <2>6, <2>7, <2>8 DEF IInv
<1>10. CASE ~(dwState[u] = "SUSPENDED" /\ nSuspendCount[u] = 1)
  <2>1. UNCHANGED << dwState, pc, lparg >>
    BY <1>10 DEF DoResumeThread
  <2>2. TypeOK'
    BY <1>1, <1>3, <2>1 DEF IInv, TypeOK
  <2>3. QueuedIffRunnable' /\ Places'
    BY <1>1, <2>1 DEF IInv, QueuedIffRunnable, BeingResumed, Places
  <2>4. Resumptions'
    <3>1. \A v \in Threads \ {u} : nSuspendCount'[v] = nSuspendCount[v]
      BY <1>1, <1>2
    <3> QED
      BY <3>1, <1>1, <1>4, <2>1 DEF IInv, Resumptions
  <2>5. SuspendedOffQueue'
    <3> SUFFICES ASSUME NEW v \in Threads, Linked(rq, v), nSuspendCount'[v] > 0
                 PROVE  FALSE
      BY <1>1 DEF SuspendedOffQueue, InRings
    <3>1. nSuspendCount[v] > 0
      BY <1>1, <1>2
    <3> QED
      BY <3>1, <1>8
  <2> QED
    BY <1>6, <2>2, <2>3, <2>4, <2>5 DEF IInv
<1> QED
  BY <1>9, <1>10

LEMMA AddResumedKeeps ==
  ASSUME IInv, ~fault, NEW t \in Threads, AddResumed(t)
  PROVE  IInv'
<1> DEFINE u == lparg[t]
<1>1. /\ t = lpCurThread /\ pc[t] = "add"
      /\ AddToRunQueue(rq, nCountRunning, nCurPriority, dwState, u)
      /\ lparg' = [lparg EXCEPT ![t] = NoThread]
      /\ pc' = [pc EXCEPT ![t] = "run"]
      /\ UNCHANGED << nSuspendCount, nCurPriority, nTickCount, nBoost,
                      nLockScheCount, dwTimeout, timer, lpCurThread, inIsr,
                      fault >>
  BY DEF AddResumed, At, Goto
<1>2. /\ rq \in Rings /\ nCurPriority \in [Threads -> Levels]
      /\ Whole(rq, nCurPriority) /\ dwState \in [Threads -> States]
      /\ nCountRunning = Cardinality(Queued(rq) \ {Idle})
      /\ pc \in [Threads -> Labels]
      /\ lparg \in [Threads -> Threads \cup {NoThread}]
  BY DEF IInv, TypeOK, RingsWhole, CountAgrees, InRings, Queued
<1>3. /\ u \in Threads \ {Idle, lpCurThread}
      /\ dwState[u] = "RUNNING" /\ nSuspendCount[u] = 0
  BY <1>1 DEF IInv, Resumptions
<1>4. \A m \in Threads : pc[m] = "add" /\ lparg[m] = u => m = t
  BY <1>1 DEF IInv, Resumptions
<1>5. BeingResumed(u) /\ ~Linked(rq, u)
  BY <1>1, <1>3 DEF IInv, QueuedIffRunnable, BeingResumed
<1>6. /\ rq' \in Rings /\ Whole(rq', nCurPriority)
      /\ \A v \in Threads : Linked(rq', v) <=> \/ Linked(rq, v)
                                               \/ v = u /\ nSuspendCount[u] = 0
      /\ nCountRunning' = Cardinality(Queued(rq') \ {Idle})
      /\ nCountRunning' \in Int
      /\ dwState' = IF nSuspendCount[u] = 0 THEN dwState
                    ELSE [dwState EXCEPT ![u] = "SUSPENDED"]
      /\ bNeedResched' = (\/ bNeedResched
                          \/ /\ nSuspendCount[u] = 0
                             /\ nCurPriority[u] <= nCurPriority[lpCurThread])
  <2> HIDE DEF u
  <2> QED
    BY <1>1, <1>2, <1>3, <1>5, AddKeeps
<1>7. dwState' = dwState
  BY <1>3, <1>6
<1>8. TypeOK'
  <2>1. bNeedResched' \in BOOLEAN
    BY <1>6
  <2>2. pc' \in [Threads -> Labels]
    BY <1>1, <1>2 DEF Labels
  <2>3. lparg' \in [Threads -> Threads \cup {NoThread}]
    BY <1>1, <1>2
  <2> QED
    BY <1>1, <1>6, <1>7, <2>1, <2>2, <2>3 DEF IInv, TypeOK
<1>9. RingsWhole' /\ CountAgrees'
  BY <1>1, <1>6 DEF IInv, RingsWhole, CountAgrees, InRings, Queued
<1>10. UrgentRequested'
  <2> SUFFICES ASSUME ~bNeedResched', NEW v \in Threads, Linked(rq', v)
               PROVE  nCurPriority[lpCurThread] <= nCurPriority[v]
    BY <1>1 DEF UrgentRequested, InRings
  <2>1. CASE Linked(rq, v)
    BY <2>1, <1>6 DEF IInv, UrgentRequested, InRings
  <2>2. CASE v = u
    <3> DEFINE a == nCurPriority[u]
               b == nCurPriority[lpCurThread]
    <3>1. ~(a <= b)
      BY <1>3, <1>6
    <3>2. a \in Levels /\ b \in Levels
      BY <1>2, <1>3 DEF IInv, TypeOK
    <3>3. Levels \subseteq 0 .. 255
      BY LevelsAssumption DEF IDLE_PRIORITY
    <3> HIDE DEF a, b
    <3>4. b <= a
      BY <3>1, <3>2, <3>3
    <3> QED
      BY <3>4, <2>2 DEF a, b
  <2> QED
    BY <2>1, <2>2, <1>6
<1>11. \A v \in Threads : BeingResumed(v)' <=> v # u /\ BeingResumed(v)
  BY <1>1, <1>2, <1>4 DEF BeingResumed
<1>12. QueuedIffRunnable'
  <2> SUFFICES ASSUME NEW v \in Threads
               PROVE  Linked(rq', v) <=> \/ v = lpCurThread
                                        \/ /\ dwState[v] = "RUNNING"
                                           /\ ~(v # u /\ BeingResumed(v))
    BY <1>1, <1>7, <1>11 DEF QueuedIffRunnable
  <2>1. Linked(rq, v) <=> \/ v = lpCurThread
                          \/ dwState[v] = "RUNNING" /\ ~BeingResumed(v)
    BY DEF IInv, QueuedIffRunnable
  <2> QED
    BY <2>1, <1>3, <1>6
<1>13. SuspendedOffQueue'
  <2> SUFFICES ASSUME NEW v \in Threads, Linked(rq', v), nSuspendCount[v] > 0
               PROVE  FALSE
    BY <1>1 DEF SuspendedOffQueue, InRings
  <2>1. Linked(rq, v)
    BY <1>3, <1>6
  <2>2. v = lpCurThread /\ pc[v] = "sche"
    BY <2>1 DEF IInv, SuspendedOffQueue, InRings
  <2> QED
    BY <2>2, <1>1
<1>14. Places'
  <2>1. dwState[t] = "RUNNING" /\ t # Idle
    BY <1>1, RunsFree DEF IInv, Places
  <2> QED
    BY <2>1, <1>1, <1>2, <1>7, ThreadsAssumption DEF IInv, Places
<1>15. Resumptions'
  <2>1. \A m \in Threads : pc'[m] = "add" => m # t
    BY <1>1, <1>2
  <2>2. \A m \in Threads \ {t} : lparg'[m] = lparg[m] /\ pc'[m] = pc[m]
    BY <1>1, <1>2
  <2> QED
    BY <2>1, <2>2, <1>1, <1>7 DEF IInv, Resumptions
<1> QED
  BY <1>8, <1>9, <1>10, <1>12, <1>13, <1>14, <1>15 DEF IInv

LEMMA PriorityKeeps ==
  ASSUME IInv, NEW t \in Threads, NEW u \in Threads,
         NEW p \in Levels, SetThreadCurrentPriority(t, u, p)
  PROVE  IInv'
<1> DEFINE priority == [nCurPriority EXCEPT ![u] = p]
<1>1. /\ t = lpCurThread /\ pc[t] = "run"
      /\ Makes(t, "manage") \/ (Makes(t, "priority") /\ u = t)
      /\ p \in PriorityArgs[u]
      /\ UNCHANGED << nSuspendCount, nTickCount, nLockScheCount, dwTimeout,
                      timer, lpCurThread, inIsr, pc, lparg >>
  BY DEF SetThreadCurrentPriority, Makes, At
<1>2. /\ rq \in Rings /\ nCurPriority \in [Threads -> Levels]
      /\ Whole(rq, nCurPriority) /\ nBoost \in [Threads -> Nat]
      /\ nCountRunning = Cardinality(Queued(rq) \ {Idle})
      /\ dwState \in [Threads -> States] /\ lpCurThread \in Threads
  BY DEF IInv, TypeOK, RingsWhole, CountAgrees, InRings, Queued
<1>3. u # Idle
  BY <1>1, LevelsAssumption
<1>4. priority \in [Threads -> Levels]
  BY <1>2
<1>5. CASE dwState[u] # "RUNNING"
  <2>1. /\ nCurPriority' = priority
        /\ UNCHANGED << rq, nCountRunning, dwState, nBoost, bNeedResched, fault >>
    BY <1>5 DEF SetThreadCurrentPriority, Runnable
  <2>2. u # lpCurThread /\ ~Linked(rq, u)
    BY <1>1, <1>5, RunsFree DEF IInv, QueuedIffRunnable
  <2>3. Whole(rq, priority)
    BY <1>2, <2>2, OutsideWhole
  <2>4. \A v \in Threads : Linked(rq, v) => priority[v] = nCurPriority[v]
    BY <1>2, <2>2
  <2>5. TypeOK'
    BY <1>1, <1>4, <2>1 DEF IInv, TypeOK
  <2>6. RingsWhole' /\ CountAgrees'
    BY <2>1, <2>3 DEF IInv, RingsWhole, CountAgrees, InRings
  <2>7. UrgentRequested'
    <3>1. priority[lpCurThread] = nCurPriority[lpCurThread]
      BY <1>2, <2>2
    <3> HIDE DEF priority
    <3> QED
      BY <1>1, <2>1, <2>4, <3>1 DEF IInv, UrgentRequested, InRings
  <2>8. QueuedIffRunnable' /\ SuspendedOffQueue' /\ Resumptions'
    BY <1>1, <2>1 DEF IInv, QueuedIffRunnable, BeingResumed,
       SuspendedOffQueue, InRings, Resumptions
  <2>9. Places'
    BY <1>1, <1>2, <2>1 DEF IInv, Places
  <2> QED
    BY <2>5, <2>6, <2>7, <2>8, <2>9 DEF IInv
<1>6. CASE dwState[u] = "RUNNING" /\ ~Linked(rq, u)
  <2>1. /\ UNCHANGED << rq, nCountRunning, dwState, nBoost, bNeedResched,
                        nCurPriority >>
        /\ fault' = TRUE
    BY <1>6 DEF SetThreadCurrentPriority, Runnable
  <2>2. TypeOK' /\ Places'
    BY <1>1, <2>1 DEF IInv, TypeOK, Places
  <2>3. RingsWhole' /\ CountAgrees' /\ UrgentRequested'
    BY <1>1, <2>1 DEF IInv, RingsWhole, CountAgrees, UrgentRequested, InRings
  <2>4. QueuedIffRunnable' /\ SuspendedOffQueue' /\ Resumptions'
    BY <1>1, <2>1 DEF IInv, QueuedIffRunnable, BeingResumed,
       SuspendedOffQueue, InRings, Resumptions
  <2> QED
    BY <2>2, <2>3, <2>4 DEF IInv
<1>7. CASE dwState[u] = "RUNNING" /\ Linked(rq, u)
  <2> DEFINE q == Unlink(rq, u, nCurPriority[u])
  <2>1. Linked(rq, u) /\ nSuspendCount[u] = 0
    BY <1>1, <1>7, LinkedFree
  <2>2. /\ nCurPriority' = priority /\ nBoost' = [nBoost EXCEPT ![u] = 0]
        /\ AddToRunQueue(q, nCountRunning - 1, priority, dwState, u)
        /\ fault' = fault
    BY <1>7, <2>1 DEF SetThreadCurrentPriority, Runnable
  <2>3. /\ q \in Rings /\ Whole(q, nCurPriority)
        /\ \A v \in Threads : Linked(q, v) <=> v # u /\ Linked(rq, v)
    BY <1>2, <2>1, UnlinkWhole, ThreadsAssumption
  <2> HIDE DEF q
  <2>4. Whole(q, priority) /\ ~Linked(q, u)
    BY <1>2, <2>3, OutsideWhole
  <2>5. nCountRunning - 1 = Cardinality(Queued(q) \ {Idle})
    <3>1. Queued(q) = Queued(rq) \ {u}
      BY <2>3 DEF Queued
    <3> QED
      BY <3>1, <1>2, <1>3, <2>1, CountChanges
  <2>6. /\ rq' \in Rings /\ Whole(rq', priority)
        /\ \A v \in Threads : Linked(rq', v) <=> \/ Linked(q, v)
                                                 \/ v = u /\ nSuspendCount[u] = 0
        /\ nCountRunning' = Cardinality(Queued(rq') \ {Idle})
        /\ nCountRunning' \in Int
        /\ dwState' = IF nSuspendCount[u] = 0 THEN dwState
                      ELSE [dwState EXCEPT ![u] = "SUSPENDED"]
        /\ bNeedResched' = (\/ bNeedResched
                            \/ /\ nSuspendCount[u] = 0
                               /\ priority[u] <= priority[lpCurThread])
    <3> HIDE DEF priority
    <3> QED
      BY <1>2, <1>3, <1>4, <2>2, <2>3, <2>4, <2>5, AddKeeps
  <2>7. dwState' = dwState
    BY <2>1, <2>6
  <2>8. \A v \in Threads : Linked(rq', v) <=> Linked(rq, v)
    BY <2>1, <2>3, <2>6
  <2>9. TypeOK'
    <3>1. bNeedResched' \in BOOLEAN /\ nBoost' \in [Threads -> Nat]
      BY <1>2, <2>2, <2>6
    <3> QED
      BY <1>1, <1>4, <2>2, <2>6, <2>7, <3>1 DEF IInv, TypeOK
  <2>10. RingsWhole' /\ CountAgrees'
    BY <2>2, <2>6 DEF IInv, RingsWhole, CountAgrees, InRings, Queued
  <2>11. UrgentRequested'
    <3> SUFFICES ASSUME ~bNeedResched', NEW v \in Threads, Linked(rq', v)
                 PROVE  priority[lpCurThread] <= priority[v]
      BY <1>1, <2>2 DEF UrgentRequested, InRings
    <3>1. ~bNeedResched /\ ~(priority[u] <= priority[lpCurThread])
      BY <2>1, <2>6
    <3>2. /\ priority[u] \in Levels /\ priority[lpCurThread] \in Levels
          /\ Levels \subseteq 0 .. 255
      BY <1>2, <1>4, LevelsAssumption DEF IDLE_PRIORITY
    <3>3. u # lpCurThread /\ priority[lpCurThread] <= priority[u]
      <4> DEFINE a == priority[u]
                 b == priority[lpCurThread]
      <4>1. a \in 0 .. 255 /\ b \in 0 .. 255 /\ ~(a <= b)
        BY <3>1, <3>2
      <4>2. u = lpCurThread => a = b
        OBVIOUS
      <4> HIDE DEF a, b
      <4>3. b <= a /\ a # b
        BY <4>1
      <4> QED
        BY <4>2, <4>3 DEF a, b
    <3>4. CASE v = u
      BY <3>3, <3>4
    <3>5. CASE v # u
      <4>1. nCurPriority[lpCurThread] <= nCurPriority[v]
        BY <3>1, <2>8 DEF IInv, UrgentRequested, InRings
      <4> QED
        BY <4>1, <3>3, <3>5, <1>2
    <3> QED
      BY <3>4, <3>5
  <2>12. QueuedIffRunnable' /\ SuspendedOffQueue' /\ Resumptions'
    BY <1>1, <2>2, <2>7, <2>8 DEF IInv, QueuedIffRunnable, BeingResumed,
       SuspendedOffQueue, InRings, Resumptions
  <2>13. Places'
    BY <1>1, <1>2, <2>2, <2>7 DEF IInv, Places
  <2> QED
    BY <2>9, <2>10, <2>11, <2>12, <2>13 DEF IInv
<1> QED
  BY <1>5, <1>6, <1>7

-----------------------------------------------------------------------------
(* The start, and the theorems. *)

LEMMA OnlyIdleWhole ==
  /\ OnlyIdle \in Rings /\ Whole(OnlyIdle, CreatedAt)
  /\ \A u \in Threads : Linked(OnlyIdle, u) <=> u = Idle
<1> DEFINE q == OnlyIdle
<1>1. /\ Idle \in Threads /\ NoThread \notin Threads
      /\ IDLE_PRIORITY \in Levels /\ CreatedAt \in [Threads -> Levels]
      /\ CreatedAt[Idle] = IDLE_PRIORITY
  BY ThreadsAssumption, LevelsAssumption
<1>2. q \in Rings
  BY <1>1 DEF OnlyIdle, Rings
<1>3. \A u \in Threads : Linked(q, u) <=> u = Idle
  BY <1>1 DEF OnlyIdle, Linked
<1>4. \A p \in Levels : Ring(q, CreatedAt, p) =
                          IF p = IDLE_PRIORITY THEN {Idle} ELSE {}
  BY <1>1, <1>3 DEF Ring
<1>5. LinksAgree(q, CreatedAt)
  BY <1>1, <1>3, <1>4 DEF LinksAgree, OnlyIdle
<1>6. ListsAgree(q, CreatedAt)
  <2> SUFFICES ASSUME NEW p \in Levels
               PROVE  /\ Ring(q, CreatedAt, p) = {} =>
                           q.lpThreadList[p] = NoThread
                      /\ Ring(q, CreatedAt, p) # {} =>
                           q.lpThreadList[p] \in Ring(q, CreatedAt, p)
                      /\ p \in q.dwPriorityBitmap <=> Ring(q, CreatedAt, p) # {}
    BY DEF ListsAgree
  <2> QED
    BY <1>1, <1>4 DEF OnlyIdle
<1>7. GroupsAgree(q)
  BY DEF GroupsAgree, OnlyIdle
<1>8. OneRing(q, CreatedAt)
  BY <1>4 DEF OneRing
<1> QED
  BY <1>2, <1>3, <1>5, <1>6, <1>7, <1>8 DEF Whole

LEMMA InitIInv == Init => IInv
<1> SUFFICES ASSUME Init PROVE IInv
  OBVIOUS
<1>1. /\ Starter \in Threads \ {Idle} /\ Idle \in Threads
      /\ CreatedAt \in [Threads -> Levels] /\ NoThread \notin Threads
  BY ThreadsAssumption, LevelsAssumption
<1>2. /\ rq \in Rings /\ Whole(rq, CreatedAt)
      /\ \A u \in Threads : Linked(rq, u) <=> u \in {Starter, Idle}
  BY <1>1, OnlyIdleWhole, LinkWhole DEF Init
<1>3. nCountRunning = Cardinality(InRings \ {Idle})
  <2>1. InRings \ {Idle} = {Starter}
    BY <1>1, <1>2 DEF InRings
  <2> QED
    BY <2>1, FS_Singleton DEF Init
<1>4. TypeOK
  <2>1. 0 \in 0 .. MaxSuspend /\ 1 \in 0 .. MaxSuspend
    BY BoundsAssumption
  <2>2. nSuspendCount \in [Threads -> 0 .. MaxSuspend]
    BY <2>1 DEF Init
  <2>3. nTickCount \in [Threads -> Nat]
    BY BoundsAssumption DEF Init, nRotate
  <2>4. /\ dwState \in [Threads -> States] /\ pc \in [Threads -> Labels]
        /\ nLockScheCount \in [Threads -> {0, 1}]
    BY DEF Init, States, Labels
  <2>5. /\ nBoost \in [Threads -> Nat] /\ nCountRunning \in Int
        /\ nCurPriority \in [Threads -> Levels]
        /\ lparg \in [Threads -> Threads \cup {NoThread}]
    BY <1>1 DEF Init
  <2>6. /\ dwTimeout \subseteq Threads /\ timer \subseteq Threads
        /\ lpCurThread \in Threads
        /\ bNeedResched \in BOOLEAN /\ inIsr \in BOOLEAN /\ fault \in BOOLEAN
    BY <1>1 DEF Init
  <2> QED
    BY <1>2, <2>2, <2>3, <2>4, <2>5, <2>6 DEF TypeOK
<1>5. RingsWhole /\ CountAgrees /\ UrgentRequested
  BY <1>2, <1>3 DEF Init, RingsWhole, CountAgrees, UrgentRequested
<1>6. \A m \in Threads : pc[m] # "add"
  BY DEF Init
<1>7. QueuedIffRunnable
  BY <1>2, <1>6, <1>1 DEF Init, QueuedIffRunnable, BeingResumed
<1>8. SuspendedOffQueue
  BY <1>2, <1>1 DEF Init, SuspendedOffQueue, InRings
<1>9. Places
  BY <1>1 DEF Init, Places
<1>10. Resumptions
  BY <1>6 DEF Resumptions
<1> QED
  BY <1>4, <1>5, <1>7, <1>8, <1>9, <1>10 DEF IInv

LEMMA NextIInv ==
  ASSUME IInv, [Next]_vars, [Reschedules => RotatesAlone]_vars
  PROVE  IInv'
<1>1. CASE Next /\ (Reschedules => RotatesAlone)
  <2>1. ASSUME NEW t \in Threads, Client(t) PROVE IInv'
    <3>1. CASE SleepZero(t) \/ LockSchedule(t) \/ UnlockSchedule(t)
      BY <3>1, LocalStepsKeep
    <3>2. CASE \/ SuspendSelf(t) \/ DeleteThread(t)
               \/ \E time \in {"zero", "finite", "infinite"} :
                    ScheduleTimeout(t, time)
      BY <3>2, GoingToSleepKeeps
    <3>3. CASE Wait(t)
      BY <1>1, <3>3, SchedulingKeeps
    <3>4. CASE \E u \in Threads : Up(t, u)
      BY <3>4, WakeUpsKeep
    <3>5. CASE \E u \in Threads : DoSuspendThread(t, u)
      BY <3>5, SuspendKeeps
    <3>6. CASE \E u \in Threads : DoResumeThread(t, u)
      BY <1>1, <3>6, ResumeKeeps DEF Next
    <3>7. CASE \E u \in Threads, p \in Levels : SetThreadCurrentPriority(t, u, p)
      BY <3>7, PriorityKeeps
    <3> QED
      BY <2>1, <3>1, <3>2, <3>3, <3>4, <3>5, <3>6, <3>7 DEF Client
  <2>2. ASSUME NEW t \in Threads, Inside(t) PROVE IInv'
    <3>1. CASE CallSchedule(t)
      BY <1>1, <3>1, SchedulingKeeps
    <3>2. CASE DelTimer(t) \/ EndWait(t) \/ CheckResched(t)
      BY <3>2, LocalStepsKeep
    <3>3. CASE AddResumed(t)
      BY <1>1, <3>3, AddResumedKeeps DEF Next
    <3> QED
      BY <2>2, <3>1, <3>2, <3>3 DEF Inside
  <2>3. CASE IdleLoop
    BY <2>3, ThreadsAssumption, LocalStepsKeep
  <2>4. CASE Interrupt
    <3>1. CASE \E n \in 1 .. MaxLostTicks : Tick(n)
      BY <3>1, TickKeeps
    <3>2. CASE \E u \in Threads : ThreadTimeout(u) \/ IsrUp(u)
      BY <3>2, WakeUpsKeep
    <3> QED
      BY <2>4, <3>1, <3>2 DEF Interrupt
  <2>5. CASE IsrReturn
    BY <1>1, <2>5, ThreadsAssumption, SchedulingKeeps
  <2> QED
    BY <1>1, <2>1, <2>2, <2>3, <2>4, <2>5 DEF Next
<1>2. CASE UNCHANGED vars
  BY <1>2 DEF vars, threadVars, IInv, TypeOK, RingsWhole, QueuedIffRunnable,
     BeingResumed, UrgentRequested, SuspendedOffQueue, CountAgrees, InRings,
     Places, Resumptions
<1> QED
  BY <1>1, <1>2

\* Only a suspension or a change of priority sets fault.
LEMMA FaultsOf ==
  ASSUME Next, fault' # fault
  PROVE  \E t, u \in Threads :
           \/ DoSuspendThread(t, u)
           \/ \E p \in Levels : SetThreadCurrentPriority(t, u, p)
<1>1. ASSUME NEW t \in Threads, Client(t)
      PROVE  \E u \in Threads :
               \/ DoSuspendThread(t, u)
               \/ \E p \in Levels : SetThreadCurrentPriority(t, u, p)
  BY <1>1 DEF Client, SleepZero, Wait, SuspendSelf, DeleteThread, LockSchedule,
     UnlockSchedule, ScheduleTimeout, Up, Rouse, DoResumeThread
<1>2. ASSUME NEW t \in Threads, Inside(t) PROVE FALSE
  BY <1>2 DEF Inside, CallSchedule, DelTimer, EndWait, AddResumed, CheckResched
<1>3. CASE IdleLoop \/ Interrupt \/ IsrReturn
  BY <1>3 DEF IdleLoop, Interrupt, Tick, ThreadTimeout, IsrUp, Rouse, IsrReturn
<1> QED
  BY <1>1, <1>2, <1>3 DEF Next

\* The inductive invariant of the scheduler, whoever suspends, resumes and
\* prioritises whom, while no thread is rotated in company.
THEOREM Invariance ==
  Spec /\ AloneWhenRotated => []IInv
<1>1. IInv /\ [Next]_vars /\ [Reschedules => RotatesAlone]_vars => IInv'
  BY NextIInv
<1> QED
  BY <1>1, InitIInv, PTL DEF Spec, AloneWhenRotated

\* Every variable keeps its type.
THEOREM TypeCorrect ==
  Spec /\ AloneWhenRotated => []TypeOK
<1>1. IInv => TypeOK
  BY DEF IInv
<1> QED
  BY <1>1, Invariance, PTL

\* Insertion, removal, a change of priority and Schedule keep the rings, their
\* lists and both bitmaps consistent with each other and with the priorities,
\* as long as Schedule rotates no thread in a ring of several: only that breaks
\* a ring.
THEOREM RingsStayWhole ==
  Spec /\ AloneWhenRotated => []RingsWhole
<1>1. IInv => RingsWhole
  BY DEF IInv
<1> QED
  BY <1>1, Invariance, PTL

\* No runnable thread is missing from the rings but one that is being resumed,
\* and no other is left in them.
THEOREM RunnableAreQueued ==
  Spec /\ AloneWhenRotated => []QueuedIffRunnable
<1>1. IInv => QueuedIffRunnable
  BY DEF IInv
<1> QED
  BY <1>1, Invariance, PTL

\* A more urgent thread in the rings always has a reschedule requested for it.
THEOREM UrgencyIsSeen ==
  Spec /\ AloneWhenRotated => []UrgentRequested
<1>1. IInv => UrgentRequested
  BY DEF IInv
<1> QED
  BY <1>1, Invariance, PTL

\* A suspended thread is off the rings but for its own way to Schedule.
THEOREM SuspensionHolds ==
  Spec /\ AloneWhenRotated => []SuspendedOffQueue
<1>1. IInv => SuspendedOffQueue
  BY DEF IInv
<1> QED
  BY <1>1, Invariance, PTL

\* KL_GetCountRunning is the number of threads in the rings.
THEOREM CountIsRight ==
  Spec /\ AloneWhenRotated => []CountAgrees
<1>1. IInv => CountAgrees
  BY DEF IInv
<1> QED
  BY <1>1, Invariance, PTL

\* RemoveFromRunQueue meets a thread without links in one case only: the thread
\* is half way through DoResumeThread, which has turned interrupts on before it
\* is in the rings, and somebody suspends it or changes its priority.
THEOREM FaultsOnlyInRace ==
  Spec /\ AloneWhenRotated => FaultOnlyInRace
<1> DEFINE Race == \E t, u \in Threads :
                     /\ BeingResumed(u)
                     /\ \/ DoSuspendThread(t, u)
                        \/ \E p \in PriorityArgs[u] :
                             SetThreadCurrentPriority(t, u, p)
<1>1. IInv /\ [Next]_vars => [~fault /\ fault' => Race]_vars
  <2> SUFFICES ASSUME IInv, Next, ~fault, fault' # fault
               PROVE  Race
    BY DEF vars
  <2>1. PICK t \in Threads, u \in Threads :
          \/ DoSuspendThread(t, u)
          \/ \E p \in Levels : SetThreadCurrentPriority(t, u, p)
    BY FaultsOf
  <2>2. dwState[u] = "RUNNING" /\ ~Linked(rq, u)
    BY <2>1 DEF DoSuspendThread, SetThreadCurrentPriority, Runnable
  <2>3. BeingResumed(u)
    BY <2>2, MissingResumed
  <2>4. \A p \in Levels : SetThreadCurrentPriority(t, u, p) => p \in PriorityArgs[u]
    BY DEF SetThreadCurrentPriority
  <2> QED
    BY <2>1, <2>3, <2>4
<1> QED
  BY <1>1, Invariance, PTL DEF Spec, FaultOnlyInRace

-----------------------------------------------------------------------------
(* The scheduler implements ReadySet. *)

\* Schedule is a Dispatch.
LEMMA ScheduleDispatches ==
  ASSUME IInv, RotatesAlone, NEW state \in [Threads -> States],
         state[Idle] = "RUNNING", Schedule(state), nCurPriority' = nCurPriority
  PROVE  Ready!Dispatch
<1>1. /\ \A u \in Threads :
           Linked(rq', u) <=> /\ Linked(rq, u)
                              /\ u = lpCurThread => dwState'[u] = "RUNNING"
      /\ \A u \in Threads \ {lpCurThread} : dwState'[u] = state[u]
      /\ dwState'[lpCurThread] \in {state[lpCurThread], "RUNNING"}
      /\ lpCurThread' \in Threads /\ Linked(rq', lpCurThread')
      /\ \A u \in Threads :
           Linked(rq', u) => nCurPriority[lpCurThread'] <= nCurPriority[u]
  BY ScheduleKeeps
<1>2. CASE dwState'[lpCurThread] = "RUNNING"
  <2>1. InRings' = InRings
    BY <1>1, <1>2 DEF InRings
  <2> QED
    BY <1>1, <2>1 DEF Ready!Dispatch, Ready!MostUrgent, InRings
<1>3. CASE dwState'[lpCurThread] # "RUNNING"
  <2>1. InRings' = InRings \ {lpCurThread}
    BY <1>1, <1>3 DEF InRings
  <2>2. lpCurThread # Idle
    BY <1>1, <1>3
  <2> QED
    BY <1>1, <2>1, <2>2 DEF Ready!Dispatch, Ready!MostUrgent, InRings
<1> QED
  BY <1>2, <1>3

\* A step that changes the state of one sleeping or resumed thread adds at
\* most that thread.
LEMMA OneThreadAdds ==
  ASSUME IInv, IInv', NEW u \in Threads, u # lpCurThread,
         UNCHANGED << nCurPriority, lpCurThread >>,
         ~Linked(rq, u),
         \A v \in Threads \ {u} :
           /\ dwState'[v] = dwState[v]
           /\ BeingResumed(v)' <=> BeingResumed(v)
  PROVE  Ready!Add(u) \/ UNCHANGED << InRings, nCurPriority, lpCurThread >>
<1>1. \A v \in Threads \ {u} : Linked(rq', v) <=> Linked(rq, v)
  BY DEF IInv, QueuedIffRunnable
<1>2. InRings' = IF Linked(rq', u) THEN InRings \cup {u} ELSE InRings
  BY <1>1 DEF InRings
<1> QED
  BY <1>2 DEF Ready!Add

LEMMA StepImplements ==
  ASSUME IInv, IInv', Next, Reschedules => RotatesAlone
  PROVE  Ready!Next \/ UNCHANGED << InRings, nCurPriority, lpCurThread >>
<1>1. /\ dwState \in [Threads -> States] /\ pc \in [Threads -> Labels]
      /\ lparg \in [Threads -> Threads \cup {NoThread}]
      /\ dwState[Idle] = "RUNNING" /\ Idle \in Threads
  BY ThreadsAssumption DEF IInv, TypeOK, Places
<1>2. CASE UNCHANGED << rq, nCurPriority, lpCurThread >>
  BY <1>2 DEF InRings
<1>3. CASE Schedule(dwState) /\ nCurPriority' = nCurPriority /\ RotatesAlone
  BY <1>1, <1>3, ScheduleDispatches DEF Ready!Next
<1>4. ASSUME NEW t \in Threads, Wait(t)
      PROVE  Ready!Dispatch
  <2> DEFINE state == [dwState EXCEPT ![t] = "UNINTERRUPTIBLE"]
  <2>1. t # Idle
    BY <1>4, ThreadsAssumption DEF Wait, Makes, At, IInv, Places
  <2>2. state \in [Threads -> States] /\ state[Idle] = "RUNNING"
    BY <1>1, <2>1 DEF States
  <2>3. Schedule(state) /\ nCurPriority' = nCurPriority /\ RotatesAlone
    BY <1>4 DEF Wait, Makes, At, Reschedules
  <2> HIDE DEF state
  <2> QED
    BY <2>2, <2>3, ScheduleDispatches
<1>5. ASSUME NEW u \in Threads, Asleep(u), NEW b, _WakeupThread(u, b),
             UNCHANGED << nCurPriority, lpCurThread, pc, lparg >>
      PROVE  Ready!Add(u) \/ UNCHANGED << InRings, nCurPriority, lpCurThread >>
  <2>1. \A v \in Threads : BeingResumed(v)' <=> BeingResumed(v)
    BY <1>5 DEF BeingResumed
  <2>2. \A v \in Threads \ {u} : dwState'[v] = dwState[v]
    BY <1>1, <1>5 DEF _WakeupThread, AddToRunQueue
  <2>3. CASE u = lpCurThread
    <3>1. \A v \in Threads : Linked(rq', v) <=> Linked(rq, v)
      BY <1>5, <2>1, <2>2, <2>3 DEF IInv, QueuedIffRunnable
    <3> QED
      BY <3>1, <1>5 DEF InRings
  <2>4. CASE u # lpCurThread
    <3>1. ~Linked(rq, u)
      BY <1>5, <2>4 DEF IInv, QueuedIffRunnable, Asleep
    <3> QED
      BY <1>5, <2>1, <2>2, <2>4, <3>1, OneThreadAdds
  <2> QED
    BY <2>3, <2>4
<1>6. ASSUME NEW t \in Threads, AddResumed(t)
      PROVE  Ready!Next \/ UNCHANGED << InRings, nCurPriority, lpCurThread >>
  <2> DEFINE u == lparg[t]
  <2>1. /\ u \in Threads \ {Idle, lpCurThread} /\ BeingResumed(u)
        /\ \A m \in Threads : pc[m] = "add" /\ lparg[m] = u => m = t
    BY <1>6 DEF AddResumed, At, IInv, Resumptions, BeingResumed
  <2>2. ~Linked(rq, u)
    BY <2>1 DEF IInv, QueuedIffRunnable
  <2>3. \A v \in Threads \ {u} : dwState'[v] = dwState[v]
    BY <1>1, <1>6 DEF AddResumed, AddToRunQueue
  <2>4. \A v \in Threads \ {u} : BeingResumed(v)' <=> BeingResumed(v)
    BY <1>1, <1>6, <2>1 DEF AddResumed, Goto, BeingResumed
  <2>5. UNCHANGED << nCurPriority, lpCurThread >>
    BY <1>6 DEF AddResumed
  <2> HIDE DEF u
  <2>6. Ready!Add(u) \/ UNCHANGED << InRings, nCurPriority, lpCurThread >>
    BY <2>1, <2>2, <2>3, <2>4, <2>5, OneThreadAdds
  <2> QED
    BY <2>1, <2>6 DEF Ready!Next
<1>7. ASSUME NEW t \in Threads, NEW u \in Threads, DoSuspendThread(t, u)
      PROVE  Ready!Next \/ UNCHANGED << InRings, nCurPriority, lpCurThread >>
  <2>1. /\ pc[lpCurThread] = "run" /\ u \notin {Idle, lpCurThread}
        /\ UNCHANGED << nCurPriority, lpCurThread, pc, lparg >>
    BY <1>7 DEF DoSuspendThread, Makes, At
  <2>2. CASE dwState[u] = "RUNNING" /\ Linked(rq, u)
    <3>1. nSuspendCount[u] = 0
      BY <2>1, <2>2, LinkedFree
    <3>2. dwState' = [dwState EXCEPT ![u] = "SUSPENDED"]
      BY <1>7, <2>2, <3>1 DEF DoSuspendThread, Runnable
    <3>3. \A v \in Threads : BeingResumed(v)' <=> BeingResumed(v)
      BY <2>1 DEF BeingResumed
    <3>4. /\ \A v \in Threads \ {u} : dwState'[v] = dwState[v]
          /\ dwState'[u] # "RUNNING"
      BY <1>1, <3>2
    <3>5. \A v \in Threads : Linked(rq', v) <=> v # u /\ Linked(rq, v)
      BY <2>1, <3>3, <3>4 DEF IInv, QueuedIffRunnable
    <3>6. InRings' = InRings \ {u}
      BY <3>5 DEF InRings
    <3>7. Ready!Remove(u)
      BY <2>1, <3>6 DEF Ready!Remove
    <3> QED
      BY <3>7 DEF Ready!Next
  <2>3. CASE ~(dwState[u] = "RUNNING" /\ Linked(rq, u))
    <3>1. UNCHANGED << rq, nCurPriority, lpCurThread >>
      BY <1>7, <2>3 DEF DoSuspendThread, Runnable
    <3> QED
      BY <3>1, <1>2
  <2> QED
    BY <2>2, <2>3
<1>8. ASSUME NEW t \in Threads, NEW u \in Threads, NEW p \in Levels,
             SetThreadCurrentPriority(t, u, p)
      PROVE  Ready!Next \/ UNCHANGED << InRings, nCurPriority, lpCurThread >>
  <2>1. /\ UNCHANGED << nSuspendCount, pc, lparg, lpCurThread >>
        /\ p \in PriorityArgs[u] /\ pc[lpCurThread] = "run"
    BY <1>8 DEF SetThreadCurrentPriority, Makes, At
  <2>2. u # Idle
    BY <2>1, LevelsAssumption
  <2>3. CASE dwState[u] = "RUNNING" /\ ~Linked(rq, u)
    <3>1. UNCHANGED << rq, nCurPriority, lpCurThread >>
      BY <1>8, <2>3 DEF SetThreadCurrentPriority, Runnable
    <3> QED
      BY <3>1, <1>2
  <2>4. CASE dwState[u] = "RUNNING" => Linked(rq, u)
    <3>1. dwState[u] = "RUNNING" => nSuspendCount[u] = 0
      BY <2>1, <2>4, LinkedFree
    <3>2. nCurPriority' = [nCurPriority EXCEPT ![u] = p]
      BY <1>8, <2>4 DEF SetThreadCurrentPriority, Runnable
    <3>3. dwState' = dwState
      BY <1>8, <2>4, <3>1 DEF SetThreadCurrentPriority, Runnable, AddToRunQueue,
         StillSuspended
    <3>4. \A v \in Threads : BeingResumed(v)' <=> BeingResumed(v)
      BY <2>1 DEF BeingResumed
    <3>5. \A v \in Threads : Linked(rq', v) <=> Linked(rq, v)
      BY <2>1, <3>3, <3>4 DEF IInv, QueuedIffRunnable
    <3>6. InRings' = InRings
      BY <3>5 DEF InRings
    <3>7. Ready!SetLevel(u, p)
      BY <2>1, <2>2, <3>2, <3>6 DEF Ready!SetLevel
    <3> QED
      BY <3>7 DEF Ready!Next
  <2> QED
    BY <2>3, <2>4
<1>9. ASSUME NEW t \in Threads, Client(t)
      PROVE  Ready!Next \/ UNCHANGED << InRings, nCurPriority, lpCurThread >>
  <2>1. \/ UNCHANGED << rq, nCurPriority, lpCurThread >>
        \/ Wait(t)
        \/ \E u \in Threads :
             \/ Rouse(u) \/ DoSuspendThread(t, u)
             \/ \E p \in Levels : SetThreadCurrentPriority(t, u, p)
    BY <1>9 DEF Client, SleepZero, SuspendSelf, DeleteThread, LockSchedule,
       UnlockSchedule, ScheduleTimeout, Up, DoResumeThread
  <2>2. CASE Wait(t)
    BY <2>2, <1>4 DEF Ready!Next
  <2>3. ASSUME NEW u \in Threads, Rouse(u)
        PROVE  Ready!Next \/ UNCHANGED << InRings, nCurPriority, lpCurThread >>
    BY <2>3, <1>5 DEF Rouse, Ready!Next
  <2> QED
    BY <2>1, <2>2, <2>3, <1>2, <1>7, <1>8
<1>10. ASSUME NEW t \in Threads, Inside(t)
       PROVE  Ready!Next \/ UNCHANGED << InRings, nCurPriority, lpCurThread >>
  <2>1. \/ UNCHANGED << rq, nCurPriority, lpCurThread >>
        \/ Schedule(dwState) /\ nCurPriority' = nCurPriority /\ RotatesAlone
        \/ AddResumed(t)
    BY <1>10 DEF Inside, DelTimer, EndWait, CheckResched, CallSchedule,
       threadVars, Reschedules
  <2> QED
    BY <2>1, <1>2, <1>3, <1>6
<1>11. CASE Interrupt
  <2>1. \/ UNCHANGED << rq, nCurPriority, lpCurThread >>
        \/ \E u \in Threads : Rouse(u)
        \/ \E u \in Threads : ThreadTimeout(u)
    BY <1>11 DEF Interrupt, Tick, IsrUp
  <2>2. ASSUME NEW u \in Threads, Rouse(u)
        PROVE  Ready!Next \/ UNCHANGED << InRings, nCurPriority, lpCurThread >>
    BY <2>2, <1>5 DEF Rouse, Ready!Next
  <2>3. ASSUME NEW u \in Threads, ThreadTimeout(u)
        PROVE  Ready!Next \/ UNCHANGED << InRings, nCurPriority, lpCurThread >>
    <3>1. CASE Asleep(u)
      BY <2>3, <3>1, <1>5 DEF ThreadTimeout, Ready!Next
    <3>2. CASE ~Asleep(u)
      BY <2>3, <3>2, <1>2 DEF ThreadTimeout
    <3> QED
      BY <3>1, <3>2
  <2> QED
    BY <2>1, <2>2, <2>3, <1>2
<1>12. CASE IdleLoop
  BY <1>12, <1>2 DEF IdleLoop
<1>13. CASE IsrReturn
  <2>1. \/ UNCHANGED << rq, nCurPriority, lpCurThread >>
        \/ Schedule(dwState) /\ nCurPriority' = nCurPriority /\ RotatesAlone
    BY <1>13 DEF IsrReturn, Reschedules
  <2> QED
    BY <2>1, <1>2, <1>3
<1> QED
  BY <1>9, <1>10, <1>11, <1>12, <1>13 DEF Next

\* The processor is only ever given to a most urgent thread of the rings, and
\* only its own Schedule takes it from there.
THEOREM Refinement ==
  Spec /\ AloneWhenRotated => ImplementsReadySet
<1>1. Init => Ready!Init
  <2>1. IInv => InRings \subseteq Threads /\ nCurPriority \in [Threads -> Levels]
    BY DEF IInv, TypeOK, InRings
  <2>2. Init => lpCurThread = Idle
    BY DEF Init
  <2>3. IInv => lpCurThread \in InRings
    BY DEF IInv, TypeOK, QueuedIffRunnable, InRings
  <2> QED
    BY <2>1, <2>2, <2>3, InitIInv DEF Ready!Init
<1>2. IInv /\ IInv' /\ [Next]_vars /\ [Reschedules => RotatesAlone]_vars
        => [Ready!Next]_(Ready!vars)
  <2> SUFFICES ASSUME IInv, IInv', [Next]_vars, [Reschedules => RotatesAlone]_vars
               PROVE  Ready!Next \/ UNCHANGED << InRings, nCurPriority, lpCurThread >>
    BY DEF Ready!vars
  <2>1. CASE Next /\ (Reschedules => RotatesAlone)
    BY <2>1, StepImplements
  <2>2. CASE UNCHANGED vars
    BY <2>2 DEF vars, threadVars, InRings
  <2> QED
    BY <2>1, <2>2
<1> QED
  BY <1>1, <1>2, Invariance, PTL DEF Spec, AloneWhenRotated, ImplementsReadySet,
     Ready!Spec
=============================================================================
