--------------------------- MODULE ProcTableLists ----------------------------
(***************************************************************************)
(* What the list helpers of proc.c do to the members of one list, and what *)
(* the list operations of ProcTable do to the whole table of lists: moving *)
(* a process, waking sleepers and promoting everyone keep the lists sorted *)
(* by state and priority, and so does every action that uses them.         *)
(***************************************************************************)
EXTENDS ProcTable, FiniteSetTheorems, SequenceTheorems, TLAPS

-----------------------------------------------------------------------------
(* One list                                                                *)

(* addtofrontoflist adds exactly p, and no duplicate if p was not there.   *)
LEMMA AddFront ==
  ASSUME NEW S, NEW s \in Seq(S), NEW p \in S
  PROVE  /\ addtofrontoflist(s, p) \in Seq(S)
         /\ Range(addtofrontoflist(s, p)) = Range(s) \cup {p}
         /\ p \notin Range(s) /\ IsInjective(s) => IsInjective(addtofrontoflist(s, p))
<1>. DEFINE t == addtofrontoflist(s, p)
<1>1. <<p>> \in Seq(S) /\ Len(<<p>>) = 1 /\ <<p>>[1] = p
  OBVIOUS
<1>2. t \in Seq(S) /\ Len(t) = Len(s) + 1 /\ t[1] = p /\ \A i \in 1..Len(s) : t[i+1] = s[i]
  BY <1>1, ConcatProperties DEF addtofrontoflist
<1>3. DOMAIN t = 1..(Len(s)+1) /\ DOMAIN s = 1..Len(s) /\ Len(s) \in Nat
  BY <1>2, LenProperties
<1>. HIDE DEF t
<1>4. \A i \in 2..(Len(s)+1) : t[i] = s[i-1] /\ i-1 \in 1..Len(s)
  BY <1>2, <1>3
<1>5. Range(t) = Range(s) \cup {p}
  <2>1. Range(t) \subseteq Range(s) \cup {p}
    <3>1. \A i \in DOMAIN t : i = 1 \/ i \in 2..(Len(s)+1)
      BY <1>3
    <3>2. \A i \in 2..(Len(s)+1) : t[i] \in Range(s)
      BY <1>3, <1>4 DEF Range
    <3>3. \A i \in DOMAIN t : t[i] \in Range(s) \cup {p}
      BY <3>1, <3>2, <1>2
    <3>. QED BY <3>3 DEF Range
  <2>2. Range(s) \subseteq Range(t)
    BY <1>2, <1>3 DEF Range
  <2>3. p \in Range(t)
    BY <1>2, <1>3 DEF Range
  <2>. QED BY <2>1, <2>2, <2>3
<1>6. ASSUME p \notin Range(s), IsInjective(s)
      PROVE  IsInjective(t)
  <2>. SUFFICES ASSUME NEW a \in DOMAIN t, NEW b \in DOMAIN t, t[a] = t[b]
                PROVE  a = b
    BY DEF IsInjective
  <2>1. \A i \in DOMAIN t : i # 1 => t[i] # p
    <3>. SUFFICES ASSUME NEW i \in DOMAIN t, i # 1 PROVE t[i] # p
      OBVIOUS
    <3>1. i-1 \in DOMAIN s /\ t[i] = s[i-1]
      BY <1>3, <1>4
    <3>. QED BY <3>1, <1>6 DEF Range
  <2>2. CASE a = 1 \/ b = 1
    BY <2>1, <2>2, <1>2
  <2>3. CASE a # 1 /\ b # 1
    BY <2>3, <1>3, <1>4, <1>6 DEF IsInjective
  <2>. QED BY <2>2, <2>3
<1>. QED BY <1>2, <1>5, <1>6 DEF t

(* addtoreadyprioritylist adds exactly p, and no duplicate if p was not    *)
(* there.                                                                  *)
LEMMA AddBack ==
  ASSUME NEW S, NEW s \in Seq(S), NEW p \in S
  PROVE  /\ addtoreadyprioritylist(s, p) \in Seq(S)
         /\ Range(addtoreadyprioritylist(s, p)) = Range(s) \cup {p}
         /\ p \notin Range(s) /\ IsInjective(s) => IsInjective(addtoreadyprioritylist(s, p))
<1>. DEFINE t == addtoreadyprioritylist(s, p)
<1>2. t \in Seq(S) /\ Len(t) = Len(s) + 1 /\ t[Len(s)+1] = p /\ \A i \in 1..Len(s) : t[i] = s[i]
  BY AppendProperties DEF addtoreadyprioritylist
<1>3. DOMAIN t = 1..(Len(s)+1) /\ DOMAIN s = 1..Len(s) /\ Len(s) \in Nat
  BY <1>2, LenProperties
<1>. HIDE DEF t
<1>5. Range(t) = Range(s) \cup {p}
  <2>1. Range(t) \subseteq Range(s) \cup {p}
    BY <1>2, <1>3 DEF Range
  <2>2. Range(s) \cup {p} \subseteq Range(t)
    BY <1>2, <1>3 DEF Range
  <2>. QED BY <2>1, <2>2
<1>6. ASSUME p \notin Range(s), IsInjective(s)
      PROVE  IsInjective(t)
  <2>. SUFFICES ASSUME NEW a \in DOMAIN t, NEW b \in DOMAIN t, t[a] = t[b]
                PROVE  a = b
    BY DEF IsInjective
  <2>1. CASE a = Len(s)+1 \/ b = Len(s)+1
    BY <2>1, <1>2, <1>3, <1>6 DEF Range
  <2>2. CASE a # Len(s)+1 /\ b # Len(s)+1
    BY <2>2, <1>2, <1>3, <1>6 DEF IsInjective
  <2>. QED BY <2>1, <2>2
<1>. QED BY <1>2, <1>5, <1>6 DEF t

(* removefromfront removes exactly the head.                               *)
LEMMA RemoveFront ==
  ASSUME NEW S, NEW s \in Seq(S), s # <<>>, IsInjective(s)
  PROVE  /\ removefromfront(s) \in Seq(S)
         /\ Head(s) \in Range(s)
         /\ Range(removefromfront(s)) = Range(s) \ {Head(s)}
         /\ IsInjective(removefromfront(s))
<1>. DEFINE t == removefromfront(s)
<1>1. t \in Seq(S) /\ Len(t) = Len(s) - 1 /\ \A i \in 1..Len(t) : t[i] = s[i+1]
  BY HeadTailProperties DEF removefromfront
<1>2. DOMAIN t = 1..(Len(s)-1) /\ DOMAIN s = 1..Len(s) /\ Len(s) \in Nat \ {0} /\ Head(s) = s[1]
  BY <1>1, LenProperties, EmptySeq
<1>. HIDE DEF t
<1>3. \A i \in 2..Len(s) : s[i] = t[i-1] /\ i-1 \in DOMAIN t
  BY <1>1, <1>2
<1>4. Range(t) \subseteq Range(s) \ {Head(s)}
  <2>1. \A i \in DOMAIN t : t[i] = s[i+1] /\ i+1 \in DOMAIN s /\ i+1 # 1 /\ 1 \in DOMAIN s
    BY <1>1, <1>2
  <2>2. \A i \in DOMAIN t : t[i] \in Range(s) /\ t[i] # s[1]
    BY <2>1 DEF Range, IsInjective
  <2>. QED BY <2>2, <1>2 DEF Range
<1>5. Range(s) \ {Head(s)} \subseteq Range(t)
  BY <1>2, <1>3 DEF Range
<1>6. IsInjective(t)
  BY <1>1, <1>2, SMTT(30) DEF IsInjective
<1>7. Head(s) \in Range(s)
  BY <1>2 DEF Range
<1>8. Range(t) = Range(s) \ {Head(s)}
  BY <1>4, <1>5
<1>. QED BY <1>1, <1>6, <1>7, <1>8 DEF t

(* removefromlist removes exactly p from a list without duplicates, and    *)
(* leaves a list p is not on alone.                                        *)
LEMMA RemoveFrom ==
  ASSUME NEW S, NEW s \in Seq(S), NEW p, IsInjective(s)
  PROVE  /\ removefromlist(s, p) \in Seq(S)
         /\ Range(removefromlist(s, p)) = Range(s) \ {p}
         /\ IsInjective(removefromlist(s, p))
<1>1. CASE p \notin Range(s)
  BY <1>1 DEF removefromlist
<1>2. CASE p \in Range(s)
  <2>. DEFINE n == Len(s)
              i == Place(s, p)
              t == [k \in 1..(n-1) |-> IF k < i THEN s[k] ELSE s[k+1]]
  <2>1. n \in Nat /\ DOMAIN s = 1..n /\ \A k \in 1..n : s[k] \in S
    BY LenProperties, ElementOfSeq
  <2>2. PICK m \in 1..n : s[m] = p
    BY <1>2, <2>1 DEF Range
  <2>3. \A j \in 1..(m-1) : s[j] # p
    BY <2>1, <2>2 DEF IsInjective
  <2>4. i \in 1..n /\ s[i] = p
    BY <2>2, <2>3 DEF Place
  <2>5. removefromlist(s, p) = t
    BY <1>2 DEF removefromlist
  <2>. HIDE DEF i, n
  <2>6. \A k \in 1..(n-1) : t[k] = IF k < i THEN s[k] ELSE s[k+1]
    OBVIOUS
  <2>7. DOMAIN t = 1..(n-1)
    OBVIOUS
  <2>8. t \in Seq(S)
    <3>1. \A k \in 1..(n-1) : t[k] \in S
      BY <2>1, <2>4, <2>6
    <3>2. n - 1 \in Nat
      BY <2>1, <2>4
    <3>3. t \in [1..(n-1) -> S]
      BY <3>1
    <3>. QED BY <3>2, <3>3, SeqDef, SMTT(30)
  <2>. HIDE DEF t
  <2>. DEFINE from(k) == IF k < i THEN k ELSE k+1
  <2>a. \A k \in 1..(n-1) : t[k] = s[from(k)] /\ from(k) \in 1..n /\ from(k) # i
    BY <2>1, <2>4, <2>6
  <2>b. \A k, l \in 1..(n-1) : from(k) = from(l) => k = l
    BY <2>1, <2>4
  <2>. HIDE DEF from
  <2>c. \A k, l \in 1..n : s[k] = s[l] => k = l
    BY <2>1 DEF IsInjective
  <2>9. IsInjective(t)
    BY <2>a, <2>b, <2>c, <2>7 DEF IsInjective
  <2>10. Range(t) \subseteq Range(s) \ {p}
    <3>. SUFFICES ASSUME NEW k \in 1..(n-1) PROVE t[k] \in Range(s) /\ t[k] # p
      BY <2>7 DEF Range
    <3>1. t[k] \in Range(s)
      BY <2>1, <2>a DEF Range
    <3>2. t[k] # p
      BY <2>4, <2>a, <2>c
    <3>. QED BY <3>1, <3>2
  <2>11. ASSUME NEW x \in Range(s) \ {p} PROVE x \in Range(t)
    <3>1. PICK k \in 1..n : s[k] = x
      BY <2>1 DEF Range
    <3>2. k # i
      BY <3>1, <2>4
    <3>3. CASE k < i
      BY <3>1, <3>3, <2>1, <2>4, <2>6, <2>7 DEF Range
    <3>4. CASE k > i
      <4>1. k-1 \in 1..(n-1) /\ ~(k-1 < i) /\ t[k-1] = s[(k-1)+1] /\ (k-1)+1 = k
        BY <3>4, <2>1, <2>4, <2>6
      <4>. QED BY <4>1, <3>1, <2>7 DEF Range
    <3>. QED BY <3>2, <3>3, <3>4, <2>1, <2>4
  <2>. QED BY <2>5, <2>8, <2>9, <2>10, <2>11
<1>. QED BY <1>1, <1>2

(* The splice of promotiononreadylists and the appends of wakeup1: two     *)
(* lists without duplicates and without common member give one.            *)
LEMMA Splice ==
  ASSUME NEW S, NEW s \in Seq(S), NEW t \in Seq(S)
  PROVE  /\ s \o t \in Seq(S)
         /\ Range(s \o t) = Range(s) \cup Range(t)
         /\ IsInjective(s) /\ IsInjective(t) /\ Range(s) \cap Range(t) = {} => IsInjective(s \o t)
<1>. DEFINE u == s \o t
            m == Len(s)
            n == Len(t)
<1>1. /\ u \in Seq(S) /\ Len(u) = m + n
      /\ \A i \in 1..(m+n) : u[i] = IF i <= m THEN s[i] ELSE t[i - m]
  BY ConcatProperties
<1>2. DOMAIN u = 1..(m+n) /\ DOMAIN s = 1..m /\ DOMAIN t = 1..n /\ m \in Nat /\ n \in Nat
  BY <1>1, LenProperties
<1>3. Range(u) = Range(s) \cup Range(t)
  BY RangeConcatenation
<1>. HIDE DEF u, m, n
<1>4. \A i \in DOMAIN u : \/ i \in DOMAIN s /\ u[i] = s[i] /\ s[i] \in Range(s)
                          \/ i - m \in DOMAIN t /\ u[i] = t[i-m] /\ t[i-m] \in Range(t)
  BY <1>1, <1>2 DEF Range
<1>5. ASSUME IsInjective(s), IsInjective(t), Range(s) \cap Range(t) = {}
      PROVE  IsInjective(u)
  <2>. SUFFICES ASSUME NEW a \in DOMAIN u, NEW b \in DOMAIN u, u[a] = u[b]
                PROVE  a = b
    BY DEF IsInjective
  <2>1. CASE a \in DOMAIN s /\ b \in DOMAIN s /\ u[a] = s[a] /\ u[b] = s[b]
    BY <2>1, <1>5, Zenon DEF IsInjective
  <2>2. CASE a - m \in DOMAIN t /\ b - m \in DOMAIN t /\ u[a] = t[a-m] /\ u[b] = t[b-m]
    <3>1. a - m = b - m
      BY <2>2, <1>5, Zenon DEF IsInjective
    <3>. QED BY <3>1, <1>2
  <2>3. CASE u[a] \in Range(s) /\ u[b] \in Range(t)
    BY <2>3, <1>5
  <2>4. CASE u[a] \in Range(t) /\ u[b] \in Range(s)
    BY <2>4, <1>5
  <2>. QED BY <1>4, <2>1, <2>2, <2>3, <2>4
<1>. QED BY <1>1, <1>3, <1>5 DEF u

(* The rank of a position among a finite set of positions counts them      *)
(* one by one: AtPositions reads every position of the set exactly once.   *)
LEMMA RankBijection ==
  ASSUME NEW n \in Nat, NEW I \in SUBSET (1..n)
  PROVE  /\ Cardinality(I) \in Nat
         /\ \A i \in I : Rank(I, i) \in 1..Cardinality(I)
         /\ \A i, j \in I : Rank(I, i) = Rank(I, j) => i = j
         /\ \A k \in 1..Cardinality(I) : \E i \in I : Rank(I, i) = k
<1>. DEFINE below(i) == {j \in I : j <= i}
            r == [i \in I |-> Rank(I, i)]
<1>1. IsFiniteSet(I) /\ Cardinality(I) \in Nat
  <2>1. IsFiniteSet(1..n)
    BY FS_Interval
  <2>2. IsFiniteSet(I)
    BY <2>1, FS_Subset, Zenon
  <2>. QED BY <2>2, FS_CardinalityType
<1>2. \A i \in I : IsFiniteSet(below(i)) /\ Cardinality(below(i)) \in Nat
                   /\ Cardinality(below(i)) <= Cardinality(I)
  <2>. SUFFICES ASSUME NEW i \in I
                PROVE  IsFiniteSet(below(i)) /\ Cardinality(below(i)) \in Nat
                       /\ Cardinality(below(i)) <= Cardinality(I)
    OBVIOUS
  <2>1. below(i) \in SUBSET I
    OBVIOUS
  <2>. QED BY <2>1, <1>1, FS_Subset, FS_CardinalityType
<1>3. \A i \in I : Cardinality(below(i)) # 0
  <2>. SUFFICES ASSUME NEW i \in I PROVE Cardinality(below(i)) # 0
    OBVIOUS
  <2>1. i \in below(i)
    OBVIOUS
  <2>. QED BY <2>1, <1>2, FS_EmptySet
<1>4. \A i \in I : Rank(I, i) \in 1..Cardinality(I)
  BY <1>1, <1>2, <1>3 DEF Rank
<1>5. ASSUME NEW i \in I, NEW j \in I, i < j
      PROVE  Cardinality(below(i)) # Cardinality(below(j))
  <2>1. below(i) \in SUBSET below(j)
    <3>1. i \in Nat /\ j \in Nat /\ \A k \in I : k \in Nat
      OBVIOUS
    <3>. SUFFICES ASSUME NEW k \in I, k <= i PROVE k <= j
      BY Zenon
    <3>. QED BY <3>1, <1>5
  <2>2. j \in below(j) /\ j \notin below(i)
    BY <1>5
  <2>. QED BY <2>1, <2>2, <1>2, FS_Subset, SMTT(30)
<1>6. \A i, j \in I : Rank(I, i) = Rank(I, j) => i = j
  <2>. SUFFICES ASSUME NEW i \in I, NEW j \in I, Rank(I, i) = Rank(I, j), i # j
                PROVE  FALSE
    OBVIOUS
  <2>1. i < j \/ j < i
    OBVIOUS
  <2>. QED BY <2>1, <1>5 DEF Rank
<1>. HIDE DEF below
<1>7. r \in Injection(I, 1..Cardinality(I))
  BY <1>4, <1>6 DEF Injection, IsInjective
<1>8. IsFiniteSet(1..Cardinality(I)) /\ Cardinality(1..Cardinality(I)) = Cardinality(I)
  BY <1>1, FS_Interval
<1>9. r \in Surjection(I, 1..Cardinality(I))
  BY <1>1, <1>7, <1>8, FS_Injection
<1>10. \A k \in 1..Cardinality(I) : \E i \in I : r[i] = k
  BY <1>9, Zenon DEF Surjection
<1>. QED BY <1>1, <1>4, <1>6, <1>10

(* A traversal that unlinks the elements outside T keeps exactly the       *)
(* others, each once.                                                      *)
LEMMA KeepOnly ==
  ASSUME NEW S, NEW s \in Seq(S), NEW T, IsInjective(s)
  PROVE  /\ Keep(s, T) \in Seq(S)
         /\ Range(Keep(s, T)) = Range(s) \cap T
         /\ IsInjective(Keep(s, T))
<1>. DEFINE n == Len(s)
            I == {i \in 1..n : s[i] \in T}
            at(k) == CHOOSE i \in I : Rank(I, i) = k
            t == [k \in 1..Cardinality(I) |-> s[at(k)]]
<1>1. n \in Nat /\ DOMAIN s = 1..n /\ \A k \in 1..n : s[k] \in S
  BY LenProperties, ElementOfSeq
<1>2. I \in SUBSET (1..n) /\ \A k \in 1..n : k \in I <=> s[k] \in T
  OBVIOUS
<1>5. Keep(s, T) = t
  BY DEF Keep, AtPositions
<1>. HIDE DEF n, I
<1>3. /\ Cardinality(I) \in Nat
      /\ \A i \in I : Rank(I, i) \in 1..Cardinality(I)
      /\ \A i, j \in I : Rank(I, i) = Rank(I, j) => i = j
      /\ \A k \in 1..Cardinality(I) : \E i \in I : Rank(I, i) = k
  BY <1>1, <1>2, RankBijection, Zenon
<1>4. \A k \in 1..Cardinality(I) : at(k) \in I /\ Rank(I, at(k)) = k
  BY <1>3
<1>. HIDE DEF at
<1>6. DOMAIN t = 1..Cardinality(I) /\ \A k \in 1..Cardinality(I) : t[k] = s[at(k)]
  OBVIOUS
<1>7. t \in Seq(S)
  <2>1. t \in [1..Cardinality(I) -> S]
    BY <1>1, <1>2, <1>4, Zenon
  <2>. HIDE DEF t
  <2>. QED BY <2>1, <1>3, SeqDef
<1>. HIDE DEF t
<1>8. IsInjective(t)
  <2>. SUFFICES ASSUME NEW a \in DOMAIN t, NEW b \in DOMAIN t, t[a] = t[b]
                PROVE  a = b
    BY DEF IsInjective
  <2>1. at(a) = at(b)
    BY <1>1, <1>2, <1>4, <1>6, Zenon DEF IsInjective
  <2>. QED BY <2>1, <1>4, <1>6
<1>9. Range(t) \subseteq Range(s) \cap T
  BY <1>1, <1>2, <1>4, <1>6, Zenon DEF Range
<1>10. ASSUME NEW x \in Range(s) \cap T PROVE x \in Range(t)
  <2>1. PICK k \in 1..n : s[k] = x
    BY <1>1 DEF Range
  <2>2. k \in I
    BY <2>1, <1>2
  <2>. DEFINE m == Rank(I, k)
  <2>3. m \in 1..Cardinality(I)
    BY <2>2, <1>3
  <2>4. at(m) = k
    BY <2>2, <2>3, <1>3, <1>4, Zenon
  <2>5. t[m] = x /\ m \in DOMAIN t
    BY <2>1, <2>3, <2>4, <1>6
  <2>. QED BY <2>5 DEF Range
<1>. QED BY <1>5, <1>7, <1>8, <1>9, <1>10

-----------------------------------------------------------------------------
(* All lists                                                               *)

(* The list every process belongs on, as a function of the two fields that *)
(* decide it, and lists that hold exactly the processes that belong there. *)
KeyOf(st, pr) ==
  [p \in Procs |-> IF st[p] = "RUNNABLE" THEN ready(pr[p]) ELSE <<st[p], 0>>]
Sorted(L, key) ==
  /\ L \in [ListId -> Seq(Procs)]
  /\ \A l \in ListId : IsInjective(L[l]) /\ Range(L[l]) = {p \in Procs : key[p] = l}

(* The names of the lists are distinct.                                    *)
LEMMA ListNames ==
  /\ free \in ListId /\ embryo \in ListId /\ sleeping \in ListId
  /\ running \in ListId /\ zombie \in ListId
  /\ \A i \in 0..MAX : ready(i) \in ListId
  /\ \A i \in 0..MAX : ready(i) \notin {free, embryo, sleeping, running, zombie}
  /\ \A i, j \in 0..MAX : ready(i) = ready(j) => i = j
  /\ free \notin {embryo, sleeping, running, zombie}
  /\ embryo \notin {sleeping, running, zombie}
  /\ sleeping \notin {running, zombie} /\ running # zombie
BY DEF ListId, free, embryo, sleeping, running, zombie, ready, States

(* A process belongs on the list of its state.                             *)
LEMMA KeyFacts ==
  ASSUME NEW st \in [Procs -> States], NEW pr \in [Procs -> 0..MAX], NEW p \in Procs
  PROVE  /\ KeyOf(st, pr) \in [Procs -> ListId]
         /\ KeyOf(st, pr)[p] = free <=> st[p] = "UNUSED"
         /\ KeyOf(st, pr)[p] = embryo <=> st[p] = "EMBRYO"
         /\ KeyOf(st, pr)[p] = sleeping <=> st[p] = "SLEEPING"
         /\ KeyOf(st, pr)[p] = running <=> st[p] = "RUNNING"
         /\ KeyOf(st, pr)[p] = zombie <=> st[p] = "ZOMBIE"
         /\ \A i \in 0..MAX : KeyOf(st, pr)[p] = ready(i) <=> st[p] = "RUNNABLE" /\ pr[p] = i
BY DEF KeyOf, ListId, free, embryo, sleeping, running, zombie, ready, States

(* Two lists change, so that p leaves the one for the other.               *)
LEMMA Relist ==
  ASSUME NEW L, NEW key \in [Procs -> ListId], Sorted(L, key),
         NEW p \in Procs, NEW from, from = key[p], NEW to \in ListId, to # from,
         NEW s \in Seq(Procs), NEW t \in Seq(Procs), IsInjective(s), IsInjective(t),
         Range(s) = Range(L[from]) \ {p}, Range(t) = Range(L[to]) \cup {p}
  PROVE  Sorted([L EXCEPT ![from] = s, ![to] = t], [key EXCEPT ![p] = to])
<1>. DEFINE M == [L EXCEPT ![from] = s, ![to] = t]
            k == [key EXCEPT ![p] = to]
<1>1. from \in ListId /\ L \in [ListId -> Seq(Procs)]
  BY DEF Sorted
<1>2. M \in [ListId -> Seq(Procs)]
  BY <1>1, Zenon
<1>3. M[from] = s /\ M[to] = t /\ \A l \in ListId \ {from, to} : M[l] = L[l]
  BY <1>1
<1>4. k[p] = to /\ \A q \in Procs \ {p} : k[q] = key[q]
  OBVIOUS
<1>. HIDE DEF M, k
<1>5. ASSUME NEW l \in ListId
      PROVE  IsInjective(M[l]) /\ Range(M[l]) = {q \in Procs : k[q] = l}
  <2>1. IsInjective(L[l]) /\ Range(L[l]) = {q \in Procs : key[q] = l}
    BY DEF Sorted
  <2>2. CASE l = from
    <3>1. \A q \in Procs : k[q] = l <=> key[q] = l /\ q # p
      BY <2>2, <1>4
    <3>2. Range(s) = {q \in Procs : k[q] = l}
      BY <2>1, <2>2, <3>1
    <3>. QED BY <2>2, <3>2, <1>3
  <2>3. CASE l = to
    <3>1. \A q \in Procs : k[q] = l <=> key[q] = l \/ q = p
      BY <2>3, <1>4
    <3>2. Range(t) = {q \in Procs : k[q] = l}
      BY <2>1, <2>3, <3>1
    <3>. QED BY <2>3, <3>2, <1>3
  <2>4. CASE l # from /\ l # to
    <3>1. \A q \in Procs : k[q] = l <=> key[q] = l
      BY <2>4, <1>4
    <3>2. M[l] = L[l]
      BY <2>4, <1>3
    <3>. QED BY <2>1, <3>1, <3>2
  <2>. QED BY <2>2, <2>3, <2>4
<1>. QED BY <1>2, <1>5, Zenon DEF Sorted, M, k

(* Moving one process to the front or to the tail of another list.         *)
LEMMA Move ==
  ASSUME NEW L, NEW key \in [Procs -> ListId], Sorted(L, key),
         NEW p \in Procs, NEW from, from = key[p], NEW to \in ListId, to # from
  PROVE  /\ Sorted([L EXCEPT ![from] = removefromlist(@, p),
                             ![to] = addtofrontoflist(@, p)], [key EXCEPT ![p] = to])
         /\ Sorted([L EXCEPT ![from] = removefromlist(@, p),
                             ![to] = addtoreadyprioritylist(@, p)], [key EXCEPT ![p] = to])
<1>. DEFINE s == removefromlist(L[from], p)
            t == addtofrontoflist(L[to], p)
            u == addtoreadyprioritylist(L[to], p)
<1>1. /\ from \in ListId /\ p \in Range(L[from]) /\ p \notin Range(L[to])
      /\ L[from] \in Seq(Procs) /\ L[to] \in Seq(Procs)
      /\ IsInjective(L[from]) /\ IsInjective(L[to])
  BY DEF Sorted
<1>2. s \in Seq(Procs) /\ Range(s) = Range(L[from]) \ {p} /\ IsInjective(s)
  BY <1>1, RemoveFrom
<1>3. t \in Seq(Procs) /\ Range(t) = Range(L[to]) \cup {p} /\ IsInjective(t)
  BY <1>1, AddFront
<1>4. u \in Seq(Procs) /\ Range(u) = Range(L[to]) \cup {p} /\ IsInjective(u)
  BY <1>1, AddBack
<1>5. /\ [L EXCEPT ![from] = removefromlist(@, p), ![to] = addtofrontoflist(@, p)]
         = [L EXCEPT ![from] = s, ![to] = t]
      /\ [L EXCEPT ![from] = removefromlist(@, p), ![to] = addtoreadyprioritylist(@, p)]
         = [L EXCEPT ![from] = s, ![to] = u]
  OBVIOUS
<1>. HIDE DEF s, t, u
<1>6. Sorted([L EXCEPT ![from] = s, ![to] = t], [key EXCEPT ![p] = to])
  BY <1>2, <1>3, Relist, Zenon
<1>7. Sorted([L EXCEPT ![from] = s, ![to] = u], [key EXCEPT ![p] = to])
  BY <1>2, <1>4, Relist, Zenon
<1>. QED BY <1>5, <1>6, <1>7

(* Taking the head of a list to the front of another one.                  *)
LEMMA MoveHead ==
  ASSUME NEW L, NEW key \in [Procs -> ListId], Sorted(L, key),
         NEW from \in ListId, L[from] # <<>>, NEW to \in ListId, to # from
  PROVE  /\ Head(L[from]) \in Procs /\ key[Head(L[from])] = from
         /\ Sorted([L EXCEPT ![from] = removefromfront(@),
                             ![to] = addtofrontoflist(@, Head(L[from]))],
                   [key EXCEPT ![Head(L[from])] = to])
<1>. DEFINE p == Head(L[from])
            s == removefromfront(L[from])
            t == addtofrontoflist(L[to], p)
<1>1. L[from] \in Seq(Procs) /\ L[to] \in Seq(Procs) /\ IsInjective(L[from]) /\ IsInjective(L[to])
      /\ Range(L[from]) = {q \in Procs : key[q] = from} /\ Range(L[to]) = {q \in Procs : key[q] = to}
  BY DEF Sorted
<1>2. /\ p \in Range(L[from])
      /\ s \in Seq(Procs) /\ Range(s) = Range(L[from]) \ {p} /\ IsInjective(s)
  BY <1>1, RemoveFront
<1>3. p \in Procs /\ key[p] = from /\ p \notin Range(L[to])
  BY <1>1, <1>2
<1>4. L[to] \in Seq(Procs) /\ IsInjective(L[to])
  BY <1>1
<1>. HIDE DEF p
<1>5. t \in Seq(Procs) /\ Range(t) = Range(L[to]) \cup {p} /\ IsInjective(t)
  BY <1>3, <1>4, AddFront
<1>6. [L EXCEPT ![from] = removefromfront(@), ![to] = addtofrontoflist(@, p)]
      = [L EXCEPT ![from] = s, ![to] = t]
  OBVIOUS
<1>. HIDE DEF s, t
<1>7. Sorted([L EXCEPT ![from] = s, ![to] = t], [key EXCEPT ![p] = to])
  BY <1>2, <1>3, <1>5, Relist, Zenon
<1>. QED BY <1>3, <1>6, <1>7 DEF p

(* A list is a ready list or the list of another state.                    *)
LEMMA ListCases ==
  ASSUME NEW l \in ListId
  PROVE  \/ \E i \in 0..MAX : l = ready(i) /\ l[1] = "RUNNABLE" /\ l[2] = i
         \/ l \in {free, embryo, sleeping, running, zombie} /\ l[1] # "RUNNABLE"
BY DEF ListId, free, embryo, sleeping, running, zombie, ready, States

(* wakeup1 moves exactly the processes of W, each to the ready list of its *)
(* priority.                                                               *)
LEMMA WakeSorted ==
  ASSUME priority \in [Procs -> 0..MAX], NEW st \in [Procs -> States], NEW L,
         Sorted(L, KeyOf(st, priority)), NEW W, W \subseteq Range(L[sleeping])
  PROVE  /\ \A q \in W : q \in Procs /\ st[q] = "SLEEPING"
         /\ Sorted(Wake(L, W),
                   KeyOf([q \in Procs |-> IF q \in W THEN "RUNNABLE" ELSE st[q]], priority))
<1>. DEFINE st2 == [q \in Procs |-> IF q \in W THEN "RUNNABLE" ELSE st[q]]
            k == KeyOf(st, priority)
            k2 == KeyOf(st2, priority)
            M == Wake(L, W)
            keep(i) == Keep(L[sleeping], {q \in W : priority[q] = i})
<1>1. st2 \in [Procs -> States] /\ \A q \in Procs : st2[q] = IF q \in W THEN "RUNNABLE" ELSE st[q]
  BY DEF States
<1>. HIDE DEF st2
<1>2. \A q \in Procs : k[q] = sleeping <=> st[q] = "SLEEPING"
  BY KeyFacts
<1>3. /\ L[sleeping] \in Seq(Procs) /\ IsInjective(L[sleeping])
      /\ Range(L[sleeping]) = {q \in Procs : st[q] = "SLEEPING"}
  BY <1>2, ListNames DEF Sorted
<1>4. \A q \in W : q \in Procs /\ st[q] = "SLEEPING"
  BY <1>3
<1>5. /\ Keep(L[sleeping], Procs \ W) \in Seq(Procs)
      /\ IsInjective(Keep(L[sleeping], Procs \ W))
      /\ Range(Keep(L[sleeping], Procs \ W)) = Range(L[sleeping]) \cap (Procs \ W)
  BY <1>3, KeepOnly
<1>6. \A i \in 0..MAX : /\ keep(i) \in Seq(Procs) /\ IsInjective(keep(i))
                        /\ Range(keep(i)) = Range(L[sleeping]) \cap {q \in W : priority[q] = i}
  BY <1>3, KeepOnly
<1>7. /\ M[sleeping] = Keep(L[sleeping], Procs \ W)
      /\ \A i \in 0..MAX : M[ready(i)] = L[ready(i)] \o keep(i)
      /\ \A l \in {free, embryo, running, zombie} : M[l] = L[l]
      /\ M = [l \in ListId |-> M[l]]
  <2>1. sleeping[1] # "RUNNABLE" /\ \A i \in 0..MAX : ready(i)[1] = "RUNNABLE" /\ ready(i)[2] = i
    BY DEF sleeping, ready
  <2>2. \A l \in {free, embryo, running, zombie} : l[1] # "RUNNABLE"
    BY DEF free, embryo, running, zombie
  <2>3. M[sleeping] = Keep(L[sleeping], Procs \ W)
    BY ListNames DEF Wake
  <2>4. ASSUME NEW i \in 0..MAX PROVE M[ready(i)] = L[ready(i)] \o keep(i)
    <3>1. ready(i) \in ListId /\ ready(i) # sleeping /\ ready(i)[1] = "RUNNABLE" /\ ready(i)[2] = i
      BY <2>1, ListNames
    <3>. QED BY <3>1, Zenon DEF Wake
  <2>5. \A l \in {free, embryo, running, zombie} : M[l] = L[l]
    BY <2>2, ListNames DEF Wake
  <2>6. M = [l \in ListId |-> M[l]]
    BY DEF Wake
  <2>. QED BY <2>3, <2>4, <2>5, <2>6, Zenon
<1>. HIDE DEF M, keep
<1>8. ASSUME NEW l \in ListId
      PROVE  M[l] \in Seq(Procs) /\ IsInjective(M[l]) /\ Range(M[l]) = {q \in Procs : k2[q] = l}
  <2>1. L[l] \in Seq(Procs) /\ IsInjective(L[l]) /\ Range(L[l]) = {q \in Procs : k[q] = l}
    BY DEF Sorted
  <2>2. CASE l = sleeping
    <3>1. Range(M[l]) = {q \in Procs : st2[q] = "SLEEPING"}
      BY <1>1, <1>3, <1>5, <1>7, <2>2, Zenon
    <3>2. \A q \in Procs : k2[q] = sleeping <=> st2[q] = "SLEEPING"
      BY <1>1, KeyFacts
    <3>. QED BY <2>2, <3>1, <3>2, <1>5, <1>7
  <2>3. ASSUME NEW i \in 0..MAX, l = ready(i)
        PROVE  M[l] \in Seq(Procs) /\ IsInjective(M[l]) /\ Range(M[l]) = {q \in Procs : k2[q] = l}
    <3>1. \A q \in Procs : /\ k2[q] = ready(i) <=> st2[q] = "RUNNABLE" /\ priority[q] = i
                           /\ k[q] = ready(i) <=> st[q] = "RUNNABLE" /\ priority[q] = i
      BY <1>1, KeyFacts
    <3>2. /\ keep(i) \in Seq(Procs) /\ IsInjective(keep(i))
          /\ Range(keep(i)) = {q \in W : priority[q] = i}
      BY <1>6, <1>3, <1>4
    <3>3. Range(L[l]) \cap Range(keep(i)) = {}
      BY <2>1, <2>3, <3>1, <3>2, <1>4
    <3>4. M[l] \in Seq(Procs) /\ IsInjective(M[l]) /\ Range(M[l]) = Range(L[l]) \cup Range(keep(i))
      <4>1. L[l] \in Seq(Procs) /\ IsInjective(L[l])
        BY <2>1
      <4>2. keep(i) \in Seq(Procs) /\ IsInjective(keep(i))
        BY <3>2
      <4>3. M[l] = L[l] \o keep(i)
        BY <2>3, <1>7, Zenon
      <4>. QED BY <4>1, <4>2, <4>3, <3>3, Splice
    <3>5. Range(L[l]) \cup Range(keep(i)) = {q \in Procs : k2[q] = l}
      BY <2>1, <2>3, <3>1, <3>2, <1>1, <1>4
    <3>. QED BY <3>4, <3>5
  <2>4. CASE l \in {free, embryo, running, zombie}
    <3>1. \A q \in Procs : k2[q] = l <=> k[q] = l
      BY <2>4, <1>1, <1>4, KeyFacts
    <3>. QED BY <2>1, <2>4, <3>1, <1>7
  <2>. QED BY <2>2, <2>3, <2>4, ListCases
<1>9. Sorted(M, k2)
  BY <1>7, <1>8 DEF Sorted
<1>. QED BY <1>4, <1>9 DEF M, st2

(* promotiononotherlists and promotiononreadylists together keep every     *)
(* process on the list of its new priority.                                *)
LEMMA PromotionSorted ==
  ASSUME ConstantsAssumption, state \in [Procs -> States], priority \in [Procs -> 0..MAX],
         Sorted(pLists, KeyOf(state, priority))
  PROVE  /\ PromotedPriority \in [Procs -> 0..MAX]
         /\ Sorted(PromotedLists, KeyOf(state, PromotedPriority))
<1>. DEFINE k == KeyOf(state, priority)
            k2 == KeyOf(state, PromotedPriority)
            L == pLists
            M == PromotedLists
<1>0. MAX \in Nat
  BY DEF ConstantsAssumption
<1>1. \A q \in Procs : /\ q \in Range(L[sleeping]) <=> state[q] = "SLEEPING"
                       /\ q \in Range(L[running]) <=> state[q] = "RUNNING"
                       /\ \A i \in 0..MAX : q \in Range(L[ready(i)]) <=> state[q] = "RUNNABLE" /\ priority[q] = i
  <2>1. \A l \in ListId : Range(L[l]) = {q \in Procs : k[q] = l}
    BY DEF Sorted
  <2>. HIDE DEF k
  <2>2. \A q \in Procs, l \in ListId : q \in Range(L[l]) <=> k[q] = l
    BY <2>1
  <2>3. \A q \in Procs : /\ k[q] = sleeping <=> state[q] = "SLEEPING"
                         /\ k[q] = running <=> state[q] = "RUNNING"
                         /\ \A i \in 0..MAX : k[q] = ready(i) <=> state[q] = "RUNNABLE" /\ priority[q] = i
    BY KeyFacts DEF k
  <2>. QED BY <2>2, <2>3, ListNames
<1>2. ASSUME NEW q \in Procs
      PROVE  /\ PromotedPriority[q] \in 0..MAX
             /\ state[q] = "RUNNABLE" => PromotedPriority[q] = IF priority[q] = 0 THEN 0 ELSE priority[q] - 1
  <2>0. priority[q] \in 0..MAX
    OBVIOUS
  <2>1. CASE state[q] \in {"SLEEPING", "RUNNING"}
    BY <2>0, <2>1, <1>0, <1>1 DEF PromotedPriority
  <2>2. CASE state[q] = "RUNNABLE" /\ priority[q] # 0
    <3>1. \A i \in 1..MAX : q \in Range(L[ready(i)]) <=> i = priority[q]
      BY <2>0, <2>2, <1>1
    <3>2. priority[q] \in 1..MAX
      BY <2>0, <2>2
    <3>3. (CHOOSE i \in 1..MAX : q \in Range(L[ready(i)])) = priority[q]
      BY <3>1, <3>2
    <3>4. PromotedPriority[q] = priority[q] - 1
      BY <3>1, <3>2, <3>3, <2>2, <1>1 DEF PromotedPriority
    <3>. QED BY <3>4, <2>0, <2>2, <1>0
  <2>3. CASE state[q] \notin {"SLEEPING", "RUNNING", "RUNNABLE"} \/ (state[q] = "RUNNABLE" /\ priority[q] = 0)
    <3>1. \A i \in 1..MAX : q \notin Range(L[ready(i)])
      BY <2>3, <1>0, <1>1
    <3>2. PromotedPriority[q] = priority[q]
      BY <3>1, <2>3, <1>1 DEF PromotedPriority
    <3>. QED BY <3>2, <2>0, <2>3
  <2>. QED BY <2>1, <2>2, <2>3
<1>3. PromotedPriority \in [Procs -> 0..MAX]
  BY <1>2 DEF PromotedPriority
<1>4. /\ \A l \in {free, embryo, sleeping, running, zombie} : M[l] = L[l]
      /\ MAX = 0 => M[ready(0)] = L[ready(0)]
      /\ MAX # 0 => M[ready(0)] = L[ready(0)] \o L[ready(1)] /\ M[ready(MAX)] = <<>>
      /\ \A i \in 0..MAX : i # 0 /\ i # MAX => M[ready(i)] = L[ready(i+1)]
      /\ M = [l \in ListId |-> M[l]]
  <2>1. \A l \in {free, embryo, sleeping, running, zombie} : l[1] # "RUNNABLE"
    BY DEF free, embryo, sleeping, running, zombie
  <2>2. \A i \in 0..MAX : ready(i)[1] = "RUNNABLE" /\ ready(i)[2] = i
    BY DEF ready
  <2>3. \A l \in {free, embryo, sleeping, running, zombie} : M[l] = L[l]
    BY <2>1, ListNames DEF PromotedLists
  <2>4. \A i \in 0..MAX : M[ready(i)] = IF MAX = 0 THEN L[ready(i)]
                                        ELSE IF i = 0 THEN L[ready(0)] \o L[ready(1)]
                                        ELSE IF i = MAX THEN <<>>
                                        ELSE L[ready(i+1)]
    BY <2>2, ListNames DEF PromotedLists
  <2>5. M = [l \in ListId |-> M[l]]
    BY DEF PromotedLists
  <2>6. 0 \in 0..MAX /\ MAX \in 0..MAX
    BY <1>0
  <2>. HIDE DEF M
  <2>7. MAX = 0 => M[ready(0)] = L[ready(0)]
    BY <2>4, <2>6
  <2>8. MAX # 0 => M[ready(0)] = L[ready(0)] \o L[ready(1)] /\ M[ready(MAX)] = <<>>
    BY <2>4, <2>6, Zenon
  <2>9. \A i \in 0..MAX : i # 0 /\ i # MAX => M[ready(i)] = L[ready(i+1)]
    <3>1. \A i \in 0..MAX : i # 0 => MAX # 0
      BY <1>0
    <3>. QED BY <3>1, <2>4
  <2>. QED BY <2>3, <2>5, <2>7, <2>8, <2>9, Zenon
<1>. HIDE DEF M
<1>5. ASSUME NEW l \in ListId
      PROVE  M[l] \in Seq(Procs) /\ IsInjective(M[l]) /\ Range(M[l]) = {q \in Procs : k2[q] = l}
  <2>0. \A m \in ListId : L[m] \in Seq(Procs) /\ IsInjective(L[m]) /\ Range(L[m]) = {q \in Procs : k[q] = m}
    BY DEF Sorted
  <2>1. CASE l \in {free, embryo, sleeping, running, zombie}
    <3>1. \A q \in Procs : k2[q] = l <=> k[q] = l
      BY <2>1, <1>3, KeyFacts
    <3>. QED BY <2>0, <2>1, <3>1, <1>4, SMTT(30)
  <2>2. ASSUME NEW i \in 0..MAX, l = ready(i)
        PROVE  M[l] \in Seq(Procs) /\ IsInjective(M[l]) /\ Range(M[l]) = {q \in Procs : k2[q] = l}
    <3>1. \A q \in Procs : k2[q] = l <=> state[q] = "RUNNABLE" /\ PromotedPriority[q] = i
      BY <2>2, <1>3, KeyFacts
    <3>2. \A j \in 0..MAX : /\ L[ready(j)] \in Seq(Procs) /\ IsInjective(L[ready(j)])
                            /\ Range(L[ready(j)]) = {q \in Procs : state[q] = "RUNNABLE" /\ priority[q] = j}
      <4> SUFFICES ASSUME NEW j \in 0..MAX
                   PROVE  /\ L[ready(j)] \in Seq(Procs) /\ IsInjective(L[ready(j)])
                          /\ Range(L[ready(j)]) = {q \in Procs : state[q] = "RUNNABLE" /\ priority[q] = j}
        BY Zenon
      <4>1. ready(j) \in ListId
        BY ListNames
      <4>2. \A q \in Procs : k[q] = ready(j) <=> state[q] = "RUNNABLE" /\ priority[q] = j
        BY KeyFacts
      <4>. QED BY <2>0, <4>1, <4>2
    <3>3. CASE i = 0 /\ MAX = 0
      <4>1. Range(L[ready(0)]) = {q \in Procs : k2[q] = l}
        BY <3>1, <3>2, <3>3, <1>0, <1>2
      <4>. QED BY <4>1, <3>2, <3>3, <2>2, <1>4
    <3>4. CASE i = 0 /\ MAX # 0
      <4>1. 0 \in 0..MAX /\ 1 \in 0..MAX
        BY <3>4, <1>0
      <4>2. Range(L[ready(0)]) \cap Range(L[ready(1)]) = {}
        <5>1. Range(L[ready(0)]) = {q \in Procs : state[q] = "RUNNABLE" /\ priority[q] = 0}
          BY <3>2, <4>1
        <5>2. Range(L[ready(1)]) = {q \in Procs : state[q] = "RUNNABLE" /\ priority[q] = 1}
          BY <3>2, <4>1
        <5>. QED BY <5>1, <5>2
      <4>3. /\ M[l] \in Seq(Procs) /\ IsInjective(M[l])
            /\ Range(M[l]) = Range(L[ready(0)]) \cup Range(L[ready(1)])
        <5>1. /\ L[ready(0)] \in Seq(Procs) /\ IsInjective(L[ready(0)])
              /\ L[ready(1)] \in Seq(Procs) /\ IsInjective(L[ready(1)])
          BY <3>2, <4>1
        <5>2. M[l] = L[ready(0)] \o L[ready(1)]
          BY <3>4, <2>2, <1>4, Zenon
        <5>3. LET u == L[ready(0)] \o L[ready(1)]
              IN u \in Seq(Procs) /\ IsInjective(u) /\ Range(u) = Range(L[ready(0)]) \cup Range(L[ready(1)])
          BY <5>1, <4>2, Splice
        <5>. QED BY <5>2, <5>3, Zenon
      <4>4. ASSUME NEW q \in Procs, state[q] = "RUNNABLE"
            PROVE  PromotedPriority[q] = 0 <=> priority[q] \in {0, 1}
        BY <4>4, <1>0, <1>2
      <4>. QED BY <4>1, <4>3, <4>4, <3>1, <3>2, <3>4
    <3>5. CASE i # 0 /\ i = MAX
      <4>1. M[l] = <<>>
        BY <3>5, <2>2, <1>4
      <4>2. <<>> \in Seq(Procs) /\ IsInjective(<<>>) /\ Range(<<>>) = {}
        BY EmptySeq DEF IsInjective, Range
      <4>3. \A q \in Procs : state[q] = "RUNNABLE" => PromotedPriority[q] # MAX
        <5>. SUFFICES ASSUME NEW q \in Procs, state[q] = "RUNNABLE" PROVE PromotedPriority[q] # MAX
          OBVIOUS
        <5>1. priority[q] \in 0..MAX
          OBVIOUS
        <5>. QED BY <5>1, <3>5, <1>0, <1>2
      <4>. QED BY <4>1, <4>2, <4>3, <3>1, <3>5
    <3>6. CASE i # 0 /\ i # MAX
      <4>1. i + 1 \in 0..MAX
        BY <3>6, <1>0
      <4>2. M[l] = L[ready(i+1)]
        BY <3>6, <2>2, <1>4, Zenon
      <4>3. ASSUME NEW q \in Procs, state[q] = "RUNNABLE"
            PROVE  PromotedPriority[q] = i <=> priority[q] = i + 1
        <5>1. priority[q] \in 0..MAX
          OBVIOUS
        <5>. QED BY <5>1, <4>3, <3>6, <1>0, <1>2
      <4>. QED BY <4>1, <4>2, <4>3, <3>1, <3>2
    <3>. QED BY <3>3, <3>4, <3>5, <3>6
  <2>. QED BY <2>1, <2>2, ListCases
<1>. QED BY <1>3, <1>4, <1>5 DEF Sorted, M

-----------------------------------------------------------------------------
(* The inductive invariant IInv of ProcTable, seen by the lemmas above     *)

(* ListsPartition in the form the lemmas above have.                       *)
LEMMA PartitionSorted ==
  ASSUME TypeOK
  PROVE  ListsPartition <=> Sorted(pLists, KeyOf(state, priority))
<1>1. \A p \in Procs : KeyOf(state, priority)[p] = ListOf(p)
  BY DEF KeyOf, ListOf
<1>2. pLists \in [ListId -> Seq(Procs)]
  BY Zenon DEF TypeOK
<1>. QED BY <1>1, <1>2 DEF ListsPartition, Sorted

(* One process changes state, or priority, and list.                       *)
LEMMA MoveState ==
  ASSUME NEW st \in [Procs -> States], NEW pr \in [Procs -> 0..MAX], NEW pr2 \in [Procs -> 0..MAX],
         NEW L, Sorted(L, KeyOf(st, pr)), NEW p \in Procs, NEW s \in States,
         \A q \in Procs \ {p} : pr2[q] = pr[q],
         NEW from, from = KeyOf(st, pr)[p],
         NEW to, to = IF s = "RUNNABLE" THEN ready(pr2[p]) ELSE <<s, 0>>, to # from
  PROVE  /\ Sorted(MoveToFront(L, p, from, to), KeyOf([st EXCEPT ![p] = s], pr2))
         /\ s = "RUNNABLE" =>
              Sorted(MoveToReady(L, p, from, pr2[p]), KeyOf([st EXCEPT ![p] = s], pr2))
<1>. DEFINE k == KeyOf(st, pr)
            k2 == KeyOf([st EXCEPT ![p] = s], pr2)
<1>1. k2 = [k EXCEPT ![p] = to]
  BY DEF KeyOf
<1>2. k \in [Procs -> ListId]
  BY KeyFacts
<1>3. to \in ListId
  BY DEF ListId, ready
<1>. HIDE DEF k, k2
<1>4. /\ Sorted([L EXCEPT ![from] = removefromlist(@, p), ![to] = addtofrontoflist(@, p)], k2)
      /\ Sorted([L EXCEPT ![from] = removefromlist(@, p), ![to] = addtoreadyprioritylist(@, p)], k2)
  <2>1. Sorted(L, k) /\ from = k[p]
    BY DEF k
  <2>. QED BY <2>1, <1>1, <1>2, <1>3, Move, Zenon
<1>. QED BY <1>4, Zenon DEF MoveToFront, MoveToReady, k2

(* A process becomes RUNNABLE at its own priority.                         *)
LEMMA MakeRunnable ==
  ASSUME NEW st \in [Procs -> States], NEW pr \in [Procs -> 0..MAX],
         NEW L, Sorted(L, KeyOf(st, pr)), NEW p \in Procs,
         NEW from, from = KeyOf(st, pr)[p], st[p] # "RUNNABLE"
  PROVE  Sorted(MoveToReady(L, p, from, pr[p]), KeyOf([st EXCEPT ![p] = "RUNNABLE"], pr))
<1>. DEFINE pr2 == pr
            to == ready(pr2[p])
<1>1. pr2 \in [Procs -> 0..MAX] /\ \A q \in Procs \ {p} : pr2[q] = pr[q]
  OBVIOUS
<1>2. to # from /\ "RUNNABLE" \in States
  BY KeyFacts DEF States
<1>. HIDE DEF pr2
<1>3. Sorted(MoveToReady(L, p, from, pr2[p]), KeyOf([st EXCEPT ![p] = "RUNNABLE"], pr2))
  BY <1>1, <1>2, MoveState, Zenon
<1>. QED BY <1>3 DEF pr2

(* What IInv says of the process that runs on a CPU.                       *)
LEMMA Running ==
  ASSUME IInv, NEW c \in Cpus, proc[c] # NULL \/ cpc[c] = "run" \/ irq[c] = "yield"
  PROVE  /\ proc[c] \in Procs /\ proc[c] # NULL /\ cpc[c] = "run" /\ state[proc[c]] = "RUNNING"
         /\ KeyOf(state, priority)[proc[c]] = running
         /\ OnList(proc[c], running)
<1>1. proc[c] # NULL /\ cpc[c] = "run"
  BY DEF IInv, LockHandedOver
<1>a. proc[c] \in Procs /\ state \in [Procs -> States] /\ priority \in [Procs -> 0..MAX]
  BY <1>1, Zenon DEF IInv, TypeOK
<1>b. state[proc[c]] = "RUNNING"
  BY <1>a DEF IInv, OneCpuPerProcess
<1>2. KeyOf(state, priority)[proc[c]] = running
  BY <1>a, <1>b, KeyFacts
<1>3. Sorted(pLists, KeyOf(state, priority))
  BY PartitionSorted DEF IInv
<1>4. proc[c] \in Range(pLists[running])
  <2>1. Range(pLists[running]) = {q \in Procs : KeyOf(state, priority)[q] = running}
    BY <1>3, ListNames, Zenon DEF Sorted
  <2>. QED BY <1>a, <1>2, <2>1, Zenon
<1>. QED BY <1>1, <1>a, <1>b, <1>2, <1>4 DEF OnList, running

(* uint arithmetic stays in range.                                         *)
LEMMA ModRange ==
  ASSUME NEW n \in Nat \ {0}, NEW x \in Int
  PROVE  x % n \in 0..(n-1)
OBVIOUS

(* yield() and sleep() leave the priority in range and touch no other.     *)
LEMMA ChargeFacts ==
  ASSUME ConstantsAssumption, TypeOK, NEW c \in Cpus, NEW p \in Procs, Charge(c, p)
  PROVE  /\ priority' \in [Procs -> 0..MAX] /\ priority'[p] = ChargedPriority(c, p)
         /\ \A q \in Procs \ {p} : priority'[q] = priority[q]
         /\ budget' \in [Procs -> 0..(UintMod-1)]
<1>1. Left(c, p) \in 0..(UintMod-1)
  <2>1. budget[p] \in Int /\ ticks \in Int /\ cpu_ticks_in[c] \in Int
    <3>1. /\ budget \in [Procs -> 0..(UintMod-1)] /\ cpu_ticks_in \in [Cpus -> 0..(UintMod-1)]
          /\ ticks \in 0..(UintMod-1)
      BY Zenon DEF TypeOK
    <3>2. /\ budget[p] \in 0..(UintMod-1) /\ cpu_ticks_in[c] \in 0..(UintMod-1)
          /\ ticks \in 0..(UintMod-1)
      BY <3>1
    <3>. QED BY <3>2
  <2>2. UintMod \in Nat \ {0}
    BY DEF ConstantsAssumption
  <2>3. \A x \in Int : x % UintMod \in 0..(UintMod-1)
    BY <2>2, ModRange
  <2>4. (ticks - cpu_ticks_in[c]) % UintMod \in 0..(UintMod-1)
    BY <2>1, <2>3
  <2>5. \A d \in 0..(UintMod-1) : budget[p] - d \in Int
    BY <2>1
  <2>6. budget[p] - ((ticks - cpu_ticks_in[c]) % UintMod) \in Int
    BY <2>4, <2>5
  <2>. QED BY <2>3, <2>6 DEF Left
<1>2. ChargedBudget(c, p) \in 0..(UintMod-1)
  BY <1>1 DEF ChargedBudget, ConstantsAssumption
<1>3. ChargedPriority(c, p) \in 0..MAX
  <2>1. priority[p] \in 0..MAX /\ MAX \in Nat
    BY Zenon DEF TypeOK, ConstantsAssumption
  <2>. QED BY <2>1 DEF ChargedPriority
<1>. QED BY <1>2, <1>3, Zenon DEF Charge, TypeOK

-----------------------------------------------------------------------------
(* Each step leaves the lists sorted and does not panic over a list        *)

GoodLists == Sorted(pLists, KeyOf(state, priority)) /\ panicked # "list"

(* The hypotheses of the lemmas below, unfolded once.                      *)
LEMMA Basics ==
  ASSUME IInv
  PROVE  /\ GoodLists
         /\ state \in [Procs -> States] /\ priority \in [Procs -> 0..MAX]
         /\ KeyOf(state, priority) \in [Procs -> ListId]
<1>1. state \in [Procs -> States] /\ priority \in [Procs -> 0..MAX]
  BY Zenon DEF IInv, TypeOK
<1>2. Sorted(pLists, KeyOf(state, priority))
  BY PartitionSorted DEF IInv
<1>3. KeyOf(state, priority) \in [Procs -> ListId]
  BY <1>1 DEF KeyOf, ListId, ready
<1>. QED BY <1>1, <1>2, <1>3 DEF IInv, NoListPanic, GoodLists

(* A step that leaves lists, states and priorities alone keeps the lists.  *)
LEMMA QuietLists ==
  ASSUME IInv, UNCHANGED <<pLists, state, priority>>, panicked' # "list"
  PROVE  GoodLists'
BY Basics DEF GoodLists

(* wakeup1 keeps the lists and never finds a sleeper in another state.     *)
LEMMA WakeupLists ==
  ASSUME IInv, NEW ch, WakeupOn(ch)
  PROVE  GoodLists'
<1>. DEFINE W == Sleepers(pLists, ch)
<1>1. W \subseteq Range(pLists[sleeping])
  BY DEF Sleepers
<1>2. pLists' = Wake(pLists, W) /\ state' = AsRunnable(W) /\ priority' = priority
      /\ panicked' = IF AllAsleep(W) THEN "no" ELSE "list"
  BY DEF WakeupOn, Check, mlfq
<1>. HIDE DEF W
<1>3. /\ \A q \in W : state[q] = "SLEEPING"
      /\ Sorted(Wake(pLists, W), KeyOf(AsRunnable(W), priority))
  BY <1>1, Basics, WakeSorted DEF AsRunnable, GoodLists
<1>. QED BY <1>2, <1>3 DEF GoodLists, AllAsleep

(* What the scheduler finds when it looks at the clock.                    *)
LEMMA NowSorted ==
  ASSUME ConstantsAssumption, IInv
  PROVE  /\ PriorityNow \in [Procs -> 0..MAX]
         /\ Sorted(ListsNow, KeyOf(state, PriorityNow))
BY Basics, PromotionSorted DEF GoodLists, PriorityNow, ListsNow

(* A turn of scheduler() that finds its list empty keeps the lists.        *)
LEMMA SkipLists ==
  ASSUME ConstantsAssumption, IInv, NEW c \in Cpus, SkipList(c)
  PROVE  GoodLists'
<1>1. pLists' = ListsNow /\ priority' = PriorityNow /\ UNCHANGED <<state, panicked>>
  BY DEF SkipList, LookAtClock
<1>. QED BY <1>1, Basics, NowSorted DEF GoodLists

(* scheduler() dispatches a RUNNABLE process: after a promotion too, the   *)
(* process it found at the head of ready[i] has priority i.                *)
LEMMA DispatchLists ==
  ASSUME ConstantsAssumption, IInv, NEW c \in Cpus, Dispatch(c)
  PROVE  /\ GoodLists'
         /\ \E p \in Procs : /\ p = Head(ListsNow[ready(idx[c])]) /\ state[p] = "RUNNABLE"
                             /\ state' = [state EXCEPT ![p] = "RUNNING"]
<1>. DEFINE i == idx[c]
            p == Head(ListsNow[ready(i)])
            k == KeyOf(state, PriorityNow)
<1>1. i \in 0..MAX
  <2>1. i \in 0..(MAX+1) /\ i <= MAX
    BY Zenon DEF IInv, TypeOK, Dispatch
  <2>. QED BY <2>1 DEF ConstantsAssumption
<1>2. state \in [Procs -> States] /\ PriorityNow \in [Procs -> 0..MAX] /\ Sorted(ListsNow, k)
      /\ k \in [Procs -> ListId]
  <2>1. state \in [Procs -> States] /\ PriorityNow \in [Procs -> 0..MAX] /\ Sorted(ListsNow, k)
    BY Basics, NowSorted, Zenon
  <2>2. k \in [Procs -> ListId]
    BY <2>1 DEF KeyOf, ListId, ready
  <2>. QED BY <2>1, <2>2, Zenon
<1>3. ready(i) \in ListId /\ running \in ListId /\ running # ready(i) /\ ListsNow[ready(i)] # <<>>
  BY <1>1, ListNames DEF Dispatch
<1>. HIDE DEF i, k
<1>4. /\ p \in Procs /\ k[p] = ready(i)
      /\ Sorted([ListsNow EXCEPT ![ready(i)] = removefromfront(@),
                                 ![running] = addtofrontoflist(@, p)], [k EXCEPT ![p] = running])
  BY <1>2, <1>3, MoveHead, Zenon
<1>. HIDE DEF p
<1>5. state[p] = "RUNNABLE" /\ PriorityNow[p] = i
  BY <1>1, <1>2, <1>4, KeyFacts DEF k
<1>6. /\ pLists' = [ListsNow EXCEPT ![ready(i)] = removefromfront(@),
                                    ![running] = addtofrontoflist(@, p)]
      /\ state' = [state EXCEPT ![p] = "RUNNING"]
      /\ priority' = PriorityNow
      /\ panicked' = "no"
  BY <1>3, <1>5 DEF Dispatch, LookAtClock, Check, p, i
<1>7. KeyOf(state', priority') = [k EXCEPT ![p] = running]
  BY <1>2, <1>4, <1>6 DEF KeyOf, k, running
<1>. QED BY <1>4, <1>5, <1>6, <1>7, Zenon DEF GoodLists, p, i

(* yield() keeps the lists, with or without a demotion.                    *)
LEMMA YieldLists ==
  ASSUME ConstantsAssumption, IInv, NEW c \in Cpus, Yield(c)
  PROVE  GoodLists'
<1>. DEFINE p == proc[c]
<1>1. p \in Procs /\ KeyOf(state, priority)[p] = running /\ state[p] = "RUNNING"
  BY Running, Zenon DEF Yield, Handles
<1>. HIDE DEF p
<1>2. /\ priority' \in [Procs -> 0..MAX] /\ priority'[p] = ChargedPriority(c, p)
      /\ \A q \in Procs \ {p} : priority'[q] = priority[q]
  <2>1. Charge(c, p) /\ TypeOK
    BY Zenon DEF Yield, IInv, p
  <2>. QED BY <2>1, <1>1, ChargeFacts, Zenon
<1>3. /\ pLists' = MoveToReady(pLists, p, running, priority'[p])
      /\ state' = [state EXCEPT ![p] = "RUNNABLE"]
      /\ panicked' = "no"
  BY <1>1, <1>2, Zenon DEF Yield, Check, p
<1>4. running # ready(priority'[p])
  BY <1>1, <1>2, ListNames
<1>5. Sorted(MoveToReady(pLists, p, running, priority'[p]), KeyOf([state EXCEPT ![p] = "RUNNABLE"], priority'))
  <2>1. state \in [Procs -> States] /\ priority \in [Procs -> 0..MAX]
        /\ Sorted(pLists, KeyOf(state, priority)) /\ "RUNNABLE" \in States
    BY Basics DEF GoodLists, States
  <2>. QED BY <2>1, <1>1, <1>2, <1>4, MoveState, Zenon
<1>. QED BY <1>3, <1>5, Zenon DEF GoodLists

(* sleep() finds the process on the running list and keeps the lists.      *)
LEMMA SleepLists ==
  ASSUME ConstantsAssumption, IInv, NEW c \in Cpus, NEW p \in Procs, NEW ch, NEW where,
         proc[c] = p, SleepBody(c, p, ch, where)
  PROVE  GoodLists'
<1>1. KeyOf(state, priority)[p] = running /\ OnList(p, running)
  <2>1. p # NULL
    BY DEF Procs, NULL
  <2>. QED BY <2>1, Running
<1>2. /\ priority' \in [Procs -> 0..MAX] /\ \A q \in Procs \ {p} : priority'[q] = priority[q]
  BY ChargeFacts DEF SleepBody, IInv
<1>3. /\ pLists' = MoveToFront(pLists, p, running, sleeping)
      /\ state' = [state EXCEPT ![p] = "SLEEPING"]
      /\ panicked' = "no"
  BY <1>1 DEF SleepBody, Check
<1>4. Sorted(MoveToFront(pLists, p, running, sleeping), KeyOf([state EXCEPT ![p] = "SLEEPING"], priority'))
  <2>1. state \in [Procs -> States] /\ priority \in [Procs -> 0..MAX]
        /\ Sorted(pLists, KeyOf(state, priority)) /\ "SLEEPING" \in States
    BY Basics DEF GoodLists, States
  <2>2. sleeping = <<"SLEEPING", 0>> /\ sleeping # running
    BY ListNames DEF sleeping
  <2>. QED BY <2>1, <2>2, <1>1, <1>2, MoveState, Zenon
<1>. QED BY <1>3, <1>4 DEF GoodLists

(* allocproc takes an UNUSED slot and keeps the lists.                     *)
LEMMA ForkAllocLists ==
  ASSUME IInv, NEW c \in Cpus, NEW p \in Procs, ForkAlloc(c, p)
  PROVE  /\ GoodLists' /\ priority' = priority
         /\ Head(pLists[free]) \in Procs /\ state[Head(pLists[free])] = "UNUSED"
         /\ state' = [state EXCEPT ![Head(pLists[free])] = "EMBRYO"]
<1>. DEFINE q == Head(pLists[free])
            k == KeyOf(state, priority)
<1>1. state \in [Procs -> States] /\ priority \in [Procs -> 0..MAX]
      /\ Sorted(pLists, k) /\ k \in [Procs -> ListId]
  BY Basics DEF GoodLists
<1>2. free \in ListId /\ embryo \in ListId /\ embryo # free /\ pLists[free] # <<>>
  BY ListNames DEF ForkAlloc
<1>. HIDE DEF k
<1>3. /\ q \in Procs /\ k[q] = free
      /\ Sorted([pLists EXCEPT ![free] = removefromfront(@),
                               ![embryo] = addtofrontoflist(@, q)], [k EXCEPT ![q] = embryo])
  BY <1>1, <1>2, MoveHead, Zenon
<1>4. state[q] = "UNUSED"
  BY <1>1, <1>3, KeyFacts DEF k
<1>5. /\ pLists' = [pLists EXCEPT ![free] = removefromfront(@), ![embryo] = addtofrontoflist(@, q)]
      /\ state' = [state EXCEPT ![q] = "EMBRYO"] /\ priority' = priority /\ panicked' = "no"
  BY <1>4 DEF ForkAlloc, Check, mlfq
<1>. HIDE DEF q
<1>6. KeyOf(state', priority') = [k EXCEPT ![q] = embryo]
  <2>1. \A r \in Procs : state'[r] = IF r = q THEN "EMBRYO" ELSE state[r]
    BY <1>1, <1>3, <1>5
  <2>2. \A r \in Procs : KeyOf(state', priority')[r] = IF r = q THEN embryo ELSE k[r]
    BY <2>1, <1>5 DEF KeyOf, k, embryo
  <2>3. KeyOf(state', priority') = [r \in Procs |-> KeyOf(state', priority')[r]]
    BY DEF KeyOf
  <2>. QED BY <1>1, <2>2, <2>3
<1>. QED BY <1>3, <1>4, <1>5, <1>6 DEF GoodLists, q

(* The slot of a fork() in progress is on the embryo list.                 *)
LEMMA Embryo ==
  ASSUME IInv, NEW p \in Procs, ppc[p] \in {"fork1", "fork2", "fork3"}
  PROVE  /\ np[p] \in Procs /\ state[np[p]] = "EMBRYO"
         /\ KeyOf(state, priority)[np[p]] = embryo /\ OnList(np[p], embryo)
<1>1. np[p] \in Procs /\ state[np[p]] = "EMBRYO"
  BY DEF IInv, EmbryoOwned
<1>2. KeyOf(state, priority)[np[p]] = embryo
  BY <1>1, Basics, KeyFacts
<1>3. np[p] \in Range(pLists[embryo])
  BY <1>1, <1>2, Basics, ListNames DEF GoodLists, Sorted
<1>. QED BY <1>1, <1>2, <1>3 DEF OnList, embryo

(* Setting the priority of an EMBRYO moves it to no other list.            *)
LEMMA AllocInitLists ==
  ASSUME ConstantsAssumption, IInv, NEW c \in Cpus, NEW p \in Procs, AllocInit(c, p)
  PROVE  GoodLists'
<1>1. np[p] \in Procs /\ state[np[p]] = "EMBRYO"
  BY Embryo DEF AllocInit, Runs
<1>2. UNCHANGED <<pLists, state, panicked>> /\ priority' = [priority EXCEPT ![np[p]] = 0]
  BY DEF AllocInit, lists
<1>3. KeyOf(state', priority') = KeyOf(state, priority)
  BY <1>1, <1>2, Basics DEF KeyOf
<1>. QED BY <1>2, <1>3, Basics DEF GoodLists

(* A failed fork() puts the slot back on the free list.                    *)
LEMMA ForkFailLists ==
  ASSUME IInv, NEW c \in Cpus, NEW p \in Procs, ForkFail(c, p)
  PROVE  GoodLists'
<1>. DEFINE q == np[p]
<1>1. q \in Procs /\ KeyOf(state, priority)[q] = embryo /\ OnList(q, embryo)
  BY Embryo DEF ForkFail, Runs
<1>2. /\ pLists' = MoveToFront(pLists, q, embryo, free)
      /\ state' = [state EXCEPT ![q] = "UNUSED"] /\ priority' = priority /\ panicked' = "no"
  BY <1>1 DEF ForkFail, Check, mlfq
<1>. HIDE DEF q
<1>3. Sorted(MoveToFront(pLists, q, embryo, free), KeyOf([state EXCEPT ![q] = "UNUSED"], priority))
  <2>1. state \in [Procs -> States] /\ priority \in [Procs -> 0..MAX]
        /\ Sorted(pLists, KeyOf(state, priority)) /\ "UNUSED" \in States
    BY Basics DEF GoodLists, States
  <2>2. free = <<"UNUSED", 0>> /\ free # embryo
    BY ListNames DEF free
  <2>. QED BY <2>1, <2>2, <1>1, MoveState, Zenon
<1>. QED BY <1>2, <1>3, SMTT(30) DEF GoodLists

(* fork() puts the child on the ready list of its priority.                *)
LEMMA ForkPublishLists ==
  ASSUME IInv, NEW c \in Cpus, NEW p \in Procs, ForkPublish(c, p)
  PROVE  GoodLists'
<1>. DEFINE q == np[p]
<1>1. q \in Procs /\ KeyOf(state, priority)[q] = embryo /\ OnList(q, embryo)
  BY Embryo DEF ForkPublish, Runs
<1>2. /\ pLists' = MoveToReady(pLists, q, embryo, priority[q])
      /\ state' = [state EXCEPT ![q] = "RUNNABLE"] /\ priority' = priority /\ panicked' = "no"
  BY <1>1 DEF ForkPublish, Check, mlfq
<1>. HIDE DEF q
<1>3. Sorted(MoveToReady(pLists, q, embryo, priority[q]), KeyOf([state EXCEPT ![q] = "RUNNABLE"], priority))
  <2>1. state \in [Procs -> States] /\ priority \in [Procs -> 0..MAX]
        /\ Sorted(pLists, KeyOf(state, priority))
    BY Basics DEF GoodLists
  <2>2. state[q] # "RUNNABLE"
    BY <2>1, <1>1, KeyFacts
  <2>. QED BY <2>1, <2>2, <1>1, MakeRunnable, Zenon
<1>. QED BY <1>2, <1>3 DEF GoodLists

(* exit() wakes the parent, then init, then moves the process.             *)
LEMMA ExitLists ==
  ASSUME IInv, NEW c \in Cpus, NEW p \in Procs, Exit(c, p)
  PROVE  /\ GoodLists' /\ priority' = priority
         /\ \E W \in SUBSET {q \in Procs : state[q] = "SLEEPING"} :
              state' = [AsRunnable(W) EXCEPT ![p] = "ZOMBIE"]
<1>. DEFINE W1 == Sleepers(pLists, parent[p])
            L1 == Wake(pLists, W1)
            Z  == {q \in Range(L1[zombie]) : parent[q] = p}
            W2 == IF Z = {} THEN {} ELSE Sleepers(L1, initproc)
            L2 == Wake(L1, W2)
            W  == W1 \cup W2
<1>1. state \in [Procs -> States] /\ priority \in [Procs -> 0..MAX]
      /\ Sorted(pLists, KeyOf(state, priority))
  BY Basics DEF GoodLists
<1>2. state[p] = "RUNNING" /\ OnList(p, running)
  BY Running, Zenon DEF Exit, Runs, Schedules
<1>3. W1 \subseteq Range(pLists[sleeping]) /\ W2 \subseteq Range(L1[sleeping])
  <2>1. \A L, ch : Sleepers(L, ch) \subseteq Range(L[sleeping])
    BY DEF Sleepers
  <2>. QED BY <2>1, Zenon
<1>4. /\ pLists' = MoveToFront(L2, p, running, zombie)
      /\ state' = [AsRunnable(W) EXCEPT ![p] = "ZOMBIE"]
      /\ priority' = priority
      /\ panicked' = IF AllAsleep(W) /\ OnList(p, running) THEN "no" ELSE "list"
  BY Zenon DEF Exit, Check, mlfq
<1>. HIDE DEF W1, Z, W2
<1>5. /\ \A q \in W1 : q \in Procs /\ state[q] = "SLEEPING"
      /\ Sorted(L1, KeyOf(AsRunnable(W1), priority))
  BY <1>1, <1>3, WakeSorted DEF AsRunnable
<1>6. AsRunnable(W1) \in [Procs -> States] /\ AsRunnable(W) \in [Procs -> States]
  BY <1>1 DEF AsRunnable, States
<1>. HIDE DEF L1
<1>. DEFINE st == [q \in Procs |-> IF q \in W2 THEN "RUNNABLE" ELSE AsRunnable(W1)[q]]
<1>7. /\ \A q \in W2 : q \in Procs /\ AsRunnable(W1)[q] = "SLEEPING"
      /\ Sorted(L2, KeyOf(st, priority))
  <2>1. W2 \subseteq Range(L1[sleeping]) /\ AsRunnable(W1) \in [Procs -> States]
        /\ Sorted(L1, KeyOf(AsRunnable(W1), priority)) /\ priority \in [Procs -> 0..MAX]
    BY <1>1, <1>3, <1>5, <1>6, Zenon
  <2>. QED BY <2>1, WakeSorted, SMTT(60)
<1>8. st = AsRunnable(W)
  BY DEF AsRunnable
<1>9. \A q \in W : q \in Procs /\ state[q] = "SLEEPING"
  BY <1>5, <1>7 DEF AsRunnable
<1>. HIDE DEF W, L2, st
<1>10. AsRunnable(W)[p] = "RUNNING"
  BY <1>2, <1>9 DEF AsRunnable
<1>11. Sorted(MoveToFront(L2, p, running, zombie), KeyOf([AsRunnable(W) EXCEPT ![p] = "ZOMBIE"], priority))
  <2>1. KeyOf(AsRunnable(W), priority)[p] = running
    BY <1>1, <1>6, <1>10, KeyFacts
  <2>2. zombie = <<"ZOMBIE", 0>> /\ zombie # running /\ "ZOMBIE" \in States
    BY ListNames DEF zombie, States
  <2>. QED BY <2>1, <2>2, <1>1, <1>6, <1>7, <1>8, MoveState, Zenon
<1>12. W \in SUBSET {q \in Procs : state[q] = "SLEEPING"} /\ AllAsleep(W)
  BY <1>9 DEF AllAsleep
<1>. QED BY <1>2, <1>4, <1>11, <1>12, Zenon DEF GoodLists

(* wait() frees a process that is a ZOMBIE.                                *)
LEMMA WaitReapLists ==
  ASSUME IInv, NEW c \in Cpus, NEW p \in Procs, WaitReap(c, p)
  PROVE  /\ GoodLists' /\ priority' = priority
         /\ \E q \in Procs : state[q] = "ZOMBIE" /\ state' = [state EXCEPT ![q] = "UNUSED"]
<1>1. state \in [Procs -> States] /\ priority \in [Procs -> 0..MAX]
      /\ Sorted(pLists, KeyOf(state, priority))
  BY Basics DEF GoodLists
<1>2. PICK k \in ZombieKids(p) :
        LET q == pLists[zombie][k]
        IN /\ Check(OnList(q, zombie))
           /\ pLists' = MoveToFront(pLists, q, zombie, free)
           /\ state' = [state EXCEPT ![q] = "UNUSED"]
  BY Zenon DEF WaitReap
<1>. DEFINE q == pLists[zombie][k]
<1>3. k \in 1..Len(pLists[zombie])
  BY DEF ZombieKids
<1>4. pLists[zombie] \in Seq(Procs) /\ Range(pLists[zombie]) = {r \in Procs : KeyOf(state, priority)[r] = zombie}
  BY <1>1, ListNames DEF Sorted
<1>5. q \in Range(pLists[zombie])
  BY <1>3, <1>4, SMTT(30) DEF Range
<1>. HIDE DEF q
<1>6. q \in Procs /\ KeyOf(state, priority)[q] = zombie
  BY <1>4, <1>5, Zenon
<1>7. state[q] = "ZOMBIE" /\ OnList(q, zombie)
  <2>1. state[q] = "ZOMBIE"
    BY <1>1, <1>6, KeyFacts, Zenon
  <2>. QED BY <2>1, <1>5 DEF OnList, zombie
<1>8. /\ pLists' = MoveToFront(pLists, q, zombie, free)
      /\ state' = [state EXCEPT ![q] = "UNUSED"] /\ priority' = priority /\ panicked' = "no"
  BY <1>2, <1>7, Zenon DEF WaitReap, Check, mlfq, q
<1>9. Sorted(MoveToFront(pLists, q, zombie, free), KeyOf([state EXCEPT ![q] = "UNUSED"], priority))
  <2>1. free = <<"UNUSED", 0>> /\ free # zombie /\ "UNUSED" \in States
    BY ListNames DEF free, States
  <2>. QED BY <2>1, <1>1, <1>6, MoveState, Zenon
<1>. QED BY <1>6, <1>7, <1>8, <1>9, Zenon DEF GoodLists

(* kill() makes a sleeper RUNNABLE and leaves every other state alone.     *)
LEMMA KillLists ==
  ASSUME IInv, NEW c \in Cpus, NEW p \in Procs, NEW n, Kill(c, p, n)
  PROVE  /\ GoodLists' /\ priority' = priority
         /\ \/ state' = state
            \/ \E q \in Procs : state[q] = "SLEEPING" /\ state' = [state EXCEPT ![q] = "RUNNABLE"]
<1>1. state \in [Procs -> States] /\ priority \in [Procs -> 0..MAX]
      /\ Sorted(pLists, KeyOf(state, priority))
  BY Basics DEF GoodLists
<1>2. PICK q \in OnSome(pLists, AdoptLists) :
        LET asleep == q \in Range(pLists[sleeping])
        IN /\ Check(asleep => state[q] = "SLEEPING")
           /\ pLists' = IF asleep THEN MoveToReady(pLists, q, sleeping, priority[q]) ELSE pLists
           /\ state' = [state EXCEPT ![q] = IF asleep THEN "RUNNABLE" ELSE @]
  BY Zenon DEF Kill
<1>3. priority' = priority
  BY DEF Kill, mlfq
<1>4. q \in Procs
  <2>1. AdoptLists \subseteq ListId
    BY ListNames DEF AdoptLists
  <2>2. PICK l \in AdoptLists : q \in Range(pLists[l])
    BY DEF OnSome
  <2>. QED BY <2>1, <2>2, <1>1 DEF Sorted
<1>5. CASE q \in Range(pLists[sleeping])
  <2>1. KeyOf(state, priority)[q] = sleeping
    BY <1>1, <1>5, ListNames, SMTT(30) DEF Sorted
  <2>2. state[q] = "SLEEPING"
    BY <2>1, <1>1, <1>4, KeyFacts
  <2>3. /\ pLists' = MoveToReady(pLists, q, sleeping, priority[q])
        /\ state' = [state EXCEPT ![q] = "RUNNABLE"] /\ panicked' = "no"
    BY <2>2, <1>2, <1>5 DEF Check
  <2>5. Sorted(MoveToReady(pLists, q, sleeping, priority[q]), KeyOf([state EXCEPT ![q] = "RUNNABLE"], priority))
    BY <2>1, <2>2, <1>1, <1>4, MakeRunnable, Zenon
  <2>. QED BY <2>2, <2>3, <2>5, <1>3, <1>4, Zenon DEF GoodLists
<1>6. CASE q \notin Range(pLists[sleeping])
  <2>1. pLists' = pLists /\ state' = state /\ panicked' = "no"
    BY <1>1, <1>2, <1>6 DEF Check
  <2>2. GoodLists'
    BY <2>1, <1>1, <1>3 DEF GoodLists
  <2>. QED BY <2>1, <2>2, <1>3, <1>4
<1>. QED BY <1>5, <1>6

(* setpriority() takes a RUNNABLE process to the list of its new priority. *)
LEMMA SetPriorityLists ==
  ASSUME IInv, NEW c \in Cpus, NEW p \in Procs, NEW n, NEW prio \in 0..MAX, SetPriority(c, p, n, prio)
  PROVE  GoodLists' /\ priority' \in [Procs -> 0..MAX] /\ state' = state
<1>1. state \in [Procs -> States] /\ priority \in [Procs -> 0..MAX]
      /\ Sorted(pLists, KeyOf(state, priority)) /\ panicked # "list"
  BY Basics DEF GoodLists
<1>2. PICK q \in OnSome(pLists, AdoptLists \ {embryo}) :
        /\ priority[q] # prio
        /\ priority' = [priority EXCEPT ![q] = prio]
        /\ pLists' = IF q \in Range(pLists[running]) \cup Range(pLists[sleeping]) THEN pLists
                     ELSE MoveToReady(pLists, q, ready(priority[q]), prio)
  BY Zenon DEF SetPriority
<1>3. state' = state /\ panicked' = panicked
  BY DEF SetPriority
<1>4. PICK l \in AdoptLists \ {embryo} : q \in Range(pLists[l])
  BY DEF OnSome
<1>5. l \in ListId /\ (l \in {sleeping, running} \/ \E i \in 0..MAX : l = ready(i))
  BY <1>4, ListNames, SMTT(30) DEF AdoptLists
<1>6. q \in Procs /\ KeyOf(state, priority)[q] = l
  BY <1>1, <1>4, <1>5 DEF Sorted
<1>7. priority' \in [Procs -> 0..MAX] /\ priority'[q] = prio
      /\ \A r \in Procs \ {q} : priority'[r] = priority[r]
  BY <1>1, <1>2, <1>6
<1>8. CASE l \in {sleeping, running}
  <2>1. state[q] \in {"SLEEPING", "RUNNING"}
    BY <1>1, <1>6, <1>8, KeyFacts, SMTT(30)
  <2>2. KeyOf(state', priority') = KeyOf(state, priority)
    BY <2>1, <1>3, <1>7, Zenon DEF KeyOf
  <2>3. pLists' = pLists
    BY <1>2, <1>4, <1>8
  <2>. QED BY <2>2, <2>3, <1>1, <1>3, <1>7 DEF GoodLists
<1>9. ASSUME NEW i \in 0..MAX, l = ready(i)
      PROVE  GoodLists'
  <2>1. state[q] = "RUNNABLE" /\ priority[q] = i
    <3>1. KeyOf(state, priority)[q] = ready(i)
      BY <1>6, <1>9, Zenon
    <3>. QED BY <1>1, <1>6, <3>1, KeyFacts, Zenon
  <2>2. q \notin Range(pLists[running]) \cup Range(pLists[sleeping])
    <3>1. ready(i) # running /\ ready(i) # sleeping /\ running \in ListId /\ sleeping \in ListId
      BY ListNames
    <3>2. \A m \in ListId : q \in Range(pLists[m]) => KeyOf(state, priority)[q] = m
      BY <1>1 DEF Sorted
    <3>. QED BY <3>1, <3>2, <1>6, <1>9
  <2>3. pLists' = MoveToReady(pLists, q, ready(i), prio)
    BY <2>1, <2>2, <1>2
  <2>4. ready(i) # ready(prio) /\ "RUNNABLE" \in States
    <3>1. i # prio
      BY <2>1, <1>2, Zenon
    <3>2. ready(i) = ready(prio) => i = prio
      BY ListNames, Zenon
    <3>. QED BY <3>1, <3>2 DEF States
  <2>5. Sorted(MoveToReady(pLists, q, ready(i), prio), KeyOf([state EXCEPT ![q] = "RUNNABLE"], priority'))
    BY <2>4, <1>1, <1>6, <1>7, <1>9, MoveState, Zenon
  <2>6. [state EXCEPT ![q] = "RUNNABLE"] = state'
    BY <2>1, <1>1, <1>3, <1>6
  <2>. QED BY <2>3, <2>5, <2>6, <1>1, <1>3, Zenon DEF GoodLists
<1>. QED BY <1>3, <1>5, <1>7, <1>8, <1>9
=============================================================================
