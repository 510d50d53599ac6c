---------------------------- MODULE Disks_proofs ----------------------------
(***************************************************************************)
(* For any Vagrantfiles and boxes: a new disk takes a slot of its own, and *)
(* an up that gets through provides every disk that is defined.            *)
(*                                                                         *)
(* First the vmx file as it is written, read and searched; then what       *)
(* configure_disks knows of it while it goes through the definitions.      *)
(***************************************************************************)
EXTENDS Disks, FunctionTheorems, FiniteSetTheorems, SequenceTheorems, WellFoundedInduction, TLAPS

-----------------------------------------------------------------------------
(* Lists.                                                                  *)

\* What holds of 0 and, with a number, of the next one holds up to n.
LEMMA UpTo ==
  ASSUME NEW n \in Nat, NEW Good \in SUBSET Nat, 0 \in Good,
         \A i \in 1..n : i - 1 \in Good => i \in Good
  PROVE  0..n \subseteq Good
<1> DEFINE R == OpToRel(<, Nat)
           Bad == 0..n \ Good
<1>1. IsWellFoundedOn(R, Nat) /\ \A x, y \in Nat : y < x => <<y, x>> \in R
  BY NatLessThanWellFounded DEF OpToRel
<1> SUFFICES ASSUME Bad # {} PROVE FALSE
  OBVIOUS
<1> HIDE DEF R
<1>2. Bad \in SUBSET Nat
  OBVIOUS
<1>3. PICK i \in Bad : \A y \in Bad : ~(<<y, i>> \in R)
  <2> HIDE DEF Bad
  <2> QED BY <1>1, <1>2, WFMin
<1>4. i \in 1..n /\ i - 1 \in Nat /\ i - 1 < i
  BY <1>2, <1>3
<1>5. i - 1 \in Bad
  BY <1>3, <1>4
<1> QED BY <1>1, <1>2, <1>3, <1>4, <1>5

\* The first of some places is one of them.
LEMMA FirstIsAPlace ==
  ASSUME NEW places \in SUBSET Nat
  PROVE  IF places = {} THEN First(places) = 0 ELSE First(places) \in places
<1> DEFINE R == OpToRel(<, Nat)
<1>1. IsWellFoundedOn(R, Nat) /\ \A x, y \in Nat : y < x => <<y, x>> \in R
  BY NatLessThanWellFounded DEF OpToRel
<1> HIDE DEF R
<1>2. CASE places # {}
  <2>1. PICK i \in places : \A y \in places : ~(<<y, i>> \in R)
    BY <1>1, <1>2, WFMin
  <2>2. ASSUME NEW k \in places PROVE i <= k
    <3>1. k \in Nat /\ i \in Nat /\ ~(<<k, i>> \in R)
      BY <2>1
    <3>2. ~(k < i)
      BY <1>1, <3>1
    <3> QED BY <3>1, <3>2
  <2> QED BY <1>2, <2>1, <2>2 DEF First
<1> QED BY <1>2 DEF First

\* The elements of a list and of what Tail, Append and Reverse make of it.
LEMMA ListSets ==
  ASSUME NEW S, NEW s \in Seq(S)
  PROVE  /\ ToSet(s) \subseteq S /\ IsFiniteSet(ToSet(s))
         /\ s # <<>> => /\ Head(s) \in S /\ Head(s) \in ToSet(s) /\ Tail(s) \in Seq(S)
                        /\ \A x \in ToSet(s) : x = Head(s) \/ x \in ToSet(Tail(s))
                        /\ ToSet(Tail(s)) \subseteq ToSet(s)
         /\ \A x \in S : Append(s, x) \in Seq(S) /\ ToSet(Append(s, x)) = ToSet(s) \cup {x}
         /\ Reverse(s) \in Seq(S) /\ ToSet(Reverse(s)) = ToSet(s)
<1>1. Len(s) \in Nat /\ DOMAIN s = 1..Len(s) /\ \A i \in 1..Len(s) : s[i] \in S
  OBVIOUS
<1>2. ToSet(s) \subseteq S
  BY <1>1 DEF ToSet
<1>3. IsFiniteSet(ToSet(s))
  <2>1. s \in [1..Len(s) -> ToSet(s)]
    BY <1>1 DEF ToSet
  <2>2. s \in Surjection(1..Len(s), ToSet(s))
    BY <1>1, <2>1 DEF Surjection, ToSet
  <2>3. IsFiniteSet(1..Len(s))
    BY <1>1, FS_Interval
  <2> QED BY <2>2, <2>3, FS_Surjection
<1>4. ASSUME s # <<>>
      PROVE  /\ Head(s) \in S /\ Head(s) \in ToSet(s) /\ Tail(s) \in Seq(S)
             /\ \A x \in ToSet(s) : x = Head(s) \/ x \in ToSet(Tail(s))
             /\ ToSet(Tail(s)) \subseteq ToSet(s)
  <2> DEFINE t == Tail(s)
  <2>1. /\ Head(s) = s[1] /\ 1 \in 1..Len(s) /\ t \in Seq(S) /\ Len(t) = Len(s) - 1
        /\ \A i \in 1..Len(t) : t[i] = s[i + 1]
    BY <1>1, <1>4, HeadTailProperties
  <2> HIDE DEF t
  <2>2. DOMAIN t = 1..Len(t)
    BY <2>1
  <2>3. ASSUME NEW i \in 1..Len(s), i # 1 PROVE i - 1 \in 1..Len(t) /\ s[i] = t[i - 1]
    <3>1. i - 1 \in 1..Len(t) /\ (i - 1) + 1 = i
      BY <1>1, <2>1, <2>3
    <3> QED BY <2>1, <3>1
  <2>4. \A i \in 1..Len(t) : i + 1 \in 1..Len(s)
    BY <1>1, <2>1
  <2>5. ASSUME NEW x \in ToSet(s), x # Head(s) PROVE x \in ToSet(t)
    <3>1. PICK i \in 1..Len(s) : x = s[i]
      BY <1>1 DEF ToSet
    <3>2. i - 1 \in DOMAIN t /\ x = t[i - 1]
      BY <2>1, <2>2, <2>3, <2>5, <3>1
    <3> QED BY <3>2 DEF ToSet
  <2>6. ASSUME NEW x \in ToSet(t) PROVE x \in ToSet(s)
    <3>1. PICK i \in 1..Len(t) : x = t[i]
      BY <2>2 DEF ToSet
    <3>2. i + 1 \in DOMAIN s /\ x = s[i + 1]
      BY <1>1, <2>1, <2>4, <3>1
    <3> QED BY <3>2 DEF ToSet
  <2>7. Head(s) \in S /\ Head(s) \in ToSet(s)
    BY <1>1, <2>1 DEF ToSet
  <2> QED BY <2>1, <2>5, <2>6, <2>7 DEF t
<1>5. ASSUME NEW x \in S PROVE Append(s, x) \in Seq(S) /\ ToSet(Append(s, x)) = ToSet(s) \cup {x}
  <2> DEFINE t == Append(s, x)
  <2>1. /\ t \in Seq(S) /\ Len(t) = Len(s) + 1 /\ t[Len(s) + 1] = x
        /\ \A i \in 1..Len(s) : t[i] = s[i]
    BY AppendProperties
  <2> HIDE DEF t
  <2>2. DOMAIN t = 1..(Len(s) + 1) /\ 1..(Len(s) + 1) = 1..Len(s) \cup {Len(s) + 1}
    BY <1>1, <2>1
  <2> QED BY <1>1, <2>1, <2>2 DEF ToSet, t
<1>6. Reverse(s) \in Seq(S) /\ ToSet(Reverse(s)) = ToSet(s)
  <2> DEFINE n == Len(s)
  <2>1. Reverse(s) = [i \in 1..n |-> s[(n - i) + 1]]
    BY DEF Reverse
  <2>2. \A i \in 1..n : (n - i) + 1 \in 1..n /\ (n - ((n - i) + 1)) + 1 = i
    BY <1>1
  <2>3. Reverse(s) \in Seq(S)
    BY <1>1, <2>1, <2>2
  <2>4. DOMAIN Reverse(s) = 1..n /\ \A i \in 1..n : Reverse(s)[i] = s[(n - i) + 1]
    BY <2>1
  <2> HIDE DEF n
  <2>5. \A i \in 1..n : s[i] = Reverse(s)[(n - i) + 1]
    BY <2>2, <2>4
  <2>6. DOMAIN s = 1..n
    BY <1>1 DEF n
  <2> QED BY <2>2, <2>3, <2>4, <2>5, <2>6 DEF ToSet
<1> QED BY <1>2, <1>3, <1>4, <1>5, <1>6

-----------------------------------------------------------------------------
(* The vmx file as it is written.                                          *)

\* There are five buses, one of them none.
LEMMA BusList ==
  DOMAIN Buses = 1..5 /\ NoBus \in ToSet(Buses)
<1>1. DOMAIN Buses = 1..5
  BY DEF Buses
<1>2. Buses[1] = NoBus
  BY DEF Buses, NoBus
<1> QED BY <1>1, <1>2 DEF ToSet

\* The keys have an order: one of two slots comes before the other.
LEMMA KeysAreOrdered ==
  ASSUME NEW e \in Entries, NEW f \in Entries, NEW g \in Entries
  PROVE  /\ ~Before(e, e)
         /\ Before(e, f) /\ Before(f, g) => Before(e, g)
         /\ e.slot # f.slot => Before(e, f) \/ Before(f, e)
<1>1. ASSUME NEW b \in ToSet(Buses) PROVE Position(b) \in 1..5 /\ Buses[Position(b)] = b
  <2>1. DOMAIN Buses = 1..5
    BY BusList
  <2>2. \E i \in DOMAIN Buses : Buses[i] = b
    BY DEF ToSet
  <2> QED BY <2>1, <2>2 DEF Position
<1>2. \A x \in Entries :
        /\ x.slot[1] \in ToSet(Buses) /\ x.slot[2] \in Nat /\ x.slot[3] \in Nat
        /\ x.slot = <<x.slot[1], x.slot[2], x.slot[3]>>
  BY DEF Entries, Slots
<1> DEFINE P(x) == Position(x.slot[1])
<1>3. \A x \in Entries : P(x) \in Nat
  BY <1>1, <1>2
<1>4. \A x, y \in Entries : P(x) = P(y) => x.slot[1] = y.slot[1]
  BY <1>1, <1>2
<1>5. \A x, y \in Entries : Before(x, y) <=>
        \/ P(x) < P(y)
        \/ /\ P(x) = P(y)
           /\ x.slot[2] < y.slot[2] \/ (x.slot[2] = y.slot[2] /\ x.slot[3] < y.slot[3])
  BY <1>4 DEF Before
<1> HIDE DEF P
<1>6. ~Before(e, e) /\ (Before(e, f) /\ Before(f, g) => Before(e, g))
  BY <1>2, <1>3, <1>5
<1>7. ASSUME ~Before(e, f), ~Before(f, e) PROVE e.slot = f.slot
  <2>1. P(e) = P(f) /\ e.slot[2] = f.slot[2] /\ e.slot[3] = f.slot[3]
    BY <1>2, <1>3, <1>5, <1>7
  <2> QED BY <1>2, <1>4, <2>1
<1> QED BY <1>6, <1>7

\* Sorted, every entry is still there, once.
LEMMA WrittenIsComplete ==
  ASSUME NEW E \in SUBSET Entries, IsFiniteSet(E), \A e, f \in E : e.slot = f.slot => e = f
  PROVE  /\ Written(E) \in Seq(Entries) /\ ToSet(Written(E)) = E
         /\ OneEntryPerSlot(Written(E))
<1> DEFINE n == Cardinality(E)
           Below(e) == {f \in E : Before(f, e)}
           rank == [e \in E |-> Cardinality(Below(e))]
           W == Written(E)
<1>1. n \in Nat
  BY FS_CardinalityType
<1>2. ASSUME NEW e \in E PROVE IsFiniteSet(Below(e)) /\ rank[e] \in 0..(n - 1)
  <2>1. Below(e) \in SUBSET (E \ {e})
    BY KeysAreOrdered
  <2>2. IsFiniteSet(E \ {e}) /\ Cardinality(E \ {e}) = n - 1
    BY FS_RemoveElement
  <2>3. IsFiniteSet(Below(e)) /\ Cardinality(Below(e)) <= n - 1
    BY <2>1, <2>2, FS_Subset
  <2>4. Cardinality(Below(e)) \in Nat
    BY <2>3, FS_CardinalityType
  <2> QED BY <1>1, <2>3, <2>4
<1>3. ASSUME NEW e \in E, NEW f \in E, Before(e, f) PROVE rank[e] # rank[f]
  <2>1. Below(e) \in SUBSET Below(f)
    BY <1>3, KeysAreOrdered
  <2>2. e \in Below(f) /\ e \notin Below(e)
    BY <1>3, KeysAreOrdered
  <2> QED BY <1>2, <2>1, <2>2, FS_Subset
<1>4. \A e, f \in E : rank[e] = rank[f] => e = f
  BY <1>3, KeysAreOrdered
<1>5. IsFiniteSet(0..(n - 1)) /\ Cardinality(0..(n - 1)) = n
  BY <1>1, FS_Interval
<1>6. rank \in Injection(E, 0..(n - 1))
  BY <1>2, <1>4 DEF Injection, IsInjective
<1>7. rank \in Surjection(E, 0..(n - 1))
  <2> HIDE DEF rank
  <2> QED BY <1>5, <1>6, FS_Injection
<1>8. \A i \in 1..n : W[i] \in E /\ rank[W[i]] = i - 1
  <2> TAKE i \in 1..n
  <2>1. i - 1 \in 0..(n - 1)
    BY <1>1
  <2>2. \E e \in E : rank[e] = i - 1
    <3> HIDE DEF rank
    <3> QED BY <1>7, <2>1 DEF Surjection
  <2>3. \E e \in E : Cardinality({f \in E : Before(f, e)}) = i - 1
    BY <2>2
  <2>4. W[i] = CHOOSE e \in E : Cardinality({f \in E : Before(f, e)}) = i - 1
    BY DEF Written
  <2>5. W[i] \in E /\ Cardinality({f \in E : Before(f, W[i])}) = i - 1
    BY <2>3, <2>4
  <2> QED BY <2>5
<1>9. DOMAIN W = 1..n /\ W = [i \in 1..n |-> W[i]]
  <2>1. W = [i \in 1..n |-> CHOOSE e \in E : Cardinality({f \in E : Before(f, e)}) = i - 1]
    BY DEF Written
  <2> HIDE DEF W, n, rank, Below
  <2>2. DOMAIN W = 1..n
    BY <2>1
  <2>3. \A i \in 1..n : W[i] = CHOOSE e \in E : Cardinality({f \in E : Before(f, e)}) = i - 1
    BY <2>1
  <2> QED BY <2>1, <2>2, <2>3
<1> HIDE DEF W, rank
<1>10. W \in Seq(Entries) /\ Len(W) = n
  BY <1>1, <1>8, <1>9
<1>11. ASSUME NEW e \in E PROVE e \in ToSet(W)
  <2>1. PICK i \in 1..n : i - 1 = rank[e]
    <3>1. rank[e] \in 0..(n - 1)
      BY <1>2
    <3>2. rank[e] + 1 \in 1..n /\ (rank[e] + 1) - 1 = rank[e]
      BY <1>1, <3>1
    <3> QED BY <3>2
  <2>2. W[i] = e
    BY <1>4, <1>8, <2>1
  <2> QED BY <1>9, <2>2 DEF ToSet
<1>12. ToSet(W) \subseteq E
  BY <1>8, <1>9 DEF ToSet
<1>13. OneEntryPerSlot(W)
  <2> SUFFICES ASSUME NEW i \in 1..n, NEW k \in 1..n, W[i].slot = W[k].slot PROVE i = k
    BY <1>9 DEF OneEntryPerSlot
  <2>1. W[i] = W[k]
    BY <1>8
  <2>2. i - 1 = k - 1
    BY <1>8, <2>1
  <2> QED BY <1>1, <2>2
<1> QED BY <1>10, <1>11, <1>12, <1>13 DEF W

-----------------------------------------------------------------------------
(* The vmx file as it is read.                                             *)

\* The reading of the entries is what its definition says.
LEMMA MatchingRecord ==
  ASSUME vmx \in Seq(Entries)
  PROVE  /\ Matching[0] = <<>>
         /\ \A i \in 1..Len(vmx) :
              Matching[i] = IF vmx[i].slot[1] = NoBus THEN Matching[i - 1] ELSE Append(Matching[i - 1], vmx[i])
<1> DEFINE n == Len(vmx)
           After(s, i) == IF vmx[i].slot[1] = NoBus THEN s ELSE Append(s, vmx[i])
           Upto(k, f) == f = [i \in 0..k |-> IF i = 0 THEN <<>> ELSE After(f[i - 1], i)]
           Good == {k \in Nat : k > n \/ \E f : Upto(k, f)}
<1>1. n \in Nat
  OBVIOUS
<1>2. 0 \in Good
  <2> DEFINE f == [i \in 0..0 |-> <<>>]
  <2>1. Upto(0, f)
    OBVIOUS
  <2> QED BY <2>1
<1> HIDE DEF After
<1>3. ASSUME NEW k \in 1..n, k - 1 \in Good PROVE k \in Good
  <2>1. PICK f : Upto(k - 1, f)
    BY <1>1, <1>3
  <2> DEFINE g == [i \in 0..k |-> IF i = k THEN After(f[k - 1], k) ELSE f[i]]
  <2>2. \A i \in 0..k : g[i] = IF i = 0 THEN <<>> ELSE After(g[i - 1], i)
    <3>1. k \in Nat /\ k > 0
      BY <1>1, <1>3
    <3>2. ASSUME NEW i \in 0..k, i # k
          PROVE  g[i] = IF i = 0 THEN <<>> ELSE After(g[i - 1], i)
      <4>1. i \in 0..(k - 1) /\ (i # 0 => i - 1 \in 0..(k - 1) /\ i - 1 # k /\ i - 1 \in 0..k)
        BY <3>1, <3>2
      <4>2. g[i] = f[i] /\ (i # 0 => g[i - 1] = f[i - 1])
        BY <3>2, <4>1
      <4> QED BY <2>1, <4>1, <4>2
    <3>3. g[k] = After(g[k - 1], k)
      BY <3>1
    <3> QED BY <3>1, <3>2, <3>3
  <2>3. Upto(k, g)
    <3>1. g = [i \in 0..k |-> g[i]]
      OBVIOUS
    <3> HIDE DEF g
    <3> QED BY <2>2, <3>1
  <2>4. k \in Nat
    BY <1>1, <1>3
  <2> HIDE DEF g, Upto
  <2> QED BY <2>3, <2>4
<1>4. 0..n \subseteq Good
  <2>1. Good \in SUBSET Nat
    OBVIOUS
  <2> HIDE DEF Good, n
  <2> QED BY <1>1, <1>2, <1>3, <2>1, UpTo
<1>5. \E f : Upto(n, f)
  <2>1. n \in Good /\ ~(n > n)
    BY <1>1, <1>4
  <2> QED BY <2>1
<1>6. Matching = CHOOSE f : Upto(n, f)
  BY DEF Matching, After
<1>7. Upto(n, Matching)
  <2> HIDE DEF Upto
  <2> QED BY <1>5, <1>6
<1>8. Matching[0] = <<>> /\ \A i \in 1..n : Matching[i] = After(Matching[i - 1], i)
  <2>1. 0 \in 0..n /\ \A i \in 1..n : i \in 0..n /\ i # 0
    BY <1>1
  <2> QED BY <1>7, <2>1
<1> QED BY <1>8 DEF After

\* What is read are the entries with a bus.
LEMMA DisksRead ==
  ASSUME vmx \in Seq(Entries)
  PROVE  GetDisks \in Seq(Entries) /\ ToSet(GetDisks) = {e \in ToSet(vmx) : e.slot[1] # NoBus}
<1> DEFINE n == Len(vmx)
           Read(k) == /\ Matching[k] \in Seq(Entries)
                      /\ ToSet(Matching[k]) = {vmx[i] : i \in {j \in 1..k : vmx[j].slot[1] # NoBus}}
           Good == {k \in Nat : k > n \/ Read(k)}
<1>1. n \in Nat /\ DOMAIN vmx = 1..n
  OBVIOUS
<1>2. Read(0)
  <2>1. <<>> \in Seq(Entries) /\ ToSet(<<>>) = {}
    BY DEF ToSet
  <2>2. Matching[0] = <<>>
    BY MatchingRecord
  <2>3. {j \in 1..0 : vmx[j].slot[1] # NoBus} = {}
    OBVIOUS
  <2> QED BY <2>1, <2>2, <2>3
<1>3. ASSUME NEW i \in 1..n, i - 1 \in Good PROVE i \in Good
  <2>1. i \in Nat /\ i - 1 \in Nat /\ ~(i - 1 > n) /\ 1..i = 1..(i - 1) \cup {i} /\ vmx[i] \in Entries
    BY <1>1
  <2>2. Read(i - 1)
    BY <1>3, <2>1
  <2>3. CASE vmx[i].slot[1] = NoBus
    <3>1. Matching[i] = Matching[i - 1]
      BY <2>3, MatchingRecord
    <3>2. {j \in 1..i : vmx[j].slot[1] # NoBus} = {j \in 1..(i - 1) : vmx[j].slot[1] # NoBus}
      BY <2>1, <2>3
    <3> QED BY <2>1, <2>2, <3>1, <3>2
  <2>4. CASE vmx[i].slot[1] # NoBus
    <3>1. Matching[i] = Append(Matching[i - 1], vmx[i])
      BY <2>4, MatchingRecord
    <3>2. {j \in 1..i : vmx[j].slot[1] # NoBus} = {j \in 1..(i - 1) : vmx[j].slot[1] # NoBus} \cup {i}
      BY <2>1, <2>4
    <3>3. Matching[i] \in Seq(Entries) /\ ToSet(Matching[i]) = ToSet(Matching[i - 1]) \cup {vmx[i]}
      <4>1. Matching[i - 1] \in Seq(Entries)
        BY <2>2
      <4>2. \A s \in Seq(Entries), x \in Entries :
              Append(s, x) \in Seq(Entries) /\ ToSet(Append(s, x)) = ToSet(s) \cup {x}
        BY ListSets
      <4>3. vmx[i] \in Entries
        BY <2>1
      <4> HIDE DEF Read, Good, n
      <4> QED BY <3>1, <4>1, <4>2, <4>3
    <3>4. Read(i)
      BY <2>2, <3>2, <3>3
    <3> QED BY <2>1, <3>4
  <2> QED BY <2>3, <2>4
<1>4. 0..n \subseteq Good
  <2>1. 0 \in Good
    BY <1>2
  <2>2. Good \in SUBSET Nat
    OBVIOUS
  <2> HIDE DEF Good, n
  <2> QED BY <1>1, <1>3, <2>1, <2>2, UpTo
<1>5. Read(n)
  <2> HIDE DEF Read
  <2>1. n \in 0..n /\ ~(n > n)
    BY <1>1
  <2> QED BY <1>4, <2>1
<1> QED BY <1>1, <1>5 DEF GetDisks, ToSet

-----------------------------------------------------------------------------
(* A new slot.                                                             *)

\* The highest slot once an entry was looked at.
Higher(bus, e, h) ==
  LET unit == IF e.slot[2] > h[1] THEN 0 ELSE h[2]
  IN IF ~OnBus(bus, e) THEN h
     ELSE <<IF e.slot[2] > h[1] THEN e.slot[2] ELSE h[1],
            IF e.slot[3] > unit THEN e.slot[3] ELSE unit>>

\* The loop of get_slot is what its definition says.
LEMMA HighestRecord ==
  ASSUME up.attached \in Seq(Entries), NEW bus
  PROVE  \E H : /\ Highest(bus) = H[Len(up.attached)] /\ H[0] = <<0, 0>>
                /\ \A i \in 1..Len(up.attached) : H[i] = Higher(bus, up.attached[i], H[i - 1])
<1> DEFINE n == Len(up.attached)
           After(h, i) == Higher(bus, up.attached[i], h)
           Upto(k, f) == f = [i \in 0..k |-> IF i = 0 THEN <<0, 0>> ELSE After(f[i - 1], i)]
           Good == {k \in Nat : k > n \/ \E f : Upto(k, f)}
           H == CHOOSE f : Upto(n, f)
<1>1. n \in Nat
  OBVIOUS
<1>2. 0 \in Good
  <2> DEFINE f == [i \in 0..0 |-> <<0, 0>>]
  <2>1. Upto(0, f)
    OBVIOUS
  <2> QED BY <2>1
<1>3. Highest(bus) = H[n]
  BY DEF Highest, Higher
<1> HIDE DEF After
<1>4. ASSUME NEW k \in 1..n, k - 1 \in Good PROVE k \in Good
  <2>1. PICK f : Upto(k - 1, f)
    BY <1>1, <1>4
  <2> DEFINE g == [i \in 0..k |-> IF i = k THEN After(f[k - 1], k) ELSE f[i]]
  <2>2. \A i \in 0..k : g[i] = IF i = 0 THEN <<0, 0>> ELSE After(g[i - 1], i)
    <3>1. k \in Nat /\ k > 0
      BY <1>1, <1>4
    <3>2. ASSUME NEW i \in 0..k, i # k
          PROVE  g[i] = IF i = 0 THEN <<0, 0>> ELSE After(g[i - 1], i)
      <4>1. i \in 0..(k - 1) /\ (i # 0 => i - 1 \in 0..(k - 1) /\ i - 1 # k /\ i - 1 \in 0..k)
        BY <3>1, <3>2
      <4>2. g[i] = f[i] /\ (i # 0 => g[i - 1] = f[i - 1])
        BY <3>2, <4>1
      <4> QED BY <2>1, <4>1, <4>2
    <3>3. g[k] = After(g[k - 1], k)
      BY <3>1
    <3> QED BY <3>1, <3>2, <3>3
  <2>3. Upto(k, g)
    <3>1. g = [i \in 0..k |-> g[i]]
      OBVIOUS
    <3> HIDE DEF g
    <3> QED BY <2>2, <3>1
  <2>4. k \in Nat
    BY <1>1, <1>4
  <2> HIDE DEF g, Upto
  <2> QED BY <2>3, <2>4
<1>5. 0..n \subseteq Good
  <2>1. Good \in SUBSET Nat
    OBVIOUS
  <2> HIDE DEF Good, n
  <2> QED BY <1>1, <1>2, <1>4, <2>1, UpTo
<1>6. \E f : Upto(n, f)
  <2>1. n \in Good /\ ~(n > n)
    BY <1>1, <1>5
  <2> QED BY <2>1
<1>7. Upto(n, H)
  <2> HIDE DEF Upto
  <2> QED BY <1>6
<1> HIDE DEF H
<1>8. H[0] = <<0, 0>> /\ \A i \in 1..n : H[i] = After(H[i - 1], i)
  <2>1. 0 \in 0..n /\ \A i \in 1..n : i \in 0..n /\ i # 0
    BY <1>1
  <2> QED BY <1>7, <2>1
<1> QED BY <1>3, <1>8 DEF After

\* A slot is not above another one of its bus.
NotAbove(e, h) == e.slot[2] < h[1] \/ (e.slot[2] = h[1] /\ e.slot[3] <= h[2])

\* No entry of the bus is above the highest slot.
LEMMA HighestIsHighest ==
  ASSUME up.attached \in Seq(Entries), IdeHasTwo(up.attached), NEW bus
  PROVE  /\ Highest(bus) \in Nat \X Nat
         /\ \A e \in ToSet(up.attached) : OnBus(bus, e) => NotAbove(e, Highest(bus))
         /\ bus = "ide" => Highest(bus)[2] \in {0, 1}
<1> DEFINE n == Len(up.attached)
           a(i) == up.attached[i]
<1>1. n \in Nat /\ DOMAIN up.attached = 1..n /\ \A i \in 1..n : a(i) \in Entries /\ a(i) \in ToSet(up.attached)
  BY DEF ToSet
<1>2. PICK H : /\ Highest(bus) = H[n] /\ H[0] = <<0, 0>>
               /\ \A i \in 1..n : H[i] = Higher(bus, a(i), H[i - 1])
  BY HighestRecord
<1> DEFINE Above(k) == /\ H[k] \in Nat \X Nat
                       /\ \A j \in 1..k : OnBus(bus, a(j)) => NotAbove(a(j), H[k])
                       /\ bus = "ide" => H[k][2] \in {0, 1}
           Good == {k \in Nat : k > n \/ Above(k)}
<1>3. Above(0)
  <2>1. \A j \in 1..0 : FALSE
    OBVIOUS
  <2> QED BY <1>2, <2>1
<1>4. ASSUME NEW i \in 1..n, i - 1 \in Good PROVE i \in Good
  <2> DEFINE e == a(i)
             h == H[i - 1]
             unit == IF e.slot[2] > h[1] THEN 0 ELSE h[2]
             top == H[i]
  <2>1. i \in Nat /\ i - 1 \in Nat /\ ~(i - 1 > n) /\ 1..i = 1..(i - 1) \cup {i}
    BY <1>1
  <2>2. Above(i - 1)
    BY <1>4, <2>1
  <2>3. top = Higher(bus, e, h)
    BY <1>2
  <2>4. \A j \in 1..i : a(j).slot[2] \in Nat /\ a(j).slot[3] \in Nat
    <3> TAKE j \in 1..i
    <3>1. a(j) \in Entries
      BY <1>1, <2>1
    <3> QED BY <3>1 DEF Entries, Slots
  <2>5. e.slot[2] \in Nat /\ e.slot[3] \in Nat /\ (bus = "ide" /\ OnBus(bus, e) => e.slot[3] \in {0, 1})
    <3>1. i \in 1..i
      BY <2>1
    <3>2. bus = "ide" /\ OnBus(bus, e) => e.slot[1] = "ide"
      BY DEF OnBus, NoBus
    <3> QED BY <1>1, <2>4, <3>1, <3>2 DEF IdeHasTwo
  <2>6. h \in Nat \X Nat /\ h[1] \in Nat /\ h[2] \in Nat /\ (bus = "ide" => h[2] \in {0, 1})
    BY <2>2
  <2>7. CASE ~OnBus(bus, e)
    <3>1. top = h
      BY <2>3, <2>7 DEF Higher
    <3>2. Above(i)
      BY <2>1, <2>2, <2>7, <3>1
    <3> QED BY <2>1, <3>2
  <2>8. CASE OnBus(bus, e)
    <3> HIDE DEF e, h, top
    <3>1. top = <<IF e.slot[2] > h[1] THEN e.slot[2] ELSE h[1], IF e.slot[3] > unit THEN e.slot[3] ELSE unit>>
      BY <2>3, <2>8 DEF Higher
    <3>2. /\ top \in Nat \X Nat /\ top[1] \in Nat /\ top[2] \in Nat
          /\ top[1] = IF e.slot[2] > h[1] THEN e.slot[2] ELSE h[1]
          /\ top[2] = IF e.slot[3] > unit THEN e.slot[3] ELSE unit
          /\ bus = "ide" => top[2] \in {0, 1}
      BY <2>5, <2>6, <2>8, <3>1
    <3>3. NotAbove(e, top)
      BY <2>5, <2>6, <3>2 DEF NotAbove
    <3>4. ASSUME NEW x, x.slot[2] \in Nat, x.slot[3] \in Nat, NotAbove(x, h) PROVE NotAbove(x, top)
      <4>1. h[1] < top[1] \/ (h[1] = top[1] /\ h[2] <= top[2])
        BY <2>5, <2>6, <3>2
      <4> QED BY <2>6, <3>2, <3>4, <4>1 DEF NotAbove
    <3>5. \A j \in 1..i : OnBus(bus, a(j)) => NotAbove(a(j), top)
      <4> TAKE j \in 1..i
      <4>1. CASE j = i
        BY <3>3, <4>1 DEF e
      <4>2. CASE j # i
        <5>1. j \in 1..(i - 1)
          BY <2>1, <4>2
        <5> QED BY <2>2, <2>4, <3>4, <5>1 DEF h
      <4> QED BY <4>1, <4>2
    <3>6. Above(i)
      BY <3>2, <3>5 DEF top
    <3> QED BY <2>1, <3>6
  <2> QED BY <2>7, <2>8
<1>5. 0..n \subseteq Good
  <2>1. 0 \in Good
    BY <1>3
  <2>2. Good \in SUBSET Nat
    OBVIOUS
  <2> HIDE DEF Good, n
  <2> QED BY <1>1, <1>4, <2>1, <2>2, UpTo
<1>6. Above(n)
  <2> HIDE DEF Above
  <2>1. n \in 0..n /\ ~(n > n)
    BY <1>1
  <2> QED BY <1>5, <2>1
<1> QED BY <1>1, <1>2, <1>6 DEF ToSet

\* The slot for a new disk is in use by none of those attached.
LEMMA SlotIsFree ==
  ASSUME up.attached \in Seq(Entries), IdeHasTwo(up.attached), NEW bus \in ToSet(Buses)
  PROVE  /\ GetSlot(bus) \in Slots /\ GetSlot(bus)[1] = bus
         /\ bus = "ide" => GetSlot(bus)[3] \in {0, 1}
         /\ bus # NoBus => \A e \in ToSet(up.attached) : e.slot # GetSlot(bus)
<1> DEFINE h == Highest(bus)
           s == GetSlot(bus)
<1>1. /\ h[1] \in Nat /\ h[2] \in Nat /\ (bus = "ide" => h[2] \in {0, 1})
      /\ \A e \in ToSet(up.attached) : OnBus(bus, e) => NotAbove(e, h)
  BY HighestIsHighest
<1>2. s = IF bus = "ide" THEN <<bus, h[1] + (h[2] % 2), (h[2] + 1) % 2>> ELSE <<bus, h[1], h[2] + 1>>
  BY DEF GetSlot
<1> HIDE DEF h, s
<1>3. \A e \in ToSet(up.attached) : e.slot[2] \in Nat /\ e.slot[3] \in Nat
  <2>1. ToSet(up.attached) \subseteq Entries
    BY ListSets
  <2> QED BY <2>1 DEF Entries, Slots
<1>4. CASE bus = "ide"
  <2>1. \/ h[2] = 0 /\ h[2] % 2 = 0 /\ (h[2] + 1) % 2 = 1
        \/ h[2] = 1 /\ h[2] % 2 = 1 /\ (h[2] + 1) % 2 = 0
    BY <1>1, <1>4
  <2>2. (s = <<bus, h[1], 1>> /\ h[2] = 0) \/ (s = <<bus, h[1] + 1, 0>> /\ h[2] = 1)
    <3> DEFINE x == h[1] + (h[2] % 2)
               y == (h[2] + 1) % 2
    <3>1. s = <<bus, x, y>>
      BY <1>2, <1>4
    <3>2. (h[2] = 0 /\ x = h[1] /\ y = 1) \/ (h[2] = 1 /\ x = h[1] + 1 /\ y = 0)
      BY <1>1, <2>1
    <3> HIDE DEF x, y
    <3> QED BY <3>1, <3>2
  <2>3. s \in Slots /\ s[1] = bus /\ s[3] \in {0, 1}
    BY <1>1, <2>2 DEF Slots
  <2>4. ASSUME NEW e \in ToSet(up.attached), e.slot = s PROVE FALSE
    <3>1. OnBus(bus, e)
      BY <2>3, <2>4 DEF OnBus
    <3> QED BY <1>1, <1>3, <2>2, <2>4, <3>1 DEF NotAbove
  <2> QED BY <2>3, <2>4 DEF s
<1>5. CASE bus # "ide"
  <2>1. s = <<bus, h[1], h[2] + 1>>
    BY <1>2, <1>5
  <2>2. s \in Slots /\ s[1] = bus
    BY <1>1, <2>1 DEF Slots
  <2>3. ASSUME NEW e \in ToSet(up.attached), e.slot = s PROVE FALSE
    <3>1. OnBus(bus, e)
      BY <2>2, <2>3 DEF OnBus
    <3> QED BY <1>1, <1>3, <2>1, <2>3, <3>1 DEF NotAbove
  <2> QED BY <1>5, <2>2, <2>3 DEF s
<1> QED BY <1>4, <1>5

-----------------------------------------------------------------------------
(* The invariant.                                                          *)

VmxInv == vmx \in Seq(Entries) /\ OneEntryPerSlot(vmx) /\ IdeHasTwo(vmx)

UpInv ==
  /\ defined \in Seq(Config)
  /\ up = [at |-> up.at, todo |-> up.todo, attached |-> up.attached, made |-> up.made]

\* Disk d has an entry on a bus, with a file behind it.
Provided(d) ==
  d.type = "disk" /\ ~d.given =>
    \E e \in ToSet(vmx) :
      /\ e.slot[1] # NoBus /\ e.file \in DOMAIN files
      /\ IF d.primary THEN e.slot \in ToSet(PrimarySlots) ELSE e.file = d.name \/ Front(e.file) = d.name

Configuring == up.at \in {"configure", "attach"}

\* The list of the run has every slot on a bus; what is in it is in the vmx
\* file, but for disks given by their file.
ListInv ==
  Configuring =>
    /\ up.attached \in Seq(Entries) /\ IdeHasTwo(up.attached)
    /\ \A e \in ToSet(vmx) : e.slot[1] # NoBus => \E a \in ToSet(up.attached) : a.slot = e.slot
    /\ \A a \in ToSet(up.attached) : IF a.slot[1] = NoBus THEN a.file = NoFile ELSE a \in ToSet(vmx)

\* A disk is still to come or provided; one that was created has a file.
WorkInv ==
  /\ Configuring =>
       up.todo \in Seq(Config) /\ \A d \in ToSet(defined) : d \in ToSet(up.todo) \/ Provided(d)
  /\ up.at = "attach" =>
       /\ up.todo # <<>> /\ This.type = "disk" /\ ~This.given /\ ~This.primary
       /\ This.name \in DOMAIN files

IInv == VmxInv /\ UpInv /\ ListInv /\ WorkInv

\* A new entry replaces what its slot held, and nothing else.
LEMMA AddKeeps ==
  ASSUME VmxInv, NEW slot \in Slots, slot[1] = "ide" => slot[3] \in {0, 1}, NEW file \in Seq(STRING),
         AddDiskToVmx(file, slot)
  PROVE  VmxInv' /\ ToSet(vmx') = {e \in ToSet(vmx) : e.slot # slot} \cup {Entry(slot, file)}
<1> DEFINE new == Entry(slot, file)
           rest == {e \in ToSet(vmx) : e.slot # slot}
           E == rest \cup {new}
<1>1. new \in Entries /\ new.slot = slot
  BY DEF Entry, Entries
<1>2. ToSet(vmx) \subseteq Entries /\ IsFiniteSet(ToSet(vmx))
  BY ListSets DEF VmxInv
<1>3. rest \in SUBSET ToSet(vmx) /\ IsFiniteSet(rest)
  BY <1>2, FS_Subset
<1>4. E \in SUBSET Entries /\ IsFiniteSet(E)
  <2> HIDE DEF rest, new
  <2> QED BY <1>1, <1>2, <1>3, FS_AddElement
<1>5. \A e, f \in ToSet(vmx) : e.slot = f.slot => e = f
  BY DEF VmxInv, OneEntryPerSlot, ToSet
<1>6. \A e, f \in E : e.slot = f.slot => e = f
  BY <1>1, <1>5
<1>7. vmx' = Written(E)
  BY DEF AddDiskToVmx
<1> HIDE DEF E
<1>8. vmx' \in Seq(Entries) /\ ToSet(vmx') = E /\ OneEntryPerSlot(vmx')
  BY <1>4, <1>6, <1>7, WrittenIsComplete
<1>9. IdeHasTwo(vmx')
  BY <1>1, <1>8 DEF IdeHasTwo, VmxInv, E
<1> QED BY <1>8, <1>9 DEF VmxInv, E, OneEntryPerSlot, IdeHasTwo, ToSet

\* The clean-up takes one entry from the vmx file, and changes none of the others.
LEMMA RemoveKeeps ==
  ASSUME VmxInv, NEW file, RemoveDiskFromVmx(file)
  PROVE  VmxInv' /\ ToSet(vmx') \subseteq ToSet(vmx)
<1> DEFINE places == {k \in DOMAIN vmx : vmx[k].file = file}
           i == First(places)
           E == ToSet(vmx) \ {vmx[i]}
<1>1. vmx' = IF i = 0 THEN vmx ELSE Written(E)
  BY DEF RemoveDiskFromVmx
<1>2. ToSet(vmx) \subseteq Entries /\ IsFiniteSet(ToSet(vmx))
  BY ListSets DEF VmxInv
<1>3. E \in SUBSET Entries /\ IsFiniteSet(E) /\ E \subseteq ToSet(vmx)
  BY <1>2, FS_Subset
<1>4. \A e, f \in E : e.slot = f.slot => e = f
  BY DEF VmxInv, OneEntryPerSlot, ToSet
<1> HIDE DEF E, i
<1>5. CASE i = 0
  BY <1>1, <1>5 DEF VmxInv, OneEntryPerSlot, IdeHasTwo, ToSet
<1>6. CASE i # 0
  <2>1. vmx' \in Seq(Entries) /\ ToSet(vmx') = E /\ OneEntryPerSlot(vmx')
    BY <1>1, <1>3, <1>4, <1>6, WrittenIsComplete
  <2>2. IdeHasTwo(vmx')
    BY <1>3, <2>1 DEF IdeHasTwo, VmxInv
  <2> QED BY <1>3, <2>1, <2>2 DEF VmxInv
<1> QED BY <1>5, <1>6

\* Entries on a bus and files that stay provide what they did.
LEMMA ProvidedStays ==
  ASSUME \A e \in ToSet(vmx) : e.slot[1] # NoBus => e \in ToSet(vmx'),
         DOMAIN files \subseteq DOMAIN files', NEW d, Provided(d)
  PROVE  Provided(d)'
BY DEF Provided, ToSet

\* A new disk, in the vmx file and in the list of the run.
LEMMA AttachKeeps ==
  ASSUME IInv, Configuring, up.todo # <<>>, NEW bus \in ToSet(Buses), NEW kept,
         IF bus = NoBus THEN kept = NoFile ELSE kept = This.name,
         Attached(This, This.name, kept, GetSlot(bus)), UNCHANGED <<files, defined>>,
         This.type = "disk" /\ ~This.given => ~This.primary /\ bus # NoBus /\ This.name \in DOMAIN files
  PROVE  IInv' /\ \A e \in ToSet(vmx) : e.slot[1] # NoBus => e \in ToSet(vmx')
<1> DEFINE slot == GetSlot(bus)
           file == This.name
<1>1. /\ VmxInv /\ UpInv /\ ListInv /\ WorkInv
      /\ up.attached \in Seq(Entries) /\ IdeHasTwo(up.attached) /\ up.todo \in Seq(Config)
  BY DEF IInv, ListInv, WorkInv
<1>2. /\ slot \in Slots /\ slot[1] = bus /\ (bus = "ide" => slot[3] \in {0, 1})
      /\ bus # NoBus => \A e \in ToSet(up.attached) : e.slot # slot
  BY <1>1, SlotIsFree
<1>3. This \in Config /\ file \in Seq(STRING) /\ kept \in Seq(STRING)
  <2>1. This \in Config
    BY <1>1, ListSets DEF This
  <2>2. file \in Seq(STRING) /\ NoFile \in Seq(STRING)
    BY <2>1 DEF Config, NoFile
  <2> QED BY <2>1, <2>2
<1> DEFINE new == Entry(slot, file)
           listed == Entry(slot, kept)
<1>4. /\ new \in Entries /\ new.slot = slot /\ new.file = file
      /\ listed \in Entries /\ listed.slot = slot /\ listed.file = kept
  BY <1>2, <1>3 DEF Entry, Entries
<1>5. AddDiskToVmx(file, slot) /\ up' = [Reported(This, file) EXCEPT !.attached = Append(@, listed)]
  BY DEF Attached
<1> HIDE DEF slot, file
<1>6. VmxInv' /\ ToSet(vmx') = {e \in ToSet(vmx) : e.slot # slot} \cup {new}
  BY <1>1, <1>2, <1>3, <1>5, AddKeeps
<1> HIDE DEF new, listed
<1>7. /\ up'.at = "configure" /\ up'.todo = Tail(up.todo) /\ up'.attached = Append(up.attached, listed)
      /\ up' = [at |-> up'.at, todo |-> up'.todo, attached |-> up'.attached, made |-> up'.made]
  BY <1>1, <1>5 DEF Reported, NextOne, UpInv
<1>8. /\ up'.attached \in Seq(Entries) /\ ToSet(up'.attached) = ToSet(up.attached) \cup {listed}
  BY <1>1, <1>4, <1>7, ListSets
<1>9. up'.todo \in Seq(Config) /\ \A d \in ToSet(up.todo) : d = This \/ d \in ToSet(up'.todo)
  BY <1>1, <1>7, ListSets DEF This
\* Nothing on a bus is replaced.
<1>10. ASSUME NEW e \in ToSet(vmx), e.slot[1] # NoBus PROVE e \in ToSet(vmx')
  <2>1. PICK a \in ToSet(up.attached) : a.slot = e.slot
    BY <1>1, <1>10 DEF ListInv
  <2>2. e.slot # slot
    BY <1>2, <1>10, <2>1
  <2> QED BY <1>6, <2>2
<1>11. IdeHasTwo(up'.attached)
  BY <1>1, <1>2, <1>4, <1>8 DEF IdeHasTwo
<1>12. ASSUME NEW e \in ToSet(vmx'), e.slot[1] # NoBus PROVE \E a \in ToSet(up'.attached) : a.slot = e.slot
  <2>1. CASE e = new
    BY <1>4, <1>8, <2>1
  <2>2. CASE e # new
    BY <1>1, <1>6, <1>8, <1>12, <2>2 DEF ListInv
  <2> QED BY <2>1, <2>2
<1>13. ASSUME NEW a \in ToSet(up'.attached)
       PROVE  IF a.slot[1] = NoBus THEN a.file = NoFile ELSE a \in ToSet(vmx')
  <2>1. CASE a = listed
    <3>1. bus # NoBus => listed = new
      BY DEF listed, new, file
    <3> QED BY <1>2, <1>4, <1>6, <2>1, <3>1
  <2>2. CASE a # listed
    <3>1. a \in ToSet(up.attached)
      BY <1>8, <2>2
    <3> QED BY <1>1, <1>10, <3>1 DEF ListInv
  <2> QED BY <2>1, <2>2
<1>14. ListInv'
  BY <1>8, <1>11, <1>12, <1>13 DEF ListInv, IdeHasTwo, ToSet
<1>15. ASSUME NEW d \in ToSet(defined), d \notin ToSet(up'.todo) PROVE Provided(d)'
  <2>1. CASE d \in ToSet(up.todo)
    <3>1. d = This
      BY <1>9, <1>15, <2>1
    <3>2. d.type = "disk" /\ ~d.given =>
            /\ ~d.primary /\ new \in ToSet(vmx') /\ new.slot[1] # NoBus /\ new.file \in DOMAIN files'
            /\ new.file = d.name
      BY <1>2, <1>4, <1>6, <3>1 DEF file
    <3> QED BY <3>2 DEF Provided, ToSet
  <2>2. CASE d \notin ToSet(up.todo)
    <3>1. Provided(d)
      BY <1>1, <2>2 DEF WorkInv
    <3> QED BY <1>10, <3>1, ProvidedStays
  <2> QED BY <2>1, <2>2
<1>16. WorkInv'
  BY <1>7, <1>9, <1>15 DEF WorkInv, Configuring, ToSet
<1>17. UpInv'
  BY <1>1, <1>7 DEF UpInv
<1> QED BY <1>6, <1>10, <1>14, <1>16, <1>17 DEF IInv

-----------------------------------------------------------------------------
(* The steps.                                                              *)

\* VMware writes the entries in another order: they are the same entries.
LEMMA RewriteKeeps ==
  ASSUME VmxInv, vmx' = Reverse(vmx)
  PROVE  VmxInv'
<1> DEFINE n == Len(vmx)
<1>1. vmx' \in Seq(Entries) /\ ToSet(vmx') = ToSet(vmx)
  BY ListSets DEF VmxInv
<1>2. /\ n \in Nat /\ DOMAIN vmx = 1..n /\ DOMAIN vmx' = 1..n
      /\ \A i \in 1..n : (n - i) + 1 \in 1..n /\ vmx'[i] = vmx[(n - i) + 1]
  BY DEF Reverse, VmxInv
<1>3. ASSUME NEW i \in 1..n, NEW k \in 1..n, vmx'[i].slot = vmx'[k].slot PROVE i = k
  <2>1. (n - i) + 1 = (n - k) + 1
    BY <1>2, <1>3 DEF VmxInv, OneEntryPerSlot
  <2> QED BY <1>2, <2>1
<1>4. OneEntryPerSlot(vmx')
  BY <1>2, <1>3 DEF OneEntryPerSlot
<1>5. IdeHasTwo(vmx')
  BY <1>1 DEF IdeHasTwo, VmxInv
<1> QED BY <1>1, <1>4, <1>5 DEF VmxInv

\* A snapshot gives every disk a delta, in the slot that it had.
LEMMA SnapshotKeeps ==
  ASSUME VmxInv, Snapshot
  PROVE  VmxInv'
<1> DEFINE Child(file) == IF file \in DOMAIN files THEN Append(file, Delta) ELSE file
           new(i) == [vmx[i] EXCEPT !.file = Child(@)]
<1>1. vmx' = [i \in DOMAIN vmx |-> new(i)]
  BY DEF Snapshot
<1>2. \A i \in DOMAIN vmx : new(i) \in Entries /\ new(i).slot = vmx[i].slot
  <2> TAKE i \in DOMAIN vmx
  <2>1. vmx[i] \in Entries /\ vmx[i].file \in Seq(STRING)
    <3>1. vmx[i] \in Entries
      BY DEF VmxInv
    <3> QED BY <3>1 DEF Entries
  <2> DEFINE f == Child(vmx[i].file)
  <2>2. f \in Seq(STRING)
    BY <2>1, DisksAssumption, AppendProperties
  <2>3. new(i) = [vmx[i] EXCEPT !.file = f]
    BY <2>1 DEF Entries
  <2> HIDE DEF f, new
  <2> QED BY <2>1, <2>2, <2>3 DEF Entries
<1> HIDE DEF new
<1>3. /\ Len(vmx) \in Nat /\ DOMAIN vmx = 1..Len(vmx) /\ DOMAIN vmx' = DOMAIN vmx
      /\ \A i \in DOMAIN vmx : vmx'[i] = new(i)
  BY <1>1 DEF VmxInv
<1>4. vmx' \in Seq(Entries)
  <2>1. vmx' \in [1..Len(vmx) -> Entries]
    BY <1>1, <1>2, <1>3
  <2> QED BY <1>3, <2>1
<1>5. OneEntryPerSlot(vmx')
  BY <1>2, <1>3 DEF OneEntryPerSlot, VmxInv
<1>6. IdeHasTwo(vmx')
  BY <1>2, <1>3 DEF IdeHasTwo, VmxInv, ToSet
<1> QED BY <1>4, <1>5, <1>6 DEF VmxInv

\* A step that does not lead to the configuration.
LEMMA OtherKeeps ==
  ASSUME IInv, BeginUp \/ Rewrite \/ Snapshot \/ CleanUp \/ RemoveFile \/ RemoveEntry \/ EndUp \/ EndEarly
  PROVE  IInv'
<1>1. VmxInv /\ UpInv
  BY DEF IInv
<1> DEFINE Away == up'.at \in {"idle", "cleanup", "remove", "unlist"}
           Up == up' = [at |-> up'.at, todo |-> up'.todo, attached |-> up'.attached, made |-> up'.made]
<1>2. Away /\ Up => ListInv' /\ WorkInv'
  BY DEF ListInv, WorkInv, Configuring
<1>3. CASE BeginUp
  <2>1. defined' \in Seq(Config) /\ VmxInv'
    BY <1>1, <1>3, DisksAssumption DEF BeginUp, VmxInv, OneEntryPerSlot, IdeHasTwo, ToSet
  <2>2. Away /\ Up
    BY <1>3 DEF BeginUp, NoUp
  <2> QED BY <1>2, <2>1, <2>2 DEF IInv, UpInv
<1>4. CASE Rewrite \/ Snapshot
  <2>1. VmxInv'
    BY <1>1, <1>4, RewriteKeeps, SnapshotKeeps DEF Rewrite
  <2>2. UpInv' /\ Away /\ Up
    BY <1>1, <1>4 DEF Rewrite, Snapshot, UpInv, At
  <2> QED BY <1>2, <2>1, <2>2 DEF IInv
<1>5. CASE CleanUp \/ RemoveFile
  <2>1. VmxInv'
    BY <1>1, <1>5 DEF CleanUp, RemoveFile, VmxInv, OneEntryPerSlot, IdeHasTwo, ToSet
  <2>2. defined' = defined /\ Away /\ Up
    BY <1>1, <1>5 DEF CleanUp, RemoveFile, UpInv, NextOne
  <2> QED BY <1>1, <1>2, <2>1, <2>2 DEF IInv, UpInv
<1>6. CASE RemoveEntry
  <2>1. VmxInv'
    BY <1>1, <1>6, RemoveKeeps DEF RemoveEntry
  <2>2. defined' = defined /\ Away /\ Up
    BY <1>1, <1>6 DEF RemoveEntry, UpInv, NextOne
  <2> QED BY <1>1, <1>2, <2>1, <2>2 DEF IInv, UpInv
<1>7. CASE EndUp \/ EndEarly
  <2>1. VmxInv'
    BY <1>1, <1>7 DEF EndUp, EndEarly, VmxInv, OneEntryPerSlot, IdeHasTwo, ToSet
  <2>2. defined' = defined /\ Away /\ Up
    <3>1. up' = NoUp /\ defined' = defined
      BY <1>7 DEF EndUp, EndEarly
    <3>2. /\ NoUp.at = "idle"
          /\ NoUp = [at |-> NoUp.at, todo |-> NoUp.todo, attached |-> NoUp.attached, made |-> NoUp.made]
      BY DEF NoUp
    <3> QED BY <3>1, <3>2
  <2> QED BY <1>1, <1>2, <2>1, <2>2 DEF IInv, UpInv
<1> QED BY <1>3, <1>4, <1>5, <1>6, <1>7

\* The list that configure_disks reads has the entries of the vmx file that are on a bus.
LEMMA BeginConfigureKeeps ==
  ASSUME IInv, BeginConfigure
  PROVE  IInv'
<1>1. VmxInv /\ UpInv
  BY DEF IInv
<1>2. /\ UNCHANGED <<vmx, files, defined>>
      /\ up'.at = "configure" /\ up'.todo = defined /\ up'.attached = GetDisks
      /\ up' = [at |-> up'.at, todo |-> up'.todo, attached |-> up'.attached, made |-> up'.made]
  BY DEF BeginConfigure, NoUp
<1>3. GetDisks \in Seq(Entries) /\ ToSet(GetDisks) = {e \in ToSet(vmx) : e.slot[1] # NoBus}
  BY <1>1, DisksRead DEF VmxInv
<1>4. VmxInv'
  BY <1>1, <1>2 DEF VmxInv, OneEntryPerSlot, IdeHasTwo, ToSet
<1>5. UpInv'
  BY <1>1, <1>2 DEF UpInv
<1>6. ToSet(up'.attached) = {e \in ToSet(vmx) : e.slot[1] # NoBus} /\ ToSet(vmx') = ToSet(vmx)
  BY <1>2, <1>3
<1>7. IdeHasTwo(up'.attached)
  BY <1>1, <1>6 DEF IdeHasTwo, VmxInv
<1>8. ListInv'
  BY <1>2, <1>3, <1>6, <1>7 DEF ListInv, ToSet, IdeHasTwo
<1>9. WorkInv'
  BY <1>1, <1>2 DEF WorkInv, UpInv, ToSet
<1> QED BY <1>4, <1>5, <1>8, <1>9 DEF IInv

\* A disk that is found has its entry in the vmx file.
LEMMA FoundIsListed ==
  ASSUME IInv, Configuring, up.todo # <<>>, This.type = "disk", GetDisk(This) # 0
  PROVE  LET e == up.attached[GetDisk(This)]
         IN /\ e \in ToSet(vmx) /\ e.slot[1] # NoBus
            /\ IF This.primary THEN e.slot \in ToSet(PrimarySlots) ELSE NamedAfter(e.file, This.name)
<1> DEFINE d == This
           i == GetDisk(d)
           e == up.attached[i]
           places == {k \in DOMAIN up.attached : Suits(up.attached[k], d)}
<1>1. /\ up.attached \in Seq(Entries) /\ up.todo \in Seq(Config) /\ ListInv
      /\ d \in Config /\ d.name \in Seq(STRING) /\ d.name # NoFile
  <2>1. up.attached \in Seq(Entries) /\ up.todo \in Seq(Config) /\ ListInv
    BY DEF IInv, ListInv, WorkInv
  <2>2. d \in Config
    BY <2>1, ListSets DEF This
  <2> QED BY <2>1, <2>2 DEF Config
<1>2. i \in places
  <2>1. places \in SUBSET Nat /\ i = First(places)
    BY <1>1 DEF GetDisk
  <2> HIDE DEF i, places
  <2> QED BY <2>1, FirstIsAPlace DEF i
<1>3. Suits(e, d) /\ e \in ToSet(up.attached)
  BY <1>2 DEF ToSet
<1>4. IF e.slot[1] = NoBus THEN e.file = NoFile ELSE e \in ToSet(vmx)
  BY <1>1, <1>3 DEF ListInv
<1>5. CASE d.primary
  <2> DEFINE taken == {k \in DOMAIN PrimarySlots : \E x \in ToSet(up.attached) : x.slot = PrimarySlots[k]}
  <2>1. taken # {} /\ e.slot = PrimarySlots[First(taken)]
    BY <1>3, <1>5 DEF Suits
  <2>2. DOMAIN PrimarySlots = 1..4
    BY DEF PrimarySlots
  <2>3. First(taken) \in 1..4
    <3>1. taken \in SUBSET Nat
      BY <2>2
    <3> HIDE DEF taken
    <3>2. First(taken) \in taken
      BY <2>1, <3>1, FirstIsAPlace
    <3> QED BY <2>2, <3>2 DEF taken
  <2>4. e.slot \in ToSet(PrimarySlots)
    BY <2>1, <2>2, <2>3 DEF ToSet
  <2>5. \A k \in 1..4 : PrimarySlots[k][1] # NoBus
    <3>1. /\ PrimarySlots[1][1] = "nvme" /\ PrimarySlots[2][1] = "scsi"
          /\ PrimarySlots[3][1] = "sata" /\ PrimarySlots[4][1] = "ide"
      BY DEF PrimarySlots
    <3>2. \A k \in 1..4 : k = 1 \/ k = 2 \/ k = 3 \/ k = 4
      OBVIOUS
    <3> QED BY <3>1, <3>2 DEF NoBus
  <2>6. e.slot[1] # NoBus
    BY <2>1, <2>3, <2>5
  <2> QED BY <1>4, <1>5, <2>4, <2>6
<1>6. CASE ~d.primary
  <2>1. NamedAfter(e.file, d.name)
    BY <1>3, <1>6 DEF Suits
  <2>2. e.file # NoFile
    <3>1. Len(NoFile) = 0 /\ Len(d.name) \in Nat
      BY <1>1 DEF NoFile
    <3>2. Len(d.name) + 1 # 0
      BY <3>1
    <3> QED BY <1>1, <2>1, <3>1, <3>2 DEF NamedAfter
  <2> QED BY <1>4, <1>6, <2>1, <2>2
<1> QED BY <1>5, <1>6

\* A disk that is there stays there, whatever its size becomes.
LEMMA GrowKeeps ==
  ASSUME IInv, GrowOrKeep
  PROVE  IInv'
<1> DEFINE e == up.attached[GetDisk(This)]
<1>1. /\ VmxInv /\ UpInv /\ ListInv /\ WorkInv /\ Configuring
      /\ up.todo # <<>> /\ GetDisk(This) # 0 /\ up.todo \in Seq(Config) /\ up.attached \in Seq(Entries)
  BY DEF IInv, ListInv, WorkInv, GrowOrKeep, At, Configuring
<1>2. /\ UNCHANGED <<vmx, defined>> /\ up' = Reported(This, e.file) /\ DOMAIN files' = DOMAIN files
      /\ This.type = "dvd" \/ e.file \in DOMAIN files
  <2>1. /\ This.type = "dvd" /\ files' = files
        \/ \E size \in Sizes(e.file) : files' = files \/ files' = [files EXCEPT ![e.file] = This.size]
    BY DEF GrowOrKeep
  <2>2. UNCHANGED <<vmx, defined>> /\ up' = Reported(This, e.file)
    BY DEF GrowOrKeep
  <2>3. Sizes(e.file) # {} => e.file \in DOMAIN files
    BY DEF Sizes
  <2> QED BY <2>1, <2>2, <2>3
<1> HIDE DEF e
<1>3. /\ up'.at = "configure" /\ up'.todo = Tail(up.todo) /\ up'.attached = up.attached
      /\ up' = [at |-> up'.at, todo |-> up'.todo, attached |-> up'.attached, made |-> up'.made]
  BY <1>1, <1>2 DEF Reported, NextOne, UpInv
<1>4. up'.todo \in Seq(Config) /\ \A d \in ToSet(up.todo) : d = This \/ d \in ToSet(up'.todo)
  BY <1>1, <1>3, ListSets DEF This
<1>5. VmxInv' /\ UpInv'
  BY <1>1, <1>2, <1>3 DEF VmxInv, OneEntryPerSlot, IdeHasTwo, ToSet, UpInv
<1>6. ListInv'
  BY <1>1, <1>2, <1>3 DEF ListInv, ToSet, IdeHasTwo
<1>7. Provided(This)
  <2> SUFFICES ASSUME This.type = "disk", ~This.given PROVE Provided(This)
    BY DEF Provided
  <2>1. /\ e \in ToSet(vmx) /\ e.slot[1] # NoBus
        /\ IF This.primary THEN e.slot \in ToSet(PrimarySlots) ELSE NamedAfter(e.file, This.name)
    BY <1>1, FoundIsListed DEF e
  <2>2. NamedAfter(e.file, This.name) => e.file = This.name \/ Front(e.file) = This.name
    BY DEF NamedAfter
  <2> QED BY <1>2, <2>1, <2>2 DEF Provided
<1>8. ASSUME NEW d \in ToSet(defined), d \notin ToSet(up'.todo) PROVE Provided(d)'
  <2>1. Provided(d)
    BY <1>1, <1>4, <1>7, <1>8 DEF WorkInv
  <2> QED BY <1>2, <2>1, ProvidedStays
<1>9. WorkInv'
  BY <1>2, <1>3, <1>4, <1>8 DEF WorkInv, Configuring, ToSet
<1> QED BY <1>5, <1>6, <1>9 DEF IInv

\* A disk that was created has a file, and its entry is written next.
LEMMA CreateKeeps ==
  ASSUME IInv, CreateDisk
  PROVE  IInv'
<1>1. /\ VmxInv /\ UpInv /\ ListInv /\ WorkInv /\ Configuring /\ up.todo # <<>>
      /\ This.type = "disk" /\ ~This.given /\ ~This.primary
  BY DEF IInv, CreateDisk, Missing, At, Configuring
<1>2. UNCHANGED <<vmx, defined>> /\ DOMAIN files' = DOMAIN files \cup {This.name}
      /\ up' = [up EXCEPT !.at = "attach"]
  BY DEF CreateDisk
<1>3. /\ up'.at = "attach" /\ up'.todo = up.todo /\ up'.attached = up.attached
      /\ up' = [at |-> up'.at, todo |-> up'.todo, attached |-> up'.attached, made |-> up'.made]
  BY <1>1, <1>2 DEF UpInv
<1>4. VmxInv' /\ UpInv'
  BY <1>1, <1>2, <1>3 DEF VmxInv, OneEntryPerSlot, IdeHasTwo, ToSet, UpInv
<1>5. ListInv'
  BY <1>1, <1>2, <1>3 DEF ListInv, ToSet, IdeHasTwo
<1>6. ASSUME NEW d \in ToSet(defined), d \notin ToSet(up'.todo) PROVE Provided(d)'
  <2>1. Provided(d)
    BY <1>1, <1>3, <1>6 DEF WorkInv
  <2> QED BY <1>2, <2>1, ProvidedStays
<1>7. This' = This
  BY <1>3 DEF This
<1>8. WorkInv'
  <2>1. up'.todo \in Seq(Config) /\ \A d \in ToSet(defined') : d \in ToSet(up'.todo) \/ Provided(d)'
    BY <1>1, <1>2, <1>3, <1>6 DEF WorkInv
  <2>2. up'.todo # <<>> /\ This'.type = "disk" /\ ~This'.given /\ ~This'.primary /\ This'.name \in DOMAIN files'
    BY <1>1, <1>2, <1>3, <1>7
  <2> QED BY <2>1, <2>2 DEF WorkInv, ToSet
<1> QED BY <1>4, <1>5, <1>8 DEF IInv

\* The three ways in which a disk is attached.
LEMMA AttachesKeep ==
  ASSUME IInv, AttachDvd \/ AttachGiven \/ AttachCreated
  PROVE  IInv' /\ \A e \in ToSet(vmx) : e.slot[1] # NoBus => e \in ToSet(vmx')
<1>1. WorkInv /\ Configuring /\ up.todo # <<>> /\ up.todo \in Seq(Config)
  BY DEF IInv, WorkInv, AttachDvd, AttachGiven, AttachCreated, Missing, At, Configuring
<1>2. This.bus \in ToSet(Buses) /\ This.bus # NoBus
  <2>1. This \in Config
    BY <1>1, ListSets DEF This
  <2> QED BY <2>1 DEF Config
<1>3. NoBus \in ToSet(Buses)
  BY BusList
<1>4. CASE AttachDvd
  <2>1. Attached(This, This.name, This.name, GetSlot(This.bus)) /\ UNCHANGED <<files, defined>> /\ This.type # "disk"
    BY <1>4 DEF AttachDvd
  <2> QED BY <1>1, <1>2, <2>1, AttachKeeps
<1>5. CASE AttachGiven
  <2>1. Attached(This, This.name, NoFile, GetSlot(NoBus)) /\ UNCHANGED <<files, defined>> /\ This.given
    BY <1>5 DEF AttachGiven
  <2> QED BY <1>1, <1>3, <2>1, AttachKeeps
<1>6. CASE AttachCreated
  <2>1. /\ Attached(This, This.name, This.name, GetSlot(This.bus)) /\ UNCHANGED <<files, defined>>
        /\ ~This.primary /\ This.name \in DOMAIN files
    BY <1>1, <1>6 DEF AttachCreated, WorkInv, At
  <2> QED BY <1>1, <1>2, <2>1, AttachKeeps
<1> QED BY <1>4, <1>5, <1>6

\* What an import leaves satisfies the invariant.
LEMMA InitIInv ==
  Init => IInv
<1> SUFFICES ASSUME Init PROVE IInv
  OBVIOUS
<1>1. VmxInv
  BY DisksAssumption DEF Init, VmxInv
<1>2. /\ NoUp.at = "idle"
      /\ NoUp = [at |-> NoUp.at, todo |-> NoUp.todo, attached |-> NoUp.attached, made |-> NoUp.made]
  BY DEF NoUp
<1>3. UpInv /\ ListInv /\ WorkInv
  BY <1>2 DEF Init, UpInv, ListInv, WorkInv, Configuring
<1> QED BY <1>1, <1>3 DEF IInv

\* Every step keeps the invariant.
LEMMA NextIInv ==
  IInv /\ [Next]_vars => IInv'
<1> SUFFICES ASSUME IInv, [Next]_vars PROVE IInv'
  OBVIOUS
<1>1. CASE UNCHANGED vars
  BY <1>1 DEF vars, IInv, VmxInv, OneEntryPerSlot, IdeHasTwo, UpInv, ListInv, WorkInv, Configuring, Provided,
              This, ToSet
<1>2. CASE Next
  <2>1. CASE BeginUp \/ Rewrite \/ Snapshot \/ CleanUp \/ RemoveFile \/ RemoveEntry \/ EndUp \/ EndEarly
    BY <2>1, OtherKeeps
  <2>2. CASE BeginConfigure
    BY <2>2, BeginConfigureKeeps
  <2>3. CASE Configure
    BY <2>3, GrowKeeps, CreateKeeps, AttachesKeep DEF Configure
  <2> QED BY <1>2, <2>1, <2>2, <2>3 DEF Next
<1> QED BY <1>1, <1>2

-----------------------------------------------------------------------------
(* The theorems.                                                           *)

\* The vmx file has one entry for a slot; while disks are configured the list
\* of the run agrees with it, and what was gone through is provided
\* (cap/disk.rb, configure_disks).
THEOREM InductiveInvariant ==
  Spec => []IInv
<1>1. Init => IInv
  BY InitIInv
<1>2. IInv /\ [Next]_vars => IInv'
  BY NextIInv
<1> QED BY <1>1, <1>2, PTL DEF Spec

\* For any boxes and Vagrantfiles, and whatever earlier runs left half done,
\* an up that gets through has an entry with a file for every disk it has to
\* provide (cap/disk.rb, setup_disk).
THEOREM DisksAreProvided ==
  Spec => []UpProvidesDisks
<1>1. IInv => UpProvidesDisks
  <2> SUFFICES ASSUME IInv, At("configure"), up.todo = <<>>,
                      NEW d \in ToSet(defined), d.type = "disk", ~d.given
               PROVE  \E e \in ToSet(vmx) :
                        /\ e.slot[1] # NoBus /\ e.file \in DOMAIN files
                        /\ IF d.primary THEN e.slot \in ToSet(PrimarySlots)
                           ELSE e.file = d.name \/ Front(e.file) = d.name
    BY DEF UpProvidesDisks
  <2>1. ToSet(up.todo) = {}
    BY DEF ToSet
  <2>2. Provided(d)
    BY <2>1 DEF IInv, WorkInv, Configuring, At
  <2> QED BY <2>2 DEF Provided
<1> QED BY <1>1, InductiveInvariant, PTL

\* However the buses are filled and the vmx file is ordered, a new disk takes
\* the slot of none on a bus (cap/disk.rb, get_slot).
THEOREM SlotsAreFree ==
  Spec => NewSlotIsFree
<1>1. ASSUME IInv, Configure, NEW e \in ToSet(vmx), e.slot[1] # NoBus PROVE e \in ToSet(vmx')
  <2>1. CASE GrowOrKeep \/ CreateDisk
    BY <1>1, <2>1 DEF GrowOrKeep, CreateDisk
  <2>2. CASE AttachDvd \/ AttachGiven \/ AttachCreated
    BY <1>1, <2>2, AttachesKeep
  <2> QED BY <1>1, <2>1, <2>2 DEF Configure
<1>2. IInv /\ [Next]_vars => [\A e \in ToSet(vmx) : e.slot[1] # NoBus /\ Configure => e \in ToSet(vmx')]_vars
  BY <1>1
<1> QED BY <1>2, InductiveInvariant, PTL DEF Spec, NewSlotIsFree

-----------------------------------------------------------------------------
(* What is reported of a disk, and the file of the primary one.            *)

\* The disks that some Vagrantfile defines, and the names of those that are
\* not primary.
Definable == UNION {ToSet(v) : v \in Vagrantfiles}
Names == {d.name : d \in {c \in Definable : c.type = "disk" /\ ~c.primary}}

\* The file of a disk and that of its snapshot.
FilesOf(name) == {name, Append(name, Delta)}

\* What is reported of a disk is its name with a file of its own.
Honest(r) == r.type = "disk" /\ ~r.primary => r.name \in Names /\ r.path \in FilesOf(r.name)

\* The reports, when no disk was found under another one's name.
Reports ==
  {r \in [name: Seq(STRING), type: {"disk", "dvd"}, path: Seq(STRING), primary: BOOLEAN] :
     ~mistaken => Honest(r)}

DefinedInv == defined \in Seq(Definable)

\* What Vagrant has stored and what this run has made are reports; so is what
\* the clean-up goes through, and it only removes what is not defined.
ReportInv ==
  /\ meta \in Seq(Reports)
  /\ up.made \in [disk: Seq(Reports), dvd: Seq(Reports)]
  /\ up.at \in {"cleanup", "remove", "unlist"} => up.todo \in Seq(Reports)
  /\ up.at \in {"remove", "unlist"} => up.todo # <<>> /\ ~Spared(This)
  /\ Configuring => up.todo \in Seq(Definable)

\* What is at scsi0:0 is the file of no other disk.
PrimaryInv ==
  \A e \in ToSet(vmx) : e.slot = <<"scsi", 0, 0>> => \A n \in Names : e.file \notin FilesOf(n)

NameInv == DefinedInv /\ ReportInv /\ PrimaryInv

\* A disk that can be defined is a disk, and its lists are lists of disks.
LEMMA DefinableDisks ==
  /\ Definable \subseteq Config
  /\ \A v \in Vagrantfiles : v \in Seq(Definable)
  /\ Names \subseteq Seq(STRING) \ {NoFile}
<1>1. ASSUME NEW v \in Vagrantfiles PROVE ToSet(v) \subseteq Config /\ v \in Seq(ToSet(v))
  <2>1. v \in Seq(Config)
    BY DisksAssumption
  <2>2. ToSet(v) \subseteq Config
    BY <2>1, ListSets
  <2>3. DOMAIN v = 1..Len(v) /\ Len(v) \in Nat /\ v = [i \in 1..Len(v) |-> v[i]]
    BY <2>1
  <2>4. \A i \in 1..Len(v) : v[i] \in ToSet(v)
    BY <2>3 DEF ToSet
  <2> QED BY <2>2, <2>3, <2>4
<1>2. ASSUME NEW v \in Vagrantfiles PROVE v \in Seq(Definable)
  <2>1. ToSet(v) \subseteq Definable
    BY DEF Definable
  <2> QED BY <1>1, <2>1
<1>3. Definable \subseteq Config
  BY <1>1 DEF Definable
<1>4. Names \subseteq Seq(STRING) \ {NoFile}
  BY <1>3 DEF Names, Config
<1> QED BY <1>2, <1>3, <1>4

\* A file named after a disk that ends like a delta is that of its snapshot.
LEMMA DeltaIsAppended ==
  ASSUME NEW file \in Seq(STRING), NEW name \in Seq(STRING), NamedAfter(file, name),
         file = name \/ Last(file) = Delta
  PROVE  file \in FilesOf(name)
<1> SUFFICES ASSUME file # name PROVE file = Append(name, Delta)
  BY DEF FilesOf
<1>1. Len(file) = Len(name) + 1 /\ Front(file) = name /\ Last(file) = Delta
  BY DEF NamedAfter
<1>2. file # <<>>
  BY <1>1
<1>3. PICK s \in Seq(STRING), x \in STRING : file = Append(s, x)
  BY <1>2, SequenceEmptyOrAppend
<1>4. Len(file) = Len(s) + 1 /\ file[Len(s) + 1] = x /\ \A i \in 1..Len(s) : file[i] = s[i]
  BY <1>3, AppendProperties
<1>5. x = Delta
  BY <1>1, <1>4 DEF Last
<1>6. Front(file) = s
  <2>1. Front(file) = SubSeq(file, 1, Len(s))
    BY <1>4 DEF Front
  <2>2. SubSeq(file, 1, Len(s)) = [i \in 1..Len(s) |-> s[i]]
    BY <1>4
  <2> QED BY <2>1, <2>2
<1> QED BY <1>1, <1>3, <1>5, <1>6

\* A name without the number of a delta is the file of no other disk, and the
\* delta of a file that belongs to none belongs to none.
LEMMA FilesDiffer ==
  ASSUME PlainNames, NEW n \in Names
  PROVE  /\ \A d \in Definable : d.name \in FilesOf(n) => d.name = n
         /\ \A file \in Seq(STRING) : file \notin FilesOf(n) => Append(file, Delta) \notin FilesOf(n)
<1>1. Delta \in STRING /\ n \in Seq(STRING)
  BY DisksAssumption, DefinableDisks
<1>2. ASSUME NEW s \in Seq(STRING) PROVE Last(Append(s, Delta)) = Delta
  <2>1. Len(Append(s, Delta)) = Len(s) + 1 /\ Append(s, Delta)[Len(s) + 1] = Delta
    BY <1>1, AppendProperties
  <2> QED BY <2>1 DEF Last
<1>3. \A d \in Definable : Last(d.name) # Delta
  BY DEF PlainNames, Definable
<1>4. Last(n) # Delta
  BY <1>3 DEF Names
<1>5. ASSUME NEW d \in Definable, d.name \in FilesOf(n) PROVE d.name = n
  BY <1>1, <1>2, <1>3, <1>5 DEF FilesOf
<1>6. ASSUME NEW file \in Seq(STRING), file \notin FilesOf(n), Append(file, Delta) \in FilesOf(n) PROVE FALSE
  <2>1. Append(file, Delta) # n
    BY <1>2, <1>4
  <2>2. Append(file, Delta) = Append(n, Delta)
    BY <1>6, <2>1 DEF FilesOf
  <2>3. file = n
    <3> DEFINE s == Append(file, Delta)
               t == Append(n, Delta)
    <3>1. /\ Len(s) = Len(file) + 1 /\ Len(t) = Len(n) + 1
          /\ \A i \in 1..Len(file) : s[i] = file[i]
          /\ \A i \in 1..Len(n) : t[i] = n[i]
          /\ s = t
      BY <1>1, <2>2, AppendProperties
    <3> HIDE DEF s, t
    <3>2. Len(file) = Len(n)
      BY <1>1, <3>1
    <3>3. \A i \in 1..Len(file) : file[i] = n[i]
      BY <3>1, <3>2
    <3> QED BY <1>1, <3>2, <3>3, SeqEqual
  <2> QED BY <1>6, <2>3 DEF FilesOf
<1> QED BY <1>5, <1>6

\* No new slot is scsi0:0.
LEMMA NewSlotIsNotFirst ==
  ASSUME up.attached \in Seq(Entries), IdeHasTwo(up.attached), NEW bus \in ToSet(Buses)
  PROVE  GetSlot(bus) # <<"scsi", 0, 0>>
<1>1. GetSlot(bus)[1] = bus
  BY SlotIsFree
<1>2. CASE bus = "scsi"
  <2>1. Highest(bus)[2] \in Nat
    BY HighestIsHighest
  <2>2. GetSlot(bus)[3] = Highest(bus)[2] + 1
    BY <1>2 DEF GetSlot
  <2>3. GetSlot(bus)[3] # 0
    BY <2>1, <2>2
  <2> QED BY <2>3
<1> QED BY <1>1, <1>2

\* A snapshot puts what is at scsi0:0 on a delta of its file.
LEMMA SnapshotKeepsPrimary ==
  ASSUME PlainNames, VmxInv, PrimaryInv, Snapshot
  PROVE  PrimaryInv'
<1> DEFINE Child(file) == IF file \in DOMAIN files THEN Append(file, Delta) ELSE file
<1>1. vmx' = [i \in DOMAIN vmx |-> [vmx[i] EXCEPT !.file = Child(@)]]
  BY DEF Snapshot
<1> SUFFICES ASSUME NEW e \in ToSet(vmx'), e.slot = <<"scsi", 0, 0>>, NEW n \in Names
             PROVE  e.file \notin FilesOf(n)
  BY DEF PrimaryInv
<1>2. PICK i \in DOMAIN vmx : e = [vmx[i] EXCEPT !.file = Child(@)]
  BY <1>1 DEF ToSet
<1>3. vmx[i] \in Entries /\ vmx[i] \in ToSet(vmx)
  BY DEF VmxInv, ToSet
<1>4. e.slot = vmx[i].slot /\ e.file = Child(vmx[i].file) /\ vmx[i].file \in Seq(STRING)
  BY <1>2, <1>3 DEF Entries
<1>5. vmx[i].file \notin FilesOf(n)
  BY <1>3, <1>4 DEF PrimaryInv
<1> QED BY <1>4, <1>5, FilesDiffer

\* The three ways in which a disk is attached, and what they have in common.
LEMMA AttachesAlike ==
  ASSUME IInv, AttachDvd \/ AttachGiven \/ AttachCreated
  PROVE  /\ Configuring /\ up.todo # <<>>
         /\ \E bus \in ToSet(Buses) : \E kept : Attached(This, This.name, kept, GetSlot(bus))
         /\ UNCHANGED <<files, defined, meta, mistaken>>
<1>1. WorkInv /\ Configuring /\ up.todo # <<>> /\ up.todo \in Seq(Config)
  BY DEF IInv, WorkInv, AttachDvd, AttachGiven, AttachCreated, Missing, At, Configuring
<1>2. This.bus \in ToSet(Buses)
  <2>1. This \in Config
    BY <1>1, ListSets DEF This
  <2> QED BY <2>1 DEF Config
<1>3. NoBus \in ToSet(Buses)
  BY BusList
<1>4. CASE AttachDvd
  BY <1>1, <1>2, <1>4 DEF AttachDvd
<1>5. CASE AttachGiven
  BY <1>1, <1>3, <1>5 DEF AttachGiven
<1>6. CASE AttachCreated
  BY <1>1, <1>2, <1>6 DEF AttachCreated
<1> QED BY <1>4, <1>5, <1>6

\* Nothing else comes to scsi0:0.
LEMMA AttachesKeepPrimary ==
  ASSUME IInv, PrimaryInv, AttachDvd \/ AttachGiven \/ AttachCreated
  PROVE  PrimaryInv'
<1>1. /\ VmxInv /\ Configuring /\ up.todo # <<>> /\ up.todo \in Seq(Config)
      /\ up.attached \in Seq(Entries) /\ IdeHasTwo(up.attached)
  BY AttachesAlike DEF IInv, ListInv, WorkInv
<1>2. PICK bus \in ToSet(Buses) : \E kept : Attached(This, This.name, kept, GetSlot(bus))
  BY AttachesAlike
<1> DEFINE slot == GetSlot(bus)
<1>3. slot \in Slots /\ (slot[1] = "ide" => slot[3] \in {0, 1}) /\ slot # <<"scsi", 0, 0>>
  BY <1>1, SlotIsFree, NewSlotIsNotFirst
<1>4. This.name \in Seq(STRING)
  <2>1. This \in Config
    BY <1>1, ListSets DEF This
  <2> QED BY <2>1 DEF Config
<1>5. AddDiskToVmx(This.name, slot)
  BY <1>2 DEF Attached
<1> HIDE DEF slot
<1>6. ToSet(vmx') = {e \in ToSet(vmx) : e.slot # slot} \cup {Entry(slot, This.name)}
  BY <1>1, <1>3, <1>4, <1>5, AddKeeps
<1>7. Entry(slot, This.name).slot # <<"scsi", 0, 0>>
  BY <1>3 DEF Entry
<1> QED BY <1>6, <1>7 DEF PrimaryInv

\* Every step leaves scsi0:0 to a file that is the file of no other disk.
LEMMA PrimaryKeeps ==
  ASSUME PlainNames, IInv, PrimaryInv, Next
  PROVE  PrimaryInv'
<1>1. VmxInv
  BY DEF IInv
<1>2. CASE ToSet(vmx') \subseteq ToSet(vmx)
  BY <1>2 DEF PrimaryInv
<1>3. CASE UNCHANGED vmx
  BY <1>3 DEF PrimaryInv, ToSet
<1>4. CASE Rewrite
  BY <1>1, <1>2, <1>4, ListSets DEF Rewrite, VmxInv
<1>5. CASE RemoveEntry
  BY <1>1, <1>2, <1>5, RemoveKeeps DEF RemoveEntry
<1>6. CASE Snapshot
  BY <1>1, <1>6, SnapshotKeepsPrimary
<1>7. CASE AttachDvd \/ AttachGiven \/ AttachCreated
  BY <1>7, AttachesKeepPrimary
<1>8. CASE BeginUp \/ CleanUp \/ RemoveFile \/ BeginConfigure \/ GrowOrKeep \/ CreateDisk \/ EndUp \/ EndEarly
  BY <1>3, <1>8 DEF BeginUp, CleanUp, RemoveFile, BeginConfigure, GrowOrKeep, CreateDisk, EndUp, EndEarly
<1> QED BY <1>4, <1>5, <1>6, <1>7, <1>8 DEF Next, Configure

\* What is a report stays one, and is more easily one once a disk was mistaken.
LEMMA ReportsStay ==
  ASSUME mistaken => mistaken'
  PROVE  Reports \subseteq Reports' /\ Seq(Reports) \subseteq Seq(Reports')
<1>1. Reports \subseteq Reports'
  BY Zenon DEF Reports, Honest
<1> HIDE DEF Reports
<1> QED BY <1>1

\* A list of reports with one more is one.
LEMMA MadeGrows ==
  ASSUME UpInv, up.made \in [disk: Seq(Reports), dvd: Seq(Reports)], mistaken => mistaken',
         NEW d \in Definable, NEW path \in Seq(STRING),
         ~mistaken' /\ d.type = "disk" /\ ~d.primary => path \in FilesOf(d.name)
  PROVE  Reported(d, path).made \in [disk: Seq(Reports), dvd: Seq(Reports)]'
<1> DEFINE r == Report(d, path)
<1>1. d \in Config
  BY DefinableDisks
<1>2. /\ d.type \in {"disk", "dvd"}
      /\ r \in [name: Seq(STRING), type: {"disk", "dvd"}, path: Seq(STRING), primary: BOOLEAN]
  BY <1>1 DEF Config, Report
<1>3. r.name = d.name /\ r.type = d.type /\ r.path = path /\ r.primary = d.primary
  BY DEF Report
<1>4. ~mistaken' => Honest(r)
  BY <1>3 DEF Honest, Names
<1> HIDE DEF r
<1>5. r \in Reports'
  BY <1>2, <1>4 DEF Reports, Honest
<1>6. up.made \in [disk: Seq(Reports'), dvd: Seq(Reports')]
  BY ReportsStay
<1>7. Reported(d, path).made = [up.made EXCEPT ![d.type] = Append(@, r)]
  BY DEF Reported, NextOne, UpInv, r
<1>8. \A s \in Seq(Reports') : Append(s, r) \in Seq(Reports')
  BY <1>5
<1> DEFINE M == Reported(d, path).made
<1>9. DOMAIN up.made = {"disk", "dvd"} /\ up.made["disk"] \in Seq(Reports') /\ up.made["dvd"] \in Seq(Reports')
  BY <1>6
<1>10. /\ M = [t \in {"disk", "dvd"} |-> M[t]]
       /\ \A t \in {"disk", "dvd"} : M[t] = IF t = d.type THEN Append(up.made[t], r) ELSE up.made[t]
  BY <1>2, <1>6, <1>7
<1> HIDE DEF M
<1>11. \A t \in {"disk", "dvd"} : M[t] \in Seq(Reports')
  BY <1>8, <1>9, <1>10
<1>12. M \in [disk: Seq(Reports'), dvd: Seq(Reports')]
  BY <1>10, <1>11
<1> QED BY <1>12 DEF M

\* The first report of a list of reports is one, and so is the rest.
LEMMA ReportsLeft ==
  ASSUME up.todo \in Seq(Reports), up.todo # <<>>
  PROVE  This \in Reports /\ Tail(up.todo) \in Seq(Reports)
BY ListSets DEF This

\* What the clean-up goes through are reports until it has ended.
LEMMA CleanUpKeepsReports ==
  ASSUME UpInv, DefinedInv, ReportInv,
         BeginUp \/ CleanUp \/ RemoveFile \/ RemoveEntry \/ BeginConfigure
  PROVE  ReportInv'
<1> USE DEF Configuring
<1>1. mistaken' = mistaken /\ meta' = meta
  BY DEF BeginUp, CleanUp, RemoveFile, RemoveEntry, BeginConfigure
<1>2. Reports' = Reports
  BY <1>1 DEF Reports
<1>3. /\ meta \in Seq(Reports) /\ meta' \in Seq(Reports')
      /\ up.made \in [disk: Seq(Reports), dvd: Seq(Reports)]
  BY <1>1, <1>2 DEF ReportInv
<1>4. CASE BeginUp \/ BeginConfigure
  <2>1. /\ BeginUp => up'.at = "cleanup" /\ up'.todo = meta
        /\ BeginConfigure => up'.at = "configure" /\ up'.todo = defined
        /\ up'.made = [disk |-> <<>>, dvd |-> <<>>]
    BY <1>4 DEF BeginUp, BeginConfigure, NoUp
  <2>2. up'.made \in [disk: Seq(Reports'), dvd: Seq(Reports')]
    BY <2>1
  <2> QED BY <1>2, <1>3, <1>4, <2>1, <2>2 DEF ReportInv, DefinedInv
<1>5. CASE CleanUp
  <2>1. /\ up.todo \in Seq(Reports) /\ up.todo # <<>> /\ up'.made = up.made /\ UNCHANGED defined
        /\ \/ up'.at = "cleanup" /\ up'.todo = Tail(up.todo)
           \/ up'.at = "remove" /\ up'.todo = up.todo /\ ~Spared(This)
    BY <1>5 DEF CleanUp, At, NextOne, UpInv, ReportInv
  <2>2. up'.todo \in Seq(Reports)
    BY <2>1, ReportsLeft
  <2>3. up'.at = "remove" => ~Spared(This)'
    BY <2>1 DEF Spared, IsDefined, This
  <2> QED BY <1>2, <1>3, <2>1, <2>2, <2>3 DEF ReportInv
<1>6. CASE RemoveFile
  <2>1. /\ up.todo \in Seq(Reports) /\ up.todo # <<>> /\ ~Spared(This)
        /\ up'.at = "unlist" /\ up'.todo = up.todo /\ up'.made = up.made /\ UNCHANGED defined
    BY <1>6 DEF RemoveFile, At, UpInv, ReportInv
  <2>2. ~Spared(This)'
    BY <2>1 DEF Spared, IsDefined, This
  <2> QED BY <1>2, <1>3, <2>1, <2>2 DEF ReportInv
<1>7. CASE RemoveEntry
  <2>1. /\ up.todo \in Seq(Reports) /\ up.todo # <<>>
        /\ up'.at = "cleanup" /\ up'.todo = Tail(up.todo) /\ up'.made = up.made
    BY <1>7 DEF RemoveEntry, At, NextOne, UpInv, ReportInv
  <2>2. up'.todo \in Seq(Reports)
    BY <2>1, ReportsLeft
  <2> QED BY <1>2, <1>3, <2>1, <2>2 DEF ReportInv
<1> QED BY <1>4, <1>5, <1>6, <1>7

\* One more disk that was worked off, with what is reported of it.
LEMMA OneMoreReported ==
  ASSUME UpInv, ReportInv, Configuring, up.todo # <<>>, NEW path \in Seq(STRING),
         mistaken => mistaken',
         ~mistaken' /\ This.type = "disk" /\ ~This.primary => path \in FilesOf(This.name),
         up'.at = "configure", up'.todo = Tail(up.todo), up'.made = Reported(This, path).made,
         UNCHANGED meta
  PROVE  ReportInv'
<1>1. up.todo \in Seq(Definable) /\ meta \in Seq(Reports) /\ up.made \in [disk: Seq(Reports), dvd: Seq(Reports)]
  BY DEF ReportInv
<1>2. This \in Definable /\ Tail(up.todo) \in Seq(Definable)
  BY <1>1, ListSets DEF This
<1>3. up'.made \in [disk: Seq(Reports), dvd: Seq(Reports)]'
  BY <1>1, <1>2, MadeGrows
<1>4. meta' \in Seq(Reports')
  BY <1>1, ReportsStay
<1> QED BY <1>2, <1>3, <1>4 DEF ReportInv

\* A disk that is there is reported with the file that was found, which is its
\* own unless a disk was mistaken.
LEMMA GrowKeepsReports ==
  ASSUME IInv, ReportInv, GrowOrKeep
  PROVE  ReportInv'
<1> DEFINE i == GetDisk(This)
           file == up.attached[i].file
           places == {k \in DOMAIN up.attached : Suits(up.attached[k], This)}
<1>1. /\ UpInv /\ ListInv /\ Configuring /\ up.todo # <<>> /\ i # 0
      /\ up.attached \in Seq(Entries) /\ up.todo \in Seq(Definable)
  BY DEF IInv, ListInv, ReportInv, GrowOrKeep, At, Configuring
<1>2. This \in Config
  BY <1>1, ListSets, DefinableDisks DEF This
<1>3. file \in Seq(STRING)
  <2>1. places \in SUBSET Nat /\ i = First(places)
    BY <1>1 DEF GetDisk
  <2>2. i \in places
    <3> HIDE DEF i, places
    <3> QED BY <1>1, <2>1, FirstIsAPlace
  <2>3. up.attached[i] \in Entries
    BY <1>1, <2>2
  <2> QED BY <2>3 DEF Entries
<1>4. /\ up' = Reported(This, file) /\ UNCHANGED meta
      /\ mistaken' = (mistaken \/ (~This.primary /\ file # This.name /\ Last(file) # Delta))
  BY DEF GrowOrKeep
<1>5. ASSUME ~mistaken', This.type = "disk", ~This.primary PROVE file \in FilesOf(This.name)
  <2>1. NamedAfter(file, This.name)
    BY <1>1, <1>5, FoundIsListed
  <2>2. file = This.name \/ Last(file) = Delta
    BY <1>4, <1>5, Zenon
  <2>3. This.name \in Seq(STRING)
    BY <1>2 DEF Config
  <2> HIDE DEF file
  <2> QED BY <1>3, <2>1, <2>2, <2>3, DeltaIsAppended
<1>6. mistaken => mistaken'
  BY <1>4, Zenon
<1> HIDE DEF file
<1>7. up'.at = "configure" /\ up'.todo = Tail(up.todo)
  BY <1>1, <1>4 DEF Reported, NextOne, UpInv
<1> QED BY <1>1, <1>3, <1>4, <1>5, <1>6, <1>7, OneMoreReported

\* A disk that was attached is reported with the file named after it.
LEMMA AttachesKeepReports ==
  ASSUME IInv, ReportInv, AttachDvd \/ AttachGiven \/ AttachCreated
  PROVE  ReportInv'
<1>1. /\ UpInv /\ Configuring /\ up.todo # <<>> /\ up.todo \in Seq(Definable)
      /\ UNCHANGED <<meta, mistaken>>
  BY AttachesAlike DEF IInv, ReportInv
<1>2. PICK bus \in ToSet(Buses) : \E kept : Attached(This, This.name, kept, GetSlot(bus))
  BY AttachesAlike
<1>3. This.name \in Seq(STRING)
  <2>1. This \in Config
    BY <1>1, ListSets, DefinableDisks DEF This
  <2> QED BY <2>1 DEF Config
<1>4. /\ up'.at = "configure" /\ up'.todo = Tail(up.todo)
      /\ up'.made = Reported(This, This.name).made
  BY <1>1, <1>2 DEF Attached, Reported, NextOne, UpInv
<1>5. This.name \in FilesOf(This.name)
  BY DEF FilesOf
<1> QED BY <1>1, <1>3, <1>4, <1>5, OneMoreReported

\* Vagrant stores reports, and an up that ends leaves them stored.
LEMMA EndKeepsReports ==
  ASSUME UpInv, ReportInv, Rewrite \/ Snapshot \/ CreateDisk \/ EndUp \/ EndEarly
  PROVE  ReportInv'
<1> USE DEF Configuring
<1>1. Reports' = Reports
  <2>1. mistaken' = mistaken
    BY DEF Rewrite, Snapshot, CreateDisk, EndUp, EndEarly
  <2> QED BY <2>1 DEF Reports
<1>2. meta \in Seq(Reports) /\ up.made \in [disk: Seq(Reports), dvd: Seq(Reports)]
  BY DEF ReportInv
<1>3. CASE Rewrite \/ Snapshot
  <2>1. UNCHANGED <<meta, up>> /\ up.at = "idle"
    BY <1>3 DEF Rewrite, Snapshot, At
  <2> QED BY <1>1, <1>2, <2>1 DEF ReportInv
<1>4. CASE CreateDisk
  <2>1. /\ up.todo \in Seq(Definable)
        /\ UNCHANGED meta /\ up'.at = "attach" /\ up'.todo = up.todo /\ up'.made = up.made
    BY <1>4 DEF CreateDisk, Missing, At, UpInv, ReportInv
  <2> QED BY <1>1, <1>2, <2>1 DEF ReportInv
<1>5. CASE EndUp \/ EndEarly
  <2>1. up'.at = "idle" /\ up'.made = [disk |-> <<>>, dvd |-> <<>>]
    <3>1. up' = NoUp
      BY <1>5 DEF EndUp, EndEarly
    <3> QED BY <3>1 DEF NoUp
  <2>2. meta' = meta \/ meta' = up.made.disk \o up.made.dvd
    BY <1>5 DEF EndUp, EndEarly
  <2>3. up.made.disk \in Seq(Reports) /\ up.made.dvd \in Seq(Reports)
    BY <1>2
  <2> HIDE DEF Configuring
  <2>4. meta' \in Seq(Reports')
    <3>1. up.made.disk \o up.made.dvd \in Seq(Reports)
      BY <2>3, ConcatProperties
    <3> QED BY <1>1, <1>2, <2>2, <3>1
  <2>5. up'.made \in [disk: Seq(Reports'), dvd: Seq(Reports')]
    BY <2>1
  <2> QED BY <2>1, <2>4, <2>5 DEF ReportInv, Configuring
<1> QED BY <1>3, <1>4, <1>5

\* What holds of names and files at first.
LEMMA InitNameInv ==
  ASSUME BoxesApart
  PROVE  Init => NameInv
<1> SUFFICES ASSUME Init PROVE NameInv
  OBVIOUS
<1>1. DefinedInv
  BY DEF Init, DefinedInv
<1>2. ReportInv
  BY DEF Init, ReportInv, NoUp, Configuring
<1>3. PrimaryInv
  <2>1. PICK b \in Boxes : vmx = b.vmx
    BY DEF Init
  <2> SUFFICES ASSUME NEW e \in ToSet(vmx), e.slot = <<"scsi", 0, 0>>, NEW n \in Names
               PROVE  e.file \notin FilesOf(n)
    BY DEF PrimaryInv
  <2>2. PICK v \in Vagrantfiles : \E d \in SecondDisks(v) : n = d.name
    BY DEF Names, Definable, SecondDisks
  <2> QED BY <2>1, <2>2 DEF BoxesApart, FilesOf
<1> QED BY <1>1, <1>2, <1>3 DEF NameInv

\* Every step keeps what holds of names and files.
LEMMA NextNameInv ==
  ASSUME PlainNames
  PROVE  IInv /\ NameInv /\ [Next]_vars => NameInv'
<1> SUFFICES ASSUME IInv, NameInv, [Next]_vars PROVE NameInv'
  OBVIOUS
<1>1. VmxInv /\ UpInv /\ DefinedInv /\ ReportInv /\ PrimaryInv
  BY DEF IInv, NameInv
<1>2. CASE UNCHANGED vars
  <2>1. UNCHANGED <<defined, meta, up, vmx, mistaken>>
    BY <1>2 DEF vars
  <2>2. Reports' = Reports /\ Spared(This)' = Spared(This)
    BY <2>1 DEF Reports, Spared, IsDefined, This
  <2> QED BY <1>1, <2>1, <2>2 DEF NameInv, DefinedInv, ReportInv, PrimaryInv, Configuring, ToSet
<1>3. CASE Next
  <2>1. DefinedInv'
    <3>1. CASE BeginUp
      BY <3>1, DefinableDisks DEF BeginUp, DefinedInv
    <3>2. CASE ~BeginUp
      BY <1>1, <1>3, <3>2
      DEF Next, Configure, Rewrite, Snapshot, CleanUp, RemoveFile, RemoveEntry, BeginConfigure,
          GrowOrKeep, AttachDvd, AttachGiven, CreateDisk, AttachCreated, EndUp, EndEarly, DefinedInv
    <3> QED BY <3>1, <3>2
  <2>2. PrimaryInv'
    BY <1>1, <1>3, PrimaryKeeps
  <2>3. ReportInv'
    BY <1>1, <1>3, CleanUpKeepsReports, GrowKeepsReports, AttachesKeepReports, EndKeepsReports DEF Next, Configure
  <2> QED BY <2>1, <2>2, <2>3 DEF NameInv
<1> QED BY <1>2, <1>3

\* Only the clean-up takes a file away.
LEMMA OnlyCleanUpRemoves ==
  ASSUME [Next]_vars, ~RemoveFile
  PROVE  DOMAIN files \subseteq DOMAIN files'
<1>1. CASE GrowOrKeep
  <2>1. files' = files \/ \E f, size : files' = [files EXCEPT ![f] = size]
    BY <1>1 DEF GrowOrKeep
  <2> QED BY <2>1
<1>2. CASE Snapshot \/ CreateDisk
  BY <1>2 DEF Snapshot, CreateDisk
<1>3. CASE UNCHANGED files
  BY <1>3
<1>4. UNCHANGED files \/ GrowOrKeep \/ Snapshot \/ CreateDisk
  BY DEF vars, Next, Configure, BeginUp, Rewrite, CleanUp, RemoveEntry, BeginConfigure,
         AttachDvd, AttachGiven, AttachCreated, EndUp, EndEarly
<1> QED BY <1>1, <1>2, <1>3, <1>4

\* What the clean-up deletes is the file of no disk that is defined, nor what is
\* at scsi0:0.
LEMMA RemovedIsUnused ==
  ASSUME PlainNames, UpInv, NameInv, RemoveFile, ~mistaken
  PROVE  /\ DOMAIN files \ DOMAIN files' \subseteq {This.path}
         /\ ~IsDefined(This.path)
         /\ \A e \in ToSet(vmx) : e.file = This.path => e.slot # <<"scsi", 0, 0>>
<1>1. /\ ReportInv /\ PrimaryInv /\ defined \in Seq(Definable)
      /\ up.at = "remove" /\ This.type = "disk" /\ files' = [f \in DOMAIN files \ {This.path} |-> files[f]]
  BY DEF NameInv, DefinedInv, RemoveFile, At
<1>2. up.todo \in Seq(Reports) /\ up.todo # <<>> /\ ~This.primary /\ ~IsDefined(This.name)
  BY <1>1 DEF ReportInv, Spared
<1>3. This.name \in Names /\ This.path \in FilesOf(This.name)
  <2>1. This \in Reports
    BY <1>2, ReportsLeft
  <2> QED BY <1>1, <1>2, <2>1 DEF Reports, Honest
<1>4. ~IsDefined(This.path)
  <2> SUFFICES ASSUME NEW i \in DOMAIN defined, defined[i].name = This.path PROVE FALSE
    BY DEF IsDefined
  <2>1. defined[i] \in Definable
    BY <1>1
  <2>2. defined[i].name = This.name
    BY <1>3, <2>1, FilesDiffer
  <2> QED BY <1>2, <2>2 DEF IsDefined
<1> QED BY <1>1, <1>3, <1>4 DEF PrimaryInv

\* For any boxes and Vagrantfiles with such names: whatever the sequence of ups,
\* edits and snapshots, the clean-up deletes neither the file of a disk that is
\* still defined nor that of the primary one, unless a disk was once found
\* under the name of a numbered one (cap/disk.rb, cleanup_disks).
THEOREM FilesAreKept ==
  ASSUME PlainNames, BoxesApart
  PROVE  Spec => DefinedDiskKeepsItsFile
<1> DEFINE Kept ==
             \A f \in DOMAIN files \ DOMAIN files' :
               ~mistaken => ~IsDefined(f) /\ \A e \in ToSet(vmx) : e.file = f => e.slot # <<"scsi", 0, 0>>
<1>1. Init => NameInv
  BY InitNameInv
<1>2. IInv /\ NameInv /\ [Next]_vars => NameInv'
  BY NextNameInv
<1>3. IInv /\ NameInv /\ [Next]_vars => [Kept]_vars
  <2> SUFFICES ASSUME IInv, NameInv, [Next]_vars PROVE Kept
    OBVIOUS
  <2>1. UpInv
    BY DEF IInv
  <2>2. CASE RemoveFile
    BY <2>1, <2>2, RemovedIsUnused
  <2>3. CASE ~RemoveFile
    BY <2>3, OnlyCleanUpRemoves
  <2> QED BY <2>2, <2>3
<1>4. DefinedDiskKeepsItsFile <=> [][Kept]_vars
  BY DEF DefinedDiskKeepsItsFile
<1> HIDE DEF Kept
<1> QED BY <1>1, <1>2, <1>3, <1>4, InductiveInvariant, PTL DEF Spec
=============================================================================
