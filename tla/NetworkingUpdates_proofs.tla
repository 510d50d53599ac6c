---------------------- MODULE NetworkingUpdates_proofs ----------------------
(***************************************************************************)
(* What is true of the networking updates however many requests, ports,    *)
(* devices and machines there are: an acknowledged forward or device       *)
(* stays, two devices never share a slot, a success leaves every copy of   *)
(* the settings in step.                                                   *)
(*                                                                         *)
(* First facts about the operators on the file, then the invariants of the *)
(* requests, each with the proof that every step keeps it.                 *)
(***************************************************************************)
EXTENDS NetworkingUpdates, FiniteSetTheorems, SequenceTheorems, WellFoundedInduction, TLAPS

-----------------------------------------------------------------------------
(* Counting in finite sets of numbers. *)

\* Every nonempty set of naturals has a least element.
LEMMA LeastNatural ==
  ASSUME NEW T \in SUBSET Nat, T # {}
  PROVE  \E x \in T : \A y \in T : x <= y
<1> DEFINE R == OpToRel(<, Nat)
<1>1. IsWellFoundedOn(R, Nat)
  BY NatLessThanWellFounded
<1>2. \A x, y \in Nat : y < x => <<y, x>> \in R
  BY DEF OpToRel
<1> HIDE DEF R
<1>3. \E x \in T : \A y \in T : ~ (<<y, x>> \in R)
  BY <1>1, WFMin
<1>4. PICK x \in T : \A y \in T : ~ (<<y, x>> \in R)
  BY <1>3
<1>5. ASSUME NEW y \in T PROVE x <= y
  <2>1. x \in Nat /\ y \in Nat
    OBVIOUS
  <2>2. ~ (y < x)
    BY <1>2, <1>4, <2>1
  <2> QED
    BY <2>1, <2>2
<1> QED
  BY <1>5

\* One more number is counted at k exactly when k is in the set.
LEMMA UpToStep ==
  ASSUME NEW K, IsFiniteSet(K), K \subseteq Nat, NEW k \in Nat
  PROVE  /\ IsFiniteSet(UpTo(K, k)) /\ Cardinality(UpTo(K, k)) \in 0..Cardinality(K)
         /\ Cardinality(K) \in Nat
         /\ k >= 1 => Cardinality(UpTo(K, k)) =
              IF k \in K THEN Cardinality(UpTo(K, k - 1)) + 1 ELSE Cardinality(UpTo(K, k - 1))
<1>1. ASSUME NEW j \in Int
      PROVE  /\ IsFiniteSet(UpTo(K, j)) /\ Cardinality(UpTo(K, j)) \in 0..Cardinality(K)
             /\ Cardinality(K) \in Nat
  <2>1. UpTo(K, j) \in SUBSET K
    BY DEF UpTo
  <2>2. IsFiniteSet(UpTo(K, j)) /\ Cardinality(UpTo(K, j)) <= Cardinality(K)
    BY <2>1, FS_Subset
  <2>3. Cardinality(UpTo(K, j)) \in Nat /\ Cardinality(K) \in Nat
    BY <2>2, FS_CardinalityType
  <2> QED BY <2>2, <2>3
<1>2. ASSUME k >= 1, k \in K
      PROVE  Cardinality(UpTo(K, k)) = Cardinality(UpTo(K, k - 1)) + 1
  <2>1. \A i \in K : i \in Nat /\ (i <= k <=> i <= k - 1 \/ i = k)
    OBVIOUS
  <2>2. UpTo(K, k) = UpTo(K, k - 1) \cup {k}
    BY <1>2, <2>1 DEF UpTo
  <2>3. k \notin UpTo(K, k - 1)
    BY DEF UpTo
  <2>4. IsFiniteSet(UpTo(K, k - 1))
    BY <1>1
  <2> QED BY <2>2, <2>3, <2>4, FS_AddElement
<1>3. ASSUME k >= 1, k \notin K
      PROVE  UpTo(K, k) = UpTo(K, k - 1)
  <2>1. \A i \in K : i <= k <=> i <= k - 1
    BY <1>3
  <2> QED BY <2>1 DEF UpTo
<1> QED BY <1>1, <1>2, <1>3

\* The n-th smallest number of a set is one of the set.
LEMMA NthIsAMember ==
  ASSUME NEW m \in Nat, NEW K \in SUBSET (1..m), NEW n \in 1..Cardinality(K)
  PROVE  Nth(K, n) \in K
<1> DEFINE Count(k) == Cardinality(UpTo(K, k))
           T == {k \in Nat : Count(k) >= n}
<1>1. IsFiniteSet(K) /\ K \subseteq Nat /\ Cardinality(K) \in Nat
  <2>1. IsFiniteSet(1..m)
    BY FS_Interval
  <2>2. IsFiniteSet(K)
    BY <2>1, FS_Subset
  <2> QED BY <2>2, FS_CardinalityType
<1>2. UpTo(K, m) = K /\ UpTo(K, 0) = {}
  <2>1. \A i \in K : i <= m /\ ~ (i <= 0)
    OBVIOUS
  <2> QED BY <2>1 DEF UpTo
<1>3. m \in T /\ 0 \notin T
  BY <1>1, <1>2, FS_EmptySet
<1>4. PICK k \in T : \A j \in T : k <= j
  <2> T \in SUBSET Nat
    OBVIOUS
  <2> HIDE DEF T
  <2> QED BY <1>3, LeastNatural
<1>5. k \in Nat /\ k >= 1 /\ k - 1 \in Nat /\ k - 1 \notin T /\ Count(k) >= n
  BY <1>3, <1>4
<1>6. Count(k) \in Nat /\ Count(k - 1) \in Nat /\ Count(k - 1) < n
  <2>1. ASSUME NEW j \in Nat PROVE Count(j) \in Nat
    <3>1. Cardinality(UpTo(K, j)) \in 0..Cardinality(K)
      BY <1>1, UpToStep
    <3> QED BY <1>1, <3>1
  <2> QED BY <1>5, <2>1
<1>7. Count(k) = IF k \in K THEN Count(k - 1) + 1 ELSE Count(k - 1)
  BY <1>1, <1>5, UpToStep
<1>8. k \in K /\ Count(k) = n
  <2> HIDE DEF Count
  <2> QED BY <1>5, <1>6, <1>7
<1> QED BY <1>8 DEF Nth

-----------------------------------------------------------------------------
(* Devices. *)

\* A finite set of devices with one per slot.
OnePerSlot(devices) ==
  /\ IsFiniteSet(devices)
  /\ \A d, e \in devices : d.slot = e.slot => d = e

\* CreateDevice never picks a slot that is in use, whatever gaps there are and
\* whether or not slot 0 is used (networking_file.go, CreateDevice).
THEOREM FreeSlotIsFree ==
  ASSUME NEW used \in SUBSET Nat, IsFiniteSet(used)
  PROVE  FreeSlot(used) \in 1..(Cardinality(used) + 1) /\ FreeSlot(used) \notin used
<1> DEFINE N == Cardinality(used)
           Count(s) == Cardinality(UpTo(used, s))
           Ends(s) == Count(s) < s
           T == {s \in Nat : s >= 1 /\ Ends(s)}
<1>1. N \in Nat /\ \A s \in Nat : Count(s) \in 0..N
  BY UpToStep
<1>2. T \in SUBSET Nat /\ N + 1 \in T
  BY <1>1
<1>3. PICK t \in T : \A j \in T : t <= j
  <2> HIDE DEF T
  <2> QED BY <1>2, LeastNatural
<1>4. t \in 1..(N + 1) /\ Ends(t) /\ \A i \in 1..(t-1) : Count(i) >= i
  BY <1>1, <1>2, <1>3
<1>5. PICK s \in 1..(N + 1) :
        s = FreeSlot(used) /\ Ends(s) /\ \A i \in 1..(s-1) : Count(i) >= i
  BY <1>4 DEF FreeSlot
<1>6. s \notin used
  <2> SUFFICES ASSUME s \in used PROVE FALSE
    OBVIOUS
  <2>1. s \in Nat /\ s >= 1
    BY <1>1
  <2>2. Count(s) = Count(s - 1) + 1
    BY <2>1, UpToStep
  <2>3. Count(s - 1) >= s - 1 /\ Count(s - 1) \in Nat
    <3>1. CASE s = 1
      BY <1>1, <3>1
    <3>2. CASE s # 1
      BY <1>1, <1>5, <2>1, <3>2
    <3> QED BY <3>1, <3>2
  <2> HIDE DEF Count
  <2> QED BY <1>5, <2>1, <2>2, <2>3
<1> QED BY <1>5, <1>6

\* The slots of a finite set of devices are finitely many numbers.
LEMMA UsedSlotsFinite ==
  ASSUME NEW devices \in SUBSET Device, IsFiniteSet(devices)
  PROVE  UsedSlots(devices) \in SUBSET Nat /\ IsFiniteSet(UsedSlots(devices))
<1> DEFINE f == [d \in devices |-> d.slot]
<1>1. f \in Surjection(devices, UsedSlots(devices))
  BY DEF Surjection, UsedSlots
<1>2. IsFiniteSet(UsedSlots(devices))
  BY <1>1, FS_Surjection
<1> QED BY <1>2 DEF UsedSlots, Device

\* Creating, updating and removing a device keep one device per slot.
LEMMA OnePerSlotKept ==
  ASSUME NEW devices \in SUBSET Device, OnePerSlot(devices), NEW s \in Nat, NEW c \in Configs
  PROVE  /\ FreeSlot(UsedSlots(devices)) \in Nat /\ ~HasSlot(devices, FreeSlot(UsedSlots(devices)))
         /\ CreateDevice(devices, c) \in SUBSET Device /\ OnePerSlot(CreateDevice(devices, c))
         /\ UpdateDevice(devices, s, c) \in SUBSET Device /\ OnePerSlot(UpdateDevice(devices, s, c))
         /\ RemoveDevice(devices, s) \in SUBSET Device /\ OnePerSlot(RemoveDevice(devices, s))
<1> DEFINE free == FreeSlot(UsedSlots(devices))
<1>1. free \in Nat /\ free \notin UsedSlots(devices)
  <2>1. UsedSlots(devices) \in SUBSET Nat /\ IsFiniteSet(UsedSlots(devices))
    BY UsedSlotsFinite DEF OnePerSlot
  <2>2. Cardinality(UsedSlots(devices)) \in Nat
    BY <2>1, FS_CardinalityType
  <2> QED BY <2>1, <2>2, FreeSlotIsFree
<1>2. ~HasSlot(devices, free)
  BY <1>1 DEF HasSlot, UsedSlots
<1> HIDE DEF free
<1>3. ASSUME NEW kept \in SUBSET devices, NEW slot \in Nat, ~HasSlot(kept, slot)
      PROVE  LET added == kept \cup {[slot |-> slot, config |-> c]}
             IN added \in SUBSET Device /\ OnePerSlot(added)
  <2>1. IsFiniteSet(kept)
    BY FS_Subset DEF OnePerSlot
  <2>2. IsFiniteSet(kept \cup {[slot |-> slot, config |-> c]})
    BY <2>1, FS_AddElement
  <2> QED BY <1>3, <2>2 DEF OnePerSlot, HasSlot, Device
<1>4. RemoveDevice(devices, s) \in SUBSET devices /\ ~HasSlot(RemoveDevice(devices, s), s)
  BY DEF RemoveDevice, HasSlot
<1>5. OnePerSlot(RemoveDevice(devices, s))
  <2>1. IsFiniteSet(RemoveDevice(devices, s))
    BY <1>4, FS_Subset DEF OnePerSlot
  <2> QED BY <1>4, <2>1 DEF OnePerSlot
<1> QED BY <1>1, <1>2, <1>3, <1>4, <1>5 DEF CreateDevice, UpdateDevice, free

-----------------------------------------------------------------------------
(* What the proofs say of forwards, lines and settings.                      *)

\* A forward as a request that deletes names it: it may have no description.
AnyFwd == [port: Ports, guest: Guests, desc: Vms \cup {NoDesc}]

\* The settings have at most one entry for a port.
OnePerPort(nat) == \A m, n \in nat : m.port = n.port => m = n

\* The last line of its port is the forward, is one for the same guest, or is
\* one that has the forward's description whenever it leads to the same guest.
Effective(fwds, l) == \E k \in DOMAIN fwds : IsLast(fwds, k) /\ fwds[k] = l

InForce(fwds, l) ==
  \E k \in DOMAIN fwds :
    IsLast(fwds, k) /\ fwds[k].on /\ fwds[k].port = l.port /\ fwds[k].guest = l.guest

\* No line for the same forward names another virtual machine.
Clean(fwds, l) == \A k \in DOMAIN fwds : SameForward(fwds[k], l) => fwds[k].desc = l.desc
CleanSet(nat, l) == \A n \in nat : SameForward(n, l) => n.desc = l.desc

\* The settings have the forward once the lines "todo" are added to them.
Refills(todo, nat, l) == IF HasPort(todo, l.port) THEN Effective(todo, l) ELSE l \in nat

\* The file object has the forward once the forwards "todo" are added to it.
Adds(todo, fwds, l) ==
  IF HasPort(todo, l.port) THEN \E k \in DOMAIN todo : IsLast(todo, k) /\ Enabled(todo[k]) = l
  ELSE Effective(fwds, l)

-----------------------------------------------------------------------------
(* Lines of a port. *)

\* The last line of a port, told with the domain of the sequence.
LEMMA IsLastMeans ==
  ASSUME NEW S, NEW s \in Seq(S), NEW k
  PROVE  IsLast(s, k) <=> k \in DOMAIN s /\ \A j \in DOMAIN s : j > k => s[j].port # s[k].port
<1>1. DOMAIN s = 1..Len(s) /\ Len(s) \in Nat
  OBVIOUS
<1> QED BY <1>1 DEF IsLast

\* A port that has lines has a first one, the one HostPortFwd finds, and
\* exactly one last.
LEMMA LinesOfAPort ==
  ASSUME NEW S, NEW s \in Seq(S), NEW p
  PROVE  /\ HasPort(s, p) => /\ HostPortFwd(s, p) \in DOMAIN s /\ s[HostPortFwd(s, p)].port = p
                             /\ \E k \in DOMAIN s : IsLast(s, k) /\ s[k].port = p
         /\ \A j, k \in DOMAIN s : IsLast(s, j) /\ IsLast(s, k) /\ s[j].port = s[k].port => j = k
<1>1. DOMAIN s = 1..Len(s) /\ Len(s) \in Nat
  OBVIOUS
<1> DEFINE T == {k \in DOMAIN s : s[k].port = p}
           U == {Len(s) - k : k \in T}
<1>2. T \in SUBSET Nat /\ U \in SUBSET Nat
  BY <1>1
<1>3. ASSUME HasPort(s, p)
      PROVE  HostPortFwd(s, p) \in DOMAIN s /\ s[HostPortFwd(s, p)].port = p
  <2>1. T # {}
    BY <1>3 DEF HasPort
  <2>2. PICK k \in T : \A j \in T : k <= j
    <3> HIDE DEF T
    <3> QED BY <1>2, <2>1, LeastNatural
  <2>3. k \in DOMAIN s /\ s[k].port = p /\ \A j \in 1..(k-1) : s[j].port # p
    BY <1>1, <2>2
  <2> QED BY <2>3 DEF HostPortFwd
<1>4. ASSUME HasPort(s, p)
      PROVE  \E k \in DOMAIN s : IsLast(s, k) /\ s[k].port = p
  <2>1. U # {}
    BY <1>4 DEF HasPort
  <2>2. PICK u \in U : \A v \in U : u <= v
    <3> HIDE DEF U
    <3> QED BY <1>2, <2>1, LeastNatural
  <2>3. PICK k \in T : u = Len(s) - k
    BY <2>2
  <2>4. \A j \in T : j <= k
    <3> TAKE j \in T
    <3>1. Len(s) - j \in U
      OBVIOUS
    <3>2. j \in Int /\ k \in Int /\ Len(s) - k <= Len(s) - j
      BY <2>2, <2>3, <3>1, <1>2
    <3> QED BY <3>2, <1>1
  <2>5. \A j \in DOMAIN s : j > k => s[j].port # s[k].port
    BY <2>3, <2>4, <1>1
  <2> QED BY <2>3, <2>5, IsLastMeans
<1>5. ASSUME NEW j \in DOMAIN s, NEW k \in DOMAIN s, IsLast(s, j), IsLast(s, k), s[j].port = s[k].port
      PROVE  j = k
  BY <1>1, <1>5, IsLastMeans
<1> QED BY <1>3, <1>4, <1>5

\* The head of a list of lines decides about its port unless a later line does.
LEMMA TailLines ==
  ASSUME NEW S, NEW s \in Seq(S), s # <<>>, NEW p
  PROVE  /\ Head(s) \in S /\ Tail(s) \in Seq(S) /\ 1 \in DOMAIN s /\ Head(s) = s[1]
         /\ HasPort(s, p) <=> Head(s).port = p \/ HasPort(Tail(s), p)
         /\ \A k \in DOMAIN Tail(s) :
              k + 1 \in DOMAIN s /\ Tail(s)[k] = s[k + 1] /\ (IsLast(Tail(s), k) <=> IsLast(s, k + 1))
         /\ \A k \in DOMAIN s : k # 1 => k - 1 \in DOMAIN Tail(s)
         /\ IsLast(s, 1) <=> ~HasPort(Tail(s), Head(s).port)
<1> DEFINE t == Tail(s)
<1>1. DOMAIN s = 1..Len(s) /\ Len(s) \in Nat /\ Len(s) >= 1 /\ Head(s) = s[1] /\ Head(s) \in S
  OBVIOUS
<1>2. /\ t \in Seq(S) /\ DOMAIN t = 1..(Len(s) - 1)
      /\ \A k \in 1..(Len(s) - 1) : t[k] = s[k + 1]
  OBVIOUS
<1> HIDE DEF t
<1>3. \A k \in DOMAIN s : k # 1 => k - 1 \in DOMAIN t /\ t[k - 1] = s[k]
  BY <1>1, <1>2
<1>4. \A k \in DOMAIN t : k + 1 \in DOMAIN s /\ t[k] = s[k + 1]
  BY <1>1, <1>2
<1>5. HasPort(s, p) <=> Head(s).port = p \/ HasPort(t, p)
  BY <1>1, <1>3, <1>4 DEF HasPort
<1>6. ASSUME NEW k \in DOMAIN t
      PROVE  IsLast(t, k) <=> IsLast(s, k + 1)
  <2>1. ASSUME IsLast(t, k), NEW j \in DOMAIN s, j > k + 1
        PROVE  s[j].port # s[k + 1].port
    <3>1. j - 1 \in DOMAIN t /\ t[j - 1] = s[j] /\ j - 1 > k
      BY <1>1, <1>2, <1>3, <2>1
    <3> QED BY <1>2, <1>4, <2>1, <3>1, IsLastMeans
  <2>2. ASSUME IsLast(s, k + 1), NEW j \in DOMAIN t, j > k
        PROVE  t[j].port # t[k].port
    <3>1. j + 1 \in DOMAIN s /\ j + 1 > k + 1
      BY <1>1, <1>2, <2>2
    <3> QED BY <1>4, <2>2, <3>1, IsLastMeans
  <2> QED BY <1>2, <1>4, <2>1, <2>2, IsLastMeans
<1>7. IsLast(s, 1) <=> ~HasPort(t, Head(s).port)
  <2>1. ASSUME IsLast(s, 1), NEW k \in DOMAIN t
        PROVE  t[k].port # Head(s).port
    <3>1. k + 1 \in DOMAIN s /\ k + 1 > 1
      BY <1>1, <1>2
    <3> QED BY <1>1, <1>4, <2>1, <3>1, IsLastMeans
  <2>2. ASSUME ~HasPort(t, Head(s).port), NEW j \in DOMAIN s, j > 1
        PROVE  s[j].port # s[1].port
    BY <1>1, <1>3, <2>2 DEF HasPort
  <2> QED BY <1>1, <2>1, <2>2, IsLastMeans DEF HasPort
<1> QED BY <1>1, <1>2, <1>3, <1>4, <1>5, <1>6, <1>7 DEF t

-----------------------------------------------------------------------------
(* Merging the settings into the lines. *)

\* Merging changes nothing of a line but its description.
LEMMA MergeLines ==
  ASSUME NEW fwds \in Seq(PortFwd), NEW nat \in SUBSET PortFwd
  PROVE  /\ MergeFwds(fwds, nat) \in Seq(PortFwd)
         /\ DOMAIN MergeFwds(fwds, nat) = DOMAIN fwds
         /\ \A k \in DOMAIN fwds :
              LET m == MergeFwds(fwds, nat)[k]
              IN /\ m \in PortFwd /\ fwds[k] \in PortFwd
                 /\ m.port = fwds[k].port /\ m.guest = fwds[k].guest /\ m.on = fwds[k].on
                 /\ \/ m.desc = fwds[k].desc /\ ~\E n \in nat : SameForward(n, fwds[k])
                    \/ \E n \in nat : SameForward(n, fwds[k]) /\ m.desc = n.desc
         /\ \A k : IsLast(MergeFwds(fwds, nat), k) <=> IsLast(fwds, k)
<1> DEFINE M == MergeFwds(fwds, nat)
<1>1. DOMAIN fwds = 1..Len(fwds) /\ Len(fwds) \in Nat /\ DOMAIN M = DOMAIN fwds
  BY DEF MergeFwds
<1>2. ASSUME NEW k \in DOMAIN fwds
      PROVE  /\ M[k] \in PortFwd /\ fwds[k] \in PortFwd
             /\ M[k].port = fwds[k].port /\ M[k].guest = fwds[k].guest /\ M[k].on = fwds[k].on
             /\ \/ M[k].desc = fwds[k].desc /\ ~\E n \in nat : SameForward(n, fwds[k])
                \/ \E n \in nat : SameForward(n, fwds[k]) /\ M[k].desc = n.desc
  <2>1. fwds[k] \in PortFwd
    OBVIOUS
  <2>2. CASE \E n \in nat : SameForward(n, fwds[k])
    <3>1. PICK n \in nat : SameForward(n, fwds[k]) /\ M[k] = [fwds[k] EXCEPT !.desc = n.desc]
      BY <1>1, <2>2 DEF MergeFwds
    <3>2. n \in PortFwd
      OBVIOUS
    <3> QED BY <2>1, <3>1, <3>2 DEF PortFwd
  <2>3. CASE ~\E n \in nat : SameForward(n, fwds[k])
    BY <1>1, <2>1, <2>3 DEF MergeFwds
  <2> QED BY <2>2, <2>3
<1>3. M \in Seq(PortFwd)
  <2>1. M \in [1..Len(fwds) -> PortFwd]
    BY <1>1, <1>2 DEF MergeFwds
  <2> QED BY <1>1, <2>1
<1>4. ASSUME NEW k PROVE IsLast(M, k) <=> IsLast(fwds, k)
  <2> HIDE DEF M
  <2> QED BY <1>1, <1>2, <1>3, IsLastMeans
<1> QED BY <1>1, <1>2, <1>3, <1>4

\* A forward that is in the settings and in force in the file is, after the
\* merge, in effect with its description.
LEMMA MergeRestores ==
  ASSUME NEW fwds \in Seq(PortFwd), NEW nat \in SUBSET PortFwd, OnePerPort(nat),
         NEW l \in nat, l.on, InForce(fwds, l)
  PROVE  Effective(MergeFwds(fwds, nat), l) /\ Clean(MergeFwds(fwds, nat), l)
<1> DEFINE M == MergeFwds(fwds, nat)
<1>1. ASSUME NEW k \in DOMAIN fwds, fwds[k].port = l.port, fwds[k].guest = l.guest
      PROVE  M[k].desc = l.desc
  <2>1. SameForward(l, fwds[k])
    BY <1>1 DEF SameForward
  <2>2. PICK n \in nat : SameForward(n, fwds[k]) /\ M[k].desc = n.desc
    BY <2>1, MergeLines
  <2>3. n = l
    BY <1>1, <2>2 DEF SameForward, OnePerPort
  <2> QED BY <2>2, <2>3
<1>2. Clean(M, l)
  <2> SUFFICES ASSUME NEW k \in DOMAIN M, SameForward(M[k], l) PROVE M[k].desc = l.desc
    BY DEF Clean
  <2>1. k \in DOMAIN fwds /\ fwds[k].port = l.port /\ fwds[k].guest = l.guest
    BY MergeLines DEF SameForward
  <2> QED BY <1>1, <2>1
<1>3. PICK k \in DOMAIN fwds :
        IsLast(fwds, k) /\ fwds[k].on /\ fwds[k].port = l.port /\ fwds[k].guest = l.guest
  BY DEF InForce
<1>4. IsLast(M, k) /\ k \in DOMAIN M /\ M[k] \in PortFwd /\ M[k].port = l.port /\ M[k].guest = l.guest
        /\ M[k].on /\ M[k].desc = l.desc
  BY <1>1, <1>3, MergeLines
<1>5. M[k] = l
  <2> l \in PortFwd
    OBVIOUS
  <2> QED BY <1>4 DEF PortFwd
<1> QED BY <1>2, <1>4, <1>5 DEF Effective

\* A forward in effect stays so when no entry of the settings names another
\* machine for it.
LEMMA MergeKeeps ==
  ASSUME NEW fwds \in Seq(PortFwd), NEW nat \in SUBSET PortFwd, NEW l,
         l.on, Effective(fwds, l), CleanSet(nat, l)
  PROVE  Effective(MergeFwds(fwds, nat), l)
<1> DEFINE M == MergeFwds(fwds, nat)
<1>1. PICK k \in DOMAIN fwds : IsLast(fwds, k) /\ fwds[k] = l
  BY DEF Effective
<1>2. IsLast(M, k) /\ k \in DOMAIN M /\ M[k] \in PortFwd /\ l \in PortFwd /\ M[k].port = l.port
        /\ M[k].guest = l.guest /\ M[k].on = l.on
        /\ (M[k].desc = l.desc \/ \E n \in nat : SameForward(n, l) /\ M[k].desc = n.desc)
  BY <1>1, MergeLines
<1>3. M[k].desc = l.desc
  BY <1>2 DEF CleanSet
<1> HIDE DEF M
<1>4. M[k].on = TRUE /\ l.on = TRUE
  BY <1>2 DEF PortFwd
<1>5. M[k] = l
  <2> DEFINE m == M[k]
  <2>1. m \in PortFwd /\ l \in PortFwd /\ m.port = l.port /\ m.guest = l.guest /\ m.desc = l.desc
    BY <1>2, <1>3
  <2>2. m.on = TRUE
    BY <1>4
  <2> HIDE DEF m
  <2>3. m = l
    BY <1>4, <2>1, <2>2 DEF PortFwd
  <2> QED BY <2>3 DEF m
<1> QED BY <1>2, <1>5 DEF Effective, M

-----------------------------------------------------------------------------
(* Adding and removing forwards. *)

\* What AddPortFwd and RemovePortFwd do to the lines, whatever was there: they
\* put lines of the forward's own port at the first one's place and at the end.
LEMMA ChangedLines ==
  ASSUME NEW fwds \in Seq(PortFwd), NEW f \in AnyFwd \cup PortFwd
  PROVE  /\ AddPortFwd(fwds, f) \in Seq(PortFwd) /\ RemovePortFwd(fwds, f) \in Seq(PortFwd)
         /\ Effective(AddPortFwd(fwds, f), Enabled(f))
         /\ \A l : l.port # f.port =>
              /\ Effective(fwds, l) => /\ Effective(AddPortFwd(fwds, f), l)
                                       /\ Effective(RemovePortFwd(fwds, f), l)
              /\ Clean(fwds, l) => Clean(AddPortFwd(fwds, f), l) /\ Clean(RemovePortFwd(fwds, f), l)
<1>1. /\ Enabled(f) \in PortFwd /\ Enabled(f).port = f.port
      /\ Disabled(f) \in PortFwd /\ Disabled(f).port = f.port
  BY DEF Enabled, Disabled, PortFwd, AnyFwd
<1>2. DOMAIN fwds = 1..Len(fwds) /\ Len(fwds) \in Nat /\ \A k \in DOMAIN fwds : fwds[k] \in PortFwd
  OBVIOUS
\* Changing a line of the port where it stands.
<1>3. ASSUME NEW h \in DOMAIN fwds, fwds[h].port = f.port, NEW x \in PortFwd, x.port = f.port
      PROVE  LET c == [fwds EXCEPT ![h] = x]
             IN /\ c \in Seq(PortFwd)
                /\ \A l : l.port # f.port => /\ Effective(fwds, l) => Effective(c, l)
                                             /\ Clean(fwds, l) => Clean(c, l)
  <2> DEFINE c == [fwds EXCEPT ![h] = x]
  <2>1. /\ c \in Seq(PortFwd) /\ DOMAIN c = DOMAIN fwds
        /\ \A k \in DOMAIN fwds : c[k] = IF k = h THEN x ELSE fwds[k]
    BY <1>2
  <2> HIDE DEF c
  <2>2. ASSUME NEW l, l.port # f.port, Effective(fwds, l)
        PROVE  Effective(c, l)
    <3>1. PICK k \in DOMAIN fwds : IsLast(fwds, k) /\ fwds[k] = l
      BY <2>2 DEF Effective
    <3>2. k # h /\ c[k] = l
      BY <1>3, <2>1, <2>2, <3>1
    <3>3. IsLast(c, k)
      <4>1. \A j \in DOMAIN c : j > k => c[j].port # l.port
        BY <1>3, <2>1, <2>2, <3>1, IsLastMeans
      <4> QED BY <2>1, <3>2, <4>1, IsLastMeans
    <3> QED BY <2>1, <3>2, <3>3 DEF Effective
  <2>3. ASSUME NEW l, l.port # f.port, Clean(fwds, l)
        PROVE  Clean(c, l)
    BY <1>3, <2>1, <2>3 DEF Clean, SameForward
  <2> QED BY <2>1, <2>2, <2>3 DEF c
\* Appending one.
<1>4. ASSUME NEW c \in Seq(PortFwd), NEW x \in PortFwd, x.port = f.port
      PROVE  /\ Append(c, x) \in Seq(PortFwd) /\ Effective(Append(c, x), x)
             /\ \A l : l.port # f.port => /\ Effective(c, l) => Effective(Append(c, x), l)
                                          /\ Clean(c, l) => Clean(Append(c, x), l)
  <2> DEFINE a == Append(c, x)
  <2>1. /\ a \in Seq(PortFwd) /\ Len(c) \in Nat /\ DOMAIN c = 1..Len(c) /\ DOMAIN a = 1..(Len(c) + 1)
        /\ a[Len(c) + 1] = x /\ \A k \in 1..Len(c) : a[k] = c[k]
    BY AppendProperties
  <2> HIDE DEF a
  <2>2. \A k \in DOMAIN a : k = Len(c) + 1 \/ k \in DOMAIN c
    BY <2>1
  <2>3. Effective(a, x)
    <3>1. IsLast(a, Len(c) + 1)
      BY <2>1, IsLastMeans
    <3> QED BY <2>1, <3>1 DEF Effective
  <2>4. ASSUME NEW l, l.port # f.port, Effective(c, l)
        PROVE  Effective(a, l)
    <3>1. PICK k \in DOMAIN c : IsLast(c, k) /\ c[k] = l
      BY <2>4 DEF Effective
    <3>2. k \in DOMAIN a /\ a[k] = l
      BY <2>1, <3>1
    <3>3. \A j \in DOMAIN a : j > k => a[j].port # l.port
      <4> TAKE j \in DOMAIN a
      <4>1. CASE j = Len(c) + 1
        BY <1>4, <2>1, <2>4, <4>1
      <4>2. CASE j \in DOMAIN c
        BY <2>1, <3>1, <4>2, IsLastMeans
      <4> QED BY <2>2, <4>1, <4>2
    <3>4. IsLast(a, k)
      BY <2>1, <3>2, <3>3, IsLastMeans
    <3> QED BY <3>2, <3>4 DEF Effective
  <2>5. ASSUME NEW l, l.port # f.port, Clean(c, l)
        PROVE  Clean(a, l)
    <3> SUFFICES ASSUME NEW k \in DOMAIN a, SameForward(a[k], l) PROVE a[k].desc = l.desc
      BY DEF Clean
    <3>1. k \in DOMAIN c /\ a[k] = c[k]
      BY <1>4, <2>1, <2>2, <2>5 DEF SameForward
    <3> QED BY <2>5, <3>1 DEF Clean
  <2> QED BY <2>1, <2>3, <2>4, <2>5 DEF a
<1>5. CASE HasPort(fwds, f.port)
  <2> DEFINE h == HostPortFwd(fwds, f.port)
             c == [fwds EXCEPT ![h] = Enabled(f)]
             x == [fwds[h] EXCEPT !.on = FALSE]
  <2>1. h \in DOMAIN fwds /\ fwds[h].port = f.port
    BY <1>5, LinesOfAPort
  <2>2. x \in PortFwd /\ x.port = f.port
    <3> HIDE DEF h
    <3> QED BY <1>2, <2>1 DEF PortFwd
  <2>3. AddPortFwd(fwds, f) = Append(c, Enabled(f))
    BY <1>5 DEF AddPortFwd
  <2>4. RemovePortFwd(fwds, f) = [fwds EXCEPT ![h] = x]
    BY <1>5 DEF RemovePortFwd
  <2> HIDE DEF h, x
  <2>5. /\ c \in Seq(PortFwd)
        /\ \A l : l.port # f.port => /\ Effective(fwds, l) => Effective(c, l)
                                     /\ Clean(fwds, l) => Clean(c, l)
    BY <1>1, <1>3, <2>1
  <2>6. /\ RemovePortFwd(fwds, f) \in Seq(PortFwd)
        /\ \A l : l.port # f.port => /\ Effective(fwds, l) => Effective(RemovePortFwd(fwds, f), l)
                                     /\ Clean(fwds, l) => Clean(RemovePortFwd(fwds, f), l)
    BY <1>3, <2>1, <2>2, <2>4
  <2> HIDE DEF c
  <2> QED BY <1>1, <1>4, <2>3, <2>5, <2>6
<1>6. CASE ~HasPort(fwds, f.port)
  <2>1. AddPortFwd(fwds, f) = Append(fwds, Enabled(f)) /\ RemovePortFwd(fwds, f) = Append(fwds, Disabled(f))
    BY <1>6 DEF AddPortFwd, RemovePortFwd
  <2> QED BY <1>1, <1>4, <2>1
<1> QED BY <1>5, <1>6

\* One turn of AddPortFwd's loop brings the object nearer to what is asked.
LEMMA AddsStep ==
  ASSUME NEW todo \in Seq(AnyFwd), todo # <<>>, NEW fwds \in Seq(PortFwd), NEW l,
         Adds(todo, fwds, l)
  PROVE  Adds(Tail(todo), AddPortFwd(fwds, Head(todo)), l)
<1> DEFINE f == Head(todo)
           t == Tail(todo)
<1>1. /\ f \in AnyFwd /\ t \in Seq(AnyFwd) /\ f = todo[1]
      /\ HasPort(todo, l.port) <=> f.port = l.port \/ HasPort(t, l.port)
      /\ \A k \in DOMAIN t :
           k + 1 \in DOMAIN todo /\ t[k] = todo[k + 1] /\ (IsLast(t, k) <=> IsLast(todo, k + 1))
      /\ \A k \in DOMAIN todo : k # 1 => k - 1 \in DOMAIN t
      /\ IsLast(todo, 1) <=> ~HasPort(t, f.port)
  BY TailLines
<1>2. /\ Effective(AddPortFwd(fwds, f), Enabled(f))
      /\ l.port # f.port /\ Effective(fwds, l) => Effective(AddPortFwd(fwds, f), l)
  BY <1>1, ChangedLines
<1>3. \A x : Enabled(x).port = x.port
  BY DEF Enabled
<1> HIDE DEF f, t
<1>4. CASE HasPort(t, l.port)
  <2>1. PICK k \in DOMAIN todo : IsLast(todo, k) /\ Enabled(todo[k]) = l
    BY <1>1, <1>4 DEF Adds
  <2>2. todo[k].port = l.port
    BY <1>3, <2>1
  <2>3. k # 1
    BY <1>1, <1>4, <2>1, <2>2
  <2>4. k \in Int /\ (k - 1) + 1 = k
    BY <2>1
  <2>5. k - 1 \in DOMAIN t /\ IsLast(t, k - 1) /\ t[k - 1] = todo[k]
    BY <1>1, <2>1, <2>3, <2>4
  <2> QED BY <1>4, <2>1, <2>5 DEF Adds, f, t
<1>5. CASE ~HasPort(t, l.port) /\ f.port = l.port
  <2>1. PICK k \in DOMAIN todo : IsLast(todo, k) /\ Enabled(todo[k]) = l
    BY <1>1, <1>5 DEF Adds
  <2>2. todo[k].port = l.port
    BY <1>3, <2>1
  <2>3. k = 1
    <3> SUFFICES ASSUME k # 1 PROVE FALSE
      OBVIOUS
    <3>1. k \in Int /\ (k - 1) + 1 = k
      BY <2>1
    <3>2. k - 1 \in DOMAIN t /\ t[k - 1] = todo[k]
      BY <1>1, <2>1, <3>1
    <3> QED BY <1>5, <2>2, <3>2 DEF HasPort
  <2>4. Effective(AddPortFwd(fwds, f), l)
    BY <1>1, <1>2, <2>1, <2>3
  <2> QED BY <1>5, <2>4 DEF Adds, f, t
<1>6. CASE ~HasPort(t, l.port) /\ f.port # l.port
  <2>1. Effective(fwds, l)
    BY <1>1, <1>6 DEF Adds
  <2>2. Effective(AddPortFwd(fwds, f), l)
    BY <1>2, <1>6, <2>1
  <2> QED BY <1>6, <2>2 DEF Adds, f, t
<1> QED BY <1>4, <1>5, <1>6

-----------------------------------------------------------------------------
(* Refilling the settings, and VMware's own writing of the file. *)

\* One turn of MultiAdd's loop: the entry added replaces that of its port.
LEMMA RefillsStep ==
  ASSUME NEW todo \in Seq(PortFwd), todo # <<>>, NEW nat \in SUBSET PortFwd
  PROVE  /\ NatAdd(nat, Head(todo)) \in SUBSET PortFwd
         /\ OnePerPort(nat) => OnePerPort(NatAdd(nat, Head(todo)))
         /\ \A l : Refills(todo, nat, l) => Refills(Tail(todo), NatAdd(nat, Head(todo)), l)
         /\ \A l : Clean(todo, l) /\ CleanSet(nat, l) =>
              Clean(Tail(todo), l) /\ CleanSet(NatAdd(nat, Head(todo)), l)
<1> DEFINE f == Head(todo)
           t == Tail(todo)
           new == NatAdd(nat, f)
<1>1. /\ f \in PortFwd /\ t \in Seq(PortFwd) /\ f = todo[1] /\ 1 \in DOMAIN todo
      /\ \A p : HasPort(todo, p) <=> f.port = p \/ HasPort(t, p)
      /\ \A k \in DOMAIN t :
           k + 1 \in DOMAIN todo /\ t[k] = todo[k + 1] /\ (IsLast(t, k) <=> IsLast(todo, k + 1))
      /\ \A k \in DOMAIN todo : k # 1 => k - 1 \in DOMAIN t
      /\ IsLast(todo, 1) <=> ~HasPort(t, f.port)
  BY TailLines
<1>2. \A n : n \in new <=> (n \in nat /\ n.port # f.port) \/ n = f
  BY DEF NatAdd, Conflict
<1> HIDE DEF f, t, new
<1>3. new \in SUBSET PortFwd /\ (OnePerPort(nat) => OnePerPort(new))
  BY <1>1, <1>2 DEF OnePerPort
<1>4. ASSUME NEW l, Refills(todo, nat, l)
      PROVE  Refills(t, new, l)
  <2>1. CASE HasPort(todo, l.port)
    <3>1. PICK k \in DOMAIN todo : IsLast(todo, k) /\ todo[k] = l
      BY <1>4, <2>1 DEF Refills, Effective
    <3>2. CASE k = 1
      <4>1. ~HasPort(t, l.port) /\ l = f
        BY <1>1, <3>1, <3>2
      <4> QED BY <1>2, <4>1 DEF Refills
    <3>3. CASE k # 1
      <4>1. k \in Int /\ (k - 1) + 1 = k
        BY <3>1
      <4>2. k - 1 \in DOMAIN t /\ IsLast(t, k - 1) /\ t[k - 1] = l
        BY <1>1, <3>1, <3>3, <4>1
      <4> QED BY <4>2 DEF Refills, Effective, HasPort
    <3> QED BY <3>2, <3>3
  <2>2. CASE ~HasPort(todo, l.port)
    <3>1. l \in nat /\ f.port # l.port /\ ~HasPort(t, l.port)
      BY <1>1, <1>4, <2>2 DEF Refills
    <3> QED BY <1>2, <3>1 DEF Refills
  <2> QED BY <2>1, <2>2
<1>5. ASSUME NEW l, Clean(todo, l), CleanSet(nat, l)
      PROVE  Clean(t, l) /\ CleanSet(new, l)
  <2>1. Clean(t, l)
    BY <1>1, <1>5 DEF Clean
  <2>2. SameForward(f, l) => f.desc = l.desc
    BY <1>1, <1>5 DEF Clean
  <2> QED BY <1>2, <1>5, <2>1, <2>2 DEF CleanSet
<1> QED BY <1>3, <1>4, <1>5 DEF f, t, new

\* VMware's writing of the file changes nothing but descriptions.
LEMMA StrippedFile ==
  ASSUME NEW c \in Contents
  PROVE  /\ Stripped(c) \in Contents /\ Stripped(c).devices = c.devices
         /\ Served(Stripped(c).fwds) = Served(c.fwds)
         /\ \A l : InForce(c.fwds, l) => InForce(Stripped(c).fwds, l)
<1> DEFINE f == c.fwds
           g == [k \in DOMAIN f |-> [f[k] EXCEPT !.desc = NoDesc]]
<1>1. /\ f \in Seq(PortFwd) /\ DOMAIN f = 1..Len(f) /\ Len(f) \in Nat
      /\ \A k \in DOMAIN f : f[k] \in PortFwd
  BY DEF Contents
<1>2. Stripped(c) = [c EXCEPT !.fwds = g]
  BY DEF Stripped
<1>3. /\ DOMAIN g = DOMAIN f
      /\ \A k \in DOMAIN f : /\ g[k] \in PortFwd /\ g[k].port = f[k].port
                             /\ g[k].guest = f[k].guest /\ g[k].on = f[k].on
  <2> HIDE DEF f
  <2> QED BY <1>1 DEF PortFwd
<1>4. g \in Seq(PortFwd)
  <2>1. g \in [1..Len(f) -> PortFwd]
    <3>1. \A k \in DOMAIN f : [f[k] EXCEPT !.desc = NoDesc] \in PortFwd
      <4> HIDE DEF f
      <4> QED BY <1>1 DEF PortFwd
    <3> QED BY <1>1, <3>1
  <2> QED BY <1>1, <2>1
<1>5. Stripped(c) \in Contents /\ Stripped(c).devices = c.devices /\ Stripped(c).fwds = g
  <2> HIDE DEF g
  <2> QED BY <1>2, <1>4 DEF Contents
<1> HIDE DEF f, g
<1>6. ASSUME NEW k
      PROVE  IsLast(g, k) <=> IsLast(f, k)
  <2>1. IsLast(g, k) <=> k \in DOMAIN g /\ \A j \in DOMAIN g : j > k => g[j].port # g[k].port
    BY <1>4, IsLastMeans
  <2>2. IsLast(f, k) <=> k \in DOMAIN f /\ \A j \in DOMAIN f : j > k => f[j].port # f[k].port
    BY <1>1, IsLastMeans
  <2> QED BY <1>3, <2>1, <2>2
<1>7. Served(g) = Served(f)
  <2>1. {i \in DOMAIN g : IsLast(g, i) /\ g[i].on} = {i \in DOMAIN f : IsLast(f, i) /\ f[i].on}
    BY <1>3, <1>6
  <2> DEFINE K == {i \in DOMAIN f : IsLast(f, i) /\ f[i].on}
  <2>2. \A k \in K : g[k].port = f[k].port /\ g[k].guest = f[k].guest
    BY <1>3
  <2>3. Served(g) = {[port |-> g[k].port, guest |-> g[k].guest] : k \in K}
    BY <2>1 DEF Served
  <2>4. Served(f) = {[port |-> f[k].port, guest |-> f[k].guest] : k \in K}
    BY DEF Served
  <2> HIDE DEF K
  <2> QED BY <2>2, <2>3, <2>4
<1>8. \A l : InForce(f, l) => InForce(g, l)
  BY <1>3, <1>6 DEF InForce
<1> QED BY <1>5, <1>7, <1>8 DEF f

-----------------------------------------------------------------------------
(* Operations and the file, by type. *)

\* What an operation has, by its kind.
LEMMA OperationFields ==
  ASSUME NEW op \in Operation
  PROVE  /\ op.kind \in {"add", "delete"} => op.fwds \in Seq(AnyFwd)
         /\ op.kind = "create" => op.config \in Configs
         /\ op.kind = "update" => op.slot \in Nat /\ op.config \in Configs
         /\ op.kind = "remove" => op.slot \in Nat
         /\ op.kind = "reserve" => op.mac \in Macs /\ op.addr \in IPs
         /\ op.kind = "prune" => op \in PruneOp
         /\ op.kind = "verify" => op \in VerifyOp
<1>1. ASSUME op \in AddOp PROVE op.fwds \in Seq(AnyFwd) /\ op.kind = "add"
  <2>1. op.fwds \in Seq(Fwd) /\ op.kind = "add"
    BY <1>1 DEF AddOp
  <2>2. Fwd \subseteq AnyFwd
    BY DEF Fwd, AnyFwd
  <2> QED BY <2>1, <2>2
<1>2. ASSUME op \in DeleteOp PROVE op.fwds \in Seq(AnyFwd) /\ op.kind = "delete"
  BY <1>2 DEF DeleteOp, AnyFwd
<1> QED
  BY <1>1, <1>2 DEF Operation, PruneOp, CreateOp, UpdateOp, RemoveOp, ReserveOp, VerifyOp

\* The operations that a request's own becomes.
LEMMA OperationsMade ==
  /\ \A fwds \in Seq(AnyFwd) : [kind |-> "delete", fwds |-> fwds] \in Operation
  /\ \A slot \in Nat, c \in Configs : [kind |-> "update", slot |-> slot, config |-> c] \in Operation
  /\ \A op \in VerifyOp : op \in Operation /\ op.kind = "verify" /\ op.try \in 1..3
  /\ \A op \in PruneOp : op \in Operation /\ op.kind = "prune"
  /\ \A try \in 1..3 : [kind |-> "verify", try |-> try] \in VerifyOp
BY DEF Operation, DeleteOp, UpdateOp, VerifyOp, PruneOp, AnyFwd

\* What a prune deletes are forwards of the file, as requests name them.
LEMMA UnusedFwds ==
  ASSUME file.fwds \in Seq(PortFwd), natMem \in SUBSET PortFwd, NEW alive
  PROVE  Unused(alive) \in Seq(AnyFwd)
<1> DEFINE K == {k \in DOMAIN Listed : Listed[k].on /\ Listed[k].desc \in Vms \ alive}
<1>1. Listed \in Seq(PortFwd) /\ Len(Listed) \in Nat /\ DOMAIN Listed = 1..Len(Listed)
  BY MergeLines DEF Listed
<1>2. K \in SUBSET (1..Len(Listed))
  BY <1>1
<1>3. Cardinality(K) \in Nat
  <2>1. IsFiniteSet(1..Len(Listed))
    BY <1>1, FS_Interval
  <2>2. IsFiniteSet(K)
    BY <1>2, <2>1, FS_Subset
  <2> QED BY <2>2, FS_CardinalityType
<1>4. ASSUME NEW n \in 1..Cardinality(K)
      PROVE  [port |-> Listed[Nth(K, n)].port, guest |-> Listed[Nth(K, n)].guest,
              desc |-> Listed[Nth(K, n)].desc] \in AnyFwd
  <2>1. Nth(K, n) \in K
    <3> HIDE DEF K
    <3> QED BY <1>1, <1>2, NthIsAMember
  <2>2. Listed[Nth(K, n)] \in PortFwd
    BY <1>1, <1>2, <2>1
  <2> QED BY <2>2 DEF PortFwd, AnyFwd
<1>5. Unused(alive) = [n \in 1..Cardinality(K) |->
         [port |-> Listed[Nth(K, n)].port, guest |-> Listed[Nth(K, n)].guest,
          desc |-> Listed[Nth(K, n)].desc]]
  BY DEF Unused
<1> HIDE DEF K
<1> QED BY <1>3, <1>4, <1>5

\* The file object stays one through every edit, and through a save.
LEMMA ContentsKept ==
  ASSUME NEW c \in Contents
  PROVE  /\ \A nat \in SUBSET PortFwd : Merged(c, nat) \in Contents
         /\ \A f \in AnyFwd : /\ [c EXCEPT !.fwds = AddPortFwd(@, f)] \in Contents
                              /\ [c EXCEPT !.fwds = RemovePortFwd(@, f)] \in Contents
         /\ \A m \in Macs, a \in IPs : [c EXCEPT !.res = AddDhcpReservation(@, m, a)] \in Contents
         /\ Saved(c) \in Contents /\ Saved(c).devices = c.devices /\ Saved(c).fwds = c.fwds
<1>1. c.fwds \in Seq(PortFwd) /\ c.res \in Seq(DhcpReservation) /\ c.devices \in SUBSET Device
  BY DEF Contents
<1>2. ASSUME NEW nat \in SUBSET PortFwd
      PROVE  Merged(c, nat) \in Contents
  <2>1. MergeFwds(c.fwds, nat) \in Seq(PortFwd)
    BY <1>1, MergeLines
  <2> QED BY <2>1 DEF Merged, Contents
<1>3. ASSUME NEW f \in AnyFwd
      PROVE  /\ [c EXCEPT !.fwds = AddPortFwd(@, f)] \in Contents
             /\ [c EXCEPT !.fwds = RemovePortFwd(@, f)] \in Contents
  <2>1. AddPortFwd(c.fwds, f) \in Seq(PortFwd) /\ RemovePortFwd(c.fwds, f) \in Seq(PortFwd)
    BY <1>1, ChangedLines
  <2> QED BY <2>1 DEF Contents
<1>4. ASSUME NEW m \in Macs, NEW a \in IPs
      PROVE  [c EXCEPT !.res = AddDhcpReservation(@, m, a)] \in Contents
  <2> DEFINE new == [mac |-> m, addr |-> a]
             h == CHOOSE k \in DOMAIN c.res :
                    c.res[k].mac = m /\ \A j \in 1..(k-1) : c.res[j].mac # m
  <2>1. new \in DhcpReservation
    BY DEF DhcpReservation
  <2>2. Append(c.res, new) \in Seq(DhcpReservation)
    BY <1>1, <2>1
  <2>3. [c.res EXCEPT ![h] = new] \in Seq(DhcpReservation)
    <3> DEFINE res == c.res
    <3>1. res \in Seq(DhcpReservation)
      BY <1>1
    <3> HIDE DEF h, new, res
    <3>2. res \in [1..Len(res) -> DhcpReservation] /\ Len(res) \in Nat
      BY <3>1
    <3>3. [res EXCEPT ![h] = new] \in [1..Len(res) -> DhcpReservation]
      BY <2>1, <3>2
    <3>4. [res EXCEPT ![h] = new] \in Seq(DhcpReservation)
      BY <3>2, <3>3
    <3> QED BY <3>4 DEF res
  <2>4. AddDhcpReservation(c.res, m, a) \in Seq(DhcpReservation)
    BY <2>2, <2>3 DEF AddDhcpReservation
  <2> QED BY <2>4 DEF Contents
<1>5. ReadBack(c.res) \in Seq(DhcpReservation)
  <2>1. CASE c.res = <<>>
    BY <2>1 DEF ReadBack, LoadDhcpRes, ReservationLines
  <2>2. CASE c.res # <<>>
    <3> DEFINE line == IF Len(c.res) = 1 THEN c.res[1] ELSE [c.res[1] EXCEPT !.addr = Garbled]
    <3>1. c.res[1] \in DhcpReservation
      BY <1>1, <2>2
    <3>2. line \in DhcpReservation
      BY <3>1 DEF DhcpReservation
    <3>3. ReservationLines(c.res) = <<c.res>>
      BY <2>2 DEF ReservationLines
    <3>4. ReadBack(c.res) = [k \in 1..1 |-> line]
      BY <3>3 DEF ReadBack, LoadDhcpRes
    <3> HIDE DEF line
    <3> QED BY <3>2, <3>4
  <2> QED BY <2>1, <2>2
<1>6. Saved(c) \in Contents /\ Saved(c).devices = c.devices /\ Saved(c).fwds = c.fwds
  BY <1>1, <1>5 DEF Saved, Contents
<1> QED BY <1>2, <1>3, <1>4, <1>6

-----------------------------------------------------------------------------
(* Types, and who changes what in a step. *)

\* What the history can hold: the forward promised for a port is one of it.
IsHistory(a) ==
  /\ a \in [fwd: [Ports -> AnyFwd \cup {NoAck, Gone}],
            dev: [Slots -> Configs \cup {NoAck, Gone}],
            res: [Macs -> IPs \cup {NoAck}]]
  /\ \A p \in Ports : a.fwd[p] \notin {NoAck, Gone} => a.fwd[p] \in AnyFwd /\ a.fwd[p].port = p

\* What a request has at a step: its operation, and lines of the right kind.
HasItsWork(x) ==
  /\ x.pc # "idle" => x.op \in Operation
  /\ x.pc = "list" => x.op \in PruneOp
  /\ x.pc \in {"status", "vstop", "vstart"} => x.op \in VerifyOp
  /\ x.pc = "edit" => x.todo \in Seq(AnyFwd)
  /\ x.pc = "add" => x.todo \in Seq(PortFwd)

TInv ==
  /\ TypeOK
  /\ IsHistory(ack)
  /\ \A r \in Reqs : HasItsWork(req[r])

\* The request goes on; it stays one that takes the lock or one that does not.
GoesOn(r) ==
  /\ req'[r].pc \notin {"idle", "wait"}
  /\ req'[r].overlap = req[r].overlap
  /\ req'[r].op.kind = "reserve" <=> req[r].op.kind = "reserve"
  /\ UNCHANGED <<lock, settled>>

\* Only the request's own record changes.
OnlyOwn(r) == req' = [req EXCEPT ![r] = req'[r]]

\* Forgetting, promising nothing and granting make histories of histories.
LEMMA HistoryKept ==
  ASSUME IsHistory(ack), NEW op
  PROVE  /\ IsHistory(NoPromise) /\ IsHistory(Forget(op))
         /\ op \in Operation => IsHistory(Granted(op))
<1>1. IsHistory(NoPromise)
  BY DEF IsHistory, NoPromise
<1>2. IsHistory(Forget(op))
  BY DEF IsHistory, Forget
<1>3. ASSUME op \in Operation
      PROVE  IsHistory(Granted(op))
  <2> DEFINE g == Granted(op)
             line(p) == op.fwds[CHOOSE k \in DOMAIN op.fwds : op.fwds[k].port = p /\ IsLast(op.fwds, k)]
  <2>1. ASSUME NEW p \in Ports, op.kind = "add", p \in PortsOf(op.fwds)
        PROVE  line(p) \in AnyFwd /\ line(p).port = p
    <3>1. op.fwds \in Seq(AnyFwd) /\ HasPort(op.fwds, p)
      BY <1>3, <2>1, OperationFields DEF PortsOf, HasPort
    <3>2. \E k \in DOMAIN op.fwds : op.fwds[k].port = p /\ IsLast(op.fwds, k)
      BY <3>1, LinesOfAPort
    <3>3. \A k \in DOMAIN op.fwds : op.fwds[k] \in AnyFwd
      BY <3>1
    <3> QED BY <3>2, <3>3
  <2>2. g.fwd = [p \in Ports |->
           IF op.kind = "add" /\ p \in PortsOf(op.fwds) THEN line(p)
           ELSE IF op.kind = "delete" /\ p \in PortsOf(op.fwds) THEN Gone ELSE ack.fwd[p]]
    BY DEF Granted
  <2>3. \A p \in Ports : ack.fwd[p] \in AnyFwd \cup {NoAck, Gone}
                         /\ (ack.fwd[p] \notin {NoAck, Gone} => ack.fwd[p] \in AnyFwd /\ ack.fwd[p].port = p)
    BY DEF IsHistory
  <2>4. g.dev \in [Slots -> Configs \cup {NoAck, Gone}] /\ g.res \in [Macs -> IPs \cup {NoAck}]
    <3>1. op.kind = "update" => op.config \in Configs
      BY <1>3, OperationFields
    <3>2. op.kind = "reserve" => op.addr \in IPs
      BY <1>3, OperationFields
    <3> QED BY <3>1, <3>2 DEF IsHistory, Granted
  <2>5. DOMAIN g = {"fwd", "dev", "res"} /\ g = [fwd |-> g.fwd, dev |-> g.dev, res |-> g.res]
    BY DEF Granted
  <2> HIDE DEF g, line
  <2>6. g.fwd \in [Ports -> AnyFwd \cup {NoAck, Gone}]
    BY <2>1, <2>2, <2>3
  <2>7. \A p \in Ports : g.fwd[p] \notin {NoAck, Gone} => g.fwd[p] \in AnyFwd /\ g.fwd[p].port = p
    BY <2>1, <2>2, <2>3
  <2>8. g \in [fwd: [Ports -> AnyFwd \cup {NoAck, Gone}],
               dev: [Slots -> Configs \cup {NoAck, Gone}],
               res: [Macs -> IPs \cup {NoAck}]]
    BY <2>4, <2>5, <2>6
  <2> QED BY <2>7, <2>8 DEF IsHistory, g
<1> QED BY <1>1, <1>2, <1>3

\* A request that changes only its own record keeps the types when the record
\* is one of a request with its work; an answered request is idle.
LEMMA OwnRecord ==
  ASSUME TypeOK, \A r \in Reqs : HasItsWork(req[r]), NEW r \in Reqs, OnlyOwn(r),
         req'[r] \in Request, HasItsWork(req'[r])
  PROVE  req' \in [Reqs -> Request] /\ \A q \in Reqs : HasItsWork(req'[q])
<1>1. req \in [Reqs -> Request]
  BY DEF TypeOK
<1>2. \A q \in Reqs : req'[q] = IF q = r THEN req'[r] ELSE req[q]
  BY <1>1 DEF OnlyOwn
<1> QED BY <1>1, <1>2 DEF OnlyOwn

\* An idle handler has the shape of a request.
LEMMA IdleIsARequest == Idle \in Request /\ HasItsWork(Idle)
<1>1. Empty \in Contents
  BY DEF Empty, Contents
<1>2. <<>> \in Seq([port: Ports, guest: Guests, desc: Vms \cup {NoDesc}])
  OBVIOUS
<1> QED BY <1>1, <1>2 DEF Idle, Request, HasItsWork, Steps

\* The types of what requests share.
SharedOK ==
  /\ file \in Contents
  /\ natMem \subseteq PortFwd /\ natDisk \subseteq PortFwd
  /\ natConf \subseteq [port: Ports, guest: Guests]
  /\ live \in {Down} \cup SUBSET [port: Ports, guest: Guests]
  /\ settled \in BOOLEAN
  /\ IsHistory(ack)

\* What every step of a request does, whatever the step.
Shape(r) ==
  /\ OnlyOwn(r) /\ req'[r] \in Request /\ HasItsWork(req'[r])
  /\ Answer(r) \/ GoesOn(r)

\* An answer has the shape of a step.
LEMMA AnswerShape ==
  ASSUME req \in [Reqs -> Request], NEW r \in Reqs, Answer(r)
  PROVE  Shape(r) /\ req'[r] = Idle
<1>1. req'[r] = Idle
  BY DEF Answer
<1>2. OnlyOwn(r)
  BY <1>1 DEF Answer, OnlyOwn
<1> QED BY <1>1, <1>2, IdleIsARequest DEF Shape

\* Listing, loading and editing: types and shape.
LEMMA EditTypes ==
  ASSUME TInv, NEW r \in Reqs,
         \/ List(r) \/ Load(r) \/ LoadStubs(r)
         \/ EditAdd(r) \/ EditDelete(r) \/ EditFails(r) \/ EditsDone(r)
         \/ EditCreate(r) \/ EditDevice(r) \/ NoDevice(r) \/ EditReserve(r),
         OnePerSlot(req[r].net.devices)
  PROVE  Shape(r) /\ SharedOK' /\ Running(r)
<1> DEFINE x == req[r]
           y == req'[r]
<1>1. /\ req \in [Reqs -> Request] /\ x \in Request /\ HasItsWork(x) /\ SharedOK
      /\ x.pc # "idle" => x.op \in Operation
  BY DEF TInv, TypeOK, SharedOK, HasItsWork
<1>2. x.net \in Contents /\ x.net.devices \in SUBSET Device
  BY <1>1 DEF Request, Contents
<1>3. CASE List(r)
  <2>1. PICK alive \in SUBSET Vms :
          LET op == [kind |-> "delete", fwds |-> Unused(alive)]
          IN req' = [req EXCEPT ![r].pc = "load", ![r].op = op] /\ ack' = Forget(op)
    BY <1>3 DEF List
  <2> DEFINE op == [kind |-> "delete", fwds |-> Unused(alive)]
  <2>2. op \in Operation
    <3>1. file.fwds \in Seq(PortFwd)
      BY <1>1 DEF SharedOK, Contents
    <3>2. Unused(alive) \in Seq(AnyFwd)
      BY <1>1, <3>1, UnusedFwds DEF SharedOK
    <3> QED BY <3>2, OperationsMade
  <2>3. x.op.kind # "reserve" /\ op.kind # "reserve"
    BY <1>1, <1>3, OperationsMade DEF List, At, HasItsWork
  <2>4. IsHistory(ack')
    BY <1>1, <2>1, HistoryKept DEF SharedOK
  <2> HIDE DEF op
  <2>5. y = [x EXCEPT !.pc = "load", !.op = op]
    BY <1>1, <2>1 DEF op
  <2>6. y \in Request /\ HasItsWork(y) /\ y.overlap = x.overlap
          /\ y.op = op /\ y.pc = "load"
    BY <1>1, <2>2, <2>5 DEF Request, Steps, HasItsWork
  <2>7. OnlyOwn(r)
    BY <1>1, <2>1, <2>5 DEF OnlyOwn
  <2>8. UNCHANGED <<file, natMem, natDisk, natConf, live, lock, settled>> /\ Running(r)
    BY <1>3 DEF List, Running, At
  <2> QED BY <1>1, <2>3, <2>4, <2>6, <2>7, <2>8 DEF Shape, GoesOn, SharedOK
<1>4. CASE Load(r) \/ LoadStubs(r)
  <2>1. PICK net \in {Loaded(file, natMem), Loaded(Empty, natMem)}, stub \in BOOLEAN :
          ToEdit(r, net, stub)
    BY <1>4 DEF Load, LoadStubs
  <2>2. net \in Contents
    <3>1. Empty \in Contents
      BY DEF Empty, Contents
    <3> QED BY <1>1, <3>1, ContentsKept DEF SharedOK, Loaded
  <2> DEFINE todo == IF Kind(r) \in {"add", "delete"} THEN x.op.fwds ELSE <<>>
  <2>3. x.op \in Operation /\ todo \in Seq(AnyFwd)
    BY <1>1, <2>1, OperationFields DEF ToEdit, At, Kind
  <2> HIDE DEF todo
  <2>4. req' = [req EXCEPT ![r].pc = "edit", ![r].net = net, ![r].stub = stub, ![r].todo = todo]
    BY <2>1 DEF ToEdit, todo
  <2>5. y = [x EXCEPT !.pc = "edit", !.net = net, !.stub = stub, !.todo = todo]
    BY <1>1, <2>4
  <2>6. y \in Request /\ HasItsWork(y) /\ y.overlap = x.overlap /\ y.op = x.op /\ y.pc = "edit"
    BY <1>1, <2>2, <2>3, <2>5 DEF Request, Steps, HasItsWork, AnyFwd
  <2>7. OnlyOwn(r)
    BY <1>1, <2>4, <2>5 DEF OnlyOwn
  <2>8. UNCHANGED <<file, natMem, natDisk, natConf, live, lock, ack, settled>> /\ Running(r)
    BY <2>1 DEF ToEdit, Running, At
  <2> QED BY <1>1, <2>6, <2>7, <2>8 DEF Shape, GoesOn, SharedOK
<1>5. CASE EditAdd(r) \/ EditDelete(r)
  <2>1. x.pc = "edit" /\ x.todo \in Seq(AnyFwd) /\ x.todo # <<>> /\ x.op \in Operation
    BY <1>1, <1>5 DEF EditAdd, EditDelete, At, HasItsWork
  <2>2. Head(x.todo) \in AnyFwd /\ Tail(x.todo) \in Seq(AnyFwd)
    BY <2>1
  <2>3. PICK fwds \in {AddPortFwd(x.net.fwds, Head(x.todo)), RemovePortFwd(x.net.fwds, Head(x.todo))} :
          req' = [req EXCEPT ![r].net.fwds = fwds, ![r].todo = Tail(@)]
    BY <1>1, <1>5 DEF EditAdd, EditDelete
  <2>4. [x.net EXCEPT !.fwds = fwds] \in Contents
    BY <1>2, <2>2, <2>3, ContentsKept
  <2>5. y = [x EXCEPT !.net = [x.net EXCEPT !.fwds = fwds], !.todo = Tail(x.todo)]
    BY <1>1, <2>3
  <2>6. y \in Request /\ HasItsWork(y) /\ y.overlap = x.overlap /\ y.op = x.op /\ y.pc = "edit"
    BY <1>1, <2>1, <2>2, <2>4, <2>5 DEF Request, Steps, HasItsWork, AnyFwd
  <2>7. OnlyOwn(r)
    BY <1>1, <2>3, <2>5 DEF OnlyOwn
  <2>8. UNCHANGED <<file, natMem, natDisk, live, lock, ack, settled>> /\ natConf' \subseteq natConf
    BY <1>5 DEF EditAdd, EditDelete
  <2>9. Running(r)
    BY <2>1 DEF Running
  <2> QED BY <1>1, <2>6, <2>7, <2>8, <2>9 DEF Shape, GoesOn, SharedOK
<1>6. CASE EditFails(r) \/ NoDevice(r)
  <2>1. Answer(r) /\ UNCHANGED <<file, natMem, natDisk, natConf, live, ack, settled>> /\ Running(r)
    BY <1>6 DEF EditFails, NoDevice, Fail, Running, At
  <2> QED BY <1>1, <2>1, AnswerShape DEF SharedOK
<1>7. CASE EditsDone(r)
  <2>1. /\ req' = [req EXCEPT ![r].pc = "save"] /\ x.pc = "edit"
        /\ UNCHANGED <<file, natMem, natDisk, natConf, live, lock, ack, settled>>
    BY <1>7 DEF EditsDone, Goto, At
  <2>2. y = [x EXCEPT !.pc = "save"] /\ OnlyOwn(r)
    BY <1>1, <2>1 DEF OnlyOwn
  <2>3. y \in Request /\ HasItsWork(y) /\ y.overlap = x.overlap /\ y.op = x.op /\ y.pc = "save"
    BY <1>1, <2>1, <2>2 DEF Request, Steps, HasItsWork
  <2> QED BY <1>1, <2>1, <2>2, <2>3 DEF Shape, GoesOn, SharedOK, Running
<1>8. CASE EditCreate(r)
  <2> DEFINE c == x.op.config
             slot == FreeSlot(UsedSlots(x.net.devices))
             op == [kind |-> "update", slot |-> slot, config |-> c]
             devices == CreateDevice(x.net.devices, c)
  <2>1. x.pc = "edit" /\ x.op.kind = "create" /\ x.op \in Operation /\ c \in Configs
    BY <1>1, <1>8, OperationFields DEF EditCreate, At, Kind
  <2>2. slot \in Nat /\ devices \in SUBSET Device
    BY <1>2, <2>1, OnePerSlotKept
  <2>3. op \in Operation /\ op.kind = "update"
    BY <2>1, <2>2, OperationsMade
  <2>4. /\ req' = [req EXCEPT ![r].pc = "save", ![r].op = op, ![r].net.devices = devices]
        /\ ack' = Forget(op)
        /\ UNCHANGED <<file, natMem, natDisk, natConf, live, lock, settled>>
    BY <1>1, <1>8 DEF EditCreate
  <2>5. IsHistory(ack')
    BY <1>1, <2>4, HistoryKept DEF SharedOK
  <2> HIDE DEF op, devices
  <2>6. [x.net EXCEPT !.devices = devices] \in Contents
    BY <1>2, <2>2 DEF Contents
  <2>7. y = [x EXCEPT !.pc = "save", !.op = op, !.net = [x.net EXCEPT !.devices = devices]]
    BY <1>1, <2>4
  <2>8. OnlyOwn(r)
    BY <1>1, <2>4, <2>7 DEF OnlyOwn
  <2>9. y \in Request /\ HasItsWork(y) /\ y.overlap = x.overlap /\ y.op = op /\ y.pc = "save"
    BY <1>1, <2>3, <2>6, <2>7 DEF Request, Steps, HasItsWork
  <2> QED BY <1>1, <2>1, <2>3, <2>4, <2>5, <2>8, <2>9 DEF Shape, GoesOn, SharedOK, Running
<1>9. CASE EditDevice(r)
  <2> DEFINE op == x.op
             devices == IF op.kind = "update" THEN UpdateDevice(x.net.devices, op.slot, op.config)
                        ELSE RemoveDevice(x.net.devices, op.slot)
  <2>1. x.pc = "edit" /\ op.kind \in {"update", "remove"} /\ op \in Operation
    BY <1>1, <1>9 DEF EditDevice, At, Kind
  <2>2. devices \in SUBSET Device
    BY <1>2, <2>1, OperationFields DEF UpdateDevice, RemoveDevice, Device
  <2>3. /\ req' = [req EXCEPT ![r].pc = "save", ![r].net.devices = devices]
        /\ UNCHANGED <<file, natMem, natDisk, natConf, live, lock, ack, settled>>
    BY <1>1, <1>9 DEF EditDevice
  <2> HIDE DEF devices
  <2>4. [x.net EXCEPT !.devices = devices] \in Contents
    BY <1>2, <2>2 DEF Contents
  <2>5. y = [x EXCEPT !.pc = "save", !.net = [x.net EXCEPT !.devices = devices]]
    BY <1>1, <2>3
  <2>6. OnlyOwn(r)
    BY <1>1, <2>3, <2>5 DEF OnlyOwn
  <2>7. y \in Request /\ HasItsWork(y) /\ y.overlap = x.overlap /\ y.op = x.op /\ y.pc = "save"
    BY <1>1, <2>1, <2>4, <2>5 DEF Request, Steps, HasItsWork
  <2> QED BY <1>1, <2>1, <2>3, <2>6, <2>7 DEF Shape, GoesOn, SharedOK, Running
<1>10. CASE EditReserve(r)
  <2> DEFINE res == AddDhcpReservation(x.net.res, x.op.mac, x.op.addr)
  <2>1. x.pc = "edit" /\ x.op.kind = "reserve" /\ x.op \in Operation
    BY <1>1, <1>10 DEF EditReserve, At, Kind
  <2>2. [x.net EXCEPT !.res = res] \in Contents
    BY <1>2, <2>1, OperationFields, ContentsKept
  <2>3. /\ req' = [req EXCEPT ![r].pc = "save", ![r].net.res = res]
        /\ UNCHANGED <<file, natMem, natDisk, natConf, live, lock, ack, settled>>
    BY <1>1, <1>10 DEF EditReserve
  <2> HIDE DEF res
  <2>5. y = [x EXCEPT !.pc = "save", !.net = [x.net EXCEPT !.res = res]]
    BY <1>1, <2>3
  <2>6. OnlyOwn(r)
    BY <1>1, <2>3, <2>5 DEF OnlyOwn
  <2>7. y \in Request /\ HasItsWork(y) /\ y.overlap = x.overlap /\ y.op = x.op /\ y.pc = "save"
    BY <1>1, <2>1, <2>2, <2>5 DEF Request, Steps, HasItsWork
  <2> QED BY <1>1, <2>1, <2>3, <2>6, <2>7 DEF Shape, GoesOn, SharedOK, Running
<1> QED BY <1>3, <1>4, <1>5, <1>6, <1>7, <1>8, <1>9, <1>10

\* VMware applies the file: nat.conf is what it serves, the rest stays typed.
LEMMA AppliedTypes ==
  ASSUME file \in Contents, Applied
  PROVE  /\ file' \in Contents /\ file'.devices = file.devices
         /\ natConf' = Served(file.fwds) /\ Served(file'.fwds) = Served(file.fwds)
         /\ natConf' \subseteq [port: Ports, guest: Guests]
         /\ \A l : InForce(file.fwds, l) => InForce(file'.fwds, l)
<1>1. file' = file \/ file' = Stripped(file)
  BY DEF Applied
<1>2. /\ file' \in Contents /\ file'.devices = file.devices
      /\ Served(file'.fwds) = Served(file.fwds)
      /\ \A l : InForce(file.fwds, l) => InForce(file'.fwds, l)
  BY <1>1, StrippedFile
<1>3. Served(file.fwds) \subseteq [port: Ports, guest: Guests]
  <2>1. \A k \in DOMAIN file.fwds : file.fwds[k] \in PortFwd
    BY DEF Contents
  <2> QED BY <2>1 DEF Served, PortFwd
<1> QED BY <1>2, <1>3 DEF Applied

\* Saving, refilling and restarting: types and shape.
LEMMA SaveTypes ==
  ASSUME TInv, NEW r \in Reqs,
         \/ Save(r) \/ SaveFails(r) \/ NatClear(r) \/ NatMultiAdd(r) \/ Persist(r) \/ PersistFails(r)
         \/ Configure(r) \/ ConfigureFails(r) \/ Stop(r)
         \/ Start(r) \/ StartIgnored(r) \/ StartFails(r)
  PROVE  Shape(r) /\ SharedOK' /\ Running(r)
<1> DEFINE x == req[r]
           y == req'[r]
<1>1. /\ req \in [Reqs -> Request] /\ x \in Request /\ HasItsWork(x) /\ SharedOK
      /\ x.pc # "idle" => x.op \in Operation
  BY DEF TInv, TypeOK, SharedOK, HasItsWork
<1>2. x.net \in Contents /\ x.net.fwds \in Seq(PortFwd)
  BY <1>1 DEF Request, Contents
\* A step that only moves the request on.
<1>3. ASSUME NEW step \in Steps \ {"idle", "wait", "list", "edit", "add", "status", "vstop", "vstart"},
             x.pc # "idle", Goto(r, step), UNCHANGED <<lock, settled>>
      PROVE  Shape(r)
  <2>1. y = [x EXCEPT !.pc = step] /\ OnlyOwn(r)
    BY <1>1, <1>3 DEF Goto, OnlyOwn
  <2>2. y \in Request /\ HasItsWork(y) /\ y.overlap = x.overlap /\ y.op = x.op /\ y.pc = step
    BY <1>1, <1>3, <2>1 DEF Request, HasItsWork
  <2> QED BY <1>3, <2>1, <2>2 DEF Shape, GoesOn
<1>4. CASE Save(r)
  <2>1. Saved(x.net) \in Contents
    BY <1>2, ContentsKept
  <2>2. /\ Goto(r, "clear") /\ x.pc = "save" /\ file' = Saved(x.net) /\ ack' \in {ack, NoPromise}
        /\ UNCHANGED <<natMem, natDisk, natConf, live, lock, settled>>
    BY <1>4 DEF Save, At
  <2>3. IsHistory(ack')
    BY <1>1, <2>2, HistoryKept DEF SharedOK
  <2> QED BY <1>1, <1>3, <2>1, <2>2, <2>3 DEF SharedOK, Running, Steps
<1>5. CASE SaveFails(r) \/ PersistFails(r) \/ StartFails(r)
  <2>1. Answer(r) /\ UNCHANGED <<file, natMem, natDisk, natConf, live, ack, settled>> /\ Running(r)
    BY <1>5 DEF SaveFails, PersistFails, StartFails, Fail, Running, At
  <2> QED BY <1>1, <2>1, AnswerShape DEF SharedOK
<1>6. CASE NatClear(r)
  <2>1. /\ req' = [req EXCEPT ![r].pc = "add", ![r].todo = x.net.fwds] /\ x.pc = "clear" /\ natMem' = {}
        /\ UNCHANGED <<file, natDisk, natConf, live, lock, ack, settled>>
    BY <1>6 DEF NatClear, At
  <2>2. y = [x EXCEPT !.pc = "add", !.todo = x.net.fwds] /\ OnlyOwn(r)
    BY <1>1, <2>1 DEF OnlyOwn
  <2>3. y \in Request /\ HasItsWork(y) /\ y.overlap = x.overlap /\ y.op = x.op /\ y.pc = "add"
    BY <1>1, <1>2, <2>1, <2>2 DEF Request, Steps, HasItsWork
  <2> QED BY <1>1, <2>1, <2>2, <2>3 DEF Shape, GoesOn, SharedOK, Running
<1>7. CASE NatMultiAdd(r)
  <2>1. /\ x.pc = "add" /\ x.todo \in Seq(PortFwd) /\ Running(r)
        /\ UNCHANGED <<file, natDisk, natConf, live, lock, ack, settled>>
    BY <1>1, <1>7 DEF NatMultiAdd, At, HasItsWork, Running
  <2>2. CASE x.todo = <<>>
    BY <1>1, <1>3, <1>7, <2>1, <2>2 DEF NatMultiAdd, SharedOK, Steps
  <2>3. CASE x.todo # <<>>
    <3>1. NatAdd(natMem, Head(x.todo)) \in SUBSET PortFwd
      BY <1>1, <2>1, <2>3, RefillsStep DEF SharedOK
    <3>2. natMem' = NatAdd(natMem, Head(x.todo)) /\ req' = [req EXCEPT ![r].todo = Tail(x.todo)]
      BY <1>7, <2>3 DEF NatMultiAdd
    <3>3. y = [x EXCEPT !.todo = Tail(x.todo)] /\ OnlyOwn(r)
      BY <1>1, <3>2 DEF OnlyOwn
    <3>4. Tail(x.todo) \in Seq(PortFwd)
      BY <2>1, <2>3
    <3>5. y \in Request /\ HasItsWork(y) /\ y.overlap = x.overlap /\ y.op = x.op /\ y.pc = "add"
      BY <1>1, <2>1, <3>3, <3>4 DEF Request, Steps, HasItsWork
    <3> QED BY <1>1, <2>1, <3>1, <3>2, <3>3, <3>5 DEF Shape, GoesOn, SharedOK
  <2> QED BY <2>2, <2>3
<1>8. CASE Persist(r)
  <2>1. /\ Goto(r, "configure") /\ x.pc = "persist" /\ natDisk' = natMem
        /\ UNCHANGED <<file, natMem, natConf, live, lock, ack, settled>>
    BY <1>8 DEF Persist, At
  <2> QED BY <1>1, <1>3, <2>1 DEF SharedOK, Running, Steps
<1>9. CASE Configure(r)
  <2>1. /\ Goto(r, "stop") /\ x.pc = "configure" /\ live' \in {Down, live} /\ Applied
        /\ UNCHANGED <<natMem, natDisk, lock, ack, settled>>
    BY <1>9 DEF Configure, At, Stopped
  <2>2. file' \in Contents /\ natConf' \subseteq [port: Ports, guest: Guests]
    BY <1>1, <2>1, AppliedTypes DEF SharedOK
  <2> QED BY <1>1, <1>3, <2>1, <2>2 DEF SharedOK, Running, Steps
<1>10. CASE ConfigureFails(r)
  <2>1. /\ Answer(r) /\ live' \in {Down, live} /\ UNCHANGED <<file, natMem, natDisk, natConf, ack, settled>>
        /\ Running(r)
    BY <1>10 DEF ConfigureFails, Fail, Stopped, Running, At
  <2> QED BY <1>1, <2>1, AnswerShape DEF SharedOK
<1>11. CASE Stop(r)
  <2>1. /\ Goto(r, "start") /\ x.pc = "stop" /\ live' \in {Down, live}
        /\ UNCHANGED <<file, natMem, natDisk, natConf, lock, ack, settled>>
    BY <1>11 DEF Stop, At, Stopped
  <2> QED BY <1>1, <1>3, <2>1 DEF SharedOK, Running, Steps
<1>12. CASE Start(r) \/ StartIgnored(r)
  <2>1. /\ Answer(r) /\ live' \in {live, natConf} /\ settled' \in {settled, ~x.overlap}
        /\ UNCHANGED <<file, natMem, natDisk, natConf>> /\ x.pc = "start"
        /\ ack' \in {ack, Granted(x.op)}
    BY <1>12 DEF Start, StartIgnored, Succeed, At
  <2>2. IsHistory(ack')
    BY <1>1, <2>1, HistoryKept DEF SharedOK
  <2>3. settled' \in BOOLEAN
    BY <1>1, <2>1 DEF SharedOK
  <2> QED BY <1>1, <2>1, <2>2, <2>3, AnswerShape DEF SharedOK, Running
<1> QED BY <1>4, <1>5, <1>6, <1>7, <1>8, <1>9, <1>10, <1>11, <1>12

\* VerifyVmnet: types and shape.
LEMMA VerifyTypes ==
  ASSUME TInv, NEW r \in Reqs, VerifyStatus(r) \/ VerifyStop(r) \/ VerifyStart(r) \/ VerifyStartFails(r)
  PROVE  Shape(r) /\ SharedOK' /\ Running(r)
<1> DEFINE x == req[r]
           y == req'[r]
<1>1. /\ req \in [Reqs -> Request] /\ x \in Request /\ HasItsWork(x) /\ SharedOK
  BY DEF TInv, TypeOK, SharedOK
<1>2. x.pc \in {"status", "vstop", "vstart"} /\ x.op \in VerifyOp /\ Running(r)
        /\ UNCHANGED <<natMem, natDisk, ack, settled>>
  BY <1>1 DEF VerifyStatus, VerifyStop, VerifyStart, VerifyStartFails, At, HasItsWork, Running
<1>3. ASSUME NEW step \in {"vstop", "vstart"}, NEW op \in VerifyOp, UNCHANGED lock,
             req' = [req EXCEPT ![r] = [x EXCEPT !.pc = step, !.op = op]]
      PROVE  Shape(r)
  <2>1. y = [x EXCEPT !.pc = step, !.op = op] /\ OnlyOwn(r)
    BY <1>1, <1>3 DEF OnlyOwn
  <2>2. op \in Operation /\ op.kind = "verify" /\ x.op.kind = "verify"
    BY <1>2, OperationsMade
  <2>3. y \in Request /\ HasItsWork(y) /\ y.overlap = x.overlap /\ y.op = op /\ y.pc = step
    BY <1>1, <1>3, <2>1, <2>2 DEF Request, HasItsWork, Steps
  <2>4. y.pc \notin {"idle", "wait"} /\ (y.op.kind = "reserve" <=> x.op.kind = "reserve")
    BY <1>3, <2>2, <2>3
  <2>5. UNCHANGED <<lock, settled>>
    BY <1>2, <1>3
  <2> QED BY <2>1, <2>3, <2>4, <2>5 DEF Shape, GoesOn
<1>4. ASSUME NEW step \in {"vstop", "vstart"}, UNCHANGED lock, Goto(r, step)
      PROVE  Shape(r)
  <2>1. req' = [req EXCEPT ![r] = [x EXCEPT !.pc = step, !.op = x.op]]
    BY <1>1, <1>4 DEF Goto, Request
  <2> QED BY <1>2, <1>3, <1>4, <2>1
<1>5. CASE VerifyStatus(r)
  <2>1. UNCHANGED <<file, natConf, live>> /\ ((Goto(r, "vstop") /\ UNCHANGED lock) \/ Answer(r))
    BY <1>5 DEF VerifyStatus
  <2> QED BY <1>1, <1>2, <1>4, <2>1, AnswerShape DEF SharedOK
<1>6. CASE VerifyStop(r)
  <2>1. /\ Goto(r, "vstart") /\ UNCHANGED lock /\ live' \in {Down, live}
        /\ UNCHANGED <<file, natConf>> \/ Applied
    BY <1>6 DEF VerifyStop, Stopped
  <2>2. file' \in Contents /\ natConf' \subseteq [port: Ports, guest: Guests]
    BY <1>1, <2>1, AppliedTypes DEF SharedOK
  <2> QED BY <1>1, <1>2, <1>4, <2>1, <2>2 DEF SharedOK
<1>7. CASE VerifyStart(r)
  <2>1. Answer(r) /\ UNCHANGED <<file, natConf>> /\ live' \in {live, natConf}
    BY <1>7 DEF VerifyStart
  <2> QED BY <1>1, <1>2, <2>1, AnswerShape DEF SharedOK
<1>8. CASE VerifyStartFails(r)
  <2>1. UNCHANGED <<file, natConf, live>>
    BY <1>8 DEF VerifyStartFails
  <2>2. CASE x.op.try < 3
    <3>1. x.op.try \in 1..3 /\ x.op = [kind |-> "verify", try |-> x.op.try]
      BY <1>2 DEF VerifyOp
    <3>2. [x.op EXCEPT !.try = @ + 1] \in VerifyOp
      BY <2>2, <3>1 DEF VerifyOp
    <3>3. req' = [req EXCEPT ![r].pc = "vstop", ![r].op.try = @ + 1] /\ UNCHANGED lock
      BY <1>8, <2>2 DEF VerifyStartFails
    <3>4. req' = [req EXCEPT ![r] = [x EXCEPT !.pc = "vstop", !.op = [x.op EXCEPT !.try = @ + 1]]]
      BY <1>1, <3>3 DEF Request
    <3> QED BY <1>1, <1>2, <1>3, <2>1, <3>2, <3>3, <3>4 DEF SharedOK
  <2>3. CASE ~(x.op.try < 3)
    <3>1. Answer(r)
      BY <1>8, <2>3 DEF VerifyStartFails
    <3> QED BY <1>1, <1>2, <2>1, <3>1, AnswerShape DEF SharedOK
  <2> QED BY <2>2, <2>3
<1> QED BY <1>5, <1>6, <1>7, <1>8

-----------------------------------------------------------------------------
(* The lock, and the devices: invariants.                                    *)

\* The lock excludes every two requests but the reservations, and what runs
\* beside a reservation promises nothing.
LockInv ==
  /\ \A r \in Reqs : Running(r) /\ TakesLock(r) => lock = r
  /\ \A q, r \in Reqs : Running(q) /\ Running(r) /\ q # r => req[q].overlap
  /\ \A r \in Reqs : Running(r) /\ req[r].overlap => ack = NoPromise
  /\ settled => \A r \in Reqs : ~Running(r)

DevicesInv ==
  /\ OnePerSlot(file.devices)
  /\ \A r \in Reqs : OnePerSlot(req[r].net.devices)

\* The request runs, and no request ran beside it: it is the only one.
Alone(r) == Running(r) /\ ~req[r].overlap

\* Every step of a request has the shape of one.
LEMMA StepTypes ==
  ASSUME TInv, DevicesInv, NEW r \in Reqs, Step(r)
  PROVE  Shape(r) /\ SharedOK' /\ Running(r)
BY EditTypes, SaveTypes, VerifyTypes DEF Step, DevicesInv

\* What the others see of a step.
LEMMA StepOthers ==
  ASSUME TInv, NEW r \in Reqs, Shape(r)
  PROVE  /\ \A q \in Reqs \ {r} : req'[q] = req[q] /\ (Running(q)' <=> Running(q))
         /\ Running(r)' => GoesOn(r)
         /\ ~GoesOn(r) => Answer(r) /\ req'[r] = Idle
<1>1. req \in [Reqs -> Request]
  BY DEF TInv, TypeOK
<1>2. \A q \in Reqs \ {r} : req'[q] = req[q]
  BY <1>1 DEF Shape, OnlyOwn
<1>3. Answer(r) => req'[r] = Idle /\ ~Running(r)'
  BY <1>1 DEF Answer, Idle, Running
<1> QED BY <1>2, <1>3 DEF Shape, Running

\* The types are kept.
LEMMA TypesKept ==
  ASSUME TInv, DevicesInv, NoReq \notin Reqs, Next
  PROVE  TInv'
<1>1. /\ req \in [Reqs -> Request] /\ SharedOK /\ lock \in Reqs \cup {NoReq} /\ workload \in Workloads
      /\ \A r \in Reqs : HasItsWork(req[r])
  BY DEF TInv, TypeOK, SharedOK
<1>2. workload' = workload
  BY DEF Next
<1>3. CASE Crash
  <2>1. req' \in [Reqs -> Request] /\ \A r \in Reqs : HasItsWork(req'[r])
    BY <1>3, IdleIsARequest DEF Crash
  <2> QED BY <1>1, <1>2, <1>3, <2>1 DEF Crash, TInv, TypeOK, SharedOK
<1>4. ASSUME NEW r \in Reqs, Step(r)
      PROVE  TInv'
  <2>1. Shape(r) /\ SharedOK'
    BY <1>4, StepTypes
  <2>2. req' \in [Reqs -> Request] /\ \A q \in Reqs : HasItsWork(req'[q])
    BY <1>1, <2>1, OwnRecord DEF Shape, TInv
  <2>3. lock' \in Reqs \cup {NoReq}
    BY <1>1, <2>1 DEF Shape, Answer, GoesOn
  <2> QED BY <1>1, <1>2, <2>1, <2>2, <2>3 DEF TInv, TypeOK, SharedOK
<1>5. ASSUME NEW r \in Reqs, Arrive(r)
      PROVE  TInv'
  <2>1. PICK op \in workload.ops : req' = [req EXCEPT ![r] = [Idle EXCEPT !.pc = "wait", !.op = op]]
    BY <1>5 DEF Arrive
  <2>2. op \in Operation
    BY <1>1, <2>1, OperationsAssumption
  <2> DEFINE y == [Idle EXCEPT !.pc = "wait", !.op = op]
  <2>3. y \in Request /\ HasItsWork(y)
    BY <2>2, IdleIsARequest DEF Idle, Request, HasItsWork, Steps
  <2>4. \A q \in Reqs : req'[q] = IF q = r THEN y ELSE req[q]
    BY <1>1, <2>1
  <2> HIDE DEF y
  <2>5. req' \in [Reqs -> Request] /\ \A q \in Reqs : HasItsWork(req'[q])
    BY <1>1, <2>1, <2>3, <2>4 DEF y
  <2> QED BY <1>1, <1>2, <1>5, <2>5 DEF Arrive, TInv, TypeOK, SharedOK
<1>6. ASSUME NEW r \in Reqs, Enter(r)
      PROVE  TInv'
  <2> DEFINE op == req[r].op
             y == [req[r] EXCEPT !.pc = FirstStep(op), !.overlap = Overlaps(r)]
  <2>1. req[r].pc = "wait" /\ op \in Operation
    BY <1>1, <1>6 DEF Enter, At, HasItsWork
  <2>2. /\ FirstStep(op) \in {"list", "status", "load"}
        /\ FirstStep(op) = "list" => op \in PruneOp
        /\ FirstStep(op) = "status" => op \in VerifyOp
    BY <2>1, OperationFields DEF FirstStep
  <2>3. y \in Request /\ HasItsWork(y)
    <3>1. Overlaps(r) \in BOOLEAN
      BY DEF Overlaps
    <3>2. req[r] \in Request
      BY <1>1
    <3> HIDE DEF y
    <3>3. y = [req[r] EXCEPT !.pc = FirstStep(op), !.overlap = Overlaps(r)]
      BY DEF y
    <3>4. y \in Request /\ y.pc = FirstStep(op) /\ y.op = op
      BY <2>2, <3>1, <3>2, <3>3 DEF Request, Steps
    <3> QED BY <2>1, <2>2, <3>4 DEF HasItsWork
  <2>4. ASSUME NEW q \in Reqs
        PROVE  [req[q] EXCEPT !.overlap = TRUE] \in Request /\ HasItsWork([req[q] EXCEPT !.overlap = TRUE])
    <3>1. req[q] \in Request /\ HasItsWork(req[q])
      BY <1>1
    <3> QED BY <3>1 DEF Request, HasItsWork
  <2>5. /\ req' \in [Reqs -> Request]
        /\ \A q \in Reqs : HasItsWork(req'[q])
    <3>1. req' = [q \in Reqs |->
                    IF q = r THEN y
                    ELSE IF Running(q) /\ (~TakesLock(q) \/ ~TakesLock(r))
                         THEN [req[q] EXCEPT !.overlap = TRUE] ELSE req[q]]
      BY <1>6 DEF Enter
    <3> HIDE DEF y
    <3>2. \A q \in Reqs : req'[q] \in Request /\ HasItsWork(req'[q])
      BY <1>1, <2>3, <2>4, <3>1
    <3> QED BY <3>1, <3>2
  <2>6. /\ lock' \in Reqs \cup {NoReq} /\ settled' \in BOOLEAN /\ IsHistory(ack')
        /\ UNCHANGED <<file, natMem, natDisk, natConf, live>>
    BY <1>1, <1>6, HistoryKept DEF Enter, SharedOK
  <2> QED BY <1>1, <1>2, <2>5, <2>6 DEF TInv, TypeOK, SharedOK
<1> QED BY <1>3, <1>4, <1>5, <1>6 DEF Next

\* A step of an overlapped request promises nothing and settles nothing.
LEMMA StepHistory ==
  ASSUME TInv, NEW r \in Reqs, Step(r)
  PROVE  /\ req[r].overlap /\ ack = NoPromise => ack' = NoPromise
         /\ settled' => settled \/ (~req[r].overlap /\ Answer(r))
<1>1. ASSUME ack = NoPromise, NEW op PROVE Forget(op) = NoPromise
  BY <1>1 DEF Forget, NoPromise
<1>2. CASE List(r) \/ EditCreate(r)
  <2>1. settled' = settled /\ \E op : ack' = Forget(op)
    BY <1>2 DEF List, EditCreate
  <2>2. ack = NoPromise => ack' = NoPromise
    BY <1>1, <2>1
  <2>3. settled' => settled
    BY <2>1
  <2> QED BY <2>2, <2>3
<1>3. CASE Start(r)
  BY <1>3 DEF Start, Succeed
<1>4. CASE StartIgnored(r)
  BY <1>4 DEF StartIgnored, Succeed
<1>5. CASE Save(r)
  <2>1. settled' = settled /\ ack' \in {ack, NoPromise}
    BY <1>5 DEF Save
  <2>2. settled' => settled
    BY <2>1
  <2> QED BY <2>1, <2>2
<1>6. CASE ~(List(r) \/ EditCreate(r) \/ Start(r) \/ StartIgnored(r) \/ Save(r))
  <2>1. UNCHANGED <<ack, settled>>
    BY <1>6 DEF Step, Load, LoadStubs, ToEdit, EditAdd, EditDelete, EditFails, EditsDone, EditDevice, NoDevice, EditReserve,
       SaveFails, NatClear, NatMultiAdd, Persist, PersistFails, Configure, ConfigureFails, Stop,
       StartFails, VerifyStatus, VerifyStop, VerifyStart, VerifyStartFails, Fail
  <2>2. settled' => settled
    BY <2>1
  <2> QED BY <2>1, <2>2
<1> QED BY <1>2, <1>3, <1>4, <1>5, <1>6

\* The lock invariant is kept.
LEMMA LockKept ==
  ASSUME TInv, DevicesInv, LockInv, NoReq \notin Reqs, Next
  PROVE  LockInv'
<1>1. req \in [Reqs -> Request]
  BY DEF TInv, TypeOK
<1>2. CASE Crash
  <2>1. \A r \in Reqs : ~Running(r)'
    BY <1>2 DEF Crash, Running, Idle
  <2> QED BY <2>1 DEF LockInv
<1>3. ASSUME NEW r \in Reqs, Step(r)
      PROVE  LockInv'
  <2>1. /\ Running(r) /\ Shape(r)
        /\ \A q \in Reqs \ {r} : req'[q] = req[q] /\ (Running(q)' <=> Running(q))
        /\ Running(r)' => GoesOn(r)
        /\ ~GoesOn(r) => Answer(r) /\ req'[r] = Idle
    BY <1>3, StepTypes, StepOthers
  <2>2. \A q \in Reqs \ {r} : TakesLock(q)' <=> TakesLock(q)
    BY <2>1 DEF TakesLock, Kind
  <2>3. ~settled
    BY <2>1 DEF LockInv
  <2>4. req[r].overlap /\ ack = NoPromise => ack' = NoPromise
    BY <1>3, StepHistory
  <2>5. CASE GoesOn(r)
    <3>1. (TakesLock(r)' <=> TakesLock(r)) /\ req'[r].overlap = req[r].overlap /\ lock' = lock /\ ~settled'
      BY <2>3, <2>5 DEF GoesOn, TakesLock, Kind
    <3>2. \A q \in Reqs : Running(q)' => Running(q) /\ (TakesLock(q)' <=> TakesLock(q))
                                        /\ req'[q].overlap = req[q].overlap
      BY <2>1, <2>2, <3>1
    <3>3. ASSUME NEW q \in Reqs, Running(q), req[q].overlap
          PROVE  ack' = NoPromise
      <4>1. ack = NoPromise
        BY <3>3 DEF LockInv
      <4>2. req[r].overlap
        BY <2>1, <3>3 DEF LockInv
      <4> QED BY <2>4, <4>1, <4>2
    <3> QED BY <3>1, <3>2, <3>3 DEF LockInv
  <2>6. CASE ~GoesOn(r)
    <3>1. ~Running(r)' /\ lock' = IF TakesLock(r) THEN NoReq ELSE lock
      BY <2>1, <2>6 DEF Answer
    <3>2. ASSUME NEW q \in Reqs, Running(q)'
          PROVE  q # r /\ Running(q) /\ req[q].overlap /\ req[r].overlap /\ req'[q] = req[q]
                 /\ (TakesLock(q)' <=> TakesLock(q))
      BY <2>1, <2>2, <3>1, <3>2 DEF LockInv
    <3>3. ASSUME NEW q \in Reqs, Running(q)', TakesLock(q)'
          PROVE  lock' = q
      <4>1. q # r /\ lock = q
        BY <3>2, <3>3 DEF LockInv
      <4>2. ~TakesLock(r)
        BY <2>1, <4>1 DEF LockInv
      <4> QED BY <3>1, <4>1, <4>2
    <3>4. ASSUME NEW q \in Reqs, Running(q)'
          PROVE  ack' = NoPromise /\ ~settled'
      <4>1. req[r].overlap /\ ack = NoPromise
        BY <2>1, <3>2, <3>4 DEF LockInv
      <4> QED BY <1>3, <2>3, <4>1, StepHistory
    <3> QED BY <3>2, <3>3, <3>4 DEF LockInv
  <2> QED BY <2>5, <2>6
<1>4. ASSUME NEW r \in Reqs, Arrive(r)
      PROVE  LockInv'
  <2>1. /\ req[r].pc = "idle" /\ UNCHANGED <<lock, ack, settled>>
        /\ \E op : req' = [req EXCEPT ![r] = [Idle EXCEPT !.pc = "wait", !.op = op]]
    BY <1>4 DEF Arrive, At
  <2>2. ~Running(r) /\ ~Running(r)' /\ \A q \in Reqs \ {r} : req'[q] = req[q]
    BY <1>1, <2>1 DEF Running, Idle
  <2>3. \A q \in Reqs : Running(q)' => Running(q) /\ req'[q] = req[q] /\ (TakesLock(q)' <=> TakesLock(q))
    BY <2>2 DEF Running, TakesLock, Kind
  <2> QED BY <2>1, <2>3 DEF LockInv
<1>5. ASSUME NEW r \in Reqs, Enter(r)
      PROVE  LockInv'
  <2>1. /\ req[r].pc = "wait" /\ (TakesLock(r) => lock = NoReq)
        /\ lock' = IF TakesLock(r) THEN r ELSE lock
        /\ ack' = IF Overlaps(r) THEN NoPromise ELSE Forget(req[r].op)
        /\ settled' = FALSE
    BY <1>5 DEF Enter, At, LockFree
  <2>2. \A q \in Reqs : /\ req'[q].op = req[q].op
                        /\ q # r => req'[q].pc = req[q].pc
    BY <1>1, <1>5 DEF Enter, Request
  <2>3. \A q \in Reqs : (TakesLock(q)' <=> TakesLock(q)) /\ (q # r => (Running(q)' <=> Running(q)))
    BY <2>2 DEF TakesLock, Kind, Running
  <2>4. ~Running(r)
    BY <2>1 DEF Running
  <2>5. ASSUME NEW q \in Reqs, q # r, Running(q)
        PROVE  ~(TakesLock(q) /\ TakesLock(r)) /\ Overlaps(r)
    <3>1. ~(TakesLock(q) /\ TakesLock(r))
      BY <2>1, <2>5 DEF LockInv
    <3> QED BY <2>5, <3>1 DEF Overlaps
  <2>6. \A q \in Reqs : q # r /\ Running(q) => req'[q].overlap
    <3> TAKE q \in Reqs
    <3> SUFFICES ASSUME q # r, Running(q) PROVE req'[q].overlap
      OBVIOUS
    <3>1. req'[q] = [req[q] EXCEPT !.overlap = TRUE]
      BY <1>5, <2>5 DEF Enter
    <3> QED BY <1>1, <3>1 DEF Request
  <2>7. req'[r].overlap = Overlaps(r)
    BY <1>1, <1>5 DEF Enter, Request
  <2>8. ASSUME NEW q \in Reqs, Running(q)', TakesLock(q)'
        PROVE  lock' = q
    <3>1. CASE q = r
      BY <2>1, <2>3, <2>8, <3>1
    <3>2. CASE q # r
      <4>1. Running(q) /\ TakesLock(q) /\ lock = q /\ ~TakesLock(r)
        BY <2>3, <2>5, <2>8, <3>2 DEF LockInv
      <4> QED BY <2>1, <4>1
    <3> QED BY <3>1, <3>2
  <2>9. ASSUME NEW q \in Reqs, NEW p \in Reqs, Running(q)', Running(p)', q # p
        PROVE  req'[q].overlap
    BY <2>3, <2>5, <2>6, <2>7, <2>9
  <2>10. ASSUME NEW q \in Reqs, Running(q)', req'[q].overlap
         PROVE  ack' = NoPromise
    BY <2>1, <2>3, <2>5, <2>7, <2>10
  <2> QED BY <2>1, <2>8, <2>9, <2>10 DEF LockInv
<1> QED BY <1>2, <1>3, <1>4, <1>5 DEF Next

\* Two devices never share a slot, in the file or in a file object.
LEMMA DevicesKept ==
  ASSUME TInv, DevicesInv, Next
  PROVE  DevicesInv'
<1>1. /\ req \in [Reqs -> Request] /\ file \in Contents /\ OnePerSlot(file.devices)
      /\ \A r \in Reqs : req[r] \in Request /\ OnePerSlot(req[r].net.devices) /\ HasItsWork(req[r])
  BY DEF TInv, TypeOK, DevicesInv
<1>2. \A r \in Reqs : req[r].net \in Contents /\ req[r].net.devices \in SUBSET Device
  BY <1>1 DEF Request, Contents
<1>3. Idle.net.devices = {} /\ OnePerSlot({})
  BY FS_EmptySet DEF Idle, Empty, OnePerSlot
<1>4. CASE Crash
  BY <1>1, <1>3, <1>4 DEF Crash, DevicesInv
<1>5. ASSUME NEW r \in Reqs, Step(r)
      PROVE  DevicesInv'
  <2>0. \A q \in Reqs \ {r} : req'[q] = req[q]
    BY <1>5, StepTypes, StepOthers
  <2>1. SUFFICES OnePerSlot(file'.devices) /\ OnePerSlot(req'[r].net.devices)
    BY <1>1, <2>0 DEF DevicesInv
  <2>2. ASSUME Answer(r) PROVE OnePerSlot(req'[r].net.devices)
    BY <1>1, <1>3, <2>2 DEF Answer
  <2>3. ASSUME Applied PROVE OnePerSlot(file'.devices)
    BY <1>1, <2>3, AppliedTypes
  <2>4. ASSUME NEW step, Goto(r, step) PROVE OnePerSlot(req'[r].net.devices)
    BY <1>1, <2>4 DEF Goto, Request
  <2>5. CASE List(r)
    BY <1>1, <2>5 DEF List, Request
  <2>6. CASE Load(r) \/ LoadStubs(r)
    <3>1. Loaded(file, natMem).devices = file.devices /\ Loaded(Empty, natMem).devices = {}
      BY <1>1 DEF Loaded, Merged, Contents, Empty
    <3>2. PICK net \in {Loaded(file, natMem), Loaded(Empty, natMem)}, stub \in BOOLEAN :
            ToEdit(r, net, stub)
      BY <2>6 DEF Load, LoadStubs
    <3> QED BY <1>1, <1>3, <3>1, <3>2 DEF ToEdit, Request
  <2>7. CASE EditAdd(r) \/ EditDelete(r)
    <3>1. PICK fwds : req' = [req EXCEPT ![r].net.fwds = fwds, ![r].todo = Tail(@)]
      BY <1>1, <2>7 DEF EditAdd, EditDelete
    <3>2. req'[r].net = [req[r].net EXCEPT !.fwds = fwds]
      BY <1>1, <3>1 DEF Request
    <3>3. req'[r].net.devices = req[r].net.devices
      BY <1>2, <3>2 DEF Contents
    <3> QED BY <1>1, <2>7, <3>3 DEF EditAdd, EditDelete
  <2>8. CASE EditFails(r) \/ NoDevice(r) \/ SaveFails(r) \/ PersistFails(r) \/ ConfigureFails(r)
               \/ StartFails(r) \/ Start(r) \/ StartIgnored(r) \/ VerifyStart(r)
    BY <1>1, <2>2, <2>8 DEF EditFails, NoDevice, SaveFails, PersistFails, ConfigureFails, StartFails,
       Start, StartIgnored, VerifyStart, Fail, Succeed
  <2>9. CASE EditsDone(r) \/ Persist(r) \/ Stop(r)
    BY <1>1, <2>4, <2>9 DEF EditsDone, Persist, Stop
  <2>10. CASE EditCreate(r)
    <3> DEFINE devices == CreateDevice(req[r].net.devices, req[r].op.config)
    <3>1. req[r].op.config \in Configs
      BY <1>1, <2>10, OperationFields DEF EditCreate, At, Kind, HasItsWork
    <3>2. OnePerSlot(devices)
      BY <1>1, <1>2, <3>1, OnePerSlotKept
    <3>3. UNCHANGED file /\ \E op : req' = [req EXCEPT ![r].pc = "save", ![r].op = op, ![r].net.devices = devices]
      BY <1>1, <2>10 DEF EditCreate
    <3> HIDE DEF devices
    <3>4. req'[r].net = [req[r].net EXCEPT !.devices = devices]
      BY <1>1, <3>3 DEF Request
    <3>5. req'[r].net.devices = devices
      BY <1>2, <3>4 DEF Contents
    <3> QED BY <1>1, <3>2, <3>3, <3>5
  <2>11. CASE EditDevice(r)
    <3> DEFINE op == req[r].op
               devices == IF op.kind = "update" THEN UpdateDevice(req[r].net.devices, op.slot, op.config)
                          ELSE RemoveDevice(req[r].net.devices, op.slot)
    <3>1. op \in Operation /\ op.kind \in {"update", "remove"}
      BY <1>1, <2>11 DEF EditDevice, At, Kind, HasItsWork
    <3>2. OnePerSlot(devices)
      <4>1. CASE op.kind = "update"
        BY <1>1, <1>2, <3>1, <4>1, OperationFields, OnePerSlotKept
      <4>2. CASE op.kind = "remove"
        <5>1. IsFiniteSet(RemoveDevice(req[r].net.devices, op.slot))
          BY <1>1, FS_Subset DEF OnePerSlot, RemoveDevice
        <5>2. OnePerSlot(RemoveDevice(req[r].net.devices, op.slot))
          BY <1>1, <5>1 DEF OnePerSlot, RemoveDevice
        <5> QED BY <4>2, <5>2
      <4> QED BY <3>1, <4>1, <4>2
    <3>3. UNCHANGED file /\ req' = [req EXCEPT ![r].pc = "save", ![r].net.devices = devices]
      BY <1>1, <2>11 DEF EditDevice
    <3> HIDE DEF devices
    <3>4. req'[r].net = [req[r].net EXCEPT !.devices = devices]
      BY <1>1, <3>3 DEF Request
    <3>5. req'[r].net.devices = devices
      BY <1>2, <3>4 DEF Contents
    <3> QED BY <1>1, <3>2, <3>3, <3>5
  <2>12. CASE EditReserve(r)
    <3> DEFINE res == AddDhcpReservation(req[r].net.res, req[r].op.mac, req[r].op.addr)
    <3>1. UNCHANGED file /\ req' = [req EXCEPT ![r].pc = "save", ![r].net.res = res]
      BY <1>1, <2>12 DEF EditReserve
    <3> HIDE DEF res
    <3>2. req'[r].net = [req[r].net EXCEPT !.res = res]
      BY <1>1, <3>1 DEF Request
    <3>3. req'[r].net.devices = req[r].net.devices
      BY <1>2, <3>2 DEF Contents
    <3> QED BY <1>1, <3>1, <3>3
  <2>13. CASE Save(r)
    <3>1. file'.devices = req[r].net.devices
      BY <1>2, <2>13, ContentsKept DEF Save
    <3> QED BY <1>1, <2>4, <2>13, <3>1 DEF Save
  <2>14. CASE NatClear(r)
    BY <1>1, <2>14 DEF NatClear, Request
  <2>15. CASE NatMultiAdd(r)
    BY <1>1, <2>4, <2>15 DEF NatMultiAdd, Request
  <2>16. CASE Configure(r)
    BY <1>1, <2>3, <2>4, <2>16 DEF Configure
  <2>17. CASE VerifyStatus(r)
    BY <1>1, <2>2, <2>4, <2>17 DEF VerifyStatus
  <2>18. CASE VerifyStop(r)
    BY <1>1, <2>3, <2>4, <2>18 DEF VerifyStop
  <2>19. CASE VerifyStartFails(r)
    <3>1. CASE req[r].op.try < 3
      BY <1>1, <2>19, <3>1 DEF VerifyStartFails, Request
    <3>2. CASE ~(req[r].op.try < 3)
      BY <1>1, <2>2, <2>19, <3>2 DEF VerifyStartFails
    <3> QED BY <3>1, <3>2
  <2> QED BY <1>5, <2>5, <2>6, <2>7, <2>8, <2>9, <2>10, <2>11, <2>12, <2>13, <2>14, <2>15, <2>16,
             <2>17, <2>18, <2>19 DEF Step
<1>6. ASSUME NEW r \in Reqs, Arrive(r)
      PROVE  DevicesInv'
  <2>1. \E op : req' = [req EXCEPT ![r] = [Idle EXCEPT !.pc = "wait", !.op = op]]
    BY <1>6 DEF Arrive
  <2>2. \A q \in Reqs : req'[q].net = req[q].net \/ req'[q].net = Idle.net
    BY <1>1, <2>1 DEF Idle
  <2> QED BY <1>1, <1>3, <1>6, <2>2 DEF Arrive, DevicesInv
<1>7. ASSUME NEW r \in Reqs, Enter(r)
      PROVE  DevicesInv'
  <2>1. \A q \in Reqs : req'[q].net = req[q].net
    BY <1>1, <1>7 DEF Enter, Request
  <2> QED BY <1>1, <1>7, <2>1 DEF Enter, DevicesInv
<1> QED BY <1>4, <1>5, <1>6, <1>7 DEF Next

-----------------------------------------------------------------------------
(* Who runs alone. *)

\* A step of an overlapped request leaves nobody alone and nothing promised; a
\* request that steps and is not overlapped is the only one that runs.
LEMMA StepAlone ==
  ASSUME TInv, DevicesInv, LockInv, NEW r \in Reqs, Step(r)
  PROVE  /\ Running(r) /\ ~settled
         /\ \A q \in Reqs : Alone(q)' => q = r /\ Alone(r) /\ GoesOn(r)
         /\ req[r].overlap => ack = NoPromise /\ ack' = NoPromise /\ ~settled'
<1>1. /\ Running(r)
      /\ \A q \in Reqs \ {r} : req'[q] = req[q] /\ (Running(q)' <=> Running(q))
      /\ Running(r)' => GoesOn(r)
  BY StepTypes, StepOthers
<1>2. ~settled
  BY <1>1 DEF LockInv
<1>3. ASSUME NEW q \in Reqs, Alone(q)'
      PROVE  q = r /\ Alone(r) /\ GoesOn(r)
  <2>1. Running(q)' /\ ~req'[q].overlap
    BY <1>3 DEF Alone
  <2>2. q = r
    <3> SUFFICES ASSUME q # r PROVE FALSE
      OBVIOUS
    <3>1. Running(q) /\ ~req[q].overlap
      BY <1>1, <2>1
    <3> QED BY <1>1, <3>1 DEF LockInv
  <2>3. GoesOn(r) /\ ~req[r].overlap
    BY <1>1, <2>1, <2>2 DEF GoesOn
  <2> QED BY <1>1, <2>2, <2>3 DEF Alone
<1>4. ASSUME req[r].overlap
      PROVE  ack = NoPromise /\ ack' = NoPromise /\ ~settled'
  <2>1. ack = NoPromise
    BY <1>1, <1>4 DEF LockInv
  <2> QED BY <1>2, <1>4, <2>1, StepHistory
<1> QED BY <1>1, <1>2, <1>3, <1>4

\* A request enters either alone, forgetting what was promised of its things,
\* or beside others, and then nothing is promised and nobody is alone.
LEMMA EnterAlone ==
  ASSUME TInv, LockInv, NEW r \in Reqs, Enter(r)
  PROVE  /\ UNCHANGED <<file, natMem, natDisk, natConf, live>> /\ ~settled'
         /\ req'[r].op = req[r].op /\ req'[r].pc \in {"list", "status", "load"}
         /\ \/ /\ ack' = NoPromise /\ \A q \in Reqs : ~Alone(q)'
            \/ /\ ack' = Forget(req[r].op)
               /\ \A q \in Reqs : ~Running(q)
               /\ \A q \in Reqs : Alone(q)' => q = r
<1>1. req \in [Reqs -> Request] /\ req[r].pc = "wait"
  BY DEF TInv, TypeOK, Enter, At
<1>2. LockFree(r) /\ UNCHANGED <<file, natMem, natDisk, natConf, live>> /\ ~settled'
  BY DEF Enter
<1>3. \A q \in Reqs : req'[q].op = req[q].op /\ (q # r => req'[q].pc = req[q].pc)
  BY <1>1 DEF Enter, Request
<1>4. req'[r].pc = FirstStep(req[r].op) /\ req'[r].overlap = Overlaps(r)
  BY <1>1 DEF Enter, Request
<1>5. FirstStep(req[r].op) \in {"list", "status", "load"}
  BY DEF FirstStep
<1>6. ASSUME NEW q \in Reqs, Running(q)
      PROVE  Overlaps(r) /\ req'[q].overlap
  <2>1. q # r
    BY <1>1, <1>6 DEF Running
  <2>2. ~TakesLock(q) \/ ~TakesLock(r)
    BY <1>2, <1>6, OperationsAssumption DEF LockInv, LockFree
  <2>3. req'[q] = [req[q] EXCEPT !.overlap = TRUE]
    BY <1>6, <2>1, <2>2 DEF Enter
  <2> QED BY <1>1, <1>6, <2>1, <2>2, <2>3 DEF Overlaps, Request
<1>7. CASE Overlaps(r)
  <2>1. ack' = NoPromise
    BY <1>7 DEF Enter
  <2>2. \A q \in Reqs : ~Alone(q)'
    <3> TAKE q \in Reqs
    <3>1. CASE q = r
      BY <1>4, <1>7, <3>1 DEF Alone
    <3>2. CASE q # r
      BY <1>3, <1>6, <3>2 DEF Alone, Running
    <3> QED BY <3>1, <3>2
  <2> QED BY <1>2, <1>3, <1>4, <1>5, <2>1, <2>2
<1>8. CASE ~Overlaps(r)
  <2>1. ack' = Forget(req[r].op)
    BY <1>8 DEF Enter
  <2>2. \A q \in Reqs : ~Running(q)
    BY <1>6, <1>8
  <2>3. \A q \in Reqs : Alone(q)' => q = r
    BY <1>3, <2>2 DEF Alone, Running
  <2> QED BY <1>2, <1>3, <1>4, <1>5, <2>1, <2>2, <2>3
<1> QED BY <1>7, <1>8

\* A request that arrives waits: it changes nothing of what runs.
LEMMA ArriveAlone ==
  ASSUME TInv, NEW r \in Reqs, Arrive(r)
  PROVE  /\ UNCHANGED <<file, natMem, natDisk, natConf, live, lock, ack, settled>>
         /\ \A q \in Reqs : Alone(q)' => Alone(q) /\ req'[q] = req[q]
<1>1. req \in [Reqs -> Request]
  BY DEF TInv, TypeOK
<1>2. /\ \E op : req' = [req EXCEPT ![r] = [Idle EXCEPT !.pc = "wait", !.op = op]]
      /\ UNCHANGED <<file, natMem, natDisk, natConf, live, lock, ack, settled>>
  BY DEF Arrive
<1>3. ~Alone(r)' /\ \A q \in Reqs \ {r} : req'[q] = req[q]
  BY <1>1, <1>2 DEF Alone, Running, Idle
<1> QED BY <1>2, <1>3 DEF Alone, Running

\* A crash leaves nobody running.
LEMMA CrashAlone ==
  ASSUME Crash
  PROVE  /\ UNCHANGED <<file, natDisk, natConf, live, ack, settled>> /\ natMem' = natDisk
         /\ \A q \in Reqs : ~Alone(q)'
BY DEF Crash, Alone, Running, Idle

-----------------------------------------------------------------------------
(* A success leaves everything in step. *)

\* How far a request that runs alone has brought the copies into step.
InStep(r) ==
  /\ req[r].pc \in {"configure", "stop", "start"} => natMem = natDisk
  /\ req[r].pc \in {"stop", "start"} => natConf = Served(file.fwds)

SyncInv == SuccessSettles /\ \A r \in Reqs : Alone(r) => InStep(r)

\* The step that leads to each of the last steps, and the one that settles.
LEMMA LastSteps ==
  ASSUME TInv, NEW r \in Reqs, Step(r)
  PROVE  /\ req'[r].pc = "configure" => Persist(r)
         /\ req'[r].pc = "stop" => Configure(r)
         /\ req'[r].pc = "start" => Stop(r)
         /\ settled' => settled \/ Start(r)
<1>1. req \in [Reqs -> Request]
  BY DEF TInv, TypeOK
<1>2. settled' => settled \/ Start(r)
  <2>1. CASE Start(r)
    BY <2>1
  <2>2. CASE ~Start(r)
    <3>1. settled' = settled
      BY <2>2 DEF Step, List, EditCreate, StartIgnored, Load, LoadStubs, ToEdit, EditAdd, EditDelete, EditFails,
         EditsDone, EditDevice, NoDevice, EditReserve, Save, SaveFails, NatClear, NatMultiAdd, Persist, PersistFails,
         Configure, ConfigureFails, Stop, StartFails, VerifyStatus, VerifyStop, VerifyStart,
         VerifyStartFails, Fail
    <3>2. settled' => settled
      BY <3>1
    <3> QED BY <3>2
  <2> QED BY <2>1, <2>2
<1>3. ASSUME NEW step, Goto(r, step)
      PROVE  req'[r].pc = step
  BY <1>1, <1>3 DEF Goto, Request
<1>4. ASSUME Answer(r)
      PROVE  req'[r].pc = "idle"
  BY <1>1, <1>4 DEF Answer, Idle
<1>5. CASE Persist(r) \/ Configure(r) \/ Stop(r)
  BY <1>2, <1>3, <1>5 DEF Persist, Configure, Stop
<1>6. CASE EditFails(r) \/ NoDevice(r) \/ SaveFails(r) \/ PersistFails(r) \/ ConfigureFails(r)
             \/ StartFails(r) \/ Start(r) \/ StartIgnored(r) \/ VerifyStart(r)
  <2>1. req'[r].pc = "idle"
    BY <1>4, <1>6 DEF EditFails, NoDevice, SaveFails, PersistFails, ConfigureFails, StartFails,
       Start, StartIgnored, VerifyStart, Fail, Succeed
  <2> QED BY <1>2, <2>1
<1>7. CASE List(r) \/ Load(r) \/ LoadStubs(r) \/ EditAdd(r) \/ EditDelete(r) \/ EditCreate(r) \/ EditDevice(r)
             \/ EditReserve(r) \/ NatClear(r)
  <2>1. ASSUME List(r) \/ Load(r) \/ LoadStubs(r) \/ NatClear(r)
        PROVE  req'[r].pc \in {"load", "edit", "add"}
    <3>1. ASSUME NEW net, NEW stub, ToEdit(r, net, stub)
          PROVE  req'[r].pc = "edit"
      BY <1>1, <3>1 DEF ToEdit, Request
    <3>2. CASE Load(r) \/ LoadStubs(r)
      BY <3>1, <3>2 DEF Load, LoadStubs
    <3>3. CASE List(r) \/ NatClear(r)
      BY <1>1, <3>3 DEF List, NatClear, Request
    <3> QED BY <2>1, <3>2, <3>3
  <2>2. ASSUME EditAdd(r) \/ EditDelete(r)
        PROVE  req'[r].pc = "edit"
    <3>1. \E fwds : req' = [req EXCEPT ![r].net.fwds = fwds, ![r].todo = Tail(@)]
      BY <1>1, <2>2 DEF EditAdd, EditDelete
    <3>2. req[r].pc = "edit"
      BY <2>2 DEF EditAdd, EditDelete, At
    <3> QED BY <1>1, <3>1, <3>2 DEF Request
  <2>3. ASSUME EditCreate(r) \/ EditDevice(r) \/ EditReserve(r)
        PROVE  req'[r].pc = "save"
    <3>1. CASE EditCreate(r)
      <4>1. \E op, c : req' = [req EXCEPT ![r].pc = "save", ![r].op = op,
                                           ![r].net.devices = CreateDevice(@, c)]
        BY <3>1 DEF EditCreate
      <4> QED BY <1>1, <4>1 DEF Request
    <3>2. CASE EditDevice(r)
      BY <1>1, <3>2 DEF EditDevice, Request
    <3>3. CASE EditReserve(r)
      BY <1>1, <3>3 DEF EditReserve, Request
    <3> QED BY <2>3, <3>1, <3>2, <3>3
  <2>4. req'[r].pc \in {"load", "edit", "save", "add"}
    BY <1>7, <2>1, <2>2, <2>3
  <2> QED BY <1>2, <2>4
<1>8. CASE EditsDone(r) \/ Save(r)
  BY <1>2, <1>3, <1>8 DEF EditsDone, Save
<1>9. CASE NatMultiAdd(r)
  <2>1. req'[r].pc \in {"persist", "add"}
    BY <1>1, <1>3, <1>9 DEF NatMultiAdd, Request, At
  <2> QED BY <1>2, <2>1
<1>10. CASE VerifyStatus(r) \/ VerifyStop(r) \/ VerifyStartFails(r)
  <2>1. req'[r].pc \in {"idle", "vstop", "vstart"}
    BY <1>1, <1>3, <1>4, <1>10 DEF VerifyStatus, VerifyStop, VerifyStartFails, Request
  <2> QED BY <1>2, <2>1
<1> QED BY <1>5, <1>6, <1>7, <1>8, <1>9, <1>10 DEF Step

\* The copies stay in step.
LEMMA SyncKept ==
  ASSUME TInv, DevicesInv, LockInv, SyncInv, Next
  PROVE  SyncInv'
<1>1. CASE Crash
  BY <1>1, CrashAlone DEF SyncInv, SuccessSettles
<1>2. ASSUME NEW r \in Reqs, Arrive(r)
      PROVE  SyncInv'
  BY <1>2, ArriveAlone DEF SyncInv, SuccessSettles, InStep
<1>3. ASSUME NEW r \in Reqs, Enter(r)
      PROVE  SyncInv'
  BY <1>3, EnterAlone DEF SyncInv, SuccessSettles, InStep
<1>4. ASSUME NEW r \in Reqs, Step(r)
      PROVE  SyncInv'
  <2>1. /\ ~settled /\ Running(r)
        /\ \A q \in Reqs : Alone(q)' => q = r /\ Alone(r) /\ GoesOn(r)
        /\ req[r].overlap => ~settled'
    BY <1>4, StepAlone
  <2>2. SuccessSettles'
    <3> SUFFICES ASSUME settled' PROVE (live = natConf /\ natConf = Served(file.fwds) /\ natMem = natDisk)'
      BY DEF SuccessSettles
    <3>1. Start(r) /\ Alone(r)
      BY <1>4, <2>1, LastSteps DEF Alone
    <3>2. natMem = natDisk /\ natConf = Served(file.fwds)
      BY <3>1 DEF SyncInv, InStep, Start, At
    <3> QED BY <3>1, <3>2 DEF Start
  <2>3. ASSUME Alone(r)'
        PROVE  InStep(r)'
    <3>1. InStep(r)
      BY <2>1, <2>3 DEF SyncInv
    <3>2. CASE req'[r].pc = "configure"
      <4>1. Persist(r)
        BY <1>4, <3>2, LastSteps
      <4> QED BY <3>2, <4>1 DEF Persist, InStep
    <3>3. CASE req'[r].pc = "stop"
      <4>1. Configure(r)
        BY <1>4, <3>3, LastSteps
      <4>2. natMem = natDisk /\ UNCHANGED <<natMem, natDisk>> /\ Applied
        BY <3>1, <4>1 DEF Configure, InStep, At
      <4>3. file \in Contents
        BY DEF TInv, TypeOK
      <4> QED BY <4>2, <4>3, AppliedTypes DEF InStep
    <3>4. CASE req'[r].pc = "start"
      <4>1. Stop(r)
        BY <1>4, <3>4, LastSteps
      <4> QED BY <3>1, <4>1 DEF Stop, InStep, At
    <3>5. CASE req'[r].pc \notin {"configure", "stop", "start"}
      BY <3>5 DEF InStep
    <3> QED BY <3>2, <3>3, <3>4, <3>5
  <2> QED BY <2>1, <2>2, <2>3 DEF SyncInv
<1> QED BY <1>1, <1>2, <1>3, <1>4 DEF Next

-----------------------------------------------------------------------------
(* Where an acknowledged forward is. *)

\* The forwards promised, and those request r will promise.
PromisedFwds == {Enabled(ack.fwd[p]) : p \in {q \in Ports : Promised(q)}}

LastFwds(fwds) == {Enabled(fwds[k]) : k \in {i \in DOMAIN fwds : IsLast(fwds, i)}}

OwnFwds(r) == IF Kind(r) = "add" THEN LastFwds(req[r].op.fwds) ELSE {}

\* The forwards a request names are not promised while it runs.
Forgotten(r) ==
  Kind(r) \in {"add", "delete"} => \A p \in PortsOf(req[r].op.fwds) : ~Promised(p)

\* While the file object is edited it keeps what is promised, unless it is a
\* stub, and comes to have what the request asks for.
EditKeeps(r) ==
  /\ Kind(r) \in {"add", "delete"} => PortsOf(req[r].todo) \subseteq PortsOf(req[r].op.fwds)
  /\ ~req[r].stub => \A l \in PromisedFwds : Effective(req[r].net.fwds, l) /\ Clean(req[r].net.fwds, l)
  /\ \A l \in OwnFwds(r) : Adds(req[r].todo, req[r].net.fwds, l)

\* Edited, it has both; a stub that is saved ends the promises.
Edited(r) ==
  /\ ~(req[r].stub /\ At(r, "save")) =>
       \A l \in PromisedFwds : Effective(req[r].net.fwds, l) /\ Clean(req[r].net.fwds, l)
  /\ \A l \in OwnFwds(r) : Effective(req[r].net.fwds, l)

\* While the settings are refilled they have or will have both, and never an
\* entry that names another machine for a promised forward.
RefillKeeps(r) ==
  /\ \A l \in PromisedFwds \cup OwnFwds(r) : Refills(req[r].todo, natMem, l)
  /\ \A l \in PromisedFwds : Clean(req[r].todo, l) /\ CleanSet(natMem, l)

ForwardsKept(r) ==
  /\ Forgotten(r)
  /\ At(r, "edit") => EditKeeps(r)
  /\ req[r].pc \in {"save", "clear", "add"} => Edited(r)
  /\ req[r].pc \in {"clear", "add", "persist"} => file.fwds = req[r].net.fwds
  /\ At(r, "add") => RefillKeeps(r)
  /\ At(r, "persist") => \A l \in OwnFwds(r) : Effective(req[r].net.fwds, l) /\ l \in natMem
  /\ req[r].pc \in {"configure", "stop", "start"} =>
       \A l \in OwnFwds(r) : InForce(file.fwds, l) /\ l \in natMem /\ l \in natDisk

\* A promised forward is in force in the file, in the settings on disk and, but
\* for the time they are refilled, in those in memory.
ForwardsInv ==
  /\ OnePerPort(natMem) /\ OnePerPort(natDisk)
  /\ \A l \in PromisedFwds :
       /\ InForce(file.fwds, l) /\ l \in natDisk
       /\ l \in natMem \/ \E r \in Reqs : Alone(r) /\ At(r, "add")
  /\ \A r \in Reqs : Alone(r) => ForwardsKept(r)

\* A promised forward is an enabled one of the port it is promised for.
LEMMA PromisedFwdsFacts ==
  ASSUME IsHistory(ack)
  PROVE  /\ \A l \in PromisedFwds : l \in PortFwd /\ l.on /\ l.port \in Ports /\ Promised(l.port)
         /\ \A p \in Ports : Promised(p) => Enabled(ack.fwd[p]) \in PromisedFwds
<1>1. ASSUME NEW p \in Ports, Promised(p)
      PROVE  ack.fwd[p] \in AnyFwd /\ ack.fwd[p].port = p
  BY <1>1 DEF IsHistory, Promised
<1>2. ASSUME NEW f \in AnyFwd
      PROVE  Enabled(f) \in PortFwd /\ Enabled(f).on /\ Enabled(f).port = f.port
  BY DEF Enabled, PortFwd, AnyFwd
<1>3. \A l \in PromisedFwds : l \in PortFwd /\ l.on /\ l.port \in Ports /\ Promised(l.port)
  <2> TAKE l \in PromisedFwds
  <2>1. PICK p \in Ports : Promised(p) /\ l = Enabled(ack.fwd[p])
    BY DEF PromisedFwds
  <2> QED BY <1>1, <1>2, <2>1
<1> QED BY <1>3 DEF PromisedFwds

\* Forgetting and promising nothing promise no forward anew; granting promises
\* those the operation adds.
LEMMA PromisesShrink ==
  ASSUME NEW op
  PROVE  /\ ack' \in {ack, NoPromise, Forget(op)} => PromisedFwds' \subseteq PromisedFwds
         /\ ack' = NoPromise => PromisedFwds' = {}
         /\ ack' = Forget(op) /\ op.kind \in {"add", "delete"} =>
              \A p \in PortsOf(op.fwds) \cap Ports : ~Promised(p)'
         /\ ack' = ack => PromisedFwds' = PromisedFwds
<1>1. ack' = NoPromise => \A p \in Ports : ~Promised(p)'
  BY DEF NoPromise, Promised
<1>2. ack' = Forget(op) => \A p \in Ports : Promised(p)' => Promised(p) /\ ack'.fwd[p] = ack.fwd[p]
  BY DEF Forget, Promised
<1>3. ack' = Forget(op) /\ op.kind \in {"add", "delete"} =>
        \A p \in PortsOf(op.fwds) \cap Ports : ~Promised(p)'
  BY DEF Forget, Promised
<1> QED BY <1>1, <1>2, <1>3 DEF PromisedFwds, Promised

\* A success promises no forwards but those that were asked for.
LEMMA GrantedFwds ==
  ASSUME NEW op \in Operation, ack' = Granted(op)
  PROVE  PromisedFwds' \subseteq
           PromisedFwds \cup (IF op.kind = "add" THEN LastFwds(op.fwds) ELSE {})
<1> SUFFICES ASSUME NEW p \in Ports, Promised(p)'
             PROVE  \/ Promised(p) /\ ack'.fwd[p] = ack.fwd[p]
                    \/ op.kind = "add" /\ Enabled(ack'.fwd[p]) \in LastFwds(op.fwds)
  BY DEF PromisedFwds
<1>1. CASE op.kind = "add" /\ p \in PortsOf(op.fwds)
  <2> DEFINE k == CHOOSE i \in DOMAIN op.fwds : op.fwds[i].port = p /\ IsLast(op.fwds, i)
  <2>1. op.fwds \in Seq(AnyFwd) /\ HasPort(op.fwds, p)
    BY <1>1, OperationFields DEF PortsOf, HasPort
  <2>2. k \in DOMAIN op.fwds /\ IsLast(op.fwds, k)
    BY <2>1, LinesOfAPort
  <2>3. ack'.fwd[p] = op.fwds[k]
    BY <1>1 DEF Granted
  <2> HIDE DEF k
  <2> QED BY <1>1, <2>2, <2>3 DEF LastFwds
<1>2. CASE ~(op.kind = "add" /\ p \in PortsOf(op.fwds))
  <2>1. ack'.fwd[p] \in {Gone, ack.fwd[p]}
    BY <1>2 DEF Granted
  <2> QED BY <2>1 DEF Promised
<1> QED BY <1>1, <1>2

\* A forward that a request will promise is an enabled one of a port it names.
LEMMA OwnFwdsFacts ==
  ASSUME NEW fwds, NEW l \in LastFwds(fwds)
  PROVE  /\ l.on /\ l.port \in PortsOf(fwds)
         /\ HasPort(fwds, l.port) /\ \A net : Adds(fwds, net, l)
<1>1. PICK k \in DOMAIN fwds : IsLast(fwds, k) /\ l = Enabled(fwds[k])
  BY DEF LastFwds
<1>2. l.on /\ l.port = fwds[k].port
  BY <1>1 DEF Enabled
<1>3. HasPort(fwds, l.port) /\ l.port \in PortsOf(fwds)
  BY <1>2 DEF HasPort, PortsOf
<1> QED BY <1>1, <1>2, <1>3 DEF Adds

\* A forward in effect is in force, and fills empty settings.
LEMMA EffectiveFwds ==
  ASSUME NEW fwds, NEW l, Effective(fwds, l), l.on
  PROVE  InForce(fwds, l) /\ Refills(fwds, {}, l)
BY DEF Effective, InForce, Refills, HasPort

\* What a step of a request that runs alone has to keep.
ForwardsAfter(r) ==
  /\ OnePerPort(natMem') /\ OnePerPort(natDisk')
  /\ \A l \in PromisedFwds' :
       InForce(file'.fwds, l) /\ l \in natDisk' /\ (l \in natMem' \/ (Alone(r)' /\ At(r, "add")'))
  /\ Alone(r)' => ForwardsKept(r)'

\* The state in which a request that runs alone steps.
LEMMA ForwardsBefore ==
  ASSUME TInv, LockInv, ForwardsInv, NEW r \in Reqs, Alone(r)
  PROVE  /\ req \in [Reqs -> Request] /\ req[r] \in Request /\ HasItsWork(req[r])
         /\ req[r].op \in Operation /\ req[r].net \in Contents /\ req[r].net.fwds \in Seq(PortFwd)
         /\ file \in Contents /\ file.fwds \in Seq(PortFwd)
         /\ natMem \in SUBSET PortFwd /\ natDisk \in SUBSET PortFwd
         /\ OnePerPort(natMem) /\ OnePerPort(natDisk) /\ ForwardsKept(r)
         /\ \A l \in PromisedFwds :
              /\ l \in PortFwd /\ l.on /\ l.port \in Ports /\ Promised(l.port)
              /\ InForce(file.fwds, l) /\ l \in natDisk
              /\ l \in natMem \/ req[r].pc = "add"
<1>1. /\ req \in [Reqs -> Request] /\ req[r] \in Request /\ HasItsWork(req[r]) /\ IsHistory(ack)
      /\ file \in Contents /\ natMem \in SUBSET PortFwd /\ natDisk \in SUBSET PortFwd
  BY DEF TInv, TypeOK
<1>2. req[r].op \in Operation
  BY <1>1 DEF HasItsWork, Alone, Running
<1>3. req[r].net \in Contents /\ req[r].net.fwds \in Seq(PortFwd) /\ file.fwds \in Seq(PortFwd)
  BY <1>1 DEF Request, Contents
<1>4. ASSUME NEW q \in Reqs, Alone(q)
      PROVE  q = r
  BY <1>4 DEF LockInv, Alone
<1>5. \A l \in PromisedFwds :
        /\ InForce(file.fwds, l) /\ l \in natDisk
        /\ l \in natMem \/ req[r].pc = "add"
  BY <1>4 DEF ForwardsInv, At
<1> QED BY <1>1, <1>2, <1>3, <1>5, PromisedFwdsFacts DEF ForwardsInv

\* A request that is answered without success, at a step where the settings in
\* memory are whole, or that goes on to a step where nothing is kept.
LEMMA ForwardsIdle ==
  ASSUME TInv, LockInv, ForwardsInv, NEW r \in Reqs, Alone(r), req[r].pc # "add",
         UNCHANGED <<natMem, natDisk, ack>>,
         \A l : InForce(file.fwds, l) => InForce(file'.fwds, l),
         Alone(r)' => ForwardsKept(r)'
  PROVE  ForwardsAfter(r)
<1>1. PromisedFwds' = PromisedFwds
  BY PromisesShrink
<1> QED BY <1>1, ForwardsBefore DEF ForwardsAfter

\* Steps of a verification keep nothing of their own.
LEMMA ForwardsVerify ==
  ASSUME TInv, LockInv, ForwardsInv, NEW r \in Reqs, Alone(r),
         VerifyStatus(r) \/ VerifyStop(r) \/ VerifyStart(r) \/ VerifyStartFails(r)
  PROVE  ForwardsAfter(r)
<1>1. req \in [Reqs -> Request] /\ file \in Contents
  BY ForwardsBefore
<1>2. req[r].pc \in {"status", "vstop", "vstart"} /\ UNCHANGED <<natMem, natDisk, ack>>
  BY DEF VerifyStatus, VerifyStop, VerifyStart, VerifyStartFails, At
<1>3. UNCHANGED file \/ Applied
  BY DEF VerifyStatus, VerifyStop, VerifyStart, VerifyStartFails
<1>4. \A l : InForce(file.fwds, l) => InForce(file'.fwds, l)
  BY <1>1, <1>3, AppliedTypes
<1>5. ASSUME Alone(r)'
      PROVE  ForwardsKept(r)'
  <2>1. GoesOn(r) /\ HasItsWork(req'[r])
    BY <1>5, VerifyTypes, StepOthers DEF Shape, Alone
  <2>2. req'[r].pc \in {"vstop", "vstart"}
    <3>1. ~Answer(r)
      BY <1>1, <1>5 DEF Answer, Idle, Alone, Running
    <3>2. CASE VerifyStatus(r) \/ VerifyStop(r)
      BY <1>1, <3>1, <3>2 DEF VerifyStatus, VerifyStop, Goto, Request
    <3>3. CASE VerifyStartFails(r)
      BY <1>1, <3>1, <3>3 DEF VerifyStartFails, Request
    <3>4. CASE VerifyStart(r)
      BY <3>1, <3>4 DEF VerifyStart
    <3> QED BY <3>2, <3>3, <3>4
  <2>3. req'[r].op.kind = "verify"
    BY <2>1, <2>2, OperationsMade DEF HasItsWork
  <2> QED BY <2>2, <2>3 DEF ForwardsKept, Forgotten, Kind, At
<1> QED BY <1>2, <1>4, <1>5, ForwardsIdle

\* Listing and loading: the file object has what is promised.
LEMMA ForwardsLoad ==
  ASSUME TInv, LockInv, ForwardsInv, NEW r \in Reqs, Alone(r), List(r) \/ Load(r) \/ LoadStubs(r)
  PROVE  ForwardsAfter(r)
<1>1. /\ req \in [Reqs -> Request] /\ req[r] \in Request /\ HasItsWork(req[r]) /\ req[r].op \in Operation
      /\ file \in Contents /\ file.fwds \in Seq(PortFwd) /\ natMem \in SUBSET PortFwd
      /\ OnePerPort(natMem) /\ OnePerPort(natDisk) /\ ForwardsKept(r)
      /\ \A l \in PromisedFwds :
           /\ l \in PortFwd /\ l.on /\ l.port \in Ports /\ Promised(l.port)
           /\ InForce(file.fwds, l) /\ l \in natDisk
           /\ l \in natMem \/ req[r].pc = "add"
  BY ForwardsBefore
<1>2. CASE List(r)
  <2>1. PICK alive \in SUBSET Vms :
          LET op == [kind |-> "delete", fwds |-> Unused(alive)]
          IN req' = [req EXCEPT ![r].pc = "load", ![r].op = op] /\ ack' = Forget(op)
    BY <1>2 DEF List
  <2> DEFINE op == [kind |-> "delete", fwds |-> Unused(alive)]
  <2>2. op.fwds \in Seq(AnyFwd) /\ op.kind = "delete"
    BY <1>1, UnusedFwds
  <2>3. PortsOf(op.fwds) \subseteq Ports
    <3>1. \A k \in DOMAIN op.fwds : op.fwds[k] \in AnyFwd
      BY <2>2
    <3> QED BY <3>1 DEF PortsOf, AnyFwd
  <2> HIDE DEF op
  <2>4. PromisedFwds' \subseteq PromisedFwds /\ \A p \in PortsOf(op.fwds) : ~Promised(p)'
    BY <2>1, <2>2, <2>3, PromisesShrink DEF op
  <2>5. req'[r].pc = "load" /\ req'[r].op = op
    BY <1>1, <2>1 DEF Request, op
  <2>6. ForwardsKept(r)'
    BY <2>4, <2>5 DEF ForwardsKept, Forgotten, At
  <2>7. UNCHANGED <<file, natMem, natDisk>> /\ req[r].pc = "list"
    BY <1>2 DEF List, At
  <2> QED BY <1>1, <2>4, <2>6, <2>7 DEF ForwardsAfter
<1>3. CASE Load(r) \/ LoadStubs(r)
  <2> DEFINE fwds == MergeFwds(file.fwds, natMem)
             todo == IF Kind(r) \in {"add", "delete"} THEN req[r].op.fwds ELSE <<>>
  <2>1. PICK net \in {Loaded(file, natMem), Loaded(Empty, natMem)}, stub \in BOOLEAN :
          ToEdit(r, net, stub) /\ (stub \/ net = Loaded(file, natMem))
    <3>1. CASE Load(r)
      <4>1. ToEdit(r, Loaded(file, natMem), FALSE)
        BY <3>1 DEF Load
      <4> HIDE DEF fwds, todo
      <4> QED BY <4>1
    <3>2. CASE LoadStubs(r)
      <4>1. ToEdit(r, Loaded(Empty, natMem), TRUE)
        BY <3>2 DEF LoadStubs
      <4> HIDE DEF fwds, todo
      <4> QED BY <4>1
    <3> QED BY <1>3, <3>1, <3>2
  <2>2. stub \/ net.fwds = fwds
    BY <1>1, <2>1 DEF Loaded, Merged, Contents
  <2>3. /\ UNCHANGED <<file, natMem, natDisk, ack>> /\ req[r].pc = "load"
        /\ req'[r].pc = "edit" /\ req'[r].op = req[r].op /\ req'[r].net = net
        /\ req'[r].stub = stub /\ req'[r].todo = todo
    BY <1>1, <2>1 DEF ToEdit, At, Request
  <2> HIDE DEF todo
  <2>4. PromisedFwds' = PromisedFwds /\ OwnFwds(r)' = OwnFwds(r) /\ Kind(r)' = Kind(r)
    BY <2>3, PromisesShrink DEF OwnFwds, Kind
  <2>5. \A l \in PromisedFwds : Effective(fwds, l) /\ Clean(fwds, l)
    BY <1>1, <2>3, MergeRestores
  <2>6. ASSUME NEW l \in OwnFwds(r)
        PROVE  Adds(todo, net.fwds, l)
    <3>1. Kind(r) = "add" /\ l \in LastFwds(req[r].op.fwds)
      BY <2>6 DEF OwnFwds
    <3> QED BY <3>1, OwnFwdsFacts DEF todo
  <2>7. EditKeeps(r)'
    <3>1. Kind(r) \in {"add", "delete"} => PortsOf(todo) \subseteq PortsOf(req[r].op.fwds)
      BY DEF todo
    <3> QED BY <2>2, <2>3, <2>4, <2>5, <2>6, <3>1 DEF EditKeeps
  <2>8. Forgotten(r)'
    BY <1>1, <2>3, <2>4 DEF ForwardsKept, Forgotten, Promised
  <2>9. ForwardsKept(r)'
    BY <2>3, <2>7, <2>8 DEF ForwardsKept, At
  <2> QED BY <2>3, <2>9, ForwardsIdle
<1> QED BY <1>2, <1>3

\* Editing the forwards: what is promised is of other ports than the request's.
LEMMA ForwardsEdit ==
  ASSUME TInv, LockInv, ForwardsInv, NEW r \in Reqs, Alone(r),
         EditAdd(r) \/ EditDelete(r) \/ EditsDone(r)
  PROVE  ForwardsAfter(r)
<1> DEFINE fwds == req[r].net.fwds
           todo == req[r].todo
           f == Head(todo)
<1>1. /\ req \in [Reqs -> Request] /\ req[r] \in Request /\ HasItsWork(req[r]) /\ req[r].op \in Operation
      /\ req[r].net \in Contents /\ fwds \in Seq(PortFwd) /\ ForwardsKept(r)
      /\ \A l \in PromisedFwds : Promised(l.port) /\ l.port \in Ports
  BY ForwardsBefore
<1>2. req[r].pc = "edit" /\ Kind(r) \in {"add", "delete"} /\ UNCHANGED <<file, natMem, natDisk, ack>>
  BY DEF EditAdd, EditDelete, EditsDone, At
<1>3. EditKeeps(r) /\ Forgotten(r) /\ todo \in Seq(AnyFwd)
  BY <1>1, <1>2 DEF ForwardsKept, At, HasItsWork
<1>4. SUFFICES ForwardsKept(r)'
  BY <1>2, ForwardsIdle
<1>5. PromisedFwds' = PromisedFwds
  BY <1>2, PromisesShrink
<1>6. ASSUME req'[r].op = req[r].op
      PROVE  Forgotten(r)' /\ OwnFwds(r)' = OwnFwds(r) /\ Kind(r)' = Kind(r)
  BY <1>2, <1>3, <1>6 DEF Forgotten, OwnFwds, Kind, Promised
<1>7. CASE EditsDone(r)
  <2>1. todo = <<>> /\ req'[r] = [req[r] EXCEPT !.pc = "save"]
    BY <1>1, <1>7 DEF EditsDone, Goto
  <2>2. /\ req'[r].pc = "save" /\ req'[r].op = req[r].op /\ req'[r].net = req[r].net
        /\ req'[r].stub = req[r].stub
    BY <1>1, <2>1 DEF Request
  <2>3. \A p : ~HasPort(todo, p)
    BY <2>1 DEF HasPort
  <2>4. Edited(r)'
    BY <1>3, <1>5, <1>6, <2>2, <2>3 DEF EditKeeps, Adds, Edited, At
  <2> QED BY <1>6, <2>2, <2>4 DEF ForwardsKept, At
<1>8. CASE EditAdd(r) \/ EditDelete(r)
  <2> DEFINE new == IF EditAdd(r) THEN AddPortFwd(fwds, f) ELSE RemovePortFwd(fwds, f)
  <2>1. todo # <<>> /\ req' = [req EXCEPT ![r].net.fwds = new, ![r].todo = Tail(todo)]
    BY <1>1, <1>8 DEF EditAdd, EditDelete
  <2>2. f \in AnyFwd /\ PortsOf(todo) \subseteq PortsOf(req[r].op.fwds) /\ f.port \in PortsOf(todo)
    <3>1. f \in AnyFwd /\ 1 \in DOMAIN todo /\ f = todo[1]
      BY <1>3, <2>1, TailLines
    <3> HIDE DEF todo, f
    <3>2. f.port \in PortsOf(todo)
      BY <3>1 DEF PortsOf
    <3> QED BY <1>2, <1>3, <3>1, <3>2 DEF EditKeeps, todo
  <2>3. \A l \in PromisedFwds : l.port # f.port
    BY <1>1, <1>2, <1>3, <2>2 DEF Forgotten
  <2>4. ~req[r].stub => \A l \in PromisedFwds : Effective(new, l) /\ Clean(new, l)
    BY <1>1, <1>3, <2>2, <2>3, ChangedLines DEF EditKeeps
  <2>5. \A l \in OwnFwds(r) : Adds(Tail(todo), new, l)
    <3>1. CASE EditAdd(r)
      BY <1>1, <1>3, <2>1, <3>1, AddsStep DEF EditKeeps
    <3>2. CASE EditDelete(r) /\ ~EditAdd(r)
      <4>1. OwnFwds(r) = {}
        BY <3>2 DEF EditDelete, OwnFwds
      <4> QED BY <4>1
    <3> QED BY <1>8, <3>1, <3>2
  <2>6. PortsOf(Tail(todo)) \subseteq PortsOf(todo)
    <3>1. \A k \in DOMAIN Tail(todo) : k + 1 \in DOMAIN todo /\ Tail(todo)[k] = todo[k + 1]
      BY <1>3, <2>1, TailLines
    <3> QED BY <3>1 DEF PortsOf
  <2> HIDE DEF new
  <2>7. req'[r] = [req[r] EXCEPT !.net = [req[r].net EXCEPT !.fwds = new], !.todo = Tail(todo)]
    BY <1>1, <2>1
  <2>8. /\ req'[r].pc = "edit" /\ req'[r].op = req[r].op /\ req'[r].todo = Tail(todo)
        /\ req'[r].net = [req[r].net EXCEPT !.fwds = new] /\ req'[r].stub = req[r].stub
    BY <1>1, <1>2, <2>7 DEF Request
  <2>9. req'[r].net.fwds = new
    BY <1>1, <2>8 DEF Contents
  <2>10. PortsOf(Tail(todo)) \subseteq PortsOf(req[r].op.fwds)
    BY <2>2, <2>6
  <2>11. EditKeeps(r)'
    BY <1>5, <1>6, <2>4, <2>5, <2>8, <2>9, <2>10 DEF EditKeeps
  <2> QED BY <1>6, <2>8, <2>11 DEF ForwardsKept, At
<1> QED BY <1>7, <1>8

\* Editing devices and reservations leaves the object's forwards alone.
LEMMA ForwardsDevices ==
  ASSUME TInv, LockInv, ForwardsInv, NEW r \in Reqs, Alone(r),
         EditCreate(r) \/ EditDevice(r) \/ EditReserve(r)
  PROVE  ForwardsAfter(r)
<1>1. /\ req \in [Reqs -> Request] /\ req[r] \in Request /\ req[r].net \in Contents
      /\ natMem \in SUBSET PortFwd /\ OnePerPort(natMem) /\ OnePerPort(natDisk) /\ ForwardsKept(r)
      /\ \A l \in PromisedFwds :
           InForce(file.fwds, l) /\ l \in natDisk /\ (l \in natMem \/ req[r].pc = "add")
  BY ForwardsBefore
<1>2. req[r].pc = "edit" /\ UNCHANGED <<file, natMem, natDisk>>
  BY DEF EditCreate, EditDevice, EditReserve, At
<1>3. PromisedFwds' \subseteq PromisedFwds
  <2>1. ack' = ack \/ \E op : ack' = Forget(op)
    BY DEF EditCreate, EditDevice, EditReserve
  <2> QED BY <2>1, PromisesShrink
<1>4. /\ req'[r].pc = "save" /\ req'[r].op.kind \notin {"add", "delete"}
      /\ req'[r].net.fwds = req[r].net.fwds /\ req'[r].stub = req[r].stub
  <2>1. CASE EditCreate(r)
    <3> DEFINE devices == CreateDevice(req[r].net.devices, req[r].op.config)
    <3> DEFINE op == [kind |-> "update", slot |-> FreeSlot(UsedSlots(req[r].net.devices)),
                      config |-> req[r].op.config]
    <3>1. op.kind = "update"
      OBVIOUS
    <3>2. req' = [req EXCEPT ![r].pc = "save", ![r].op = op, ![r].net.devices = devices]
      BY <1>1, <2>1 DEF EditCreate
    <3> HIDE DEF op
    <3> HIDE DEF devices
    <3>3. /\ req'[r].pc = "save" /\ req'[r].op.kind = "update" /\ req'[r].stub = req[r].stub
          /\ req'[r].net = [req[r].net EXCEPT !.devices = devices]
      BY <1>1, <3>1, <3>2 DEF Request
    <3> QED BY <1>1, <3>3 DEF Contents
  <2>2. CASE EditDevice(r)
    <3>1. PICK devices : req' = [req EXCEPT ![r].pc = "save", ![r].net.devices = devices]
      BY <1>1, <2>2 DEF EditDevice
    <3>2. /\ req'[r].pc = "save" /\ req'[r].op = req[r].op /\ req'[r].stub = req[r].stub
          /\ req'[r].net = [req[r].net EXCEPT !.devices = devices]
      BY <1>1, <3>1 DEF Request
    <3>3. req'[r].net.fwds = req[r].net.fwds
      BY <1>1, <3>2 DEF Contents
    <3> QED BY <2>2, <3>2, <3>3 DEF EditDevice, Kind
  <2>3. CASE EditReserve(r)
    <3>1. PICK res : req' = [req EXCEPT ![r].pc = "save", ![r].net.res = res]
      BY <1>1, <2>3 DEF EditReserve
    <3>2. /\ req'[r].pc = "save" /\ req'[r].op = req[r].op /\ req'[r].stub = req[r].stub
          /\ req'[r].net = [req[r].net EXCEPT !.res = res]
      BY <1>1, <3>1 DEF Request
    <3>3. req'[r].net.fwds = req[r].net.fwds
      BY <1>1, <3>2 DEF Contents
    <3> QED BY <2>3, <3>2, <3>3 DEF EditReserve, Kind
  <2> QED BY <2>1, <2>2, <2>3
<1>5. Edited(r)'
  <2>1. ~req[r].stub =>
          \A l \in PromisedFwds : Effective(req[r].net.fwds, l) /\ Clean(req[r].net.fwds, l)
    BY <1>1, <1>2 DEF ForwardsKept, EditKeeps, At
  <2>2. OwnFwds(r)' = {}
    BY <1>4 DEF OwnFwds, Kind
  <2> QED BY <1>3, <1>4, <2>1, <2>2 DEF Edited, At
<1>6. ForwardsKept(r)'
  BY <1>4, <1>5 DEF ForwardsKept, Forgotten, Kind, At
<1> QED BY <1>1, <1>2, <1>3, <1>6 DEF ForwardsAfter

\* A request that fails takes nothing away.
LEMMA ForwardsFail ==
  ASSUME TInv, LockInv, ForwardsInv, NEW r \in Reqs, Alone(r),
         EditFails(r) \/ NoDevice(r) \/ SaveFails(r) \/ PersistFails(r) \/ ConfigureFails(r) \/ StartFails(r)
  PROVE  ForwardsAfter(r)
<1>1. /\ req[r].pc # "add" /\ Answer(r) /\ UNCHANGED <<file, natMem, natDisk, ack>>
  BY DEF EditFails, NoDevice, SaveFails, PersistFails, ConfigureFails, StartFails, Fail, At
<1>2. ~Alone(r)'
  <2>1. req \in [Reqs -> Request]
    BY ForwardsBefore
  <2> QED BY <1>1, <2>1 DEF Answer, Idle, Alone, Running
<1> QED BY <1>1, <1>2, ForwardsIdle

\* Saving: the file has what the object has.  A stub has only what its own
\* request asks for, and nothing else is promised any more.
LEMMA ForwardsSaved ==
  ASSUME TInv, LockInv, ForwardsInv, NEW r \in Reqs, Alone(r), Save(r)
  PROVE  ForwardsAfter(r)
<1> DEFINE fwds == req[r].net.fwds
<1>1. /\ req \in [Reqs -> Request] /\ req[r] \in Request /\ req[r].net \in Contents
      /\ OnePerPort(natMem) /\ OnePerPort(natDisk) /\ ForwardsKept(r)
      /\ \A l \in PromisedFwds :
           l.on /\ InForce(file.fwds, l) /\ l \in natDisk /\ (l \in natMem \/ req[r].pc = "add")
  BY ForwardsBefore
<1>2. /\ req[r].pc = "save" /\ file' = Saved(req[r].net) /\ UNCHANGED <<natMem, natDisk>>
      /\ ack' = IF req[r].stub THEN NoPromise ELSE ack
      /\ req'[r].pc = "clear" /\ req'[r].op = req[r].op /\ req'[r].net = req[r].net
  BY <1>1 DEF Save, At, Goto, Request
<1>3. file'.fwds = fwds
  BY <1>1, <1>2, ContentsKept
<1>4. PromisedFwds' \subseteq PromisedFwds /\ (req[r].stub => PromisedFwds' = {})
  BY <1>2, PromisesShrink
<1>5. Edited(r) /\ Forgotten(r)
  BY <1>1, <1>2 DEF ForwardsKept
<1>6. \A l \in PromisedFwds' : Effective(fwds, l) /\ Clean(fwds, l)
  BY <1>4, <1>5 DEF Edited
<1>7. Forgotten(r)' /\ OwnFwds(r)' = OwnFwds(r)
  <2>1. \A p \in Ports : Promised(p)' => Promised(p)
    BY <1>2 DEF NoPromise, Promised
  <2>2. ASSUME NEW p, Promised(p)', ~Promised(p)
        PROVE  ack' = NoPromise /\ p \notin Ports
    BY <1>2, <2>1, <2>2 DEF Promised
  <2>3. Kind(r) \in {"add", "delete"} => PortsOf(req[r].op.fwds) \subseteq Ports
    <3>1. req[r].op \in Operation
      BY ForwardsBefore
    <3>2. ASSUME Kind(r) \in {"add", "delete"}
          PROVE  \A k \in DOMAIN req[r].op.fwds : req[r].op.fwds[k] \in AnyFwd
      <4>1. req[r].op.fwds \in Seq(AnyFwd)
        BY <3>1, <3>2, OperationFields DEF Kind
      <4> QED BY <4>1
    <3> QED BY <3>2 DEF PortsOf, AnyFwd
  <2> QED BY <1>2, <1>5, <2>2, <2>3 DEF Forgotten, OwnFwds, Kind
<1>8. \A l \in PromisedFwds' : InForce(fwds, l)
  BY <1>1, <1>4, <1>6, EffectiveFwds
<1>9. Edited(r)'
  BY <1>2, <1>5, <1>6, <1>7 DEF Edited
<1>10. ForwardsKept(r)'
  BY <1>2, <1>3, <1>7, <1>9 DEF ForwardsKept, At
<1> QED BY <1>1, <1>2, <1>3, <1>4, <1>8, <1>10 DEF ForwardsAfter

\* Refilling the settings and restarting.
LEMMA ForwardsSave ==
  ASSUME TInv, LockInv, ForwardsInv, SyncInv, NEW r \in Reqs, Alone(r),
         NatClear(r) \/ NatMultiAdd(r) \/ Persist(r) \/ Configure(r) \/ Stop(r)
  PROVE  ForwardsAfter(r)
<1> DEFINE fwds == req[r].net.fwds
           todo == req[r].todo
<1>1. /\ req \in [Reqs -> Request] /\ req[r] \in Request /\ HasItsWork(req[r]) /\ req[r].op \in Operation
      /\ req[r].net \in Contents /\ fwds \in Seq(PortFwd) /\ ForwardsKept(r) /\ file \in Contents
      /\ natMem \in SUBSET PortFwd /\ OnePerPort(natMem) /\ OnePerPort(natDisk)
      /\ \A l \in PromisedFwds :
           l.on /\ InForce(file.fwds, l) /\ l \in natDisk /\ (l \in natMem \/ req[r].pc = "add")
  BY ForwardsBefore
<1>2. UNCHANGED ack /\ PromisedFwds' = PromisedFwds
  <2>1. UNCHANGED ack
    BY DEF NatClear, NatMultiAdd, Persist, Configure, Stop
  <2> QED BY <2>1, PromisesShrink
<1>3. \A l \in OwnFwds(r) : l.on
  BY OwnFwdsFacts DEF OwnFwds
<1>4. ASSUME req'[r].op = req[r].op
      PROVE  Forgotten(r)' /\ OwnFwds(r)' = OwnFwds(r)
  BY <1>1, <1>2, <1>4 DEF ForwardsKept, Forgotten, OwnFwds, Kind, Promised
<1>5. ASSUME NEW step, Goto(r, step)
      PROVE  /\ req'[r].pc = step /\ req'[r].op = req[r].op /\ req'[r].net = req[r].net
             /\ req'[r].todo = req[r].todo
  BY <1>1, <1>5 DEF Goto, Request
<1>6. CASE NatClear(r)
  <2>1. /\ req[r].pc = "clear" /\ natMem' = {} /\ UNCHANGED <<file, natDisk>>
        /\ req'[r].pc = "add" /\ req'[r].todo = fwds /\ req'[r].op = req[r].op /\ req'[r].net = req[r].net
    BY <1>1, <1>6 DEF NatClear, At, Request
  <2>2. Edited(r) /\ file.fwds = fwds
    BY <1>1, <2>1 DEF ForwardsKept
  <2>3. Edited(r)'
    BY <1>2, <1>4, <2>1, <2>2 DEF Edited, At
  <2>4. \A l \in PromisedFwds \cup OwnFwds(r) : Refills(fwds, {}, l)
    BY <1>1, <1>3, <2>1, <2>2, EffectiveFwds DEF Edited, At
  <2>5. \A l \in PromisedFwds : Clean(fwds, l) /\ CleanSet({}, l)
    BY <2>1, <2>2 DEF Edited, CleanSet, At
  <2>6. RefillKeeps(r)'
    BY <1>2, <1>4, <2>1, <2>4, <2>5 DEF RefillKeeps
  <2>7. ForwardsKept(r)'
    BY <1>4, <2>1, <2>2, <2>3, <2>6 DEF ForwardsKept, At
  <2>8. Alone(r)'
    BY <2>1, <1>1, <1>6 DEF NatClear, Alone, Running, Request
  <2>9. OnePerPort(natMem')
    BY <2>1 DEF OnePerPort
  <2> QED BY <1>1, <1>2, <2>1, <2>7, <2>8, <2>9 DEF ForwardsAfter, At
<1>7. CASE NatMultiAdd(r)
  <2>1. /\ req[r].pc = "add" /\ UNCHANGED <<file, natDisk>> /\ RefillKeeps(r) /\ Edited(r)
        /\ file.fwds = fwds /\ todo \in Seq(PortFwd)
    BY <1>1, <1>7 DEF NatMultiAdd, At, ForwardsKept, HasItsWork
  <2>2. CASE todo = <<>>
    <3>1. Goto(r, "persist") /\ natMem' = natMem
      BY <1>7, <2>2 DEF NatMultiAdd
    <3>2. \A l \in PromisedFwds \cup OwnFwds(r) : l \in natMem
      BY <2>1, <2>2 DEF RefillKeeps, Refills, HasPort
    <3>3. ForwardsKept(r)'
      BY <1>4, <1>5, <2>1, <3>1, <3>2 DEF ForwardsKept, Edited, At
    <3> QED BY <1>1, <1>2, <2>1, <3>1, <3>2, <3>3 DEF ForwardsAfter
  <2>3. CASE todo # <<>>
    <3> DEFINE nat == NatAdd(natMem, Head(todo))
    <3>1. /\ natMem' = nat /\ req'[r].todo = Tail(todo) /\ req'[r].pc = "add" /\ req'[r].op = req[r].op
          /\ req'[r].net = req[r].net /\ req'[r].overlap = req[r].overlap
      BY <1>1, <1>7, <2>1, <2>3 DEF NatMultiAdd, Request
    <3>2. /\ OnePerPort(nat)
          /\ \A l : Refills(todo, natMem, l) => Refills(Tail(todo), nat, l)
          /\ \A l : Clean(todo, l) /\ CleanSet(natMem, l) => Clean(Tail(todo), l) /\ CleanSet(nat, l)
      BY <1>1, <2>1, <2>3, RefillsStep
    <3> HIDE DEF nat, todo
    <3>3. RefillKeeps(r)'
      <4>1. PromisedFwds' = PromisedFwds /\ OwnFwds(r)' = OwnFwds(r)
        BY <1>2, <1>4, <3>1
      <4>2. \A l \in PromisedFwds \cup OwnFwds(r) : Refills(Tail(todo), nat, l)
        BY <2>1, <3>2 DEF RefillKeeps, todo
      <4>3. \A l \in PromisedFwds : Clean(Tail(todo), l) /\ CleanSet(nat, l)
        BY <2>1, <3>2 DEF RefillKeeps, todo
      <4> QED BY <3>1, <4>1, <4>2, <4>3 DEF RefillKeeps
    <3>4. Edited(r)'
      BY <1>2, <1>4, <2>1, <3>1 DEF Edited, At
    <3>5. ForwardsKept(r)'
      BY <1>4, <2>1, <3>1, <3>3, <3>4 DEF ForwardsKept, At
    <3>6. Alone(r)'
      BY <3>1 DEF Alone, Running
    <3> QED BY <1>1, <1>2, <2>1, <3>1, <3>2, <3>5, <3>6 DEF ForwardsAfter, At
  <2> QED BY <2>2, <2>3
<1>8. CASE Persist(r)
  <2>1. /\ req[r].pc = "persist" /\ natDisk' = natMem /\ Goto(r, "configure") /\ UNCHANGED <<file, natMem>>
    BY <1>8 DEF Persist, At
  <2>2. file.fwds = fwds /\ \A l \in OwnFwds(r) : Effective(fwds, l) /\ l \in natMem
    BY <1>1, <2>1 DEF ForwardsKept, At
  <2>3. \A l \in OwnFwds(r) : InForce(file.fwds, l)
    BY <1>3, <2>2, EffectiveFwds
  <2>4. ForwardsKept(r)'
    BY <1>4, <1>5, <2>1, <2>2, <2>3 DEF ForwardsKept, At
  <2> QED BY <1>1, <1>2, <2>1, <2>4 DEF ForwardsAfter
<1>9. CASE Configure(r) \/ Stop(r)
  <2>1. /\ req[r].pc \in {"configure", "stop"} /\ (Goto(r, "stop") \/ Goto(r, "start"))
        /\ UNCHANGED <<natMem, natDisk>> /\ (UNCHANGED file \/ Applied)
    BY <1>9 DEF Configure, Stop, At
  <2>2. \A l : InForce(file.fwds, l) => InForce(file'.fwds, l)
    BY <1>1, <2>1, AppliedTypes
  <2>3. \A l \in OwnFwds(r) : InForce(file.fwds, l) /\ l \in natMem /\ l \in natDisk
    BY <1>1, <2>1 DEF ForwardsKept
  <2>4. req'[r].pc \in {"stop", "start"} /\ req'[r].op = req[r].op
    BY <1>5, <2>1
  <2>5. ForwardsKept(r)'
    BY <1>4, <2>1, <2>2, <2>3, <2>4 DEF ForwardsKept, At
  <2> QED BY <1>2, <2>1, <2>2, <2>5, ForwardsIdle
<1> QED BY <1>6, <1>7, <1>8, <1>9

\* What a success promises is where it has to be.
LEMMA ForwardsGranted ==
  ASSUME TInv, LockInv, ForwardsInv, NEW r \in Reqs, Alone(r), Start(r) \/ StartIgnored(r)
  PROVE  ForwardsAfter(r)
<1>1. /\ req \in [Reqs -> Request] /\ req[r].op \in Operation /\ ForwardsKept(r)
      /\ OnePerPort(natMem) /\ OnePerPort(natDisk)
      /\ \A l \in PromisedFwds :
           InForce(file.fwds, l) /\ l \in natDisk /\ (l \in natMem \/ req[r].pc = "add")
  BY ForwardsBefore
<1>2. /\ req[r].pc = "start" /\ Answer(r) /\ ack' = Granted(req[r].op)
      /\ UNCHANGED <<file, natMem, natDisk>>
  BY DEF Start, StartIgnored, Succeed, At, Alone
<1>3. PromisedFwds' \subseteq PromisedFwds \cup OwnFwds(r)
  BY <1>1, <1>2, GrantedFwds DEF OwnFwds, Kind
<1>4. \A l \in OwnFwds(r) : InForce(file.fwds, l) /\ l \in natMem /\ l \in natDisk
  BY <1>1, <1>2 DEF ForwardsKept
<1>5. ~Alone(r)'
  BY <1>1, <1>2 DEF Answer, Idle, Alone, Running
<1> QED BY <1>1, <1>2, <1>3, <1>4, <1>5 DEF ForwardsAfter

\* The forwards invariant is kept.
LEMMA ForwardsStayKept ==
  ASSUME TInv, DevicesInv, LockInv, SyncInv, ForwardsInv, Next
  PROVE  ForwardsInv'
<1>1. CASE Crash
  <2>1. PromisedFwds' = PromisedFwds
    BY <1>1, CrashAlone, PromisesShrink
  <2> QED BY <1>1, <2>1, CrashAlone DEF ForwardsInv
<1>2. ASSUME NEW r \in Reqs, Arrive(r)
      PROVE  ForwardsInv'
  <2>1. /\ UNCHANGED <<file, natMem, natDisk, ack>> /\ PromisedFwds' = PromisedFwds
        /\ \A q \in Reqs : Alone(q)' => Alone(q) /\ req'[q] = req[q]
    BY <1>2, ArriveAlone, PromisesShrink
  <2>2. \A q \in Reqs : Alone(q) => Alone(q)' /\ req'[q] = req[q]
    <3> TAKE q \in Reqs
    <3>1. req[r].pc = "idle" /\ \A p \in Reqs \ {r} : req'[p] = req[p]
      BY <1>2 DEF Arrive, At, TInv, TypeOK
    <3> QED BY <3>1 DEF Alone, Running
  <2>3. ASSUME NEW q \in Reqs, Alone(q)'
        PROVE  ForwardsKept(q)'
    <3>1. ForwardsKept(q) /\ req'[q] = req[q]
      BY <2>1, <2>3 DEF ForwardsInv
    <3>2. OwnFwds(q)' = OwnFwds(q) /\ Kind(q)' = Kind(q)
      BY <3>1 DEF OwnFwds, Kind
    <3>3. Forgotten(q)' /\ (EditKeeps(q)' <=> EditKeeps(q)) /\ (Edited(q)' <=> Edited(q))
            /\ (RefillKeeps(q)' <=> RefillKeeps(q))
      BY <2>1, <3>1, <3>2 DEF ForwardsKept, Forgotten, Promised, EditKeeps, Edited, RefillKeeps, At
    <3> QED BY <2>1, <3>1, <3>2, <3>3 DEF ForwardsKept, At
  <2> QED BY <2>1, <2>2, <2>3 DEF ForwardsInv, At
<1>3. ASSUME NEW r \in Reqs, Enter(r)
      PROVE  ForwardsInv'
  <2> DEFINE op == req[r].op
  <2>1. /\ UNCHANGED <<file, natMem, natDisk>>
        /\ req'[r].op = op /\ req'[r].pc \in {"list", "status", "load"}
    BY <1>3, EnterAlone
  <2>2. CASE ack' = NoPromise /\ \A q \in Reqs : ~Alone(q)'
    <3>1. PromisedFwds' = {}
      BY <2>2, PromisesShrink
    <3> QED BY <2>1, <2>2, <3>1 DEF ForwardsInv
  <2>3. CASE /\ ack' = Forget(op)
             /\ \A q \in Reqs : ~Running(q)
             /\ \A q \in Reqs : Alone(q)' => q = r
    <3>1. PromisedFwds' \subseteq PromisedFwds
      BY <2>3, PromisesShrink
    <3>2. \A l \in PromisedFwds : l \in natMem
      BY <2>3 DEF ForwardsInv, Alone
    <3>3. Forgotten(r)'
      <4> SUFFICES ASSUME op.kind \in {"add", "delete"} PROVE \A p \in PortsOf(op.fwds) : ~Promised(p)'
        BY <2>1 DEF Forgotten, Kind
      <4>1. op \in Operation
        BY <1>3 DEF TInv, HasItsWork, Enter, At
      <4>2. op.fwds \in Seq(AnyFwd)
        BY <4>1, OperationFields
      <4>3. PortsOf(op.fwds) \subseteq Ports
        <5>1. \A k \in DOMAIN op.fwds : op.fwds[k] \in AnyFwd
          BY <4>2
        <5> QED BY <5>1 DEF PortsOf, AnyFwd
      <4> QED BY <2>3, <4>3, PromisesShrink
    <3>4. ForwardsKept(r)'
      BY <2>1, <3>3 DEF ForwardsKept, At
    <3> QED BY <2>1, <2>3, <3>1, <3>2, <3>4 DEF ForwardsInv
  <2> QED BY <1>3, <2>2, <2>3, EnterAlone
<1>4. ASSUME NEW r \in Reqs, Step(r)
      PROVE  ForwardsInv'
  <2>1. /\ Running(r)
        /\ \A q \in Reqs : Alone(q)' => q = r /\ Alone(r)
        /\ req[r].overlap => ack' = NoPromise
    BY <1>4, StepAlone
  <2>2. CASE Alone(r)
    <3>1. ForwardsAfter(r)
      BY <1>4, <2>2, ForwardsVerify, ForwardsLoad, ForwardsEdit, ForwardsDevices, ForwardsFail,
         ForwardsSaved, ForwardsSave, ForwardsGranted DEF Step
    <3> QED BY <2>1, <3>1 DEF ForwardsAfter, ForwardsInv
  <2>3. CASE ~Alone(r)
    <3>1. PromisedFwds' = {}
      BY <2>1, <2>3, PromisesShrink DEF Alone
    <3>2. \A q \in Reqs : ~Alone(q)'
      BY <2>1, <2>3
    <3>3. OnePerPort(natMem') /\ OnePerPort(natDisk')
      <4>1. req[r] \in Request /\ HasItsWork(req[r]) /\ natMem \in SUBSET PortFwd
        BY DEF TInv, TypeOK
      <4>2. OnePerPort(natMem) /\ OnePerPort(natDisk)
        BY DEF ForwardsInv
      <4>3. CASE NatClear(r)
        BY <4>2, <4>3 DEF NatClear, OnePerPort
      <4>4. CASE NatMultiAdd(r)
        <5>1. req[r].todo \in Seq(PortFwd)
          BY <4>1, <4>4 DEF NatMultiAdd, At, HasItsWork
        <5> QED BY <4>1, <4>2, <4>4, <5>1, RefillsStep DEF NatMultiAdd
      <4>5. CASE Persist(r)
        BY <4>2, <4>5 DEF Persist
      <4>6. CASE ~(NatClear(r) \/ NatMultiAdd(r) \/ Persist(r))
        <5>1. UNCHANGED <<natMem, natDisk>>
          BY <1>4, <4>6 DEF Step, List, Load, LoadStubs, ToEdit, EditAdd, EditDelete, EditFails, EditsDone, EditCreate,
             EditDevice, NoDevice, EditReserve, Save, SaveFails, PersistFails, Configure, ConfigureFails,
             Stop, Start, StartIgnored, StartFails, VerifyStatus, VerifyStop, VerifyStart, VerifyStartFails
        <5> QED BY <4>2, <5>1
      <4> QED BY <4>3, <4>4, <4>5, <4>6
    <3> QED BY <3>1, <3>2, <3>3 DEF ForwardsInv
  <2> QED BY <2>2, <2>3
<1> QED BY <1>1, <1>2, <1>3, <1>4 DEF Next

-----------------------------------------------------------------------------
(* Where an acknowledged device is. *)

\* The devices are as "promised" says of the slot: configured so, or gone.
DeviceKept(promised, devices, s) ==
  /\ promised \in Configs => [slot |-> s, config |-> promised] \in devices
  /\ promised = Gone => ~HasSlot(devices, s)

AllKept(devices) == \A s \in Slots : DeviceKept(ack.dev[s], devices, s)

\* The devices have what an operation will promise.
HasOwnDevice(devices, op) ==
  /\ op.kind = "update" => [slot |-> op.slot, config |-> op.config] \in devices
  /\ op.kind = "remove" => ~HasSlot(devices, op.slot)

\* The slot a request is about is not promised while it runs; its file object
\* keeps the others, unless it is a stub, and the request's own change once it
\* is made.
DeviceWork(r) ==
  /\ Kind(r) \in {"update", "remove"} /\ req[r].op.slot \in Slots => ack.dev[req[r].op.slot] = NoAck
  /\ req[r].pc \in {"edit", "save"} /\ ~req[r].stub => AllKept(req[r].net.devices)
  /\ At(r, "save") => HasOwnDevice(req[r].net.devices, req[r].op)
  /\ req[r].pc \in {"clear", "add", "persist", "configure", "stop", "start"} =>
       HasOwnDevice(file.devices, req[r].op)

PromisedDevicesInv ==
  /\ AllKept(file.devices)
  /\ \A r \in Reqs : Alone(r) => DeviceWork(r)

\* What is promised of a slot stays as it was, or nothing is promised of it.
LEMMA DevicePromisesShrink ==
  ASSUME NEW op, ack' \in {ack, NoPromise, Forget(op)}
  PROVE  /\ \A s \in Slots : ack'.dev[s] \in {ack.dev[s], NoAck}
         /\ \A devices : \A s \in Slots : DeviceKept(ack.dev[s], devices, s) =>
                                          DeviceKept(ack'.dev[s], devices, s)
<1>1. \A s \in Slots : ack'.dev[s] \in {ack.dev[s], NoAck}
  BY DEF Forget, NoPromise
<1>2. NoAck \notin Configs /\ NoAck # Gone
  BY OperationsAssumption
<1> QED BY <1>1, <1>2 DEF DeviceKept

\* A request's own fields, in the steps that change neither its operation nor
\* the devices of its file object.
LEMMA DevicesUntouched ==
  ASSUME TInv, NEW r \in Reqs,
         \/ EditAdd(r) \/ EditDelete(r) \/ EditsDone(r) \/ EditReserve(r)
         \/ Save(r) \/ NatClear(r) \/ NatMultiAdd(r) \/ Persist(r) \/ Configure(r) \/ Stop(r)
  PROVE  /\ req'[r].op = req[r].op /\ req'[r].net.devices = req[r].net.devices
         /\ req'[r].stub = req[r].stub
         /\ At(r, "save") \/ UNCHANGED ack
<1>1. req \in [Reqs -> Request] /\ req[r] \in Request /\ req[r].net \in Contents
  BY DEF TInv, TypeOK, Request
<1>2. At(r, "save") \/ UNCHANGED ack
  BY DEF EditAdd, EditDelete, EditsDone, EditReserve, Save, NatClear, NatMultiAdd, Persist, Configure, Stop
<1>3. ASSUME NEW step, Goto(r, step)
      PROVE  req'[r].op = req[r].op /\ req'[r].net = req[r].net /\ req'[r].stub = req[r].stub
  BY <1>1, <1>3 DEF Goto, Request
<1>4. CASE EditAdd(r) \/ EditDelete(r)
  <2>1. PICK fwds : req' = [req EXCEPT ![r].net.fwds = fwds, ![r].todo = Tail(@)]
    BY <1>1, <1>4 DEF EditAdd, EditDelete
  <2>2. /\ req'[r].op = req[r].op /\ req'[r].stub = req[r].stub
        /\ req'[r].net = [req[r].net EXCEPT !.fwds = fwds]
    BY <1>1, <2>1 DEF Request
  <2> QED BY <1>1, <1>2, <2>2 DEF Contents
<1>5. CASE EditReserve(r)
  <2>1. PICK res : req' = [req EXCEPT ![r].pc = "save", ![r].net.res = res]
    BY <1>1, <1>5 DEF EditReserve
  <2>2. /\ req'[r].op = req[r].op /\ req'[r].stub = req[r].stub
        /\ req'[r].net = [req[r].net EXCEPT !.res = res]
    BY <1>1, <2>1 DEF Request
  <2> QED BY <1>1, <1>2, <2>2 DEF Contents
<1>6. CASE EditsDone(r) \/ Save(r) \/ Persist(r) \/ Configure(r) \/ Stop(r)
  BY <1>2, <1>3, <1>6 DEF EditsDone, Save, Persist, Configure, Stop
<1>7. CASE NatClear(r)
  BY <1>1, <1>2, <1>7 DEF NatClear, Request
<1>8. CASE NatMultiAdd(r)
  BY <1>1, <1>2, <1>3, <1>8 DEF NatMultiAdd, Request
<1> QED BY <1>4, <1>5, <1>6, <1>7, <1>8

\* What a step of a request that runs alone has to keep of the devices.
DevicesAfter(r) == AllKept(file.devices)' /\ (Alone(r)' => DeviceWork(r)')

\* The steps that change neither the devices nor what is promised of them.
LEMMA DevicesStay ==
  ASSUME TInv, NEW r \in Reqs, AllKept(file.devices), DeviceWork(r), file \in Contents,
         \/ EditAdd(r) \/ EditDelete(r) \/ EditsDone(r) \/ EditReserve(r)
         \/ Save(r) \/ NatClear(r) \/ NatMultiAdd(r) \/ Persist(r) \/ Configure(r) \/ Stop(r)
  PROVE  DevicesAfter(r)
<1>1. /\ req'[r].op = req[r].op /\ req'[r].net.devices = req[r].net.devices
      /\ req'[r].stub = req[r].stub /\ (req[r].pc = "save" \/ ack' = ack)
      /\ req \in [Reqs -> Request] /\ req[r] \in Request /\ req[r].net \in Contents
  BY DevicesUntouched DEF TInv, TypeOK, Request, At
<1>2. Kind(r)' = Kind(r)
  BY <1>1 DEF Kind
<1>3. ASSUME NEW step, Goto(r, step)
      PROVE  req'[r].pc = step
  BY <1>1, <1>3 DEF Goto, Request
<1>4. CASE EditAdd(r) \/ EditDelete(r)
  <2>1. req[r].pc = "edit" /\ file' = file
    BY <1>4 DEF EditAdd, EditDelete, At
  <2>2. req'[r].pc = "edit"
    <3>1. \E fwds : req' = [req EXCEPT ![r].net.fwds = fwds, ![r].todo = Tail(@)]
      BY <1>1, <1>4 DEF EditAdd, EditDelete
    <3> QED BY <1>1, <2>1, <3>1 DEF Request
  <2> QED BY <1>1, <1>2, <2>1, <2>2 DEF DevicesAfter, DeviceWork, AllKept, At
<1>5. CASE EditsDone(r) \/ EditReserve(r)
  <2>1. /\ req[r].pc = "edit" /\ file' = file /\ req'[r].pc = "save"
        /\ Kind(r) \notin {"update", "remove"}
    BY <1>1, <1>3, <1>5 DEF EditsDone, EditReserve, At, Request
  <2> QED BY <1>1, <1>2, <2>1 DEF DevicesAfter, DeviceWork, AllKept, HasOwnDevice, Kind, At
<1>6. CASE Save(r)
  <2>1. /\ req[r].pc = "save" /\ req'[r].pc = "clear" /\ file'.devices = req[r].net.devices
        /\ ack' = IF req[r].stub THEN NoPromise ELSE ack
    BY <1>1, <1>3, <1>6, ContentsKept DEF Save, At
  <2>2. AllKept(file.devices)'
    <3>1. CASE req[r].stub
      <4>1. \A s \in Slots : ack'.dev[s] = NoAck
        BY <2>1, <3>1 DEF NoPromise
      <4> QED BY <4>1, OperationsAssumption DEF AllKept, DeviceKept
    <3>2. CASE ~req[r].stub
      BY <2>1, <3>2 DEF DeviceWork, AllKept
    <3> QED BY <3>1, <3>2
  <2>3. Kind(r) \in {"update", "remove"} /\ req[r].op.slot \in Slots => ack'.dev[req[r].op.slot] = NoAck
    BY <2>1 DEF DeviceWork, NoPromise
  <2> QED BY <1>1, <1>2, <2>1, <2>2, <2>3 DEF DevicesAfter, DeviceWork, At
<1>7. CASE NatClear(r) \/ NatMultiAdd(r) \/ Persist(r) \/ Configure(r) \/ Stop(r)
  <2> DEFINE last == {"clear", "add", "persist", "configure", "stop", "start"}
  <2>1. req[r].pc \in last /\ (file' = file \/ Applied)
    BY <1>7 DEF NatClear, NatMultiAdd, Persist, Configure, Stop, At
  <2>2. file'.devices = file.devices
    BY <2>1, AppliedTypes
  <2>3. req'[r].pc \in last \ {"clear"}
    <3>1. CASE NatClear(r)
      BY <1>1, <3>1 DEF NatClear, Request
    <3>2. CASE NatMultiAdd(r)
      BY <1>1, <1>3, <3>2 DEF NatMultiAdd, Request, At
    <3>3. CASE Persist(r) \/ Configure(r) \/ Stop(r)
      BY <1>3, <3>3 DEF Persist, Configure, Stop
    <3> QED BY <1>7, <3>1, <3>2, <3>3
  <2> QED BY <1>1, <1>2, <2>1, <2>2, <2>3 DEF DevicesAfter, DeviceWork, AllKept, At
<1> QED BY <1>4, <1>5, <1>6, <1>7

\* The steps that load, change or promise a device.
LEMMA DevicesChange ==
  ASSUME TInv, DevicesInv, NEW r \in Reqs, Alone(r), AllKept(file.devices), DeviceWork(r),
         List(r) \/ Load(r) \/ LoadStubs(r) \/ EditCreate(r) \/ EditDevice(r) \/ Start(r) \/ StartIgnored(r)
  PROVE  DevicesAfter(r)
<1> DEFINE devices == req[r].net.devices
           op == req[r].op
<1>1. /\ req \in [Reqs -> Request] /\ req[r] \in Request /\ HasItsWork(req[r]) /\ op \in Operation
      /\ file \in Contents /\ req[r].net \in Contents /\ devices \in SUBSET Device /\ OnePerSlot(devices)
  <2>1. req \in [Reqs -> Request] /\ req[r] \in Request /\ HasItsWork(req[r]) /\ file \in Contents
    BY DEF TInv, TypeOK
  <2>2. req[r].net \in Contents /\ devices \in SUBSET Device
    BY <2>1 DEF Request, Contents
  <2> QED BY <2>1, <2>2 DEF HasItsWork, Alone, Running, DevicesInv
<1>2. NoAck \notin Configs /\ Gone \notin Configs /\ NoAck # Gone
  BY OperationsAssumption
<1>3. CASE List(r)
  <2>1. PICK fwds : LET d == [kind |-> "delete", fwds |-> fwds]
                    IN req' = [req EXCEPT ![r].pc = "load", ![r].op = d] /\ ack' = Forget(d)
    BY <1>3 DEF List
  <2>2. req'[r].pc = "load" /\ req'[r].op.kind = "delete"
    BY <1>1, <2>1 DEF Request
  <2>3. AllKept(file.devices)'
    BY <1>3, <2>1, DevicePromisesShrink DEF List, AllKept
  <2> QED BY <2>2, <2>3 DEF DevicesAfter, DeviceWork, Kind, At
<1>4. CASE Load(r) \/ LoadStubs(r)
  <2>1. Loaded(file, natMem).devices = file.devices
    BY <1>1 DEF Loaded, Merged, Contents
  <2>2. /\ UNCHANGED <<file, ack>> /\ req'[r].pc = "edit" /\ req'[r].op = op
        /\ req'[r].stub \/ req'[r].net = Loaded(file, natMem)
    BY <1>1, <1>4 DEF Load, LoadStubs, ToEdit, Request
  <2> QED BY <2>1, <2>2 DEF DevicesAfter, DeviceWork, AllKept, Kind, At
<1>5. CASE EditCreate(r)
  <2> DEFINE c == op.config
             slot == FreeSlot(UsedSlots(devices))
             u == [kind |-> "update", slot |-> slot, config |-> c]
             new == CreateDevice(devices, c)
  <2>1. req[r].pc = "edit" /\ op.kind = "create" /\ c \in Configs
    BY <1>1, <1>5, OperationFields DEF EditCreate, At, Kind
  <2>2. slot \in Nat /\ ~HasSlot(devices, slot)
    BY <1>1, <2>1, OnePerSlotKept
  <2>3. new = devices \cup {[slot |-> slot, config |-> c]}
    BY DEF CreateDevice
  <2>4. /\ req' = [req EXCEPT ![r].pc = "save", ![r].op = u, ![r].net.devices = new]
        /\ ack' = Forget(u) /\ file' = file
    BY <1>1, <1>5 DEF EditCreate
  <2>5. u.kind = "update" /\ u.slot = slot /\ u.config = c
    OBVIOUS
  <2> HIDE DEF u, new, slot
  <2>6. /\ req'[r].pc = "save" /\ req'[r].op = u /\ req'[r].stub = req[r].stub
        /\ req'[r].net = [req[r].net EXCEPT !.devices = new]
    BY <1>1, <2>4 DEF Request
  <2>7. req'[r].net.devices = new
    BY <1>1, <2>6 DEF Contents
  <2>8. \A s \in Slots : ack'.dev[s] = IF s = slot THEN NoAck ELSE ack.dev[s]
    BY <2>4, <2>5 DEF Forget
  <2>9. ~req[r].stub => AllKept(devices)
    BY <2>1 DEF DeviceWork
  <2>10. ASSUME NEW s \in Slots
         PROVE  /\ ~req[r].stub => DeviceKept(ack'.dev[s], new, s)
                /\ DeviceKept(ack'.dev[s], file.devices, s)
    <3>1. CASE s = slot
      BY <1>2, <2>8, <3>1 DEF DeviceKept
    <3>2. CASE s # slot
      BY <2>3, <2>8, <2>9, <3>2 DEF DeviceKept, AllKept, HasSlot
    <3> QED BY <3>1, <3>2
  <2>11. HasOwnDevice(new, u)
    BY <2>3, <2>5 DEF HasOwnDevice
  <2>12. slot \in Slots => ack'.dev[slot] = NoAck
    BY <2>8
  <2> QED BY <2>4, <2>5, <2>6, <2>7, <2>10, <2>11, <2>12 DEF DevicesAfter, DeviceWork, AllKept, Kind, At
<1>6. CASE EditDevice(r)
  <2> DEFINE new == IF op.kind = "update" THEN UpdateDevice(devices, op.slot, op.config)
                    ELSE RemoveDevice(devices, op.slot)
  <2>1. req[r].pc = "edit" /\ op.kind \in {"update", "remove"}
    BY <1>6 DEF EditDevice, At, Kind
  <2>2. req' = [req EXCEPT ![r].pc = "save", ![r].net.devices = new] /\ UNCHANGED <<file, ack>>
    BY <1>1, <1>6 DEF EditDevice
  <2>3. /\ \A d : d \in new => d \in devices \/ (op.kind = "update" /\ d = [slot |-> op.slot, config |-> op.config])
        /\ \A d \in devices : d.slot # op.slot => d \in new
        /\ HasOwnDevice(new, op)
    BY <2>1 DEF UpdateDevice, RemoveDevice, HasOwnDevice, HasSlot
  <2> HIDE DEF new
  <2>4. /\ req'[r].pc = "save" /\ req'[r].op = op /\ req'[r].stub = req[r].stub
        /\ req'[r].net = [req[r].net EXCEPT !.devices = new]
    BY <1>1, <2>2 DEF Request
  <2>5. req'[r].net.devices = new
    BY <1>1, <2>4 DEF Contents
  <2>6. (~req[r].stub => AllKept(devices)) /\ (op.slot \in Slots => ack.dev[op.slot] = NoAck)
    BY <2>1 DEF DeviceWork, Kind
  <2>7. ASSUME NEW s \in Slots, ~req[r].stub
        PROVE  DeviceKept(ack.dev[s], new, s)
    <3>1. CASE s = op.slot
      BY <1>2, <2>6, <3>1 DEF DeviceKept
    <3>2. CASE s # op.slot
      BY <2>3, <2>6, <2>7, <3>2 DEF DeviceKept, AllKept, HasSlot
    <3> QED BY <3>1, <3>2
  <2> QED BY <2>2, <2>3, <2>4, <2>5, <2>6, <2>7 DEF DevicesAfter, DeviceWork, AllKept, Kind, At
<1>7. CASE Start(r) \/ StartIgnored(r)
  <2>1. req[r].pc = "start" /\ Answer(r) /\ ack' = Granted(op) /\ file' = file
    BY <1>7 DEF Start, StartIgnored, Succeed, At, Alone
  <2>2. HasOwnDevice(file.devices, op)
    BY <2>1 DEF DeviceWork
  <2>3. ~Alone(r)'
    BY <1>1, <2>1 DEF Answer, Idle, Alone, Running
  <2>4. ASSUME NEW s \in Slots
        PROVE  DeviceKept(ack'.dev[s], file.devices, s)
    <3>1. ack'.dev[s] = IF op.kind = "update" /\ op.slot = s THEN op.config
                        ELSE IF op.kind = "remove" /\ op.slot = s THEN Gone ELSE ack.dev[s]
      BY <2>1 DEF Granted
    <3>2. CASE op.kind = "update" /\ op.slot = s
      <4>1. op.config \in Configs
        BY <1>1, <3>2, OperationFields
      <4> QED BY <1>2, <2>2, <3>1, <3>2, <4>1 DEF DeviceKept, HasOwnDevice
    <3>3. CASE op.kind = "remove" /\ op.slot = s
      BY <1>2, <2>2, <3>1, <3>3 DEF DeviceKept, HasOwnDevice
    <3>4. CASE ~(op.kind \in {"update", "remove"} /\ op.slot = s)
      BY <3>1, <3>4 DEF AllKept
    <3> QED BY <3>2, <3>3, <3>4
  <2> QED BY <2>1, <2>3, <2>4 DEF DevicesAfter, AllKept
<1> QED BY <1>3, <1>4, <1>5, <1>6, <1>7

\* Failures take nothing away, and a verification keeps the devices.
LEMMA DevicesFail ==
  ASSUME TInv, DevicesInv, NEW r \in Reqs, AllKept(file.devices),
         \/ EditFails(r) \/ NoDevice(r) \/ SaveFails(r) \/ PersistFails(r) \/ ConfigureFails(r)
         \/ StartFails(r) \/ VerifyStatus(r) \/ VerifyStop(r) \/ VerifyStart(r) \/ VerifyStartFails(r)
  PROVE  DevicesAfter(r)
<1>1. req \in [Reqs -> Request] /\ file \in Contents
  BY DEF TInv, TypeOK
<1>2. UNCHANGED ack /\ (UNCHANGED file \/ Applied)
  BY DEF EditFails, NoDevice, SaveFails, PersistFails, ConfigureFails, StartFails, Fail,
         VerifyStatus, VerifyStop, VerifyStart, VerifyStartFails
<1>3. AllKept(file.devices)'
  BY <1>1, <1>2, AppliedTypes DEF AllKept
<1>4. ASSUME Alone(r)'
      PROVE  DeviceWork(r)'
  <2>1. ~Answer(r)
    BY <1>1, <1>4 DEF Answer, Idle, Alone, Running
  <2>2. VerifyStatus(r) \/ VerifyStop(r) \/ VerifyStartFails(r)
    BY <2>1 DEF EditFails, NoDevice, SaveFails, PersistFails, ConfigureFails, StartFails, Fail, VerifyStart
  <2>3. req'[r].pc \in {"vstop", "vstart"}
    <3>1. CASE VerifyStatus(r) \/ VerifyStop(r)
      BY <1>1, <2>1, <3>1 DEF VerifyStatus, VerifyStop, Goto, Request
    <3>2. CASE VerifyStartFails(r)
      BY <1>1, <2>1, <3>2 DEF VerifyStartFails, Request
    <3> QED BY <2>2, <3>1, <3>2
  <2>4. HasItsWork(req'[r])
    BY <2>2, VerifyTypes DEF Shape
  <2>5. req'[r].op.kind = "verify"
    BY <2>3, <2>4, OperationsMade DEF HasItsWork
  <2> QED BY <2>3, <2>5 DEF DeviceWork, Kind, At
<1> QED BY <1>3, <1>4 DEF DevicesAfter

\* The promises about devices are kept.
LEMMA PromisedDevicesKept ==
  ASSUME TInv, DevicesInv, LockInv, PromisedDevicesInv, Next
  PROVE  PromisedDevicesInv'
<1>1. CASE Crash
  BY <1>1, CrashAlone DEF PromisedDevicesInv, AllKept
<1>2. ASSUME NEW r \in Reqs, Arrive(r)
      PROVE  PromisedDevicesInv'
  <2>1. /\ UNCHANGED <<file, ack>>
        /\ \A q \in Reqs : Alone(q)' => Alone(q) /\ req'[q] = req[q]
    BY <1>2, ArriveAlone
  <2>2. ASSUME NEW q \in Reqs, Alone(q)'
        PROVE  DeviceWork(q)'
    BY <2>1, <2>2 DEF PromisedDevicesInv, DeviceWork, AllKept, Kind, At
  <2> QED BY <2>1, <2>2 DEF PromisedDevicesInv, AllKept
<1>3. ASSUME NEW r \in Reqs, Enter(r)
      PROVE  PromisedDevicesInv'
  <2> DEFINE op == req[r].op
  <2>1. /\ UNCHANGED file /\ req'[r].op = op /\ req'[r].pc \in {"list", "status", "load"}
        /\ ack' \in {NoPromise, Forget(op)}
        /\ \A q \in Reqs : Alone(q)' => q = r /\ ack' = Forget(op)
    BY <1>3, EnterAlone
  <2>2. AllKept(file.devices)'
    BY <2>1, DevicePromisesShrink DEF PromisedDevicesInv, AllKept
  <2>3. ASSUME Alone(r)'
        PROVE  DeviceWork(r)'
    <3>1. op.kind \in {"update", "remove"} /\ op.slot \in Slots => ack'.dev[op.slot] = NoAck
      BY <2>1, <2>3 DEF Forget
    <3> QED BY <2>1, <3>1 DEF DeviceWork, Kind, At
  <2> QED BY <2>1, <2>2, <2>3 DEF PromisedDevicesInv
<1>4. ASSUME NEW r \in Reqs, Step(r)
      PROVE  PromisedDevicesInv'
  <2>1. /\ Running(r)
        /\ \A q \in Reqs : Alone(q)' => q = r /\ Alone(r)
        /\ req[r].overlap => ack' = NoPromise
    BY <1>4, StepAlone
  <2>2. CASE Alone(r)
    <3>1. AllKept(file.devices) /\ DeviceWork(r) /\ file \in Contents
      BY <2>2 DEF PromisedDevicesInv, TInv, TypeOK
    <3>2. DevicesAfter(r)
      BY <1>4, <2>2, <3>1, DevicesStay, DevicesChange, DevicesFail DEF Step
    <3> QED BY <2>1, <3>2 DEF DevicesAfter, PromisedDevicesInv
  <2>3. CASE ~Alone(r)
    <3>1. ack' = NoPromise /\ \A q \in Reqs : ~Alone(q)'
      BY <2>1, <2>3 DEF Alone
    <3>2. \A s \in Slots : ack'.dev[s] = NoAck
      BY <3>1 DEF NoPromise
    <3>3. AllKept(file.devices)'
      BY <3>2, OperationsAssumption DEF AllKept, DeviceKept
    <3> QED BY <3>1, <3>3 DEF PromisedDevicesInv
  <2> QED BY <2>2, <2>3
<1> QED BY <1>1, <1>2, <1>3, <1>4 DEF Next

-----------------------------------------------------------------------------
(* The inductive invariant. *)

IInv == TInv /\ DevicesInv /\ LockInv /\ SyncInv /\ ForwardsInv /\ PromisedDevicesInv

\* It holds at the start: nothing is promised, and the file has the devices of
\* VMware's installer.
LEMMA InitIInv == Init => IInv
<1> SUFFICES ASSUME Init PROVE IInv
  OBVIOUS
<1>1. /\ workload \in Workloads /\ workload.devices \subseteq VMwareDevices
      /\ VMwareDevices \subseteq Device /\ IsFiniteSet(VMwareDevices)
      /\ \A d, e \in VMwareDevices : d.slot = e.slot => d = e
      /\ NoAck # Gone /\ NoAck \notin Configs
  BY OperationsAssumption DEF Init
<1>2. file.devices = workload.devices /\ file \in Contents
  <2>1. file = [Empty EXCEPT !.devices = workload.devices] /\ workload.devices \subseteq Device
    BY <1>1 DEF Init
  <2>2. Empty \in Contents
    BY DEF Empty, Contents
  <2> QED BY <2>1, <2>2 DEF Contents
<1>3. \A r \in Reqs : req[r] = Idle
  BY DEF Init
<1>4. \A r \in Reqs : ~Running(r)
  BY <1>3 DEF Running, Idle
<1>5. IsHistory(NoPromise) /\ (\A p \in Ports : NoPromise.fwd[p] = NoAck)
        /\ \A s \in Slots : NoPromise.dev[s] = NoAck
  BY DEF IsHistory, NoPromise
<1>6. TInv
  <2>1. req \in [Reqs -> Request] /\ \A r \in Reqs : HasItsWork(req[r])
    BY IdleIsARequest DEF Init
  <2> QED BY <1>1, <1>2, <1>5, <2>1 DEF Init, TInv, TypeOK
<1>7. DevicesInv
  <2>1. OnePerSlot(file.devices)
    BY <1>1, <1>2, FS_Subset DEF OnePerSlot
  <2>2. OnePerSlot({})
    BY FS_EmptySet DEF OnePerSlot
  <2>3. \A r \in Reqs : req[r].net.devices = {}
    BY <1>3 DEF Idle, Empty
  <2> QED BY <2>1, <2>2, <2>3 DEF DevicesInv
<1>8. LockInv
  BY <1>4 DEF LockInv, Init
<1>9. SyncInv
  BY <1>4 DEF SyncInv, SuccessSettles, Alone, Init
<1>10. ForwardsInv
  <2>1. PromisedFwds = {}
    BY <1>5 DEF PromisedFwds, Promised, Init
  <2> QED BY <1>4, <2>1 DEF ForwardsInv, OnePerPort, Alone, Init
<1>11. PromisedDevicesInv
  <2>1. \A s \in Slots : ack.dev[s] = NoAck
    BY <1>5 DEF Init
  <2> QED BY <1>1, <1>4, <2>1 DEF PromisedDevicesInv, AllKept, DeviceKept, Alone
<1> QED BY <1>6, <1>7, <1>8, <1>9, <1>10, <1>11 DEF IInv

\* Every step keeps it.
LEMMA NextIInv == IInv /\ [Next]_vars => IInv'
<1> SUFFICES ASSUME IInv, [Next]_vars PROVE IInv'
  OBVIOUS
<1>1. TInv /\ DevicesInv /\ LockInv /\ SyncInv /\ ForwardsInv /\ PromisedDevicesInv
  BY DEF IInv
<1>2. CASE Next
  <2>1. NoReq \notin Reqs
    BY OperationsAssumption
  <2> QED BY <1>1, <1>2, <2>1, TypesKept, DevicesKept, LockKept, SyncKept, ForwardsStayKept,
             PromisedDevicesKept DEF IInv
<1>3. CASE UNCHANGED vars
  <2>1. /\ UNCHANGED <<workload, file, natMem, natDisk, natConf, live, lock, req, ack, settled>>
        /\ \A r \in Reqs : Kind(r)' = Kind(r) /\ (Running(r)' <=> Running(r)) /\ (Alone(r)' <=> Alone(r))
    BY <1>3 DEF vars, stateVars, Kind, Running, Alone
  <2>2. TInv' /\ DevicesInv'
    BY <1>1, <2>1 DEF TInv, TypeOK, DevicesInv
  <2>3. LockInv' /\ SyncInv'
    <3>1. LockInv'
      BY <1>1, <2>1 DEF LockInv, TakesLock
    <3>2. SyncInv'
      BY <1>1, <2>1 DEF SyncInv, SuccessSettles, InStep
    <3> QED BY <3>1, <3>2
  <2>4. ForwardsInv'
    <3>1. PromisedFwds' = PromisedFwds
      BY <2>1, PromisesShrink
    <3>2. ASSUME NEW r \in Reqs, Alone(r)'
          PROVE  ForwardsKept(r)'
      <4>1. ForwardsKept(r) /\ OwnFwds(r)' = OwnFwds(r)
        BY <1>1, <2>1, <3>2 DEF ForwardsInv, OwnFwds
      <4>2. Forgotten(r)' /\ (EditKeeps(r)' <=> EditKeeps(r)) /\ (Edited(r)' <=> Edited(r))
              /\ (RefillKeeps(r)' <=> RefillKeeps(r))
        BY <2>1, <3>1, <4>1 DEF ForwardsKept, Forgotten, Promised, EditKeeps, Edited, RefillKeeps, At
      <4> QED BY <2>1, <4>1, <4>2 DEF ForwardsKept, At
    <3> QED BY <1>1, <2>1, <3>1, <3>2 DEF ForwardsInv, At
  <2>5. PromisedDevicesInv'
    BY <1>1, <2>1 DEF PromisedDevicesInv, DeviceWork, AllKept, At
  <2> QED BY <2>2, <2>3, <2>4, <2>5 DEF IInv
<1> QED BY <1>2, <1>3

\* The networking updates keep the inductive invariant.
THEOREM InductiveInvariant == Spec => []IInv
BY InitIInv, NextIInv, PTL DEF Spec

-----------------------------------------------------------------------------
(* What it gives. *)

\* The variables hold the values their declarations say, however requests,
\* failures and crashes interleave.
THEOREM TypeCorrect == Spec => []TypeOK
<1>1. IInv => TypeOK
  BY DEF IInv, TInv
<1> QED BY <1>1, InductiveInvariant, PTL

\* A forward whose addition succeeded stays listed with its machine, whatever
\* other requests, failures and crashes do, and although VMware strips the
\* descriptions from its file (driver/simple.go, AddPortFwd;
\* networking_file.go, MergeFwds), until a request that could not open the
\* file saves a stub in its place (Load, Save).
THEOREM ForwardStays == Spec => []AcknowledgedForwardStays
<1>1. IInv => AcknowledgedForwardStays
  <2> SUFFICES ASSUME IInv, NEW p \in Ports, Promised(p)
               PROVE  \E k \in DOMAIN Listed : IsLast(Listed, k) /\ Listed[k] = Enabled(ack.fwd[p])
    BY DEF AcknowledgedForwardStays
  <2> DEFINE l == Enabled(ack.fwd[p])
  <2>1. /\ TInv /\ LockInv /\ ForwardsInv /\ IsHistory(ack)
        /\ file.fwds \in Seq(PortFwd) /\ natMem \in SUBSET PortFwd
    BY DEF IInv, TInv, TypeOK, Contents
  <2>2. l \in PromisedFwds
    BY <2>1, PromisedFwdsFacts
  <2> HIDE DEF l
  <2>3. l \in PortFwd /\ l.on
    BY <2>1, <2>2, PromisedFwdsFacts
  <2>4. InForce(file.fwds, l) /\ OnePerPort(natMem)
    BY <2>1, <2>2 DEF ForwardsInv
  <2>5. Effective(Listed, l)
    <3>1. CASE l \in natMem
      BY <2>1, <2>3, <2>4, <3>1, MergeRestores DEF Listed
    <3>2. CASE l \notin natMem
      <4>1. PICK r \in Reqs : Alone(r) /\ At(r, "add")
        BY <2>1, <2>2, <3>2 DEF ForwardsInv
      <4>2. /\ file.fwds = req[r].net.fwds
            /\ Effective(req[r].net.fwds, l) /\ CleanSet(natMem, l)
        BY <2>1, <2>2, <4>1 DEF ForwardsInv, ForwardsKept, Edited, RefillKeeps, At
      <4> QED BY <2>1, <2>3, <4>2, MergeKeeps DEF Listed
    <3> QED BY <3>1, <3>2
  <2> QED BY <2>5 DEF Effective, l
<1> QED BY <1>1, InductiveInvariant, PTL

\* A device whose creation or change succeeded keeps its configuration, one
\* whose removal succeeded stays away (driver/simple.go, AddVmnet, UpdateVmnet,
\* DeleteVmnet), until a stub is saved.
THEOREM DeviceStays == Spec => []AcknowledgedDeviceStays
<1>1. IInv => AcknowledgedDeviceStays
  BY DEF IInv, PromisedDevicesInv, AllKept, DeviceKept, AcknowledgedDeviceStays
<1> QED BY <1>1, InductiveInvariant, PTL

\* No two devices share a slot: CreateDevice never hands out a used one
\* (networking_file.go:380-408).
THEOREM DevicesApart == Spec => []OneDevicePerSlot
<1>1. IInv => OneDevicePerSlot
  BY DEF IInv, DevicesInv, OnePerSlot, OneDevicePerSlot
<1> QED BY <1>1, InductiveInvariant, PTL

\* After a success the service, nat.conf, the file and both copies of the
\* settings agree (driver/simple.go, saveAndRestart).
THEOREM Settled == Spec => []SuccessSettles
<1>1. IInv => SuccessSettles
  BY DEF IInv, SyncInv
<1> QED BY <1>1, InductiveInvariant, PTL

=============================================================================
