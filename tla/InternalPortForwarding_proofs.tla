-------------------- MODULE InternalPortForwarding_proofs --------------------
(***************************************************************************)
(* The safety properties of the port forwarding service, for any sets of   *)
(* forwards, addresses and objects.  All follow from one inductive         *)
(* invariant, IInv; each action preserves each of its parts.               *)
(***************************************************************************)
EXTENDS InternalPortForwarding, SequenceTheorems, TLAPS

-----------------------------------------------------------------------------
(* What the sequence operators of the specification do to the set of       *)
(* elements of a sequence, for every sequence: a Go slice is a sequence.   *)

\* RemoveAt shortens the sequence by one and moves the tail one place left,
\* as append(s[0:i], s[i+1:]...) does.
LEMMA RemoveAtProperties ==
  ASSUME NEW S, NEW s \in Seq(S), NEW k \in 1..Len(s)
  PROVE  /\ RemoveAt(s, k) \in Seq(S)
         /\ Len(RemoveAt(s, k)) = Len(s) - 1
         /\ \A i \in 1..(Len(s) - 1) :
              RemoveAt(s, k)[i] = IF i < k THEN s[i] ELSE s[i + 1]
<1> DEFINE a == SubSeq(s, 1, k-1)
           b == SubSeq(s, k+1, Len(s))
<1>0. /\ \A i \in 1..(k-1) : s[i] \in S
      /\ \A i \in (k+1)..Len(s) : s[i] \in S
  OBVIOUS
<1>1. /\ a \in Seq(S) /\ Len(a) = k - 1
      /\ \A i \in 1..(k-1) : a[i] = s[i]
  <2>1. /\ a \in Seq(S)
        /\ Len(a) = IF 1 <= k-1 THEN (k-1)-1+1 ELSE 0
        /\ \A i \in 1..((k-1)-1+1) : a[i] = s[1+i-1]
    BY <1>0, SubSeqProperties
  <2> QED BY <2>1
<1>2. /\ b \in Seq(S) /\ Len(b) = Len(s) - k
      /\ \A i \in 1..(Len(s)-k) : b[i] = s[k+i]
  <2>1. /\ b \in Seq(S)
        /\ Len(b) = IF k+1 <= Len(s) THEN Len(s)-(k+1)+1 ELSE 0
        /\ \A i \in 1..(Len(s)-(k+1)+1) : b[i] = s[(k+1)+i-1]
    BY <1>0, SubSeqProperties
  <2> QED BY <2>1
<1>3. RemoveAt(s, k) = a \o b BY DEF RemoveAt
<1> HIDE DEF a, b
<1>4. /\ a \o b \in Seq(S)
      /\ Len(a \o b) = Len(a) + Len(b)
      /\ \A i \in 1..(Len(a) + Len(b)) :
           (a \o b)[i] = IF i <= Len(a) THEN a[i] ELSE b[i - Len(a)]
  BY <1>1, <1>2, ConcatProperties
<1>5. k \in Nat /\ Len(s) \in Nat /\ k <= Len(s) /\ 1 <= k
  OBVIOUS
<1>6. ASSUME NEW i \in 1..(Len(s) - 1)
      PROVE  (a \o b)[i] = IF i < k THEN s[i] ELSE s[i + 1]
  <2>1. CASE i < k  BY <2>1, <1>1, <1>2, <1>4, <1>5
  <2>2. CASE ~(i < k)
    <3>1. i - (k - 1) \in 1..(Len(s) - k)  BY <2>2, <1>5
    <3>2. (a \o b)[i] = b[i - (k - 1)]  BY <2>2, <1>1, <1>2, <1>4, <1>5
    <3> QED BY <3>1, <3>2, <2>2, <1>2, <1>5
  <2> QED BY <2>1, <2>2
<1> QED BY <1>1, <1>2, <1>3, <1>4, <1>5, <1>6

\* Removing one element of a sequence without repetitions removes exactly
\* that element, and leaves no repetitions.
LEMMA RemoveAtInjective ==
  ASSUME NEW S, NEW s \in Seq(S), NEW k \in 1..Len(s), IsInjective(s)
  PROVE  /\ RemoveAt(s, k) \in Seq(S)
         /\ ToSet(RemoveAt(s, k)) = ToSet(s) \ {s[k]}
         /\ IsInjective(RemoveAt(s, k))
<1> DEFINE r == RemoveAt(s, k)
<1>1. /\ r \in Seq(S) /\ Len(r) = Len(s) - 1
      /\ \A i \in 1..(Len(s) - 1) : r[i] = IF i < k THEN s[i] ELSE s[i + 1]
  BY RemoveAtProperties
<1>2. DOMAIN r = 1..(Len(s) - 1) /\ DOMAIN s = 1..Len(s) /\ Len(s) \in Nat
  BY <1>1
<1> HIDE DEF r
<1>3. ASSUME NEW i \in DOMAIN r
      PROVE  r[i] \in ToSet(s) \ {s[k]}
  <2>1. CASE i < k  BY <2>1, <1>1, <1>2 DEF ToSet, IsInjective
  <2>2. CASE ~(i < k)
    <3>1. i + 1 \in DOMAIN s /\ i + 1 # k /\ r[i] = s[i + 1]
      BY <2>2, <1>1, <1>2
    <3> QED BY <3>1, <1>2 DEF ToSet, IsInjective
  <2> QED BY <2>1, <2>2
<1>4. ASSUME NEW j \in DOMAIN s, j # k
      PROVE  \E i \in DOMAIN r : r[i] = s[j]
  <2>1. CASE j < k  BY <2>1, <1>1, <1>2
  <2>2. CASE ~(j < k)
    <3>1. j - 1 \in DOMAIN r /\ ~(j - 1 < k) /\ (j - 1) + 1 = j
      BY <2>2, <1>4, <1>2
    <3> QED BY <3>1, <1>1, <1>2
  <2> QED BY <2>1, <2>2
<1>5. ToSet(r) = ToSet(s) \ {s[k]}
  <2>1. ToSet(r) \subseteq ToSet(s) \ {s[k]}  BY <1>3 DEF ToSet
  <2>2. ToSet(s) \ {s[k]} \subseteq ToSet(r)  BY <1>4 DEF ToSet
  <2> QED BY <2>1, <2>2
<1>6. IsInjective(r)
  <2> SUFFICES ASSUME NEW a \in DOMAIN r, NEW b \in DOMAIN r, r[a] = r[b]
               PROVE  a = b
    BY DEF IsInjective
  <2> DEFINE up(i) == IF i < k THEN i ELSE i + 1
  <2>1. /\ r[a] = s[up(a)] /\ r[b] = s[up(b)]
        /\ up(a) \in DOMAIN s /\ up(b) \in DOMAIN s
    BY <1>1, <1>2
  <2>2. up(a) = up(b)  BY <2>1 DEF IsInjective
  <2> QED BY <2>2, <1>2
<1> QED BY <1>1, <1>5, <1>6 DEF r

\* RemoveFirst takes out the one occurrence of an element of a sequence
\* without repetitions.
LEMMA RemoveFirstInjective ==
  ASSUME NEW S, NEW s \in Seq(S), NEW e, IsInjective(s)
  PROVE  /\ RemoveFirst(s, e) \in Seq(S)
         /\ ToSet(RemoveFirst(s, e)) = ToSet(s) \ {e}
         /\ IsInjective(RemoveFirst(s, e))
<1>1. CASE \E k \in 1..Len(s) : s[k] = e
  <2>1. PICK k \in 1..Len(s) : s[k] = e  BY <1>1
  <2>2. {i \in 1..Len(s) : s[i] = e} = {k}  BY <2>1 DEF IsInjective
  <2>3. Min({k}) = k  BY DEF Min
  <2>4. SelectInSeq(s, LAMBDA v : v = e) = k  BY <2>2, <2>3 DEF SelectInSeq
  <2>5. RemoveFirst(s, e) = RemoveAt(s, k)  BY <2>1, <2>4 DEF RemoveFirst
  <2> QED BY <2>1, <2>5, RemoveAtInjective
<1>2. CASE ~\E k \in 1..Len(s) : s[k] = e
  <2>1. RemoveFirst(s, e) = s  BY <1>2 DEF RemoveFirst
  <2>2. e \notin ToSet(s)  BY <1>2 DEF ToSet
  <2> QED BY <2>1, <2>2
<1> QED BY <1>1, <1>2

\* Append adds its element, and keeps the absence of repetitions when the
\* element is new.
LEMMA AppendToSet ==
  ASSUME NEW S, NEW s \in Seq(S), NEW e \in S
  PROVE  /\ Append(s, e) \in Seq(S)
         /\ ToSet(Append(s, e)) = ToSet(s) \cup {e}
         /\ IsInjective(s) /\ e \notin ToSet(s) => IsInjective(Append(s, e))
<1>1. /\ Append(s, e) \in Seq(S)
      /\ Len(Append(s, e)) = Len(s) + 1
      /\ \A i \in 1..Len(s) : Append(s, e)[i] = s[i]
      /\ Append(s, e)[Len(s) + 1] = e
  BY AppendProperties
<1>2. /\ DOMAIN Append(s, e) = 1..(Len(s) + 1)
      /\ DOMAIN s = 1..Len(s) /\ Len(s) \in Nat
  BY <1>1
<1>3. \A i \in 1..(Len(s) + 1) : i \in 1..Len(s) \/ i = Len(s) + 1
  BY <1>2
<1>4. ToSet(Append(s, e)) = ToSet(s) \cup {e}
  BY <1>1, <1>2, <1>3 DEF ToSet
<1>5. IsInjective(s) /\ e \notin ToSet(s) => IsInjective(Append(s, e))
  BY <1>1, <1>2, <1>3 DEF IsInjective, ToSet
<1> QED BY <1>1, <1>4, <1>5

-----------------------------------------------------------------------------
(* The service.                                                            *)

\* The first entry for a forward is an object of the slice.
LEMMA FirstIsListed ==
  ASSUME TypeOK, NEW f, NEW k, IsFirst(k, f)
  PROVE  /\ k \in 1..Len(forwards)
         /\ forwards[k] \in Ids /\ forwards[k] \in ToSet(forwards)
         /\ obj[forwards[k]].fwd = f
BY DEF TypeOK, IsFirst, ToSet

\* The process starts with nothing.
LEMMA InitIInv == Init => IInv
<1> SUFFICES ASSUME Init PROVE IInv  OBVIOUS
<1>1. /\ ToSet(<<>>) = {} /\ IsInjective(<<>>)
      /\ \A S : <<>> \in Seq(S)
  BY DEF ToSet, IsInjective
<1>2. TypeOK  BY <1>1 DEF Init, TypeOK, Object, Unused
<1>3. NoRepeats /\ LockInv  BY <1>1 DEF Init, NoRepeats, LockInv
<1>4. SocketInv /\ EntryInv /\ PhaseInv
  BY <1>1 DEF Init, SocketInv, EntryInv, PhaseInv, Unused
<1>5. OrphansWereRefused /\ NoLeakedListener
  BY <1>1 DEF Init, OrphansWereRefused, NoLeakedListener, Running, Unused
<1> QED BY <1>2, <1>3, <1>4, <1>5 DEF IInv

\* Load: the new slice mirrors the settings file.
LEMMA BootIInv == IInv /\ Boot => IInv'
<1> SUFFICES ASSUME IInv, Boot PROVE IInv'  OBVIOUS
<1> USE FwdsAssumption
<1>0. TypeOK /\ NoRepeats /\ LockInv  BY DEF IInv
<1>1. PICK ids \in [DOMAIN disk -> Ids] :
        /\ IsInjective(ids)
        /\ forwards' = ids
        /\ obj' = [i \in Ids |->
                     IF \E k \in DOMAIN disk : ids[k] = i
                     THEN NewForward(disk[CHOOSE k \in DOMAIN disk : ids[k] = i])
                     ELSE Unused]
  BY DEF Boot
<1>2. /\ phase' = "starting" /\ known' = disk /\ disk' = disk
      /\ adding' = {} /\ removing' = {} /\ refused' = {} /\ died' = {}
  BY <1>0 DEF Boot, LockInv
<1>3. /\ DOMAIN disk = 1..Len(disk) /\ Len(disk) \in Nat
      /\ \A k \in DOMAIN disk : disk[k] \in Fwds
  BY <1>0 DEF TypeOK
<1>4. ids \in Seq(Ids) /\ DOMAIN ids = DOMAIN disk  BY <1>3
<1>5. \A k \in DOMAIN disk : obj'[ids[k]] = NewForward(disk[k])
  <2> SUFFICES ASSUME NEW k \in DOMAIN disk PROVE obj'[ids[k]] = NewForward(disk[k])
    OBVIOUS
  <2>1. (CHOOSE j \in DOMAIN disk : ids[j] = ids[k]) = k
    BY <1>1, <1>4 DEF IsInjective
  <2>2. ids[k] \in Ids  BY <1>1
  <2> QED BY <1>1, <2>1, <2>2
<1>6. \A i \in Ids : (\E k \in DOMAIN disk : i = ids[k]) \/ obj'[i] = Unused
  BY <1>1
<1>7. \A i \in Ids : /\ obj'[i] \in Object
                   /\ obj'[i].sock = "none" /\ ~obj'[i].active /\ ~obj'[i].cancelled
  <2>1. Unused \in Object /\ Unused.sock = "none" /\ ~Unused.active /\ ~Unused.cancelled
    BY DEF Object, Unused
  <2>2. \A f \in Fwds : /\ NewForward(f) \in Object
                        /\ NewForward(f).sock = "none" /\ ~NewForward(f).active
                        /\ ~NewForward(f).cancelled
    BY DEF Object, Unused, NewForward
  <2> QED BY <1>3, <1>5, <1>6, <2>1, <2>2
<1>8. /\ ToSet(forwards') = {ids[k] : k \in DOMAIN disk}
      /\ ToSet(known') = ToSet(disk) /\ ToSet(disk') = ToSet(disk)
  BY <1>1, <1>2, <1>4 DEF ToSet
<1>9. \A k \in DOMAIN disk : obj'[ids[k]].fwd = disk[k] /\ disk[k] \in ToSet(disk)
  BY <1>5 DEF NewForward, Unused, ToSet
<1>10. TypeOK'
  <2>1. obj' \in [Ids -> Object]  BY <1>1, <1>7
  <2> QED BY <2>1, <1>0, <1>1, <1>2, <1>4 DEF TypeOK
<1>11. NoRepeats'  BY <1>0, <1>1, <1>2 DEF NoRepeats
<1>12. LockInv'  BY <1>2 DEF LockInv
<1>13. \A i \in ToSet(forwards') : obj'[i].fwd \in ToSet(disk) /\ i \in Ids
  <2> SUFFICES ASSUME NEW k \in DOMAIN disk
               PROVE  obj'[ids[k]].fwd \in ToSet(disk) /\ ids[k] \in Ids
    BY <1>8
  <2> QED BY <1>1, <1>9
<1>14. \A i, j \in ToSet(forwards') : obj'[i].fwd = obj'[j].fwd => i = j
  <2> SUFFICES ASSUME NEW a \in DOMAIN disk, NEW b \in DOMAIN disk, disk[a] = disk[b]
               PROVE  ids[a] = ids[b]
    BY <1>8, <1>9
  <2> QED BY <1>0 DEF NoRepeats, IsInjective
<1>15. ToSet(disk) \subseteq Fwds  BY <1>3 DEF ToSet
<1>16. SocketInv'  BY <1>7, <1>13, <1>15 DEF SocketInv
<1>17. EntryInv'  BY <1>2, <1>7, <1>8, <1>13, <1>14 DEF EntryInv
<1>18. PhaseInv'  BY <1>2, <1>7, <1>8, <1>13, <1>14 DEF PhaseInv
<1>19. OrphansWereRefused'
  <2> SUFFICES ASSUME NEW k \in DOMAIN disk
               PROVE  \E i \in ToSet(forwards') : obj'[i].fwd = disk[k]
    BY <1>8 DEF OrphansWereRefused, ListedFwds, ToSet
  <2> QED BY <1>8, <1>9
<1>20. NoLeakedListener'  BY <1>7 DEF NoLeakedListener
<1> QED BY <1>10, <1>11, <1>12, <1>16, <1>17, <1>18, <1>19, <1>20 DEF IInv

\* The process goes away: only the settings file is left.
LEMMA ProcessGoneIInv == IInv /\ ProcessGone => IInv'
<1> SUFFICES ASSUME IInv, ProcessGone PROVE IInv'  OBVIOUS
<1>1. /\ ToSet(<<>>) = {} /\ IsInjective(<<>>)
      /\ \A S : <<>> \in Seq(S)
  BY DEF ToSet, IsInjective
<1>2. TypeOK'  BY <1>1 DEF IInv, ProcessGone, TypeOK, Object, Unused
<1>3. NoRepeats' /\ LockInv'  BY <1>1 DEF IInv, ProcessGone, NoRepeats, LockInv
<1>4. SocketInv' /\ EntryInv' /\ PhaseInv'
  BY <1>1 DEF ProcessGone, SocketInv, EntryInv, PhaseInv, Unused
<1>5. OrphansWereRefused' /\ NoLeakedListener'
  BY <1>1 DEF ProcessGone, OrphansWereRefused, NoLeakedListener, Running, Unused
<1> QED BY <1>2, <1>3, <1>4, <1>5 DEF IInv

\* Start reaches the next entry, binds its free address, or is through.
LEMMA StartIInv == IInv /\ (StartOne \/ StartDone) => IInv'
<1> SUFFICES ASSUME IInv PROVE StartOne \/ StartDone => IInv'  OBVIOUS
<1> USE DEF IInv
<1>1. ASSUME StartOne PROVE IInv'
  <2>1. PICK i \in Ids :
          /\ i \in ToSet(forwards) /\ ~obj[i].active
          /\ ~Bound(HostAddr[obj[i].fwd])
          /\ obj' = [obj EXCEPT ![i] = Activated(i)]
    <3>1. PICK k \in DOMAIN forwards :
            /\ ~obj[forwards[k]].active
            /\ ~Bound(HostAddr[obj[forwards[k]].fwd])
            /\ obj' = [obj EXCEPT ![forwards[k]] = Activated(forwards[k])]
      BY <1>1 DEF StartOne
    <3>2. forwards[k] \in Ids /\ forwards[k] \in ToSet(forwards)  BY DEF TypeOK, ToSet
    <3> QED BY <3>1, <3>2
  <2>2. /\ phase = "starting"
        /\ UNCHANGED <<phase, forwards, known, disk, adding, removing, refused, died>>
    BY <1>1 DEF StartOne
  <2>3. /\ obj' \in [Ids -> Object]
        /\ obj'[i] = [obj[i] EXCEPT !.active = TRUE, !.sock = "open"]
        /\ obj[i] \in Object
        /\ \A j \in Ids : j # i => obj'[j] = obj[j]
    BY <2>1 DEF TypeOK, Activated, Object
  <2>4. /\ obj'[i].fwd = obj[i].fwd /\ obj'[i].active /\ obj'[i].sock = "open"
        /\ obj'[i].cancelled = obj[i].cancelled
    BY <2>3 DEF Object
  <2>5. \A j \in Ids : obj'[j].fwd = obj[j].fwd  BY <2>3, <2>4
  <2>6. ToSet(forwards) \subseteq Ids  BY DEF TypeOK, ToSet
  <2>7. TypeOK'  BY <2>2, <2>3 DEF TypeOK
  <2>8. NoRepeats' /\ LockInv'  BY <2>2 DEF NoRepeats, LockInv
  <2>9. SocketInv'
    BY <2>1, <2>2, <2>3, <2>4 DEF SocketInv, Bound
  <2>10. EntryInv'
    <3>1. ~obj[i].cancelled  BY <2>1 DEF EntryInv
    <3> QED BY <2>1, <2>2, <2>3, <2>4, <2>5, <2>6, <3>1 DEF EntryInv, Serving
  <2>11. PhaseInv'
    BY <2>1, <2>2, <2>3, <2>4, <2>5, <2>6 DEF PhaseInv
  <2>12. OrphansWereRefused'
    <3>1. ListedFwds' = ListedFwds  BY <2>2, <2>5, <2>6 DEF ListedFwds
    <3> QED BY <2>2, <3>1 DEF OrphansWereRefused, Running
  <2>13. NoLeakedListener'
    BY <2>1, <2>2, <2>3, <2>4 DEF NoLeakedListener
  <2> QED BY <2>7, <2>8, <2>9, <2>10, <2>11, <2>12, <2>13
<1>2. ASSUME StartDone PROVE IInv'
  <2>1. /\ \A j \in ToSet(forwards) : obj[j].active
        /\ phase = "starting" /\ phase' = "up"
        /\ UNCHANGED <<obj, forwards, known, disk, adding, removing, refused, died>>
    BY <1>2 DEF StartDone, ToSet
  <2> QED BY <2>1 DEF TypeOK, NoRepeats, LockInv, SocketInv, EntryInv, PhaseInv,
                      OrphansWereRefused, NoLeakedListener, Running, ListedFwds, Serving
<1> QED BY <1>1, <1>2

\* Add writes the settings first: the forward is known, and on disk unless the
\* save failed, in which case the request is refused.
LEMMA AddPersistIInv ==
  ASSUME IInv, NEW f \in Fwds, AddPersist(f) \/ AddPersistFails(f)
  PROVE  IInv'
<1> USE DEF IInv
<1>1. /\ WithFwd(f) \in Seq(Fwds) /\ IsInjective(WithFwd(f))
      /\ ToSet(WithFwd(f)) = ToSet(known) \cup {f}
  BY AppendToSet DEF WithFwd, TypeOK, NoRepeats
<1>2. /\ phase = "up" /\ adding = {} /\ removing = {}
      /\ known' = WithFwd(f)
      /\ UNCHANGED <<phase, obj, forwards, removing, died>>
  BY DEF AddPersist, AddPersistFails, SaveOK, SaveFails, LockFree
<1>3. \/ disk' = WithFwd(f) /\ adding' = {f} /\ refused' = refused
      \/ disk' = disk /\ adding' = {} /\ refused' = refused \cup {f}
  BY <1>2 DEF AddPersist, AddPersistFails, SaveOK, SaveFails
<1>4. /\ ToSet(known') = ToSet(known) \cup {f}
      /\ disk' = known' \/ disk' = disk
  BY <1>1, <1>2, <1>3
<1>5. TypeOK'  BY <1>1, <1>2, <1>3 DEF TypeOK
<1>6. NoRepeats'  BY <1>1, <1>2, <1>3 DEF NoRepeats
<1>7. LockInv'  BY <1>1, <1>2, <1>3 DEF LockInv
<1>8. SocketInv'  BY <1>2 DEF SocketInv
<1>9. EntryInv'
  <2>1. \A g \in removing \cup died \cup (ToSet(known) \cap ToSet(disk)) :
          g \in died \cup (ToSet(known') \cap ToSet(disk'))
    BY <1>2, <1>4
  <2> QED BY <1>2, <2>1 DEF EntryInv, Serving
<1>10. PhaseInv'  BY <1>2 DEF PhaseInv
<1>11. OrphansWereRefused'
  <2>1. ListedFwds' = ListedFwds  BY <1>2 DEF ListedFwds
  <2> QED BY <1>2, <1>3, <1>4, <2>1 DEF OrphansWereRefused, Running
<1>12. NoLeakedListener'  BY <1>2 DEF NoLeakedListener
<1> QED BY <1>5, <1>6, <1>7, <1>8, <1>9, <1>10, <1>11, <1>12

\* The new object serves its forward, at an address nothing else held.
LEMMA AddActivateIInv ==
  ASSUME IInv, NEW f \in Fwds, AddActivate(f)
  PROVE  IInv'
<1> USE DEF IInv
<1> DEFINE new == [NewForward(f) EXCEPT !.active = TRUE, !.sock = "open"]
<1>1. PICK i \in Ids : /\ Free(i)
                       /\ obj' = [obj EXCEPT ![i] = new]
                       /\ forwards' = Append(forwards, i)
  BY DEF AddActivate
<1>2. /\ f \in adding /\ ~Bound(HostAddr[f]) /\ adding' = {}
      /\ UNCHANGED <<phase, known, disk, removing, refused, died>>
  BY DEF AddActivate
<1>3. /\ phase = "up" /\ removing = {} /\ adding = {f}
      /\ f \in ToSet(known) /\ f \in ToSet(disk)
  BY <1>2 DEF LockInv
<1>4. i \notin ToSet(forwards) /\ obj[i].sock # "open"  BY <1>1 DEF Free
<1>5. /\ forwards' \in Seq(Ids) /\ IsInjective(forwards')
      /\ ToSet(forwards') = ToSet(forwards) \cup {i}
  BY <1>1, <1>4, AppendToSet DEF TypeOK, NoRepeats
<1>6. /\ new \in Object /\ new.fwd = f /\ new.active /\ ~new.cancelled
      /\ new.sock = "open"
  BY DEF Object, NewForward, Unused
<1> HIDE DEF new
<1>7. /\ obj' \in [Ids -> Object] /\ obj'[i] = new
      /\ \A j \in Ids : j # i => obj'[j] = obj[j]
  BY <1>1, <1>6 DEF TypeOK
<1>8. ToSet(forwards) \subseteq Ids  BY DEF TypeOK, ToSet
<1>9. \A j \in Ids : obj[j].sock = "open" => HostAddr[obj[j].fwd] # HostAddr[f]
  BY <1>2 DEF Bound
<1>10. TypeOK'  BY <1>2, <1>3, <1>5, <1>7 DEF TypeOK
<1>11. NoRepeats'  BY <1>2, <1>5 DEF NoRepeats
<1>12. LockInv'  BY <1>2, <1>3 DEF LockInv
<1>13. SocketInv'  BY <1>5, <1>6, <1>7, <1>8, <1>9 DEF SocketInv
<1>14. EntryInv'
  <2>1. \A j \in ToSet(forwards) : obj[j].fwd = f => f \in died
    BY <1>3, <1>8, <1>9 DEF EntryInv, Serving
  <2>2. \A j \in ToSet(forwards) : j # i /\ obj'[j] = obj[j]
    BY <1>4, <1>7, <1>8
  <2> QED BY <1>2, <1>3, <1>5, <1>6, <1>7, <2>1, <2>2 DEF EntryInv, Serving
<1>15. PhaseInv'  BY <1>2, <1>3 DEF PhaseInv
<1>16. OrphansWereRefused'
  <2>1. ListedFwds' = ListedFwds \cup {f}
    <3>1. /\ obj'[i].fwd = f /\ i \in ToSet(forwards')
          /\ \A j \in ToSet(forwards) : obj'[j].fwd = obj[j].fwd /\ j \in ToSet(forwards')
      BY <1>4, <1>5, <1>6, <1>7, <1>8
    <3>2. ListedFwds' = {obj'[j].fwd : j \in ToSet(forwards) \cup {i}}
      BY <1>5 DEF ListedFwds
    <3> QED BY <3>1, <3>2 DEF ListedFwds
  <2> QED BY <1>2, <1>3, <2>1 DEF OrphansWereRefused, Running
<1>17. NoLeakedListener'  BY <1>4, <1>5, <1>7, <1>8 DEF NoLeakedListener
<1> QED BY <1>10, <1>11, <1>12, <1>13, <1>14, <1>15, <1>16, <1>17

\* A refused Add leaves its settings entry, accounted for by refused.
LEMMA AddActivateFailsIInv ==
  ASSUME IInv, NEW f \in Fwds, AddActivateFails(f)
  PROVE  IInv'
<1>1. /\ f \in adding /\ adding' = {} /\ refused' = refused \cup {f}
      /\ UNCHANGED <<phase, obj, forwards, known, disk, removing, died>>
  BY DEF AddActivateFails
<1>2. adding = {f}  BY <1>1 DEF IInv, LockInv
<1> QED BY <1>1, <1>2 DEF IInv, TypeOK, NoRepeats, LockInv, SocketInv, EntryInv, PhaseInv,
                          OrphansWereRefused, NoLeakedListener, Running, ListedFwds, Serving

\* Delete takes the forward out of the list in memory.
LEMMA RemovePersistIInv ==
  ASSUME IInv, NEW f \in Fwds, RemovePersist(f)
  PROVE  IInv'
<1> USE DEF IInv
<1>1. /\ Without(f) \in Seq(Fwds) /\ IsInjective(Without(f))
      /\ ToSet(Without(f)) = ToSet(known) \ {f}
  BY RemoveFirstInjective DEF Without, TypeOK, NoRepeats
<1>2. /\ phase = "up" /\ adding = {} /\ removing = {} /\ removing' = {f}
      /\ known' = Without(f) /\ (disk' = Without(f) \/ disk' = disk)
      /\ UNCHANGED <<phase, obj, forwards, adding, refused, died>>
  BY DEF RemovePersist, SaveOK, SaveFails, LockFree
<1>3. /\ ToSet(known') = ToSet(known) \ {f}
      /\ disk' = known' \/ disk' = disk
  BY <1>1, <1>2
<1>4. TypeOK'  BY <1>1, <1>2 DEF TypeOK
<1>5. NoRepeats'  BY <1>1, <1>2 DEF NoRepeats
<1>6. LockInv'  BY <1>2, <1>3 DEF LockInv
<1>7. SocketInv'  BY <1>2 DEF SocketInv
<1>8. EntryInv'
  <2>1. \A g \in removing \cup died \cup (ToSet(known) \cap ToSet(disk)) :
          g \in {f} \cup died \cup (ToSet(known') \cap ToSet(disk'))
    BY <1>2, <1>3
  <2> QED BY <1>2, <2>1 DEF EntryInv, Serving
<1>9. PhaseInv'  BY <1>2 DEF PhaseInv
<1>10. OrphansWereRefused'
  <2>1. ListedFwds' = ListedFwds  BY <1>2 DEF ListedFwds
  <2> QED BY <1>2, <1>3, <2>1 DEF OrphansWereRefused, Running
<1>11. NoLeakedListener'  BY <1>2 DEF NoLeakedListener
<1> QED BY <1>4, <1>5, <1>6, <1>7, <1>8, <1>9, <1>10, <1>11

\* The entry goes, its context cancelled; an entry that stays behind with the
\* same forward is the twin of one whose socket died.
LEMMA RemoveEntryIInv ==
  ASSUME IInv, NEW f \in Fwds, RemoveEntry(f)
  PROVE  IInv'
<1> USE DEF IInv
<1>1. PICK k \in DOMAIN forwards :
        /\ IsFirst(k, f)
        /\ forwards' = RemoveAt(forwards, k)
        /\ obj' = [obj EXCEPT ![forwards[k]] = Deactivated(forwards[k])]
  BY DEF RemoveEntry
<1>2. /\ f \in removing /\ removing' = {}
      /\ UNCHANGED <<phase, known, disk, adding, refused, died>>
  BY DEF RemoveEntry
<1>3. PICK i \in Ids : i = forwards[k]  BY <1>1, FirstIsListed
<1>4. i \in ToSet(forwards) /\ obj[i].fwd = f /\ k \in 1..Len(forwards)
  BY <1>1, <1>3, FirstIsListed
<1>5. /\ forwards' \in Seq(Ids) /\ IsInjective(forwards')
      /\ ToSet(forwards') = ToSet(forwards) \ {i}
  BY <1>1, <1>3, <1>4, RemoveAtInjective DEF TypeOK, NoRepeats
<1>6. /\ obj' \in [Ids -> Object]
      /\ obj'[i].fwd = f /\ obj'[i].sock = obj[i].sock /\ obj'[i].cancelled
      /\ \A j \in Ids : j # i => obj'[j] = obj[j]
  BY <1>1, <1>3, <1>4 DEF TypeOK, Object, Deactivated
<1>7. ToSet(forwards) \subseteq Ids  BY DEF TypeOK, ToSet
<1>8. phase = "up" /\ adding = {} /\ removing = {f} /\ f \notin ToSet(known)
  BY <1>2 DEF LockInv
<1>9. TypeOK'  BY <1>2, <1>5, <1>6 DEF TypeOK
<1>10. NoRepeats'  BY <1>2, <1>5 DEF NoRepeats
<1>11. LockInv'  BY <1>2, <1>8 DEF LockInv
<1>12. SocketInv'  BY <1>4, <1>5, <1>6, <1>7 DEF SocketInv
<1>13. EntryInv'
  <2>1. \A j \in ToSet(forwards') : j \in ToSet(forwards) /\ obj'[j] = obj[j] /\ j # i
    BY <1>5, <1>6, <1>7
  <2>2. \A j \in ToSet(forwards') : obj[j].fwd = f => f \in died
    BY <1>4, <2>1 DEF EntryInv
  <2> QED BY <1>2, <1>8, <2>1, <2>2 DEF EntryInv, Serving
<1>14. PhaseInv'  BY <1>2, <1>8 DEF PhaseInv
<1>15. OrphansWereRefused'
  <2>1. \A g \in ListedFwds : g \in ListedFwds' \/ g = f
    BY <1>4, <1>5, <1>6, <1>7 DEF ListedFwds
  <2> QED BY <1>2, <1>8, <2>1 DEF OrphansWereRefused, Running
<1>16. NoLeakedListener'  BY <1>5, <1>6 DEF NoLeakedListener
<1> QED BY <1>9, <1>10, <1>11, <1>12, <1>13, <1>14, <1>15, <1>16

\* A goroutine closes or cancels one object: nothing listed is disturbed but
\* by a death, which is recorded.
LEMMA GoroutineIInv ==
  ASSUME IInv, NEW i \in Ids, CloseListener(i) \/ AcceptFails(i) \/ StreamEnds(i)
  PROVE  IInv'
<1> USE DEF IInv
<1>1. /\ obj[i].sock = "open"
      /\ UNCHANGED <<phase, forwards, known, disk, adding, removing, refused>>
      /\ obj' \in [Ids -> Object]
      /\ obj'[i].fwd = obj[i].fwd /\ obj'[i].active = obj[i].active
      /\ obj'[i].sock = "open" => obj'[i].cancelled
      /\ \A j \in Ids : j # i => obj'[j] = obj[j]
  <2>1. obj[i] \in Object /\ obj \in [Ids -> Object]  BY DEF TypeOK
  <2>2. CASE CloseListener(i)  BY <2>1, <2>2 DEF CloseListener, Object
  <2>3. CASE AcceptFails(i)  BY <2>1, <2>3 DEF AcceptFails, Serving, Object
  <2>4. CASE StreamEnds(i)  BY <2>1, <2>4 DEF StreamEnds, Serving, Object
  <2> QED BY <2>2, <2>3, <2>4
<1>2. /\ died \subseteq died' /\ died' \in SUBSET Fwds
      /\ obj[i].cancelled \/ obj[i].fwd \in died'
  <2>1. obj[i].fwd \in Fwds  BY <1>1 DEF SocketInv
  <2> QED BY <2>1 DEF CloseListener, AcceptFails, StreamEnds, TypeOK
<1>3. \A j \in Ids : /\ obj'[j].fwd = obj[j].fwd /\ obj'[j].active = obj[j].active
                     /\ obj'[j].sock = "open" => obj[j].sock = "open"
  BY <1>1
<1>4. ToSet(forwards) \subseteq Ids  BY DEF TypeOK, ToSet
<1>5. TypeOK'  BY <1>1, <1>2 DEF TypeOK
<1>6. NoRepeats' /\ LockInv'  BY <1>1 DEF NoRepeats, LockInv
<1>7. SocketInv'  BY <1>1, <1>3, <1>4 DEF SocketInv
<1>8. EntryInv'
  <2>1. i \in ToSet(forwards) => obj[i].active /\ obj[i].fwd \in died'
    BY <1>1, <1>2 DEF EntryInv, Serving
  <2> QED BY <1>1, <1>2, <1>3, <1>4, <2>1 DEF EntryInv, Serving
<1>9. PhaseInv'  BY <1>1, <1>3, <1>4 DEF PhaseInv
<1>10. OrphansWereRefused'
  <2>1. ListedFwds' = ListedFwds  BY <1>1, <1>3, <1>4 DEF ListedFwds
  <2> QED BY <1>1, <2>1 DEF OrphansWereRefused, Running
<1>11. NoLeakedListener'  BY <1>1, <1>3 DEF NoLeakedListener
<1> QED BY <1>5, <1>6, <1>7, <1>8, <1>9, <1>10, <1>11

-----------------------------------------------------------------------------
\* Every step preserves the invariant.
LEMMA NextIInv == IInv /\ [Next]_vars => IInv'
<1> SUFFICES ASSUME IInv, [Next]_vars PROVE IInv'  OBVIOUS
<1>1. CASE Boot  BY <1>1, BootIInv
<1>2. CASE StartOne \/ StartDone  BY <1>2, StartIInv
<1>3. CASE StartFails \/ Crash  BY <1>3, ProcessGoneIInv DEF StartFails, Crash
<1>4. CASE Request
  BY <1>4, AddPersistIInv, AddActivateIInv, AddActivateFailsIInv, RemovePersistIInv,
     RemoveEntryIInv DEF Request
<1>5. CASE Goroutine  BY <1>5, GoroutineIInv DEF Goroutine
<1>6. CASE UNCHANGED vars
  BY <1>6 DEF vars, IInv, TypeOK, NoRepeats, LockInv, SocketInv, EntryInv, PhaseInv,
              OrphansWereRefused, NoLeakedListener, Running, ListedFwds, Serving
<1> QED BY <1>1, <1>2, <1>3, <1>4, <1>5, <1>6 DEF Next

\* The inductive invariant holds in every behaviour of the service.
THEOREM Invariance == Spec => []IInv
BY InitIInv, NextIInv, PTL DEF Spec

\* The variables are well typed.
THEOREM TypeCorrect == Spec => []TypeOK
<1>1. IInv => TypeOK  BY DEF IInv
<1> QED BY <1>1, Invariance, PTL

\* A settings entry the service does not list belongs to an Add that is under
\* way or that returned an error.
THEOREM Orphans == Spec => []OrphansWereRefused
<1>1. IInv => OrphansWereRefused  BY DEF IInv
<1> QED BY <1>1, Invariance, PTL

\* Listed forwards are in the settings file and come back after a restart.
THEOREM Durability == Spec => []ListedAreDurable
<1>1. IInv => ListedAreDurable
  BY DEF IInv, EntryInv, ListedAreDurable, ListedFwds
<1> QED BY <1>1, Invariance, PTL

\* Listed forwards are served until their socket dies.
THEOREM Service == Spec => []ListedAreServed
<1>1. IInv => ListedAreServed
  BY DEF IInv, EntryInv, ListedAreServed
<1> QED BY <1>1, Invariance, PTL

\* Settings entries only compete for an address after a refused Add or a dead
\* socket: two served entries would hold the address twice.
THEOREM ConflictCause == Spec => []ConflictsHaveCause
<1>1. IInv => ConflictsHaveCause
  <2> SUFFICES ASSUME IInv, phase = "up",
                      NEW f \in ToSet(known), NEW g \in ToSet(known),
                      f # g, HostAddr[f] = HostAddr[g],
                      {f, g} \cap (refused \cup died \cup adding) = {}
               PROVE  FALSE
    BY DEF ConflictsHaveCause
  <2>1. f \in ListedFwds /\ g \in ListedFwds
    BY DEF IInv, OrphansWereRefused, Running
  <2>2. ToSet(forwards) \subseteq Ids  BY DEF IInv, TypeOK, ToSet
  <2>3. PICK i \in Ids : i \in ToSet(forwards) /\ obj[i].fwd = f
    BY <2>1, <2>2 DEF ListedFwds
  <2>4. PICK j \in Ids : j \in ToSet(forwards) /\ obj[j].fwd = g
    BY <2>1, <2>2 DEF ListedFwds
  <2>5. obj[i].sock = "open" /\ obj[j].sock = "open"
    BY <2>3, <2>4 DEF IInv, EntryInv, Serving
  <2> QED BY <2>3, <2>4, <2>5 DEF IInv, SocketInv
<1> QED BY <1>1, Invariance, PTL

\* Start only fails on settings that name an address twice, or because of
\* another program.
THEOREM StartBlocked == Spec => []OnlyConflictsBlockStart
<1>1. IInv => OnlyConflictsBlockStart
  <2> SUFFICES ASSUME IInv, phase = "starting",
                      \A f, g \in ToSet(disk) : HostAddr[f] = HostAddr[g] => f = g,
                      NEW i \in ToSet(forwards), ~obj[i].active,
                      NEW j \in Ids, obj[j].sock = "open",
                      HostAddr[obj[j].fwd] = HostAddr[obj[i].fwd]
               PROVE  FALSE
    BY DEF OnlyConflictsBlockStart, Bound
  <2>1. j \in ToSet(forwards) /\ obj[i].sock = "none"
    BY DEF IInv, PhaseInv, EntryInv
  <2>2. obj[i].fwd \in ToSet(disk) /\ obj[j].fwd \in ToSet(disk)
    BY <2>1 DEF IInv, PhaseInv
  <2>3. i = j  BY <2>1, <2>2 DEF IInv, PhaseInv
  <2> QED BY <2>1, <2>3
<1> QED BY <1>1, Invariance, PTL

\* Every open socket is listed or about to be closed.
THEOREM NoLeak == Spec => []NoLeakedListener
<1>1. IInv => NoLeakedListener  BY DEF IInv
<1> QED BY <1>1, Invariance, PTL
=============================================================================
