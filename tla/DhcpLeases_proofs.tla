-------------------------- MODULE DhcpLeases_proofs --------------------------
(***************************************************************************)
(* What a lookup of an address finds, for any lease file, and that updates *)
(* of the networks keep it, for any guests, updates and clocks.            *)
(*                                                                         *)
(* A lookup reads the file record by record; what is known after each of   *)
(* them is compared with the records read so far (ReadSoFar).  There is a  *)
(* first record after which the two would differ: none.                    *)
(***************************************************************************)
EXTENDS DhcpLeases, SequenceTheorems, WellFoundedInduction, TLAPS

-----------------------------------------------------------------------------
(* The load of a file.                                                     *)

\* What holds of 0 and, with a number, of the next one holds up to n.
LEMMA UpTo ==
  ASSUME NEW n \in Nat, NEW Good \in SUBSET Nat, 0 \in Good,
         \A i \in 1..n : i - 1 \in Good => i \in Good
  PROVE  0..n \subseteq Good
<1> DEFINE R == OpToRel(<, Nat)
           Bad == 0..n \ Good
<1>1. IsWellFoundedOn(R, Nat) /\ \A x, y \in Nat : y < x => <<y, x>> \in R
  BY NatLessThanWellFounded DEF OpToRel
<1> SUFFICES ASSUME Bad # {} PROVE FALSE
  OBVIOUS
<1> HIDE DEF R
<1>2. Bad \in SUBSET Nat
  OBVIOUS
<1>3. PICK i \in Bad : \A y \in Bad : ~(<<y, i>> \in R)
  <2> HIDE DEF Bad
  <2> QED BY <1>1, <1>2, WFMin
<1>4. i \in 1..n /\ i - 1 \in Nat /\ i - 1 < i
  BY <1>2, <1>3
<1>5. i - 1 \in Bad
  BY <1>3, <1>4
<1> QED BY <1>1, <1>2, <1>3, <1>4, <1>5

\* The reading of the file is what its definition says.
LEMMA LoadedRecord ==
  ASSUME leases \in Seq(Record)
  PROVE  /\ Loaded[0] = NewLeaseFile
         /\ \A i \in 1..Len(leases) : Loaded[i] = LoadEntry(Loaded[i - 1], leases[i])
<1> DEFINE n == Len(leases)
           Upto(k, f) == f = [i \in 0..k |-> IF i = 0 THEN NewLeaseFile ELSE LoadEntry(f[i - 1], leases[i])]
           Good == {k \in Nat : k > n \/ \E f : Upto(k, f)}
<1>1. n \in Nat
  OBVIOUS
<1>2. 0 \in Good
  <2> DEFINE f == [i \in 0..0 |-> NewLeaseFile]
  <2>1. Upto(0, f)
    OBVIOUS
  <2> QED BY <2>1
<1>3. ASSUME NEW k \in 1..n, k - 1 \in Good PROVE k \in Good
  <2>1. PICK f : Upto(k - 1, f)
    BY <1>1, <1>3
  <2> DEFINE g == [i \in 0..k |-> IF i = k THEN LoadEntry(f[k - 1], leases[k]) ELSE f[i]]
  <2>2. \A i \in 0..k : g[i] = IF i = 0 THEN NewLeaseFile ELSE LoadEntry(g[i - 1], leases[i])
    <3>1. k \in Nat /\ k > 0
      BY <1>1, <1>3
    <3>2. ASSUME NEW i \in 0..k, i # k
          PROVE  g[i] = IF i = 0 THEN NewLeaseFile ELSE LoadEntry(g[i - 1], leases[i])
      <4>1. i \in 0..(k - 1) /\ (i # 0 => i - 1 \in 0..(k - 1) /\ i - 1 # k /\ i - 1 \in 0..k)
        BY <3>1, <3>2
      <4>2. g[i] = f[i] /\ (i # 0 => g[i - 1] = f[i - 1])
        BY <3>2, <4>1
      <4> QED BY <2>1, <4>1, <4>2
    <3>3. g[k] = LoadEntry(g[k - 1], leases[k])
      BY <3>1
    <3> QED BY <3>1, <3>2, <3>3
  <2>3. Upto(k, g)
    <3>1. g = [i \in 0..k |-> g[i]]
      OBVIOUS
    <3> HIDE DEF g
    <3> QED BY <2>2, <3>1
  <2>4. k \in Nat
    BY <1>1, <1>3
  <2> HIDE DEF g, Upto
  <2> QED BY <2>3, <2>4
<1>4. 0..n \subseteq Good
  <2>1. Good \in SUBSET Nat
    OBVIOUS
  <2> HIDE DEF Good, n
  <2> QED BY <1>1, <1>2, <1>3, <2>1, UpTo
<1>5. \E f : Upto(n, f)
  <2>1. n \in Good /\ ~(n > n)
    BY <1>1, <1>4
  <2> QED BY <2>1
<1>6. Loaded = CHOOSE f : Upto(n, f)
  BY DEF Loaded
<1>7. Upto(n, Loaded)
  <2> HIDE DEF Upto
  <2> QED BY <1>5, <1>6
<1> QED BY <1>1, <1>7

-----------------------------------------------------------------------------
(* What is known after each record.                                        *)

LeaseFile == [entries: SUBSET Record, rejected: SUBSET Macs]

ActiveUpTo(m, i) == {j \in ActiveOf(m) : j <= i}

\* The active records so far bear one name.
OneHostUpTo(m, i) ==
  \A j, k \in ActiveUpTo(m, i) : j # k => leases[j].host = leases[k].host /\ leases[j].host # NoHost

Newest(m, i) == {k \in ActiveUpTo(m, i) : \A j \in ActiveUpTo(m, i) : leases[j].start <= leases[k].start}

EntriesOf(file, m) == {e \in file.entries : e.mac = m}

ReadSoFar(file, m, i) ==
  /\ m \in file.rejected <=> ~OneHostUpTo(m, i)
  /\ m \in file.rejected => EntriesOf(file, m) = {}
  /\ OneHostUpTo(m, i) =>
       IF ActiveUpTo(m, i) = {} THEN EntriesOf(file, m) = {}
       ELSE \E k \in Newest(m, i) : EntriesOf(file, m) = {leases[k]}

\* One record more: it is the only one of its MAC address, or as good as the
\* newest one, or else it shows that the address cannot be told.
LEMMA EntryKeeps ==
  ASSUME leases \in Seq(Record), NEW i \in 1..Len(leases), NEW file \in LeaseFile,
         \A m \in Macs : ReadSoFar(file, m, i - 1),
         NEW new, new = LoadEntry(file, leases[i])
  PROVE  new \in LeaseFile /\ \A m \in Macs : ReadSoFar(new, m, i)
<1> DEFINE r == leases[i]
           A(m) == ActiveUpTo(m, i - 1)
           existing == {e \in file.entries : e.mac = r.mac}
<1>1. /\ i \in Nat /\ r \in Record /\ r.mac \in Macs /\ r.start \in Nat
      /\ \A m : \A j \in ActiveOf(m) : j \in 1..Len(leases) /\ j \in Nat /\ leases[j] \in Record /\ leases[j].mac = m
      /\ Len(leases) \in Nat
  <2>1. i \in Nat /\ Len(leases) \in Nat /\ r \in Record
    OBVIOUS
  <2>2. r.mac \in Macs /\ r.start \in Nat
    BY <2>1 DEF Record
  <2>3. ASSUME NEW m, NEW j \in ActiveOf(m)
        PROVE  j \in 1..Len(leases) /\ leases[j].mac = m
    BY DEF ActiveOf
  <2>4. \A j \in 1..Len(leases) : j \in Nat /\ leases[j] \in Record
    OBVIOUS
  <2> QED BY <2>1, <2>2, <2>3, <2>4
<1>2. ASSUME NEW m \in Macs
      PROVE  ActiveUpTo(m, i) = IF Active(r) /\ r.mac = m THEN A(m) \cup {i} ELSE A(m)
  <2>1. ASSUME NEW j \in ActiveUpTo(m, i) PROVE j \in A(m) \/ (j = i /\ Active(r) /\ r.mac = m)
    BY <1>1 DEF ActiveUpTo, ActiveOf
  <2>2. A(m) \subseteq ActiveUpTo(m, i)
    BY <1>1 DEF ActiveUpTo
  <2>3. Active(r) /\ r.mac = m => i \in ActiveUpTo(m, i)
    BY <1>1 DEF ActiveUpTo, ActiveOf
  <2>4. i \in ActiveUpTo(m, i) => Active(r) /\ r.mac = m
    BY DEF ActiveUpTo, ActiveOf
  <2> QED BY <2>1, <2>2, <2>3, <2>4
<1>3. file.entries \in SUBSET Record /\ file.rejected \in SUBSET Macs
  BY DEF LeaseFile
\* A MAC address whose entries and records stay.
<1>4. ASSUME NEW m \in Macs, ActiveUpTo(m, i) = A(m), EntriesOf(new, m) = EntriesOf(file, m),
             m \in new.rejected <=> m \in file.rejected
      PROVE  ReadSoFar(new, m, i)
  <2>1. ReadSoFar(file, m, i - 1)
    OBVIOUS
  <2> QED BY <1>4, <2>1 DEF ReadSoFar, OneHostUpTo, Newest
<1>5. CASE ~Active(r)
  <2>1. new = file
    BY <1>5 DEF LoadEntry
  <2> QED BY <1>2, <1>4, <1>5, <2>1
<1>6. CASE Active(r)
  <2> DEFINE m == r.mac
  <2>1. m \in Macs /\ ReadSoFar(file, m, i - 1) /\ ActiveUpTo(m, i) = A(m) \cup {i}
    BY <1>1, <1>2, <1>6
  <2>2. \A j \in A(m) : j # i /\ leases[j] \in Record /\ leases[j].start \in Nat /\ j \in ActiveUpTo(m, i)
    <3>1. ASSUME NEW j \in A(m) PROVE j # i /\ leases[j] \in Record /\ leases[j].start \in Nat
      BY <1>1 DEF ActiveUpTo, Record
    <3> QED BY <2>1, <3>1
  <2>3. SUFFICES /\ new \in LeaseFile /\ ReadSoFar(new, m, i)
                 /\ \A k \in Macs \ {m} : EntriesOf(new, k) = EntriesOf(file, k) /\
                                          (k \in new.rejected <=> k \in file.rejected)
    <3>1. ASSUME NEW k \in Macs \ {m} PROVE ActiveUpTo(k, i) = A(k)
      BY <1>2
    <3> QED BY <1>4, <2>1, <3>1
  <2>4. CASE m \in file.rejected
    <3>1. new = file
      BY <2>4 DEF LoadEntry, Rejected
    <3>2. ~OneHostUpTo(m, i - 1) /\ EntriesOf(file, m) = {}
      BY <2>1, <2>4 DEF ReadSoFar
    <3>3. ~OneHostUpTo(m, i)
      BY <2>2, <3>2 DEF OneHostUpTo
    <3> QED BY <2>4, <3>1, <3>2, <3>3 DEF ReadSoFar
  <2>5. CASE m \notin file.rejected /\ existing = {}
    <3>1. new = [file EXCEPT !.entries = @ \cup {r}]
      BY <1>6, <2>5 DEF LoadEntry, Rejected, Entered
    <3>2. new.entries = file.entries \cup {r} /\ new.rejected = file.rejected /\ new \in LeaseFile
      BY <1>1, <3>1 DEF LeaseFile
    <3>3. OneHostUpTo(m, i - 1) /\ A(m) = {}
      BY <2>1, <2>5 DEF ReadSoFar, EntriesOf
    <3>4. OneHostUpTo(m, i) /\ ActiveUpTo(m, i) = {i} /\ i \in Newest(m, i)
      BY <1>1, <2>1, <3>3 DEF OneHostUpTo, Newest
    <3>5. EntriesOf(new, m) = {r}
      BY <2>5, <3>2 DEF EntriesOf
    <3> QED BY <2>5, <3>2, <3>4, <3>5 DEF ReadSoFar, EntriesOf
  <2>6. CASE m \notin file.rejected /\ existing # {}
    <3>1. /\ OneHostUpTo(m, i - 1) /\ A(m) # {}
          /\ \E k \in Newest(m, i - 1) : existing = {leases[k]}
      BY <2>1, <2>6 DEF ReadSoFar, EntriesOf
    <3>2. PICK k \in Newest(m, i - 1) : existing = {leases[k]}
      BY <3>1
    <3> DEFINE e == leases[k]
               same == r.host # NoHost /\ r.host = e.host
    <3>3. /\ k \in A(m) /\ e.start \in Nat /\ k # i /\ e.mac = m
          /\ \A j \in A(m) : leases[j].start <= e.start
      BY <2>2, <3>2 DEF Newest, ActiveUpTo, ActiveOf
    <3>4. new = IF same THEN IF r.start > e.start THEN [file EXCEPT !.entries = (@ \ {e}) \cup {r}] ELSE file
                ELSE [file EXCEPT !.entries = @ \ {e}, !.rejected = @ \cup {m}]
      BY <1>6, <2>6, <3>2 DEF LoadEntry, Rejected, Entered, Later
    <3>5. CASE same
      <4>1. OneHostUpTo(m, i)
        <5>1. \A j \in A(m) : leases[j].host = e.host
          BY <3>1, <3>3 DEF OneHostUpTo
        <5>2. \A j \in ActiveUpTo(m, i) : leases[j].host = r.host
          BY <2>1, <3>5, <5>1
        <5> QED BY <3>5, <5>2 DEF OneHostUpTo
      <4>2. CASE r.start > e.start
        <5>1. new = [file EXCEPT !.entries = (@ \ {e}) \cup {r}]
          BY <3>4, <3>5, <4>2
        <5>2. /\ new.entries = (file.entries \ {e}) \cup {r} /\ new.rejected = file.rejected
              /\ new \in LeaseFile
          BY <1>1, <5>1 DEF LeaseFile
        <5>3. EntriesOf(new, m) = {r}
          BY <3>2, <5>2 DEF EntriesOf
        <5>4. \A j \in A(m) : leases[j].start <= r.start
          BY <1>1, <2>2, <3>3, <4>2
        <5>5. i \in Newest(m, i)
          BY <1>1, <2>1, <5>4 DEF Newest
        <5>6. \A q \in Macs \ {m} : EntriesOf(new, q) = EntriesOf(file, q)
          BY <3>3, <5>2 DEF EntriesOf
        <5> QED BY <2>1, <2>6, <4>1, <5>2, <5>3, <5>5, <5>6 DEF ReadSoFar
      <4>3. CASE ~(r.start > e.start)
        <5>1. new = file
          BY <3>4, <3>5, <4>3
        <5>2. k \in Newest(m, i)
          BY <1>1, <2>1, <3>3, <4>3 DEF Newest
        <5>3. EntriesOf(new, m) = {e}
          BY <3>2, <5>1 DEF EntriesOf
        <5> QED BY <2>1, <2>6, <4>1, <5>1, <5>2, <5>3 DEF ReadSoFar
      <4> QED BY <4>2, <4>3
    <3>6. CASE ~same
      <4>1. new = [file EXCEPT !.entries = @ \ {e}, !.rejected = @ \cup {m}]
        BY <3>4, <3>6
      <4>2. /\ new.entries = file.entries \ {e} /\ new.rejected = file.rejected \cup {m}
            /\ new \in LeaseFile
        <5> DEFINE rest == file.entries \ {e}
                   rejected == file.rejected \cup {m}
        <5>1. rest \in SUBSET Record /\ rejected \in SUBSET Macs
          BY <1>1, <1>3
        <5>2. new = [file EXCEPT !.entries = rest, !.rejected = rejected]
          BY <4>1
        <5> HIDE DEF rest, rejected
        <5>3. new.entries = rest /\ new.rejected = rejected /\ new \in LeaseFile
          BY <5>1, <5>2 DEF LeaseFile
        <5> QED BY <5>3 DEF rest, rejected
      <4>3. ~OneHostUpTo(m, i)
        BY <2>1, <3>3, <3>6 DEF OneHostUpTo
      <4>4. \A q \in Macs \ {m} : EntriesOf(new, q) = EntriesOf(file, q)
        BY <3>3, <4>2 DEF EntriesOf
      <4>5. EntriesOf(new, m) = {}
        BY <3>2, <4>2 DEF EntriesOf
      <4> QED BY <4>2, <4>3, <4>4, <4>5 DEF ReadSoFar
    <3> QED BY <3>5, <3>6
  <2> QED BY <2>4, <2>5, <2>6
<1> QED BY <1>5, <1>6

\* So it is after the whole file.
LEMMA AllRead ==
  ASSUME leases \in Seq(Record)
  PROVE  \A m \in Macs : ReadSoFar(Load, m, Len(leases))
<1> DEFINE n == Len(leases)
           Read(k) == Loaded[k] \in LeaseFile /\ \A m \in Macs : ReadSoFar(Loaded[k], m, k)
           Good == {k \in Nat : k > n \/ Read(k)}
<1>1. n \in Nat /\ Loaded[0] = NewLeaseFile /\ \A i \in 1..n : Loaded[i] = LoadEntry(Loaded[i - 1], leases[i])
  BY LoadedRecord
<1>2. Read(0)
  <2>1. NewLeaseFile \in LeaseFile /\ NewLeaseFile.entries = {} /\ NewLeaseFile.rejected = {}
    BY DEF NewLeaseFile, LeaseFile
  <2>2. ASSUME NEW m PROVE ActiveUpTo(m, 0) = {}
    BY DEF ActiveUpTo, ActiveOf
  <2> QED BY <1>1, <2>1, <2>2 DEF ReadSoFar, OneHostUpTo, EntriesOf
<1>3. ASSUME NEW i \in 1..n, i - 1 \in Good PROVE i \in Good
  <2>1. i \in Nat /\ i - 1 \in Nat /\ ~(i - 1 > n)
    BY <1>1
  <2>2. Read(i - 1) /\ Loaded[i] = LoadEntry(Loaded[i - 1], leases[i])
    BY <1>1, <1>3, <2>1
  <2>3. Read(i)
    BY <2>2, EntryKeeps
  <2> HIDE DEF Read
  <2> QED BY <2>1, <2>3
<1>4. 0..n \subseteq Good
  <2>1. 0 \in Good
    BY <1>2
  <2>2. Good \in SUBSET Nat
    OBVIOUS
  <2> HIDE DEF Good, n
  <2> QED BY <1>1, <1>3, <2>1, <2>2, UpTo
<1>5. Read(n)
  <2>1. n \in Good /\ ~(n > n)
    BY <1>1, <1>4
  <2> HIDE DEF Read
  <2> QED BY <2>1
<1> QED BY <1>5 DEF Load

\* What a lookup finds.
LEMMA Found ==
  ASSUME leases \in Seq(Record), NEW m \in Macs
  PROVE  /\ ActiveOf(m) = {} \/ ~OneHost(m) => LookupDhcpAddress(m) = {Reserved[m]}
         /\ ActiveOf(m) # {} /\ OneHost(m) =>
              \E i \in ActiveOf(m) : /\ \A k \in ActiveOf(m) : leases[k].start <= leases[i].start
                                    /\ LookupDhcpAddress(m) = {leases[i].addr}
<1>1. ReadSoFar(Load, m, Len(leases))
  BY AllRead
<1>2. ActiveUpTo(m, Len(leases)) = ActiveOf(m)
  BY DEF ActiveUpTo, ActiveOf
<1>3. OneHostUpTo(m, Len(leases)) <=> OneHost(m)
  BY <1>2 DEF OneHostUpTo, OneHost
<1>4. IpForMac(Load, m) = {e.addr : e \in EntriesOf(Load, m)}
  BY DEF IpForMac, EntriesOf
<1>5. CASE ActiveOf(m) = {} \/ ~OneHost(m)
  <2>1. EntriesOf(Load, m) = {}
    BY <1>1, <1>2, <1>3, <1>5 DEF ReadSoFar
  <2> QED BY <1>4, <1>5, <2>1 DEF LookupDhcpAddress
<1>6. CASE ActiveOf(m) # {} /\ OneHost(m)
  <2>1. PICK i \in Newest(m, Len(leases)) : EntriesOf(Load, m) = {leases[i]}
    BY <1>1, <1>2, <1>3, <1>6 DEF ReadSoFar
  <2>2. IpForMac(Load, m) = {leases[i].addr}
    BY <1>4, <2>1
  <2>3. i \in ActiveOf(m) /\ \A k \in ActiveOf(m) : leases[k].start <= leases[i].start
    BY <1>2, <2>1 DEF Newest
  <2> QED BY <1>6, <2>2, <2>3 DEF LookupDhcpAddress
<1> QED BY <1>5, <1>6

-----------------------------------------------------------------------------
(* The invariant.                                                          *)

Elements(s) == {s[i] : i \in DOMAIN s}

\* A record is the lease that a guest has, or an older one of it.
Known(r) ==
  \E g \in Guests :
    IsOf(r, g) /\ Len(held[g]) = 1 /\ (r = held[g][1] \/ r.start < held[g][1].start)

\* The file and its copies hold nothing else.
HistoryInv ==
  /\ \A g \in Guests : Len(held[g]) = 1 => IsOf(held[g][1], g)
  /\ \A r \in Elements(leases) : Known(r)
  /\ \A u \in Updates : update[u].copy # NoBackup => \A r \in Elements(update[u].copy) : Known(r)

Busy(u) == update[u].at # "idle"

\* A lease that nothing has put at risk is in the file, or in the copy that is
\* about to be written to it, by the only update there is.
SureInv ==
  /\ sure # {} => \A u, w \in Updates : Busy(u) /\ Busy(w) => u = w
  /\ \A g \in sure :
       /\ Len(held[g]) = 1
       /\ (\A u \in Updates : update[u].at # "restore") => held[g][1] \in Elements(leases)
       /\ \A u \in Updates : update[u].at \in {"configure", "restore"} =>
            update[u].copy # NoBackup /\ held[g][1] \in Elements(update[u].copy)

IInv == TypeOK /\ HistoryInv /\ SureInv

\* What is written over the file is the copy and some of what was there.
LEMMA OverwrittenElements ==
  ASSUME leases \in Seq(Record), NEW copy \in Seq(Record), NEW s \in Overwritten(copy)
  PROVE  /\ s \in Seq(Record) /\ Elements(copy) \subseteq Elements(s)
         /\ Elements(s) \subseteq Elements(copy) \cup Elements(leases)
<1>1. PICK k \in {1, 2} : s = copy \o SubSeq(leases, Len(copy) + k, Len(leases))
  BY DEF Overwritten
<1> DEFINE a == Len(copy) + k
           rest == SubSeq(leases, a, Len(leases))
<1>2. a \in Nat \ {0} /\ Len(leases) \in Nat /\ Len(copy) \in Nat
  OBVIOUS
<1>3. \A i \in a..Len(leases) : i \in 1..Len(leases) /\ leases[i] \in Record
  BY <1>2
<1>4. /\ rest \in Seq(Record) /\ Len(rest) = (IF a <= Len(leases) THEN Len(leases) - a + 1 ELSE 0)
      /\ \A i \in 1..(Len(leases) - a + 1) : rest[i] = leases[a + i - 1]
  <2> HIDE DEF a
  <2> QED BY <1>2, <1>3, SubSeqProperties
<1> HIDE DEF rest
<1>5. /\ s \in Seq(Record) /\ Len(s) = Len(copy) + Len(rest)
      /\ \A i \in 1..Len(s) : s[i] = IF i <= Len(copy) THEN copy[i] ELSE rest[i - Len(copy)]
  BY <1>1, <1>4, ConcatProperties DEF rest
<1>6. /\ DOMAIN s = 1..Len(s) /\ DOMAIN copy = 1..Len(copy) /\ DOMAIN rest = 1..Len(rest)
      /\ DOMAIN leases = 1..Len(leases) /\ Len(rest) \in Nat
  BY <1>4, <1>5
<1>7. Elements(copy) \subseteq Elements(s)
  <2>1. ASSUME NEW i \in 1..Len(copy) PROVE i \in 1..Len(s) /\ s[i] = copy[i]
    BY <1>2, <1>5, <1>6
  <2> QED BY <1>6, <2>1 DEF Elements
<1>8. \A i \in 1..Len(rest) : rest[i] \in Elements(leases)
  <2> TAKE i \in 1..Len(rest)
  <2>1. a + i - 1 \in 1..Len(leases) /\ rest[i] = leases[a + i - 1]
    BY <1>2, <1>4
  <2> HIDE DEF a
  <2> QED BY <1>6, <2>1 DEF Elements
<1>9. \A i \in 1..Len(s) : s[i] \in Elements(copy) \cup Elements(leases)
  <2> TAKE i \in 1..Len(s)
  <2>1. CASE i <= Len(copy)
    <3>1. i \in 1..Len(copy)
      BY <1>2, <1>5, <2>1
    <3> QED BY <1>5, <1>6, <2>1, <3>1 DEF Elements
  <2>2. CASE ~(i <= Len(copy))
    <3>1. i - Len(copy) \in 1..Len(rest)
      BY <1>2, <1>5, <1>6, <2>2
    <3> QED BY <1>5, <1>8, <2>2, <3>1
  <2> QED BY <2>1, <2>2
<1> QED BY <1>5, <1>6, <1>7, <1>9 DEF Elements

\* The first k records of a copy.
LEMMA PrefixElements ==
  ASSUME NEW copy \in Seq(Record), NEW k \in 0..Len(copy)
  PROVE  SubSeq(copy, 1, k) \in Seq(Record) /\ Elements(SubSeq(copy, 1, k)) \subseteq Elements(copy)
<1> DEFINE s == SubSeq(copy, 1, k)
<1>1. k \in Nat /\ Len(copy) \in Nat /\ \A i \in 1..k : i \in 1..Len(copy) /\ copy[i] \in Record
  OBVIOUS
<1>2. s \in Seq(Record) /\ Len(s) = k /\ \A i \in 1..k : s[i] = copy[i]
  BY <1>1, SubSeqProperties
<1> HIDE DEF s
<1>3. DOMAIN s = 1..k /\ DOMAIN copy = 1..Len(copy)
  BY <1>2
<1> QED BY <1>1, <1>2, <1>3 DEF Elements, s

\* What any step of an update leaves of everything.
Shape(u) ==
  /\ UNCHANGED <<MacOf, now, held>> /\ sure' \subseteq sure
  /\ leases' \in Seq(Record) /\ pool' \subseteq Record /\ serving' \in BOOLEAN /\ begun' \in 0 .. MaxUpdates
  /\ \A r \in Elements(leases') :
       r \in Elements(leases) \/ (update[u].copy # NoBackup /\ r \in Elements(update[u].copy))
  /\ update' = [update EXCEPT ![u] = update'[u]] /\ update'[u] \in Update
  /\ update'[u].copy \in {NoBackup, update[u].copy, leases}

\* An empty file has no records.
LEMMA EmptyElements ==
  <<>> \in Seq(Record) /\ Elements(<<>>) = {}
BY DEF Elements

\* An update of which one field changes is still an update.
LEMMA UpdateShape ==
  ASSUME TypeOK, NEW u \in Updates, SaveAndRestart(u)
  PROVE  Shape(u)
<1>1. /\ update \in [Updates -> Update] /\ update[u] \in Update /\ leases \in Seq(Record) /\ pool \subseteq Record
      /\ serving \in BOOLEAN /\ begun \in 0 .. MaxUpdates /\ MaxUpdates \in Nat
      /\ update[u].copy \in Seq(Record) \cup {NoBackup}
  BY GuestsAssumption DEF TypeOK, Update
<1>2. NoUpdate \in Update /\ NoUpdate.copy = NoBackup
  BY DEF NoUpdate, Update
<1>3. CASE Begin(u)
  <2> DEFINE x == [update[u] EXCEPT !.at = "backup"]
  <2>1. x \in Update /\ x.copy = update[u].copy
    BY <1>1 DEF Update
  <2>2. /\ update' = [update EXCEPT ![u] = x] /\ begun' \in 0 .. MaxUpdates /\ sure' \subseteq sure
        /\ UNCHANGED <<MacOf, now, leases, pool, serving, held>>
    BY <1>1, <1>3 DEF Begin
  <2> HIDE DEF x
  <2> QED BY <1>1, <2>1, <2>2 DEF Shape
<1>4. CASE BackUp(u)
  <2> DEFINE x == [update[u] EXCEPT !.at = "configure", !.copy = leases]
  <2>1. x \in Update /\ x.copy = leases
    BY <1>1 DEF Update
  <2>2. update' = [update EXCEPT ![u] = x] /\ UNCHANGED <<serverVars, begun>>
    BY <1>1, <1>4 DEF BackUp
  <2> HIDE DEF x
  <2> QED BY <1>1, <2>1, <2>2 DEF Shape, serverVars
<1>5. CASE BackUpFails(u)
  <2> DEFINE x == [update[u] EXCEPT !.at = "configure"]
  <2>1. x \in Update /\ x.copy = update[u].copy
    BY <1>1 DEF Update
  <2>2. /\ update' = [update EXCEPT ![u] = x] /\ sure' = {}
        /\ UNCHANGED <<MacOf, now, leases, pool, serving, held, begun>>
    BY <1>1, <1>5 DEF BackUpFails
  <2> HIDE DEF x
  <2> QED BY <1>1, <2>1, <2>2 DEF Shape
<1>6. CASE Configure(u)
  <2> DEFINE x == [update[u] EXCEPT !.at = "restore"]
  <2>1. x \in Update /\ x.copy = update[u].copy
    BY <1>1 DEF Update
  <2>2. /\ update' = [update EXCEPT ![u] = x] /\ leases' \in {leases, <<>>} /\ serving' \in BOOLEAN
        /\ UNCHANGED <<MacOf, now, pool, held, sure, begun>>
    BY <1>1, <1>6 DEF Configure, Stopped
  <2> HIDE DEF x
  <2> QED BY <1>1, <2>1, <2>2, EmptyElements DEF Shape
<1>7. CASE ConfigureFails(u)
  <2>1. /\ update' = [update EXCEPT ![u] = NoUpdate] /\ leases' \in {leases, <<>>} /\ serving' \in BOOLEAN
        /\ sure' = {} /\ UNCHANGED <<MacOf, now, pool, held, begun>>
    BY <1>1, <1>7 DEF ConfigureFails, Stopped
  <2> QED BY <1>1, <1>2, <2>1, EmptyElements DEF Shape
<1>8. CASE Restore(u) \/ RestoreFails(u)
  <2> DEFINE x == [update[u] EXCEPT !.at = "start"]
  <2>1. x \in Update /\ x.copy = update[u].copy
    BY <1>1 DEF Update
  <2>2. /\ update' = [update EXCEPT ![u] = x] /\ serving' \in BOOLEAN /\ sure' \subseteq sure
        /\ UNCHANGED <<MacOf, now, pool, held, begun>>
    BY <1>1, <1>8 DEF Restore, RestoreFails, Stopped
  <2>3. leases' = leases \/ (update[u].copy \in Seq(Record) /\ update[u].copy # NoBackup /\
          \E copy \in Seq(Record) : Elements(copy) \subseteq Elements(update[u].copy) /\ leases' \in Overwritten(copy))
    <3>1. CASE Restore(u)
      BY <1>1, <3>1 DEF Restore
    <3>2. CASE RestoreFails(u)
      <4>1. PICK k \in 0..Len(update[u].copy) : leases' \in Overwritten(SubSeq(update[u].copy, 1, k))
        BY <3>2 DEF RestoreFails
      <4>2. update[u].copy \in Seq(Record) /\ update[u].copy # NoBackup
        BY <1>1, <3>2 DEF RestoreFails
      <4> QED BY <4>1, <4>2, PrefixElements
    <3> QED BY <1>8, <3>1, <3>2
  <2>4. /\ leases' \in Seq(Record)
        /\ \A r \in Elements(leases') :
             r \in Elements(leases) \/ (update[u].copy # NoBackup /\ r \in Elements(update[u].copy))
    <3>1. CASE leases' = leases
      BY <1>1, <3>1
    <3>2. CASE leases' # leases
      <4>1. PICK copy \in Seq(Record) : Elements(copy) \subseteq Elements(update[u].copy) /\ leases' \in Overwritten(copy)
        BY <2>3, <3>2
      <4>2. update[u].copy # NoBackup
        BY <2>3, <3>2
      <4> QED BY <1>1, <4>1, <4>2, OverwrittenElements
    <3> QED BY <3>1, <3>2
  <2> HIDE DEF x
  <2> QED BY <1>1, <2>1, <2>2, <2>4 DEF Shape
<1>9. CASE Start(u)
  <2>1. /\ update' = [update EXCEPT ![u] = NoUpdate] /\ serving' = TRUE /\ pool' \in {pool, InForce}
        /\ UNCHANGED <<MacOf, now, leases, held, sure, begun>>
    BY <1>9 DEF Start
  <2>2. InForce \subseteq Record
    BY <1>1 DEF InForce
  <2> QED BY <1>1, <1>2, <2>1, <2>2 DEF Shape
<1>10. CASE StartFails(u)
  <2>1. update' = [update EXCEPT ![u] = NoUpdate] /\ UNCHANGED <<serverVars, begun>>
    BY <1>10 DEF StartFails
  <2> QED BY <1>1, <1>2, <2>1 DEF Shape, serverVars
<1> QED BY <1>3, <1>4, <1>5, <1>6, <1>7, <1>8, <1>9, <1>10 DEF SaveAndRestart

\* The types, and where the records come from, are kept by any such step.
LEMMA ShapeKeepsHistory ==
  ASSUME TypeOK, HistoryInv, NEW u \in Updates, Shape(u)
  PROVE  TypeOK' /\ HistoryInv'
<1>1. TypeOK'
  <2>1. /\ MacOf' = MacOf /\ now' = now /\ held' = held /\ sure' \subseteq Guests
        /\ update' \in [Updates -> Update]
    BY DEF TypeOK, Shape
  <2> QED BY <2>1 DEF TypeOK, Shape
<1>2. \A r : Known(r)' <=> Known(r)
  BY DEF Known, IsOf, Shape
<1>3. \A g \in Guests : Len(held[g])' = 1 => IsOf(held[g][1], g)'
  BY DEF HistoryInv, IsOf, Shape
<1>4. ASSUME NEW r \in Elements(leases') PROVE Known(r)
  BY <1>4 DEF HistoryInv, Shape
<1>5. ASSUME NEW w \in Updates, update'[w].copy # NoBackup, NEW r \in Elements(update'[w].copy)
      PROVE  Known(r)
  <2>1. CASE w = u
    <3>1. update'[u].copy = update[u].copy \/ update'[u].copy = leases
      BY <1>5, <2>1 DEF Shape
    <3> QED BY <1>5, <2>1, <3>1 DEF HistoryInv
  <2>2. CASE w # u
    <3>1. update'[w] = update[w]
      BY <2>2 DEF Shape, TypeOK
    <3> QED BY <1>5, <3>1 DEF HistoryInv
  <2> QED BY <2>1, <2>2
<1>6. \A r \in Elements(leases)' : Known(r)'
  BY <1>2, <1>4 DEF Elements
<1>7. \A w \in Updates : (update[w].copy # NoBackup)' => \A r \in Elements(update[w].copy)' : Known(r)'
  BY <1>2, <1>5 DEF Elements
<1> QED BY <1>1, <1>3, <1>6, <1>7 DEF HistoryInv

\* A step of the only update there is, which keeps the leases in the file or
\* in its copy.
LEMMA UpdateKeeps ==
  ASSUME IInv, NEW u \in Updates, SaveAndRestart(u)
  PROVE  IInv'
<1>1. Shape(u) /\ TypeOK /\ HistoryInv /\ SureInv
  BY UpdateShape DEF IInv
<1>2. TypeOK' /\ HistoryInv'
  BY <1>1, ShapeKeepsHistory
<1>3. /\ update \in [Updates -> Update] /\ update[u] \in Update /\ leases \in Seq(Record)
      /\ update[u].copy \in Seq(Record) \cup {NoBackup}
      /\ \A w \in Updates \ {u} : update'[w] = update[w]
      /\ held' = held /\ sure' \subseteq sure
  BY <1>1 DEF TypeOK, Update, Shape
<1>4. SUFFICES ASSUME sure' # {} PROVE SureInv'
  BY <1>2 DEF IInv, SureInv
<1>5. sure # {} /\ sure' = sure
      /\ (update[u].at = "idle" => \A w \in Updates : update[w].at = "idle")
  <2>1. CASE Begin(u)
    BY <1>4, <2>1 DEF Begin, Updating
  <2>2. CASE ~Begin(u)
    <3>1. update[u].at # "idle"
      BY <2>2 DEF SaveAndRestart, BackUp, BackUpFails, Configure, ConfigureFails, Restore, RestoreFails,
                  Start, StartFails
    <3>2. sure' = sure
      BY <1>4, <2>2 DEF SaveAndRestart, BackUp, BackUpFails, Configure, ConfigureFails, Restore, RestoreFails,
                  Start, StartFails, serverVars
    <3> QED BY <1>4, <3>1, <3>2
  <2> QED BY <2>1, <2>2
\* There is no other update.
<1>6. \A w \in Updates \ {u} : update[w].at = "idle" /\ update'[w] = update[w]
  BY <1>1, <1>3, <1>5 DEF SureInv, Busy
<1>7. \A w, v \in Updates : Busy(w)' /\ Busy(v)' => w = v
  BY <1>6 DEF Busy
<1>8. ASSUME NEW g \in sure
      PROVE  /\ update'[u].at # "restore" => held[g][1] \in Elements(leases')
             /\ update'[u].at \in {"configure", "restore"} =>
                  update'[u].copy # NoBackup /\ held[g][1] \in Elements(update'[u].copy)
  <2>1. /\ update[u].at # "restore" => held[g][1] \in Elements(leases)
        /\ update[u].at \in {"configure", "restore"} =>
             update[u].copy # NoBackup /\ held[g][1] \in Elements(update[u].copy)
    <3>1. update[u].at # "restore" => \A w \in Updates : update[w].at # "restore"
      BY <1>6
    <3> QED BY <1>1, <3>1 DEF SureInv
  <2>2. CASE Begin(u)
    <3>1. update[u].at = "idle" /\ update'[u].at = "backup" /\ leases' = leases
      BY <1>3, <2>2 DEF Begin, Update
    <3> QED BY <2>1, <3>1
  <2>3. CASE BackUp(u)
    <3>1. /\ update[u].at = "backup" /\ update'[u].at = "configure" /\ update'[u].copy = leases
          /\ leases' = leases /\ leases # NoBackup
      BY <1>3, <2>3, GuestsAssumption DEF BackUp, Update, serverVars
    <3> QED BY <2>1, <3>1
  <2>4. CASE Configure(u)
    <3>1. update[u].at = "configure" /\ update'[u].at = "restore" /\ update'[u].copy = update[u].copy
      BY <1>3, <2>4 DEF Configure, Update
    <3> QED BY <2>1, <3>1
  <2>5. CASE Restore(u)
    <3>1. update[u].at = "restore" /\ update'[u].at = "start"
      BY <1>3, <2>5 DEF Restore, Update
    <3>2. leases' \in Overwritten(update[u].copy) /\ update[u].copy \in Seq(Record)
      BY <1>3, <2>1, <2>5, <3>1 DEF Restore
    <3>3. Elements(update[u].copy) \subseteq Elements(leases')
      BY <1>3, <3>2, OverwrittenElements
    <3> QED BY <2>1, <3>1, <3>3
  <2>6. CASE Start(u) \/ StartFails(u)
    <3>1. update[u].at = "start" /\ update'[u].at = "idle" /\ leases' = leases
      BY <1>3, <2>6 DEF Start, StartFails, NoUpdate, serverVars
    <3> QED BY <2>1, <3>1
  <2>7. CASE BackUpFails(u) \/ ConfigureFails(u) \/ RestoreFails(u)
    BY <1>4, <2>7 DEF BackUpFails, ConfigureFails, RestoreFails
  <2> QED BY <2>2, <2>3, <2>4, <2>5, <2>6, <2>7 DEF SaveAndRestart
<1>9. ASSUME NEW g \in sure'
      PROVE  /\ Len(held[g])' = 1
             /\ (\A w \in Updates : (update[w].at # "restore")') => held[g][1]' \in Elements(leases)'
             /\ \A w \in Updates : (update[w].at \in {"configure", "restore"})' =>
                  (update[w].copy # NoBackup /\ held[g][1] \in Elements(update[w].copy))'
  <2>1. g \in sure /\ Len(held[g]) = 1 /\ held'[g] = held[g]
    BY <1>1, <1>3, <1>5, <1>9 DEF SureInv
  <2>2. \A w \in Updates : update'[w].at \in {"configure", "restore"} =>
          update'[w].copy # NoBackup /\ held[g][1] \in Elements(update'[w].copy)
    BY <1>6, <1>8, <2>1
  <2>3. (\A w \in Updates : update'[w].at # "restore") => held[g][1] \in Elements(leases')
    BY <1>8, <2>1
  <2> QED BY <1>3, <2>1, <2>2, <2>3 DEF Elements
<1> QED BY <1>2, <1>7, <1>9 DEF SureInv
\* What only changes the clock keeps everything.
LEMMA ClockKeeps ==
  ASSUME IInv, now' \in Nat, UNCHANGED <<MacOf, leases, pool, serving, held, sure, update, begun>>
  PROVE  IInv'
<1>1. TypeOK'
  BY DEF IInv, TypeOK
<1>2. HistoryInv'
  BY DEF IInv, HistoryInv, Known, IsOf, Elements
<1>3. SureInv'
  BY DEF IInv, SureInv, Busy, Elements
<1> QED BY <1>1, <1>2, <1>3 DEF IInv

\* A crash leaves no update, and no lease safe that one could have lost.
LEMMA CrashKeeps ==
  ASSUME IInv, Crash
  PROVE  IInv'
<1>1. TypeOK /\ HistoryInv /\ SureInv
  BY DEF IInv
<1>2. /\ UNCHANGED <<MacOf, now, leases, pool, serving, held, begun>>
      /\ sure' = IF Updating THEN {} ELSE sure
      /\ \A u \in Updates : update'[u] = NoUpdate
      /\ update' = [u \in Updates |-> NoUpdate]
  BY DEF Crash
<1>3. NoUpdate \in Update /\ NoUpdate.at = "idle" /\ NoUpdate.copy = NoBackup
  BY DEF NoUpdate, Update
<1>4. TypeOK'
  BY <1>1, <1>2, <1>3 DEF TypeOK
<1>5. HistoryInv'
  BY <1>1, <1>2, <1>3 DEF HistoryInv, Known, IsOf, Elements
<1>6. \A g \in sure' : g \in sure /\ Len(held[g]) = 1 /\ held[g][1] \in Elements(leases)
  BY <1>1, <1>2 DEF SureInv, Updating
<1>7. SureInv'
  <2>1. \A u \in Updates : (~Busy(u))' /\ (update[u].at \notin {"configure", "restore"})'
    BY <1>2, <1>3 DEF Busy
  <2>2. \A g \in sure' : Len(held[g])' = 1 /\ held[g][1]' \in Elements(leases)'
    BY <1>2, <1>6 DEF Elements
  <2> QED BY <2>1, <2>2 DEF SureInv
<1> QED BY <1>4, <1>5, <1>7 DEF IInv

\* A new record is the newest lease of its guest.
LEMMA GrantKeeps ==
  ASSUME IInv, NEW g \in Guests, Grant(g)
  PROVE  IInv'
<1>1. TypeOK /\ HistoryInv /\ SureInv
  BY DEF IInv
<1>2. PICK a \in Offered(g) :
        LET r == [mac |-> MacOf[g], host |-> HostOf[g], addr |-> a, start |-> now, ends |-> now + Term]
        IN /\ leases' = Append(leases, r)
           /\ pool' = {q \in pool : ~IsOf(q, g) /\ q.addr # a} \cup {r}
           /\ held' = [held EXCEPT ![g] = <<r>>]
  BY DEF Grant
<1> DEFINE r == [mac |-> MacOf[g], host |-> HostOf[g], addr |-> a, start |-> now, ends |-> now + Term]
<1>3. /\ leases' = Append(leases, r) /\ held' = [held EXCEPT ![g] = <<r>>]
      /\ pool' = {q \in pool : ~IsOf(q, g) /\ q.addr # a} \cup {r}
      /\ UNCHANGED <<MacOf, now, serving, update, begun>>
      /\ sure' = IF Updating \/ ~ServerKnowsFile THEN sure \ {g} ELSE sure \cup {g}
      /\ Asks(g)
  BY <1>2 DEF Grant
<1>4. /\ MacOf \in [Guests -> Macs] /\ now \in Nat /\ leases \in Seq(Record) /\ pool \subseteq Record
      /\ held \in [Guests -> Seq(Record)] /\ update \in [Updates -> Update] /\ sure \subseteq Guests
      /\ HostOf[g] \in Hosts \cup {NoHost} /\ MacOf[g] \in Macs /\ Term \in Nat /\ now + Term \in Nat
      /\ Reserved[MacOf[g]] \in Addrs \cup {NoAddr}
  BY <1>1, GuestsAssumption DEF TypeOK
<1>5. a \in Addrs
  BY <1>4 DEF Offered, Record
<1>6. r \in Record /\ r.start = now /\ r.mac = MacOf[g] /\ r.host = HostOf[g]
  BY <1>4, <1>5 DEF Record
<1> HIDE DEF r
<1>7. Len(<<r>>) = 1 /\ <<r>>[1] = r /\ <<r>> \in Seq(Record)
  BY <1>6
<1>8. held'[g] = <<r>> /\ \A k \in Guests \ {g} : held'[k] = held[k]
  BY <1>3, <1>4
<1>9. Elements(leases') = Elements(leases) \cup {r} /\ leases' \in Seq(Record)
  <2>1. /\ leases' \in Seq(Record) /\ Len(leases') = Len(leases) + 1
        /\ \A i \in 1..Len(leases) : leases'[i] = leases[i]
        /\ leases'[Len(leases) + 1] = r
    BY <1>3, <1>4, <1>6, AppendProperties
  <2>2. /\ DOMAIN leases = 1..Len(leases) /\ DOMAIN leases' = 1..Len(leases') /\ Len(leases) \in Nat
        /\ 1..(Len(leases) + 1) = 1..Len(leases) \cup {Len(leases) + 1}
    BY <1>4, <2>1
  <2> QED BY <2>1, <2>2 DEF Elements
<1>10. TypeOK'
  <2>1. held' \in [Guests -> Seq(Record)] /\ \A k \in Guests : Len(held'[k]) <= 1
    BY <1>1, <1>3, <1>4, <1>7, <1>8 DEF TypeOK
  <2>2. pool' \subseteq Record /\ sure' \subseteq Guests
    BY <1>3, <1>4, <1>6
  <2> QED BY <1>1, <1>3, <1>9, <2>1, <2>2 DEF TypeOK
<1>11. ASSUME NEW q \in Record, Known(q) PROVE Known(q)'
  <2>1. PICK k \in Guests : IsOf(q, k) /\ Len(held[k]) = 1 /\ (q = held[k][1] \/ q.start < held[k][1].start)
    BY <1>11 DEF Known
  <2>2. IsOf(q, k)'
    BY <1>3, <2>1 DEF IsOf
  <2>3. CASE k = g
    <3> DEFINE h == held[g]
    <3>1. h \in Seq(Record) /\ Len(h) = 1
      BY <1>4, <2>1, <2>3
    <3> HIDE DEF h
    <3>2. 1 \in DOMAIN h /\ h[1] \in Record
      BY <3>1
    <3>3. h[1].start < now /\ h[1].start \in Nat /\ q.start \in Nat
      BY <1>3, <3>2 DEF Asks, Record, h
    <3>4. q.start < r.start
      BY <1>4, <1>6, <2>1, <2>3, <3>3 DEF h
    <3>5. Len(held'[g]) = 1 /\ held'[g][1] = r
      BY <1>7, <1>8
    <3> QED BY <2>2, <2>3, <3>4, <3>5 DEF Known
  <2>4. CASE k # g
    BY <1>8, <2>1, <2>2, <2>4 DEF Known
  <2> QED BY <2>3, <2>4
<1>12. ASSUME NEW q, q = r PROVE Known(q)'
  <2>1. IsOf(q, g)'
    BY <1>3, <1>6, <1>12 DEF IsOf
  <2>2. Len(held'[g]) = 1 /\ held'[g][1] = q
    BY <1>7, <1>8, <1>12
  <2> QED BY <2>1, <2>2 DEF Known
<1>13. HistoryInv'
  <2>1. \A k \in Guests : Len(held[k])' = 1 => IsOf(held[k][1], k)'
    BY <1>1, <1>3, <1>6, <1>7, <1>8 DEF HistoryInv, IsOf
  <2>2. \A q \in Elements(leases)' : Known(q)'
    <3>1. Elements(leases)' = Elements(leases')
      BY DEF Elements
    <3>2. \A q \in Elements(leases) : q \in Record /\ Known(q)
      BY <1>1, <1>4 DEF HistoryInv, Elements
    <3> QED BY <1>9, <1>11, <1>12, <3>1, <3>2
  <2>3. \A u \in Updates : (update[u].copy # NoBackup)' => \A q \in Elements(update[u].copy)' : Known(q)'
    <3> TAKE u \in Updates
    <3>1. update'[u] = update[u] /\ (update[u].copy)' = update[u].copy
      BY <1>3
    <3>2. update[u].copy # NoBackup => \A q \in Elements(update[u].copy) : q \in Record /\ Known(q)
      BY <1>1, <1>4 DEF HistoryInv, Elements, Update
    <3>3. Elements(update[u].copy)' = Elements(update[u].copy)
      BY <3>1 DEF Elements
    <3> QED BY <1>11, <3>1, <3>2, <3>3
  <2> QED BY <2>1, <2>2, <2>3 DEF HistoryInv
<1>14. SureInv'
  <2>1. sure' # {} => \A u, w \in Updates : Busy(u)' /\ Busy(w)' => u = w
    BY <1>1, <1>3 DEF SureInv, Busy, Updating
  <2>2. ASSUME NEW k \in sure'
        PROVE  /\ Len(held'[k]) = 1
               /\ (\A u \in Updates : update[u].at # "restore") => held'[k][1] \in Elements(leases')
               /\ \A u \in Updates : update[u].at \in {"configure", "restore"} =>
                    update[u].copy # NoBackup /\ held'[k][1] \in Elements(update[u].copy)
    <3>1. CASE k = g
      <4>1. ~Updating
        BY <1>3, <2>2, <3>1
      <4> QED BY <1>7, <1>8, <1>9, <3>1, <4>1 DEF Updating
    <3>2. CASE k # g
      <4>1. k \in sure /\ held'[k] = held[k]
        BY <1>3, <1>4, <1>8, <2>2, <3>2
      <4> QED BY <1>1, <1>9, <4>1 DEF SureInv
    <3> QED BY <3>1, <3>2
  <2>3. Elements(leases)' = Elements(leases') /\ update' = update
        /\ \A u : Elements(update[u].copy)' = Elements(update'[u].copy)
    BY <1>3 DEF Elements
  <2> QED BY <2>1, <2>2, <2>3 DEF SureInv
<1> QED BY <1>10, <1>13, <1>14 DEF IInv

\* The initial states satisfy the invariant.
LEMMA InitIInv ==
  Init => IInv
<1> SUFFICES ASSUME Init PROVE IInv
  OBVIOUS
<1>1. NoUpdate \in Update /\ NoUpdate.at = "idle" /\ NoUpdate.copy = NoBackup
  BY DEF NoUpdate, Update
<1>2. TypeOK
  <2>1. <<>> \in Seq(Record) /\ Len(<<>>) = 0
    OBVIOUS
  <2> QED BY <1>1, <2>1, GuestsAssumption DEF Init, TypeOK
<1>3. HistoryInv /\ SureInv
  BY <1>1 DEF Init, HistoryInv, SureInv, Elements, Busy
<1> QED BY <1>2, <1>3 DEF IInv

\* Every step keeps the invariant.
LEMMA NextIInv ==
  IInv /\ [Next]_vars => IInv'
<1> SUFFICES ASSUME IInv, [Next]_vars PROVE IInv'
  OBVIOUS
<1>1. now \in Nat
  BY DEF IInv, TypeOK
<1>2. CASE Tick
  BY <1>1, <1>2, ClockKeeps DEF Tick
<1>3. CASE Crash
  BY <1>3, CrashKeeps
<1>4. ASSUME NEW g \in Guests, Grant(g) PROVE IInv'
  BY <1>4, GrantKeeps
<1>5. ASSUME NEW u \in Updates, SaveAndRestart(u) PROVE IInv'
  BY <1>5, UpdateKeeps
<1>6. CASE UNCHANGED vars
  BY <1>1, <1>6, ClockKeeps DEF vars
<1> QED BY <1>2, <1>3, <1>4, <1>5, <1>6 DEF Next

\* The types; the file and its copies hold leases that were given, the newest
\* of a guest being the one it has; and what no step has put at risk is in the
\* file, or in the copy about to be written back (simple.go, saveAndRestart).
THEOREM InductiveInvariant ==
  Spec => []IInv
<1>1. Init => IInv
  BY InitIInv
<1>2. IInv /\ [Next]_vars => IInv'
  BY NextIInv
<1> QED BY <1>1, <1>2, PTL DEF Spec

-----------------------------------------------------------------------------
(* What follows.                                                           *)

\* What the look-up finds is what the definition without an order says.
LEMMA FoundIsReference ==
  ASSUME TypeOK
  PROVE  LoadedByReference
<1> SUFFICES ASSUME NEW m \in Macs
             PROVE  LookupDhcpAddress(m) \in
                      IF ActiveOf(m) = {} \/ ~OneHost(m) THEN {{Reserved[m]}}
                      ELSE {{leases[i].addr} : i \in {j \in ActiveOf(m) :
                                   \A k \in ActiveOf(m) : leases[k].start <= leases[j].start}}
  BY DEF LoadedByReference
<1>1. leases \in Seq(Record)
  BY DEF TypeOK
<1>2. CASE ActiveOf(m) = {} \/ ~OneHost(m)
  BY <1>1, <1>2, Found
<1>3. CASE ActiveOf(m) # {} /\ OneHost(m)
  <2>1. PICK i \in ActiveOf(m) : /\ \A k \in ActiveOf(m) : leases[k].start <= leases[i].start
                                 /\ LookupDhcpAddress(m) = {leases[i].addr}
    BY <1>1, <1>3, Found
  <2> QED BY <1>3, <2>1
<1> QED BY <1>2, <1>3

\* A lease that is certain is in the file, and so active.
LEMMA CertainIsListed ==
  ASSUME IInv, NEW g \in Guests, Certain(g)
  PROVE  \E i \in ActiveOf(MacOf[g]) : leases[i] = held[g][1] /\ leases[i].host = HostOf[g]
<1>1. held[g][1] \in Elements(leases) /\ Len(held[g]) = 1 /\ Active(held[g][1])
  BY DEF IInv, SureInv, Certain, Updating
<1>2. IsOf(held[g][1], g)
  BY <1>1 DEF IInv, HistoryInv
<1>3. PICK i \in DOMAIN leases : leases[i] = held[g][1]
  BY <1>1 DEF Elements
<1> QED BY <1>1, <1>2, <1>3 DEF ActiveOf, IsOf

\* A guest whose lease is not at risk is found at its address.
LEMMA CertainIsFound ==
  ASSUME IInv
  PROVE  AddressIsFound
<1> SUFFICES ASSUME NEW g \in Guests, Alone(g), HostOf[g] # NoHost, Certain(g)
             PROVE  ReadDhcpLease(g) = {held[g][1].addr}
  BY DEF AddressIsFound
<1> DEFINE m == MacOf[g]
           h == held[g][1]
<1>1. leases \in Seq(Record) /\ m \in Macs /\ Len(held[g]) = 1
  BY DEF IInv, TypeOK, SureInv, Certain
<1>2. PICK j \in ActiveOf(m) : leases[j] = h /\ leases[j].host = HostOf[g]
  BY CertainIsListed
\* The records of its MAC address are its own.
<1>3. ASSUME NEW i \in ActiveOf(m)
      PROVE  leases[i].host = HostOf[g] /\ leases[i].start \in Nat /\
             (leases[i] = h \/ leases[i].start < h.start)
  <2>1. i \in DOMAIN leases /\ leases[i].mac = m
    BY DEF ActiveOf
  <2>2. leases[i] \in Record /\ leases[i] \in Elements(leases)
    BY <1>1, <2>1 DEF Elements
  <2>3. Known(leases[i])
    BY <2>2 DEF IInv, HistoryInv
  <2>4. PICK k \in Guests : IsOf(leases[i], k) /\ Len(held[k]) = 1
                            /\ (leases[i] = held[k][1] \/ leases[i].start < held[k][1].start)
    BY <2>3 DEF Known
  <2>5. k = g
    BY <2>1, <2>4 DEF IsOf, Alone
  <2>6. leases[i].start \in Nat
    BY <2>2 DEF Record
  <2> QED BY <2>4, <2>5, <2>6 DEF IsOf
<1>4. OneHost(m)
  BY <1>3 DEF OneHost
<1>5. PICK i \in ActiveOf(m) : /\ \A k \in ActiveOf(m) : leases[k].start <= leases[i].start
                               /\ LookupDhcpAddress(m) = {leases[i].addr}
  BY <1>1, <1>2, <1>4, Found
<1>6. leases[i] = h
  BY <1>2, <1>3, <1>5
<1> QED BY <1>5, <1>6 DEF ReadDhcpLease

\* A look-up for a MAC address with two names has no answer.
LEMMA SharedIsRefused ==
  ASSUME IInv
  PROVE  SharedMacIsRefused
<1> SUFFICES ASSUME NEW g \in Guests, NEW k \in Guests, MacOf[g] = MacOf[k], HostOf[g] # HostOf[k],
                    Certain(g), Certain(k)
             PROVE  ReadDhcpLease(g) = {Reserved[MacOf[g]]}
  BY DEF SharedMacIsRefused
<1>1. leases \in Seq(Record) /\ MacOf[g] \in Macs
  BY DEF IInv, TypeOK
<1>2. PICK i \in ActiveOf(MacOf[g]) : leases[i].host = HostOf[g]
  BY CertainIsListed
<1>3. PICK j \in ActiveOf(MacOf[g]) : leases[j].host = HostOf[k]
  BY CertainIsListed
<1>4. ~OneHost(MacOf[g])
  BY <1>2, <1>3 DEF OneHost
<1> QED BY <1>1, <1>4, Found DEF ReadDhcpLease

\* For every file and time, what is found does not depend on the order of the
\* records (dhcp_lease_file.go, loadEntry).
THEOREM LookupIsReference ==
  Spec => []LoadedByReference
<1>1. IInv => LoadedByReference
  BY FoundIsReference DEF IInv
<1> QED BY <1>1, InductiveInvariant, PTL

\* A guest is found at its address after any number of updates that did not
\* fail or overlap (simple.go, saveAndRestart).
THEOREM LeaseSurvives ==
  Spec => []AddressIsFound
<1>1. IInv => AddressIsFound
  BY CertainIsFound
<1> QED BY <1>1, InductiveInvariant, PTL

\* Of guests with one MAC address none is taken for the other, however many
\* there are (dhcp_lease_file.go, loadEntry).
THEOREM SharedMacTellsNothing ==
  Spec => []SharedMacIsRefused
<1>1. IInv => SharedMacIsRefused
  BY SharedIsRefused
<1> QED BY <1>1, InductiveInvariant, PTL
=============================================================================
