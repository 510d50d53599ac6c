----------------------------- MODULE DhcpLeases -----------------------------
(***************************************************************************)
(* The lease file of VMware's DHCP server, which tells the address of a    *)
(* machine from its MAC address.                                           *)
(*                                                                         *)
(*   utility/dhcp_lease_file.go   Load, loadEntry, IpForMac                *)
(*   driver/simple.go             LookupDhcpAddress, saveAndRestart,       *)
(*                                backupDhcpLeases, restoreDhcpLeases      *)
(*                                                                         *)
(* The server writes a record whenever a guest gets or renews a lease.     *)
(* Applying a new network configuration may empty the file, so an update   *)
(* copies it before and puts the copy back after.  An update made for a    *)
(* reservation holds no lock, so two may be under way.                     *)
(*                                                                         *)
(* A lookup changes nothing: it is an operator on the file.  That records  *)
(* are judged a few microseconds apart is left out.                        *)
(*                                                                         *)
(* A MAC address stands for its normalised spelling.  There is one device, *)
(* and its records have times (macOS's own server writes none).            *)
(***************************************************************************)
EXTENDS Integers, Sequences

CONSTANTS
  Guests,   \* the machines on the network
  Macs, Hosts, Addrs,
  HostOf,   \* the name it sends to the server
  NoHost,   \* it sends none
  Reserved, \* the reservations of the networking file
  NoAddr,   \* no address
  Updates,  \* the requests that may be applied at once
  NoBackup, \* there is no copy of the file
  Term,     \* how long a lease lasts
  MaxTime, MaxRecords, MaxUpdates  \* bounds: the clock, the file, the updates

Record == [mac: Macs, host: Hosts \cup {NoHost}, addr: Addrs, start: Nat, ends: Nat]

ASSUME GuestsAssumption ==
  /\ HostOf \in [Guests -> Hosts \cup {NoHost}]
  /\ NoHost \notin Hosts /\ NoAddr \notin Addrs /\ NoBackup \notin Seq(Record)
  /\ Reserved \in [Macs -> Addrs \cup {NoAddr}]
  /\ Term \in Nat \ {0} /\ MaxTime \in Nat /\ MaxRecords \in Nat /\ MaxUpdates \in Nat

VARIABLES
  MacOf,   \* the MAC address of each guest: two may have the same
  now,     \* the time
  leases,  \* the lease file
  pool,    \* the leases in the memory of the running server
  serving, \* whether the server runs
  held,    \* the last lease of each guest
  sure,    \* history: guests whose lease nothing has put at risk
  update,  \* the updates in progress
  begun    \* how many have begun

vars == <<MacOf, now, leases, pool, serving, held, sure, update, begun>>

serverVars == <<MacOf, now, leases, pool, serving, held, sure>>

\* The steps of saveAndRestart that touch leases.
Update == [at: {"idle", "backup", "configure", "restore", "start"},
           copy: Seq(Record) \cup {NoBackup}]

NoUpdate == [at |-> "idle", copy |-> NoBackup]

Active(r) == r.start <= now /\ now < r.ends

Updating == \E u \in Updates : update[u].at # "idle"

Init ==
  /\ MacOf \in [Guests -> Macs]
  /\ now = 0
  /\ leases = <<>> /\ pool = {} /\ serving = TRUE
  /\ held = [g \in Guests |-> <<>>]
  /\ sure = {}
  /\ update = [u \in Updates |-> NoUpdate]
  /\ begun = 0

-----------------------------------------------------------------------------
(* The DHCP server.                                                        *)

Tick ==
  /\ now < MaxTime
  /\ now' = now + 1
  /\ UNCHANGED <<MacOf, leases, pool, serving, held, sure, update, begun>>

IsOf(r, g) == r.mac = MacOf[g] /\ r.host = HostOf[g]

\* The address for guest g: its own again, or its reservation, or one that
\* nobody has a lease or a reservation for.
Offered(g) ==
  LET mine == {r \in pool : Active(r) /\ IsOf(r, g)}
      taken == {r.addr : r \in {q \in pool : Active(q)}} \cup {Reserved[m] : m \in Macs}
  IN IF mine # {} THEN {r.addr : r \in mine}
     ELSE IF Reserved[MacOf[g]] # NoAddr THEN {Reserved[MacOf[g]]} ELSE Addrs \ taken

\* Of the records of an address the last one counts for the server.
InForce == {leases[i] : i \in {j \in DOMAIN leases :
                               \A k \in DOMAIN leases : leases[k].addr = leases[j].addr => k <= j}}

\* The running server has in memory what the file says.
ServerKnowsFile == \A r \in InForce : Active(r) => r \in pool

\* A guest asks when it has no lease, and later to renew it.
Asks(g) == \A i \in DOMAIN held[g] : held[g][i].start < now

Grant(g) ==
  /\ serving /\ Asks(g) /\ Len(leases) < MaxRecords
  /\ \E a \in Offered(g) :
       LET r == [mac |-> MacOf[g], host |-> HostOf[g], addr |-> a, start |-> now, ends |-> now + Term]
       IN /\ leases' = Append(leases, r)
          /\ pool' = {q \in pool : ~IsOf(q, g) /\ q.addr # a} \cup {r}
          /\ held' = [held EXCEPT ![g] = <<r>>]
  /\ sure' = IF Updating \/ ~ServerKnowsFile THEN sure \ {g} ELSE sure \cup {g}
  /\ UNCHANGED <<MacOf, now, serving, update, begun>>

-----------------------------------------------------------------------------
(* A lookup.                                                               *)

\* Mutant: the first record of the file is kept.
EarlierInFile(r, e) == FALSE

Later(r, e) == r.start > e.start

\* Mutant: a rejected MAC is forgotten.
NothingRejected(r, file) == FALSE

Rejected(r, file) == r.mac \in file.rejected

\* loadEntry on an active record of a MAC address that is not rejected: file
\* is the DhcpLeaseFile with its entries and rejectedMACs.
Entered(r, file) ==
  LET existing == {e \in file.entries : e.mac = r.mac}
  IN IF existing = {} THEN [file EXCEPT !.entries = @ \cup {r}]
     ELSE IF r.host # NoHost /\ \A e \in existing : r.host = e.host
          THEN IF \A e \in existing : Later(r, e)
               THEN [file EXCEPT !.entries = (@ \ existing) \cup {r}] ELSE file
          ELSE [file EXCEPT !.entries = @ \ existing, !.rejected = @ \cup {r.mac}]

LoadEntry(file, r) == IF ~Active(r) \/ Rejected(r, file) THEN file ELSE Entered(r, file)

\* LoadDhcpLeaseFile makes an empty one for every lookup, so nothing is known of
\* earlier ones.
NewLeaseFile == [entries |-> {}, rejected |-> {}]

\* What is known after the first i records.
Loaded[i \in 0 .. Len(leases)] ==
  IF i = 0 THEN NewLeaseFile ELSE LoadEntry(Loaded[i - 1], leases[i])

Load == Loaded[Len(leases)]

IpForMac(file, m) == {e.addr : e \in {x \in file.entries : x.mac = m}}

\* Where the file says nothing the reservation of the networking file does.
LookupDhcpAddress(m) ==
  LET found == IpForMac(Load, m)
  IN IF found # {} THEN found ELSE {Reserved[m]}

\* What the plugin is told of guest g.
ReadDhcpLease(g) == LookupDhcpAddress(MacOf[g])

-----------------------------------------------------------------------------
(* An update.                                                              *)

Begin(u) ==
  /\ update[u].at = "idle" /\ begun < MaxUpdates
  /\ begun' = begun + 1
  /\ sure' = IF Updating THEN {} ELSE sure
  /\ update' = [update EXCEPT ![u].at = "backup"]
  /\ UNCHANGED <<MacOf, now, leases, pool, serving, held>>

\* Mutant: the update goes on without a copy.
BackUpNothing(u) ==
  /\ update[u].at = "backup"
  /\ update' = [update EXCEPT ![u].at = "configure", ![u].copy = NoBackup]
  /\ UNCHANGED <<serverVars, begun>>

BackUp(u) ==
  /\ update[u].at = "backup"
  /\ update' = [update EXCEPT ![u].at = "configure", ![u].copy = leases]
  /\ UNCHANGED <<serverVars, begun>>

\* Only logged: the update goes on.
BackUpFails(u) ==
  /\ update[u].at = "backup"
  /\ update' = [update EXCEPT ![u].at = "configure"]
  /\ sure' = {}
  /\ UNCHANGED <<MacOf, now, leases, pool, serving, held, begun>>

\* A stop whose failure is ignored leaves the server running.
Stopped == serving' \in {FALSE, serving}

Configure(u) ==
  /\ update[u].at = "configure"
  /\ Stopped /\ leases' \in {leases, <<>>}
  /\ update' = [update EXCEPT ![u].at = "restore"]
  /\ UNCHANGED <<MacOf, now, pool, held, sure, begun>>

\* The request ends there, with the server stopped and the copy unused.
ConfigureFails(u) ==
  /\ update[u].at = "configure"
  /\ Stopped /\ leases' \in {leases, <<>>}
  /\ sure' = {}
  /\ update' = [update EXCEPT ![u] = NoUpdate]
  /\ UNCHANGED <<MacOf, now, pool, held, begun>>

\* The copy is written over the file, which is not truncated: what is longer
\* stays, less a record that the copy cuts in two.
Overwritten(copy) ==
  {copy \o SubSeq(leases, Len(copy) + k, Len(leases)) : k \in {1, 2}}

\* The server is stopped once more before.
Restore(u) ==
  /\ update[u].at = "restore"
  /\ Stopped
  /\ IF update[u].copy = NoBackup THEN UNCHANGED leases ELSE leases' \in Overwritten(update[u].copy)
  /\ update' = [update EXCEPT ![u].at = "start"]
  /\ UNCHANGED <<MacOf, now, pool, held, sure, begun>>

\* Only logged as well; some of the copy may be written.
RestoreFails(u) ==
  /\ update[u].at = "restore" /\ update[u].copy # NoBackup
  /\ Stopped
  /\ \E k \in 0 .. Len(update[u].copy) : leases' \in Overwritten(SubSeq(update[u].copy, 1, k))
  /\ sure' = {}
  /\ update' = [update EXCEPT ![u].at = "start"]
  /\ UNCHANGED <<MacOf, now, pool, held, begun>>

\* The server reads its file when it starts; one that runs is left alone.
Start(u) ==
  /\ update[u].at = "start"
  /\ serving' = TRUE
  /\ pool' = IF serving THEN pool ELSE InForce
  /\ update' = [update EXCEPT ![u] = NoUpdate]
  /\ UNCHANGED <<MacOf, now, leases, held, sure, begun>>

StartFails(u) ==
  /\ update[u].at = "start" /\ ~serving
  /\ update' = [update EXCEPT ![u] = NoUpdate]
  /\ UNCHANGED <<serverVars, begun>>

\* The utility dies and is started again.
Crash ==
  /\ sure' = IF Updating THEN {} ELSE sure
  /\ update' = [u \in Updates |-> NoUpdate]
  /\ UNCHANGED <<MacOf, now, leases, pool, serving, held, begun>>

SaveAndRestart(u) ==
  \/ Begin(u) \/ BackUp(u) \/ BackUpFails(u)
  \/ Configure(u) \/ ConfigureFails(u)
  \/ Restore(u) \/ RestoreFails(u) \/ Start(u) \/ StartFails(u)

Next ==
  \/ Tick \/ Crash
  \/ \E g \in Guests : Grant(g)
  \/ \E u \in Updates : SaveAndRestart(u)

Spec == Init /\ [][Next]_vars

-----------------------------------------------------------------------------
(* Properties.                                                             *)

TypeOK ==
  /\ MacOf \in [Guests -> Macs]
  /\ now \in Nat
  /\ leases \in Seq(Record) /\ pool \subseteq Record /\ serving \in BOOLEAN
  /\ held \in [Guests -> Seq(Record)] /\ \A g \in Guests : Len(held[g]) <= 1
  /\ sure \subseteq Guests
  /\ update \in [Updates -> Update]
  /\ begun \in 0 .. MaxUpdates

\* The active records of MAC address m.
ActiveOf(m) == {i \in DOMAIN leases : Active(leases[i]) /\ leases[i].mac = m}

\* All of them are of one machine, as far as can be told.
OneHost(m) ==
  \A i, j \in ActiveOf(m) : i # j => leases[i].host = leases[j].host /\ leases[i].host # NoHost

\* What is found depends on the active records of the MAC address and not on
\* their order: the newest, provided all bear one name, and otherwise nothing
\* (dhcp_lease_file.go:241, "there is no way to identify the correct address").
LoadedByReference ==
  \A m \in Macs :
    LookupDhcpAddress(m) \in
      IF ActiveOf(m) = {} \/ ~OneHost(m) THEN {{Reserved[m]}}
      ELSE {{leases[i].addr} : i \in {j \in ActiveOf(m) :
                                      \A k \in ActiveOf(m) : leases[k].start <= leases[j].start}}

Alone(g) == \A k \in Guests \ {g} : MacOf[k] # MacOf[g]

\* Guest g certainly has its lease, and no update is about to touch the file.
Certain(g) == g \in sure /\ Active(held[g][1]) /\ ~Updating

\* A guest is found at the address it has, although updates empty the file and
\* the server is restarted (simple.go:220-234): a lease is at risk only when a
\* step of an update fails, when updates overlap, or when it is granted during
\* one.
AddressIsFound ==
  \A g \in Guests :
    Alone(g) /\ HostOf[g] # NoHost /\ Certain(g) => ReadDhcpLease(g) = {held[g][1].addr}

\* Of two guests with one MAC address neither is taken for the other.
SharedMacIsRefused ==
  \A g, k \in Guests :
    /\ MacOf[g] = MacOf[k] /\ HostOf[g] # HostOf[k]
    /\ Certain(g) /\ Certain(k)
    => ReadDhcpLease(g) = {Reserved[MacOf[g]]}
=============================================================================
