----------------------- MODULE InternalPortForwarding -----------------------
(***************************************************************************)
(* The utility's own port forwarding service, used where VMware's NAT      *)
(* service cannot forward ports.                                           *)
(*                                                                         *)
(*   internal/service/port_forwarding.go   Forward, PortForwarding         *)
(*   settings/port_forwarding.go           the persisted list              *)
(*   driver/base.go                        EnableInternalPortForwarding,   *)
(*                                         Add/DeleteInternalPortForward   *)
(*                                                                         *)
(* A settings forward is an element of Fwds: two elements are Equal in the *)
(* sense of Forward.Equal exactly when they are the same element.          *)
(* HostAddr[f] is the address its host side binds ("0.0.0.0:port" and the  *)
(* protocol); forwards that differ only in guest or description share it.  *)
(*                                                                         *)
(* The mutex p.l serialises Add and Remove; each is two steps, because the *)
(* settings file is written before the listener is touched and the process *)
(* can die in between.  The goroutines that close listeners, accept        *)
(* connections and copy datagrams run on their own.                        *)
(***************************************************************************)
EXTENDS Naturals, FiniteSets, SequencesExt

CONSTANTS
  Fwds,      \* the settings forwards clients ask for
  Addrs,     \* host addresses: protocol and port
  HostAddr,  \* the host address of each forward
  UdpFwds,   \* the forwards whose protocol is udp (the others are tcp)
  Ids,       \* identities of Forward objects (bound: objects in use at once)
  NoFwd      \* the Fwd field of an object that is not in use

ASSUME FwdsAssumption ==
  /\ HostAddr \in [Fwds -> Addrs]
  /\ UdpFwds \subseteq Fwds
  /\ NoFwd \notin Fwds

VARIABLES
  phase,      \* the process: "down", "starting" (Load done, in Start), "up"
  obj,        \* the Forward objects
  forwards,   \* PortForwarding.forwards, a slice of object pointers
  known,      \* settings.PortForwarding.Forwards, in memory
  disk,       \* the settings file
  adding,     \* {f} while Add(f) holds p.l with f in the settings, else {}
  removing,   \* {f} while Remove(f) holds p.l after p.s.Delete, else {}
  refused,    \* history: forwards whose Add returned an error in this run
  died        \* history: forwards whose socket failed in this run

vars == <<phase, obj, forwards, known, disk, adding, removing, refused, died>>

Object == [fwd: Fwds \cup {NoFwd}, active: BOOLEAN, cancelled: BOOLEAN,
           sock: {"none", "open", "closed"}]

Unused == [fwd |-> NoFwd, active |-> FALSE, cancelled |-> FALSE, sock |-> "none"]

NewForward(f) == [Unused EXCEPT !.fwd = f]

-----------------------------------------------------------------------------
(* State formulae. *)

Running == phase # "down"

LockFree == adding = {} /\ removing = {}

\* An object nothing refers to: not in the slice, and no goroutine of its own
\* still holds a socket.
Free(i) == i \notin ToSet(forwards) /\ obj[i].sock # "open"

Bound(a) == \E i \in Ids : obj[i].sock = "open" /\ HostAddr[obj[i].fwd] = a

\* Position k of the slice is the first whose forward Equals f.
IsFirst(k, f) ==
  /\ k \in DOMAIN forwards
  /\ obj[forwards[k]].fwd = f
  /\ \A j \in 1..(k-1) : obj[forwards[j]].fwd # f

ListedFwds == {obj[i].fwd : i \in ToSet(forwards)}

Serving(i) == obj[i].sock = "open" /\ ~obj[i].cancelled

-----------------------------------------------------------------------------
(* settings.PortForwarding: Add, Delete and Save. *)

\* Save writes a temporary file and renames it: the file changes whole or, on
\* any error, not at all, while the list in memory keeps the change.
SaveFails(list) == known' = list /\ UNCHANGED disk
SaveOK(list) == known' = list /\ disk' = list

\* Mutants: the duplicate check of Add is lost; Delete finds nothing.
WithFwdTwice(f) == Append(known, f)
WithoutNothing(f) == known

WithFwd(f) == IF f \in ToSet(known) THEN known ELSE Append(known, f)

Without(f) == RemoveFirst(known, f)

-----------------------------------------------------------------------------
(* Start of the process: NewPortForwarding, Load and Start. *)

\* The settings are read and every one gets an inactive Forward object.
Boot ==
  /\ phase = "down"
  /\ phase' = "starting"
  /\ known' = disk
  /\ \E ids \in [DOMAIN disk -> Ids] :
       /\ IsInjective(ids)
       /\ forwards' = ids
       /\ obj' = [i \in Ids |->
                    IF \E k \in DOMAIN disk : ids[k] = i
                    THEN NewForward(disk[CHOOSE k \in DOMAIN disk : ids[k] = i])
                    ELSE Unused]
  /\ refused' = {} /\ died' = {}
  /\ UNCHANGED <<disk, adding, removing>>

\* Forward.Activate marks the object active before it listens.  The host
\* address must be unbound in this process.
Activated(i) == [obj[i] EXCEPT !.active = TRUE, !.sock = "open"]

StartOne ==
  /\ phase = "starting"
  /\ \E k \in DOMAIN forwards :
       /\ ~obj[forwards[k]].active
       /\ \A j \in 1..(k-1) : obj[forwards[j]].active
       /\ ~Bound(HostAddr[obj[forwards[k]].fwd])
       /\ obj' = [obj EXCEPT ![forwards[k]] = Activated(forwards[k])]
  /\ UNCHANGED <<phase, forwards, known, disk, adding, removing, refused, died>>

StartDone ==
  /\ phase = "starting"
  /\ \A k \in DOMAIN forwards : obj[forwards[k]].active
  /\ phase' = "up"
  /\ UNCHANGED <<obj, forwards, known, disk, adding, removing, refused, died>>

\* Everything but the file goes with the process.
ProcessGone ==
  /\ phase' = "down"
  /\ obj' = [i \in Ids |-> Unused]
  /\ forwards' = <<>> /\ known' = <<>>
  /\ adding' = {} /\ removing' = {}
  /\ refused' = {} /\ died' = {}
  /\ UNCHANGED disk

\* Listening fails for one forward (its address is bound, here or by another
\* program): Start returns the error and the service does not come up.
StartFails ==
  /\ phase = "starting"
  /\ \E k \in DOMAIN forwards : ~obj[forwards[k]].active
  /\ ProcessGone

\* The process is killed, crashes or halts: no path deactivates the forwards.
Crash == Running /\ ProcessGone

-----------------------------------------------------------------------------
(* Add: persist, then activate, then append to the slice. *)

AddPersist(f) ==
  /\ phase = "up" /\ LockFree
  /\ SaveOK(WithFwd(f))
  /\ adding' = {f}
  /\ UNCHANGED <<phase, obj, forwards, removing, refused, died>>

\* The save fails: Add returns its error, the list in memory keeps f.
AddPersistFails(f) ==
  /\ phase = "up" /\ LockFree
  /\ SaveFails(WithFwd(f))
  /\ refused' = refused \cup {f}
  /\ UNCHANGED <<phase, obj, forwards, adding, removing, died>>

AddActivate(f) ==
  /\ f \in adding
  /\ ~Bound(HostAddr[f])
  /\ \E i \in Ids :
       /\ Free(i)
       /\ obj' = [obj EXCEPT ![i] = [NewForward(f) EXCEPT !.active = TRUE,
                                                          !.sock = "open"]]
       /\ forwards' = Append(forwards, i)
  /\ adding' = {}
  /\ UNCHANGED <<phase, known, disk, removing, refused, died>>

\* Listen (or, for udp, Dial) fails: the error is returned, the object is
\* dropped and the settings keep f.
AddActivateFails(f) ==
  /\ f \in adding
  /\ adding' = {}
  /\ refused' = refused \cup {f}
  /\ UNCHANGED <<phase, obj, forwards, known, disk, removing, died>>

-----------------------------------------------------------------------------
(* Remove: the first Equal entry; nothing happens when there is none. *)

\* p.s.Delete: its error, if any, is dropped.
RemovePersist(f) ==
  /\ phase = "up" /\ LockFree
  /\ \E k \in DOMAIN forwards : IsFirst(k, f)
  /\ SaveOK(Without(f)) \/ SaveFails(Without(f))
  /\ removing' = {f}
  /\ UNCHANGED <<phase, obj, forwards, adding, refused, died>>

\* Mutant: Deactivate forgets to cancel the context.
OnlyInactive(i) == [obj[i] EXCEPT !.active = FALSE]

Deactivated(i) == [obj[i] EXCEPT !.active = FALSE, !.cancelled = TRUE]

\* Mutant: the slice is indexed again after it was shifted.
RemoveEntryShifted(f) ==
  /\ f \in removing
  /\ \E k \in DOMAIN forwards :
       /\ IsFirst(k, f)
       /\ forwards' = RemoveAt(forwards, k)
       /\ LET i == IF k < Len(forwards) THEN forwards[k + 1] ELSE forwards[k]
          IN obj' = [obj EXCEPT ![i] = Deactivated(i)]
  /\ removing' = {}
  /\ UNCHANGED <<phase, known, disk, adding, refused, died>>

\* The entry leaves the slice and Deactivate cancels its context.
RemoveEntry(f) ==
  /\ f \in removing
  /\ \E k \in DOMAIN forwards :
       /\ IsFirst(k, f)
       /\ forwards' = RemoveAt(forwards, k)
       /\ obj' = [obj EXCEPT ![forwards[k]] = Deactivated(forwards[k])]
  /\ removing' = {}
  /\ UNCHANGED <<phase, known, disk, adding, refused, died>>

-----------------------------------------------------------------------------
(* The goroutines of an active forward. *)

\* <-f.Ctx.Done(), then close: some time after the context is cancelled.
CloseListener(i) ==
  /\ obj[i].sock = "open" /\ obj[i].cancelled
  /\ obj' = [obj EXCEPT ![i].sock = "closed"]
  /\ UNCHANGED <<phase, forwards, known, disk, adding, removing, refused, died>>

\* tcp: Accept returns an error; the loop cancels the context and ends.
AcceptFails(i) ==
  /\ Serving(i) /\ obj[i].fwd \notin UdpFwds
  /\ obj' = [obj EXCEPT ![i].cancelled = TRUE]
  /\ died' = died \cup {obj[i].fwd}
  /\ UNCHANGED <<phase, forwards, known, disk, adding, removing, refused>>

\* udp: the copy to the guest ends (a write is refused); the deferred calls
\* close the socket, and the forward's own context is not cancelled.
StreamEnds(i) ==
  /\ Serving(i) /\ obj[i].fwd \in UdpFwds
  /\ obj' = [obj EXCEPT ![i].sock = "closed"]
  /\ died' = died \cup {obj[i].fwd}
  /\ UNCHANGED <<phase, forwards, known, disk, adding, removing, refused>>

-----------------------------------------------------------------------------
Init ==
  /\ phase = "down"
  /\ obj = [i \in Ids |-> Unused]
  /\ forwards = <<>> /\ known = <<>> /\ disk = <<>>
  /\ adding = {} /\ removing = {} /\ refused = {} /\ died = {}

Request ==
  \E f \in Fwds :
    \/ AddPersist(f) \/ AddPersistFails(f) \/ AddActivate(f) \/ AddActivateFails(f)
    \/ RemovePersist(f) \/ RemoveEntry(f)

Goroutine == \E i \in Ids : CloseListener(i) \/ AcceptFails(i) \/ StreamEnds(i)

Next == Boot \/ StartOne \/ StartDone \/ StartFails \/ Crash \/ Request \/ Goroutine

Spec == Init /\ [][Next]_vars

-----------------------------------------------------------------------------
(* Properties. *)

\* The variables hold the values their declarations say.
TypeOK ==
  /\ phase \in {"down", "starting", "up"}
  /\ obj \in [Ids -> Object]
  /\ forwards \in Seq(Ids)
  /\ known \in Seq(Fwds)
  /\ disk \in Seq(Fwds)
  /\ adding \in SUBSET Fwds
  /\ removing \in SUBSET Fwds
  /\ refused \in SUBSET Fwds
  /\ died \in SUBSET Fwds

\* A forward in the settings is one the service lists, unless an Add for it
\* is under way or reported an error: Add persists before it activates and
\* never takes the settings entry back (port_forwarding.go, Add).
OrphansWereRefused ==
  Running => \A f \in ToSet(known) : f \in ListedFwds \cup adding \cup refused

\* A listed forward survives a restart: it is in the settings file, unless its
\* Remove is under way, or its socket died and a second Add of the same
\* forward left two entries of which one was removed.
ListedAreDurable ==
  \A f \in ListedFwds : f \in ToSet(disk) \cup removing \cup died

\* A listed forward is served: once the service is up, every entry's socket is
\* open and stays so, unless it died on its own (accept loop, udp stream).
ListedAreServed ==
  phase = "up" => \A i \in ToSet(forwards) : Serving(i) \/ obj[i].fwd \in died

\* Two settings entries for one host address stop the next start of the
\* service (Start fails on the second).  They only arise from an Add that was
\* refused, is under way, or found the address free because a socket died.
ConflictsHaveCause ==
  phase = "up" =>
    \A f, g \in ToSet(known) :
      f # g /\ HostAddr[f] = HostAddr[g] => {f, g} \cap (refused \cup died \cup adding) # {}

\* Start can bind every forward it has not reached yet when the settings name
\* each host address once: it never trips over its own sockets.
OnlyConflictsBlockStart ==
  (phase = "starting" /\ \A f, g \in ToSet(disk) : HostAddr[f] = HostAddr[g] => f = g)
    => \A i \in ToSet(forwards) : ~obj[i].active => ~Bound(HostAddr[obj[i].fwd])

\* No listener outlives its entry unnoticed: an open socket has an entry or a
\* cancelled context whose goroutine will close it.
NoLeakedListener ==
  \A i \in Ids : obj[i].sock = "open" => i \in ToSet(forwards) \/ obj[i].cancelled

-----------------------------------------------------------------------------
(* The inductive invariant behind the safety properties. *)

\* Slices and settings lists name nothing twice.
NoRepeats == IsInjective(known) /\ IsInjective(disk) /\ IsInjective(forwards)

\* The mutex has one holder; what it persisted is still there.
LockInv ==
  /\ adding = {} \/ removing = {}
  /\ \A f, g \in adding \cup removing : f = g
  /\ adding \cup removing # {} => phase = "up"
  /\ adding \subseteq ToSet(known) \cap ToSet(disk)
  /\ removing \cap ToSet(known) = {}

\* Open sockets belong to real forwards and never share an address.
SocketInv ==
  /\ \A i \in Ids : i \in ToSet(forwards) \/ obj[i].sock = "open" => obj[i].fwd \in Fwds
  /\ \A i, j \in Ids :
       /\ obj[i].sock = "open" /\ obj[j].sock = "open"
       /\ HostAddr[obj[i].fwd] = HostAddr[obj[j].fwd]
       => i = j

\* Listed forwards are in both lists, two entries of one forward mean that its
\* socket died, and an entry is inactive only before Start reaches it.
EntryInv ==
  /\ \A i \in ToSet(forwards) :
       /\ obj[i].fwd \in removing \cup died \cup (ToSet(known) \cap ToSet(disk))
       /\ obj[i].active => Serving(i) \/ obj[i].fwd \in died
       /\ ~obj[i].active => phase = "starting" /\ obj[i].sock = "none" /\ ~obj[i].cancelled
  /\ \A i, j \in ToSet(forwards) : obj[i].fwd = obj[j].fwd => i = j \/ obj[i].fwd \in died

\* Until the service is up nothing has been added, removed or refused.
PhaseInv ==
  /\ phase = "starting" =>
       /\ known = disk
       /\ \A i \in Ids : obj[i].sock = "open" => i \in ToSet(forwards)
       /\ \A i, j \in ToSet(forwards) : obj[i].fwd = obj[j].fwd => i = j
       /\ \A i \in ToSet(forwards) : obj[i].fwd \in ToSet(disk)
  /\ phase = "down" => /\ forwards = <<>> /\ known = <<>>
                       /\ \A i \in Ids : obj[i].sock # "open"

IInv ==
  /\ TypeOK /\ NoRepeats /\ LockInv /\ SocketInv /\ EntryInv /\ PhaseInv
  /\ OrphansWereRefused /\ NoLeakedListener
=============================================================================
