-------------------------------- MODULE Disks --------------------------------
(***************************************************************************)
(* The disks and dvds of a machine, brought in line with the Vagrantfile   *)
(* by every "up".                                                          *)
(*                                                                         *)
(*   cap/disk.rb     cleanup_disks, configure_disks and their helpers      *)
(*   driver/base.rb  the calls of vdiskmanager, the edits of the vmx file  *)
(*                                                                         *)
(* Vagrant calls cleanup_disks with what the last up that got through      *)
(* reported, then configure_disks, and stores what that one reports.  An   *)
(* up may end between any two steps, and nothing is undone.                *)
(*                                                                         *)
(* A file is named by the parts of its name: the disk "data" is <<"data">> *)
(* and "data-1" is <<"data", "1">>.  VMware names the delta of a snapshot  *)
(* after its parent with one more number.  Split and flat vmdk files,      *)
(* device types and adapter types are left out.                            *)
(***************************************************************************)
EXTENDS Naturals, Sequences, FiniteSets, SequencesExt

CONSTANTS
  Vagrantfiles, \* the lists of disks a user may define
  Boxes,        \* what an import may leave: vmx file, disks, linked or not
  Delta,        \* the number behind the name of a delta
  MaxUps        \* bound: how often up is run

\* The buses in the order of their keys; the first stands for no bus at all.
Buses == <<"", "ide", "nvme", "sata", "scsi">>
NoBus == ""
NoFile == <<>>

Slots == ToSet(Buses) \X Nat \X Nat

Entries == [slot: Slots, file: Seq(STRING)]

\* A disk as the Vagrantfile defines it.
Config == [name: Seq(STRING) \ {NoFile}, type: {"disk", "dvd"}, primary: BOOLEAN, given: BOOLEAN,
           bus: ToSet(Buses) \ {NoBus}, size: Nat]

\* A key of the vmx file names one slot, and an ide bus has two of them.
OneEntryPerSlot(entries) ==
  \A i, k \in DOMAIN entries : entries[i].slot = entries[k].slot => i = k

IdeHasTwo(entries) == \A e \in ToSet(entries) : e.slot[1] = "ide" => e.slot[3] \in {0, 1}

ASSUME DisksAssumption ==
  /\ Vagrantfiles \subseteq Seq(Config)
  /\ \A b \in Boxes : b.vmx \in Seq(Entries) /\ OneEntryPerSlot(b.vmx) /\ IdeHasTwo(b.vmx)
  /\ Delta \in STRING /\ MaxUps \in Nat

VARIABLES
  vmx,     \* the disk entries of the vmx file, in its order
  files,   \* files[f]: the size of vmdk file f in the directory of the machine
  linked,  \* is_linked_clone?
  snapped, \* is there a snapshot?
  defined, \* defined_disks
  meta,    \* the report that Vagrant has stored
  up,      \* the up under way
  ups,     \* how many have begun
  mistaken \* history: a disk was once found under another one's name

vars == <<vmx, files, linked, snapped, defined, meta, up, ups, mistaken>>

Entry(slot, file) == [slot |-> slot, file |-> file]

NoUp == [at |-> "idle", todo |-> <<>>, attached |-> <<>>, made |-> [disk |-> <<>>, dvd |-> <<>>]]

Init ==
  /\ \E b \in Boxes : vmx = b.vmx /\ files = b.files /\ linked = b.linked
  /\ snapped = FALSE
  /\ defined = <<>> /\ meta = <<>>
  /\ up = NoUp /\ ups = 0
  /\ mistaken = FALSE

At(label) == up.at = label

\* The disk or the record in hand, and the step after it.
This == Head(up.todo)
NextOne(label) == [up EXCEPT !.at = label, !.todo = Tail(@)]

-----------------------------------------------------------------------------
(* The vmx file.                                                           *)

Position(bus) == CHOOSE i \in DOMAIN Buses : Buses[i] = bus

\* vmx_modify writes the keys sorted.  They sort as text, which is this order
\* as long as the numbers have one digit.
Before(e, f) ==
  \/ Position(e.slot[1]) < Position(f.slot[1])
  \/ /\ e.slot[1] = f.slot[1]
     /\ e.slot[2] < f.slot[2] \/ (e.slot[2] = f.slot[2] /\ e.slot[3] < f.slot[3])

Written(entries) ==
  [i \in 1 .. Cardinality(entries) |->
     CHOOSE e \in entries : Cardinality({f \in entries : Before(f, e)}) = i - 1]

\* The loop of get_disks: entries without a bus match no type.
Matching[i \in 0 .. Len(vmx)] ==
  IF i = 0 THEN <<>>
  ELSE IF vmx[i].slot[1] = NoBus THEN Matching[i - 1] ELSE Append(Matching[i - 1], vmx[i])

GetDisks == Matching[Len(vmx)]

\* The first of some places in a list, or 0.
First(places) == IF places = {} THEN 0 ELSE CHOOSE i \in places : \A k \in places : i <= k

AddDiskToVmx(file, slot) ==
  vmx' = Written({e \in ToSet(vmx) : e.slot # slot} \cup {Entry(slot, file)})

\* The first entry with the file.
RemoveDiskFromVmx(file) ==
  LET i == First({k \in DOMAIN vmx : vmx[k].file = file})
  IN vmx' = IF i = 0 THEN vmx ELSE Written(ToSet(vmx) \ {vmx[i]})

-----------------------------------------------------------------------------
(* The user, and the machine while it runs.                                *)

\* An up with another Vagrantfile.  There is something to clean up when there
\* is a report, whatever is defined now.
BeginUp ==
  /\ At("idle") /\ ups < MaxUps
  /\ ups' = ups + 1
  /\ defined' \in Vagrantfiles
  /\ up' = [NoUp EXCEPT !.at = "cleanup", !.todo = meta]
  /\ UNCHANGED <<vmx, files, linked, snapped, meta, mistaken>>

\* VMware writes the vmx file of a machine that runs in an order of its own;
\* the other way round is the one that matters to a loop over the entries.
Rewrite ==
  /\ At("idle")
  /\ vmx' = Reverse(vmx)
  /\ UNCHANGED <<files, linked, snapped, defined, meta, up, ups, mistaken>>

\* A snapshot: every disk goes on in a delta of its file.
Snapshot ==
  /\ At("idle") /\ ~snapped
  /\ snapped' = TRUE
  /\ LET Child(file) == IF file \in DOMAIN files THEN Append(file, Delta) ELSE file
         new == {Child(e.file) : e \in {x \in ToSet(vmx) : x.file \in DOMAIN files}}
     IN /\ vmx' = [i \in DOMAIN vmx |-> [vmx[i] EXCEPT !.file = Child(@)]]
        /\ files' = [f \in DOMAIN files \cup new |-> IF f \in DOMAIN files THEN files[f] ELSE files[Front(f)]]
  /\ UNCHANGED <<linked, defined, meta, up, ups, mistaken>>

-----------------------------------------------------------------------------
(* cleanup_disks.                                                          *)

IsDefined(name) == \E i \in DOMAIN defined : defined[i].name = name

\* Mutant: only what is not defined any more counts, not what is primary.
SparedIfDefined(r) == IsDefined(r.name)

Spared(r) == r.primary \/ IsDefined(r.name)

CleanUp ==
  /\ At("cleanup") /\ up.todo # <<>>
  /\ IF Spared(This) THEN up' = NextOne("cleanup") ELSE up' = [up EXCEPT !.at = "remove"]
  /\ UNCHANGED <<vmx, files, linked, snapped, defined, meta, ups, mistaken>>

\* remove_disk deletes the file first, when there is one.
RemoveFile ==
  /\ At("remove") /\ This.type = "disk"
  /\ files' = [f \in DOMAIN files \ {This.path} |-> files[f]]
  /\ up' = [up EXCEPT !.at = "unlist"]
  /\ UNCHANGED <<vmx, linked, snapped, defined, meta, ups, mistaken>>

RemoveEntry ==
  /\ At("unlist") \/ (At("remove") /\ This.type = "dvd")
  /\ RemoveDiskFromVmx(This.path)
  /\ up' = NextOne("cleanup")
  /\ UNCHANGED <<files, linked, snapped, defined, meta, ups, mistaken>>

\* configure_disks reads the entries once, and keeps its own list from then on.
BeginConfigure ==
  /\ At("cleanup") /\ up.todo = <<>>
  /\ up' = [NoUp EXCEPT !.at = "configure", !.todo = defined, !.attached = GetDisks]
  /\ UNCHANGED <<vmx, files, linked, snapped, defined, meta, ups, mistaken>>

-----------------------------------------------------------------------------
(* configure_disks.                                                        *)

PrimarySlots == <<<<"nvme", 0, 0>>, <<"scsi", 0, 0>>, <<"sata", 0, 0>>, <<"ide", 0, 0>>>>

\* Mutant: the pattern is not anchored at its end.
NamedFrom(file, name) == IsPrefix(name, file)

\* The name of the disk, or that with a number behind.
NamedAfter(file, name) == file = name \/ (Len(file) = Len(name) + 1 /\ Front(file) = name)

\* The places in the list that suit disk d: for a primary disk the first slot
\* that is present counts, else the first suitable place.
Suits(e, d) ==
  IF d.primary
  THEN LET taken == {i \in DOMAIN PrimarySlots : \E x \in ToSet(up.attached) : x.slot = PrimarySlots[i]}
       IN taken # {} /\ e.slot = PrimarySlots[First(taken)]
  ELSE IF d.type = "dvd" THEN e.file = d.name ELSE NamedAfter(e.file, d.name)

\* get_disk: its index, or 0.
GetDisk(d) == First({i \in DOMAIN up.attached : Suits(up.attached[i], d)})

\* get_disk fails on the entry of a disk attached by its file, whose name is
\* not kept, when it gets there.
GetDiskFails(d) ==
  ~d.primary /\ d.type = "disk" /\ GetDisk(d) = 0 /\ \E e \in ToSet(up.attached) : e.file = NoFile

OnBus(bus, e) == bus = NoBus \/ e.slot[1] = bus

\* The highest slot of the bus, as the loop of get_slot finds it: with no bus
\* the slots of every bus count.
Highest(bus) ==
  LET Upto[i \in 0 .. Len(up.attached)] ==
        IF i = 0 THEN <<0, 0>>
        ELSE LET h == Upto[i - 1]
                 e == up.attached[i]
                 unit == IF e.slot[2] > h[1] THEN 0 ELSE h[2]
             IN IF ~OnBus(bus, e) THEN h
                ELSE <<IF e.slot[2] > h[1] THEN e.slot[2] ELSE h[1],
                       IF e.slot[3] > unit THEN e.slot[3] ELSE unit>>
  IN Upto[Len(up.attached)]

\* Mutant: the second half of an ide bus is counted on the same bus.
SameBusSlot(bus) ==
  LET h == Highest(bus)
  IN IF bus = "ide" THEN <<bus, h[1], (h[2] + 1) % 2>> ELSE <<bus, h[1], h[2] + 1>>

GetSlot(bus) ==
  LET h == Highest(bus)
  IN IF bus = "ide" THEN <<bus, h[1] + (h[2] % 2), (h[2] + 1) % 2>> ELSE <<bus, h[1], h[2] + 1>>

\* What is reported of disk d.
Report(d, path) == [name |-> d.name, type |-> d.type, path |-> path, primary |-> d.primary]
Reported(d, path) == [NextOne("configure") EXCEPT !.made[d.type] = Append(@, Report(d, path))]

\* A new entry, for the vmx file and for the list of this run.
Attached(d, file, kept, slot) ==
  /\ AddDiskToVmx(file, slot)
  /\ up' = [Reported(d, file) EXCEPT !.attached = Append(@, Entry(slot, kept))]

\* get_disk_size, if there is a file.  With none the comparison raises.
Sizes(file) == {files[f] : f \in DOMAIN files \cap {file}}

\* Of a disk that is there only the size may change, and never downwards.
GrowOrKeep ==
  /\ At("configure") /\ up.todo # <<>> /\ GetDisk(This) # 0
  /\ LET file == up.attached[GetDisk(This)].file
     IN /\ \/ This.type = "dvd" /\ files' = files
           \/ \E size \in Sizes(file) :
                IF This.type = "disk" /\ This.size > size /\ ~(This.primary /\ linked)
                THEN ~snapped /\ files' = [files EXCEPT ![file] = This.size]
                ELSE files' = files
        /\ up' = Reported(This, file)
        /\ mistaken' = (mistaken \/ (~This.primary /\ file # This.name /\ Last(file) # Delta))
  /\ UNCHANGED <<vmx, linked, snapped, defined, meta, ups>>

Missing == At("configure") /\ up.todo # <<>> /\ GetDisk(This) = 0 /\ ~GetDiskFails(This) /\ ~This.primary

AttachDvd ==
  /\ Missing /\ This.type = "dvd"
  /\ Attached(This, This.name, This.name, GetSlot(This.bus))
  /\ UNCHANGED <<files, linked, snapped, defined, meta, ups, mistaken>>

\* A disk given by its file: the variable "bus" was never set.
AttachGiven ==
  /\ Missing /\ This.type = "disk" /\ This.given
  /\ Attached(This, This.name, NoFile, GetSlot(NoBus))
  /\ UNCHANGED <<files, linked, snapped, defined, meta, ups, mistaken>>

\* vmware-vdiskmanager -c refuses a name that is taken.
CreateDisk ==
  /\ Missing /\ This.type = "disk" /\ ~This.given
  /\ This.name \notin DOMAIN files
  /\ files' = [f \in DOMAIN files \cup {This.name} |-> IF f = This.name THEN This.size ELSE files[f]]
  /\ up' = [up EXCEPT !.at = "attach"]
  /\ UNCHANGED <<vmx, linked, snapped, defined, meta, ups, mistaken>>

AttachCreated ==
  /\ At("attach")
  /\ Attached(This, This.name, This.name, GetSlot(This.bus))
  /\ UNCHANGED <<files, linked, snapped, defined, meta, ups, mistaken>>

\* Vagrant stores the report, unless nothing was defined.
EndUp ==
  /\ At("configure") /\ up.todo = <<>>
  /\ meta' = IF defined = <<>> THEN meta ELSE up.made.disk \o up.made.dvd
  /\ up' = NoUp
  /\ UNCHANGED <<vmx, files, linked, snapped, defined, ups, mistaken>>

\* A call of vdiskmanager or a helper raises, or the user interrupts: what the
\* run knew is lost.
EndEarly ==
  /\ ~At("idle")
  /\ up' = NoUp
  /\ UNCHANGED <<vmx, files, linked, snapped, defined, meta, ups, mistaken>>

Configure == GrowOrKeep \/ AttachDvd \/ AttachGiven \/ CreateDisk \/ AttachCreated

Next ==
  \/ BeginUp \/ Rewrite \/ Snapshot
  \/ CleanUp \/ RemoveFile \/ RemoveEntry \/ BeginConfigure
  \/ Configure
  \/ EndUp \/ EndEarly

Spec == Init /\ [][Next]_vars

-----------------------------------------------------------------------------
(* Properties.                                                             *)

\* A new disk takes nobody's slot, whatever buses are in use and in whatever
\* order the vmx file lists them (cap/disk.rb:271); only a slot without a bus,
\* which VMware does not know, may be taken twice.
NewSlotIsFree ==
  [][\A e \in ToSet(vmx) :
       e.slot[1] # NoBus /\ Configure => e \in ToSet(vmx')]_vars

\* A disk that is still defined keeps its file, and the primary disk always
\* (cap/disk.rb:88, "If disk is defined or the primary disk, don't remove"),
\* unless a disk was once found under the name of a numbered one.
DefinedDiskKeepsItsFile ==
  [][\A f \in DOMAIN files \ DOMAIN files' :
       ~mistaken => ~IsDefined(f) /\ \A e \in ToSet(vmx) : e.file = f => e.slot # <<"scsi", 0, 0>>]_vars

\* The names under which that can be said of every Vagrantfile and box: no disk
\* is named like the delta of a snapshot, and no disk beside the primary one has
\* the name of the file at scsi0:0 of a box, or of the parent of that file.
PlainNames == \A v \in Vagrantfiles : \A d \in ToSet(v) : Last(d.name) # Delta

SecondDisks(v) == {d \in ToSet(v) : d.type = "disk" /\ ~d.primary}

BoxesApart ==
  \A b \in Boxes, v \in Vagrantfiles : \A e \in ToSet(b.vmx), d \in SecondDisks(v) :
    e.slot = <<"scsi", 0, 0>> => e.file # d.name /\ e.file # Append(d.name, Delta)

\* Every disk that an up which gets through has to provide is then an entry of
\* the vmx file with a file behind it, whatever earlier runs left half done.
UpProvidesDisks ==
  At("configure") /\ up.todo = <<>> =>
    \A d \in ToSet(defined) :
      d.type = "disk" /\ ~d.given =>
        \E e \in ToSet(vmx) :
          /\ e.slot[1] # NoBus /\ e.file \in DOMAIN files
          /\ IF d.primary THEN e.slot \in ToSet(PrimarySlots) ELSE e.file = d.name \/ Front(e.file) = d.name
=============================================================================
