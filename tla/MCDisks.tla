------------------------------- MODULE MCDisks -------------------------------
(***************************************************************************)
(* A box with one disk, alone or with a second one and a dvd on ide buses. *)
(* Vagrantfiles define the primary disk, disks on scsi and ide buses, one  *)
(* of them with the number of a snapshot in its name, a dvd and a disk     *)
(* given by its file.                                                      *)
(***************************************************************************)
EXTENDS Disks

Disk(name, bus, size) ==
  [name |-> name, type |-> "disk", primary |-> FALSE, given |-> FALSE, bus |-> bus, size |-> size]
Primary == [Disk(<<"box">>, "scsi", 2) EXCEPT !.primary = TRUE]
Given == [Disk(<<"other">>, "scsi", 1) EXCEPT !.given = TRUE]
Dvd == [Disk(<<"iso">>, "ide", 1) EXCEPT !.type = "dvd"]
Data(n) == Disk(<<"data">>, "scsi", n)
Data1 == Disk(<<"data", "1">>, "scsi", 1)
Ide == Disk(<<"slow">>, "ide", 1)

MCVagrantfiles ==
  {<<>>, <<Primary, Data(1)>>, <<Data(2), Data1>>, <<Data1, Ide>>, <<Ide, Dvd, Given>>}

Box == Entry(<<"scsi", 0, 0>>, <<"box">>)
Second(n) == Entry(<<"ide", n, 0>>, <<"swap">>)
BoxDvd == Entry(<<"ide", 0, 1>>, <<"tools">>)

MCBoxes ==
  {[vmx |-> <<Box>>, files |-> [f \in {<<"box">>} |-> 1], linked |-> TRUE],
   [vmx |-> <<BoxDvd, Second(1), Box>>, files |-> [f \in {<<"box">>, <<"swap">>} |-> 1], linked |-> FALSE]}

\* The names here are such that no disk may lose its file (see Disks_proofs).
ASSUME NamesAssumption == PlainNames /\ BoxesApart
=============================================================================
