SPECIFICATION Spec
CONSTANTS
  Vagrantfiles <- MCVagrantfiles
  Boxes <- MCBoxes
  Delta = "2"
  MaxUps = 3
INVARIANTS
  UpProvidesDisks
PROPERTIES
  NewSlotIsFree
  DefinedDiskKeepsItsFile
