--------------------------- MODULE DriverSelection ---------------------------
(***************************************************************************)
(* Which driver the utility works with, settled once, when it starts.      *)
(*                                                                         *)
(*   command/rest_api.go   buildRestApi                                    *)
(*   driver/core.go        CreateDriver, IsProfessional, Normalize         *)
(*   driver/vmrest.go      NewVmrestDriver                                 *)
(*                                                                         *)
(* Versions and licenses are the classes that the code tells apart.  When  *)
(* VMware says nothing of itself, or a driver cannot be made, the utility  *)
(* does not start.                                                         *)
(***************************************************************************)

\* runtime.GOOS: all that are not named have the driver of "linux".
Platforms == {"windows", "darwin", "linux"}

\* "e.x.p" is an experimental build; of the others the major version counts.
Versions == {"e.x.p", "unreadable", "below 10", "10 or above"}

\* What vmx -v reports or the user puts in its place; "pro" stands for any
\* license with pro, workstation or ws in its name.
Licenses == {"professional", "standard", "", "pro", "other"}

IsProfessional(license) == license \in {"professional", "", "pro"}

\* NewBaseDriver keeps the license in one of two forms.
Normalize(license) == IF IsProfessional(license) THEN "professional" ELSE "standard"

CreateDriver(os, version) ==
  IF os = "windows" \/ (os = "darwin" /\ version \in {"e.x.p", "10 or above"})
  THEN "advanced" ELSE "simple"

\* drv, or the vmrest driver in front of it: vmrest must start and list the
\* networks, for the license alone is not always right.
NewVmrestDriver(drv, license, works) ==
  IF IsProfessional(license) /\ works THEN "vmrest" ELSE drv

\* A driver that the user asks for by name is not upgraded.
BuildDriver(name, os, version, license, works) ==
  IF name \in {"simple", "advanced"} THEN name
  ELSE NewVmrestDriver(CreateDriver(os, version), Normalize(license), works)

\* The drivers that the vmrest driver may have behind it.
Fallbacks ==
  {CreateDriver(x[1], x[2]) :
     x \in {y \in Platforms \X Versions :
              \E name \in {"", "simple", "advanced"}, license \in Licenses, works \in BOOLEAN :
                BuildDriver(name, y[1], y[2], license, works) = "vmrest"}}
=============================================================================
