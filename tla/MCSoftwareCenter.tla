-------------------------- MODULE MCSoftwareCenter --------------------------
(***************************************************************************)
(* Small instances of SoftwareCenter for TLC.                              *)
(***************************************************************************)
EXTENDS SoftwareCenterProps, TLC

CONSTANTS web, db, ngx, tls

\* A two-package component and an application that needs one of its packages.
WebPackagesOf == (web :> {ngx, tls})
WebRivalsOf == (web :> {})

\* One package per component, where the processes are what matters.
TinyPackagesOf == (web :> {ngx})

Symmetry == Permutations(Requests) \cup Permutations(Tokens)
            \cup Permutations(Procs) \cup Permutations(Pids)

\* Two components that share a package, found on a host that has it already;
\* the second cannot coexist with the other package of the first.
SharedPackagesOf == (web :> {ngx, tls} @@ db :> {ngx})
SharedRivalsOf == (web :> {} @@ db :> {tls})

BareHost == [q \in Packages |-> "absent"]
PartHost == [q \in Packages |-> IF q = ngx THEN "old" ELSE "absent"]
=============================================================================
