------------------------------ MODULE MCBackups ------------------------------
(***************************************************************************)
(* Two sites in the layout SiteService gives them by default, where every  *)
(* document root /var/www/<domain>/public_html has a parent of its own.    *)
(***************************************************************************)
EXTENDS Backups
CONSTANTS s1, s2
TwoSites == <<s1, s2>>
OwnParent == [s \in Sites |-> s]
=============================================================================
