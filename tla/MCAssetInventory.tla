---------------------------- MODULE MCAssetInventory ----------------------------
(***************************************************************************)
(* AssetInventory for TLC: one organization with an assessment of a domain *)
(* and an assessment of a host below it, so that this host is declared in  *)
(* one and discovered in the other, next to a host only discovered.        *)
(***************************************************************************)
EXTENDS AssetInventory

CONSTANTS domain, child, domainHost, childHost, otherHost

MCAssessments == {domain, child}
MCHosts == {domainHost, childHost, otherHost}
MCRoot == [a \in MCAssessments |-> IF a = domain THEN domainHost ELSE childHost]
MCBelow == [a \in MCAssessments |-> IF a = domain THEN {childHost, otherHost}
                                                  ELSE {}]
================================================================================
