---------------------------- MODULE MCConfigStore ----------------------------
(***************************************************************************)
(* Instances of ConfigStore for TLC.                                       *)
(***************************************************************************)
EXTENDS ConfigStore, TLC

CONSTANTS r1, r2, host, p1, p2

Save(s, updates) == [section |-> s, updates |-> updates]

MCSaves ==
    {Save("source", [kind |-> "local", host |-> Empty]),
     Save("source", [kind |-> "ssh", host |-> host]),
     Save("source", [kind |-> "ssh", host |-> host, password |-> p1]),
     Save("source", [kind |-> "ssh", host |-> host, password |-> p2]),
     Save("remap", [source_prefix |-> "a", target_prefix |-> "b"])}

(* A behaviour is followed as long as no SSH source and remote destination *)
(* have been saved at once, after which NoRemoteToRemote says nothing, and *)
(* rules and the remapping of paths, which do not meet, are not combined.  *)
Rules == \/ Used(rules) # {}
         \/ \E r \in Requests : SavesRule(r)
Remaps == \/ config.app # NoRow /\ config.app.source_prefix # Empty
          \/ Saving("remap") # {}
Focus == ~crossed /\ ~(Rules /\ Remaps)

Interchangeable == Permutations(Requests) \cup Permutations({p1, p2})
=============================================================================
