------------------------ MODULE MCTransmissionClient ------------------------
(***************************************************************************)
(* Instances of TransmissionClient for TLC.                                *)
(***************************************************************************)
EXTENDS TransmissionClient, TLC

CONSTANTS e1, e2, w1, t1, t2, la, lb

(* Edits and a transfer touch different things of the daemon: they are     *)
(* followed one after the other, in any order, and not at once.            *)
Focus == \/ \A c \in Editors : call[c] = Idle
         \/ \A c \in Workers : call[c] = Idle

Interchangeable == Permutations(Editors) \cup Permutations(Torrents)
                   \cup Permutations(Labels)
=============================================================================
