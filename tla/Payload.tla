------------------------------- MODULE Payload -------------------------------
(***************************************************************************)
(* What the service promises about the data it handles, and nothing about  *)
(* how: a torrent's payload is copied while its source exists, an existing *)
(* copy may be replaced only while the source exists, and the source is    *)
(* given up only once a complete copy is at the destination.               *)
(***************************************************************************)
CONSTANT Torrents

VARIABLES
    source,     \* torrents whose payload is still at the watch source
    delivered   \* torrents with a complete copy at their destination

vars == <<source, delivered>>

Init ==
    /\ source = Torrents
    /\ delivered = {}

(* A complete copy of t appears at the destination.                        *)
Deliver(t) ==
    /\ t \in source
    /\ delivered' = delivered \cup {t}
    /\ UNCHANGED source

(* The copy of t is taken away to be written again.                        *)
Replace(t) ==
    /\ t \in source
    /\ delivered' = delivered \ {t}
    /\ UNCHANGED source

(* The source of t is deleted: by a move, or by trashing a copied torrent. *)
Discard(t) ==
    /\ t \in delivered
    /\ source' = source \ {t}
    /\ UNCHANGED delivered

(* Both at once: the payload of t is renamed to its destination.           *)
Relocate(t) ==
    /\ t \in source
    /\ delivered' = delivered \cup {t}
    /\ source' = source \ {t}

Next == \E t \in Torrents :
            Deliver(t) \/ Replace(t) \/ Discard(t) \/ Relocate(t)

Spec == Init /\ [][Next]_vars

=============================================================================
