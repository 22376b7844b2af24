----------------------------- MODULE DurableMap -----------------------------
(***************************************************************************)
(* What the key-value store of td/ promises its users: a map whose recent  *)
(* versions may be lost by a restart, but only the recent ones.  The map   *)
(* that comes back is one the store had, never a mixture of two, and it is *)
(* no older than the last version that was acknowledged as saved.          *)
(***************************************************************************)
EXTENDS Naturals, Sequences

CONSTANTS Maps,   \* the maps the store may hold
          Empty   \* the map of a new store

VARIABLES versions,    \* the maps held since the last start, the current one last
          acked,       \* the newest of them that is known to be saved
          destroying   \* the user has asked for the store to be destroyed

vars == <<versions, acked, destroying>>

\* Every variable keeps its type.
TypeOK ==
    /\ versions \in Seq(Maps) /\ versions # <<>>
    /\ acked \in 1 .. Len(versions)
    /\ destroying \in BOOLEAN

Init == versions = <<Empty>> /\ acked = 1 /\ destroying = FALSE

\* The map changes, one entry after another: each entry makes a version.
Change ==
    /\ versions' \in Seq(Maps) /\ Len(versions') > Len(versions)
    /\ SubSeq(versions', 1, Len(versions)) = versions
    /\ UNCHANGED <<acked, destroying>>

Acknowledge == acked' \in acked .. Len(versions) /\ UNCHANGED <<versions, destroying>>

\* The process stops and the store is opened again.
Restart ==
    /\ \E i \in acked .. Len(versions) : versions' = <<versions[i]>>
    /\ acked' = 1 /\ destroying' = FALSE

AskDestroy == destroying' = TRUE /\ UNCHANGED <<versions, acked>>
Destroy == destroying /\ versions' = <<Empty>> /\ acked' = 1 /\ destroying' = FALSE

Next == Change \/ Acknowledge \/ Restart \/ AskDestroy \/ Destroy

Spec == Init /\ [][Next]_vars
=============================================================================
