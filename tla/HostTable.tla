----------------------------- MODULE HostTable -----------------------------
(***************************************************************************)
(* What the rest of the origin relies on about the registry's HOSTS table: *)
(* a host appears as pending, may become active, and is neither removed    *)
(* nor demoted.  Broker takes these steps as they are.  The one thing that *)
(* could do otherwise, the sweep for stale hosts, is a step of its own     *)
(* beside Next, since nothing in the program calls it; Registry shows how  *)
(* all of them come about.                                                 *)
(***************************************************************************)
CONSTANT Hosts
VARIABLE hosts   \* host -> "absent", "pending" or "active"

HostStatus == {"absent", "pending", "active"}

Init == hosts = [h \in Hosts |-> "absent"]

\* registry::register of a new host; a known one keeps its status.
Register(h) ==
    /\ hosts[h] = "absent"
    /\ hosts' = [hosts EXCEPT ![h] = "pending"]

\* The registry::heartbeat that completes a host's slow admission.
Admit(h) ==
    /\ hosts[h] = "pending"
    /\ hosts' = [hosts EXCEPT ![h] = "active"]

Next == \E h \in Hosts : Register(h) \/ Admit(h)

Spec == Init /\ [][Next]_hosts

\* registry::evict_stale, on the active hosts it finds stale.
Demote(stale) ==
    hosts' = [h \in Hosts |-> IF h \in stale THEN "pending" ELSE hosts[h]]
=============================================================================
