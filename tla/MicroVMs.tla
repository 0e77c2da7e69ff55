------------------------------ MODULE MicroVMs ------------------------------
(***************************************************************************)
(* pkg/runtime/container/driver.go over the apple/container CLI: the       *)
(* micro-VMs of one host, by workload ID.                                  *)
(*                                                                         *)
(* Every operation holds the ID's keyed mutex around one CLI command, so   *)
(* each is one atomic action; a command that fails changes nothing and is  *)
(* the caller's choice between the action and its error path.  phaseFor    *)
(* reduces the CLI's state, start time and exit code to the phases below.  *)
(* The VM's host-only address comes from vmnet's DHCP server when it boots *)
(* and is gone while it is not running.                                    *)
(***************************************************************************)
EXTENDS Integers

CONSTANTS IDs,        \* workload IDs
          NumAddrs    \* size of vmnet's DHCP lease pool

VARIABLE vms          \* vms[id]: phase, leased address, the spec it was built from

\* "none": the runtime knows no workload of that ID (ErrNotFound).
Phases == {"none", "created", "running", "stopped", "failed"}

Missing == [phase |-> "none", addr |-> 0, spec |-> 0]

Exists(id) == vms[id].phase # "none"

\* rs.IP of Status: only a running VM has an address.
HasAddr(id) == vms[id].phase = "running"

\* Create is idempotent: an existing workload of that name is the answer.
Create(id, spec) ==
  IF Exists(id)
    THEN UNCHANGED vms
    ELSE vms' = [vms EXCEPT ![id].phase = "created", ![id].spec = spec]

\* Start boots a VM that is not running; the lease is any address.
CanStart(id) == Exists(id)

Start(id) ==
  IF vms[id].phase = "running"
    THEN UNCHANGED vms
    ELSE \E a \in 0 .. NumAddrs - 1 :
           vms' = [vms EXCEPT ![id].phase = "running", ![id].addr = a]

Halts(id, ph) == vms' = [vms EXCEPT ![id].phase = ph, ![id].addr = 0]

\* Stop: a VM that is missing or not running is left as it is.  The guest's
\* exit code decides between stopped and failed.
Stop(id) ==
  IF vms[id].phase = "running"
    THEN \E ph \in {"stopped", "failed"} : Halts(id, ph)
    ELSE UNCHANGED vms

\* Destroy is forced and tolerates a missing workload.
Destroy(id) == vms' = [vms EXCEPT ![id] = Missing]

\* The guest ends on its own, with exit code zero or another.
Exit(id) ==
  /\ vms[id].phase = "running"
  /\ \E ph \in {"stopped", "failed"} : Halts(id, ph)

Init == vms = [id \in IDs |-> Missing]

VMTypeOK(Specs) ==
  vms \in [IDs -> [phase : Phases, addr : 0 .. NumAddrs - 1, spec : Specs \cup {0}]]
=============================================================================
