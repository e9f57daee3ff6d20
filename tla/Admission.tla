------------------------------ MODULE Admission ------------------------------
(***************************************************************************)
(* What the SSH scheduler promises the transports, without its queues, its *)
(* lock and its counters: a call owns at most one lease, a lease is opened *)
(* only while the limits of host/transport/scheduler.py leave room for it, *)
(* and it is closed once.                                                  *)
(***************************************************************************)
EXTENDS Integers, FiniteSets

CONSTANTS
  Calls,                  \* uses of the scheduler
  Devices,                \* device identifiers
  NoLease,                \* a call without a lease
  GlobalLimit,            \* leases in total
  DeviceLimit,            \* leases per device
  BackgroundDeviceLimit   \* background leases per device

ASSUME AdmissionAssumption ==
  /\ IsFiniteSet(Calls)
  /\ GlobalLimit \in Nat
  /\ DeviceLimit \in Nat
  /\ BackgroundDeviceLimit \in Nat
  /\ NoLease \notin [device : Devices, workload : {"foreground", "background"}]

VARIABLE lease  \* the device and workload of each call's lease, or NoLease

Requests == [device : Devices, workload : {"foreground", "background"}]

Owners == {c \in Calls : lease[c] # NoLease}
OwnersOf(d) == {c \in Owners : lease[c].device = d}
BackgroundOwnersOf(d) == {c \in OwnersOf(d) : lease[c].workload = "background"}

(* There is room for one more lease for request r.                         *)
Fits(r) ==
  /\ Cardinality(Owners) < GlobalLimit
  /\ Cardinality(OwnersOf(r.device)) < DeviceLimit
  /\ r.workload = "background" =>
       Cardinality(BackgroundOwnersOf(r.device)) < BackgroundDeviceLimit

Init == lease = [c \in Calls |-> NoLease]

(* acquire succeeds. *)
Open(c, r) ==
  /\ lease[c] = NoLease
  /\ Fits(r)
  /\ lease' = [lease EXCEPT ![c] = r]

(* The first Lease.release of a lease. *)
Close(c) ==
  /\ lease[c] # NoLease
  /\ lease' = [lease EXCEPT ![c] = NoLease]

Next == \E c \in Calls : Close(c) \/ \E r \in Requests : Open(c, r)

Spec == Init /\ [][Next]_lease

-----------------------------------------------------------------------------
TypeOK == lease \in [Calls -> Requests \cup {NoLease}]

(* The leases respect the limits.                                          *)
WithinLimits ==
  /\ Cardinality(Owners) <= GlobalLimit
  /\ \A d \in Devices :
       /\ Cardinality(OwnersOf(d)) <= DeviceLimit
       /\ Cardinality(BackgroundOwnersOf(d)) <= BackgroundDeviceLimit
=============================================================================
