--------------------------- MODULE MCHostRegistry ---------------------------
(* HostRegistry with the bodies of PUT requests that matter: a password    *)
(* set and cleared, a new address, a type that is refused, a key that is   *)
(* not there.                                                              *)
EXTENDS HostRegistry

Body(pw, addr, kind, key) == [pw |-> pw, addr |-> addr, kind |-> kind, key |-> key]

Bodies == {Body("text", 0, "keep", "found"), Body("none", 2, "keep", "lost"),
           Body("keep", 2, "bad", "found")}

(* The boards are there from the start, saved without a password. *)
Files == {[d \in Devices |-> [pw |-> "none", addr |-> 1, kind |-> "ssh"]]}
=============================================================================
