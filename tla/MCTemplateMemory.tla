-------------------------- MODULE MCTemplateMemory --------------------------
(* Instances of TemplateMemory for TLC. *)
EXTENDS TemplateMemory, TLC

CONSTANTS c1, c2, t1, t2, t3

(* One client with one thread: the configuration of the demo. *)
OwnerOne == t1 :> c1
(* Two clients with a thread each. *)
OwnerPeers == t1 :> c1 @@ t2 :> c2
(* A client with two threads and a client with one. *)
OwnerMixed == t1 :> c1 @@ t2 :> c1 @@ t3 :> c2

(* A base layer, and a delta that has page 1 again; page 2 is in neither. *)
BaseAndDelta == <<{0, 1}, {1}>>
BaseOnly == <<{0}>>
=============================================================================
