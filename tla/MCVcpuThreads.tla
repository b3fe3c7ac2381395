--------------------------- MODULE MCVcpuThreads ---------------------------
(* Two vCPUs; the NMI, the resizing, and the guest that reads the hotplug  *)
(* controller and ends its threads are checked one at a time.              *)
EXTENDS VcpuThreads

OneAtATime == {{"nmi"}, {"hotplug", "exit"}, {"resize"}}
=============================================================================
