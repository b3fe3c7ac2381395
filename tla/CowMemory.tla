----------------------------- MODULE CowMemory -----------------------------
(***************************************************************************)
(* What a client of the template memory is promised: a private memory of   *)
(* its own whose initial content is the template.  A write changes one     *)
(* cell of the writer's client only; a read returns what the reader's      *)
(* client last wrote there, or the template.  There are no faults, no      *)
(* page cache and no handler: they are how the promise is kept.            *)
(***************************************************************************)
CONSTANTS
  Clients,    (* the processes                                             *)
  Threads,    (* their application threads; a thread writes its own name   *)
  Owner,      (* the client a thread runs in                               *)
  Pages,      (* page indices                                              *)
  Offsets,    (* cells of a page                                           *)
  Template,   (* the content of every page before anybody writes           *)
  NoRead      (* result of a thread that has read nothing yet              *)

VARIABLES
  mem,        (* mem[c][p][o]: the memory of client c                      *)
  res         (* res[t]: the value thread t read last                      *)

vars == <<mem, res>>

Init ==
  /\ mem = [c \in Clients |-> Template]
  /\ res = [t \in Threads |-> NoRead]

Read(t, p, o) ==
  /\ res' = [res EXCEPT ![t] = mem[Owner[t]][p][o]]
  /\ UNCHANGED mem

Write(t, p, o) ==
  /\ mem' = [mem EXCEPT ![Owner[t]][p][o] = t]
  /\ UNCHANGED res

Next ==
  \E t \in Threads, p \in Pages, o \in Offsets : Read(t, p, o) \/ Write(t, p, o)

Spec == Init /\ [][Next]_vars
=============================================================================
