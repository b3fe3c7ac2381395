--------------------------- MODULE TemplateServer ---------------------------
(***************************************************************************)
(* The page service of uffd-cow-gpt/src/main.rs (serve_template), as one   *)
(* connection of it: the accept loop that starts the connection's thread,  *)
(* the thread that answers page requests, and the metrics it keeps.        *)
(*                                                                         *)
(* The module is composed with its client in RestoreHandler: req and rsp   *)
(* are the two directions of the Unix socket.  A request carries an offset *)
(* and a length, which name a page of the client; a reply carries a status *)
(* and that page.  The service's own pages are base pages, and a client's  *)
(* page, when it is a huge page, covers several of them.                   *)
(***************************************************************************)
EXTENDS Integers, Sequences, FiniteSets

CONSTANTS
  Pages,            (* the client's pages of the memory-ranges file        *)
  Request,          (* Request[p]: the offset and len that ask for page p  *)
  ServicePageSize,  (* the service's page_size, in the unit of the offsets *)
  Failures,         (* which calls may fail in this instance               *)
  NoPage            (* nothing is in flight                                *)

ASSUME ServiceConstants ==
  Request \in [Pages -> [offset : Nat, len : Nat]] /\ ServicePageSize \in Nat

VARIABLES
  srv,        (* the connection: "listening", "idle", "record",            *)
              (* "record_error" or, when the stream is closed, "gone"      *)
  cur,        (* the page the connection's thread works on                 *)
  req,        (* the page asked for, NoPage when no request is unread      *)
  rsp,        (* the reply the client can read: "none", or status and page *)
  metrics     (* page_requests, request_errors and unique_pages_seen       *)

service == <<srv, cur, req, rsp, metrics>>

NoReply == [status |-> "none", page |-> NoPage]

ServiceTypeOK ==
  /\ srv \in {"listening", "idle", "record", "record_error", "gone"}
  /\ cur \in Pages \cup {NoPage}
  /\ req \in Pages \cup {NoPage}
  /\ rsp \in [status : {"none", "ok", "error"}, page : Pages \cup {NoPage}]
  /\ metrics \in [requests : Nat, errors : Nat, unique : SUBSET Nat]

ServiceInit ==
  /\ srv = "listening"
  /\ cur = NoPage
  /\ req = NoPage
  /\ rsp = NoReply
  /\ metrics = [requests |-> 0, errors |-> 0, unique |-> {}]

(* record_connection and File::open, then the thread. *)
Accept ==
  /\ srv = "listening"
  /\ srv' = "idle"
  /\ UNCHANGED <<cur, req, rsp, metrics>>

(* Read a request, read the file at its offset, and write the reply. *)
ServePage ==
  /\ srv = "idle" /\ req # NoPage
  /\ cur' = req
  /\ req' = NoPage
  /\ \/ srv' = "record" /\ rsp' = [status |-> "ok", page |-> req]
     \/ /\ "serve" \in Failures
        /\ srv' = "record_error"
        /\ rsp' = [status |-> "error", page |-> NoPage]
  /\ UNCHANGED metrics

(* The base pages record_unique_pages inserts for a request. *)
record_unique_pages(r) ==
  IF r.len = 0 \/ ServicePageSize = 0
  THEN {}
  ELSE r.offset \div ServicePageSize .. (r.offset + r.len - 1) \div ServicePageSize

(* Mutant: one page is noted, however long the request. *)
RecordFirstPage ==
  /\ srv = "record"
  /\ metrics' = [metrics EXCEPT !.requests = @ + 1,
                               !.unique = @ \cup {Request[cur].offset \div ServicePageSize}]
  /\ cur' = NoPage
  /\ srv' = "idle"
  /\ UNCHANGED <<req, rsp>>

(* record_page_request, once the page has been sent. *)
RecordPageRequest ==
  /\ srv = "record"
  /\ metrics' = [metrics EXCEPT !.requests = @ + 1,
                               !.unique = @ \cup record_unique_pages(Request[cur])]
  /\ cur' = NoPage
  /\ srv' = "idle"
  /\ UNCHANGED <<req, rsp>>

(* record_page_request_error, after which the connection ends. *)
RecordPageRequestError ==
  /\ srv = "record_error"
  /\ metrics' = [metrics EXCEPT !.errors = @ + 1]
  /\ cur' = NoPage
  /\ srv' = "gone"
  /\ UNCHANGED <<req, rsp>>

(* The stream is closed from this end: record_connection, on this or any   *)
(* other connection, or File::open fails, which ends the accept loop and   *)
(* the process; the metrics log cannot be written, which ends the          *)
(* connection; or the service is killed.                                   *)
ServiceExits ==
  /\ "exit" \in Failures
  /\ srv # "gone"
  /\ srv' = "gone"
  /\ cur' = NoPage
  /\ UNCHANGED <<req, rsp, metrics>>

ServiceStep == Accept \/ ServePage \/ RecordPageRequest \/ RecordPageRequestError
=============================================================================
