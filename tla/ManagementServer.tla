-------------------------- MODULE ManagementServer --------------------------
(***************************************************************************)
(* The management HTTP server: one thread in the event loop of libevhtp    *)
(* (external) runs the hooks of all connections, each hook to its end, and *)
(* another thread calls server_stop().  The body of a request may come in  *)
(* several pieces, and its client may leave at any time.                   *)
(***************************************************************************)
EXTENDS Naturals, Sequences, FiniteSets

CONSTANTS
  Request,     \* one connection each
  Controllers, \* the uris of the controllers, most recently registered first
  Matches,     \* Matches[u]: the uris of controllers that are prefixes of u
  Apis,        \* <<controller, method>> pairs for which api_init() succeeds
  Methods,
  MaxLength    \* bound on Content-Length

VARIABLES
  phase,       \* of the server: "new", "ready", "loop", "over", "failed", "crashed"
  params,      \* bind_ipv6 after params_init()
  stopping,    \* is_shutting_down
  req          \* req[r]: the request and what its client has sent

vars == <<phase, params, stopping, req>>

Uris == DOMAIN Matches

NoRequest == [at |-> "none"]

Init ==
  /\ phase = "new" /\ params = [ipv6 |-> FALSE] /\ stopping = FALSE
  /\ req = [r \in Request |-> NoRequest]

-----------------------------------------------------------------------------
(* Start and stop.                                                         *)

\* params_init(): -b counts only together with -r.
ParamsInit(reusePort, bindIpv6) == [ipv6 |-> reusePort /\ bindIpv6]

\* server_init().  Bad options, an evhtp or a base that cannot be made: no
\* server.  With -h, or when event_base_new() fails, the return code is 0.
ServerInit(reusePort, bindIpv6) ==
  /\ phase = "new"
  /\ phase' \in {"ready", "failed"}
  /\ params' = ParamsInit(reusePort, bindIpv6)
  /\ UNCHANGED <<stopping, req>>

\* server_start(): bind, then the loop.  For IPv6 the address is NULL and so
\* is the pointer it is copied to.
ServerStart ==
  /\ phase = "ready"
  /\ phase' \in IF params.ipv6 THEN {"crashed", "failed"} ELSE {"loop", "failed"}
  /\ UNCHANGED <<params, stopping, req>>

\* server_stop() from another thread; the loop goes on for three seconds.
ServerStop ==
  /\ phase \in {"ready", "loop"} /\ ~stopping
  /\ stopping' = TRUE /\ UNCHANGED <<phase, params, req>>

\* The loop breaks; server_fini().
LoopExit ==
  /\ phase = "loop" /\ stopping
  /\ phase' = "over" /\ UNCHANGED <<params, stopping, req>>

-----------------------------------------------------------------------------
(* Finding the controller and its api.                                     *)

\* controller_find_by_api_uri(): the first of the list whose uri is a prefix.
FirstMatch(u) ==
  LET hits == {k \in 1..Len(Controllers) : Controllers[k] \in Matches[u]}
  IN IF hits = {} THEN "none"
     ELSE Controllers[CHOOSE k \in hits : \A j \in hits : k <= j]

\* request_get_controller() and request_get_api().
Supported(u, method) ==
  FirstMatch(u) # "none" /\ <<FirstMatch(u), method>> \in Apis

\* errno_to_http_code(), of the codes that the server itself sends.
HttpCode(err) ==
  CASE err = "0"            -> 200
    [] err = "EINVAL"       -> 400
    [] err = "ENOTSUP"      -> 501
    [] err = "ECONNABORTED" -> 503
    [] OTHER                -> 500

-----------------------------------------------------------------------------
(* The hooks.                                                              *)

\* request_send_response(): an error also sets the state to ERROR.
RespondSetting(q, err, state) ==
  [q EXCEPT !.replies = Append(@, HttpCode(err)),
            !.state = IF err # "0" THEN state ELSE @]
RespondLenient(q, err) == RespondSetting(q, err, "ok")
Respond(q, err) == RespondSetting(q, err, "ERROR")

\* request_init(): a request whose headers have come.
NewRequest(u, method) ==
  [at |-> "open", supported |-> Supported(u, method), length |-> 0, remaining |-> 0,
   pieces |-> <<>>, state |-> "ok", replies |-> <<>>, ran |-> FALSE,
   late |-> stopping, hooks |-> FALSE, freed |-> 0]

\* request_validate_headers(): Content-Length, 0 if there is none.
ValidateHeaders(q, length) == [q EXCEPT !.length = length, !.remaining = length]

\* request_accept_data(): the results of parsing the body.
AcceptData == {"0", "EINVAL", "ENOMEM"}

\* http_dispatch_request(), when the headers have come.  An unknown uri or
\* method and a server that stops are answered at once, the request paused
\* and its connection's hooks removed; else the hooks of the request are set
\* and the first action of the api runs: it answers a request without a body
\* and asks for the body of another (request_set_readcb()).
DispatchIf(r, u, method, length, refuse) ==
  /\ phase = "loop" /\ req[r].at = "none"
  /\ LET q == NewRequest(u, method) IN
     req' = [req EXCEPT ![r] =
       CASE ~q.supported            -> [Respond(q, "ENOTSUP") EXCEPT !.at = "paused"]
         [] q.supported /\ refuse   -> [Respond(q, "ECONNABORTED") EXCEPT !.at = "paused"]
         [] q.supported /\ ~refuse  ->
              LET p == [ValidateHeaders(q, length) EXCEPT !.hooks = TRUE, !.ran = TRUE]
              IN IF length = 0 THEN Respond(p, "0") ELSE p]
  /\ UNCHANGED <<phase, params, stopping>>

DispatchAlways(r, u, method, length) == DispatchIf(r, u, method, length, FALSE)
Dispatch(r, u, method, length) == DispatchIf(r, u, method, length, stopping)

\* http_process_request_data(), for a piece of n bytes: skipped after an
\* error; a piece that is not the rest of the body is refused; else the read
\* callback of the api runs: request_accept_data(), which may fail, and the
\* next action, which answers.
ProcessData(r, n) ==
  /\ phase = "loop" /\ req[r].at = "open"
  /\ LET q == [req[r] EXCEPT !.pieces = Append(@, n)] IN
     IF q.state = "ERROR" \/ q.remaining = 0
     THEN req' = [req EXCEPT ![r] = q]
     ELSE LET p == [q EXCEPT !.remaining = @ - n] IN
          \E err \in IF p.remaining # 0 THEN {"EINVAL"} ELSE AcceptData :
            req' = [req EXCEPT ![r] = Respond(p, err)]
  /\ UNCHANGED <<phase, params, stopping>>

Received(q) == IF q.pieces = <<>> THEN 0
               ELSE IF Len(q.pieces) = 1 THEN q.pieces[1] ELSE q.pieces[1] + q.pieces[2]

\* http_on_client_conn_err_callback(): the hooks of the request are removed,
\* the one that would free it too, and libevhtp drops its own request.
ConnError(r) ==
  /\ phase = "loop" /\ req[r].at = "open"
  /\ req' = [req EXCEPT ![r].at = "gone", ![r].hooks = FALSE]
  /\ UNCHANGED <<phase, params, stopping>>

\* libevhtp ends an answered request: http_on_client_request_fini(), if its
\* hook is set, frees the request and its api (request_fini()).
RequestFini(r) ==
  /\ phase = "loop" /\ req[r].at \in {"open", "paused"} /\ req[r].replies # <<>>
  /\ req[r].at = "open" => Received(req[r]) = req[r].length
  /\ req' = [req EXCEPT ![r].at = "ended", ![r].hooks = FALSE,
                        ![r].freed = IF req[r].hooks THEN @ + 1 ELSE @]
  /\ UNCHANGED <<phase, params, stopping>>

\* Clients send the body in at most two pieces.
Next ==
  \/ \E reuse, ipv6 \in BOOLEAN : ServerInit(reuse, ipv6)
  \/ ServerStart \/ ServerStop \/ LoopExit
  \/ \E r \in Request :
       \/ \E u \in Uris, method \in Methods, length \in 0..MaxLength :
            Dispatch(r, u, method, length)
       \/ /\ req[r].at = "open" /\ Len(req[r].pieces) < 2
          /\ \E n \in 1..MaxLength :
               n <= req[r].length - Received(req[r]) /\ ProcessData(r, n)
       \/ ConnError(r) \/ RequestFini(r)

Spec == Init /\ [][Next]_vars

-----------------------------------------------------------------------------
(* Properties.                                                             *)

(* Whatever the pieces of its body, a client that leaves and a server that *)
(* stops: a request has at most one reply, and one as soon as its body is  *)
(* complete; a success only if the body came in one piece; a request that  *)
(* came after server_stop() never runs its api; an answered one that ran   *)
(* is freed once, when it ends.                                            *)
AnsweredOnce ==
  \A r \in Request : req[r].at # "none" =>
    LET q == req[r] IN
    /\ Len(q.replies) <= 1
    /\ Received(q) = q.length => Len(q.replies) = 1
    /\ q.replies = <<200>> => q.ran /\ Len(q.pieces) = (IF q.length = 0 THEN 0 ELSE 1)
    /\ q.late => ~q.ran
    /\ q.at = "ended" => q.freed = (IF q.ran THEN 1 ELSE 0)

-----------------------------------------------------------------------------
(* Why AnsweredOnce holds: what a request has by the number of pieces that *)
(* came.                                                                   *)

RequestType ==
  [at : {"open", "paused", "gone", "ended"}, supported : BOOLEAN, length : Nat, remaining : Nat,
   pieces : Seq(Nat), state : {"ok", "ERROR"}, replies : Seq(Nat), ran : BOOLEAN,
   late : BOOLEAN, hooks : BOOLEAN, freed : Nat]

\* A request that was turned down at once.
Refused(q) ==
  /\ q.at \in {"paused", "ended"} /\ ~q.hooks /\ q.freed = 0 /\ q.length = 0 /\ q.pieces = <<>>
  /\ Len(q.replies) = 1 /\ q.replies[1] # 200

\* A request whose api has run.
Running(q) ==
  /\ ~q.late /\ q.at # "paused"
  /\ q.at = "open" => q.hooks
  /\ q.freed = IF q.at = "ended" THEN 1 ELSE 0

\* Its body and its reply.
Body(q) ==
  \/ /\ q.pieces = <<>> /\ q.remaining = q.length
     /\ q.state = "ok" /\ Len(q.replies) = (IF q.length = 0 THEN 1 ELSE 0)
  \/ /\ Len(q.pieces) = 1 /\ q.length > 0 /\ q.pieces[1] + q.remaining = q.length
     /\ Len(q.replies) = 1
     /\ q.remaining # 0 => q.state = "ERROR" /\ q.replies[1] # 200
  \/ /\ Len(q.pieces) = 2 /\ q.length > 0 /\ q.pieces[1] + q.pieces[2] <= q.length
     /\ Len(q.replies) = 1 /\ q.replies[1] # 200

RequestInv(q) ==
  \/ q = NoRequest
  \/ q \in RequestType /\ ~q.ran /\ Refused(q)
  \/ q \in RequestType /\ q.ran /\ Running(q) /\ Body(q)

ManagementInv ==
  /\ stopping \in BOOLEAN /\ req \in [Request -> RequestType \cup {NoRequest}]
  /\ \A r \in Request : RequestInv(req[r])
=============================================================================
