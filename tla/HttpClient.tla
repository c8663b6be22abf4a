----------------------------- MODULE HttpClient -----------------------------
(***************************************************************************)
(* http_request and tcp_connect, and the asynchronous name resolution under *)
(* both (src/runtime/sprout_runtime.c): several green tasks each make one   *)
(* call.  A request holds malloc'd buffers and a socket that only its       *)
(* parked frame refers to, so every park carries a hook that a cancel runs; *)
(* a lookup runs on a detached thread that outlives a cancelled request.    *)
(*                                                                          *)
(* What a call holds is a set of names (live); releasing what is not live   *)
(* is recorded in wrong.  What the response reader decides is left to       *)
(* HttpReader: here it may stop after any piece and must by the last one.   *)
(***************************************************************************)
EXTENDS Integers, FiniteSets

CONSTANTS HttpCalls,       \* tasks that make a request
          MaxCandidates,   \* bound: addresses a name resolves to (HTTP_MAX_CANDIDATES)
          MaxPieces,       \* bound: pieces of a response before a reader limit stops it
          DnsThreadCap     \* SPROUT_DNS_THREAD_CAP

ASSUME HttpAssumption == /\ MaxCandidates \in Nat /\ MaxPieces \in Nat /\ DnsThreadCap \in Nat
                         /\ IsFiniteSet(HttpCalls)

VARIABLES
  http,          \* per call: pc, url scheme, candidates left, pieces read,
                 \* budget left, what it holds, what it released wrongly
  dnsReq,        \* per call: the DnsRequest: refcount, resolver thread, answer, ready
  dnsInflight    \* g_dns_threads_inflight

httpVars == <<http, dnsReq, dnsInflight>>

\* https has a TLS path on macOS and is refused elsewhere; "tcp" is tcp_connect.
UrlSchemes == {"http", "https", "https_refused", "tcp"}
Tls(r) == r.scheme = "https"
Tcp(r) == r.scheme = "tcp"

HttpInit ==
  /\ http \in [HttpCalls -> [pc : {"idle"}, scheme : UrlSchemes, left : {0}, got : {0}, budget : {TRUE},
                             live : {{}}, wrong : {{}}]]
  /\ dnsReq = [c \in HttpCalls |-> [refs |-> 0, thread |-> "none", answer |-> 0]]
  /\ dnsInflight = 0

-----------------------------------------------------------------------------
(* Helpers *)

\* The call's record after it releases S; after it returns, its frame gone.
Drops(r, S) == [r EXCEPT !.live = @ \ S, !.wrong = @ \cup (S \ r.live)]
Returns(r, S) == [Drops(r, S) EXCEPT !.pc = "ended", !.left = 0, !.got = 0, !.budget = TRUE]
Step(c, from, r) == http[c].pc = from /\ http' = [http EXCEPT ![c] = r]

(* What a request holds from the start and frees on its way out; under TLS  *)
(* the callee closes its socket and context and the caller frees these two. *)
Buffers(r) == IF Tcp(r) THEN {} ELSE {"request", "url"}
DnsUnchanged == UNCHANGED <<dnsReq, dnsInflight>>

-----------------------------------------------------------------------------
(* Building the request *)

(* parse_http_url, the header block and the request text; the deadline is   *)
(* stamped last.  tcp_connect checks its port.  https without TLS support   *)
(* is refused.                                                              *)
http_build(c) ==
  /\ DnsUnchanged
  /\ \/ Step(c, "idle", Returns(http[c], {}))
     \/ /\ http[c].scheme # "https_refused"
        /\ Step(c, "idle", [http[c] EXCEPT !.pc = "resolve", !.live = Buffers(http[c])])
     \/ /\ http[c].scheme = "https_refused"
        /\ Step(c, "idle", Returns([http[c] EXCEPT !.live = Buffers(http[c])], Buffers(http[c])))

-----------------------------------------------------------------------------
(* Name resolution: async_resolve *)

\* n addresses were found, or the lookup failed.
Resolved(r, n) == IF n < 0 THEN Returns(r, Buffers(r))
                  ELSE [r EXCEPT !.pc = "connect", !.left = n]
Answers == -1..MaxCandidates

(* A numeric host is its own one candidate. *)
dns_try_numeric(c) ==
  /\ MaxCandidates >= 1
  /\ Step(c, "resolve", Resolved(http[c], 1))
  /\ DnsUnchanged

(* No room for a thread, or a request, pipe or thread that cannot be made:  *)
(* the look-up blocks, and nothing is held.                                 *)
resolve_here(c) ==
  /\ \E n \in Answers : Step(c, "resolve", Resolved(http[c], n))
  /\ DnsUnchanged

\* Mutant: the task takes no reference of its own.
resolve_on_thread_OneRef(c) ==
  /\ dnsInflight < DnsThreadCap
  /\ Step(c, "resolve", [http[c] EXCEPT !.pc = "dnspark", !.live = @ \cup {"dnsreq", "pipeR", "pipeW"}])
  /\ dnsReq' = [dnsReq EXCEPT ![c] = [refs |-> 1, thread |-> "lookup", answer |-> 0]]
  /\ dnsInflight' = dnsInflight + 1
(* The request with two references, the pipe and the resolver thread; the   *)
(* task parks on the pipe without a bound, its hook being dns_abandon.      *)
resolve_on_thread(c) ==
  /\ dnsInflight < DnsThreadCap
  /\ Step(c, "resolve", [http[c] EXCEPT !.pc = "dnspark", !.live = @ \cup {"dnsreq", "pipeR", "pipeW"}])
  /\ dnsReq' = [dnsReq EXCEPT ![c] = [refs |-> 2, thread |-> "lookup", answer |-> 0]]
  /\ dnsInflight' = dnsInflight + 1

(* dns_request_decref: the last reference frees the request. *)
Decreffed(c) == [dnsReq EXCEPT ![c].refs = @ - 1]
IfLast(c) == IF dnsReq[c].refs = 1 THEN {"dnsreq"} ELSE {}

(* dns_resolver_thread: look up, publish and write the byte, ... *)
dns_lookup(c) ==
  /\ dnsReq[c].thread = "lookup"
  /\ \E n \in Answers : dnsReq' = [dnsReq EXCEPT ![c].thread = "close", ![c].answer = n]
  /\ UNCHANGED <<http, dnsInflight>>
(* ... close the write end and leave the count, ... *)
dns_close(c) ==
  /\ dnsReq[c].thread = "close"
  /\ http' = [http EXCEPT ![c] = Drops(@, {"pipeW"})]
  /\ dnsReq' = [dnsReq EXCEPT ![c].thread = "decref"]
  /\ dnsInflight' = dnsInflight - 1
(* ... drop the thread's reference. *)
dns_decref(c) ==
  /\ dnsReq[c].thread = "decref"
  /\ http' = [http EXCEPT ![c] = Drops(@, IfLast(c))]
  /\ dnsReq' = [Decreffed(c) EXCEPT ![c].thread = "none"]
  /\ UNCHANGED dnsInflight

(* The completion byte arrived: read it, close the pipe, copy the answer,   *)
(* drop the task's reference.                                               *)
resolve_done(c) ==
  /\ dnsReq[c].thread \in {"close", "decref", "none"}
  /\ Step(c, "dnspark", Resolved(Drops(http[c], {"pipeR"} \cup IfLast(c)), dnsReq[c].answer))
  /\ dnsReq' = Decreffed(c)
  /\ UNCHANGED dnsInflight

(* A cancel in the lookup's park: force_drop_task closes the pipe and runs  *)
(* dns_abandon, which knows of the DnsRequest only.                         *)
dns_abandon(c) ==
  /\ Step(c, "dnspark", [Drops(http[c], {"pipeR"} \cup IfLast(c)) EXCEPT !.pc = "abandoned", !.budget = TRUE])
  /\ dnsReq' = Decreffed(c)
  /\ UNCHANGED dnsInflight

-----------------------------------------------------------------------------
(* Connecting and exchanging, every wait an http_park bounded by the budget *)

Parks == {"connpark", "sendpark", "recvpark", "handpark"}

\* Mutant: the park is entered whatever is left of the budget.
Park_Unbounded(r, pc, expired) == [r EXCEPT !.pc = pc]
(* http_park on the way in: with the budget spent it does not park at all.  *)
Park(r, pc, expired) == IF r.budget THEN [r EXCEPT !.pc = pc] ELSE expired
(* http_park returns: the descriptor is ready, or the timer ended the park. *)
http_park(c, ready, expired) ==
  \/ Step(c, http[c].pc, ready)
  \/ ~http[c].budget /\ Step(c, http[c].pc, expired)

(* The next candidate: no socket, refused at once, connected at once, or in *)
(* progress.  After the last one the call fails.                            *)
Socket(r) == [r EXCEPT !.left = @ - 1, !.live = @ \cup {"fd"}]
TriesNext(c, inProgress) ==
  /\ LET r == http[c]
     IN \/ r.left = 0 /\ Step(c, "connect", Returns(r, Buffers(r)))
        \/ r.left > 0 /\ \/ Step(c, "connect", [r EXCEPT !.left = @ - 1])
                         \/ Step(c, "connect", [Socket(r) EXCEPT !.pc = "connected", !.left = 0])
                         \/ Step(c, "connect", inProgress)
  /\ DnsUnchanged
http_connect(c) ==
  /\ ~Tcp(http[c])
  /\ LET s == Socket(http[c]) IN TriesNext(c, Park(s, "connpark", Returns(s, Buffers(s) \cup {"fd"})))
(* tcp_connect parks without a bound, on a descriptor only its frame knows. *)
tcp_connect(c) ==
  /\ Tcp(http[c])
  /\ TriesNext(c, [Socket(http[c]) EXCEPT !.pc = "connpark"])
http_connect_parked(c) ==
  /\ http[c].pc = "connpark"
  /\ LET r == http[c]
     IN \E soerr \in BOOLEAN :
          http_park(c, IF soerr THEN [Drops(r, {"fd"}) EXCEPT !.pc = "connect"]
                                ELSE [r EXCEPT !.pc = "connected", !.left = 0],
                    Returns(r, {"fd"} \cup Buffers(r)))
  /\ DnsUnchanged

(* tcp_connect: the socket goes into the connection table, or is closed if  *)
(* that is full.                                                            *)
tcp_install(c) ==
  /\ Tcp(http[c])
  /\ \/ Step(c, "connected", [http[c] EXCEPT !.pc = "ended", !.live = @ \ {"fd"}])
     \/ Step(c, "connected", Returns(http[c], {"fd"}))
  /\ DnsUnchanged

(* https: the context is created and the handshake run, parking as often as *)
(* the peer makes it wait.                                                  *)
tls_handshake(c) ==
  /\ http[c].pc \in {"connected", "handshake"} /\ Tls(http[c])
  /\ LET r   == http[c]
         ctx == [r EXCEPT !.live = @ \cup {"tls"}]
     IN \/ r.pc = "connected" /\ Step(c, r.pc, Returns(r, Buffers(r) \cup {"fd"}))
        \/ Step(c, r.pc, [ctx EXCEPT !.pc = "send"])
        \/ Step(c, r.pc, Park(ctx, "handpark", Returns(ctx, Buffers(r) \cup {"fd", "tls"})))
        \/ Step(c, r.pc, Returns(ctx, Buffers(r) \cup {"fd", "tls"}))
  /\ DnsUnchanged
tls_park(c) ==
  /\ http[c].pc = "handpark"
  /\ http_park(c, [http[c] EXCEPT !.pc = "handshake"],
                  Returns(http[c], Buffers(http[c]) \cup {"fd", "tls"}))
  /\ DnsUnchanged

\* What the exits of the send phase free, and those of the receive phase: the
\* plain path has freed the request text by then, and a response buffer that
\* never grew is a NULL that free ignores.
SendHeld(r) == Buffers(r) \cup {"fd"} \cup IF Tls(r) THEN {"tls"} ELSE {}
RecvHeld(r) == {"url", "fd"} \cup (IF Tls(r) THEN {"request", "tls"} ELSE {}) \cup (r.live \cap {"response"})

(* The request is sent in full, refused for now, or an error.  The plain    *)
(* path (http_send_all) frees its text as soon as it is sent.               *)
Sends(c, sent) ==
  /\ LET r == http[c]
     IN \/ Step(c, r.pc, [sent EXCEPT !.pc = "recv"])
        \/ Step(c, r.pc, Park(r, "sendpark", Returns(r, SendHeld(r))))
        \/ Step(c, r.pc, Returns(r, SendHeld(r)))
  /\ DnsUnchanged
http_send(c) ==
  /\ http[c].pc \in {"connected", "send"} /\ http[c].scheme = "http"
  /\ Sends(c, Drops(http[c], {"request"}))
tls_write_all(c) ==
  /\ http[c].pc = "send" /\ Tls(http[c])
  /\ Sends(c, http[c])
http_send_parked(c) ==
  /\ http[c].pc = "sendpark"
  /\ http_park(c, [http[c] EXCEPT !.pc = "send"], Returns(http[c], SendHeld(http[c])))
  /\ DnsUnchanged

(* The receive loop: a piece the reader accepts, a piece or an end of file  *)
(* that completes the response or an error, nothing yet.                    *)
Receives(c) ==
  /\ LET r == http[c]
     IN \/ r.got < MaxPieces /\ Step(c, "recv", [r EXCEPT !.got = @ + 1, !.live = @ \cup {"response"}])
        \/ Step(c, "recv", Returns(r, RecvHeld(r)))
        \/ Step(c, "recv", Park(r, "recvpark", Returns(r, RecvHeld(r))))
  /\ DnsUnchanged
http_recv(c) == ~Tls(http[c]) /\ Receives(c)
tls_read_append(c) == Tls(http[c]) /\ Receives(c)
http_recv_parked(c) ==
  /\ http[c].pc = "recvpark"
  /\ http_park(c, [http[c] EXCEPT !.pc = "recv"], Returns(http[c], RecvHeld(http[c])))
  /\ DnsUnchanged

\* Mutant: the request text is freed again although the frame took it back.
http_release_in_flight_Twice(r) == {"request", "url"} \cup (r.live \cap {"response", "tls"})
(* What the hook frees: the fields of HttpInFlight that are set.  `request` *)
(* is cleared once the plain path has sent it.                              *)
http_release_in_flight(r) ==
  (IF Tcp(r) THEN {} ELSE {"url"})
  \cup (IF Tls(r) \/ r.pc \in {"connpark", "sendpark"} THEN Buffers(r) ELSE {})
  \cup (r.live \cap {"response", "tls"})

(* A cancel at one of these parks: force_drop_task closes the socket, which *)
(* the frame alone refers to, and runs http_release_in_flight (tcp_connect  *)
(* holds nothing else and sets no hook).                                    *)
http_dropped(c) ==
  /\ http[c].pc \in Parks
  /\ http' = [http EXCEPT ![c] = [Returns(@, {"fd"} \cup http_release_in_flight(@)) EXCEPT !.pc = "dropped"]]
  /\ DnsUnchanged

(* Time passes: the budget stamped at the start is spent. *)
BudgetSpent(c) ==
  /\ ~Tcp(http[c]) /\ http[c].pc \notin {"idle", "ended", "dropped", "abandoned"} /\ http[c].budget
  /\ http' = [http EXCEPT ![c].budget = FALSE]
  /\ DnsUnchanged

-----------------------------------------------------------------------------
HttpTaskStep(c) ==
  \/ http_build(c) \/ dns_try_numeric(c) \/ resolve_here(c) \/ resolve_on_thread(c) \/ resolve_done(c)
  \/ http_connect(c) \/ tcp_connect(c) \/ tcp_install(c)
  \/ tls_handshake(c) \/ http_send(c) \/ tls_write_all(c) \/ http_recv(c) \/ tls_read_append(c)
HttpParkEnds(c) == http_connect_parked(c) \/ tls_park(c) \/ http_send_parked(c) \/ http_recv_parked(c)
DnsThread(c) == dns_lookup(c) \/ dns_close(c) \/ dns_decref(c)

HttpNext == \E c \in HttpCalls :
  HttpTaskStep(c) \/ HttpParkEnds(c) \/ DnsThread(c) \/ dns_abandon(c) \/ http_dropped(c) \/ BudgetSpent(c)

HttpSpec == HttpInit /\ [][HttpNext]_httpVars

(* The scheduler runs a task that can run; getaddrinfo returns; time passes;*)
(* a park whose budget is gone is ended by its timer.                       *)
HttpFairness == \A c \in HttpCalls :
  /\ WF_httpVars(HttpTaskStep(c)) /\ WF_httpVars(DnsThread(c)) /\ WF_httpVars(BudgetSpent(c))
  /\ WF_httpVars(HttpParkEnds(c) /\ http'[c].pc = "ended")

HttpOver(c) == http[c].pc \in {"ended", "dropped", "abandoned"} /\ dnsReq[c].thread = "none"

-----------------------------------------------------------------------------
(* Properties *)

(* Nothing is freed or closed twice on any of the exits, and a request that *)
(* has returned, or was cancelled at one of its socket parks, holds nothing *)
(* once its resolver thread is gone.  (A cancel during the lookup is        *)
(* HttpCancelLeaksNothing's.)                                               *)
HttpReleasedOnce == \A c \in HttpCalls :
  /\ http[c].wrong = {}
  /\ HttpOver(c) /\ http[c].pc # "abandoned" => http[c].live = {}

(* A late answer is harmless: the resolver thread and a task waiting for it *)
(* always find the DnsRequest, which is gone once both are; the number of   *)
(* threads in flight is exact and never above the cap.                      *)
DnsSound ==
  /\ \A c \in HttpCalls :
       ("dnsreq" \in http[c].live) <=> (http[c].pc = "dnspark" \/ dnsReq[c].thread # "none")
  /\ dnsInflight = Cardinality({c \in HttpCalls : dnsReq[c].thread \in {"lookup", "close"}})
  /\ dnsInflight <= DnsThreadCap

(* A request ends: every wait is bounded by the one budget, or by the       *)
(* lookup, whatever the peer does.                                          *)
HttpCallEnds == \A c \in HttpCalls : (http[c].pc = "resolve" /\ ~Tcp(http[c])) ~> HttpOver(c)

(* A cancelled request leaks neither memory nor descriptors, wherever it    *)
(* was parked (docs/async-dns-v0.md:29-30).                                 *)
HttpCancelLeaksNothing == \A c \in HttpCalls : HttpOver(c) => http[c].live = {}
=============================================================================
