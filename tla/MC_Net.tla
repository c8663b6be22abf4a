------------------------------- MODULE MC_Net -------------------------------
(* The builtins that use sockets, each beside the others at rest: a         *)
(* behaviour exercises one of HTTP requests with their look-ups, a TCP      *)
(* server, and the poller.  They share no state.                            *)
EXTENDS HttpClient, TcpServer, Poller

VARIABLE part

netVars == <<part, httpVars, tcpVars, pollVars>>

\* At rest: requests that are over, a server whose thread is elsewhere, no task parked.
HttpRests ==
  /\ http = [c \in HttpCalls |-> [pc |-> "ended", scheme |-> "http", left |-> 0, got |-> 0, budget |-> TRUE,
                                  live |-> {}, wrong |-> {}]]
  /\ dnsReq = [c \in HttpCalls |-> [refs |-> 0, thread |-> "none", answer |-> 0]]
  /\ dnsInflight = 0
TcpRests ==
  /\ tcpCpu = Pump - 1 /\ tcpReady = <<>> /\ tcpBacklog = 0 /\ tcpRun = 0
  /\ tcpAcc = [pc |-> "call", streak |-> 0, shed |-> 0, held |-> FALSE]
  /\ tcpConn = [h \in TcpTable |-> NoHandler]
  /\ tcpFds = [open |-> 1, reserve |-> FALSE, others |-> 0]
PollRests ==
  /\ pollTask = [t \in PollTasks |-> FreeTask] /\ pollTold = {}
  /\ pollB = [name |-> "epoll", kernel |-> {}, fds |-> <<>>, timers |-> <<>>, open |-> {}, misuse |-> {}]

NetInit ==
  \/ part = "http" /\ HttpInit  /\ TcpRests /\ PollRests
  \/ part = "tcp"  /\ HttpRests /\ TcpInit  /\ PollRests
  \/ part = "poll" /\ HttpRests /\ TcpRests /\ PollInit

NetNext ==
  /\ UNCHANGED part
  /\ \/ part = "http" /\ HttpNext /\ UNCHANGED <<tcpVars, pollVars>>
     \/ part = "tcp"  /\ TcpNext  /\ UNCHANGED <<httpVars, pollVars>>
     \/ part = "poll" /\ PollNext /\ UNCHANGED <<httpVars, tcpVars>>
     \* Requests that are over stay so.
     \/ part = "http" /\ (\A c \in HttpCalls : HttpOver(c)) /\ UNCHANGED <<httpVars, tcpVars, pollVars>>

NetSpec == NetInit /\ [][NetNext]_netVars /\ HttpFairness /\ TcpFairness
=============================================================================
