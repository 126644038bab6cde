------------------------------- MODULE Server --------------------------------
(***************************************************************************)
(* The life of a `serve` process (cmd_serve in src/src/main.rs, run,       *)
(* accept and shutdown_signal in src/src/server/mod.rs): it loads, binds,  *)
(* accepts connections, answers their requests, and on a signal drains and *)
(* exits.  Around it: HTTP clients, one `healthcheck` process, the signals *)
(* an operator sends, and axum::serve, external, taken as run uses it.     *)
(***************************************************************************)
EXTENDS Naturals, Sequences, FiniteSets

CONSTANTS
  Clients,      \* the connections made to the port
  Probe,        \* the one made by cmd_healthcheck
  MaxRequests,  \* MaxRequests[c]: requests client c sends on its connection
  MaxFds        \* descriptors the process may hold for connections

ASSUME ServerAssumption ==
  /\ Probe \in Clients
  /\ MaxRequests \in [Clients -> Nat] /\ MaxRequests[Probe] = 1
  /\ MaxFds \in Nat \ {0}

VARIABLES
  pid1,         \* whether it is PID 1 of a container, as in the Dockerfile
  stage,        \* "loading", "loaded", "serving", "draining" or "exited"
  load,         \* what load returned: "none", "ok", "io" or "data"
  exit,         \* how the process ended
  handlers,     \* signals tokio has a handler for
  sent,         \* signals sent to the process
  received,     \* those a handler got
  acceptor,     \* NoDelayListener::accept: "polling", or "sleeping" in its backoff
  backlog,      \* the kernel's queue of connections to accept
  conn,         \* state of each connection
  asked,        \* requests read from each connection
  answered,     \* responses written to it
  verdict       \* exit code of the healthcheck

processVars == <<pid1, stage, load, exit, handlers, sent, received>>
clientVars == <<conn, asked, answered>>
vars == <<processVars, acceptor, backlog, clientVars, verdict>>

Signals == {"SIGINT", "SIGTERM"}
Open == {"idle", "partial", "request"}
Accepted == {c \in Clients : conn[c] \in Open}

Init ==
  /\ pid1 \in BOOLEAN
  /\ stage = "loading" /\ load = "none" /\ exit = "none"
  /\ handlers = {} /\ sent = {} /\ received = {}
  /\ acceptor = "polling" /\ backlog = <<>>
  /\ conn = [c \in Clients |-> "new"]
  /\ asked = [c \in Clients |-> 0]
  /\ answered = [c \in Clients |-> 0]
  /\ verdict = "none"

------------------------------------------------------------------------------
(* cmd_serve *)

\* The process ends and the kernel resets what is still open.
Exit(code) ==
  /\ stage' = "exited"
  /\ exit' = code
  /\ backlog' = <<>>
  /\ conn' = [c \in Clients |->
                IF conn[c] \in Open \cup {"backlog"} THEN "reset" ELSE conn[c]]

\* Mutant: a dataset that does not load is served as an empty one.
LoadOrEmpty ==
  /\ stage = "loading"
  /\ load' \in {"ok", "io", "data"}
  /\ stage' = "loaded"
  /\ UNCHANGED <<pid1, exit, handlers, sent, received, acceptor, backlog, clientVars, verdict>>

\* Nothing is bound until the data is in memory; the two ways to fail exit apart.
Load ==
  /\ stage = "loading"
  /\ \/ load' = "ok" /\ stage' = "loaded" /\ UNCHANGED <<exit, backlog, conn>>
     \/ load' = "io" /\ Exit("EXIT_IO")
     \/ load' = "data" /\ Exit("EXIT_INVALID_DATA")
  /\ UNCHANGED <<pid1, handlers, sent, received, acceptor, asked, answered, verdict>>

\* The content type, the runtime and the bind, each of which may fail.
Bind ==
  /\ stage = "loaded"
  /\ \/ stage' = "serving" /\ UNCHANGED <<exit, backlog, conn>>
     \/ Exit("EXIT_IO")
  /\ UNCHANGED <<pid1, load, handlers, sent, received, acceptor, asked, answered, verdict>>

------------------------------------------------------------------------------
(* shutdown_signal, in a task that axum spawns *)

\* The first poll of the select registers a handler for each signal.
Register(s) ==
  /\ stage = "serving"
  /\ s \notin handlers
  /\ handlers' = handlers \cup {s}
  /\ UNCHANGED <<pid1, stage, load, exit, sent, received, acceptor, backlog, clientVars, verdict>>

\* Mutant: both signals are awaited.
ReceivedBoth == received = Signals

\* Either signal completes the select.
Signalled == received # {}

\* A signal with no handler ends the process, or is dropped if it is PID 1.
Signal(s) ==
  /\ stage # "exited"
  /\ s \notin sent
  /\ sent' = sent \cup {s}
  /\ \/ s \in handlers /\ received' = received \cup {s} /\ UNCHANGED <<stage, exit, backlog, conn>>
     \/ s \notin handlers /\ pid1 /\ UNCHANGED <<received, stage, exit, backlog, conn>>
     \/ s \notin handlers /\ ~pid1 /\ Exit("killed") /\ UNCHANGED received
  /\ UNCHANGED <<pid1, load, handlers, acceptor, asked, answered, verdict>>

------------------------------------------------------------------------------
(* accept *)

Accept ==
  /\ stage = "serving" /\ acceptor = "polling"
  /\ backlog # <<>> /\ conn[Head(backlog)] = "backlog"
  /\ Cardinality(Accepted) < MaxFds
  /\ conn' = [conn EXCEPT ![Head(backlog)] = "idle"]
  /\ backlog' = Tail(backlog)
  /\ UNCHANGED <<processVars, acceptor, asked, answered, verdict>>

\* Mutant: the first error ends the accept loop and the server with it.
AcceptFailsFatal ==
  /\ stage = "serving" /\ acceptor = "polling" /\ backlog # <<>>
  /\ Cardinality(Accepted) = MaxFds \/ conn[Head(backlog)] = "gone"
  /\ Exit("EXIT_IO")
  /\ UNCHANGED <<pid1, load, handlers, sent, received, acceptor, asked, answered, verdict>>

\* Mutant: a connection there is no descriptor for is taken off and forgotten.
AcceptFailsForgets ==
  /\ stage = "serving" /\ acceptor = "polling" /\ backlog # <<>>
  /\ Cardinality(Accepted) = MaxFds \/ conn[Head(backlog)] = "gone"
  /\ backlog' = Tail(backlog)
  /\ acceptor' = "sleeping"
  /\ UNCHANGED <<processVars, clientVars, verdict>>

\* Out of descriptors, which leaves the connection where it is, or reset in the
\* handshake, which takes it off: either way the loop backs off.
AcceptFails ==
  /\ stage = "serving" /\ acceptor = "polling" /\ backlog # <<>>
  /\ \/ Cardinality(Accepted) = MaxFds /\ UNCHANGED backlog
     \/ /\ Cardinality(Accepted) < MaxFds
        /\ conn[Head(backlog)] = "gone"
        /\ backlog' = Tail(backlog)
  /\ acceptor' = "sleeping"
  /\ UNCHANGED <<processVars, clientVars, verdict>>

\* The backoff is at most 256 ms: the sleep ends.
BackoffEnds ==
  /\ acceptor = "sleeping"
  /\ acceptor' = "polling"
  /\ UNCHANGED <<processVars, backlog, clientVars, verdict>>

------------------------------------------------------------------------------
(* axum::serve with_graceful_shutdown *)

\* Mutant: a response is counted, and written, twice.
AnswerTwice(c) ==
  /\ conn[c] = "request"
  /\ answered' = [answered EXCEPT ![c] = @ + 2]
  /\ conn' = [conn EXCEPT ![c] = IF Signalled \/ c = Probe THEN "closed" ELSE "idle"]
  /\ UNCHANGED <<processVars, acceptor, backlog, asked, verdict>>

\* The connection is kept alive, unless it is draining or the client asked not to.
Answer(c) ==
  /\ conn[c] = "request"
  /\ answered' = [answered EXCEPT ![c] = @ + 1]
  /\ conn' = [conn EXCEPT ![c] = IF Signalled \/ c = Probe THEN "closed" ELSE "idle"]
  /\ UNCHANGED <<processVars, acceptor, backlog, asked, verdict>>

\* After the signal a connection with no request under way is closed.
CloseIdle(c) ==
  /\ Signalled
  /\ conn[c] = "idle"
  /\ conn' = [conn EXCEPT ![c] = "closed"]
  /\ UNCHANGED <<processVars, acceptor, backlog, asked, answered, verdict>>

\* The listener is dropped and the kernel resets what was not accepted.
Drain ==
  /\ stage = "serving" /\ Signalled
  /\ stage' = "draining"
  /\ backlog' = <<>>
  /\ conn' = [c \in Clients |-> IF conn[c] = "backlog" THEN "reset" ELSE conn[c]]
  /\ UNCHANGED <<pid1, load, exit, handlers, sent, received, acceptor, asked, answered, verdict>>

\* Mutant: axum::serve without waiting for the connection tasks.
DrainedAtOnce ==
  /\ stage = "draining"
  /\ Exit("EXIT_OK")
  /\ UNCHANGED <<pid1, load, handlers, sent, received, acceptor, asked, answered, verdict>>

\* run returns when the last connection is closed; there is no deadline.
Drained ==
  /\ stage = "draining"
  /\ Accepted = {}
  /\ Exit("EXIT_OK")
  /\ UNCHANGED <<pid1, load, handlers, sent, received, acceptor, asked, answered, verdict>>

------------------------------------------------------------------------------
(* The clients, the healthcheck among them *)

\* The kernel completes the handshake if the port is bound.
Connect(c) ==
  /\ conn[c] = "new"
  /\ IF stage = "serving"
     THEN conn' = [conn EXCEPT ![c] = "backlog"] /\ backlog' = Append(backlog, c)
     ELSE conn' = [conn EXCEPT ![c] = "refused"] /\ UNCHANGED backlog
  /\ UNCHANGED <<processVars, acceptor, asked, answered, verdict>>

\* The server reads the first bytes of a request, and later the rest.
SendPart(c) ==
  /\ conn[c] = "idle"
  /\ asked[c] < MaxRequests[c]
  /\ conn' = [conn EXCEPT ![c] = "partial"]
  /\ UNCHANGED <<processVars, acceptor, backlog, asked, answered, verdict>>

SendRest(c) ==
  /\ conn[c] = "partial"
  /\ conn' = [conn EXCEPT ![c] = "request"]
  /\ asked' = [asked EXCEPT ![c] = @ + 1]
  /\ UNCHANGED <<processVars, acceptor, backlog, answered, verdict>>

\* A client closes its connection; the healthcheck does so only on a timeout.
Leave(c) ==
  /\ c # Probe
  /\ conn[c] \in {"idle", "partial"}
  /\ conn' = [conn EXCEPT ![c] = "gone"]
  /\ UNCHANGED <<processVars, acceptor, backlog, asked, answered, verdict>>

\* It may also give up waiting for the server.
Abort(c) ==
  /\ c # Probe
  /\ conn[c] \in {"backlog", "request"}
  /\ conn' = [conn EXCEPT ![c] = "gone"]
  /\ UNCHANGED <<processVars, acceptor, backlog, asked, answered, verdict>>

------------------------------------------------------------------------------
(* cmd_healthcheck *)

\* The target has no address.
ResolveFails ==
  /\ conn[Probe] = "new"
  /\ conn' = [conn EXCEPT ![Probe] = "refused"]
  /\ UNCHANGED <<processVars, acceptor, backlog, asked, answered, verdict>>

\* read_to_end returns, with the 200 or without it, or the connect has failed.
ProbeEnds ==
  /\ verdict = "none"
  /\ conn[Probe] \in {"refused", "closed", "reset"}
  /\ verdict' = IF answered[Probe] > 0 THEN "healthy" ELSE "unhealthy"
  /\ UNCHANGED <<processVars, acceptor, backlog, clientVars>>

\* Mutant: set_read_timeout is left out and only a write can time out.
WriteTimeoutOnly ==
  /\ conn[Probe] = "partial"
  /\ verdict' = "unhealthy"
  /\ conn' = [conn EXCEPT ![Probe] = "gone"]
  /\ UNCHANGED <<processVars, acceptor, backlog, asked, answered>>

\* A connect, read or write has taken two seconds.
ProbeTimeout ==
  /\ conn[Probe] \in Open \cup {"backlog"}
  /\ verdict' = "unhealthy"
  /\ conn' = [conn EXCEPT ![Probe] = "gone"]
  /\ UNCHANGED <<processVars, acceptor, backlog, asked, answered>>

------------------------------------------------------------------------------
ServerStep ==
  \/ Load \/ Bind \/ Drain \/ Drained
  \/ Accept \/ AcceptFails \/ BackoffEnds
  \/ \E s \in Signals : Register(s)
  \/ \E c \in Clients : Answer(c) \/ CloseIdle(c)

Next ==
  \/ ServerStep
  \/ \E s \in Signals : Signal(s)
  \/ \E c \in Clients : Connect(c) \/ SendPart(c) \/ SendRest(c) \/ Leave(c) \/ Abort(c)
  \/ ResolveFails \/ ProbeEnds \/ ProbeTimeout

\* The process and the healthcheck run; nothing is assumed of clients and signals.
Fairness ==
  /\ WF_vars(Load) /\ WF_vars(Bind) /\ WF_vars(Drain) /\ WF_vars(Drained)
  /\ WF_vars(Accept \/ AcceptFails \/ BackoffEnds)
  /\ \A s \in Signals : WF_vars(Register(s))
  /\ \A c \in Clients : WF_vars(Answer(c) \/ CloseIdle(c))
  /\ WF_vars(ProbeEnds) /\ WF_vars(ProbeTimeout)

Spec == Init /\ [][Next]_vars /\ Fairness

------------------------------------------------------------------------------
\* The types; the backlog exists only while the listener does; no connection
\* gets more responses than it made requests.
ServerTypeOK ==
  /\ pid1 \in BOOLEAN
  /\ stage \in {"loading", "loaded", "serving", "draining", "exited"}
  /\ load \in {"none", "ok", "io", "data"}
  /\ exit \in {"none", "EXIT_OK", "EXIT_INVALID_DATA", "EXIT_IO", "killed"}
  /\ handlers \subseteq Signals /\ sent \subseteq Signals /\ received \subseteq handlers \cap sent
  /\ acceptor \in {"polling", "sleeping"}
  /\ backlog \in Seq(Clients) /\ (backlog # <<>> => stage = "serving")
  /\ conn \in [Clients -> Open \cup
       {"new", "backlog", "refused", "closed", "reset", "gone"}]
  /\ asked \in [Clients -> Nat] /\ answered \in [Clients -> Nat]
  /\ \A c \in Clients : answered[c] <= asked[c] /\ asked[c] <= MaxRequests[c]
  /\ verdict \in {"none", "healthy", "unhealthy"}

\* Traffic is held back until the data is loaded: whoever got through the
\* port, and a healthcheck that passed, met a process whose load succeeded.
ReadyOnlyWhenLoaded ==
  (verdict = "healthy" \/ \E c \in Clients : conn[c] \in Open \cup {"backlog", "closed"})
    => load = "ok"

\* Exit code 0 means that every request the server had read was answered, but
\* for clients that no longer waited.
GracefulExit ==
  exit = "EXIT_OK" =>
    \A c \in Clients : conn[c] = "gone" \/ answered[c] = asked[c]

\* Until a signal is sent the server closes no connection but the one whose
\* client asked for it: an accept error, or a client that leaves, costs the
\* others nothing.
ServesUntilSignalled ==
  [][\A c \in Clients \ {Probe} :
       conn[c] \in Open \cup {"backlog"} /\ sent' = {} => conn'[c] \notin {"closed", "reset"}]_vars

\* Every client sends the rest of a request it began, or closes, in the end.
ClientsFinish ==
  \A c \in Clients : WF_vars(SendRest(c) \/ Leave(c))

\* Running out of descriptors is passed: once clients leave, a connection
\* waiting to be accepted is.
AcceptsResume ==
  ClientsFinish => \A c \in Clients : conn[c] = "backlog" ~> conn[c] # "backlog"

\* Whatever the server and its clients do, the healthcheck returns.
HealthcheckEnds == conn[Probe] # "new" ~> verdict # "none"

\* Outside a container a signal stops the process, before it serves or after,
\* once the clients in the middle of a request have finished it.
StopsOnSignal ==
  ClientsFinish => (sent # {} /\ ~pid1 ~> exit # "none")

\* What server/mod.rs:99 and the design say of any process, the PID 1 of the
\* published image among them: a signal stops it.
SigtermStops ==
  ClientsFinish => ("SIGTERM" \in sent ~> exit # "none")
==============================================================================
