----------------------------- MODULE ServerProofs ----------------------------
(* Proofs about Server: what its life keeps true of the load, of the          *)
(* connections and of the exit code, whatever clients, signals and the        *)
(* healthcheck do.                                                            *)
EXTENDS Server, TLAPS

\* Stages in which the port has not been bound.
Unbound == {"loading", "loaded"}

\* Until the load has succeeded nobody gets through, nor does after it failed.
NotLoaded ==
  /\ stage = "loading" => load = "none"
  /\ load # "ok" => /\ stage \in {"loading", "exited"}
                    /\ \A c \in Clients : conn[c] \in {"new", "refused"} /\ answered[c] = 0
                    /\ verdict # "healthy"

\* A connection is made only to a bound port.
NotBound == stage \in Unbound => \A c \in Clients : conn[c] \in {"new", "refused"}

\* The server owes a response only for a request it has read in full; one that
\* was reset by the end of the process may be owed, but not after a clean end.
Owed ==
  \A c \in Clients :
    /\ conn[c] \in {"new", "backlog", "idle", "partial", "closed", "refused"} =>
         answered[c] = asked[c]
    /\ conn[c] = "partial" => asked[c] < MaxRequests[c]
    /\ conn[c] = "request" => answered[c] + 1 = asked[c]
    /\ conn[c] = "reset" /\ exit \in {"none", "EXIT_OK"} => answered[c] = asked[c]

\* The process ends with an exit code and holds no connection afterwards.
Ended ==
  /\ exit # "none" <=> stage = "exited"
  /\ stage = "exited" => \A c \in Clients : conn[c] \notin Open \cup {"backlog"}

\* It drains only because of a signal.
DrainsOnSignal == stage = "draining" => Signalled

ServerIInv ==
  /\ ServerTypeOK /\ NotLoaded /\ NotBound /\ Owed /\ Ended /\ DrainsOnSignal

------------------------------------------------------------------------------
(* One lemma per action *)

\* What is done to the backlog leaves a sequence of clients.
LEMMA Queues ==
  ASSUME NEW queue \in Seq(Clients)
  PROVE  /\ <<>> \in Seq(Clients)
         /\ queue # <<>> => Tail(queue) \in Seq(Clients)
         /\ \A c \in Clients : Append(queue, c) \in Seq(Clients)
OBVIOUS

\* A load that fails ends the process before anybody could connect.
LEMMA LoadStep ==
  ASSUME ServerIInv, Load
  PROVE  ServerIInv'
<1> USE ServerAssumption DEF ServerIInv, ServerTypeOK, Load, Exit, processVars, clientVars,
        Open, Unbound, Signals
<1>1. ServerTypeOK'
  BY DEF Owed, Accepted, NotBound
<1>2. NotLoaded' /\ NotBound'
  BY DEF NotLoaded, NotBound, Ended
<1>3. Owed'
  BY DEF Owed, Accepted, Ended, NotBound
<1>4. Ended' /\ DrainsOnSignal'
  BY DEF Ended, DrainsOnSignal, Signalled, NotBound, Accepted
<1> QED
  BY <1>1, <1>2, <1>3, <1>4

\* A bind that fails ends the process before anybody could connect.
LEMMA BindStep ==
  ASSUME ServerIInv, Bind
  PROVE  ServerIInv'
<1> USE ServerAssumption DEF ServerIInv, ServerTypeOK, Bind, Exit, processVars, clientVars,
        Open, Unbound, Signals
<1>1. ServerTypeOK'
  BY DEF Owed, Accepted, NotBound
<1>2. NotLoaded' /\ NotBound'
  BY DEF NotLoaded, NotBound, Ended
<1>3. Owed'
  BY DEF Owed, Accepted, Ended, NotBound
<1>4. Ended' /\ DrainsOnSignal'
  BY DEF Ended, DrainsOnSignal, Signalled, NotBound, Accepted
<1> QED
  BY <1>1, <1>2, <1>3, <1>4

\* Registering a handler disturbs no connection.
LEMMA RegisterStep ==
  ASSUME ServerIInv, NEW s \in Signals, Register(s)
  PROVE  ServerIInv'
<1> USE ServerAssumption DEF ServerIInv, ServerTypeOK, Register, processVars, clientVars,
        Open, Unbound, Signals
<1>1. ServerTypeOK'
  BY DEF Owed, Accepted, NotBound
<1>2. NotLoaded' /\ NotBound'
  BY DEF NotLoaded, NotBound, Ended
<1>3. Owed'
  BY DEF Owed, Accepted, Ended, NotBound
<1>4. Ended' /\ DrainsOnSignal'
  BY DEF Ended, DrainsOnSignal, Signalled, NotBound, Accepted
<1> QED
  BY <1>1, <1>2, <1>3, <1>4

\* A signal is handled, dropped, or ends the process and resets what is open.
LEMMA SignalStep ==
  ASSUME ServerIInv, NEW s \in Signals, Signal(s)
  PROVE  ServerIInv'
<1> USE ServerAssumption DEF ServerIInv, ServerTypeOK, Signal, Exit, processVars, clientVars,
        Open, Unbound, Signals
<1>1. ServerTypeOK'
  <2>1. sent' \subseteq Signals /\ received' \subseteq handlers' \cap sent'
    OBVIOUS
  <2>2. conn' \in [Clients -> Open \cup
          {"new", "backlog", "refused", "closed", "reset", "gone"}]
    OBVIOUS
  <2>3. backlog' \in Seq(Clients) /\ (backlog' # <<>> => stage' = "serving")
    BY Queues
  <2>4. /\ stage' \in {"loading", "loaded", "serving", "draining", "exited"}
        /\ exit' \in {"none", "EXIT_OK", "EXIT_INVALID_DATA", "EXIT_IO", "killed"}
    OBVIOUS
  <2> QED
    BY <2>1, <2>2, <2>3, <2>4
<1>2. NotLoaded'
  BY DEF NotLoaded, Ended
<1>3. NotBound'
  BY DEF NotBound, Ended
<1>4. Owed'
  <2>1. CASE conn' = conn /\ exit' = exit
    BY <2>1 DEF Owed
  <2>2. CASE Exit("killed")
    BY <2>2 DEF Owed
  <2> QED
    BY <2>1, <2>2
<1>5. Ended' /\ DrainsOnSignal'
  BY DEF Ended, DrainsOnSignal, Signalled, NotBound, Accepted
<1> QED
  BY <1>1, <1>2, <1>3, <1>4, <1>5

\* A connection that is accepted is owed nothing.
LEMMA AcceptStep ==
  ASSUME ServerIInv, Accept
  PROVE  ServerIInv'
<1> USE ServerAssumption DEF ServerIInv, ServerTypeOK, Accept, processVars, clientVars,
        Open, Unbound, Signals
<1>1. ServerTypeOK'
  BY DEF Owed, Accepted, NotBound
<1>2. NotLoaded' /\ NotBound'
  BY DEF NotLoaded, NotBound, Ended
<1>3. Owed'
  BY DEF Owed, Accepted, Ended, NotBound
<1>4. Ended' /\ DrainsOnSignal'
  BY DEF Ended, DrainsOnSignal, Signalled, NotBound, Accepted
<1> QED
  BY <1>1, <1>2, <1>3, <1>4

\* A failed accept costs at most the connection that its client reset.
LEMMA AcceptFailsStep ==
  ASSUME ServerIInv, AcceptFails
  PROVE  ServerIInv'
<1> USE ServerAssumption DEF ServerIInv, ServerTypeOK, AcceptFails, processVars, clientVars,
        Open, Unbound, Signals
<1>1. ServerTypeOK'
  <2>1. backlog' \in {backlog, Tail(backlog)} /\ backlog # <<>> /\ stage = "serving"
    OBVIOUS
  <2>2. backlog' \in Seq(Clients)
    BY <2>1, Queues
  <2> QED
    BY <2>1, <2>2
<1>2. NotLoaded' /\ NotBound'
  BY DEF NotLoaded, NotBound, Ended
<1>3. Owed'
  BY DEF Owed, Accepted, Ended, NotBound
<1>4. Ended' /\ DrainsOnSignal'
  BY DEF Ended, DrainsOnSignal, Signalled, NotBound, Accepted
<1> QED
  BY <1>1, <1>2, <1>3, <1>4

\* The end of a backoff disturbs nothing.
LEMMA BackoffEndsStep ==
  ASSUME ServerIInv, BackoffEnds
  PROVE  ServerIInv'
<1> USE ServerAssumption DEF ServerIInv, ServerTypeOK, BackoffEnds, processVars, clientVars,
        Open, Unbound, Signals
<1>1. ServerTypeOK'
  BY DEF Owed, Accepted, NotBound
<1>2. NotLoaded' /\ NotBound'
  BY DEF NotLoaded, NotBound, Ended
<1>3. Owed'
  BY DEF Owed, Accepted, Ended, NotBound
<1>4. Ended' /\ DrainsOnSignal'
  BY DEF Ended, DrainsOnSignal, Signalled, NotBound, Accepted
<1> QED
  BY <1>1, <1>2, <1>3, <1>4

\* A response settles the request that was read.
LEMMA AnswerStep ==
  ASSUME ServerIInv, NEW c \in Clients, Answer(c)
  PROVE  ServerIInv'
<1> USE ServerAssumption DEF ServerIInv, ServerTypeOK, Answer, processVars, clientVars,
        Open, Unbound, Signals
<1>1. ServerTypeOK'
  BY DEF Owed, Accepted, NotBound
<1>2. NotLoaded' /\ NotBound'
  BY DEF NotLoaded, NotBound, Ended
<1>3. Owed'
  BY DEF Owed, Accepted, Ended, NotBound
<1>4. Ended' /\ DrainsOnSignal'
  BY DEF Ended, DrainsOnSignal, Signalled, NotBound, Accepted
<1> QED
  BY <1>1, <1>2, <1>3, <1>4

\* A connection that is closed while idle is owed nothing.
LEMMA CloseIdleStep ==
  ASSUME ServerIInv, NEW c \in Clients, CloseIdle(c)
  PROVE  ServerIInv'
<1> USE ServerAssumption DEF ServerIInv, ServerTypeOK, CloseIdle, processVars, clientVars,
        Open, Unbound, Signals
<1>1. ServerTypeOK'
  BY DEF Owed, Accepted, NotBound
<1>2. NotLoaded' /\ NotBound'
  BY DEF NotLoaded, NotBound, Ended
<1>3. Owed'
  BY DEF Owed, Accepted, Ended, NotBound
<1>4. Ended' /\ DrainsOnSignal'
  BY DEF Ended, DrainsOnSignal, Signalled, NotBound, Accepted
<1> QED
  BY <1>1, <1>2, <1>3, <1>4

\* Dropping the listener resets connections that were not accepted.
LEMMA DrainStep ==
  ASSUME ServerIInv, Drain
  PROVE  ServerIInv'
<1> USE ServerAssumption DEF ServerIInv, ServerTypeOK, Drain, processVars, clientVars,
        Open, Unbound, Signals
<1>1. ServerTypeOK'
  BY DEF Owed, Accepted, NotBound
<1>2. NotLoaded' /\ NotBound'
  BY DEF NotLoaded, NotBound, Ended
<1>3. Owed'
  BY DEF Owed, Accepted, Ended, NotBound
<1>4. Ended' /\ DrainsOnSignal'
  BY DEF Ended, DrainsOnSignal, Signalled, NotBound, Accepted
<1> QED
  BY <1>1, <1>2, <1>3, <1>4

\* The process ends cleanly when no connection is left.
LEMMA DrainedStep ==
  ASSUME ServerIInv, Drained
  PROVE  ServerIInv'
<1> USE ServerAssumption DEF ServerIInv, ServerTypeOK, Drained, Exit, processVars, clientVars,
        Open, Unbound, Signals
<1>1. ServerTypeOK'
  BY DEF Owed, Accepted, NotBound
<1>2. NotLoaded' /\ NotBound'
  BY DEF NotLoaded, NotBound, Ended
<1>3. Owed'
  BY DEF Owed, Accepted, Ended, NotBound
<1>4. Ended' /\ DrainsOnSignal'
  BY DEF Ended, DrainsOnSignal, Signalled, NotBound, Accepted
<1> QED
  BY <1>1, <1>2, <1>3, <1>4

\* A client is queued if the port is bound and refused if not.
LEMMA ConnectStep ==
  ASSUME ServerIInv, NEW c \in Clients, Connect(c)
  PROVE  ServerIInv'
<1> USE ServerAssumption DEF ServerIInv, ServerTypeOK, Connect, processVars, clientVars,
        Open, Unbound, Signals
<1>1. ServerTypeOK'
  <2>1. conn' \in [Clients -> Open \cup
          {"new", "backlog", "refused", "closed", "reset", "gone"}]
    OBVIOUS
  <2>2. backlog' \in Seq(Clients) /\ (backlog' # <<>> => stage' = "serving")
    <3>1. CASE stage = "serving"
      <4>1. backlog' = Append(backlog, c) /\ stage' = stage
        BY <3>1
      <4> QED
        BY <3>1, <4>1, Queues
    <3>2. CASE stage # "serving"
      BY <3>2
    <3> QED
      BY <3>1, <3>2
  <2> QED
    BY <2>1, <2>2
<1>2. NotLoaded' /\ NotBound'
  BY DEF NotLoaded, NotBound, Ended
<1>3. Owed'
  BY DEF Owed, Accepted, Ended, NotBound
<1>4. Ended' /\ DrainsOnSignal'
  BY DEF Ended, DrainsOnSignal, Signalled, NotBound, Accepted
<1> QED
  BY <1>1, <1>2, <1>3, <1>4

\* A client begins a request it is allowed.
LEMMA SendPartStep ==
  ASSUME ServerIInv, NEW c \in Clients, SendPart(c)
  PROVE  ServerIInv'
<1> USE ServerAssumption DEF ServerIInv, ServerTypeOK, SendPart, processVars, clientVars,
        Open, Unbound, Signals
<1>1. ServerTypeOK'
  BY DEF Owed, Accepted, NotBound
<1>2. NotLoaded' /\ NotBound'
  BY DEF NotLoaded, NotBound, Ended
<1>3. Owed'
  BY DEF Owed, Accepted, Ended, NotBound
<1>4. Ended' /\ DrainsOnSignal'
  BY DEF Ended, DrainsOnSignal, Signalled, NotBound, Accepted
<1> QED
  BY <1>1, <1>2, <1>3, <1>4

\* A request read in full is owed a response.
LEMMA SendRestStep ==
  ASSUME ServerIInv, NEW c \in Clients, SendRest(c)
  PROVE  ServerIInv'
<1> USE ServerAssumption DEF ServerIInv, ServerTypeOK, SendRest, processVars, clientVars,
        Open, Unbound, Signals
<1>1. ServerTypeOK'
  <2>1. /\ asked[c] + 1 \in Nat /\ asked[c] + 1 <= MaxRequests[c]
        /\ answered[c] <= asked[c] + 1
    <3>1. /\ asked[c] \in Nat /\ answered[c] \in Nat /\ MaxRequests[c] \in Nat
          /\ answered[c] <= asked[c]
      OBVIOUS
    <3>2. asked[c] < MaxRequests[c]
      BY DEF Owed
    <3>3. \A x, y, z \in Nat : y <= x /\ x < z => x + 1 \in Nat /\ x + 1 <= z /\ y <= x + 1
      OBVIOUS
    <3> QED
      BY <3>1, <3>2, <3>3, Zenon
  <2>2. asked' \in [Clients -> Nat]
    BY <2>1
  <2>3. \A d \in Clients : answered'[d] <= asked'[d] /\ asked'[d] <= MaxRequests[d]
    BY <2>1
  <2> QED
    BY <2>2, <2>3
<1>2. NotLoaded' /\ NotBound'
  BY DEF NotLoaded, NotBound, Ended
<1>3. Owed'
  BY DEF Owed, Accepted, Ended, NotBound
<1>4. Ended' /\ DrainsOnSignal'
  BY DEF Ended, DrainsOnSignal, Signalled, NotBound, Accepted
<1> QED
  BY <1>1, <1>2, <1>3, <1>4

\* A client that leaves is owed nothing.
LEMMA LeaveStep ==
  ASSUME ServerIInv, NEW c \in Clients, Leave(c)
  PROVE  ServerIInv'
<1> USE ServerAssumption DEF ServerIInv, ServerTypeOK, Leave, processVars, clientVars,
        Open, Unbound, Signals
<1>1. ServerTypeOK'
  BY DEF Owed, Accepted, NotBound
<1>2. NotLoaded' /\ NotBound'
  BY DEF NotLoaded, NotBound, Ended
<1>3. Owed'
  BY DEF Owed, Accepted, Ended, NotBound
<1>4. Ended' /\ DrainsOnSignal'
  BY DEF Ended, DrainsOnSignal, Signalled, NotBound, Accepted
<1> QED
  BY <1>1, <1>2, <1>3, <1>4

\* A client that gives up no longer waits for what it is owed.
LEMMA AbortStep ==
  ASSUME ServerIInv, NEW c \in Clients, Abort(c)
  PROVE  ServerIInv'
<1> USE ServerAssumption DEF ServerIInv, ServerTypeOK, Abort, processVars, clientVars,
        Open, Unbound, Signals
<1>1. ServerTypeOK'
  BY DEF Owed, Accepted, NotBound
<1>2. NotLoaded' /\ NotBound'
  BY DEF NotLoaded, NotBound, Ended
<1>3. Owed'
  BY DEF Owed, Accepted, Ended, NotBound
<1>4. Ended' /\ DrainsOnSignal'
  BY DEF Ended, DrainsOnSignal, Signalled, NotBound, Accepted
<1> QED
  BY <1>1, <1>2, <1>3, <1>4

\* A healthcheck that finds no address makes no connection.
LEMMA ResolveFailsStep ==
  ASSUME ServerIInv, ResolveFails
  PROVE  ServerIInv'
<1> USE ServerAssumption DEF ServerIInv, ServerTypeOK, ResolveFails, processVars, clientVars,
        Open, Unbound, Signals
<1>1. ServerTypeOK'
  BY DEF Owed, Accepted, NotBound
<1>2. NotLoaded' /\ NotBound'
  BY DEF NotLoaded, NotBound, Ended
<1>3. Owed'
  BY DEF Owed, Accepted, Ended, NotBound
<1>4. Ended' /\ DrainsOnSignal'
  BY DEF Ended, DrainsOnSignal, Signalled, NotBound, Accepted
<1> QED
  BY <1>1, <1>2, <1>3, <1>4

\* The healthcheck is healthy only if it got a response.
LEMMA ProbeEndsStep ==
  ASSUME ServerIInv, ProbeEnds
  PROVE  ServerIInv'
<1> USE ServerAssumption DEF ServerIInv, ServerTypeOK, ProbeEnds, processVars, clientVars,
        Open, Unbound, Signals
<1>1. ServerTypeOK'
  BY DEF Owed, Accepted, NotBound
<1>2. NotLoaded' /\ NotBound'
  BY DEF NotLoaded, NotBound, Ended
<1>3. Owed'
  BY DEF Owed, Accepted, Ended, NotBound
<1>4. Ended' /\ DrainsOnSignal'
  BY DEF Ended, DrainsOnSignal, Signalled, NotBound, Accepted
<1> QED
  BY <1>1, <1>2, <1>3, <1>4

\* A healthcheck that waits too long gives up.
LEMMA ProbeTimeoutStep ==
  ASSUME ServerIInv, ProbeTimeout
  PROVE  ServerIInv'
<1> USE ServerAssumption DEF ServerIInv, ServerTypeOK, ProbeTimeout, processVars, clientVars,
        Open, Unbound, Signals
<1>1. ServerTypeOK'
  BY DEF Owed, Accepted, NotBound
<1>2. NotLoaded' /\ NotBound'
  BY DEF NotLoaded, NotBound, Ended
<1>3. Owed'
  BY DEF Owed, Accepted, Ended, NotBound
<1>4. Ended' /\ DrainsOnSignal'
  BY DEF Ended, DrainsOnSignal, Signalled, NotBound, Accepted
<1> QED
  BY <1>1, <1>2, <1>3, <1>4

------------------------------------------------------------------------------
(* The theorems *)

\* The invariant holds at the start.
LEMMA InitServerIInv == Init => ServerIInv
<1> SUFFICES ASSUME Init PROVE ServerIInv
  OBVIOUS
<1> USE ServerAssumption DEF Init
<1>1. ServerTypeOK
  BY DEF ServerTypeOK, Open, Signals
<1>2. NotLoaded /\ NotBound /\ Owed /\ Ended /\ DrainsOnSignal
  BY DEF NotLoaded, NotBound, Owed, Ended, DrainsOnSignal, Open, Unbound
<1> QED
  BY <1>1, <1>2 DEF ServerIInv

\* Every step preserves it.
LEMMA NextServerIInv == ServerIInv /\ [Next]_vars => ServerIInv'
<1> SUFFICES ASSUME ServerIInv, [Next]_vars PROVE ServerIInv'
  OBVIOUS
<1>1. CASE ServerStep
  BY <1>1, LoadStep, BindStep, DrainStep, DrainedStep, AcceptStep, AcceptFailsStep,
     BackoffEndsStep, RegisterStep, AnswerStep, CloseIdleStep DEF ServerStep
<1>2. ASSUME NEW s \in Signals, Signal(s) PROVE ServerIInv'
  BY <1>2, SignalStep
<1>3. ASSUME NEW c \in Clients,
             Connect(c) \/ SendPart(c) \/ SendRest(c) \/ Leave(c) \/ Abort(c)
      PROVE  ServerIInv'
  BY <1>3, ConnectStep, SendPartStep, SendRestStep, LeaveStep, AbortStep
<1>4. CASE ResolveFails \/ ProbeEnds \/ ProbeTimeout
  BY <1>4, ResolveFailsStep, ProbeEndsStep, ProbeTimeoutStep
<1>5. CASE UNCHANGED vars
  BY <1>5 DEF vars, processVars, clientVars, ServerIInv, ServerTypeOK, NotLoaded,
     NotBound, Owed, Ended, DrainsOnSignal, Signalled
<1> QED
  BY <1>1, <1>2, <1>3, <1>4, <1>5 DEF Next

\* The invariant holds in every reachable state, fairness or not.
THEOREM ServerInvariance == Spec => []ServerIInv
BY InitServerIInv, NextServerIInv, PTL DEF Spec

\* The types, the life of the backlog, and no more responses than requests, for
\* any number of clients and requests.
THEOREM ServerTypeCorrect == Spec => []ServerTypeOK
<1>1. ServerIInv => ServerTypeOK
  BY DEF ServerIInv
<1> QED
  BY <1>1, ServerInvariance, PTL

\* Whoever got through the port, and a healthcheck that passed, met a process
\* whose load succeeded (the doc comment of run, server/mod.rs:99-103).
THEOREM Readiness == Spec => []ReadyOnlyWhenLoaded
<1>1. ServerIInv => ReadyOnlyWhenLoaded
  BY DEF ServerIInv, NotLoaded, ReadyOnlyWhenLoaded, Open
<1> QED
  BY <1>1, ServerInvariance, PTL

\* Exit code 0 means that nobody who still waited was left without a response
\* (with_graceful_shutdown, server/mod.rs:112).
THEOREM Graceful == Spec => []GracefulExit
<1>1. ServerIInv => GracefulExit
  BY DEF ServerIInv, ServerTypeOK, Owed, Ended, GracefulExit, Open
<1> QED
  BY <1>1, ServerInvariance, PTL

\* No step closes a connection of a client's before a signal is sent.
LEMMA KeepsServing ==
  ASSUME ServerIInv, [Next]_vars, sent' = {}, NEW c \in Clients \ {Probe},
         conn[c] \in Open \cup {"backlog"}
  PROVE  conn'[c] \notin {"closed", "reset"}
<1> USE ServerAssumption DEF ServerIInv, ServerTypeOK, Open
<1>1. stage \notin Unbound
  BY DEF NotBound
<1>2. CASE Load \/ Bind
  BY <1>1, <1>2 DEF Load, Bind, Unbound
<1>3. ASSUME NEW s \in Signals, Signal(s) PROVE FALSE
  BY <1>3 DEF Signal
<1>4. received = {} \/ \E s \in Signals : Signal(s)
  <2>1. sent' = sent \/ \E s \in Signals : Signal(s)
    BY DEF Next, ServerStep, vars, processVars, Load, Bind, Drain, Drained, Accept,
       AcceptFails, BackoffEnds, Register, Answer, CloseIdle, Connect, SendPart,
       SendRest, Leave, Abort, ResolveFails, ProbeEnds, ProbeTimeout
  <2> QED
    BY <2>1
<1>5. CASE Drain \/ Drained
  BY <1>3, <1>4, <1>5 DEF Drain, Drained, DrainsOnSignal, Signalled
<1>6. ASSUME NEW d \in Clients, Answer(d) \/ CloseIdle(d)
      PROVE  conn'[c] \notin {"closed", "reset"}
  <2>1. ~Signalled
    BY <1>3, <1>4 DEF Signalled
  <2>2. CASE d = c
    BY <1>6, <2>1, <2>2 DEF Answer, CloseIdle
  <2>3. CASE d # c
    BY <1>6, <2>3 DEF Answer, CloseIdle
  <2> QED
    BY <2>2, <2>3
<1>7. CASE Accept \/ AcceptFails \/ BackoffEnds \/ (\E s \in Signals : Register(s))
  BY <1>7 DEF Accept, AcceptFails, BackoffEnds, Register, clientVars, processVars
<1>8. ASSUME NEW d \in Clients,
             Connect(d) \/ SendPart(d) \/ SendRest(d) \/ Leave(d) \/ Abort(d)
      PROVE  conn'[c] \notin {"closed", "reset"}
  BY <1>8 DEF Connect, SendPart, SendRest, Leave, Abort
<1>9. CASE ResolveFails \/ ProbeEnds \/ ProbeTimeout \/ UNCHANGED vars
  BY <1>9 DEF ResolveFails, ProbeEnds, ProbeTimeout, vars, clientVars
<1> QED
  BY <1>2, <1>3, <1>5, <1>6, <1>7, <1>8, <1>9 DEF Next, ServerStep

\* Until a signal is sent the server closes no connection that its client did
\* not ask it to close: no accept error ends the loop (server/mod.rs:55-68).
THEOREM ServesOn == Spec => ServesUntilSignalled
<1>1. ServerIInv /\ [Next]_vars =>
        [\A c \in Clients \ {Probe} :
           conn[c] \in Open \cup {"backlog"} /\ sent' = {} =>
             conn'[c] \notin {"closed", "reset"}]_vars
  BY KeepsServing
<1> QED
  BY <1>1, ServerInvariance, PTL DEF Spec, ServesUntilSignalled
==============================================================================
