----------------------------- MODULE SSHRunner -----------------------------
(***************************************************************************)
(* cmd/bass/runner.go and pkg/runtimes/forward.go: `bass --runner` serves  *)
(* its runtimes to a remote host.  It dials, shakes hands, forwards each    *)
(* runtime (a gRPC server on a remote listener and a remote command that   *)
(* tells of it), waits for the goroutines of the connection's error group, *)
(* and dials again when they end.                                          *)
(*                                                                         *)
(* One SSHClient is used for all connections: Dial overwrites its fields   *)
(* ssh, conn and eg, which goroutines of an earlier connection may still   *)
(* read.  A connection is named by the number of the Dial that made it;    *)
(* `current` is what the fields hold.  Networks and hosts fail: Faults.    *)
(***************************************************************************)
EXTENDS Naturals, FiniteSets

CONSTANTS
  Assocs,    \* the runtimes of the pool
  MaxDials,  \* bound: connections made
  MaxFaults  \* bound: failures of the network, the host and its commands

Conns   == 1..MaxDials
Tunnels == Conns \X Assocs

ASSUME BoundsAssumption == MaxDials \in Nat /\ MaxFaults \in Nat

VARIABLES
  pc,         \* the goroutine of runnerLoop
  todo,       \* the runtimes that runner has yet to forward
  current,    \* the connection in the fields of the client, 0: none
  link,       \* the state of each connection
  keep,       \* the keepalive goroutine of each connection
  closes,     \* the connection that its deferred Close closes
  sentOn,     \* the connection its last request was sent on
  srv,        \* the gRPC server of each tunnel
  sess,       \* the goroutine that runs the remote command of each tunnel
  sessOn,     \* the connection that command runs on
  failed,     \* the connections whose error group has an error
  abandoned,  \* the connections that runner left because a Forward failed
  quiet,      \* the tunnels whose remote command has exited with status 0
  cancelled,  \* the context of runnerLoop is done
  faults

loopVars == <<pc, todo, current, abandoned>>
keepVars == <<keep, closes, sentOn>>
sessVars == <<sess, sessOn, quiet>>
vars     == <<loopVars, link, keepVars, srv, sessVars, failed, cancelled,
              faults>>

(* "stuck": the peer does not answer and nothing says so.                  *)
LinkStates == {"none", "up", "stuck", "closed"}

(* "spawned": not scheduled yet.  Of the keepalive, "loop": about to send; *)
(* "sent": in the first select; "idle": in the second.                     *)
KeepStates == {"none", "spawned", "loop", "sent", "idle", "ended"}

(* The variables keep their types, and a keepalive that runs has deferred   *)
(* the Close of a connection that was made.                                 *)
TypeOK ==
  /\ pc \in {"dial", "handshake", "stalled", "forward", "wait", "retry", "done"}
  /\ todo \in SUBSET Assocs
  /\ current \in 0..MaxDials
  /\ link \in [Conns -> LinkStates]
  /\ keep \in [Conns -> KeepStates]
  /\ closes \in [Conns -> 0..MaxDials]
  /\ \A c \in Conns : keep[c] \in {"loop", "sent", "idle"} => closes[c] # 0
  /\ sentOn \in [Conns -> 0..MaxDials]
  /\ srv \in [Tunnels -> {"none", "serving", "ended"}]
  /\ sess \in [Tunnels -> {"none", "spawned", "running", "ended"}]
  /\ sessOn \in [Tunnels -> 0..MaxDials]
  /\ failed \in SUBSET Conns
  /\ abandoned \in SUBSET Conns
  /\ quiet \in SUBSET Tunnels
  /\ cancelled \in BOOLEAN
  /\ faults \in 0..MaxFaults

Init ==
  /\ pc = "dial" /\ todo = {} /\ current = 0
  /\ link = [c \in Conns |-> "none"]
  /\ keep = [c \in Conns |-> "none"]
  /\ closes = [c \in Conns |-> 0]
  /\ sentOn = [c \in Conns |-> 0]
  /\ srv = [t \in Tunnels |-> "none"]
  /\ sess = [t \in Tunnels |-> "none"]
  /\ sessOn = [t \in Tunnels |-> 0]
  /\ failed = {} /\ abandoned = {} /\ quiet = {}
  /\ cancelled = FALSE /\ faults = 0

Fault == faults < MaxFaults /\ faults' = faults + 1

-----------------------------------------------------------------------------
(* runnerLoop and runner *)

(* tryDialAll: some host accepts the TCP connection, within ten seconds. *)
Dial ==
  /\ pc = "dial"
  /\ current < MaxDials
  /\ pc' = "handshake"
  /\ UNCHANGED <<todo, current, abandoned, link, keepVars, srv, sessVars, failed,
                 cancelled, faults>>

(* Or none does. *)
DialFails ==
  /\ pc = "dial"
  /\ Fault
  /\ pc' = "retry"
  /\ UNCHANGED <<todo, current, abandoned, link, keepVars, srv, sessVars,
                 failed, cancelled>>

(* ssh.NewClientConn returns: the fields are overwritten, and the keepalive *)
(* is spawned in a new error group.                                        *)
Connected ==
  /\ current' = current + 1
  /\ link' = [link EXCEPT ![current + 1] = "up"]
  /\ keep' = [keep EXCEPT ![current + 1] = "spawned"]
  /\ todo' = Assocs
  /\ pc' = "forward"
  /\ UNCHANGED <<closes, sentOn, srv, sessVars, failed, abandoned, cancelled,
                 faults>>

Handshake == pc = "handshake" /\ Connected

(* The peer refuses, or the connection breaks. *)
HandshakeFails ==
  /\ pc = "handshake"
  /\ Fault
  /\ pc' = "retry"
  /\ UNCHANGED <<todo, current, abandoned, link, keepVars, srv, sessVars,
                 failed, cancelled>>

(* The peer falls silent, or nobody answers whether its host key is to be  *)
(* trusted.  NewClientConn has no deadline and is not given the context.   *)
HandshakeStalls ==
  /\ pc = "handshake"
  /\ Fault
  /\ pc' = "stalled"
  /\ UNCHANGED <<todo, current, abandoned, link, keepVars, srv, sessVars,
                 failed, cancelled>>

(* It may go on all the same, or fail, at any time or never. *)
HandshakeResumes ==
  /\ pc = "stalled"
  /\ \/ Connected
     \/ /\ pc' = "retry"
        /\ UNCHANGED <<todo, current, abandoned, link, keepVars, srv, sessVars,
                       failed, cancelled, faults>>

(* Forward: the listener, the goroutine of Serve and the one of run. *)
Forward(a) ==
  /\ pc = "forward"
  /\ a \in todo
  /\ link[current] = "up"
  /\ todo' = todo \ {a}
  /\ srv' = [srv EXCEPT ![<<current, a>>] = "serving"]
  /\ sess' = [sess EXCEPT ![<<current, a>>] = "spawned"]
  /\ UNCHANGED <<pc, current, abandoned, link, keepVars, sessOn, quiet, failed,
                 cancelled, faults>>

(* Listen fails: runner returns without Wait and without Close. *)
ForwardFails ==
  /\ pc = "forward"
  /\ todo # {}
  /\ \/ link[current] = "closed" /\ UNCHANGED faults
     \/ link[current] = "up" /\ Fault
  /\ pc' = "retry"
  /\ abandoned' = abandoned \cup {current}
  /\ UNCHANGED <<todo, current, link, keepVars, srv, sessVars, failed,
                 cancelled>>

CallWait ==
  /\ pc = "forward"
  /\ todo = {}
  /\ pc' = "wait"
  /\ UNCHANGED <<todo, current, abandoned, link, keepVars, srv, sessVars, failed,
                 cancelled, faults>>

(* Mutant: Wait returns with the first error. *)
AnyEnded(c) == c \in failed

(* eg.Wait: every goroutine of the group has returned. *)
AllEnded(c) ==
  /\ keep[c] = "ended"
  /\ \A a \in Assocs : srv[<<c, a>>] \in {"none", "ended"}
                       /\ sess[<<c, a>>] \in {"none", "ended"}

(* With an error, which Retry takes as a reason to try again. *)
WaitReturns ==
  /\ pc = "wait"
  /\ AllEnded(current)
  /\ pc' = IF current \in failed THEN "retry" ELSE "done"
  /\ UNCHANGED <<todo, current, abandoned, link, keepVars, srv, sessVars, failed,
                 cancelled, faults>>

(* backoff.Retry: after the interval, unless the context is done. *)
Retry ==
  /\ pc = "retry"
  /\ pc' = IF cancelled THEN "done" ELSE "dial"
  /\ UNCHANGED <<todo, current, abandoned, link, keepVars, srv, sessVars, failed,
                 cancelled, faults>>

-----------------------------------------------------------------------------
(* The keepalive of connection c, whose context is the error group's *)

(* "defer client.ssh.Close()" evaluates client.ssh when the goroutine runs. *)
KeepStarts(c) ==
  /\ keep[c] = "spawned"
  /\ closes' = [closes EXCEPT ![c] = current]
  /\ keep' = [keep EXCEPT ![c] = "loop"]
  /\ UNCHANGED <<loopVars, link, sentOn, srv, sessVars, failed, cancelled,
                 faults>>

(* client.ssh.Conn.SendRequest, in a goroutine of its own. *)
KeepSends(c) ==
  /\ keep[c] = "loop"
  /\ sentOn' = [sentOn EXCEPT ![c] = current]
  /\ keep' = [keep EXCEPT ![c] = "sent"]
  /\ UNCHANGED <<loopVars, link, closes, srv, sessVars, failed, cancelled,
                 faults>>

KeepAnswered(c) ==
  /\ keep[c] = "sent"
  /\ link[sentOn[c]] = "up"
  /\ keep' = [keep EXCEPT ![c] = "idle"]
  /\ UNCHANGED <<loopVars, link, closes, sentOn, srv, sessVars, failed,
                 cancelled, faults>>

KeepTicks(c) ==
  /\ keep[c] = "idle"
  /\ keep' = [keep EXCEPT ![c] = "loop"]
  /\ UNCHANGED <<loopVars, link, closes, sentOn, srv, sessVars, failed,
                 cancelled, faults>>

(* Mutant: the connection is not closed. *)
KeepReturnsOnly(c) ==
  /\ keep' = [keep EXCEPT ![c] = "ended"]
  /\ failed' = failed \cup {c}
  /\ UNCHANGED <<loopVars, link, closes, sentOn, srv, sessVars, cancelled, faults>>

(* Every return is an error, and closes a connection. *)
KeepReturns(c) ==
  /\ keep' = [keep EXCEPT ![c] = "ended"]
  /\ link' = [link EXCEPT ![closes[c]] = "closed"]
  /\ failed' = failed \cup {c}
  /\ UNCHANGED <<loopVars, closes, sentOn, srv, sessVars, cancelled, faults>>

(* Mutant: no timeout. *)
KeepErrors(c) == keep[c] = "sent" /\ link[sentOn[c]] = "closed" /\ KeepReturns(c)

(* The request fails, or times out. *)
KeepFails(c) ==
  /\ keep[c] = "sent"
  /\ link[sentOn[c]] # "up"
  /\ KeepReturns(c)

KeepCancelled(c) ==
  /\ keep[c] = "idle"
  /\ cancelled \/ c \in failed
  /\ KeepReturns(c)

-----------------------------------------------------------------------------
(* The other goroutines of the error group *)

(* Serve returns an error when the listener's connection is closed. *)
ServeEnds(t) ==
  /\ srv[t] = "serving"
  /\ link[t[1]] = "closed"
  /\ srv' = [srv EXCEPT ![t] = "ended"]
  /\ failed' = failed \cup {t[1]}
  /\ UNCHANGED <<loopVars, link, keepVars, sessVars, cancelled, faults>>

(* run: NewSession and Start, on the connection the client has by now. *)
SessionStarts(t) ==
  /\ sess[t] = "spawned"
  /\ \/ /\ link[current] = "up"
        /\ sess' = [sess EXCEPT ![t] = "running"]
        /\ sessOn' = [sessOn EXCEPT ![t] = current]
        /\ UNCHANGED failed
     \/ /\ link[current] = "closed"
        /\ sess' = [sess EXCEPT ![t] = "ended"]
        /\ failed' = failed \cup {t[1]}
        /\ UNCHANGED sessOn
  /\ UNCHANGED <<loopVars, link, keepVars, srv, quiet, cancelled, faults>>

(* The session breaks with its connection. *)
SessionLost(t) ==
  /\ sess[t] = "running"
  /\ link[sessOn[t]] = "closed"
  /\ sess' = [sess EXCEPT ![t] = "ended"]
  /\ failed' = failed \cup {t[1]}
  /\ UNCHANGED <<loopVars, link, keepVars, srv, sessOn, quiet, cancelled,
                 faults>>

(* The remote command exits: with an error, or without, which ends this    *)
(* goroutine and nothing else.                                             *)
SessionExits(t) ==
  /\ sess[t] = "running"
  /\ link[sessOn[t]] = "up"
  /\ Fault
  /\ sess' = [sess EXCEPT ![t] = "ended"]
  /\ \/ failed' = failed \cup {t[1]} /\ UNCHANGED quiet
     \/ quiet' = quiet \cup {t} /\ UNCHANGED failed
  /\ UNCHANGED <<loopVars, link, keepVars, srv, sessOn, cancelled>>

(* case <-ctx.Done(): the context of runnerLoop, not the error group's. *)
SessionStops(t) ==
  /\ sess[t] = "running"
  /\ cancelled
  /\ sess' = [sess EXCEPT ![t] = "ended"]
  /\ UNCHANGED <<loopVars, link, keepVars, srv, sessOn, quiet, failed, cancelled,
                 faults>>

-----------------------------------------------------------------------------
(* The connection is lost, or goes silent. *)
LinkFails(c) ==
  /\ link[c] = "up"
  /\ Fault
  /\ \E broken \in {"stuck", "closed"} : link' = [link EXCEPT ![c] = broken]
  /\ UNCHANGED <<loopVars, keepVars, srv, sessVars, failed, cancelled>>

Cancel ==
  /\ ~cancelled
  /\ cancelled' = TRUE
  /\ UNCHANGED <<loopVars, link, keepVars, srv, sessVars, failed, faults>>

LoopStep ==
  \/ Dial \/ Handshake \/ ForwardFails \/ CallWait \/ WaitReturns \/ Retry
  \/ \E a \in Assocs : Forward(a)

KeepStep(c) ==
  KeepStarts(c) \/ KeepSends(c) \/ KeepAnswered(c) \/ KeepTicks(c)
  \/ KeepFails(c)

TunnelStep(t) ==
  ServeEnds(t) \/ SessionStarts(t) \/ SessionLost(t) \/ SessionStops(t)

Next ==
  \/ LoopStep \/ DialFails \/ HandshakeFails \/ HandshakeStalls \/ HandshakeResumes
  \/ \E c \in Conns : KeepStep(c) \/ KeepCancelled(c) \/ LinkFails(c)
  \/ \E t \in Tunnels : TunnelStep(t) \/ SessionExits(t)
  \/ Cancel

Spec == Init /\ [][Next]_vars

(* The scheduler; a request is answered or times out; the select of the    *)
(* keepalive is left by the context in the end, the ticker is rarely ready. *)
(* Nothing makes a stalled handshake go on.                                *)
Fairness ==
  /\ WF_vars(LoopStep)
  /\ \A c \in Conns : WF_vars(KeepStep(c)) /\ SF_vars(KeepCancelled(c))
  /\ \A t \in Tunnels :
       /\ WF_vars(ServeEnds(t))
       /\ WF_vars(SessionStarts(t) \/ SessionLost(t) \/ SessionStops(t))

FairSpec == Spec /\ Fairness

-----------------------------------------------------------------------------
(* The keepalive began only after a later Dial had overwritten the client. *)
Late(c) == closes[c] \notin {0, c}

(* Every connection but the current one has been closed: Wait does not     *)
(* return before the keepalive has closed it.  The exceptions are those    *)
(* that a failed Forward abandoned.                                        *)
NoneLeftBehind ==
  \A c \in Conns :
    link[c] \in {"up", "stuck"} => c = current \/ c \in abandoned

(* "If any of them fail, the rest will be interrupted, and Wait will       *)
(* return": also when goroutines of earlier connections use this client.   *)
FailureEndsWait == (pc = "wait" /\ current \in failed) ~> pc # "wait"

(* The runner serves its runtimes again after each fault, unless it was    *)
(* cancelled, is stuck in a handshake (HandshakeStalls), or waits for a    *)
(* connection over which a remote command exited with status 0 (then Wait  *)
(* goes on until the connection breaks, and one after it serves again).    *)
Serving ==
  /\ pc = "wait" /\ link[current] = "up"
  /\ \A a \in Assocs :
       /\ srv[<<current, a>>] = "serving"
       /\ sess[<<current, a>>] = "running" /\ sessOn[<<current, a>>] = current

Quiet == pc = "wait" /\ \E a \in Assocs : <<current, a>> \in quiet

KeepsServing == []<>(Serving \/ cancelled \/ pc = "stalled" \/ Quiet)

(* A cancelled runner returns, and everything it set up on any connection  *)
(* ends, unless some keepalive began too late to close its own connection. *)
(* A handshake that never ends is the one thing that keeps it: the         *)
(* cancellation does not reach it.                                         *)
CancelEndsAll ==
  []<>(pc # "stalled") =>
    (cancelled ~>
       /\ pc = "done"
       /\ \/ \E c \in Conns : Late(c)
          \/ \A c \in Conns : link[c] \in {"none", "closed"}
                              /\ (keep[c] = "none" \/ AllEnded(c)))
=============================================================================
