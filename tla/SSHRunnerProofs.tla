-------------------------- MODULE SSHRunnerProofs --------------------------
(***************************************************************************)
(* No connection is left behind, for any number of dials, runtimes and     *)
(* faults: before the client dials again, the keepalive of the connection  *)
(* it has had closed it, unless a failed Forward abandoned it.  A          *)
(* keepalive that begins late closes another connection than its own; the  *)
(* argument is that only those of abandoned connections can.               *)
(***************************************************************************)
EXTENDS SSHRunner, TLAPS

(* The keepalive of c has evaluated client.ssh. *)
Began(c) == keep[c] \in {"loop", "sent", "idle", "ended"}

(* Connections are made in order: what Dial has yet to make is untouched,  *)
(* and nobody is to close it.                                              *)
NotYetDialed ==
  \A c \in Conns : /\ c > current => link[c] = "none" /\ keep[c] = "none"
                   /\ closes[c] <= current

(* Runtimes are forwarded, and goroutines awaited, over a connection, and  *)
(* a handshake has one to make.                                            *)
HasConnection ==
  /\ pc \in {"forward", "wait"} => current # 0
  /\ pc \in {"handshake", "stalled"} => current < MaxDials

(* A keepalive that begins while its connection is the client's closes     *)
(* that one; all but those of abandoned connections do.                    *)
ClosesItsOwn ==
  \A c \in Conns : Began(c) /\ c \notin abandoned => closes[c] = c

(* When it has returned, the connection is closed. *)
EndedIsClosed ==
  \A c \in Conns : keep[c] = "ended" /\ c \notin abandoned => link[c] = "closed"

(* The client goes on to another connection, or stops, when the keepalive  *)
(* of the one it has had has returned.                                     *)
Left(c) == c < current \/ (c = current /\ pc \notin {"forward", "wait"})

LeftHasEnded ==
  \A c \in Conns : Left(c) => keep[c] = "ended" \/ c \in abandoned

Safety ==
  NotYetDialed /\ HasConnection /\ ClosesItsOwn /\ EndedIsClosed /\ LeftHasEnded

IInv == TypeOK /\ Safety

USE BoundsAssumption

(* Before the first Dial there is no connection. *)
LEMMA InitIInv == Init => IInv
<1>1. ASSUME Init PROVE TypeOK
  <2>1. 0 \in 0..MaxDials /\ 0 \in 0..MaxFaults
    OBVIOUS
  <2>2. cancelled \in BOOLEAN
    BY <1>1 DEF Init
  <2> QED
    BY <1>1, <2>1, <2>2 DEF Init, TypeOK, LinkStates, KeepStates
<1>2. Init => Safety
  BY DEF Init, Safety, NotYetDialed, HasConnection, ClosesItsOwn, EndedIsClosed,
         LeftHasEnded, Left, Began, Conns
<1> QED
  BY <1>1, <1>2 DEF IInv

-----------------------------------------------------------------------------
(* The steps towards a connection that the loop need not take. *)
Approaches == DialFails \/ HandshakeFails \/ HandshakeStalls \/ HandshakeResumes

(* Those that make one. *)
Connects == pc \in {"handshake", "stalled"} /\ Connected

LEMMA LoopCases ==
  ASSUME LoopStep \/ Approaches, ~Connects
  PROVE  /\ UNCHANGED <<current, link, keepVars>>
         /\ todo' \subseteq todo
         /\ UNCHANGED faults \/ Fault
         /\ UNCHANGED <<srv, sessVars, failed, cancelled>> \/ \E a \in Assocs : Forward(a)
         /\ \/ UNCHANGED abandoned /\ pc = "dial" /\ pc' \in {"handshake", "retry"}
               /\ (pc' = "handshake" => current < MaxDials)
            \/ UNCHANGED abandoned /\ pc = "handshake" /\ pc' \in {"stalled", "retry"}
            \/ UNCHANGED abandoned /\ pc = "stalled" /\ pc' = "retry"
            \/ UNCHANGED abandoned /\ pc = "forward" /\ pc' \in {"forward", "wait"}
            \/ UNCHANGED abandoned /\ pc = "retry" /\ pc' \in {"dial", "done"}
            \/ UNCHANGED abandoned /\ pc = "wait" /\ pc' \in {"retry", "done"}
               /\ keep[current] = "ended"
            \/ abandoned' = abandoned \cup {current} /\ pc = "forward" /\ pc' = "retry"
  BY DEF LoopStep, Approaches, Connects, Dial, DialFails, Handshake, HandshakeFails,
         HandshakeStalls, HandshakeResumes, Forward, ForwardFails, CallWait, WaitReturns,
         AllEnded, Retry, keepVars, sessVars

(* What a step is to the connections: the loop of the runner, a keepalive, *)
(* a fault of the network, or a step that does not touch them.             *)
Elsewhere ==
  \/ \E t \in Tunnels : TunnelStep(t) \/ SessionExits(t)
  \/ Cancel

LEMMA NextCases ==
  ASSUME [Next]_vars
  PROVE  \/ LoopStep \/ Approaches
         \/ \E c \in Conns : \/ KeepStarts(c) \/ KeepSends(c) \/ KeepAnswered(c)
                             \/ KeepTicks(c) \/ KeepFails(c) \/ KeepCancelled(c)
                             \/ LinkFails(c)
         \/ Elsewhere
         \/ UNCHANGED vars
  BY DEF Next, KeepStep, Elsewhere, Approaches

LEMMA ElsewhereKeeps ==
  ASSUME Elsewhere
  PROVE  UNCHANGED <<loopVars, link, keepVars>>
  BY DEF Elsewhere, TunnelStep, ServeEnds, SessionStarts, SessionLost,
         SessionStops, SessionExits, Cancel

(* The variables keep their types. *)
LEMMA TypeStep ==
  ASSUME IInv, [Next]_vars
  PROVE  TypeOK'
<1> USE DEF IInv, TypeOK, LinkStates, KeepStates, loopVars, keepVars, sessVars, Fault
<1>1. CASE Connects
  <2>1. current + 1 \in Conns /\ current + 1 \in 0..MaxDials
    BY <1>1 DEF Connects, Safety, HasConnection, Conns
  <2>2. /\ pc' = "forward" /\ todo' = Assocs /\ current' = current + 1
        /\ link' = [link EXCEPT ![current + 1] = "up"]
        /\ keep' = [keep EXCEPT ![current + 1] = "spawned"]
        /\ UNCHANGED <<closes, sentOn, srv, sess, sessOn, quiet, failed, abandoned,
                       cancelled, faults>>
    BY <1>1 DEF Connects, Connected
  <2>3. \A c \in Conns : keep'[c] \in {"loop", "sent", "idle"} => closes'[c] # 0
    BY <2>1, <2>2
  <2>4. /\ link' \in [Conns -> {"none", "up", "stuck", "closed"}]
        /\ keep' \in [Conns -> {"none", "spawned", "loop", "sent", "idle", "ended"}]
    BY <2>1, <2>2
  <2>5. /\ pc' \in {"dial", "handshake", "stalled", "forward", "wait", "retry", "done"}
        /\ todo' \in SUBSET Assocs /\ current' \in 0..MaxDials
    BY <2>1, <2>2
  <2>6. /\ closes' \in [Conns -> 0..MaxDials] /\ sentOn' \in [Conns -> 0..MaxDials]
        /\ srv' \in [Tunnels -> {"none", "serving", "ended"}]
        /\ sess' \in [Tunnels -> {"none", "spawned", "running", "ended"}]
        /\ sessOn' \in [Tunnels -> 0..MaxDials]
    BY <2>2
  <2>7. /\ failed' \in SUBSET Conns /\ abandoned' \in SUBSET Conns
        /\ quiet' \in SUBSET Tunnels /\ cancelled' \in BOOLEAN /\ faults' \in 0..MaxFaults
    BY <2>2
  <2> QED
    BY <2>3, <2>4, <2>5, <2>6, <2>7
<1>2. CASE (LoopStep \/ Approaches) /\ ~Connects
  <2>1. abandoned' \in SUBSET Conns
    <3>1. pc = "forward" => current \in Conns
      BY DEF Safety, HasConnection, Conns
    <3> QED
      BY <1>2, <3>1, LoopCases
  <2>2. todo' \in SUBSET Assocs /\ faults' \in 0..MaxFaults
    BY <1>2, LoopCases
  <2>3. srv' \in [Tunnels -> {"none", "serving", "ended"}]
        /\ sess' \in [Tunnels -> {"none", "spawned", "running", "ended"}]
        /\ UNCHANGED <<sessOn, quiet, failed, cancelled>>
    BY <1>2, LoopCases DEF Forward
  <2> QED
    BY <1>2, <2>1, <2>2, <2>3, LoopCases
<1>4. ASSUME NEW c \in Conns, KeepStarts(c) PROVE TypeOK'
  <2>1. current # 0
    BY <1>4 DEF KeepStarts, Safety, NotYetDialed, Conns
  <2> QED
    BY <1>4, <2>1 DEF KeepStarts
<1>5. ASSUME NEW c \in Conns, KeepSends(c) \/ KeepAnswered(c) \/ KeepTicks(c)
      PROVE  TypeOK'
  BY <1>5 DEF KeepSends, KeepAnswered, KeepTicks
<1>6. ASSUME NEW c \in Conns, KeepFails(c) \/ KeepCancelled(c) PROVE TypeOK'
  BY <1>6 DEF KeepFails, KeepCancelled, KeepReturns
<1>7. ASSUME NEW c \in Conns, LinkFails(c) PROVE TypeOK'
  BY <1>7 DEF LinkFails
<1>8. ASSUME NEW t \in Tunnels, TunnelStep(t) \/ SessionExits(t) PROVE TypeOK'
  <2>1. t[1] \in Conns
    BY DEF Tunnels
  <2>2. CASE ServeEnds(t)
    BY <2>1, <2>2 DEF ServeEnds
  <2>3. CASE SessionStarts(t)
    BY <2>1, <2>3 DEF SessionStarts
  <2>4. CASE SessionLost(t) \/ SessionStops(t)
    BY <2>1, <2>4 DEF SessionLost, SessionStops
  <2>5. CASE SessionExits(t)
    BY <2>1, <2>5 DEF SessionExits
  <2> QED
    BY <1>8, <2>2, <2>3, <2>4, <2>5 DEF TunnelStep
<1>9. CASE Cancel
  BY <1>9 DEF Cancel
<1>10. CASE UNCHANGED vars
  BY <1>10 DEF vars
<1> QED
  BY <1>1, <1>2, <1>4, <1>5, <1>6, <1>7, <1>8, <1>9, <1>10, NextCases DEF Elsewhere

-----------------------------------------------------------------------------
(* A closed connection stays closed, whichever keepalive closes what. *)
LEMMA ClosedStays ==
  ASSUME IInv, [Next]_vars, NEW c \in Conns, link[c] = "closed"
  PROVE  link'[c] = "closed"
<1> USE DEF IInv, TypeOK
<1>1. CASE Connects
  <2>1. link' = [link EXCEPT ![current + 1] = "up"]
    BY <1>1 DEF Connects, Connected
  <2>2. c # current + 1
    BY DEF Safety, NotYetDialed, Conns
  <2> QED
    BY <2>1, <2>2
<1>6. CASE (LoopStep \/ Approaches) /\ ~Connects
  BY <1>6, LoopCases
<1>2. ASSUME NEW d \in Conns,
             KeepStarts(d) \/ KeepSends(d) \/ KeepAnswered(d) \/ KeepTicks(d)
      PROVE  link'[c] = "closed"
  BY <1>2 DEF KeepStarts, KeepSends, KeepAnswered, KeepTicks
<1>3. ASSUME NEW d \in Conns, KeepFails(d) \/ KeepCancelled(d)
      PROVE  link'[c] = "closed"
  BY <1>3 DEF KeepFails, KeepCancelled, KeepReturns
<1>4. ASSUME NEW d \in Conns, LinkFails(d)
      PROVE  link'[c] = "closed"
  BY <1>4 DEF LinkFails
<1>5. CASE Elsewhere \/ UNCHANGED vars
  BY <1>5, ElsewhereKeeps DEF vars
<1> QED
  BY <1>1, <1>2, <1>3, <1>4, <1>5, <1>6, NextCases

(* The steps of the keepalives. *)
LEMMA KeepPreserves ==
  ASSUME IInv, NEW c \in Conns,
         \/ KeepStarts(c) \/ KeepSends(c) \/ KeepAnswered(c) \/ KeepTicks(c)
         \/ KeepFails(c) \/ KeepCancelled(c)
  PROVE  Safety'
<1> USE DEF IInv, TypeOK, loopVars, Safety, HasConnection
<1>1. keep[c] \in {"spawned", "loop", "sent", "idle"} /\ UNCHANGED loopVars
  BY DEF KeepStarts, KeepSends, KeepAnswered, KeepTicks, KeepFails, KeepCancelled,
         KeepReturns
<1>2. c <= current /\ (Left(c) => c \in abandoned)
  BY <1>1 DEF NotYetDialed, LeftHasEnded, Conns
<1>3. CASE KeepStarts(c)
  <2>1. c \notin abandoned => current = c
    BY <1>2 DEF Left, Conns
  <2> QED
    BY <1>1, <1>2, <1>3, <2>1
       DEF KeepStarts, NotYetDialed, ClosesItsOwn, EndedIsClosed, LeftHasEnded, Left,
           Began, Conns
<1>4. CASE KeepSends(c) \/ KeepAnswered(c) \/ KeepTicks(c)
  <2>1. /\ Began(c) /\ UNCHANGED <<link, closes>>
        /\ \E s \in {"loop", "sent", "idle"} : keep' = [keep EXCEPT ![c] = s]
    BY <1>4 DEF KeepSends, KeepAnswered, KeepTicks, Began
  <2> QED
    BY <1>1, <1>2, <2>1
       DEF NotYetDialed, ClosesItsOwn, EndedIsClosed, LeftHasEnded, Left, Began, Conns
<1>5. CASE KeepFails(c) \/ KeepCancelled(c)
  <2>1. Began(c) /\ closes[c] \in Conns
    BY <1>5 DEF KeepFails, KeepCancelled, Began, Conns
  <2>2. /\ keep' = [keep EXCEPT ![c] = "ended"]
        /\ link' = [link EXCEPT ![closes[c]] = "closed"]
        /\ UNCHANGED closes
    BY <1>5 DEF KeepFails, KeepCancelled, KeepReturns
  <2>3. NotYetDialed'
    BY <1>1, <1>2, <2>1, <2>2 DEF NotYetDialed, Conns
  <2>4. ClosesItsOwn'
    BY <1>1, <2>1, <2>2 DEF ClosesItsOwn, Began
  <2>5. EndedIsClosed'
    BY <1>1, <2>1, <2>2 DEF EndedIsClosed, ClosesItsOwn
  <2>6. LeftHasEnded'
    BY <1>1, <2>2 DEF LeftHasEnded, Left
  <2> QED
    BY <1>1, <2>3, <2>4, <2>5, <2>6
<1> QED
  BY <1>3, <1>4, <1>5

(* The steps of the loop: a handshake is the only one that makes a          *)
(* connection, and each of those before has ended or is abandoned by then. *)
LEMMA LoopPreserves ==
  ASSUME IInv, LoopStep \/ Approaches
  PROVE  Safety'
<1> USE DEF IInv, TypeOK, Safety, HasConnection, NotYetDialed, ClosesItsOwn,
            EndedIsClosed, LeftHasEnded, Left, Began, Conns, keepVars
<1>1. CASE Connects
  BY <1>1 DEF Connects, Connected
<1>2. CASE ~Connects
  BY <1>2, LoopCases
<1> QED
  BY <1>1, <1>2

(* Every step keeps the invariant. *)
LEMMA IInvStep ==
  ASSUME IInv, [Next]_vars
  PROVE  IInv'
<1>1. ASSUME NEW c \in Conns, LinkFails(c) PROVE Safety'
  <2>1. /\ link[c] = "up" /\ UNCHANGED <<loopVars, keepVars>>
        /\ \A d \in Conns \ {c} : link'[d] = link[d]
    BY <1>1 DEF LinkFails, IInv, TypeOK
  <2> QED
    BY <2>1 DEF IInv, Safety, NotYetDialed, HasConnection, ClosesItsOwn, EndedIsClosed,
                LeftHasEnded, Left, Began, loopVars, keepVars
<1>2. ASSUME UNCHANGED <<loopVars, link, keepVars>> PROVE Safety'
  BY <1>2 DEF IInv, Safety, NotYetDialed, HasConnection, ClosesItsOwn, EndedIsClosed,
              LeftHasEnded, Left, Began, loopVars, keepVars
<1>3. ASSUME Elsewhere \/ UNCHANGED vars PROVE Safety'
  BY <1>2, <1>3, ElsewhereKeeps DEF vars
<1>4. TypeOK'
  BY TypeStep
<1> QED
  BY <1>1, <1>3, <1>4, LoopPreserves, KeepPreserves, NextCases DEF IInv

-----------------------------------------------------------------------------
(* forward.go: which connections the keepalives, the client and the loop   *)
(* of the runner refer to is related by an invariant that every step keeps. *)
THEOREM InductiveInvariant == Spec => []IInv
  BY InitIInv, IInvStep, PTL DEF Spec

(* The variables of the runner and its goroutines keep their types; a      *)
(* keepalive that runs has a connection to close.                          *)
THEOREM TypeCorrect == Spec => []TypeOK
<1>1. IInv => TypeOK
  BY DEF IInv
<1> QED
  BY <1>1, InductiveInvariant, PTL

(* SSHClient.Dial and Wait: every connection but the client's current one  *)
(* has been closed, unless a failed Forward abandoned it.                  *)
THEOREM LeavesNoneBehind == Spec => []NoneLeftBehind
<1>1. IInv => NoneLeftBehind
  <2> SUFFICES ASSUME IInv, NEW c \in Conns, link[c] \in {"up", "stuck"},
                      c # current, c \notin abandoned
               PROVE  FALSE
    BY DEF NoneLeftBehind
  <2>1. c < current
    BY DEF IInv, TypeOK, Safety, NotYetDialed, Conns
  <2> QED
    BY <2>1 DEF IInv, Safety, LeftHasEnded, Left, EndedIsClosed
<1> QED
  BY <1>1, InductiveInvariant, PTL
=============================================================================
