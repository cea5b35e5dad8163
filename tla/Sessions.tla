------------------------------ MODULE Sessions ------------------------------
(***************************************************************************)
(* pkg/bass/session.go and custodian.go: modules that are loaded by their  *)
(* thunks and kept, and runs that are not.  A goroutine is in the runs of  *)
(* its stack, the innermost last.  What a module's text does is its loads, *)
(* in order, files that it opens at any time, and perhaps an error.        *)
(***************************************************************************)
EXTENDS Naturals, Sequences, SequencesExt

CONSTANTS Loaders,   (* the goroutines *)
          Modules,   (* the thunks, by the keys of their hashes *)
          Loads,     (* the modules that each loads, in order *)
          MaxDepth,  (* how many runs one is in: a cycle never ends *)
          MaxScopes  (* how many runs are begun *)

ASSUME SessionsAssumption == Loads \in [Modules -> Seq(Modules)]

VARIABLES modules,   (* session.modules: of each module a scope or none *)
          scopeList, (* of each scope its module and whether it was run to its end *)
          stack,     (* the runs each goroutine is in *)
          obtained,  (* the scopes that its loads returned *)
          openFiles, (* the open files, by scope and whether its custodian has them *)
          started    (* the scopes whose run has started a thunk *)

sessionVars == <<modules, scopeList, stack, obtained, openFiles, started>>

SessionsInit ==
  /\ modules = [m \in Modules |-> <<>>]
  /\ scopeList = <<>>
  /\ stack = [p \in Loaders |-> <<>>]
  /\ obtained = [p \in Loaders |-> {}]
  /\ openFiles = {} /\ started = {}

Inmost(p) == Last(stack[p])
File(id, closes) == [id |-> id, closes |-> closes]
IsRunning(p) == stack[p] # <<>> /\ ~Inmost(p).ended

-----------------------------------------------------------------------------
(* Mutant: a module is kept when its run begins, so that a cycle ends. *)
EnterKept(p, m, kept, calls) ==
  LET id == Len(scopeList) + 1
  IN  /\ Len(calls) < MaxDepth /\ id <= MaxScopes
      /\ scopeList' = Append(scopeList, [mod |-> m, whole |-> FALSE])
      /\ stack' = [stack EXCEPT ![p] =
                     Append(calls, [id |-> id, next |-> 1, kept |-> kept, ended |-> FALSE])]
      /\ modules' = IF kept THEN [modules EXCEPT ![m] = <<id>>] ELSE modules
      /\ UNCHANGED <<obtained, openFiles, started>>

(* session.run, up to the evaluation: a new scope and a new custodian. *)
Enter(p, m, kept, calls) ==
  LET id == Len(scopeList) + 1
  IN  /\ Len(calls) < MaxDepth /\ id <= MaxScopes
      /\ scopeList' = Append(scopeList, [mod |-> m, whole |-> FALSE])
      /\ stack' = [stack EXCEPT ![p] =
                     Append(calls, [id |-> id, next |-> 1, kept |-> kept, ended |-> FALSE])]
      /\ UNCHANGED <<modules, obtained, openFiles, started>>

(* session.Load, up to the run, under the lock: what is cached is returned. *)
LookUp(p, m, calls) ==
  \/ modules[m] = <<>> /\ Enter(p, m, TRUE, calls)
  \/ /\ modules[m] # <<>>
     /\ obtained' = [obtained EXCEPT ![p] = @ \cup Range(modules[m])]
     /\ stack' = [stack EXCEPT ![p] = calls]
     /\ UNCHANGED <<modules, scopeList, openFiles, started>>

LoadModule(p, m) == stack[p] = <<>> /\ LookUp(p, m, <<>>)

(* A run that is not of a load: session.Run. *)
RunModule(p, m) == stack[p] = <<>> /\ Enter(p, m, FALSE, <<>>)

(* The next load of the text that is evaluated. *)
LoadNext(p) ==
  LET loads == Loads[scopeList[Inmost(p).id].mod]
      past  == [Inmost(p) EXCEPT !.next = @ + 1]
  IN  /\ IsRunning(p) /\ Inmost(p).next <= Len(loads)
      /\ LookUp(p, loads[Inmost(p).next], Append(Front(stack[p]), past))

(* (read): the file is closed with the custodian of the run. *)
OpenFile(p) ==
  /\ IsRunning(p)
  /\ openFiles' = openFiles \cup {File(Inmost(p).id, TRUE)}
  /\ UNCHANGED <<modules, scopeList, stack, obtained, started>>

(* (start): the goroutine of the thunk has the custodian of the run.  Its  *)
(* handler may open a file when the run is over and the custodian closed,  *)
(* and as both append to the closers without a lock one may be lost.       *)
StartThunk(p) ==
  /\ IsRunning(p)
  /\ started' = started \cup {Inmost(p).id}
  /\ UNCHANGED <<modules, scopeList, stack, obtained, openFiles>>

HandlerOpens(id) ==
  /\ id \in started
  /\ \E closes \in BOOLEAN : openFiles' = openFiles \cup {File(id, closes)}
  /\ UNCHANGED <<modules, scopeList, stack, obtained, started>>

(* The run ends, its custodian is closed, and what is not of a load is done. *)
RunEnds(p) ==
  /\ IsRunning(p) /\ Inmost(p).next > Len(Loads[scopeList[Inmost(p).id].mod])
  /\ scopeList' = [scopeList EXCEPT ![Inmost(p).id].whole = TRUE]
  /\ openFiles' = openFiles \ {File(Inmost(p).id, TRUE)}
  /\ stack' = [stack EXCEPT ![p] =
                 IF Inmost(p).kept THEN Append(Front(@), [Inmost(p) EXCEPT !.ended = TRUE])
                                   ELSE Front(@)]
  /\ UNCHANGED <<modules, obtained, started>>

(* session.Load, past the run: the scope is kept and returned. *)
Keep(p) ==
  LET id == Inmost(p).id
  IN  /\ stack[p] # <<>> /\ Inmost(p).ended
      /\ modules' = [modules EXCEPT ![scopeList[id].mod] = <<id>>]
      /\ obtained' = [obtained EXCEPT ![p] = @ \cup {id}]
      /\ stack' = [stack EXCEPT ![p] = Front(@)]
      /\ UNCHANGED <<scopeList, openFiles, started>>

(* An error ends all the runs that the goroutine is in. *)
RunFails(p) ==
  /\ IsRunning(p)
  /\ openFiles' = openFiles \ {File(stack[p][i].id, TRUE) : i \in DOMAIN stack[p]}
  /\ stack' = [stack EXCEPT ![p] = <<>>]
  /\ UNCHANGED <<modules, scopeList, obtained, started>>

SessionsNext ==
  \/ \E p \in Loaders :
       \/ \E m \in Modules : LoadModule(p, m) \/ RunModule(p, m)
       \/ LoadNext(p) \/ OpenFile(p) \/ StartThunk(p) \/ RunEnds(p) \/ Keep(p) \/ RunFails(p)
  \/ \E id \in DOMAIN scopeList : HandlerOpens(id)

SessionsSpec == SessionsInit /\ [][SessionsNext]_sessionVars

-----------------------------------------------------------------------------
Running(id) ==
  \E p \in Loaders : \E i \in DOMAIN stack[p] : stack[p][i].id = id /\ ~stack[p][i].ended

(* A load returns a scope only of a run that came to its end, whatever     *)
(* other goroutines load at that time and however runs fail, and a run     *)
(* that started no thunk leaves no file open when it is over: Load, run    *)
(* and the deferred Close of session.go.                                   *)
LoadsAreWhole ==
  /\ \A p \in Loaders : \A id \in obtained[p] : scopeList[id].whole
  /\ \A m \in Modules : \A id \in Range(modules[m]) :
       scopeList[id].whole /\ scopeList[id].mod = m
  /\ \A file \in openFiles : Running(file.id) \/ file.id \in started
=============================================================================
