------------------------------ MODULE Commands ------------------------------
(***************************************************************************)
(* pkg/runtimes/command.go: NewCommand turns the values of a thunk into    *)
(* what the process in the container is given.  A resolved string is a     *)
(* sequence of pieces, each a text, a path as of Paths or an address; a    *)
(* step of the resolution returns the command so far and the value.        *)
(***************************************************************************)
EXTENDS ThunkMessages

NoCommand == [args |-> <<>>, stdin |-> <<>>, env |-> {}, dir |-> Nil, mounts |-> <<>>,
              services |-> <<>>, secretEnv |-> <<>>, error |-> ""]

Piece(kind, x) == <<[kind |-> kind, of |-> x]>>
Text(pieces)   == [is |-> "Text", pieces |-> pieces]

Resolved(cmd, pieces) == [cmd |-> cmd, val |-> Text(pieces)]
Kept(cmd, v)          == [cmd |-> cmd, val |-> v]

(* The first error is the one that is returned. *)
Fail(cmd, error) == IF cmd.error # "" THEN cmd ELSE [cmd EXCEPT !.error = error]

-----------------------------------------------------------------------------
HashName(of) == [n |-> "hash", of |-> of]

(* The directory a path is mounted in.  A host directory and a cache are   *)
(* hashed as the strings of their context and id.                          *)
MountName(v) ==
  CASE v.is = "ThunkPath" -> HashName(Hash(v.thunk))
    [] v.is = "HostPath"  -> HashName([string |-> v.context])
    [] v.is = "CachePath" -> HashName([string |-> v.id])
    [] v.is = "FSPath"    -> HashName([below |-> Below(v.files, NamesOf(v.path.path))])

TargetIn(name, v) == Extend(NewDirPath(<<name>>), v.path)
MountTarget(v)    == TargetIn(MountName(v), v)

(* One step up for each name of the working directory. *)
Climbs(dir) == IF DirOf(dir) = <<Here>> THEN 0 ELSE Len(DirOf(dir))

Climb(n, path) == IF n = 0 THEN path ELSE Clean([i \in 1..n |-> Up] \o path)

(* Mutant: a directory needs no step up of its own. *)
RelShort(dir, target) ==
  IF dir = Nil \/ Climbs(dir.path) = 0 THEN FromSlash(target)
  ELSE Climb(Climbs(dir.path) - 1, FromSlash(target))
       \o IF IsDir(target) THEN <<Sep>> ELSE <<>>

(* rel; of an absolute directory the loop does not end, see Mounted. *)
Rel(dir, target) ==
  IF dir = Nil THEN FromSlash(target)
  ELSE Climb(Climbs(dir.path), FromSlash(target))
       \o IF IsDir(target) THEN <<Sep>> ELSE <<>>

Endless(dir) == dir # Nil /\ IsAbs(dir.path)

(* The four kinds of paths that are mounted, each target once.  The mounts *)
(* so far are all of this kind: those of the thunk come last.              *)
MountOnce(cmd, v, at) ==
  IF \E i \in DOMAIN cmd.mounts : cmd.mounts[i].target = at THEN cmd
  ELSE [cmd EXCEPT !.mounts = Append(@, Mount(v, at))]

MountedAt(cmd, v, target) ==
  Resolved(MountOnce(cmd, v, FromSlash(target)), Piece("path", Rel(cmd.dir, target)))

MountedIn(cmd, v, name) ==
  IF name.of = Err THEN Kept(Fail(cmd, "hash"), v)
  ELSE IF Endless(cmd.dir) THEN Kept(Fail(cmd, "endless"), v)
  ELSE MountedAt(cmd, v, TargetIn(name, v))

Mounted(cmd, v) == MountedIn(cmd, v, MountName(v))

(* A service is started, and must have the port. *)
StartFor(cmd, addr) ==
  IF \E i \in DOMAIN addr.thunk.ports : addr.thunk.ports[i].name = addr.port
  THEN Resolved([cmd EXCEPT !.services = Append(@, addr.thunk)],
                Piece("address", [of |-> Hash(addr.thunk), port |-> addr.port]))
  ELSE Kept(Fail(cmd, "port"), addr)

ResolveValue(cmd, v) ==
  CASE v.is \in {"FilePath", "DirPath"} -> Resolved(cmd, Piece("path", FromSlash(v)))
    [] v.is = "CommandPath" -> Resolved(cmd, Piece("text", v.name))
    [] v.is \in {"ThunkPath", "HostPath", "CachePath", "FSPath"} -> Mounted(cmd, v)
    [] v.is = "Secret" -> IF v.value = "" THEN Kept(Fail(cmd, "missing secret"), v)
                                          ELSE Resolved(cmd, Piece("text", v.value))
    [] v.is = "ThunkAddr" -> StartFor(cmd, v)
    [] v.is = "String" -> Resolved(cmd, Piece("text", v.s))
    [] OTHER -> Kept(cmd, v)

(* A value that must be a string. *)
AsString(r) == IF r.val.is = "Text" THEN r ELSE Kept(Fail(r.cmd, "decode"), r.val)

(* How a value is resolved: as a "string" (resolveValue into one), as an   *)
(* "arg" (resolveStr, for which a list of strings is their concatenation)  *)
(* or "deep" (bass.Resolve, the values of lists and scopes too).           *)
RECURSIVE ResolveAll(_, _, _, _)

AsList(r)         == Kept(r.cmd, List(r.vals))
AsScope(binds, r) ==
  Kept(r.cmd, Scope([i \in DOMAIN binds |-> <<binds[i][1], r.vals[i]>>], <<>>))

ResolveScope(cmd, binds) ==
  AsScope(binds, ResolveAll("deep", cmd, [i \in DOMAIN binds |-> binds[i][2]], <<>>))

Deepen(r) ==
  CASE r.val.is = "List"  -> AsList(ResolveAll("deep", r.cmd, r.val.vals, <<>>))
    [] r.val.is = "Scope" -> ResolveScope(r.cmd, Each(r.val))
    [] OTHER -> r

Joined(r) ==
  IF r.cmd.error # "" THEN Kept(r.cmd, Null)
  ELSE Resolved(r.cmd, FlattenSeq([i \in DOMAIN r.vals |-> r.vals[i].pieces]))

FinishValue(how, r) == IF how = "deep" THEN Deepen(r) ELSE AsString(r)

Resolve(how, cmd, v) ==
  IF how = "arg" /\ v.is = "List" THEN Joined(ResolveAll("string", cmd, v.vals, <<>>))
  ELSE FinishValue(how, ResolveValue(cmd, v))

(* The values one after the other. *)
ResolveOn(how, r, vals, done) == ResolveAll(how, r.cmd, vals, Append(done, r.val))

ResolveAll(how, cmd, vals, done) ==
  IF vals = <<>> THEN [cmd |-> cmd, vals |-> done]
  ELSE ResolveOn(how, Resolve(how, cmd, Head(vals)), Tail(vals), done)

-----------------------------------------------------------------------------
(* A path, a thunk's path or a host path: one piece. *)
WorkIn(r) == IF r.cmd.error # "" THEN r.cmd
             ELSE [r.cmd EXCEPT !.dir = [path |-> r.val.pieces[1].of]]

WithDirOf(cmd, dir) == IF dir = Nil THEN cmd ELSE WorkIn(Resolve("string", cmd, dir))

SetArgsOf(r)          == [r.cmd EXCEPT !.args = r.vals]
WithArgsOf(cmd, args) == SetArgsOf(ResolveAll("arg", cmd, args, <<>>))

(* A null unsets a variable, a secret is left to the builder. *)
SetVariable(name, r) == [r.cmd EXCEPT !.env = @ \cup {<<name, r.val>>}]

WithVariable(cmd, b) ==
  CASE b[2].is = "Null"   -> cmd
    [] b[2].is = "Secret" -> [cmd EXCEPT !.secretEnv = Append(@, b)]
    [] OTHER -> SetVariable(b[1], Resolve("arg", cmd, b[2]))

RECURSIVE WithVariables(_, _)
WithVariables(cmd, binds) ==
  IF binds = <<>> THEN cmd ELSE WithVariables(WithVariable(cmd, Head(binds)), Tail(binds))

WithEnvOf(cmd, env) == IF env = Nil THEN cmd ELSE WithVariables(cmd, Each(env))

SetStdinOf(r)           == [r.cmd EXCEPT !.stdin = r.vals]
WithStdinOf(cmd, stdin) == SetStdinOf(ResolveAll("deep", cmd, stdin, <<>>))

(* The mounts of the thunk, whatever is at their targets. *)
WithMountsOf(cmd, mounts) ==
  [cmd EXCEPT !.mounts = @ \o [i \in DOMAIN mounts |->
                                 Mount(mounts[i].source, FromSlash(mounts[i].target))]]

FinishCommand(cmd, mounts) ==
  IF cmd.error # "" THEN [NoCommand EXCEPT !.error = cmd.error] ELSE WithMountsOf(cmd, mounts)

ResolveCommand(cmd, t) ==
  WithStdinOf(WithEnvOf(WithArgsOf(WithDirOf(cmd, t.dir), t.args), t.env), t.stdin)

NewCommand(t) == FinishCommand(ResolveCommand(NoCommand, t), t.mounts)
=============================================================================
