--------------------------- MODULE ThunkBuilding ---------------------------
(***************************************************************************)
(* The builders of pkg/bass/thunk.go and the slices they share.  A thunk   *)
(* is a value that is copied, its arguments, mounts and ports are slices   *)
(* of arrays in the heap and its labels a pointer to a scope there: what   *)
(* one copy writes, the others read.  The shelf holds the thunks a script  *)
(* has built, each with what it was when it was built and what it was      *)
(* given as an entrypoint on the way.                                      *)
(***************************************************************************)
EXTENDS Operations, Slices

CONSTANTS Plain,       \* values that hold no thunk
          Subpaths,    \* paths in what a thunk leaves behind
          Dirs,        \* working directories that hold no thunk
          Targets(_),  \* targets to mount a source at
          Envs,        \* environments
          Starts,      \* what scripts start from: a heap and a shelf each
          MaxShelf     \* bound: thunks on the shelf

VARIABLES heap,        \* the arrays and scopes, never freed
          shelf        \* the thunks that were built

buildingVars == <<heap, shelf>>

-----------------------------------------------------------------------------
Blank == [Scratch EXCEPT !.args = NilSlice, !.mounts = NilSlice, !.ports = NilSlice,
                          !.labels = 0]

Built(h, t) == [heap |-> h, thunk |-> t]

-----------------------------------------------------------------------------
(* What a value is now.  An array that was overwritten with a thunk that   *)
(* holds it never ends.                                                    *)
Forever == [is |-> "Endless"]

CutOff(cell) == IF cell.is = "Mount" THEN [cell EXCEPT !.source = Forever] ELSE Forever

RECURSIVE Deref(_, _, _)

DerefSlice(h, s, seen) ==
  [k \in 1..s.len |-> IF <<s.arr, k>> \in seen THEN CutOff(h[s.arr][k])
                      ELSE Deref(h, h[s.arr][k], seen \cup {<<s.arr, k>>})]

DerefScope(h, scope, seen) ==
  [scope EXCEPT !.binds   = [i \in DOMAIN @ |-> <<@[i][1], Deref(h, @[i][2], seen)>>],
                !.parents = [i \in DOMAIN @ |-> Deref(h, @[i], seen)]]

DerefThunk(h, t, seen) ==
  [t EXCEPT !.image  = Deref(h, @, seen), !.args = DerefSlice(h, @, seen),
            !.stdin  = [i \in DOMAIN @ |-> Deref(h, @[i], seen)],
            !.env    = Deref(h, @, seen), !.dir = Deref(h, @, seen),
            !.mounts = DerefSlice(h, @, seen),
            !.labels = IF @ = 0 THEN Nil ELSE h[@],
            !.ports  = DerefSlice(h, @, seen)]

Deref(h, v, seen) ==
  CASE v.is = "Thunk"       -> DerefThunk(h, v, seen)
    [] v.is \in {"ThunkPath", "ThunkAddr"} -> [v EXCEPT !.thunk = Deref(h, @, seen)]
    [] v.is = "List"        -> [v EXCEPT !.vals = [i \in DOMAIN @ |-> Deref(h, @[i], seen)]]
    [] v.is = "Scope"       -> DerefScope(h, v, seen)
    [] v.is = "Mount"       -> [v EXCEPT !.source = Deref(h, @, seen)]
    [] v.is = "Archive"     -> [v EXCEPT !.file = Deref(h, @, seen)]
    [] v.is = "DockerBuild" -> [v EXCEPT !.context = Deref(h, @, seen)]
    [] v.is = "Ref"         -> [v EXCEPT !.addr = Deref(h, @, seen)]
    [] OTHER -> v

Now(t) == Deref(heap, t, {})

-----------------------------------------------------------------------------
(* The builders: the heap and the thunk that is returned. *)

RECURSIVE WithImage(_, _)
WithImage(t, image) ==
  [t EXCEPT !.image = IF @.is = "Thunk" THEN WithImage(@, image) ELSE image]

(* A thunk with arguments becomes the image of one without. *)
Encapsulate(t) ==
  IF t.args.len = 0 THEN t
  ELSE [Blank EXCEPT !.image = t, !.dir = t.dir, !.ports = t.ports, !.labels = t.labels,
                     !.entrypoint = t.entrypoint, !.clearEntrypoint = t.clearEntrypoint,
                     !.defaultArgs = t.defaultArgs, !.clearDefaultArgs = t.clearDefaultArgs]

WithEntrypoint(t, entrypoint) ==
  [Encapsulate(t) EXCEPT !.entrypoint = entrypoint, !.clearEntrypoint = entrypoint = <<>>]

(* Mutant: what was cleared is not said to be. *)
WithDefaultArgsOnly(t, args) == [Encapsulate(t) EXCEPT !.defaultArgs = args]

WithDefaultArgs(t, args) ==
  [Encapsulate(t) EXCEPT !.defaultArgs = args, !.clearDefaultArgs = args = <<>>]

(* The first argument is kept, and the others are written after it. *)
WithArgs(h, t, args) ==
  LET r == IF t.args.len > 0 THEN AppendTo(h, Prefix(t.args, 1), args)
                             ELSE MakeSlice(h, args)
  IN  Built(r.heap, [t EXCEPT !.args = r.slice])

WithCmd(h, t, args) ==
  LET r == MakeSlice(h, args) IN Built(r.heap, [t EXCEPT !.args = r.slice])

WithEntrypointArgs(h, t, args) ==
  LET r == WithCmd(h, t, args) IN [r EXCEPT !.thunk.useEntrypoint = TRUE]

AppendArgs(h, t, args) ==
  LET r == AppendTo(h, t.args, args) IN Built(r.heap, [t EXCEPT !.args = r.slice])

WithEnv(t, env) == [t EXCEPT !.env = IF @ = Nil THEN env ELSE Scope(<<>>, <<env, @>>)]

WithStdin(t, stdin)       == [t EXCEPT !.stdin = stdin]
WithInsecure(t, insecure) == [t EXCEPT !.insecure = insecure]
WithDir(t, dir)           == [t EXCEPT !.dir = dir]
WithTLS(t, cert, key)     == [t EXCEPT !.tls = [cert |-> cert, key |-> key]]

WithMount(h, t, source, target) ==
  LET r == AppendTo(h, t.mounts, <<Mount(source, target)>>)
  IN  Built(r.heap, [t EXCEPT !.mounts = r.slice])

WithPort(h, t, name, port) ==
  LET r == AppendTo(h, t.ports, <<Port(name, port)>>)
  IN  Built(r.heap, [t EXCEPT !.ports = r.slice])

(* Mutant: the label is set in the scope that the copies share. *)
WithLabelShared(h, t, key, val) ==
  IF t.labels = 0
  THEN Built(Append(h, Set(Scope(<<>>, <<>>), key, val)), [t EXCEPT !.labels = Len(h) + 1])
  ELSE Built([h EXCEPT ![t.labels] = Set(@, key, val)], t)

WithLabel(h, t, key, val) ==
  LET labels == IF t.labels = 0 THEN Scope(<<>>, <<>>) ELSE CopyScope(h[t.labels])
  IN  Built(Append(h, Set(labels, key, val)), [t EXCEPT !.labels = Len(h) + 1])

-----------------------------------------------------------------------------
(* What a script does: it takes a thunk from the shelf and adds another.   *)
(* by, from and the two overrides are for the properties: what the thunk   *)
(* was given, by itself or by the thunk its image was set to.              *)

Put(i, by, r, given) ==
  /\ heap' = r.heap
  /\ shelf' = Append(shelf, [thunk |-> r.thunk, built |-> Deref(r.heap, r.thunk, {}),
                             by |-> by, from |-> i, given |-> given])

Same(i, by, t)   == Put(i, by, Built(heap, t), shelf[i].given)
Grow(i, by, r)   == Put(i, by, r, shelf[i].given)

Thing(i)   == shelf[i].thunk
Outputs    == {ThunkPath(Thing(i), p) : i \in DOMAIN shelf, p \in Subpaths}
Addresses  == {ThunkAddr(Thing(i), heap[Thing(i).ports.arr][1].name) :
                 i \in {j \in DOMAIN shelf : Thing(j).ports.len > 0}}
Operands   == Plain \cup Outputs \cup Addresses
Inputs     == {v \in Plain : v.is \in {"String", "List"}} \cup Addresses
Files      == {v \in Plain : v.is \in {"HostPath", "FSPath"}}
Sources    == Plain \cup Outputs

On(arch)   == <<Required("platform", PlatformValue(arch))>>
Default    == <<Required("platform", Struct(<<Required("os", Str("linux"))>>))>>

(* The values that images are made of. *)
Images     == {Struct(<<Required("repository", Str("repo"))>> \o on) :
                 on \in {Default, On("nested"), On("gone")}}
              \cup {Struct(<<Required("repository", a), Required("tag", Str("tag"))>> \o Default) :
                      a \in Addresses}
              \cup {Struct(<<Required("file", f), Required("tag", Str("tag"))>> \o Default) : f \in Files}
              \cup {Struct(<<Required("docker-build", f)>> \o On("arch")) : f \in Files}

(* The image of a thunk brings what that thunk was given. *)
Rebased(i, j) == [field \in DOMAIN shelf[i].given |->
                    IF shelf[i].given[field] # <<>> THEN shelf[i].given[field]
                                                   ELSE shelf[j].given[field]]

SetImage(i) ==
  \/ \E v \in Images :
       \E image \in Range(ImageFrom(v)) : Same(i, "with-image", WithImage(Thing(i), image))
  \/ \E j \in DOMAIN shelf :
       Put(i, "with-image", Built(heap, WithImage(Thing(i), Thing(j))), Rebased(i, j))

SetEntrypoint(i) == \E e \in {<<>>, <<"tini">>} :
  Put(i, "with-entrypoint", Built(heap, WithEntrypoint(Thing(i), e)),
      [shelf[i].given EXCEPT !.entrypoint = <<e>>])

SetDefaultArgs(i) == \E a \in {<<>>, <<"serve">>} :
  Put(i, "with-default-args", Built(heap, WithDefaultArgs(Thing(i), a)),
      [shelf[i].given EXCEPT !.cmd = <<a>>])

SetArgs(i) == \E v \in Operands : Grow(i, "with-args", WithArgs(heap, Thing(i), <<v>>))
SetCmd(i)  == \E v \in Inputs : Grow(i, "with-cmd", WithCmd(heap, Thing(i), <<Command("go"), v>>))
SetEntrypointArgs(i) ==
  \E v \in Inputs : Grow(i, "with-entrypoint-args", WithEntrypointArgs(heap, Thing(i), <<v>>))
AddArgs(i) == \E v \in Operands : Grow(i, "append-args", AppendArgs(heap, Thing(i), <<v>>))

SetEnv(i)      == \E env \in Envs : Same(i, "with-env", WithEnv(Thing(i), env))
SetStdin(i)    == \E v \in Inputs : Same(i, "with-stdin", WithStdin(Thing(i), <<v>>))
SetInsecure(i) == Same(i, "with-insecure", WithInsecure(Thing(i), ~Thing(i).insecure))
SetTLS(i) ==
  Same(i, "with-tls", WithTLS(Thing(i), FilePath(<<N("cert")>>), FilePath(<<N("key")>>)))

SetDir(i) == \E v \in Dirs \cup Outputs :
  \E d \in Range(DirFrom(v)) : Same(i, "with-dir", WithDir(Thing(i), d))

AddMountTo(i) == \E v \in Sources : \E s \in Range(SourceFrom(v)) : \E target \in Targets(s) :
  Grow(i, "with-mount", WithMount(heap, Thing(i), s, target))
AddPort(i)    == \E p \in {80, 443} : Grow(i, "with-port", WithPort(heap, Thing(i), "http", p))
AddLabel(i)   == \E s \in {"a", "b"} : Grow(i, "with-label", WithLabel(heap, Thing(i), "k", Str(s)))

BuildingInit == \E s \in Starts : heap = s.heap /\ shelf = s.shelf

BuildingNext ==
  /\ Len(shelf) < MaxShelf
  /\ \E i \in DOMAIN shelf :
       \/ SetImage(i) \/ SetEntrypoint(i) \/ SetDefaultArgs(i)
       \/ SetArgs(i) \/ SetCmd(i) \/ SetEntrypointArgs(i) \/ AddArgs(i)
       \/ SetEnv(i) \/ SetStdin(i) \/ SetInsecure(i) \/ SetTLS(i) \/ SetDir(i)
       \/ AddMountTo(i) \/ AddPort(i) \/ AddLabel(i)

-----------------------------------------------------------------------------
(* The slices of the thunks are within their arrays, and what they hold    *)
(* has been set.                                                           *)
SliceOK(s) == s.len > 0 => /\ s.arr \in DOMAIN heap
                           /\ s.len <= Len(heap[s.arr])
                           /\ \A k \in 1..s.len : heap[s.arr][k] # Unset

BuildingTypeOK ==
  \A i \in DOMAIN shelf :
    /\ SliceOK(Thing(i).args) /\ SliceOK(Thing(i).mounts) /\ SliceOK(Thing(i).ports)
    /\ Thing(i).labels \in {0} \cup DOMAIN heap
    /\ shelf[i].from < i

(* The two cases where append finds room in an array that is shared:       *)
(* with-args of a thunk that has arguments writes over them, and two       *)
(* thunks made of one write their last mount, port or argument to the same *)
(* cell, if it had room: after three, for example.                         *)
Overwrites(j) ==
  /\ shelf[j].by = "with-args"
  /\ Len(shelf[shelf[j].from].built.args) > 1

Extends(j, field) ==
  CASE field = "mounts" -> shelf[j].by = "with-mount"
    [] field = "ports"  -> shelf[j].by = "with-port"
    [] field = "args"   -> shelf[j].by \in {"append-args", "with-args"}

Collide(j, k) ==
  \E field \in {"mounts", "ports", "args"} :
    /\ Extends(j, field) /\ Extends(k, field)
    /\ LET s == Thing(shelf[j].from)[field]
       IN  Thing(shelf[k].from)[field] = s /\ s.len < Capacity(heap, s)

(* A thunk is a value: what is built with one does not change it, nor the  *)
(* ones it was built with, but in these two cases (the With functions and  *)
(* AppendArgs of thunk.go over the slices they share).                     *)
ThunksStay ==
  \A i \in DOMAIN shelf :
    Now(Thing(i)) # shelf[i].built =>
      \E j \in DOMAIN shelf : Overwrites(j) \/ \E k \in 1..(j - 1) : Collide(j, k)

-----------------------------------------------------------------------------
(* What a thunk was built as does not change: the newest is the one to look at. *)
Newest == shelf[Len(shelf)]

RECURSIVE Bottom(_)
Bottom(image) == IF image.is = "Thunk" THEN Bottom(image.image) ELSE image

Given(i, field) == IF shelf[i].given[field] # <<>> THEN shelf[i].given[field][1]
                   ELSE IF Bottom(Thing(i)) = Nil THEN <<>>
                   ELSE BaseConfig[field]

Published == Ref("to", Nil, "", "latest", "")

(* What is published has this configuration, if it is. *)
HasConfig(done, entrypoint, cmd) ==
  done.error = "" => /\ done.asks.of.image.of.config.entrypoint = entrypoint
                     /\ done.asks.of.image.of.config.cmd = cmd

(* The image that is published of a thunk has the entrypoint and the       *)
(* default command that were given last on the way to it, or else those of *)
(* the image below: through thunks that become images, that are rebased,   *)
(* or clear them (Build and Publish of buildkit.go).                       *)
ConfigInherits ==
  shelf # <<>> => HasConfig(PublishThunk(Newest.built, Published), Given(Len(shelf), "entrypoint"),
                            Given(Len(shelf), "cmd"))

(* Values whose message or meaning is not all of them: a glob of a host or *)
(* cache path that is not the source of a mount, the value of a secret and *)
(* the place of an embedded file.                                          *)
RECURSIVE Partial(_, _)
Partial(v, mounted) ==
  CASE v.is \in {"HostPath", "CachePath"} -> ~mounted /\ Globs(v.path) # {}
    [] v.is \in {"Secret", "FSPath"} -> TRUE
    [] v.is \in {"ThunkPath", "ThunkAddr"} -> Partial(v.thunk, FALSE)
    [] v.is = "List"  -> \E i \in DOMAIN v.vals : Partial(v.vals[i], FALSE)
    [] v.is = "Scope" -> \E i \in DOMAIN Each(v) : Partial(Each(v)[i][2], FALSE)
    [] v.is = "Thunk" ->
         \/ \E i \in DOMAIN v.args : Partial(v.args[i], FALSE)
         \/ \E i \in DOMAIN v.stdin : Partial(v.stdin[i], FALSE)
         \/ \E i \in DOMAIN v.mounts : Partial(v.mounts[i].source, TRUE)
         \/ Partial(v.env, FALSE) \/ Partial(v.dir, TRUE) \/ Partial(v.image, FALSE)
    [] v.is = "Archive"     -> Partial(v.file, TRUE)
    [] v.is = "DockerBuild" -> Partial(v.context, TRUE)
    [] v.is = "Ref"         -> Partial(v.addr, FALSE)
    [] OTHER -> FALSE

(* What becomes of a thunk, by each operation. *)
HashOf(done)      == IF done.error # "" THEN Err ELSE Hash(done.asks)
ResolvedHash(ref) == HashOf(ResolveRef(ref, "sha"))

Outcomes(t) ==
  [done  |-> RunThunk(t, IF t.ports = <<>> THEN "read" ELSE "run"),   \* a service is only run
   image |-> ExportThunk(t),
   resolved |-> IF t.image.is = "Ref" THEN ResolvedHash(t.image) ELSE Err,
   files |-> {OpenPath(ThunkPath(t, p)) : p \in {q \in Subpaths : ~IsDir(q)}}]

FromItsValues(t) ==
  /\ t.image = Nil \/ ImageFrom(ImageValue(t.image)) = <<t.image>>
  /\ t.dir = Nil \/ DirFrom(DirValue(t.dir)) = <<t.dir>>
  /\ \A i \in DOMAIN t.mounts :
       SourceFrom(SourceValue(t.mounts[i].source)) = <<t.mounts[i].source>>

(* What is received of a message, and what is made of it: its hash is that *)
(* of the thunk that was sent if the message is.                           *)
SameThunk(t, received, message) ==
  /\ MarshalProto(received) = message
  /\ Platform(t.image) # Nil => Cardinality({Outcomes(x) : x \in {t, received}}) = 1

SurvivesSending(t, message) == message # Err => SameThunk(t, FromProto(message), message)

(* Of a thunk that was sent, the runtime at the other end of a connection  *)
(* asks BuildKit for the same as one at this end, whatever is done with    *)
(* it, refuses the same, and names it by the same hash.  Only thunks with  *)
(* a platform are sent: Bass runs the others by itself.  And what is       *)
(* decoded from the value of a part of it is that part.                    *)
RoundTrips ==
  shelf # <<>> =>
    /\ FromItsValues(Newest.built)
    /\ ~Partial(Newest.built, FALSE) => SurvivesSending(Newest.built, MarshalProto(Newest.built))

-----------------------------------------------------------------------------
MountedKinds == {"ThunkPath", "HostPath", "CachePath", "FSPath"}

MountedArgs(t) == {i \in DOMAIN t.args : t.args[i].is \in MountedKinds}

Cwd(cmd) == IF cmd.dir = Nil THEN <<Here>> ELSE cmd.dir.path

PathValues(t) ==
  {t.args[i] : i \in MountedArgs(t)} \cup (IF t.dir = Nil THEN {} ELSE {t.dir})

(* Two paths with one target are mounted once: a path and the same with    *)
(* globs, a host directory and a cache of the same name, paths that climb  *)
(* out of what they are in.                                                *)
Shadowed(t, v) ==
  \E w \in PathValues(t) : w # v /\ w.is \in MountedKinds
                            /\ FromSlash(MountTarget(w)) = FromSlash(MountTarget(v))

SameFile(opened, mounted) ==
  opened.error = "" => /\ opened.asks.of.from = mounted.st
                       /\ opened.asks.of.at = mounted.at
ReadAsMounted(v) == SameFile(OpenPath(v), ThunkPathSt(v))

(* The arguments of a thunk name what its command mounts. *)
ArgsResolve(t, cmd) ==
  cmd.error = "" /\ ~Contains(Cwd(cmd), Up) =>
    \A k \in MountedArgs(t) :
      \/ Shadowed(t, t.args[k])
      \/ \E m \in DOMAIN cmd.mounts :
           /\ cmd.mounts[m].source = t.args[k]
           /\ Clean(cmd.mounts[m].target) = Clean(Cwd(cmd) \o cmd.args[k].pieces[1].of)

(* What a path argument names, read from the working directory of the      *)
(* command, is where that path is mounted.  The working directory must not *)
(* climb out of the first one.  And what a script reads of a file of a     *)
(* thunk is what another thunk mounts of it.                               *)
PathsResolve ==
  shelf # <<>> =>
    /\ ArgsResolve(Newest.built, NewCommand(Newest.built))
    /\ \A p \in Subpaths : ~IsDir(p) => ReadAsMounted(ThunkPath(Newest.built, p))
=============================================================================
