------------------------------- MODULE Thunks -------------------------------
(***************************************************************************)
(* pkg/bass/thunk.go, thunk_types.go and the paths that refer to hosts,    *)
(* caches, embedded file systems and thunks: the values a thunk is made    *)
(* of.  A pointer that is nil is Nil.  Strings, numbers, booleans and      *)
(* words are model data: what matters is which of them are the same.       *)
(***************************************************************************)
EXTENDS Paths

Nil == [is |-> "nil"]

Str(s)          == [is |-> "String", s |-> s]
Number(i)       == [is |-> "Int", i |-> i]
Null            == [is |-> "Null"]
(* What is not a ProtoMarshaler, a function for example. *)
Opaque          == [is |-> "Opaque"]
Secret(name, v) == [is |-> "Secret", name |-> name, value |-> v]
List(vals)      == [is |-> "List", vals |-> vals]
Command(name)   == [is |-> "CommandPath", name |-> name]
HostPath(c, p)  == [is |-> "HostPath", context |-> c, path |-> p]
CachePath(id, mode, p) == [is |-> "CachePath", id |-> id, mode |-> mode, path |-> p]
ThunkPath(t, p) == [is |-> "ThunkPath", thunk |-> t, path |-> p]
ThunkAddr(t, port) == [is |-> "ThunkAddr", thunk |-> t, port |-> port]
(* The files of an fs.FS, as <<path, content>>, and a path in it. *)
FSPath(files, p) == [is |-> "FSPath", files |-> files, path |-> p]

Scope(binds, parents) == [is |-> "Scope", binds |-> binds, parents |-> parents]

Ref(repo, addr, platform, tag, digest) ==
  [is |-> "Ref", static |-> repo, addr |-> addr, platform |-> platform,
   tag |-> tag, digest |-> digest]
Archive(file, platform, tag) ==
  [is |-> "Archive", file |-> file, platform |-> platform, tag |-> tag]
DockerBuild(ctx, platform, dockerfile, target, args) ==
  [is |-> "DockerBuild", context |-> ctx, platform |-> platform,
   dockerfile |-> dockerfile, target |-> target, args |-> args]

Port(name, port)      == [is |-> "Port", name |-> name, port |-> port]
Mount(source, target) == [is |-> "Mount", source |-> source, target |-> target]

(* Thunk{}: without an image it is a Bass thunk. *)
Scratch ==
  [is |-> "Thunk", image |-> Nil, insecure |-> FALSE, args |-> <<>>,
   useEntrypoint |-> FALSE, stdin |-> <<>>, env |-> Nil, dir |-> Nil,
   mounts |-> <<>>, labels |-> Nil, ports |-> <<>>, tls |-> Nil,
   entrypoint |-> <<>>, clearEntrypoint |-> FALSE,
   defaultArgs |-> <<>>, clearDefaultArgs |-> FALSE]

-----------------------------------------------------------------------------
(* pkg/bass/scope.go *)

(* What is bound to a symbol there: a sequence of at most one. *)
BoundAt(binds, at) == IF at = {} THEN <<>> ELSE <<binds[CHOOSE i \in at : TRUE][2]>>
Own(binds, sym)    == BoundAt(binds, {i \in DOMAIN binds : binds[i][1] = sym})

(* The keys of the bindings that are not among the keys follow them. *)
RECURSIVE WithKeys(_, _)
WithKeys(keys, more) ==
  IF more = <<>> THEN keys
  ELSE WithKeys(IF \E i \in DOMAIN keys : keys[i] = Head(more) THEN keys
                ELSE Append(keys, Head(more)), Tail(more))

KeysOf(binds) == [i \in DOMAIN binds |-> binds[i][1]]

RECURSIVE Get(_, _), GetFrom(_, _, _), Keys(_), KeysFrom(_, _)

(* The local bindings, then the parents in order. *)
GetFrom(found, parents, sym) ==
  IF found # <<>> \/ parents = <<>> THEN found
  ELSE GetFrom(Get(Head(parents), sym), Tail(parents), sym)
Get(scope, sym) == GetFrom(Own(scope.binds, sym), scope.parents, sym)

(* eachShadow: those of the parents first, each once. *)
KeysFrom(keys, parents) ==
  IF parents = <<>> THEN keys
  ELSE KeysFrom(WithKeys(keys, Keys(Head(parents))), Tail(parents))
Keys(scope) == WithKeys(KeysFrom(<<>>, scope.parents), KeysOf(scope.binds))

EachOfKeys(scope, keys) == [i \in DOMAIN keys |-> <<keys[i], Get(scope, keys[i])[1]>>]
Each(scope) == EachOfKeys(scope, Keys(scope))

Set(scope, sym, val) ==
  [scope EXCEPT !.binds =
     IF \E i \in DOMAIN @ : @[i][1] = sym
     THEN [i \in DOMAIN @ |-> IF @[i][1] = sym THEN <<sym, val>> ELSE @[i]]
     ELSE Append(@, <<sym, val>>)]

CopyScope(scope) == Scope(Each(scope), <<>>)

-----------------------------------------------------------------------------
(* Thunk.Platform: Nil of a Bass thunk, which selects no runtime. *)
RECURSIVE Platform(_)
Platform(image) ==
  CASE image.is = "nil" -> Nil
    [] image.is = "Thunk" -> Platform(image.image)
    [] OTHER -> [is |-> "Platform", arch |-> image.platform]

(* Extend of a path in a thunk, a host directory, a cache or an fs.FS. *)
ExtendIn(path, sub) == [path EXCEPT !.path = Extend(path.path, sub)]
=============================================================================
