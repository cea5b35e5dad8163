--------------------------- MODULE ThunkMessages ---------------------------
(***************************************************************************)
(* pkg/bass/proto.go and the MarshalProto and UnmarshalProto of the types  *)
(* of a thunk: the message a thunk is hashed by and sent to a runtime as.  *)
(* A message is a record with a field msg; Err is a conversion that fails. *)
(***************************************************************************)
EXTENDS ThunkValues

Err == [msg |-> "error"]

OrErr(parts, m) == IF Err \in parts THEN Err ELSE m

(* The MarshalProto of each type. *)
RECURSIVE MarshalProto(_)

(* A message of several values fails if one of them does. *)
OfValues(kind, ms)     == OrErr(Range(ms), [msg |-> kind, values |-> ms])
Repeated(kind, vals)   == OfValues(kind, [i \in DOMAIN vals |-> MarshalProto(vals[i])])

Object(ms)             == OrErr({ms[i][2] : i \in DOMAIN ms}, [msg |-> "Object", bindings |-> ms])
MarshalBindings(binds) ==
  Object([i \in DOMAIN binds |-> <<binds[i][1], MarshalProto(binds[i][2])>>])
MarshalScope(scope)    == MarshalBindings(Each(scope))

MarshalPath(p) == [msg |-> p.is, path |-> p.path, globs |-> Globs(p)]

MarshalHost(p) ==
  [msg |-> "HostPath", context |-> p.context, path |-> MarshalPath(p.path)]

MarshalCache(p) ==
  [msg |-> "CachePath", id |-> p.id, mode |-> p.mode, path |-> MarshalPath(p.path)]

(* The files that are below a path, by what follows it. *)
NamesOf(path)    == SelectSeq(Clean(path), LAMBDA n : n # Here)
Below(files, at) == {f \in files : IsPrefix(at, f[1])}
Relative(at, files) == {<<SubSeq(f[1], Len(at) + 1, Len(f[1])), f[2]>> : f \in Below(files, at)}

(* The files themselves are sent, under the last name of the path. *)
Logical(dir, name, entries) ==
  IF entries = {} THEN Err
  ELSE [msg |-> "LogicalPath", dir |-> dir, name |-> name, entries |-> entries]

MarshalFS(p) ==
  Logical(IsDir(p.path), BaseOf(p.path.path), Relative(NamesOf(p.path.path), p.files))

(* What is sent with a message of its own. *)
With(part, m) == OrErr({part}, m)

ThunkPathMessage(thunk, path) ==
  With(thunk, [msg |-> "ThunkPath", thunk |-> thunk, path |-> path])
AddrMessage(thunk, port) == With(thunk, [msg |-> "ThunkAddr", thunk |-> thunk, port |-> port])

MarshalThunkPath(p) == ThunkPathMessage(MarshalProto(p.thunk), MarshalPath(p.path))
MarshalAddr(a)      == AddrMessage(MarshalProto(a.thunk), a.port)

-----------------------------------------------------------------------------
RefMessage(r, addr) ==
  With(addr, [msg |-> "Ref", repo |-> r.static, addr |-> addr,
              platform |-> r.platform, tag |-> r.tag, digest |-> r.digest])
MarshalRef(r) == RefMessage(r, IF r.static # "" THEN Nil ELSE MarshalProto(r.addr))

(* An input of an image, and the source of a mount: of their kinds only. *)
InputKinds  == {"ThunkPath", "HostPath", "FSPath"}
SourceKinds == InputKinds \cup {"CachePath", "Secret"}
MarshalOf(kinds, v) == IF v.is \in kinds THEN MarshalProto(v) ELSE Err

ArchiveMessage(r, file) ==
  With(file, [msg |-> "Archive", file |-> file, platform |-> r.platform, tag |-> r.tag])
MarshalArchive(r) == ArchiveMessage(r, MarshalOf(InputKinds, r.file))

(* The arguments must be strings. *)
DockerMessage(r, context, args) ==
  IF context = Err \/ \E i \in DOMAIN args : args[i][2].is # "String" THEN Err
  ELSE [msg |-> "DockerBuild", context |-> context, platform |-> r.platform,
        dockerfile |-> r.dockerfile, target |-> r.target, args |-> args]
MarshalDockerBuild(r) ==
  DockerMessage(r, MarshalOf(InputKinds, r.context), IF r.args = Nil THEN <<>> ELSE Each(r.args))

MountMessage(source, target) == With(source, [msg |-> "Mount", source |-> source, target |-> target])
MarshalMount(m) == MountMessage(MarshalOf(SourceKinds, m.source), MarshalPath(m.target))

MarshalTLS(tls) ==
  IF tls = Nil THEN Nil
  ELSE [msg |-> "TLS", cert |-> MarshalPath(tls.cert), key |-> MarshalPath(tls.key)]

(* No scope: no bindings. *)
BindingsOf(scope) == MarshalBindings(IF scope = Nil THEN <<>> ELSE Each(scope))

ThunkMessage(t, image, args, stdin, env, dir, mounts, labels) ==
  OrErr({image, args, stdin, env, dir, mounts, labels},
        [msg |-> "Thunk", image |-> image, insecure |-> t.insecure, args |-> args,
         useEntrypoint |-> t.useEntrypoint, stdin |-> stdin, env |-> env,
         dir |-> dir, mounts |-> mounts, labels |-> labels, ports |-> t.ports,
         tls |-> MarshalTLS(t.tls),
         entrypoint |-> t.entrypoint, clearEntrypoint |-> t.clearEntrypoint,
         defaultArgs |-> t.defaultArgs, clearDefaultArgs |-> t.clearDefaultArgs])

MarshalThunk(t) ==
  ThunkMessage(t, MarshalProto(t.image), Repeated("args", t.args), Repeated("stdin", t.stdin),
               BindingsOf(t.env), MarshalProto(t.dir), Repeated("mounts", t.mounts),
               BindingsOf(t.labels))

MarshalProto(v) ==
  CASE v.is = "nil"    -> Nil
    [] v.is = "Null"   -> [msg |-> "Null"]
    [] v.is = "Int"    -> [msg |-> "Int", i |-> v.i]
    [] v.is = "String" -> [msg |-> "String", s |-> v.s]
    [] v.is = "Secret" -> [msg |-> "Secret", name |-> v.name]  \* not its value
    [] v.is = "List"   -> Repeated("Array", v.vals)
    [] v.is = "Scope"  -> MarshalScope(v)
    [] v.is \in {"FilePath", "DirPath"} -> MarshalPath(v)
    [] v.is = "CommandPath" -> [msg |-> "CommandPath", name |-> v.name]
    [] v.is = "HostPath"  -> MarshalHost(v)
    [] v.is = "CachePath" -> MarshalCache(v)
    [] v.is = "FSPath"    -> MarshalFS(v)
    [] v.is = "ThunkPath" -> MarshalThunkPath(v)
    [] v.is = "ThunkAddr" -> MarshalAddr(v)
    [] v.is = "Thunk"     -> MarshalThunk(v)
    [] v.is = "Ref"       -> MarshalRef(v)
    [] v.is = "Archive"   -> MarshalArchive(v)
    [] v.is = "DockerBuild" -> MarshalDockerBuild(v)
    [] v.is = "Mount"     -> MarshalMount(v)
    [] OTHER -> Err

(* Hash and HashKey, which the model takes to be injective. *)
Hash(t) == MarshalProto(t)

-----------------------------------------------------------------------------
(* fod: the globs are not copied. *)
Fod(m) == IF m.msg = "DirPath" THEN DirPath(m.path, {}) ELSE FilePath(m.path)

UnmarshalPath(m) ==
  IF m.msg = "DirPath" THEN DirPath(m.path, m.globs) ELSE FilePath(m.path)

(* A host or cache path of a mount, an input or a working directory keeps  *)
(* its globs.                                                              *)
PathIn(m, globbed) == IF globbed THEN UnmarshalPath(m) ELSE Fod(m)

UnmarshalHost(m, globbed)  == HostPath(m.context, PathIn(m.path, globbed))
UnmarshalCache(m, globbed) == CachePath(m.id, m.mode, PathIn(m.path, globbed))

(* loadFS: an fs.FS in memory. *)
LoadFS(m) ==
  {<<SelectSeq(<<m.name>> \o e[1], LAMBDA n : n # Here), e[2]>> : e \in m.entries}

UnmarshalFS(m) ==
  FSPath(LoadFS(m), IF m.dir THEN DirPath(<<m.name>>, {}) ELSE FilePath(<<m.name>>))

(* The UnmarshalProto of each type. *)
RECURSIVE Unmarshal(_, _)

FromProto(m)       == Unmarshal(m, FALSE)
UnmarshalSource(m) == Unmarshal(m, TRUE)
Values(m)          == [i \in DOMAIN m.values |-> FromProto(m.values[i])]

UnmarshalThunkPath(m) == ThunkPath(FromProto(m.thunk), UnmarshalPath(m.path))
UnmarshalAddr(m)      == ThunkAddr(FromProto(m.thunk), m.port)

RECURSIVE SetAll(_, _)
SetAll(scope, bs) ==
  IF bs = <<>> THEN scope ELSE SetAll(Set(scope, Head(bs)[1], Head(bs)[2]), Tail(bs))
ScopeOf(bs) == SetAll(Scope(<<>>, <<>>), bs)

FromBindings(bs) == ScopeOf([i \in DOMAIN bs |-> <<bs[i][1], FromProto(bs[i][2])>>])

UnmarshalMount(m)   == Mount(UnmarshalSource(m.source), UnmarshalPath(m.target))
UnmarshalArchive(m) == Archive(UnmarshalSource(m.file), m.platform, m.tag)

UnmarshalDockerBuild(m) ==
  DockerBuild(UnmarshalSource(m.context), m.platform, m.dockerfile, m.target, ScopeOf(m.args))

UnmarshalRef(m) == Ref(m.repo, FromProto(m.addr), m.platform, m.tag, m.digest)

(* No bindings: no scope. *)
UnmarshalBindings(m) == IF m.bindings = <<>> THEN Nil ELSE FromBindings(m.bindings)

UnmarshalTLS(m) ==
  IF m = Nil THEN Nil
  ELSE [cert |-> UnmarshalPath(m.cert), key |-> UnmarshalPath(m.key)]

(* Mutant: UseEntrypoint is not taken over. *)
UnmarshalThunkPlain(m) ==
  [is |-> "Thunk", image |-> FromProto(m.image), insecure |-> m.insecure,
   args |-> Values(m.args), useEntrypoint |-> FALSE,
   stdin |-> Values(m.stdin), env |-> UnmarshalBindings(m.env),
   dir |-> UnmarshalSource(m.dir),
   mounts |-> Values(m.mounts),
   labels |-> UnmarshalBindings(m.labels), ports |-> m.ports,
   tls |-> UnmarshalTLS(m.tls),
   entrypoint |-> m.entrypoint, clearEntrypoint |-> m.clearEntrypoint,
   defaultArgs |-> m.defaultArgs, clearDefaultArgs |-> m.clearDefaultArgs]

UnmarshalThunk(m) ==
  [is |-> "Thunk", image |-> FromProto(m.image), insecure |-> m.insecure,
   args |-> Values(m.args), useEntrypoint |-> m.useEntrypoint,
   stdin |-> Values(m.stdin), env |-> UnmarshalBindings(m.env),
   dir |-> UnmarshalSource(m.dir),
   mounts |-> Values(m.mounts),
   labels |-> UnmarshalBindings(m.labels), ports |-> m.ports,
   tls |-> UnmarshalTLS(m.tls),
   entrypoint |-> m.entrypoint, clearEntrypoint |-> m.clearEntrypoint,
   defaultArgs |-> m.defaultArgs, clearDefaultArgs |-> m.clearDefaultArgs]

Unmarshal(m, globbed) ==
  CASE m = Nil            -> Nil
    [] m.msg = "Null"   -> Null
    [] m.msg = "Int"    -> Number(m.i)
    [] m.msg = "String" -> Str(m.s)
    [] m.msg = "Secret" -> Secret(m.name, "")
    [] m.msg = "Array"  -> List(Values(m))
    [] m.msg = "Object" -> FromBindings(m.bindings)
    [] m.msg \in {"FilePath", "DirPath"} -> UnmarshalPath(m)
    [] m.msg = "CommandPath" -> Command(m.name)
    [] m.msg = "HostPath"  -> UnmarshalHost(m, globbed)
    [] m.msg = "CachePath" -> UnmarshalCache(m, globbed)
    [] m.msg = "LogicalPath" -> UnmarshalFS(m)
    [] m.msg = "ThunkPath" -> UnmarshalThunkPath(m)
    [] m.msg = "ThunkAddr" -> UnmarshalAddr(m)
    [] m.msg = "Thunk"     -> UnmarshalThunk(m)
    [] m.msg = "Ref"       -> UnmarshalRef(m)
    [] m.msg = "Archive"   -> UnmarshalArchive(m)
    [] m.msg = "DockerBuild" -> UnmarshalDockerBuild(m)
    [] m.msg = "Mount"     -> UnmarshalMount(m)
=============================================================================
