------------------------------- MODULE Builds -------------------------------
(***************************************************************************)
(* pkg/runtimes/buildkit.go: Build turns a thunk into a graph for BuildKit *)
(* and the configuration of the image it makes.  A state of the graph is a *)
(* record with a field op.  What BuildKit finds out, the configuration of  *)
(* an image, is the constant BaseConfig; no inputs are given from outside  *)
(* (as a frontend would), and certificates are configured.  NeedsInsecure   *)
(* is left out: nothing reads it.                                          *)
(***************************************************************************)
EXTENDS Commands

CONSTANT BaseConfig   \* a record of entrypoint and cmd

WorkDir == <<Sep, N("bass"), N("work")>>
Nowhere == <<Sep>>    \* "", the output's source path unless it was remounted

Op(name, of)    == [op |-> name, of |-> of]
NoConfig        == [entrypoint |-> <<>>, cmd |-> <<>>, labels |-> {}, ports |-> {}]
WithImageConfig == [NoConfig EXCEPT !.entrypoint = BaseConfig.entrypoint, !.cmd = BaseConfig.cmd]

BuildOf(fs, output, config) ==
  [fs |-> fs, output |-> output, at |-> Nowhere,
   config |-> config, error |-> ""]
Failed(error) == [BuildOf(Op("scratch", Nil), Op("scratch", Nil), NoConfig) EXCEPT !.error = error]

(* filepath.Join of two paths, of which the first may be "". *)
Join(a, b) == IF a = Nowhere THEN Clean(b) ELSE Clean(a \o b)

RECURSIVE Build(_, _), ThunkPathSt(_)

-----------------------------------------------------------------------------
HostPathSt(v) ==
  [st |-> Op("local", [context |-> v.context, globs |-> Globs(v.path), path |-> v.path.path]),
   at |-> FromSlash(v.path), error |-> ""]

FilesSt(files, path) ==
  [st |-> Op("files", files), at |-> FromSlash(path),
   error |-> IF files = {} THEN "not found" ELSE ""]
FSPathSt(v) == FilesSt(Below(v.files, NamesOf(v.path.path)), v.path)

(* Globs make a copy, which drops the path the output was mounted from. *)
OutputSt(ib, path) ==
  [st |-> IF Globs(path) = {} THEN ib.output
          ELSE Op("copy", [from |-> ib.output, at |-> ib.at, globs |-> Globs(path)]),
   at |-> IF Globs(path) = {} THEN Join(ib.at, FromSlash(path)) ELSE FromSlash(path),
   error |-> ib.error]
ThunkPathSt(v) == OutputSt(Build(v.thunk, TRUE), v.path)

(* buildInput, and the sources of initializeMount that have a state. *)
SourceSt(v) ==
  CASE v.is = "ThunkPath" -> ThunkPathSt(v)
    [] v.is = "HostPath"  -> HostPathSt(v)
    [] v.is = "FSPath"    -> FSPathSt(v)

(* initializeMount: a cache and a secret leave the output's path empty. *)
MountSt(s, at) ==
  [mount |-> [at |-> at, from |-> s.st, source |-> s.at], sp |-> s.at, error |-> s.error]

InitializeMount(source, at) ==
  CASE source.is = "CachePath" ->
         [mount |-> [at |-> at, from |-> Op("cache", [id |-> source.id, mode |-> source.mode]),
                     source |-> FromSlash(source.path)],
          sp |-> Nowhere, error |-> ""]
    [] source.is = "Secret" ->
         [mount |-> [at |-> at, from |-> Op("secret", [value |-> source.value]), source |-> Nowhere],
          sp |-> Nowhere, error |-> ""]
    [] OTHER -> MountSt(SourceSt(source), at)

-----------------------------------------------------------------------------
(* ref: the service of an address must have the port. *)
RefFails(r) ==
  r.static = "" /\ r.addr # Nil
  /\ \A i \in DOMAIN r.addr.thunk.ports : r.addr.thunk.ports[i].name # r.addr.port

FromRef(r) ==
  IF RefFails(r) THEN Failed("unknown port")
  ELSE BuildOf(Op("image", MarshalRef([r EXCEPT !.platform = ""])), Op("scratch", Nil),
               WithImageConfig)

(* What ociCache returns is what an import of the same archive returns. *)
FromArchive(r) ==
  BuildOf(Op("layout", MarshalArchive(r)), Op("scratch", Nil), WithImageConfig)

DockerSt(r, s) ==
  Op("docker", [context |-> s.st, at |-> s.at, file |-> r.dockerfile, target |-> r.target,
                args |-> IF r.args = Nil THEN {} ELSE Range(Each(r.args))])

FromContext(r, s) ==
  IF s.error # "" THEN Failed(s.error) ELSE BuildOf(DockerSt(r, s), DockerSt(r, s), WithImageConfig)

FromDocker(r) == FromContext(r, SourceSt(r.context))

Image(image) ==
  CASE image.is = "nil"         -> BuildOf(Op("scratch", Nil), Op("scratch", Nil), NoConfig)
    [] image.is = "Ref"         -> FromRef(image)
    [] image.is = "Thunk"       -> Build(image, FALSE)
    [] image.is = "Archive"     -> FromArchive(image)
    [] image.is = "DockerBuild" -> FromDocker(image)

(* What is set, or cleared, replaces what the image had. *)
Override(config, t) ==
  [config EXCEPT
     !.entrypoint = IF t.entrypoint # <<>> \/ t.clearEntrypoint THEN t.entrypoint ELSE @,
     !.cmd        = IF t.defaultArgs # <<>> \/ t.clearDefaultArgs THEN t.defaultArgs ELSE @,
     !.labels     = IF t.labels = Nil THEN @ ELSE Range(Each(t.labels)),
     !.ports      = @ \cup {t.ports[i].port : i \in DOMAIN t.ports}]

BadLabels(t) == t.labels # Nil /\ \E b \in Range(Each(t.labels)) : b[2].is # "String"

Literals(strings) == [i \in DOMAIN strings |-> Text(Piece("text", strings[i]))]

(* Without arguments, a forced build runs the default ones. *)
FullArgs(t, cmd, config) ==
  LET default == cmd.args = <<>>
      args    == IF default THEN Literals(config.cmd) ELSE cmd.args
  IN  IF default \/ t.useEntrypoint THEN Literals(config.entrypoint) \o args ELSE args

TargetPath(target) == IF IsAbs(target) THEN target ELSE Clean(WorkDir \o target)

(* The mounts one after the other, and what they change of the build. *)
AddTo(done, at, i) ==
  IF done.ib.error # "" THEN done
  ELSE [ib |-> [done.ib EXCEPT !.at = IF at = WorkDir THEN i.sp ELSE @, !.error = i.error],
        mounts |-> Append(done.mounts, i.mount)]

AddAt(done, m, at) == AddTo(done, at, InitializeMount(m.source, at))

RECURSIVE AddMounts(_, _)
AddMounts(done, mounts) ==
  IF mounts = <<>> THEN done
  ELSE AddMounts(AddAt(done, Head(mounts), TargetPath(Head(mounts).target)), Tail(mounts))

TLSMounts(t, hash) ==
  IF t.tls = Nil THEN <<>>
  ELSE << [at |-> FromSlash(t.tls.cert), from |-> Op("cert", [of |-> hash]), source |-> Nowhere],
          [at |-> FromSlash(t.tls.key), from |-> Op("key", [of |-> hash]), source |-> Nowhere] >>

(* The output is mounted as the working directory, unless that was mounted. *)
Work(ib, mounts) ==
  IF \E i \in DOMAIN mounts : TargetPath(mounts[i].target) = WorkDir THEN <<>>
  ELSE <<[at |-> WorkDir, from |-> ib.output, source |-> ib.at]>>

ExecOp(ib, t, cmd, hash, args, mounts) ==
  Op("exec", [root |-> ib.fs, args |-> args, dir |-> cmd.dir,
              env |-> cmd.env, secretEnv |-> cmd.secretEnv, stdin |-> cmd.stdin,
              insecure |-> t.insecure, host |-> IF t.ports = <<>> THEN Nil ELSE hash,
              mounts |-> mounts \o Work(ib, cmd.mounts)])

After(ib, exec) == [ib EXCEPT !.fs = exec, !.output = Op("output", exec)]

(* With the mounts there are. *)
ExecWith(ib, t, cmd, hash, args, done) ==
  IF done.ib.error # "" THEN Failed(done.ib.error)
  ELSE After(done.ib, ExecOp(ib, t, cmd, hash, args, done.mounts))

Exec(ib, t, cmd, hash, args) ==
  IF args = <<>> THEN Failed("no command specified")
  ELSE ExecWith(ib, t, cmd, hash, args,
                AddMounts([ib |-> ib, mounts |-> TLSMounts(t, hash)], cmd.mounts))

BuildOn(ib, t, cmd, hash, forceExec) ==
  IF hash = Err THEN Failed("hash")
  ELSE IF cmd.error # "" THEN Failed(cmd.error)
  ELSE IF BadLabels(t) THEN Failed("labels")
  ELSE IF cmd.args = <<>> /\ ~forceExec THEN ib
  ELSE Exec(ib, t, cmd, hash, FullArgs(t, cmd, ib.config))

Overridden(image, t) == [image EXCEPT !.config = Override(@, t)]

BuildFrom(image, t, forceExec) ==
  IF image.error # "" THEN image
  ELSE BuildOn(Overridden(image, t), t, NewCommand(t), Hash(t), forceExec)

Build(t, forceExec) == BuildFrom(Image(t.image), t, forceExec)
=============================================================================
