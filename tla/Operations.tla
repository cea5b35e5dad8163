----------------------------- MODULE Operations -----------------------------
(***************************************************************************)
(* The operations on thunks: who does them (pkg/bass/thunk.go, the pool of *)
(* pkg/runtimes/pool.go), and what a runtime asks of BuildKit for them     *)
(* (pkg/runtimes/buildkit.go).  An outcome is by whom, "bass" or the place *)
(* of a runtime in the pool, what is asked, and an error.  What BuildKit   *)
(* makes of it, and the services that are started on the way (the module   *)
(* Services), are left out.                                                *)
(***************************************************************************)
EXTENDS Builds

(* The runtimes of the pool, in order: the platform of each, and whether   *)
(* it has a client: one inside of a build has only a gateway.              *)
CONSTANT Pool

Done(by, asks) == [by |-> by, asks |-> asks, error |-> ""]
Refused(error) == [by |-> "nobody", asks |-> Nil, error |-> error]

Nobody == -1   \* no runtime: Bass itself

CanSelect(platform, runtime) == platform.arch = runtime.platform

(* Pool.Select: the first runtime that fits, or 0. *)
Select(platform) ==
  SelectInSeq(Pool, LAMBDA runtime : CanSelect(platform, runtime))

(* Thunk.Run and its like: with a runtime of the pool, if it has a         *)
(* platform.                                                               *)
RuntimeFor(platform) == IF platform = Nil THEN Nobody ELSE Select(platform)
RuntimeOf(t)         == RuntimeFor(Platform(t.image))

WithRuntime(runtime, outcome, bass) ==
  IF runtime = Nobody THEN bass
  ELSE IF runtime = 0 THEN Refused("no runtime")
  ELSE outcome

-----------------------------------------------------------------------------
(* What is asked of BuildKit.  A path is at one of the output, which may   *)
(* be below what was mounted over the working directory.                   *)
ForRun(ib)     == Op("run", ib.fs)
ReadStdout(ib) == Op("stdout", ib.fs)
ForPublish(ib) == Op("image", [fs |-> ib.fs, config |-> ib.config])

ForExportDir(ib, path) ==
  Op("copy", [from |-> ib.output, at |-> Join(ib.at, FromSlash(path)), globs |-> Globs(path)])

ExportFile(ib, path) ==
  Op("file", [from |-> ib.output, at |-> Join(ib.at, FromSlash(path)), name |-> FromSlash(path)])

(* Buildkit.build: what the callback asks, of a build that was made before. *)
Asked(runtime, ib, request) ==
  IF ib.error # "" THEN Refused(ib.error) ELSE Done(runtime, request)

(* The operations that export have BuildKit itself write what was built.   *)
Exported(runtime, ib, request) ==
  IF ib.error = "" /\ ~Pool[runtime].client
  THEN Refused("gateway client does not support exporting")
  ELSE Asked(runtime, ib, request)

(* How a thunk is run: to run it, or to read what it prints. *)
RunAs(how, ib)               == IF how = "run" THEN ForRun(ib) ELSE ReadStdout(ib)
AskRun(runtime, how, ib)     == Asked(runtime, ib, RunAs(how, ib))
BuildkitRun(runtime, how, t) == AskRun(runtime, how, Build(t, TRUE))

(* An image is exported without running what has no command of its own. *)
AskExport(runtime, ib)     == Exported(runtime, ib, ForPublish(ib))
BuildkitExport(runtime, t) == AskExport(runtime, Build(t, FALSE))

(* ImageRef.Ref: the digest, or the tag. *)
RefOf(ref) ==
  [repo |-> ref.static,
   at |-> IF ref.digest # "" THEN ref.digest ELSE IF ref.tag # "" THEN ref.tag ELSE "latest"]

AskPush(runtime, ib, ref) ==
  Exported(runtime, ib, Op("push", [image |-> ForPublish(ib), ref |-> RefOf(ref)]))

BuildkitPublish(runtime, t, ref) ==
  IF ref.static = "" THEN Refused("ref does not refer to a static repository")
  ELSE AskPush(runtime, Build(t, FALSE), ref)

AskPath(runtime, ib, path) ==
  IF IsDir(path) THEN Exported(runtime, ib, ForExportDir(ib, path))
  ELSE Asked(runtime, ib, ExportFile(ib, path))

BuildkitExportPath(runtime, t, path) == AskPath(runtime, Build(t, TRUE), path)

-----------------------------------------------------------------------------
(* Thunk.RunDir: the directory of what is run, which for a command is the  *)
(* standard library.  What has no command, or one that is not a path, is   *)
(* not run.                                                                *)
RunDir(cmd) ==
  CASE cmd.is = "FilePath"    -> Dir(cmd)
    [] cmd.is = "CommandPath" -> Op("std", Nil)
    [] OTHER -> [cmd EXCEPT !.path = Dir(@)]

Runnable(t) ==
  /\ t.args # <<>>
  /\ t.args[1].is \in {"FilePath", "CommandPath", "ThunkPath", "HostPath", "FSPath", "CachePath"}
  /\ t.args[1].is = "ThunkPath" => ~IsDir(t.args[1].path)

RunState(t, stdout) ==
  [dir |-> RunDir(t.args[1]), env |-> t.env, stdin |-> t.stdin, stdout |-> stdout]

BassRun(t, stdout) ==
  IF Runnable(t) THEN Done("bass", Op("module", [of |-> t.args[1], with |-> RunState(t, stdout)]))
  ELSE Refused("panic")

(* Thunk.Run and Thunk.Read, by the runtime for the thunk, as are the ones *)
(* below.                                                                  *)
RunBy(runtime, how, t) ==
  WithRuntime(runtime, BuildkitRun(runtime, how, t),
              BassRun(t, IF how = "run" THEN "discarded" ELSE "read"))
RunThunk(t, how) == RunBy(RuntimeOf(t), how, t)

ExportBy(runtime, t) ==
  WithRuntime(runtime, BuildkitExport(runtime, t), Refused("cannot export Bass thunk"))
ExportThunk(t) == ExportBy(RuntimeOf(t), t)

PublishBy(runtime, t, ref) ==
  WithRuntime(runtime, BuildkitPublish(runtime, t, ref), Refused("cannot publish Bass thunk"))
PublishThunk(t, ref) == PublishBy(RuntimeOf(t), t, ref)

(* ThunkPath.Open *)
OpenBy(runtime, v) ==
  WithRuntime(runtime, BuildkitExportPath(runtime, v.thunk, v.path),
              Refused("cannot open bass thunk path"))
OpenPath(v) == OpenBy(RuntimeOf(v.thunk), v)

(* Buildkit.Resolve: the image by its digest. *)
ImageThunk(ref) == [Scratch EXCEPT !.image = ref]

ResolveRef(ref, digest) ==
  IF RefFails(ref) \/ (ref.static = "" /\ ref.addr = Nil) THEN Refused("resolve ref")
  ELSE Done(Select([arch |-> ref.platform]), ImageThunk([ref EXCEPT !.digest = digest]))
=============================================================================
