----------------------------- MODULE ThunkValues -----------------------------
(***************************************************************************)
(* The parts of a thunk as values of the language: FromValue and ToValue   *)
(* of pkg/bass/thunk_types.go, and the scopes that structs are made of and *)
(* decoded from (value.go, scope.go).  A conversion returns a sequence: of *)
(* one, or of none if it fails.                                            *)
(***************************************************************************)
EXTENDS Thunks

CONSTANT HostArch   \* runtime.GOARCH

OfKind(v, kind) == IF v.is = kind THEN <<v>> ELSE <<>>

(* Of the kinds, in the order they are tried. *)
FirstOf(tries) == FoldLeft(LAMBDA found, try : IF found # <<>> THEN found ELSE try, <<>>, tries)

(* valueOfStruct: what is optional and zero is left out. *)
Struct(fields) ==
  Scope(FlattenSeq([i \in DOMAIN fields |->
          IF fields[i].given = <<>> THEN <<>> ELSE << <<fields[i].key, fields[i].given[1]>> >>]),
        <<>>)

Required(key, v)           == [key |-> key, given |-> <<v>>]
Optional(key, isZero, v)   == [key |-> key, given |-> IF isZero THEN <<>> ELSE <<v>>]

(* decodeStruct, of a field: what is not found is optional or has a        *)
(* default, otherwise, or none.                                            *)
DecodeField(scope, key, FromValue(_), otherwise) ==
  LET found == Get(scope, key) IN IF found = <<>> THEN otherwise ELSE FromValue(found[1])

None == <<>>

StringFrom(v) == IF v.is = "String" THEN <<v.s>> ELSE <<>>

-----------------------------------------------------------------------------
PlatformValue(arch) ==
  Struct(<<Required("architecture", Str(arch)), Required("os", Str("linux"))>>)

PlatformFrom(v) ==
  IF v.is # "Scope" \/ DecodeField(v, "os", StringFrom, None) = <<>> THEN <<>>
  ELSE DecodeField(v, "architecture", StringFrom, <<HostArch>>)

(* ImageRepository: what is not an address is the name. *)
RepositoryValue(r) == IF r.static # "" THEN Str(r.static) ELSE r.addr

RepositoryFrom(v) == OfKind(v, "String") \o OfKind(v, "ThunkAddr")

RefValue(r) ==
  Struct(<<Required("repository", RepositoryValue(r)),
           Optional("platform", r.platform = "", PlatformValue(r.platform)),
           Optional("tag", r.tag = "", Str(r.tag)), Optional("digest", r.digest = "", Str(r.digest))>>)

RefFrom(v) ==
  LET repo     == DecodeField(v, "repository", RepositoryFrom, None)
      platform == DecodeField(v, "platform", PlatformFrom, <<"">>)
      names    == platform \o DecodeField(v, "tag", StringFrom, <<"">>)
                  \o DecodeField(v, "digest", StringFrom, <<"">>)
  IN  IF v.is # "Scope" \/ repo = <<>> \/ Len(names) < 3 THEN <<>>
      ELSE IF repo[1].is = "String" THEN <<Ref(repo[1].s, Nil, names[1], names[2], names[3])>>
      ELSE <<Ref("", repo[1], names[1], names[2], names[3])>>

(* ImageBuildInput, which is the value it holds, as a mount's source and a *)
(* directory are.                                                          *)
InputValue(input) == input

InputFrom(v) ==
  FirstOf(<<OfKind(v, "HostPath"), OfKind(v, "FSPath"), OfKind(v, "ThunkPath")>>)

ArchiveValue(r) ==
  Struct(<<Required("file", InputValue(r.file)), Required("platform", PlatformValue(r.platform)),
           Optional("tag", r.tag = "", Str(r.tag))>>)

ArchiveFrom(v) ==
  LET file  == DecodeField(v, "file", InputFrom, None)
      names == DecodeField(v, "platform", PlatformFrom, None)
               \o DecodeField(v, "tag", StringFrom, <<"">>)
  IN  IF v.is # "Scope" \/ file = <<>> \/ Len(names) < 2 THEN <<>>
      ELSE <<Archive(file[1], names[1], names[2])>>

DockerBuildValue(r) ==
  Struct(<<Required("platform", PlatformValue(r.platform)),
           Required("docker-build", InputValue(r.context)),
           Optional("dockerfile", r.dockerfile = Nil, r.dockerfile),
           Optional("target", r.target = "", Str(r.target)),
           Optional("args", r.args = Nil, r.args)>>)

FileFrom(v)  == OfKind(v, "FilePath")
ScopeFrom(v) == OfKind(v, "Scope")

DockerBuildFrom(v) ==
  LET context == DecodeField(v, "docker-build", InputFrom, None)
      names   == DecodeField(v, "platform", PlatformFrom, None)
                 \o DecodeField(v, "target", StringFrom, <<"">>)
      file    == DecodeField(v, "dockerfile", FileFrom, <<Nil>>)
      args    == DecodeField(v, "args", ScopeFrom, <<Nil>>)
  IN  IF v.is # "Scope" \/ <<>> \in {context, file, args} \/ Len(names) < 2 THEN <<>>
      ELSE <<DockerBuild(context[1], names[1], file[1], names[2], args[1])>>

-----------------------------------------------------------------------------
(* ThunkImage *)
ImageValue(image) ==
  CASE image.is = "Ref"         -> RefValue(image)
    [] image.is = "Thunk"       -> image
    [] image.is = "Archive"     -> ArchiveValue(image)
    [] image.is = "DockerBuild" -> DockerBuildValue(image)

ImageFrom(v) ==
  IF v.is = "Scope" THEN FirstOf(<<RefFrom(v), ArchiveFrom(v), DockerBuildFrom(v)>>)
                    ELSE OfKind(v, "Thunk")

(* ThunkMountSource *)
SourceValue(source) == source

SourceFrom(v) ==
  FirstOf(<<OfKind(v, "HostPath"), OfKind(v, "FSPath"), OfKind(v, "ThunkPath"),
            OfKind(v, "CachePath"), OfKind(v, "Secret")>>)

(* ThunkDir: of a thunk or a host, a directory. *)
DirValue(dir) == dir

DirFrom(v) ==
  IF v.is \in {"ThunkPath", "HostPath"} THEN IF IsDir(v.path) THEN <<v>> ELSE <<>>
  ELSE OfKind(v, "DirPath")
=============================================================================
