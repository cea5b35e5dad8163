------------------------------- MODULE Paths -------------------------------
(***************************************************************************)
(* pkg/bass/path.go and filesystem_path.go: the paths of an abstract file  *)
(* system.  A path string is what it is when split at its slashes: "a/b"   *)
(* is <<a, b>>, "/a" is <<Sep, a>>, "a/" is <<a, Sep>>, "" is <<Sep>> and  *)
(* "/" is <<Sep, Sep>>, where Sep is the empty name.  Joining two strings  *)
(* with a slash is then the concatenation of the sequences.                *)
(***************************************************************************)
EXTENDS Naturals, Sequences, SequencesExt

(* A record, so that a name may carry what it is the hash of. *)
N(name) == [n |-> name]
Sep     == N("")
Here    == N(".")
Up      == N("..")

IsAbs(s) == Len(s) > 1 /\ s[1] = Sep

(* path.Clean *)
Step(abs, done, name) ==
  CASE name \in {Sep, Here} -> done
    [] name = Up /\ done # <<>> /\ Last(done) # Up -> Front(done)
    [] name = Up /\ done = <<>> /\ abs -> done
    [] OTHER -> Append(done, name)

Rooted(abs, names) ==
  IF abs THEN IF names = <<>> THEN <<Sep, Sep>> ELSE <<Sep>> \o names
  ELSE IF names = <<>> THEN <<Here>> ELSE names

RECURSIVE CleanFrom(_, _, _)
CleanFrom(abs, done, s) ==
  IF s = <<>> THEN Rooted(abs, done)
  ELSE CleanFrom(abs, Step(abs, done, Head(s)), Tail(s))

Clean(s) == CleanFrom(IsAbs(s), <<>>, s)

(* path.Dir and path.Base *)
DirOf(s)  == IF Len(s) = 1 THEN <<Here>> ELSE Clean(Front(s) \o <<Sep>>)
BaseOf(s) == Last(Clean(s))

-----------------------------------------------------------------------------
DirPath(s, globs) == [is |-> "DirPath", path |-> s, globs |-> globs]
FilePath(s)       == [is |-> "FilePath", path |-> s]

(* The Clean of the root is cut to "". *)
CutRoot(path)  == IF path = <<Sep, Sep>> THEN <<Sep>> ELSE path
NewDirPath(s)  == DirPath(CutRoot(Clean(s)), {})
NewFilePath(s) == FilePath(Clean(s))

(* ParseFileOrDirPath: a trailing slash, or ".", makes a directory. *)
ParseFileOrDirPath(s) ==
  IF s = <<Here>> \/ (Len(s) > 1 /\ Last(s) = Sep) THEN NewDirPath(s)
                                                  ELSE NewFilePath(s)

IsDir(p) == p.is = "DirPath"

(* A directory is extended by either kind, and the globs of both are gone. *)
PathOfKind(dir, path) == IF dir THEN DirPath(path, {}) ELSE FilePath(path)
Extend(dir, sub)  == PathOfKind(IsDir(sub), Clean(dir.path \o sub.path))

(* The FromSlash of a directory ends in a slash. *)
Slashed(fs, dir) ==
  (IF IsAbs(fs) \/ (dir /\ fs = <<Here>>) THEN fs ELSE <<Here>> \o fs)
  \o IF dir THEN <<Sep>> ELSE <<>>

FromSlash(p) == Slashed(Clean(p.path), IsDir(p))

Dir(p) == NewDirPath(DirOf(p.path))

(* The globs of a directory; a file has none. *)
Globs(p) == IF IsDir(p) THEN p.globs ELSE {}
=============================================================================
