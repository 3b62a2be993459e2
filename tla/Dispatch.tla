------------------------------ MODULE Dispatch ------------------------------
(***************************************************************************)
(* Which program argv[0] is (vetter-core/src/parsers/mod.rs).  `vet` looks *)
(* at the file behind the name before it asks the daemon; the daemon goes  *)
(* by the name alone, for it runs nothing.                                 *)
(*                                                                         *)
(* A file is [dir, name].  A world is what the file system and the         *)
(* environment hold: argv0, a file if it has a "/" and else a name (dir    *)
(* "", and name "" when it is empty); path, the directories of $PATH;      *)
(* trusted, those of $VETTER_PARSER_TRUSTED_DIRS; and files, the ones that *)
(* exist, each with the file it is after symlinks ({} when that cannot be  *)
(* found out), its inode and whether it can be executed.                   *)
(***************************************************************************)
EXTENDS Naturals, Sequences, FiniteSets

(* Every CommandParser's name, which is also what it handles. *)
Registry == {"curl"}

(* dispatch, which takes the last part of a path. *)
DispatchName(file) == Registry \cap {file.name}

BuiltinTrustedDirs == {"/usr/bin", "/usr/local/bin", "/opt/homebrew/bin", "/opt/local/bin"}

Canonical(world, file) == world.files[file].real

IsExecutable(world, file) == file \in DOMAIN world.files /\ world.files[file].executable

(* The first directory of $PATH that has it as an executable. *)
WhichInPath(world, name) ==
  LET hits == SelectSeq(world.path, LAMBDA dir : IsExecutable(world, [dir |-> dir, name |-> name]))
  IN  IF hits = <<>> THEN {} ELSE Canonical(world, [dir |-> hits[1], name |-> name])

FileId(world, file) == world.files[file].inode

TrustedInstallDirs(world) == BuiltinTrustedDirs \cup world.trusted

Located(world) ==
  IF world.argv0.dir # "" THEN {world.argv0} \cap DOMAIN world.files
  ELSE WhichInPath(world, world.argv0.name)

(* resolve_for_dispatch: the inode of the curl on $PATH, or a directory    *)
(* that only an administrator fills.                                       *)
ResolveError(world) ==
  LET located  == Located(world)
      resolved == UNION {Canonical(world, file) : file \in located}
      parser   == UNION {DispatchName(file) : file \in resolved}
      onPath   == UNION {WhichInPath(world, name) : name \in parser}
  IN
  IF world.argv0 = [dir |-> "", name |-> ""] THEN "EmptyArgv"
  ELSE IF located = {} THEN "NotFound"
  ELSE IF resolved = {} THEN "Io"
  ELSE IF parser = {} THEN "NoParser"
  ELSE IF \/ \E want \in onPath, file \in resolved : FileId(world, want) = FileId(world, file)
          \/ \E file \in resolved : file.dir \in TrustedInstallDirs(world)
  THEN "" ELSE "UntrustedBinary"
=============================================================================
