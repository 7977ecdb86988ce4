--------------------------------- MODULE Paths ---------------------------------
(***************************************************************************)
(* Path strings, as the shell, the VFS and RAMFS take them apart.  A path  *)
(* is a sequence of pieces: "/" and pieces of names, so that "/tmpx" is    *)
(* <<"/", "tmp", "x">> and begins with "/tmp" as it does for strncmp.      *)
(* Paths are assumed to fit the arrays they are copied to.                 *)
(***************************************************************************)
EXTENDS Integers, SequencesExt

Slash  == <<"/">>
Tmp    == <<"/", "tmp">>
TmpDir == <<"/", "tmp", "/">>

Absolute(path) == path # << >> /\ Head(path) = "/"

(* Position of the last "/", or 0. *)
strrchr(path) == SelectLastInSeq(path, LAMBDA piece : piece = "/")

get_basename(path) == SubSeq(path, strrchr(path) + 1, Len(path))

(* The full path that the VFS makes of the one it is given. *)
full_path(cwd, path) == IF Absolute(path) THEN path
                        ELSE IF Last(cwd) = "/" THEN cwd \o path
                        ELSE cwd \o Slash \o path

(* The mount with the longest prefix; a path is full, so "/" always fits. *)
find_mount(path) == IF IsPrefix(Tmp, path) THEN "ramfs" ELSE "abyssfs"

(* The tokens strtok_r finds between slashes, the empty ones left out. *)
Components(path) ==
  LET parts == FoldLeft(LAMBDA ps, piece :
                 CASE piece # "/"       -> Append(Front(ps), Append(Last(ps), piece))
                   [] Last(ps) = << >>  -> ps
                   [] OTHER             -> Append(ps, << >>),
               << << >> >>, path)
  IN  IF Last(parts) = << >> THEN Front(parts) ELSE parts

(* Mutant: the slash before the last component stays. *)
ParentWithSlash(path) ==
  LET last == strrchr(path)
  IN  IF last = 0 THEN path ELSE SubSeq(path, 1, last)

(* The path without its last component; of a path in the root, "/". *)
get_parent_dir(path) ==
  LET p    == IF Len(path) > 1 /\ Last(path) = "/" THEN Front(path) ELSE path
      last == strrchr(p)
  IN  CASE last = 0 -> p
        [] last = 1 -> Slash
        [] OTHER    -> SubSeq(p, 1, last - 1)

(* Where cd is to go from cwd: component by component. *)
cd_target(cwd, path) ==
  FoldLeft(LAMBDA at, part :
             CASE part = <<".">>  -> at
               [] part = <<"..">> -> get_parent_dir(at)
               [] OTHER           -> (IF at = Slash THEN at ELSE at \o Slash) \o part,
           IF Absolute(path) THEN Slash ELSE cwd,
           Components(path))

(* Mutant: the position of the slash is taken for a length. *)
InDirOneOff(file, dir) == IsPrefix(dir, file) /\ strrchr(file) = Len(dir)

(* is_file_in_dir of RAMFS: the last "/" of the name is right behind that  *)
(* of the directory.  Its case for "/tmp" comes to the same.               *)
is_file_in_dir(file, dir) == IsPrefix(dir, file) /\ strrchr(file) = Len(dir) + 1

--------------------------------------------------------------------------------
(* What the components of a path mean, for comparison: a stack of names.   *)

Directory(from, path) ==
  FoldLeft(LAMBDA stack, part :
             CASE part = <<".">>  -> stack
               [] part = <<"..">> -> IF stack = << >> THEN stack ELSE Front(stack)
               [] OTHER           -> Append(stack, part),
           IF Absolute(path) THEN << >> ELSE from,
           Components(path))

(* The one way to write a directory: no slash at the end, none doubled. *)
Spelled(stack) ==
  IF stack = << >> THEN Slash
  ELSE FlattenSeq([k \in DOMAIN stack |-> Slash \o stack[k]])
================================================================================
