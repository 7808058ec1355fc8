-------------------------------- MODULE Paths ---------------------------------
(***************************************************************************)
(* path_kill_back and path_resolve (core/main.c), which turn an operand of  *)
(* the command line into the name of a file, and find_file. A path is a     *)
(* sequence of characters, of which "/", "." and "~" matter.                *)
(***************************************************************************)
EXTENDS Integers, SequencesExt, FiniteSetsExt

CONSTANTS
  Cwd,    \* what getcwd returns
  Home    \* the HOME of the environment, or <<>> without one

Slash == "/"

Dot == "."

StartsWith(path, prefix) == path = prefix \/ IsPrefix(Append(prefix, Slash), path)

(* Cut off the last component, and the slash before it. (For the empty     *)
(* path the code looks at the byte before it, and leaves it empty.)        *)
KillBack(path) ==
  LET whole == IF path # <<>> /\ path[Len(path)] = Slash THEN Front(path) ELSE path
      slashes == {n \in DOMAIN whole : whole[n] = Slash}
  IN  IF Len(path) = 1 THEN path
      ELSE IF slashes = {} THEN whole ELSE SubSeq(whole, 1, Max(slashes) - 1)

(* `base' takes the place of the first n characters, unless nothing but a  *)
(* slash follows them.                                                     *)
Rebased(base, path, n) ==
  IF Len(path) > n + 1 THEN base \o SubSeq(path, n + 1, Len(path)) ELSE base

Absolute(path) ==
  IF StartsWith(path, <<"~">>) THEN Rebased(Home, path, 1)
  ELSE IF StartsWith(path, <<Dot>>) THEN Rebased(Cwd, path, 1)
  ELSE IF StartsWith(path, <<Dot, Dot>>) THEN Rebased(KillBack(Cwd), path, 2)
  ELSE path

(* The loop that takes out "./" and "..", from left to right.              *)
Scanned(cur) ==
  LET char(j) == IF j \in DOMAIN cur THEN cur[j] ELSE "NUL"
      step(s, j) ==
        IF j < s.next THEN s
        ELSE IF cur[j] = Dot /\ char(j + 1) = Slash THEN [s EXCEPT !.next = j + 2]
        ELSE IF cur[j] = Dot /\ char(j + 1) = Dot /\ char(j + 2) \in {Slash, "NUL"}
             THEN [out |-> KillBack(s.out), next |-> j + 2]
             ELSE [out |-> Append(s.out, cur[j]), next |-> j + 1]
  IN  FoldLeftDomain(LAMBDA s, j : step(s, j), [out |-> <<>>, next |-> 1], cur).out

(* Without a HOME the program ends at a path that starts with ~.           *)
Resolvable(path) == StartsWith(path, <<"~">>) => Home # <<>>

PathResolve(path) == Scanned(Absolute(path))

-----------------------------------------------------------------------------
(* The file that a path names to the operating system: its components from *)
(* the root, without empty ones and dots, after going back for each "..".  *)
Components(path) ==
  LET full == IF path # <<>> /\ path[1] = Slash THEN path ELSE Cwd \o <<Slash>> \o path
      enter(dirs, name) ==
        IF name \in {<<>>, <<Dot>>} THEN dirs
        ELSE IF name = <<Dot, Dot>> THEN (IF dirs = <<>> THEN dirs ELSE Front(dirs))
        ELSE Append(dirs, name)
      read(s, c) ==
        IF c = Slash THEN [dirs |-> enter(s.dirs, s.name), name |-> <<>>]
        ELSE [s EXCEPT !.name = Append(@, c)]
  IN  FoldLeft(read, [dirs |-> <<>>, name |-> <<>>], Append(full, Slash)).dirs

(* Names that end in a dot are not told from "." and "..".                 *)
DotsApart(path) ==
  \A n \in DOMAIN path :
    path[n] = Dot /\ (n = Len(path) \/ path[n + 1] = Slash) =>
      \/ n = 1 \/ path[n - 1] = Slash
      \/ path[n - 1] = Dot /\ (n = 2 \/ path[n - 2] = Slash)

(* ".." is only undone in what is spelt out.                               *)
SpeltOut(path) ==
  \/ path # <<>> /\ path[1] = Slash
  \/ StartsWith(path, <<Dot>>) \/ StartsWith(path, <<Dot, Dot>>)
  \/ \A n \in 1 .. Len(path) - 1 : path[n] # Dot \/ path[n + 1] # Dot
=============================================================================
