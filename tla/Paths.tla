------------------------------- MODULE Paths -------------------------------
(***************************************************************************)
(* Where gd2fuse keeps its files: the path managers of control/paths.      *)
(*                                                                         *)
(* A path is a sequence of names that is absolute or not.  A manager is a  *)
(* root, the directory of --conf-dir or none, and the levels that wrapper  *)
(* managers add to what the manager below them answers.  The program asks  *)
(* for the directories CONFIG and DATA only.                               *)
(***************************************************************************)
EXTENDS Naturals, Sequences

CONSTANTS
  FileNames,   \* names of directories and files
  Unset,       \* an environment variable, or an option, that is not given
  NoEntry      \* getpwuid finds no entry for the user

PathSet == [abs : BOOLEAN, names : Seq(FileNames)]

ASSUME NamesAssumption ==
  {".config", ".local", "share", "gd2fuse", "gdrive", "config", "data", "auth.info"} \subseteq FileNames
ASSUME UnsetAssumption == Unset \notin PathSet /\ NoEntry \notin PathSet \cup {Unset}

Abs(names) == [abs |-> TRUE, names |-> names]
Rel(names) == [abs |-> FALSE, names |-> names]
Below(p, names) == [p EXCEPT !.names = @ \o names]

\* The place that a path means to a process whose working directory is cwd.
At(cwd, p) == IF p.abs THEN p ELSE Below(cwd, p.names)

\* A directory, or the code of the exception that asking for it throws, or "crash".
Dir(p)    == [err |-> "Success", path |-> p]
NoDir(e)  == [err |-> e, path |-> Rel(<<>>)]

\* The answer of getpwuid is dereferenced, also when there is none.
ReadHomeDir(env) == IF env.HOME # Unset THEN env.HOME ELSE env.passwd

\* A variable that is set counts, also when it is empty.
XDGDir(type, env) ==
  LET given == IF type = "CONFIG" THEN env.XDG_CONFIG_HOME ELSE env.XDG_DATA_HOME
      below == IF type = "CONFIG" THEN <<".config">> ELSE <<".local", "share">>
  IN CASE given # Unset -> IF given.abs THEN Dir(Below(given, <<"gd2fuse">>))
                                        ELSE NoDir("PathError")
       [] given = Unset /\ ReadHomeDir(env) = NoEntry -> NoDir("crash")
       [] given = Unset /\ ReadHomeDir(env) = Unset -> NoDir("UnknownEnvVariable")
       [] OTHER -> IF ReadHomeDir(env).abs
                   THEN Dir(Below(ReadHomeDir(env), below \o <<"gd2fuse">>))
                   ELSE NoDir("PathError")

SinglePointDir_Flat(root, type, env) == Dir(root)

SinglePointDir_ConfigOnly(root, type, env) ==
  IF type = "CONFIG" THEN Dir(Below(root, <<"config">>)) ELSE XDGDir(type, env)

\* The directory of --conf-dir is taken as it is, relative or not.
SinglePointDir(root, type, env) ==
  Dir(Below(root, <<IF type = "CONFIG" THEN "config" ELSE "data">>))

\* An empty --conf-dir is none.
ConfDir(conf) == IF conf = Rel(<<>>) THEN Unset ELSE conf

\* What createGlobalConfiguration asks.
GlobalPaths(conf) == [root |-> ConfDir(conf), levels |-> <<>>]

NextLevel(manager, name) == [manager EXCEPT !.levels = Append(@, name)]

\* Nothing creates the directory: _autoCreate is never set.
GetDir(manager, type, env) ==
  LET base == IF manager.root = Unset THEN XDGDir(type, env)
              ELSE SinglePointDir(manager.root, type, env)
  IN IF base.err = "Success" THEN Dir(Below(base.path, manager.levels)) ELSE base
=============================================================================
