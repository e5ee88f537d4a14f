----------------------------- MODULE MCStartup -----------------------------
(* Values of the constants of Startup for TLC. *)
EXTENDS Startup

CONSTANTS p1, p2

MCProcs == {p1, p2}
MCFileNames == STRING
MCGmailAccounts == {"ana@gmail", "bob@gmail"}
MCHome == Abs(<<"home">>)

Plain == [HOME |-> Unset, XDG_CONFIG_HOME |-> Unset, XDG_DATA_HOME |-> Unset, passwd |-> MCHome]
NoData == [Plain EXCEPT !.HOME = MCHome, !.XDG_DATA_HOME = Rel(<<>>)]
Nobody == [Plain EXCEPT !.XDG_CONFIG_HOME = Abs(<<"etc">>), !.passwd = NoEntry]

Desk == Abs(<<"home", "desk">>)

Ana == [mode |-> "SERVICE", email |-> "ana@gmail", conf |-> Unset, env |-> Plain, cwd |-> Desk,
        code |-> FALSE, fg |-> FALSE, mnt |-> TRUE]
Bob == [Ana EXCEPT !.email = "bob@gmail", !.conf = Rel(<<"conf">>), !.fg = TRUE]
GetBob == [Bob EXCEPT !.mode = "GETAUTH", !.code = TRUE]

\* Ana's account below the XDG directories, Bob's below a relative --conf-dir,
\* which Ana tries too; and invocations that fail on the way.
MCInvocations ==
  {Ana, [Ana EXCEPT !.mode = "GETAUTH", !.conf = Rel(<<>>)],
   Bob, GetBob, [Bob EXCEPT !.email = "ana@gmail"],
   [Ana EXCEPT !.mode = "help"], [Ana EXCEPT !.email = NoEmail], [Ana EXCEPT !.email = "carl@mail"],
   [Ana EXCEPT !.env = NoData], [Ana EXCEPT !.env = Nobody], [Ana EXCEPT !.env = [Plain EXCEPT !.passwd = Unset]],
   [Ana EXCEPT !.env = [Plain EXCEPT !.XDG_CONFIG_HOME = Rel(<<>>)]]}

MCSecretPlaces == {Abs(<<"home", ".config", "gd2fuse", "gdrive">>)}
MCSymmetry == Permutations(MCProcs)
=============================================================================
