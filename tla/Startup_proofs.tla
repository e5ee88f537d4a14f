---------------------------- MODULE Startup_proofs ----------------------------
(* What Startup guarantees for any processes, accounts, options and          *)
(* environments.                                                             *)
EXTENDS Startup, TLAPS

-----------------------------------------------------------------------------
(* Directories. *)

LEMMA SomeNames ==
  /\ \A x \in FileNames : <<x>> \in Seq(FileNames)
  /\ \A x, y \in FileNames : <<x, y>> \in Seq(FileNames)
  /\ \A x, y, z \in FileNames : <<x, y, z>> \in Seq(FileNames)
OBVIOUS

LEMMA NamesReplaced ==
  ASSUME NEW p \in [abs : BOOLEAN, names : Seq(FileNames)], NEW all
  PROVE  [p EXCEPT !.names = all] = [abs |-> p.abs, names |-> all]
OBVIOUS

LEMMA BelowPath ==
  ASSUME NEW p \in PathSet, NEW names \in Seq(FileNames)
  PROVE  /\ Below(p, names) = [abs |-> p.abs, names |-> p.names \o names]
         /\ Below(p, names).abs = p.abs /\ Below(p, names).names = p.names \o names
         /\ Below(p, names) \in PathSet
<1>1. p.abs \in BOOLEAN /\ p.names \in Seq(FileNames) /\ p.names \o names \in Seq(FileNames)
  BY DEF PathSet
<1>2. p \in [abs : BOOLEAN, names : Seq(FileNames)]
  BY DEF PathSet
<1>3. Below(p, names) = [abs |-> p.abs, names |-> p.names \o names]
  BY <1>2, NamesReplaced, Zenon DEF Below
<1>. QED
  BY <1>1, <1>3 DEF PathSet

\* The directory as a record of its two parts.
LEMMA BelowIs ==
  ASSUME NEW p \in PathSet, NEW names \in Seq(FileNames)
  PROVE  Below(p, names) = [abs |-> p.abs, names |-> p.names \o names]
BY BelowPath

\* A directory below a path is itself a path.
LEMMA BelowIn ==
  ASSUME NEW p \in PathSet, NEW names \in Seq(FileNames)
  PROVE  Below(p, names) \in PathSet
BY BelowPath

LEMMA AtPath ==
  ASSUME NEW cwd \in PathSet, cwd.abs, NEW p \in PathSet
  PROVE  At(cwd, p) \in PathSet /\ At(cwd, p).abs
BY BelowPath DEF At, PathSet

\* What --conf-dir or XDG gives.
Base(i, type) ==
  IF ConfDir(i.conf) = Unset THEN XDGDir(type, i.env)
  ELSE SinglePointDir(ConfDir(i.conf), type, i.env)

\* The answers to a question for a directory.
DirCodes == {"Success", "PathError", "UnknownEnvVariable", "crash"}

LEMMA GivenConf ==
  ASSUME NEW i \in Invocations, ConfDir(i.conf) # Unset
  PROVE  ConfDir(i.conf) = i.conf /\ i.conf \in PathSet
BY InvocationsAssumption DEF ConfDir

\* The levels of the provider and of the account.
Levels(i) == Append(Append(<<>>, "gdrive"), i.email)

LEMMA LevelsFacts ==
  ASSUME NEW i \in Invocations, i.email \in FileNames
  PROVE  Levels(i) \in Seq(FileNames) /\ Len(Levels(i)) = 2 /\ Levels(i)[2] = i.email
BY NamesAssumption DEF Levels

LEMMA XDGFacts ==
  ASSUME NEW i \in Invocations, NEW type \in {"CONFIG", "DATA"}
  PROVE  LET d == XDGDir(type, i.env) IN
         /\ d.err \in DirCodes
         /\ d.err = "Success" => d.path \in PathSet /\ d.path.abs
<1>. DEFINE given == IF type = "CONFIG" THEN i.env.XDG_CONFIG_HOME ELSE i.env.XDG_DATA_HOME
            below == IF type = "CONFIG" THEN <<".config">> ELSE <<".local", "share">>
            home  == ReadHomeDir(i.env)
            d     == XDGDir(type, i.env)
<1>1. given \in PathSet \cup {Unset} /\ home \in PathSet \cup {Unset, NoEntry}
  BY InvocationsAssumption, UnsetAssumption DEF ReadHomeDir
<1>2. \/ d = Dir(Below(given, <<"gd2fuse">>)) /\ given # Unset /\ given.abs
      \/ d = Dir(Below(home, below \o <<"gd2fuse">>)) /\ home \notin {Unset, NoEntry} /\ home.abs
      \/ d = NoDir("PathError")
      \/ d = NoDir("crash")
      \/ d = NoDir("UnknownEnvVariable")
  BY DEF XDGDir
<1>3. <<"gd2fuse">> \in Seq(FileNames) /\ below \o <<"gd2fuse">> \in Seq(FileNames)
  BY SomeNames, NamesAssumption
<1>. HIDE DEF given, below, home
<1>4. ASSUME NEW p \in PathSet, NEW names \in Seq(FileNames), p.abs
      PROVE  Below(p, names) \in PathSet /\ Below(p, names).abs
  BY <1>4, BelowPath
<1>. HIDE DEF d
<1>6. d.err \in DirCodes
  BY <1>2 DEF Dir, NoDir, DirCodes
<1>7. ASSUME d.err = "Success"
      PROVE  d.path \in PathSet /\ d.path.abs
  <2>1. \/ d.path = Below(given, <<"gd2fuse">>) /\ given # Unset /\ given.abs
        \/ d.path = Below(home, below \o <<"gd2fuse">>) /\ home \notin {Unset, NoEntry} /\ home.abs
    BY <1>2, <1>7 DEF Dir, NoDir
  <2>. QED
    BY <1>1, <1>3, <1>4, <2>1
<1>. QED
  BY <1>6, <1>7 DEF d

\* The three managers give directories that differ in their levels only.
LEMMA DirFacts ==
  ASSUME NEW i \in Invocations, NEW type \in {"CONFIG", "DATA"}
  PROVE  LET g == GetDir(GlobalPaths(i.conf), type, i.env)
             s == GetDir(SessionPaths(i), type, i.env) IN
         /\ g.err \in DirCodes
         /\ s.err = g.err
         /\ g.err = "Success" =>
              /\ g.path \in PathSet
              /\ s.path = Below(g.path, Levels(i))
              /\ IF ConfDir(i.conf) = Unset THEN g.path.abs
                 ELSE /\ g.path.abs = i.conf.abs
                      /\ g.path = Below(i.conf, <<IF type = "CONFIG" THEN "config" ELSE "data">>)
<1>. DEFINE b == Base(i, type)
            g == GetDir(GlobalPaths(i.conf), type, i.env)
            s == GetDir(SessionPaths(i), type, i.env)
<1>1. /\ b.err \in DirCodes
      /\ b.err = "Success" => b.path \in PathSet
      /\ IF ConfDir(i.conf) = Unset THEN b.err = "Success" => b.path.abs
         ELSE /\ b.err = "Success" /\ b.path.abs = i.conf.abs
              /\ b.path = Below(i.conf, <<IF type = "CONFIG" THEN "config" ELSE "data">>)
  <2>1. CASE ConfDir(i.conf) = Unset
    BY <2>1, XDGFacts DEF Base
  <2>2. CASE ConfDir(i.conf) # Unset
    <3>. DEFINE leaf == <<IF type = "CONFIG" THEN "config" ELSE "data">>
    <3>1. i.conf \in PathSet /\ ConfDir(i.conf) = i.conf
      BY <2>2, GivenConf
    <3>2. leaf \in Seq(FileNames)
      BY SomeNames, NamesAssumption
    <3>3. b.err = "Success" /\ b.path = Below(i.conf, leaf)
      BY <2>2, <3>1 DEF Base, SinglePointDir, Dir
    <3>. HIDE DEF leaf, b
    <3>4. b.path \in PathSet /\ b.path.abs = i.conf.abs
      BY <3>1, <3>2, <3>3, BelowPath
    <3>5. b.err \in DirCodes
      BY <3>3 DEF DirCodes
    <3>. QED
      BY <2>2, <3>3, <3>4, <3>5 DEF leaf
  <2>. QED
    BY <2>1, <2>2
<1>2. /\ g = IF b.err = "Success" THEN Dir(Below(b.path, <<>>)) ELSE b
      /\ s = IF b.err = "Success" THEN Dir(Below(b.path, Levels(i))) ELSE b
  <2>1. ASSUME NEW levels, NEW name
        PROVE  NextLevel([root |-> ConfDir(i.conf), levels |-> levels], name)
                 = [root |-> ConfDir(i.conf), levels |-> Append(levels, name)]
    <3>1. ASSUME NEW conf, NEW more
          PROVE  [[root |-> conf, levels |-> levels] EXCEPT !.levels = more]
                   = [root |-> conf, levels |-> more]
      OBVIOUS
    <3>2. NextLevel([root |-> ConfDir(i.conf), levels |-> levels], name)
            = [[root |-> ConfDir(i.conf), levels |-> levels] EXCEPT
                 !.levels = Append([root |-> ConfDir(i.conf), levels |-> levels].levels, name)]
      BY Zenon DEF NextLevel
    <3>. QED
      BY <3>1, <3>2, Zenon
  <2>3. /\ GlobalPaths(i.conf) = [root |-> ConfDir(i.conf), levels |-> <<>>]
        /\ SessionPaths(i) = [root |-> ConfDir(i.conf), levels |-> Append(Append(<<>>, "gdrive"), i.email)]
    BY <2>1, Zenon DEF GlobalPaths, SessionPaths, ProviderPaths
  <2>2. ASSUME NEW m, m.root = ConfDir(i.conf)
        PROVE  GetDir(m, type, i.env) = IF b.err = "Success" THEN Dir(Below(b.path, m.levels)) ELSE b
    BY <2>2, Zenon DEF GetDir, Base
  <2>4. /\ GlobalPaths(i.conf).root = ConfDir(i.conf) /\ GlobalPaths(i.conf).levels = <<>>
        /\ SessionPaths(i).root = ConfDir(i.conf) /\ SessionPaths(i).levels = Levels(i)
    BY <2>3 DEF Levels
  <2>5. g = IF b.err = "Success" THEN Dir(Below(b.path, GlobalPaths(i.conf).levels)) ELSE b
    BY <2>2, <2>4
  <2>6. s = IF b.err = "Success" THEN Dir(Below(b.path, SessionPaths(i).levels)) ELSE b
    BY <2>2, <2>4
  <2>. HIDE DEF g, s, b
  <2>. QED
    BY <2>4, <2>5, <2>6
<1>. HIDE DEF b
<1>3. CASE b.err = "Success"
  <2>1. b.path \in PathSet
    BY <1>1, <1>3
  <2>2. Below(b.path, <<>>) = b.path
    <3>1. <<>> \in Seq(FileNames) /\ b.path.names \o <<>> = b.path.names /\ b.path = [abs |-> b.path.abs, names |-> b.path.names]
      BY <2>1 DEF PathSet
    <3>. QED
      BY <2>1, <3>1, BelowPath
  <2>. HIDE DEF g, s
  <2>3. g.err = "Success" /\ g.path = b.path /\ s.err = "Success" /\ s.path = Below(b.path, Levels(i))
    BY <1>2, <1>3, <2>2 DEF Dir
  <2>. QED
    BY <1>1, <1>3, <2>1, <2>3 DEF g, s
<1>4. CASE b.err # "Success"
  <2>. HIDE DEF g, s
  <2>1. g = b /\ s = b
    BY <1>2, <1>4
  <2>. QED
    BY <1>1, <1>4, <2>1 DEF g, s
<1>. QED
  BY <1>3, <1>4

\* What the user authorizes with an invocation is put where the invocation
\* looks for it, and nothing else of the invocation counts.
LEMMA SamePlace ==
  ASSUME NEW i \in Invocations, GetDir(GlobalPaths(i.conf), "CONFIG", i.env).err = "Success",
         i.email \in FileNames
  PROVE  /\ Setting(i).email = i.email
         /\ Place(Setting(i)) = HomeOf(i)
<1>. DEFINE g == GetDir(GlobalPaths(i.conf), "CONFIG", i.env).path
            d == GetDir(SessionPaths(i), "CONFIG", i.env).path
<1>1. /\ g \in PathSet /\ d = Below(g, Levels(i))
      /\ IF ConfDir(i.conf) = Unset THEN g.abs ELSE g.abs = i.conf.abs
  BY DirFacts
<1>2. /\ CredentialHome(Setting(i)) = CredentialHome(i) /\ CredentialHome(i) = Below(d, <<"auth.info">>)
      /\ Place(Setting(i)) = At(Setting(i).cwd, CredentialHome(Setting(i)))
  <2>1. ConfDir(ConfDir(i.conf)) = ConfDir(i.conf)
    BY DEF ConfDir
  <2>2. Setting(i).conf = ConfDir(i.conf) /\ Setting(i).env = i.env /\ Setting(i).email = i.email
    BY DEF Setting
  <2>3. SessionPaths(Setting(i)) = SessionPaths(i)
    BY <2>1, <2>2, Zenon DEF SessionPaths, ProviderPaths, GlobalPaths
  <2>. QED
    BY <2>2, <2>3, Zenon DEF CredentialHome, Place
<1>3. HomeOf(i) = At(i.cwd, CredentialHome(i))
  BY DEF HomeOf, ProcessHome
<1>. HIDE DEF g, d
<1>4. CredentialHome(i) \in PathSet /\ CredentialHome(i).abs = g.abs
  <2>1. d \in PathSet /\ d.abs = g.abs
    BY <1>1, BelowPath, LevelsFacts
  <2>2. <<"auth.info">> \in Seq(FileNames)
    BY SomeNames, NamesAssumption
  <2>. QED
    BY <1>2, <2>1, <2>2, BelowPath
<1>5. Setting(i).email = i.email
  BY DEF Setting
<1>6. CASE g.abs
  <2>1. \A cwd : At(cwd, CredentialHome(i)) = CredentialHome(i)
    BY <1>4, <1>6 DEF At
  <2>. QED
    BY <1>2, <1>3, <1>5, <2>1
<1>7. CASE ~g.abs
  <2>1. Setting(i).cwd = i.cwd
    BY <1>1, <1>7 DEF Setting
  <2>. QED
    BY <1>2, <1>3, <1>5, <2>1
<1>. QED
  BY <1>6, <1>7

-----------------------------------------------------------------------------
(* The inductive invariant: steps of a process. *)

LEMMA IdleFacts ==
  /\ DOMAIN Idle = {"pc", "inv", "mode", "cwd", "client", "cred", "token", "store", "settings",
                    "nodes", "served", "exit", "why"}
  /\ Idle.pc = "idle" /\ Idle.inv = none /\ Idle.client = none /\ Idle.cred = none
  /\ Idle.store = none /\ Idle.exit = 0 /\ Idle.token = none
BY DEF Idle

LEMMA OneProcess ==
  ASSUME IInv, NEW p \in Procs, NEW r, Set(p, r), Lawful(r), UNCHANGED <<stored, secret, authorized>>
  PROVE  IInv'
<1>1. DOMAIN procs' = Procs /\ \A q \in Procs : procs'[q] = IF q = p THEN r ELSE procs[q]
  BY DEF Set, IInv
<1>2. \A q \in Procs : Lawful(procs'[q])
  BY <1>1 DEF IInv
<1>3. AuthorizedStored'
  BY DEF IInv, AuthorizedStored, StoredAt
<1>. QED
  BY <1>1, <1>2, <1>3 DEF IInv

\* A process ends as a failure, or as what it was asked for.
LEMMA EndLawful ==
  ASSUME NEW r, Lawful(r), r.pc \notin {"idle", "ended"}, NEW exit \in Nat, NEW why,
         r.inv.mode = "SERVICE" /\ exit = 0 => r.served
  PROVE  Lawful([Idle EXCEPT !.pc = "ended", !.mode = r.inv.mode,
                             !.served = r.served, !.exit = exit, !.why = why])
<1>. DEFINE e == [Idle EXCEPT !.pc = "ended", !.mode = r.inv.mode,
                              !.served = r.served, !.exit = exit, !.why = why]
<1>1. /\ DOMAIN e = DOMAIN Idle /\ e.pc = "ended" /\ e.inv = none /\ e.client = none
      /\ e.cred = none /\ e.store = none /\ e.exit = exit /\ e.mode = r.inv.mode
      /\ e.served = r.served /\ e.token = none
  BY IdleFacts
<1>. HIDE DEF e
<1>2. Lawful(e)
  BY <1>1 DEF Lawful
<1>. QED
  BY <1>2 DEF e

LEMMA EndStep ==
  ASSUME IInv, NEW p \in Procs, Running(p), NEW exit \in Nat, NEW why, End(p, exit, why),
         procs[p].inv.mode = "SERVICE" /\ exit = 0 => procs[p].served,
         UNCHANGED <<stored, secret, authorized>>
  PROVE  IInv'
BY EndLawful, OneProcess DEF End, Running, IInv

\* No failure has the exit status of success.
LEMMA ExitStatuses ==
  ASSUME NEW code \in DOMAIN AppCode \ {"Success"}
  PROVE  ExitStatus(code) \in Nat \ {0}
BY DEF ExitStatus, AppCode

\* A crash has the exit status of its signal.
LEMMA ThrowStep ==
  ASSUME IInv, NEW p \in Procs, Running(p), NEW code, Throw(p, code),
         code = "crash" \/ code \in DOMAIN AppCode \ {"Success"},
         UNCHANGED <<stored, secret, authorized>>
  PROVE  IInv'
<1>1. CASE code = "crash"
  BY <1>1, EndStep DEF Throw
<1>2. CASE code # "crash"
  BY <1>2, ExitStatuses, EndStep DEF Throw
<1>. QED
  BY <1>1, <1>2

LEMMA FailStep ==
  ASSUME IInv, NEW p \in Procs, Running(p), NEW code \in DOMAIN AppCode \ {"Success"},
         Fail(p, code) \/ Throw(p, code), UNCHANGED <<stored, secret, authorized>>
  PROVE  IInv'
<1>1. Throw(p, code) \/ (procs[p].inv.mode = "GETAUTH" /\ End(p, 0, code))
  BY DEF Fail
<1>. QED
  BY <1>1, ThrowStep, EndStep

\* A process goes on with what it has.
LEMMA GoStep ==
  ASSUME IInv, NEW p \in Procs, Running(p), NEW pc, Go(p, pc),
         Lawful([procs[p] EXCEPT !.pc = pc]), UNCHANGED <<stored, secret, authorized>>
  PROVE  IInv'
BY OneProcess DEF Go

LEMMA StartStep ==
  ASSUME IInv, NEW p \in Procs, NEW i \in Invocations, Start(p, i),
         UNCHANGED <<stored, secret, authorized>>
  PROVE  IInv'
<1>. DEFINE r == [Idle EXCEPT !.pc = "parsed", !.inv = i, !.cwd = i.cwd]
<1>1. /\ DOMAIN r = DOMAIN Idle /\ r.pc = "parsed" /\ r.inv = i /\ r.cwd = i.cwd /\ r.client = none
      /\ r.cred = none /\ r.store = none /\ r.exit = 0 /\ r.token = none
  BY IdleFacts
<1>2. Set(p, r)
  BY DEF Start
<1>. HIDE DEF r
<1>3. Lawful(r)
  BY <1>1 DEF Lawful
<1>. QED
  BY <1>2, <1>3, OneProcess

LEMMA CreateStep ==
  ASSUME IInv, NEW p \in Procs, Create(p), UNCHANGED <<stored, secret, authorized>>
  PROVE  IInv'
<1>. DEFINE i == procs[p].inv
            d == GetDir(GlobalPaths(i.conf), "CONFIG", i.env)
            old == procs[p]
            r == [old EXCEPT !.pc = "created"]
<1>1. /\ Lawful(old) /\ old.pc = "parsed" /\ Running(p) /\ DOMAIN old = DOMAIN Idle
      /\ i \in Invocations
  BY DEF Create, IInv, Running, Lawful
<1>2. \/ d.err # "Success" /\ Throw(p, d.err)
      \/ Throw(p, "WrongAppArguments")
      \/ End(p, 139, "crash")
      \/ d.err = "Success" /\ i.email \in GmailAccounts /\ Go(p, "created")
  BY DEF Create, DetectProvider
<1>3. d.err \in DirCodes
  BY <1>1, DirFacts
<1>4. CASE (d.err # "Success" /\ Throw(p, d.err)) \/ Throw(p, "WrongAppArguments")
  <2>1. d.err # "Success" => d.err = "crash" \/ d.err \in DOMAIN AppCode \ {"Success"}
    BY <1>3 DEF AppCode, DirCodes
  <2>2. "WrongAppArguments" \in DOMAIN AppCode \ {"Success"}
    BY DEF AppCode
  <2>. HIDE DEF d
  <2>. QED
    BY <1>1, <1>4, <2>1, <2>2, ThrowStep
<1>5. CASE End(p, 139, "crash")
  BY <1>1, <1>5, EndStep
<1>6. CASE d.err = "Success" /\ i.email \in GmailAccounts /\ Go(p, "created")
  <2>1. /\ DOMAIN r = DOMAIN Idle /\ r.pc = "created" /\ r.inv = old.inv /\ r.cwd = old.cwd
        /\ r.client = old.client /\ r.cred = old.cred /\ r.store = old.store /\ r.exit = old.exit
        /\ r.token = old.token
    BY <1>1, IdleFacts
  <2>. HIDE DEF r
  <2>2. Lawful(r)
    BY <1>1, <1>6, <2>1 DEF Lawful
  <2>. QED
    BY <1>1, <1>6, <2>2, GoStep DEF r
<1>. QED
  BY <1>2, <1>4, <1>5, <1>6

\* The codes that authorization and its network fail with.
LEMMA AuthCodes ==
  {"HttpTransportError", "BadFileOperation", "AuthenticationFailed"} \subseteq DOMAIN AppCode \ {"Success"}
BY DEF AppCode

\* A process that goes on from pc to pc has the same to hold to, except for the
\* mode of some points.
LEMMA GoLawful ==
  ASSUME NEW old, Lawful(old), old.pc # "serving", NEW pc,
         \/ old.pc = "created" /\ pc = "session"
         \/ old.pc = "flow" /\ pc \in {"exchange", "prompt"} /\ old.inv.mode = "GETAUTH"
         \/ old.pc = "prompt" /\ pc = "exchange"
  PROVE  Lawful([old EXCEPT !.pc = pc])
<1>. DEFINE r == [old EXCEPT !.pc = pc]
<1>1. DOMAIN old = DOMAIN Idle
  BY DEF Lawful
<1>2. /\ DOMAIN r = DOMAIN Idle /\ r.pc = pc /\ r.inv = old.inv /\ r.cwd = old.cwd
      /\ r.client = old.client /\ r.cred = old.cred /\ r.store = old.store /\ r.exit = old.exit
      /\ r.token = old.token
  BY <1>1, IdleFacts
<1>. HIDE DEF r
<1>3. Lawful(r)
  BY <1>2 DEF Lawful
<1>. QED
  BY <1>3 DEF r

LEMMA CreateSessionStep ==
  ASSUME IInv, NEW p \in Procs, CreateSession(p), UNCHANGED <<stored, secret, authorized>>
  PROVE  IInv'
<1>1. Lawful(procs[p]) /\ Running(p) /\ procs[p].pc = "created"
  BY DEF IInv, CreateSession, Running
<1>2. CASE Go(p, "session")
  BY <1>1, <1>2, GoLawful, GoStep
<1>3. CASE Throw(p, "HttpTransportError")
  BY <1>1, <1>3, AuthCodes, FailStep
<1>. QED
  BY <1>2, <1>3 DEF CreateSession

\* OpenFlow takes the client that the secret names, and the directory of the
\* credential.
LEMMA OpenFlowStep ==
  ASSUME IInv, NEW p \in Procs, OpenFlow(p), UNCHANGED <<stored, secret, authorized>>
  PROVE  IInv'
<1>. DEFINE old == procs[p]
            s == SecretAt(SecretPlace(old.inv))
            client == IF s = "none" THEN "built_in" ELSE s
            r == [old EXCEPT !.pc = "flow", !.cred = HomeOf(old.inv), !.client = client]
<1>1. Lawful(old) /\ Running(p) /\ old.pc \in {"session", "configured"} /\ DOMAIN old = DOMAIN Idle
  BY DEF IInv, OpenFlow, Running, Lawful
<1>2. CASE Fail(p, "HttpTransportError") \/ Fail(p, "BadFileOperation")
  BY <1>1, <1>2, AuthCodes, FailStep
<1>3. CASE s # "bad" /\ Set(p, r)
  <2>1. s \in Clients \cup {"none", "bad"}
    BY DEF IInv, SecretAt
  <2>2. client \in Clients
    BY <1>3, <2>1 DEF Clients
  <2>. HIDE DEF s, client
  <2>3. old.inv.mode \in {"GETAUTH", "SERVICE"}
    BY <1>1 DEF Lawful, OpenFlow
  <2>4. /\ DOMAIN r = DOMAIN Idle /\ r.pc = "flow" /\ r.inv = old.inv /\ r.cwd = old.cwd
        /\ r.client = client /\ r.cred = HomeOf(old.inv) /\ r.store = old.store /\ r.exit = old.exit
        /\ r.token = old.token
    BY <1>1, IdleFacts
  <2>. HIDE DEF r
  <2>5. Lawful(r)
    BY <1>1, <2>2, <2>4, <2>3 DEF Lawful
  <2>. QED
    BY <1>3, <2>5, OneProcess
<1>. QED
  BY <1>2, <1>3 DEF OpenFlow

LEMMA AskStep ==
  ASSUME IInv, NEW p \in Procs, Ask(p), UNCHANGED <<stored, secret, authorized>>
  PROVE  IInv'
<1>1. Lawful(procs[p]) /\ Running(p) /\ procs[p].pc = "flow"
  BY DEF IInv, Ask, Running
<1>2. \/ \E why : End(p, ExitStatus("AuthenticationFailed"), why)
      \/ procs[p].inv.mode # "SERVICE" /\ \E pc \in {"exchange", "prompt"} : Go(p, pc)
  BY DEF Ask
<1>3. CASE \E why : End(p, ExitStatus("AuthenticationFailed"), why)
  BY <1>1, <1>3, AuthCodes, ExitStatuses, EndStep
<1>4. CASE procs[p].inv.mode # "SERVICE" /\ \E pc \in {"exchange", "prompt"} : Go(p, pc)
  <2>1. procs[p].inv.mode = "GETAUTH"
    BY <1>1, <1>4 DEF Lawful
  <2>. QED
    BY <1>1, <1>4, <2>1, GoLawful, GoStep
<1>. QED
  BY <1>2, <1>3, <1>4

LEMMA PromptStep ==
  ASSUME IInv, NEW p \in Procs, Prompt(p), UNCHANGED <<stored, secret, authorized>>
  PROVE  IInv'
<1>1. Lawful(procs[p]) /\ Running(p) /\ procs[p].pc = "prompt"
  BY DEF IInv, Prompt, Running
<1>2. CASE Go(p, "exchange")
  BY <1>1, <1>2, GoLawful, GoStep
<1>3. CASE Fail(p, "AuthenticationFailed")
  BY <1>1, <1>3, AuthCodes, FailStep
<1>. QED
  BY <1>2, <1>3 DEF Prompt

LEMMA BuildControlStep ==
  ASSUME IInv, NEW p \in Procs, BuildControl(p), UNCHANGED <<stored, secret, authorized>>
  PROVE  IInv'
<1>. DEFINE old == procs[p]
<1>1. Lawful(old) /\ old.pc = "session" /\ old.inv.mode = "SERVICE" /\ DOMAIN old = DOMAIN Idle
  BY DEF IInv, BuildControl, Lawful
<1>2. PICK settings, nodes :
        Set(p, [old EXCEPT !.pc = "configured", !.settings = settings, !.nodes = nodes])
  BY DEF BuildControl
<1>. DEFINE r == [old EXCEPT !.pc = "configured", !.settings = settings, !.nodes = nodes]
<1>3. /\ DOMAIN r = DOMAIN Idle /\ r.pc = "configured" /\ r.inv = old.inv /\ r.cwd = old.cwd
      /\ r.client = old.client /\ r.cred = old.cred /\ r.store = old.store /\ r.exit = old.exit
      /\ r.token = old.token
  BY <1>1, IdleFacts
<1>. HIDE DEF r
<1>4. Lawful(r)
  BY <1>1, <1>3 DEF Lawful
<1>. QED
  BY <1>2, <1>4, OneProcess DEF r

LEMMA NoStoreStep ==
  ASSUME IInv, NEW p \in Procs, NoStore(p), UNCHANGED <<stored, secret, authorized>>
  PROVE  IInv'
<1>. DEFINE i == procs[p].inv
<1>1. Running(p) /\ i \in Invocations
  BY DEF IInv, Lawful, NoStore, Running
<1>2. GetDir(SessionPaths(i), "DATA", i.env).err \in DirCodes
  BY <1>1, DirFacts
<1>3. StoreDir(p).err = "crash" \/ StoreDir(p).err \in DOMAIN AppCode \ {"Success"}
  BY <1>2 DEF NoStore, StoreDir, AppCode, DirCodes
<1>. QED
  BY <1>1, <1>3, ThrowStep DEF NoStore

LEMMA MountStep ==
  ASSUME IInv, NEW p \in Procs, Mount(p), UNCHANGED <<stored, secret, authorized>>
  PROVE  IInv'
<1>. DEFINE old == procs[p]
            data == StoreDir(p)
            cwd == IF old.inv.fg THEN old.cwd ELSE Root
            r == [old EXCEPT !.pc = "serving", !.store = data.path, !.served = TRUE, !.cwd = cwd]
<1>1. /\ Lawful(old) /\ Running(p) /\ old.pc = "authorized" /\ DOMAIN old = DOMAIN Idle
      /\ data.err = "Success"
  BY DEF IInv, Mount, FileSystemAt, Running, Lawful
<1>2. CASE End(p, 1, "fuse")
  BY <1>1, <1>2, EndStep
<1>3. CASE Set(p, r)
  <2>1. data = GetDir(SessionPaths(old.inv), "DATA", old.inv.env)
    BY DEF StoreDir
  <2>. HIDE DEF data, cwd
  <2>2. /\ DOMAIN r = DOMAIN Idle /\ r.pc = "serving" /\ r.inv = old.inv /\ r.cwd = cwd /\ r.served
        /\ r.client = old.client /\ r.cred = old.cred /\ r.store = data.path /\ r.exit = old.exit
        /\ r.token = old.token
    BY <1>1, IdleFacts
  <2>. HIDE DEF r
  <2>3. Lawful(r)
    BY <1>1, <2>1, <2>2 DEF Lawful, cwd
  <2>. QED
    BY <1>3, <2>3, OneProcess
<1>. QED
  BY <1>2, <1>3 DEF Mount

\* Help, a failed exchange, the end of a service and a signal.
LEMMA EndingSteps ==
  ASSUME IInv, NEW p \in Procs, Help(p) \/ ExchangeFails(p) \/ Unmount(p) \/ Kill(p),
         UNCHANGED <<stored, secret, authorized>>
  PROVE  IInv'
<1>1. Lawful(procs[p]) /\ Running(p)
  BY DEF IInv, Help, ExchangeFails, Unmount, Kill, Running
<1>2. CASE Help(p)
  BY <1>1, <1>2, EndStep DEF Help
<1>3. CASE ExchangeFails(p)
  BY <1>1, <1>3, AuthCodes, FailStep DEF ExchangeFails
<1>4. CASE Unmount(p)
  BY <1>1, <1>4, EndStep DEF Unmount, Lawful
<1>5. CASE Kill(p)
  BY <1>1, <1>5, EndStep DEF Kill
<1>. QED
  BY <1>2, <1>3, <1>4, <1>5

-----------------------------------------------------------------------------
(* The inductive invariant: credentials. *)

\* What is written to a file is there, and the other files stay as they are.
LEMMA Written ==
  ASSUME IInv, NEW cred, NEW e \in GmailAccounts, NEW new \in Credentials \cup {Torn},
         Write(cred, e, new)
  PROVE  /\ \A d \in DOMAIN stored' : \A f \in DOMAIN stored'[d] :
              f \in GmailAccounts /\ stored'[d][f] \in Credentials \cup {Torn}
         /\ \A d, f : StoredAt(d, f)' = IF d = cred /\ f = e THEN new ELSE StoredAt(d, f)
<1>. DEFINE held == IF cred \in DOMAIN stored THEN stored[cred] ELSE <<>>
            put == [f \in DOMAIN held \cup {e} |-> IF f = e THEN new ELSE held[f]]
<1>1. stored' = [d \in DOMAIN stored \cup {cred} |-> IF d = cred THEN put ELSE stored[d]]
  BY DEF Write
<1>2. \A f \in DOMAIN held : f \in GmailAccounts /\ held[f] \in Credentials \cup {Torn}
  BY DEF IInv
<1>3. \A f : f \in DOMAIN held <=> cred \in DOMAIN stored /\ f \in DOMAIN stored[cred]
  OBVIOUS
<1>. HIDE DEF held
<1>4. /\ DOMAIN put = DOMAIN held \cup {e} /\ put[e] = new
      /\ \A f \in DOMAIN held : f # e => put[f] = held[f]
  OBVIOUS
<1>. HIDE DEF put
<1>6. \A f \in DOMAIN put : f \in GmailAccounts /\ put[f] \in Credentials \cup {Torn}
  BY <1>2, <1>4
<1>7. /\ DOMAIN stored' = DOMAIN stored \cup {cred} /\ stored'[cred] = put
      /\ \A d \in DOMAIN stored : d # cred => stored'[d] = stored[d]
  BY <1>1
<1>8. \A d \in DOMAIN stored' : \A f \in DOMAIN stored'[d] :
        f \in GmailAccounts /\ stored'[d][f] \in Credentials \cup {Torn}
  BY <1>6, <1>7 DEF IInv
<1>9. ASSUME NEW d, NEW f, d = cred /\ f = e
      PROVE  StoredAt(d, f)' = new
  BY <1>4, <1>7, <1>9 DEF StoredAt
<1>10. ASSUME NEW d, NEW f, ~(d = cred /\ f = e)
       PROVE  StoredAt(d, f)' = StoredAt(d, f)
  <2>1. CASE d # cred
    BY <1>7, <2>1 DEF StoredAt
  <2>2. CASE d = cred /\ f # e
    BY <1>3, <1>4, <1>7, <2>2 DEF StoredAt, held
  <2>. QED
    BY <1>10, <2>1, <2>2
<1>. QED
  BY <1>8, <1>9, <1>10

\* A process that has its credential begins to write it: a half written file is
\* what the invariant allows in every place.
LEMMA ObtainStep ==
  ASSUME IInv, NEW p \in Procs, Obtain(p), UNCHANGED secret,
         procs[p].pc \in {"flow", "exchange"}
  PROVE  IInv'
<1>. DEFINE old == procs[p]
            token == [client |-> old.client, live |-> TRUE]
            r == [old EXCEPT !.pc = "saving", !.token = token]
<1>1. /\ Lawful(old) /\ old.client \in Clients /\ old.inv.email \in GmailAccounts
      /\ DOMAIN procs = Procs /\ DOMAIN old = DOMAIN Idle /\ old.inv.mode \in {"GETAUTH", "SERVICE"}
  BY DEF IInv, Lawful
<1>2. /\ \A d \in DOMAIN stored' : \A f \in DOMAIN stored'[d] :
           f \in GmailAccounts /\ stored'[d][f] \in Credentials \cup {Torn}
      /\ \A d, f : StoredAt(d, f)' = IF d = old.cred /\ f = old.inv.email THEN Torn ELSE StoredAt(d, f)
  <2>1. Write(old.cred, old.inv.email, Torn) /\ Torn \in Credentials \cup {Torn}
    BY DEF Obtain
  <2>. HIDE DEF old
  <2>. QED
    BY <1>1, <2>1, Written
<1>3. Lawful(r)
  <2>1. token \in Credentials /\ token.client = old.client
    BY <1>1 DEF Credentials
  <2>. HIDE DEF token
  <2>2. /\ DOMAIN r = DOMAIN Idle /\ r.pc = "saving" /\ r.inv = old.inv /\ r.cwd = old.cwd
        /\ r.client = old.client /\ r.cred = old.cred /\ r.store = old.store /\ r.exit = old.exit
        /\ r.token = token
    BY <1>1, IdleFacts
  <2>. HIDE DEF r
  <2>. QED
    BY <1>1, <2>1, <2>2 DEF Lawful
<1>4. DOMAIN procs' = Procs /\ \A q \in Procs : Lawful(procs'[q])
  BY <1>1, <1>3 DEF Set, IInv, Obtain
<1>5. AuthorizedStored'
  BY <1>2 DEF IInv, AuthorizedStored, Obtain
<1>. QED
  BY <1>2, <1>4, <1>5 DEF IInv

\* What is written over a credential with another client, or after a withdrawal,
\* takes that authorization back; and a new one is where its options lead to.
LEMMA SaveStep ==
  ASSUME IInv, NEW p \in Procs, Save(p), UNCHANGED secret
  PROVE  IInv'
<1>. DEFINE old == procs[p]
            i == old.inv
            e == i.email
            new == [client |-> old.client, live |-> TRUE]
            given == [setting |-> Setting(i), client |-> old.client]
            r == [old EXCEPT !.pc = "authorized", !.token = none]
<1>1. /\ Lawful(old) /\ Running(p) /\ i \in Invocations /\ e \in GmailAccounts /\ old.pc = "saving"
      /\ old.cred = HomeOf(i) /\ GetDir(GlobalPaths(i.conf), "CONFIG", i.env).err = "Success"
      /\ old.token \in Credentials /\ old.token.client = old.client
      /\ i.mode \in {"GETAUTH", "SERVICE"} /\ DOMAIN procs = Procs /\ DOMAIN old = DOMAIN Idle
  BY DEF IInv, Lawful, Running, Save
<1>2. /\ \A d \in DOMAIN stored' : \A f \in DOMAIN stored'[d] :
           f \in GmailAccounts /\ stored'[d][f] \in Credentials \cup {Torn}
      /\ \A d, f : StoredAt(d, f)' = IF d = old.cred /\ f = e THEN old.token ELSE StoredAt(d, f)
  <2>1. Write(old.cred, e, old.token) /\ old.token \in Credentials \cup {Torn}
    BY <1>1 DEF Save
  <2>. HIDE DEF old
  <2>. QED
    BY <1>1, <2>1, Written
<1>3. \E q : Set(p, q) /\ Lawful(q)
  <2>1. CASE i.mode = "GETAUTH"
    <3>1. PICK exit \in Nat : End(p, exit, "authorized")
      BY <2>1 DEF Save
    <3>2. i.mode # "SERVICE" /\ old.pc \notin {"idle", "ended"}
      BY <1>1, <2>1
    <3>. QED
      BY <1>1, <3>1, <3>2, EndLawful DEF End
  <2>2. CASE i.mode = "SERVICE"
    <3>1. Set(p, r)
      BY <2>2 DEF Save
    <3>2. /\ DOMAIN r = DOMAIN Idle /\ r.pc = "authorized" /\ r.inv = old.inv /\ r.cwd = old.cwd
          /\ r.client = old.client /\ r.cred = old.cred /\ r.store = old.store /\ r.exit = old.exit
          /\ r.token = none
      BY <1>1, IdleFacts
    <3>. HIDE DEF r
    <3>3. Lawful(r)
      BY <1>1, <2>2, <3>2 DEF Lawful
    <3>. QED
      BY <3>1, <3>3
  <2>. QED
    BY <1>1, <2>1, <2>2
<1>4. DOMAIN procs' = Procs /\ \A q \in Procs : Lawful(procs'[q])
  BY <1>1, <1>3 DEF Set, IInv
<1>5. ASSUME NEW a \in authorized'
      PROVE  \/ a = given /\ old.token.live
             \/ /\ a \in authorized
                /\ a.setting.email = e /\ Place(a.setting) = old.cred =>
                     a.client = old.client /\ old.token.live
  BY <1>5 DEF Save
<1>6. old.token.live => old.token = new
  BY <1>1 DEF Credentials
<1>7. ASSUME NEW a \in authorized', a = given, old.token.live
      PROVE  StoredAt(Place(a.setting), a.setting.email)' = [client |-> a.client, live |-> TRUE]
  <2>1. Setting(i).email = e /\ Place(Setting(i)) = old.cred
    BY <1>1, SamePlace, AccountsAssumption
  <2>2. a.setting = Setting(i) /\ a.client = old.client
    BY <1>7
  <2>. QED
    BY <1>2, <1>6, <1>7, <2>1, <2>2
<1>8. ASSUME NEW a \in authorized' \cap authorized,
             a.setting.email = e /\ Place(a.setting) = old.cred =>
               a.client = old.client /\ old.token.live
      PROVE  StoredAt(Place(a.setting), a.setting.email)' \in {[client |-> a.client, live |-> TRUE], Torn}
  <2>1. StoredAt(Place(a.setting), a.setting.email) \in {[client |-> a.client, live |-> TRUE], Torn}
    BY DEF IInv, AuthorizedStored
  <2>. QED
    BY <1>2, <1>6, <1>8, <2>1
<1>9. AuthorizedStored'
  BY <1>5, <1>7, <1>8 DEF AuthorizedStored, Place, CredentialHome
<1>. QED
  BY <1>2, <1>4, <1>9 DEF IInv

\* What is withdrawn is no longer authorized, nor what is on its way to the
\* store; the credentials of other accounts stay as they are.
LEMMA RevokeStep ==
  ASSUME IInv, NEW e \in GmailAccounts, Revoke(e)
  PROVE  IInv'
<1>1. /\ DOMAIN stored' = DOMAIN stored
      /\ \A d \in DOMAIN stored :
           /\ DOMAIN stored'[d] = DOMAIN stored[d]
           /\ \A f \in DOMAIN stored[d] :
                stored'[d][f] = IF f = e THEN Withdrawn(stored[d][f]) ELSE stored[d][f]
  BY DEF Revoke
<1>2. ASSUME NEW c \in Credentials \cup {Torn}
      PROVE  /\ Withdrawn(c) \in Credentials \cup {Torn} /\ Withdrawn(c).client = c.client
             /\ c \in Credentials => Withdrawn(c) \in Credentials
  <2>1. Withdrawn(c).client = c.client
    BY DEF Withdrawn
  <2>2. c \in Credentials => Withdrawn(c) \in Credentials
    BY DEF Credentials, Withdrawn
  <2>3. c = Torn => Withdrawn(c) = Torn
    BY DEF Torn, Withdrawn
  <2>. QED
    BY <2>1, <2>2, <2>3
<1>3. \A d \in DOMAIN stored' : \A f \in DOMAIN stored'[d] :
        f \in GmailAccounts /\ stored'[d][f] \in Credentials \cup {Torn}
  <2>1. ASSUME NEW d \in DOMAIN stored, NEW f \in DOMAIN stored[d]
        PROVE  f \in GmailAccounts /\ stored'[d][f] \in Credentials \cup {Torn}
    <3>1. f \in GmailAccounts /\ stored[d][f] \in Credentials \cup {Torn}
      BY DEF IInv
    <3>2. PICK c \in Credentials \cup {Torn} : c = stored[d][f]
      BY <3>1
    <3>3. stored'[d][f] = IF f = e THEN Withdrawn(c) ELSE c
      BY <1>1, <3>2
    <3>4. Withdrawn(c) \in Credentials \cup {Torn}
      BY <1>2
    <3>. QED
      BY <3>1, <3>3, <3>4
  <2>. QED
    BY <1>1, <2>1
<1>4. ASSUME NEW d, NEW f, f # e
      PROVE  StoredAt(d, f)' = StoredAt(d, f)
  BY <1>1, <1>4 DEF StoredAt
<1>5. AuthorizedStored'
  BY <1>4 DEF IInv, AuthorizedStored, Revoke, Place, CredentialHome
<1>6. DOMAIN procs' = Procs
  BY DEF Revoke
<1>7. ASSUME NEW p \in Procs
      PROVE  Lawful(procs'[p])
  <2>. DEFINE old == procs[p]
              token == Withdrawn(old.token)
              r == [old EXCEPT !.token = token]
  <2>1. Lawful(old) /\ DOMAIN old = DOMAIN Idle
    BY DEF IInv, Lawful
  <2>2. CASE old.pc = "saving" /\ old.inv.email = e
    <3>1. procs'[p] = r
      BY <2>2 DEF Revoke
    <3>2. old.token \in Credentials /\ old.token.client = old.client
      BY <2>1, <2>2 DEF Lawful
    <3>3. token \in Credentials /\ token.client = old.client
      BY <1>2, <3>2
    <3>. HIDE DEF token
    <3>4. /\ DOMAIN r = DOMAIN Idle /\ r.pc = "saving" /\ r.inv = old.inv /\ r.cwd = old.cwd
          /\ r.client = old.client /\ r.cred = old.cred /\ r.store = old.store /\ r.exit = old.exit
          /\ r.token = token
      BY <2>1, <2>2, IdleFacts
    <3>. HIDE DEF r
    <3>5. Lawful(r)
      BY <2>1, <2>2, <3>3, <3>4 DEF Lawful
    <3>. QED
      BY <3>1, <3>5
  <2>3. CASE ~(old.pc = "saving" /\ old.inv.email = e)
    BY <2>1, <2>3 DEF Revoke
  <2>. QED
    BY <2>2, <2>3
<1>. QED
  BY <1>3, <1>5, <1>6, <1>7 DEF IInv, Revoke

LEMMA PutSecretStep ==
  ASSUME IInv, NEW d \in SecretPlaces, NEW s \in {"none", "own", "bad"}, PutSecret(d, s)
  PROVE  IInv'
<1>1. AuthorizedStored'
  BY DEF IInv, AuthorizedStored, StoredAt, PutSecret
<1>2. secret' \in [SecretPlaces -> Clients \cup {"none", "bad"}]
  BY DEF IInv, PutSecret, Clients
<1>. QED
  BY <1>1, <1>2 DEF IInv, PutSecret

LEMMA InitInv == Init => IInv
BY IdleFacts DEF Init, IInv, Lawful, AuthorizedStored

LEMMA StepInv ==
  ASSUME IInv, [Next]_vars
  PROVE  IInv'
<1>1. ASSUME NEW p \in Procs, Local(p), UNCHANGED <<stored, secret, authorized>>
      PROVE  IInv'
  BY <1>1, StartStep, CreateStep, CreateSessionStep, OpenFlowStep, AskStep, PromptStep,
     BuildControlStep, NoStoreStep, MountStep, EndingSteps DEF Local
<1>2. ASSUME NEW p \in Procs, Authorize(p), UNCHANGED secret
      PROVE  IInv'
  BY <1>2, ObtainStep, SaveStep DEF Authorize, Refresh, Exchange
<1>3. ASSUME NEW e \in GmailAccounts, Revoke(e)
      PROVE  IInv'
  BY <1>3, RevokeStep
<1>4. ASSUME NEW d \in SecretPlaces, NEW s \in {"none", "own", "bad"}, PutSecret(d, s)
      PROVE  IInv'
  BY <1>4, PutSecretStep
<1>5. CASE UNCHANGED vars
  <2>1. AuthorizedStored'
    BY <1>5 DEF IInv, AuthorizedStored, StoredAt, vars
  <2>. QED
    BY <1>5, <2>1 DEF IInv, vars
<1>. QED
  BY <1>1, <1>2, <1>3, <1>4, <1>5 DEF Next

LEMMA Invariance == Spec => []IInv
<1>1. Init => IInv
  BY InitInv
<1>2. IInv /\ [Next]_vars => IInv'
  BY StepInv
<1>. QED
  BY <1>1, <1>2, PTL DEF Spec

-----------------------------------------------------------------------------
(* The theorems. *)

LEMMA ServingFacts ==
  ASSUME IInv, NEW p \in Procs, procs[p].pc = "serving"
  PROVE  LET i == procs[p].inv
             g == GetDir(GlobalPaths(i.conf), "DATA", i.env)
         IN /\ i \in Invocations /\ i.email \in FileNames
            /\ procs[p].cwd = IF i.fg THEN i.cwd ELSE Root
            /\ g.err = "Success" /\ g.path \in PathSet
            /\ procs[p].store = Below(g.path, Levels(i)) /\ procs[p].store \in PathSet
            /\ ConfDir(i.conf) # Unset => g.path = Below(i.conf, <<"data">>)
<1>. DEFINE i == procs[p].inv
            g == GetDir(GlobalPaths(i.conf), "DATA", i.env)
            s == GetDir(SessionPaths(i), "DATA", i.env)
<1>1. /\ i \in Invocations /\ i.email \in FileNames /\ procs[p].cwd = IF i.fg THEN i.cwd ELSE Root
      /\ s.err = "Success" /\ procs[p].store = s.path
  BY AccountsAssumption DEF IInv, Lawful
<1>2. /\ g.err = "Success" /\ g.path \in PathSet /\ s.path = Below(g.path, Levels(i))
      /\ ConfDir(i.conf) # Unset => g.path = Below(i.conf, <<"data">>)
  BY <1>1, DirFacts
<1>3. Below(g.path, Levels(i)) \in PathSet
  BY <1>1, <1>2, BelowPath, LevelsFacts
<1>. QED
  BY <1>1, <1>2, <1>3

LEMMA PrefixElements ==
  ASSUME NEW S, NEW a \in Seq(S), NEW b \in Seq(S)
  PROVE  IsPrefix(a, b) <=> Len(a) <= Len(b) /\ \A k \in 1..Len(a) : a[k] = b[k]
<1>1. ASSUME IsPrefix(a, b), NEW k \in 1..Len(a)
      PROVE  Len(a) <= Len(b) /\ a[k] = b[k]
  <2>1. Len(a) <= Len(b) /\ SubSeq(a, 1, Len(a))[k] = a[k]
    BY <1>1 DEF IsPrefix
  <2>2. SubSeq(b, 1, Len(a))[k] = b[k]
    BY <2>1
  <2>. QED
    BY <1>1, <2>1, <2>2 DEF IsPrefix
<1>2. ASSUME Len(a) <= Len(b), \A k \in 1..Len(a) : a[k] = b[k]
      PROVE  IsPrefix(a, b)
  BY <1>2 DEF IsPrefix
<1>3. IsPrefix(a, b) => Len(a) <= Len(b)
  BY DEF IsPrefix
<1>. QED
  BY <1>1, <1>2, <1>3

LEMMA PrefixOfCat ==
  ASSUME NEW S, NEW a \in Seq(S), NEW b \in Seq(S)
  PROVE  IsPrefix(a, a \o b)
BY DEF IsPrefix

LEMMA CatAssociative ==
  ASSUME NEW a \in Seq(FileNames), NEW b \in Seq(FileNames), NEW c \in Seq(FileNames)
  PROVE  (a \o b) \o c = a \o (b \o c)
OBVIOUS

\* A path below a path means what is below the place of that path.
LEMMA AtBelow ==
  ASSUME NEW cwd \in PathSet, cwd.abs, NEW p \in PathSet, NEW names \in Seq(FileNames)
  PROVE  At(cwd, Below(p, names)) = Below(At(cwd, p), names)
<1>1. /\ Below(p, names) \in PathSet /\ Below(p, names).abs = p.abs
      /\ Below(p, names).names = p.names \o names
  BY BelowPath
<1>2. CASE p.abs
  BY <1>1, <1>2 DEF At
<1>3. CASE ~p.abs
  <2>1. /\ cwd.names \in Seq(FileNames) /\ p.names \in Seq(FileNames)
        /\ p.names \o names \in Seq(FileNames)
    BY DEF PathSet
  <2>2. PICK c \in PathSet : c = Below(cwd, p.names)
    BY <2>1, BelowIn
  <2>3. Below(Below(cwd, p.names), names) = [abs |-> cwd.abs, names |-> (cwd.names \o p.names) \o names]
    <3>1. c = [abs |-> cwd.abs, names |-> cwd.names \o p.names]
      BY <2>1, <2>2, BelowIs
    <3>2. Below(c, names) = [abs |-> c.abs, names |-> c.names \o names]
      BY BelowIs
    <3>. QED
      BY <2>2, <3>1, <3>2
  <2>4. Below(cwd, p.names \o names) = [abs |-> cwd.abs, names |-> cwd.names \o (p.names \o names)]
    BY <2>1, BelowIs
  <2>5. (cwd.names \o p.names) \o names = cwd.names \o (p.names \o names)
    <3>1. PICK a \in Seq(FileNames), b \in Seq(FileNames) : a = cwd.names /\ b = p.names
      BY <2>1
    <3>2. (a \o b) \o names = a \o (b \o names)
      BY CatAssociative, Zenon
    <3>. QED
      BY <3>1, <3>2, Zenon
  <2>. QED
    BY <1>1, <1>3, <2>3, <2>4, <2>5 DEF At
<1>. QED
  BY <1>2, <1>3

LEMMA RootPath == Root \in PathSet /\ Root.abs
BY DEF Root, Abs, PathSet

\* A process has the client, the store and the exit status that its point of the
\* program calls for, and the credentials and the secret are of their kinds.
THEOREM StartupTypes == Spec => []TypeOK
<1>1. ASSUME IInv
      PROVE  TypeOK
  <2>1. ASSUME NEW p \in Procs, procs[p].pc = "serving"
        PROVE  procs[p].client # none /\ procs[p].store # none
    BY <1>1, <2>1, ServingFacts, NoneAssumption DEF IInv, Lawful
  <2>2. ASSUME NEW p \in Procs
        PROVE  /\ procs[p].client \in Clients \cup {none} /\ procs[p].exit \in Nat
               /\ procs[p].pc \in {"idle", "parsed", "created", "session", "configured", "flow",
                                   "prompt", "exchange", "saving", "authorized", "serving", "ended"}
               /\ procs[p].pc \in {"idle", "ended"} => procs[p].client = none /\ procs[p].store = none
    BY <1>1 DEF IInv, Lawful
  <2>. QED
    BY <1>1, <2>1, <2>2 DEF IInv, TypeOK
<1>. QED
  BY <1>1, Invariance, PTL

\* A service that ends with status 0 was mounted, whatever failed on its way:
\* no code that is thrown has the value 0 (the catch clause of main).
THEOREM ZeroIsServed == Spec => []ZeroMeansServed
<1>1. IInv => ZeroMeansServed
  BY DEF IInv, Lawful, ZeroMeansServed
<1>. QED
  BY <1>1, Invariance, PTL

\* With --conf-dir a served drive keeps its store below that directory.
THEOREM StoreIsBelowConf == Spec => []StoreBelowConf
<1>1. ASSUME IInv, NEW p \in Procs, procs[p].pc = "serving", ConfDir(procs[p].inv.conf) # Unset,
             procs[p].inv.conf.abs \/ procs[p].inv.fg
      PROVE  Inside(At(procs[p].cwd, procs[p].store), At(procs[p].inv.cwd, procs[p].inv.conf))
  <2>. DEFINE i == procs[p].inv
              names == <<"data">> \o Levels(i)
  <2>1. /\ i \in Invocations /\ i.conf \in PathSet /\ i.cwd \in PathSet /\ i.cwd.abs
        /\ procs[p].cwd = IF i.fg THEN i.cwd ELSE Root
        /\ procs[p].store = Below(Below(i.conf, <<"data">>), Levels(i))
        /\ Levels(i) \in Seq(FileNames) /\ <<"data">> \in Seq(FileNames)
    <3>1. i \in Invocations /\ i.email \in FileNames
      BY <1>1, ServingFacts
    <3>2. i.conf \in PathSet
      BY <1>1, <3>1, GivenConf
    <3>3. /\ procs[p].cwd = IF i.fg THEN i.cwd ELSE Root
          /\ procs[p].store = Below(Below(i.conf, <<"data">>), Levels(i))
      <4>1. GetDir(GlobalPaths(i.conf), "DATA", i.env).path = Below(i.conf, <<"data">>)
        BY <1>1, ServingFacts
      <4>. QED
        BY <1>1, <4>1, ServingFacts
    <3>4. i.cwd \in PathSet /\ i.cwd.abs
      BY <3>1, InvocationsAssumption
    <3>5. Levels(i) \in Seq(FileNames)
      BY <3>1, LevelsFacts
    <3>6. <<"data">> \in Seq(FileNames)
      BY SomeNames, NamesAssumption
    <3>. QED
      BY <3>1, <3>2, <3>3, <3>4, <3>5, <3>6
  <2>2. procs[p].store = Below(i.conf, names) /\ names \in Seq(FileNames)
    <3>. DEFINE d == Below(i.conf, <<"data">>)
    <3>1. d \in PathSet /\ d.abs = i.conf.abs /\ d.names = i.conf.names \o <<"data">>
      BY <2>1, BelowPath
    <3>2. procs[p].store = Below(d, Levels(i))
      BY <2>1
    <3>. HIDE DEF d
    <3>3. procs[p].store = [abs |-> d.abs, names |-> d.names \o Levels(i)]
      BY <2>1, <3>1, <3>2, BelowPath
    <3>4. names \in Seq(FileNames) /\ i.conf.names \in Seq(FileNames)
      BY <2>1 DEF PathSet
    <3>5. (i.conf.names \o <<"data">>) \o Levels(i) = i.conf.names \o names
      BY <2>1, <3>4, CatAssociative, Zenon
    <3>. HIDE DEF names
    <3>6. Below(i.conf, names) = [abs |-> i.conf.abs, names |-> i.conf.names \o names]
      BY <2>1, <3>4, BelowPath, Zenon
    <3>. QED
      BY <3>1, <3>3, <3>4, <3>5, <3>6, Zenon
  <2>. HIDE DEF names
  <2>3. At(procs[p].cwd, procs[p].store) = Below(At(procs[p].cwd, i.conf), names)
    BY <2>1, <2>2, AtBelow, RootPath
  <2>4. At(procs[p].cwd, i.conf) = At(i.cwd, i.conf)
    BY <1>1, <2>1 DEF At
  <2>5. At(i.cwd, i.conf) \in PathSet
    BY <2>1, AtPath
  <2>6. At(i.cwd, i.conf).names \in Seq(FileNames)
    BY <2>5 DEF PathSet
  <2>7. Below(At(i.cwd, i.conf), names).abs = At(i.cwd, i.conf).abs
        /\ Below(At(i.cwd, i.conf), names).names = At(i.cwd, i.conf).names \o names
    BY <2>2, <2>5, BelowPath
  <2>. QED
    BY <2>2, <2>3, <2>4, <2>6, <2>7, PrefixOfCat DEF Inside
<1>2. IInv => StoreBelowConf
  BY <1>1 DEF StoreBelowConf, IInv
<1>. QED
  BY <1>2, Invariance, PTL

-----------------------------------------------------------------------------
(* Accounts apart. *)

\* Every directory of a process is a root with the levels of the account below.
LEMMA DirsBelowRoots ==
  ASSUME IInv, NEW p \in Procs, procs[p].inv # none, NEW a \in Dirs(p)
  PROVE  /\ procs[p].inv \in Invocations
         /\ \E root \in Roots(procs[p].inv), names \in Seq(FileNames) :
              /\ root \in PathSet /\ a = Below(root, names)
              /\ Len(names) >= 2 /\ names[2] = procs[p].inv.email
<1>. DEFINE i == procs[p].inv
<1>1. CASE procs[p].pc = "serving" /\ a = At(procs[p].cwd, procs[p].store)
  <2>. DEFINE g == GetDir(GlobalPaths(i.conf), "DATA", i.env)
  <2>1. /\ i \in Invocations /\ i.email \in FileNames
        /\ procs[p].cwd = IF i.fg THEN i.cwd ELSE Root
        /\ g.err = "Success" /\ g.path \in PathSet
        /\ procs[p].store = Below(g.path, Levels(i))
    BY <1>1, ServingFacts
  <2>2. procs[p].cwd \in PathSet /\ procs[p].cwd.abs /\ procs[p].cwd \in {i.cwd, Root}
    BY <2>1, InvocationsAssumption, RootPath
  <2>3. At(procs[p].cwd, g.path) \in Roots(i)
    BY <2>1, <2>2 DEF Roots
  <2>. HIDE DEF g
  <2>4. Levels(i) \in Seq(FileNames) /\ Len(Levels(i)) = 2 /\ Levels(i)[2] = i.email
    BY <2>1, LevelsFacts
  <2>5. a = Below(At(procs[p].cwd, g.path), Levels(i)) /\ At(procs[p].cwd, g.path) \in PathSet
    BY <1>1, <2>1, <2>2, <2>4, AtBelow, AtPath
  <2>. QED
    BY <2>1, <2>3, <2>4, <2>5
<1>2. CASE procs[p].cred # none /\ a = procs[p].cred
  <2>. DEFINE g == GetDir(GlobalPaths(i.conf), "CONFIG", i.env)
              s == GetDir(SessionPaths(i), "CONFIG", i.env)
              names == Levels(i) \o <<"auth.info">>
  <2>1. /\ i \in Invocations /\ i.email \in FileNames /\ i.cwd \in PathSet /\ i.cwd.abs
        /\ g.err = "Success" /\ a = HomeOf(i)
    BY <1>2, AccountsAssumption, InvocationsAssumption DEF IInv, Lawful
  <2>2. g.path \in PathSet /\ s.path = Below(g.path, Levels(i))
    BY <2>1, DirFacts
  <2>3. a = At(i.cwd, Below(s.path, <<"auth.info">>))
    BY <2>1 DEF HomeOf, ProcessHome, CredentialHome
  <2>4. At(i.cwd, g.path) \in Roots(i)
    BY <2>1 DEF Roots
  <2>. HIDE DEF g, s
  <2>5. /\ Levels(i) \in Seq(FileNames) /\ <<"auth.info">> \in Seq(FileNames)
        /\ Len(Levels(i)) = 2 /\ Levels(i)[2] = i.email
    BY <2>1, LevelsFacts, SomeNames, NamesAssumption
  <2>6. names \in Seq(FileNames) /\ Len(names) >= 2 /\ names[2] = i.email
    BY <2>5
  <2>7. Below(s.path, <<"auth.info">>) = Below(g.path, names)
    <3>1. s.path \in PathSet /\ s.path.abs = g.path.abs /\ s.path.names = g.path.names \o Levels(i)
      BY <2>2, <2>5, BelowPath
    <3>2. Below(s.path, <<"auth.info">>)
            = [abs |-> g.path.abs, names |-> (g.path.names \o Levels(i)) \o <<"auth.info">>]
      <4>1. Below(s.path, <<"auth.info">>) = [abs |-> s.path.abs, names |-> s.path.names \o <<"auth.info">>]
        BY <2>5, <3>1, BelowIs
      <4>. QED
        BY <3>1, <4>1
    <3>3. g.path.names \in Seq(FileNames)
      BY <2>2 DEF PathSet
    <3>4. (g.path.names \o Levels(i)) \o <<"auth.info">> = g.path.names \o names
      BY <2>5, <3>3, CatAssociative, Zenon
    <3>. HIDE DEF names
    <3>5. Below(g.path, names) = [abs |-> g.path.abs, names |-> g.path.names \o names]
      BY <2>2, <2>6, BelowPath
    <3>. QED
      BY <3>2, <3>4, <3>5
  <2>. HIDE DEF names
  <2>8. a = Below(At(i.cwd, g.path), names) /\ At(i.cwd, g.path) \in PathSet
    BY <2>1, <2>2, <2>3, <2>6, <2>7, AtBelow, AtPath
  <2>. QED
    BY <2>1, <2>4, <2>6, <2>8
<1>. QED
  BY <1>1, <1>2 DEF Dirs

\* Below one root, or below two of which none is inside the other, the second
\* level keeps two accounts apart.
LEMMA Apart ==
  ASSUME NEW r \in PathSet, NEW s \in PathSet, NEW n \in Seq(FileNames), NEW m \in Seq(FileNames),
         Len(n) >= 2, Len(m) >= 2, n[2] # m[2],
         r = s \/ (~Inside(r, s) /\ ~Inside(s, r))
  PROVE  ~Inside(Below(r, n), Below(s, m))
<1>. DEFINE a == Below(r, n)
            b == Below(s, m)
<1>. SUFFICES ASSUME Inside(a, b)
              PROVE  FALSE
  OBVIOUS
<1>1. /\ a.abs = r.abs /\ a.names = r.names \o n /\ b.abs = s.abs /\ b.names = s.names \o m
      /\ r.names \in Seq(FileNames) /\ s.names \in Seq(FileNames)
  BY BelowPath DEF PathSet
<1>. HIDE DEF a, b
<1>2. /\ a.names \in Seq(FileNames) /\ b.names \in Seq(FileNames)
      /\ {Len(n), Len(m), Len(r.names), Len(s.names)} \subseteq Nat
      /\ Len(a.names) = Len(r.names) + Len(n) /\ Len(b.names) = Len(s.names) + Len(m)
      /\ \A k \in 1..Len(r.names) : a.names[k] = r.names[k]
      /\ \A k \in 1..Len(s.names) : b.names[k] = s.names[k]
  BY <1>1
<1>3. r.abs = s.abs /\ Len(b.names) <= Len(a.names) /\ \A k \in 1..Len(b.names) : b.names[k] = a.names[k]
  <2>1. r.abs = s.abs /\ IsPrefix(b.names, a.names)
    BY <1>1 DEF Inside
  <2>. QED
    BY <1>2, <2>1, PrefixElements
<1>4. CASE r = s
  <2>1. Len(r.names) + 2 \in 1..Len(b.names)
    BY <1>1, <1>2, <1>4
  <2>2. a.names[Len(r.names) + 2] = n[2] /\ b.names[Len(r.names) + 2] = m[2]
    BY <1>1, <1>4
  <2>. QED
    BY <1>3, <2>1, <2>2
<1>5. CASE Len(s.names) <= Len(r.names) /\ ~Inside(r, s)
  <2>1. ASSUME NEW k \in 1..Len(s.names)
        PROVE  s.names[k] = r.names[k]
    <3>1. k \in 1..Len(r.names) /\ k \in 1..Len(b.names)
      BY <1>2, <1>5
    <3>. QED
      BY <1>2, <1>3, <3>1
  <2>. QED
    BY <1>1, <1>3, <1>5, <2>1, PrefixElements DEF Inside
<1>6. CASE Len(r.names) <= Len(s.names) /\ ~Inside(s, r)
  <2>1. ASSUME NEW k \in 1..Len(r.names)
        PROVE  r.names[k] = s.names[k]
    <3>1. k \in 1..Len(s.names) /\ k \in 1..Len(b.names)
      BY <1>2, <1>6
    <3>. QED
      BY <1>2, <1>3, <3>1
  <2>. QED
    BY <1>1, <1>3, <1>6, <2>1, PrefixElements DEF Inside
<1>. QED
  BY <1>1, <1>4, <1>5, <1>6

\* Processes of two accounts never keep credentials or contents one inside the
\* other's directories, when the roots that they are given do not lie so.
THEOREM AccountsStayApart == Spec => []AccountsApart
<1>1. ASSUME IInv, NEW p \in Procs, NEW q \in Procs, procs[p].inv # none, procs[q].inv # none,
             procs[p].inv.email # procs[q].inv.email, NEW a \in Dirs(p), NEW b \in Dirs(q)
      PROVE  ~Inside(a, b)
  <2>1. PICK r \in Roots(procs[p].inv), n \in Seq(FileNames) :
          r \in PathSet /\ a = Below(r, n) /\ Len(n) >= 2 /\ n[2] = procs[p].inv.email
    BY <1>1, DirsBelowRoots
  <2>2. PICK s \in Roots(procs[q].inv), m \in Seq(FileNames) :
          s \in PathSet /\ b = Below(s, m) /\ Len(m) >= 2 /\ m[2] = procs[q].inv.email
    BY <1>1, DirsBelowRoots
  <2>3. procs[p].inv \in Invocations /\ procs[q].inv \in Invocations
    BY <1>1, DirsBelowRoots
  <2>4. r = s \/ (~Inside(r, s) /\ ~Inside(s, r))
    BY <1>1, <2>1, <2>2, <2>3, RootsAssumption
  <2>. QED
    BY <1>1, <2>1, <2>2, <2>4, Apart
<1>2. IInv => AccountsApart
  BY <1>1 DEF AccountsApart
<1>. QED
  BY <1>2, Invariance, PTL

-----------------------------------------------------------------------------
(* What GETAUTH stores, SERVICE finds. *)

\* A process is refused as not authorized by the callback of the flow only, and
\* when the store has no credential to refresh.
LEMMA RefusedByAsk ==
  ASSUME IInv, [Next]_vars, NEW p \in Procs, procs[p].pc = "flow", procs'[p].pc = "ended",
         procs'[p].why = "unauthorized"
  PROVE  ~Usable(p)
<1>1. DOMAIN procs = Procs /\ procs' # procs
  BY DEF IInv
<1>2. PICK q \in Procs : Local(q) \/ Authorize(q)
  <2>1. Next
    BY <1>1 DEF vars
  <2>2. ~\E e \in GmailAccounts : Revoke(e)
    <3>1. ASSUME NEW e \in GmailAccounts, Revoke(e)
          PROVE  FALSE
      <4>1. \A q \in Procs : procs[q].pc # "saving" => procs'[q] = procs[q]
        BY <3>1 DEF Revoke
      <4>. QED
        BY <4>1
    <3>. QED
      BY <3>1
  <2>3. ~\E d \in SecretPlaces, s \in {"none", "own", "bad"} : PutSecret(d, s)
    BY <1>1, Zenon DEF PutSecret
  <2>. QED
    BY <2>1, <2>2, <2>3 DEF Next
<1>3. \E r : Set(q, r)
  BY <1>2 DEF Local, Start, Help, Create, CreateSession, OpenFlow, Ask, Prompt, ExchangeFails,
     BuildControl, NoStore, Mount, Unmount, Kill, Authorize, Refresh, Exchange, Obtain, Save, End, Go,
     Fail, Throw
<1>4. q = p
  BY <1>1, <1>3 DEF Set
<1>5. ASSUME NEW exit, NEW why, End(p, exit, why)
      PROVE  why = "unauthorized"
  <2>. DEFINE e == [Idle EXCEPT !.pc = "ended", !.mode = procs[p].inv.mode,
                                !.served = procs[p].served, !.exit = exit, !.why = why]
  <2>1. procs'[p] = e
    BY <1>1, <1>5 DEF End, Set
  <2>2. e.why = why
    BY IdleFacts
  <2>. QED
    BY <2>1, <2>2
<1>6. ASSUME NEW pc, Go(p, pc)
      PROVE  pc = "ended"
  <2>1. procs'[p] = [procs[p] EXCEPT !.pc = pc] /\ DOMAIN procs[p] = DOMAIN Idle
    BY <1>1, <1>6 DEF Go, Set, IInv, Lawful
  <2>. QED
    BY <2>1, IdleFacts
<1>7. Ask(p)
  <2>1. ~Refresh(p) /\ ~Exchange(p) /\ ~Save(p)
    <3>1. ASSUME Obtain(p)
          PROVE  procs'[p].pc = "saving"
      <4>1. procs'[p] = [procs[p] EXCEPT !.pc = "saving", !.token = [client |-> procs[p].client, live |-> TRUE]]
            /\ DOMAIN procs[p] = DOMAIN Idle
        BY <1>1, <3>1 DEF Obtain, Set, IInv, Lawful
      <4>. QED
        BY <4>1, IdleFacts
    <3>. QED
      BY <3>1 DEF Refresh, Exchange, Save
  <2>2. ~Kill(p)
    BY <1>5 DEF Kill
  <2>3. ~\E i \in Invocations : Start(p, i)
    BY DEF Start, Running
  <2>. QED
    BY <1>2, <1>4, <2>1, <2>2, <2>3 DEF Local, Authorize, Help, Create, CreateSession, OpenFlow, Prompt,
       ExchangeFails, BuildControl, NoStore, Mount, FileSystemAt, Unmount
<1>. QED
  BY <1>5, <1>6, <1>7 DEF Ask

\* A service refused as not authorized has not been authorized with the same
\* options and the same client: the credential that GETAUTH stored is where the
\* service looks, unless it was withdrawn, half overwritten, or replaced by one
\* of another client or one withdrawn meanwhile.
THEOREM WhatIsAuthorizedServes == Spec => AuthorizedServes
<1>1. ASSUME IInv, [Next]_vars, NEW p \in Procs, procs[p].pc = "flow", procs'[p].pc = "ended",
             procs'[p].why = "unauthorized", StoredAt(procs[p].cred, procs[p].inv.email) # Torn,
             [setting |-> Setting(procs[p].inv), client |-> procs[p].client] \in authorized
      PROVE  FALSE
  <2>. DEFINE i == procs[p].inv
              a == [setting |-> Setting(i), client |-> procs[p].client]
  <2>1. /\ i \in Invocations /\ i.email \in FileNames /\ procs[p].cred = HomeOf(i)
        /\ GetDir(GlobalPaths(i.conf), "CONFIG", i.env).err = "Success"
    BY <1>1, AccountsAssumption DEF IInv, Lawful
  <2>2. /\ a.setting = Setting(i) /\ a.client = procs[p].client /\ a \in authorized
    BY <1>1
  <2>. HIDE DEF a
  <2>3. StoredAt(Place(a.setting), a.setting.email) \in {[client |-> a.client, live |-> TRUE], Torn}
    BY <1>1, <2>2 DEF IInv, AuthorizedStored
  <2>4. StoredAt(procs[p].cred, i.email) = [client |-> procs[p].client, live |-> TRUE]
    BY <1>1, <2>1, <2>2, <2>3, SamePlace
  <2>5. ~Usable(p)
    BY <1>1, RefusedByAsk
  <2>6. [client |-> procs[p].client, live |-> TRUE] # none
    <3>1. procs[p].client \in Clients
      BY <1>1 DEF IInv, Lawful
    <3>2. [client |-> procs[p].client, live |-> TRUE] \in Credentials
      BY <3>1 DEF Credentials
    <3>. QED
      BY <3>2, NoneAssumption, Zenon
  <2>. QED
    BY <2>4, <2>5, <2>6 DEF Usable
<1>2. IInv /\ [Next]_vars =>
        [\A p \in Procs :
           /\ procs[p].pc = "flow" /\ procs'[p].pc = "ended" /\ procs'[p].why = "unauthorized"
           /\ StoredAt(procs[p].cred, procs[p].inv.email) # Torn
           => [setting |-> Setting(procs[p].inv), client |-> procs[p].client] \notin authorized]_vars
  BY <1>1
<1>. QED
  BY <1>2, Invariance, PTL DEF Spec, AuthorizedServes
=============================================================================
