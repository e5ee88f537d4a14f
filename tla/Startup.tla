------------------------------ MODULE Startup ------------------------------
(***************************************************************************)
(* From the command line to a mounted drive: processes of gd2fuse that     *)
(* authorize accounts (GETAUTH) or serve them (SERVICE), over the          *)
(* credentials and the client secrets that they share on the disk, while   *)
(* the user withdraws authorizations and replaces secrets.                 *)
(***************************************************************************)
EXTENDS ErrorCodes, Paths, Settings

CONSTANTS
  Procs,         \* processes of gd2fuse
  Invocations,   \* environments, working directories and arguments
  GmailAccounts, \* accounts with "gmail" in their name
  NoEmail,       \* no --email
  SecretPlaces,  \* directories in which a user may put a client secret
  none

VARIABLES
  procs,      \* procs[p]: how far process p is
  stored,     \* stored[d]: the credentials in directory d, by account
  secret,     \* secret[d]: the client that the secret file in d names
  authorized  \* history: the authorizations that the user has given

vars == <<procs, stored, secret, authorized>>

Root == Abs(<<>>)
Clients == {"built_in", "own"}

\* What the user grants: a credential of a client, which he may withdraw.  A
\* file that is half written holds none.
Credentials == [client : Clients, live : BOOLEAN]
Torn == [client |-> "torn", live |-> FALSE]
Withdrawn(c) == [client |-> c.client, live |-> FALSE]

Idle == [pc |-> "idle", inv |-> none, mode |-> none, cwd |-> Root, client |-> none, cred |-> none,
         token |-> none, store |-> none, settings |-> NoSettings, nodes |-> <<>>,
         served |-> FALSE, exit |-> 0, why |-> "none"]

\* Options and environment are paths or not given.
ASSUME InvocationsAssumption ==
  \A i \in Invocations :
    /\ i.cwd \in PathSet /\ i.cwd.abs /\ i.conf \in PathSet \cup {Unset}
    /\ {i.env.HOME, i.env.XDG_CONFIG_HOME, i.env.XDG_DATA_HOME} \subseteq PathSet \cup {Unset}
    /\ i.env.passwd \in PathSet \cup {Unset, NoEntry}

ASSUME AccountsAssumption == GmailAccounts \subseteq FileNames /\ NoEmail \notin GmailAccounts
ASSUME NoneAssumption ==
  none \notin PathSet \cup Clients \cup Invocations \cup Credentials \cup {Torn}

Running(p) == procs[p].pc \notin {"idle", "ended"}

\* What the user authorizes: an account, as it is named by options and
\* environment; the working directory counts for a relative --conf-dir.
Setting(i) == [email |-> i.email, conf |-> ConfDir(i.conf), env |-> i.env,
               cwd |-> IF ConfDir(i.conf) # Unset /\ ~i.conf.abs THEN i.cwd ELSE Root]

-----------------------------------------------------------------------------
(* Directories and files.                                                   *)

ProviderPaths(i) == NextLevel(GlobalPaths(i.conf), "gdrive")

SessionPaths_Shared(i) == ProviderPaths(i)

SessionPaths(i) == NextLevel(ProviderPaths(i), i.email)

\* getSecretFile: in the directory of the provider.
SecretPlace(i) == At(i.cwd, GetDir(ProviderPaths(i), "CONFIG", i.env).path)

SecretAt(place) == IF place \in DOMAIN secret THEN secret[place] ELSE "none"

CredentialHome_OfProvider(i) == Below(GetDir(ProviderPaths(i), "CONFIG", i.env).path, <<"auth.info">>)

CredentialHome(i) == Below(GetDir(SessionPaths(i), "CONFIG", i.env).path, <<"auth.info">>)

\* The directory that the OAuth2 process of GETAUTH is given.
ProcessHome_OfProvider(i) == CredentialHome_OfProvider(i)

ProcessHome(i) == CredentialHome(i)

HomeOf(i) == At(i.cwd, IF i.mode = "GETAUTH" THEN ProcessHome(i) ELSE CredentialHome(i))

\* Where a setting keeps its credential.
Place(setting) == At(setting.cwd, CredentialHome(setting))

StoredAt(place, email) ==
  IF place \in DOMAIN stored /\ email \in DOMAIN stored[place] THEN stored[place][email] ELSE none

Inside(a, b) == a.abs = b.abs /\ IsPrefix(b.names, a.names)

\* The directories above those of the accounts.
Roots(i) ==
  {At(cwd, GetDir(GlobalPaths(i.conf), type, i.env).path) : cwd \in {i.cwd, Root},
     type \in {t \in {"CONFIG", "DATA"} : GetDir(GlobalPaths(i.conf), t, i.env).err = "Success"}}

\* No user puts the root of one account inside that of another.
ASSUME RootsAssumption ==
  \A i, j \in Invocations : i.email # j.email =>
    \A a \in Roots(i), b \in Roots(j) : a = b \/ ~Inside(a, b)

-----------------------------------------------------------------------------
Set(p, r) == procs' = [procs EXCEPT ![p] = r]
Go(p, pc) == Set(p, [procs[p] EXCEPT !.pc = pc])

End(p, exit, why) ==
  Set(p, [Idle EXCEPT !.pc = "ended", !.mode = procs[p].inv.mode,
                      !.served = procs[p].served, !.exit = exit, !.why = why])

ExitStatus_Zero(code) == 0

\* The catch clause of main.
ExitStatus(code) == AppCode[code]

Throw(p, code) == IF code = "crash" THEN End(p, 139, code) ELSE End(p, ExitStatus(code), code)

\* What authorization throws is caught by the OAuth2 process of GETAUTH, whose
\* answer FALSE becomes the exit status.
Fail(p, code) ==
  IF procs[p].inv.mode = "GETAUTH" THEN End(p, 0, code) ELSE Throw(p, code)

-----------------------------------------------------------------------------
(* main and Application.                                                    *)

Start(p, i) == ~Running(p) /\ Set(p, [Idle EXCEPT !.pc = "parsed", !.inv = i, !.cwd = i.cwd])

Help(p) == procs[p].pc = "parsed" /\ procs[p].inv.mode = "help" /\ End(p, 0, "help")

DetectProvider(email) == IF email \in GmailAccounts THEN "gdrive" ELSE none

\* The configurations of program and provider.  An account that no provider
\* takes has no factory, which is called all the same.
Create(p) ==
  LET i == procs[p].inv
      d == GetDir(GlobalPaths(i.conf), "CONFIG", i.env) IN
  /\ procs[p].pc = "parsed" /\ i.mode # "help"
  /\ CASE d.err # "Success" -> Throw(p, d.err)
       [] d.err = "Success" /\ i.email = NoEmail -> Throw(p, "WrongAppArguments")
       [] d.err = "Success" /\ i.email # NoEmail /\ DetectProvider(i.email) = none ->
            End(p, 139, "crash")
       [] OTHER -> Go(p, "created")

\* A session begins with a transport, which the library may refuse.
CreateSession(p) ==
  /\ procs[p].pc = "created"
  /\ \/ Go(p, "session")
     \/ Throw(p, "HttpTransportError")

-----------------------------------------------------------------------------
(* Authorization: class Auth, on behalf of GETAUTH or of getAuthCred.       *)

OpenFlow(p) ==
  LET i == procs[p].inv
      s == SecretAt(SecretPlace(i)) IN
  /\ procs[p].pc \in {"session", "configured"}
  /\ (procs[p].pc = "session") = (i.mode = "GETAUTH")
  /\ \/ Fail(p, "HttpTransportError")
     \/ s = "bad" /\ Fail(p, "BadFileOperation")
     \/ /\ s # "bad"
        /\ Set(p, [procs[p] EXCEPT !.pc = "flow", !.cred = HomeOf(i),
                                   !.client = IF s = "none" THEN "built_in" ELSE s])

\* A credential is written to the file of an account.
Write(d, e, credential) ==
  LET held == IF d \in DOMAIN stored THEN stored[d] ELSE <<>>
  IN stored' = [b \in DOMAIN stored \cup {d} |->
                  IF b = d
                  THEN [f \in DOMAIN held \cup {e} |-> IF f = e THEN credential ELSE held[f]]
                  ELSE stored[b]]

\* The flow has a credential, and begins to write it over the one in the store.
Obtain(p) ==
  /\ Write(procs[p].cred, procs[p].inv.email, Torn)
  /\ Set(p, [procs[p] EXCEPT !.pc = "saving",
                             !.token = [client |-> procs[p].client, live |-> TRUE]])
  /\ UNCHANGED authorized

\* The credential is written.  It takes the place of what the user authorized
\* there with another client, or meanwhile after a withdrawal.
Save(p) ==
  LET r == procs[p]
      e == r.inv.email
      kept == {a \in authorized : a.setting.email = e /\ Place(a.setting) = r.cred =>
                                    a.client = r.client /\ r.token.live}
  IN /\ r.pc = "saving" /\ Write(r.cred, e, r.token)
     /\ IF r.inv.mode = "GETAUTH"
        THEN /\ authorized' = kept \cup {a \in {[setting |-> Setting(r.inv), client |-> r.client]} :
                                           r.token.live}
             /\ End(p, IF r.inv.code THEN 1 ELSE 0, "authorized")
        ELSE authorized' = kept /\ Set(p, [r EXCEPT !.pc = "authorized", !.token = none])

Usable(p) ==
  LET c == StoredAt(procs[p].cred, procs[p].inv.email)
  IN c # none /\ c.live /\ c.client = procs[p].client

\* RefreshCredentialWithOptions: the credential in the store is refreshed.
Refresh(p) == procs[p].pc = "flow" /\ Usable(p) /\ Obtain(p)

\* There is none, or the request fails: the callback is asked for a code.
\* That of a service throws.
Ask(p) ==
  LET i == procs[p].inv
      why == IF Usable(p) THEN "network" ELSE "unauthorized" IN
  /\ procs[p].pc = "flow"
  /\ CASE i.mode = "SERVICE" -> End(p, ExitStatus("AuthenticationFailed"), why)
       [] i.mode = "GETAUTH" /\ i.code -> Go(p, "exchange")
       [] OTHER -> Go(p, "prompt")

\* The user types a code, or none.
Prompt(p) ==
  /\ procs[p].pc = "prompt"
  /\ \/ Go(p, "exchange")
     \/ Fail(p, "AuthenticationFailed")

Exchange(p) == procs[p].pc = "exchange" /\ Obtain(p)

ExchangeFails(p) == procs[p].pc = "exchange" /\ Fail(p, "AuthenticationFailed")

-----------------------------------------------------------------------------
(* FuseGate::run.                                                           *)

\* createConfigurationFS and getProperty("control_dir").
BuildControl(p) ==
  LET s == FoldLeft(Built, NoSettings, <<"global", "provider", "session">>) IN
  /\ procs[p].pc = "session" /\ procs[p].inv.mode = "SERVICE"
  /\ Set(p, [procs[p] EXCEPT !.pc = "configured", !.settings = s, !.nodes = PropNodes(s)])

StoreDir(p) == GetDir(SessionPaths(procs[p].inv), "DATA", procs[p].inv.env)

\* getFileSystem asks for the store before or after the credential: both are
\* arguments of one call.
NoStore(p) ==
  /\ procs[p].pc \in {"configured", "authorized"} /\ procs[p].inv.mode = "SERVICE"
  /\ StoreDir(p).err # "Success" /\ Throw(p, StoreDir(p).err)

FileSystemAt_WithoutCredential(pc) == pc \in {"configured", "authorized"}

\* When getFileSystem can have made its file system.
FileSystemAt(pc) == pc = "authorized"

\* fuse_main mounts, and goes to the background with "/" as its directory
\* unless it is told not to.
Mount(p) ==
  LET i == procs[p].inv IN
  /\ FileSystemAt(procs[p].pc) /\ StoreDir(p).err = "Success"
  /\ \/ End(p, 1, "fuse")
     \/ /\ i.mnt
        /\ Set(p, [procs[p] EXCEPT !.pc = "serving", !.store = StoreDir(p).path, !.served = TRUE,
                                   !.cwd = IF i.fg THEN procs[p].cwd ELSE Root])

Unmount(p) == procs[p].pc = "serving" /\ End(p, 0, "unmounted")

-----------------------------------------------------------------------------
(* What happens to a process and to the account from outside.               *)

Kill(p) == Running(p) /\ End(p, 137, "killed")

Revoke(e) ==
  /\ stored' = [d \in DOMAIN stored |-> [f \in DOMAIN stored[d] |->
                  IF f = e THEN Withdrawn(stored[d][f]) ELSE stored[d][f]]]
  /\ procs' = [p \in Procs |-> IF procs[p].pc = "saving" /\ procs[p].inv.email = e
                               THEN [procs[p] EXCEPT !.token = Withdrawn(@)] ELSE procs[p]]
  /\ authorized' = {a \in authorized : a.setting.email # e}
  /\ UNCHANGED secret

PutSecret(place, s) ==
  /\ secret' = [secret EXCEPT ![place] = s]
  /\ UNCHANGED <<procs, stored, authorized>>

Init ==
  /\ procs = [p \in Procs |-> Idle]
  /\ stored = <<>>
  /\ secret = [d \in SecretPlaces |-> "none"]
  /\ authorized = {}

Local(p) ==
  \/ \E i \in Invocations : Start(p, i)
  \/ Help(p) \/ Create(p) \/ CreateSession(p) \/ OpenFlow(p) \/ Ask(p) \/ Prompt(p)
  \/ ExchangeFails(p) \/ BuildControl(p) \/ NoStore(p) \/ Mount(p) \/ Unmount(p) \/ Kill(p)

Authorize(p) == Refresh(p) \/ Exchange(p) \/ Save(p)

Next ==
  \/ \E p \in Procs : \/ Local(p) /\ UNCHANGED <<stored, secret, authorized>>
                      \/ Authorize(p) /\ UNCHANGED secret
  \/ \E e \in GmailAccounts : Revoke(e)
  \/ \E d \in SecretPlaces, s \in {"none", "own", "bad"} : PutSecret(d, s)

Spec == Init /\ [][Next]_vars

-----------------------------------------------------------------------------
\* Types.  A process that serves has a credential of its account and a store,
\* and one that has ended holds nothing.
TypeOK ==
  /\ \A p \in Procs :
       /\ procs[p].pc \in {"idle", "parsed", "created", "session", "configured", "flow",
                           "prompt", "exchange", "saving", "authorized", "serving", "ended"}
       /\ procs[p].client \in Clients \cup {none}
       /\ procs[p].pc = "serving" => procs[p].client # none /\ procs[p].store # none
       /\ procs[p].pc \in {"idle", "ended"} => procs[p].client = none /\ procs[p].store = none
       /\ procs[p].exit \in Nat
  /\ \A d \in DOMAIN stored : \A e \in DOMAIN stored[d] :
       e \in GmailAccounts /\ stored[d][e] \in Credentials \cup {Torn}
  /\ secret \in [SecretPlaces -> Clients \cup {"none", "bad"}]

\* What holds of a process on its way: from "created" on, its account has a
\* provider and its directories are known, and from "flow" on it has the client
\* and the directory that its invocation means.
Lawful(r) ==
  /\ DOMAIN r = DOMAIN Idle
  /\ r.pc \in {"idle", "parsed", "created", "session", "configured", "flow",
               "prompt", "exchange", "saving", "authorized", "serving", "ended"}
  /\ r.exit \in Nat
  /\ r.pc = "ended" /\ r.mode = "SERVICE" /\ r.exit = 0 => r.served
  /\ IF r.pc \in {"idle", "ended"} THEN r.inv = none
     ELSE r.inv \in Invocations /\ r.cwd = IF r.pc = "serving" /\ ~r.inv.fg THEN Root ELSE r.inv.cwd
  /\ r.pc \notin {"idle", "parsed", "ended"} =>
       r.inv.email \in GmailAccounts /\ GetDir(GlobalPaths(r.inv.conf), "CONFIG", r.inv.env).err = "Success"
  /\ r.pc \in {"flow", "saving"} => r.inv.mode \in {"GETAUTH", "SERVICE"}
  /\ r.pc \in {"prompt", "exchange"} => r.inv.mode = "GETAUTH"
  /\ r.pc \in {"configured", "authorized", "serving"} => r.inv.mode = "SERVICE"
  /\ IF r.pc \in {"flow", "prompt", "exchange", "saving", "authorized", "serving"}
     THEN r.client \in Clients /\ r.cred = HomeOf(r.inv)
     ELSE r.client = none /\ r.cred = none
  /\ IF r.pc = "saving" THEN r.token \in Credentials /\ r.token.client = r.client
                        ELSE r.token = none
  /\ LET data == GetDir(SessionPaths(r.inv), "DATA", r.inv.env)
     IN IF r.pc = "serving" THEN data.err = "Success" /\ r.store = data.path /\ r.served
                            ELSE r.store = none

\* A credential that the user has given is where the options that it was given
\* with lead to, with its client, and it is live; or a file is half written there.
AuthorizedStored ==
  \A a \in authorized :
    StoredAt(Place(a.setting), a.setting.email) \in {[client |-> a.client, live |-> TRUE], Torn}

\* The inductive invariant.
IInv ==
  /\ DOMAIN procs = Procs /\ \A p \in Procs : Lawful(procs[p])
  /\ \A d \in DOMAIN stored : \A e \in DOMAIN stored[d] :
       e \in GmailAccounts /\ stored[d][e] \in Credentials \cup {Torn}
  /\ secret \in [SecretPlaces -> Clients \cup {"none", "bad"}]
  /\ AuthorizedStored

\* The directories that a process uses for its account.
Dirs(p) == (IF procs[p].pc = "serving" THEN {At(procs[p].cwd, procs[p].store)} ELSE {}) \cup
           (IF procs[p].cred # none THEN {procs[p].cred} ELSE {})

\* Processes of two accounts keep contents and credentials in directories of
\* which none is inside another (the level that GoogleSessionConfiguration adds
\* for the account), provided that no user puts the root of one inside the other's.
AccountsApart ==
  \A p, q \in Procs : procs[p].inv # none /\ procs[q].inv # none =>
    (procs[p].inv.email # procs[q].inv.email =>
       \A a \in Dirs(p), b \in Dirs(q) : ~Inside(a, b))

\* A service is refused as not authorized only if the user has not authorized
\* the account with the same options and the same client, or has withdrawn it,
\* or a write of this credential was broken off or is under way: what GETAUTH
\* stores, SERVICE finds, also when several processes authorize, the secret
\* changes in between, or a withdrawal falls between grant and store.  A process
\* that writes after another leaves its own credential in the store: what that
\* one replaces counts as withdrawn.
AuthorizedServes ==
  [][\A p \in Procs :
       /\ procs[p].pc = "flow" /\ procs'[p].pc = "ended" /\ procs'[p].why = "unauthorized"
       /\ StoredAt(procs[p].cred, procs[p].inv.email) # Torn
       => [setting |-> Setting(procs[p].inv), client |-> procs[p].client] \notin authorized]_vars

\* While a drive is served with --conf-dir, its store is below that directory as
\* the user named it.  Left out: a relative directory of a process in the
\* background, which has moved to "/" before it touches the store.
StoreBelowConf ==
  \A p \in Procs :
    LET i == procs[p].inv IN
    procs[p].pc = "serving" /\ ConfDir(i.conf) # Unset /\ (i.conf.abs \/ i.fg) =>
      Inside(At(procs[p].cwd, procs[p].store), At(i.cwd, i.conf))

\* The control directory of a served drive shows each property of the program
\* and of the provider once, the list that answers for a name is the one whose
\* table has it, an enumeration has the entries of its own table although all
\* lists share the registry, and no list is left to be built by the handlers,
\* which run in several threads.
ControlShowsSettings ==
  \A p \in Procs : procs[p].pc = "serving" =>
    LET s == procs[p].settings
        shown(list) == {Defs(list)[k][1] : k \in DOMAIN Defs(list)}
    IN /\ s.built = Lists
       /\ ToSet(procs[p].nodes) = UNION {shown(list) : list \in Lists}
       /\ IsInjective(procs[p].nodes)
       /\ \A list \in Lists : \A k \in DOMAIN Defs(list) :
            LET d == Defs(list)[k] IN
            /\ Answering(s, d[1]) = list
            /\ s.lists[list][d[1]].type = d[2]
            /\ d[2] = "ENUM" => s.lists[list][d[1]].entries = EnumsOf(list)[d[3]]

\* A service that ends with status 0 has had its drive mounted: every failure
\* on the way there is seen by the program that started it.
ZeroMeansServed ==
  \A p \in Procs :
    procs[p].pc = "ended" /\ procs[p].mode = "SERVICE" /\ procs[p].exit = 0 => procs[p].served
=============================================================================
