------------------------------ MODULE Failures ------------------------------
(***************************************************************************)
(* What a failure turns into on its way from the drive, the disk or a      *)
(* property to the program that made a system call: the error code, the    *)
(* exception with its message, the frame that catches it (or none, which   *)
(* ends the daemon), and the number that is answered.                      *)
(*                                                                         *)
(* A request is a sequence of stages, each a call of the handler or of     *)
(* FuseGate that may throw.  What the stages do is left to the modules     *)
(* about files, nodes and mounts; here they succeed, refuse or fail.       *)
(***************************************************************************)
EXTENDS ErrorCodes

CONSTANTS
  Threads,    \* threads of libfuse
  Statuses,   \* HTTP statuses of answers other than 2xx
  DiskErrors, \* errnos of system calls on the store
  Texts       \* ids and paths, as lexical_cast writes them into messages

\* errno is set when a system call fails.
ASSUME StatusesAssumption   == Statuses \subseteq Nat
ASSUME DiskErrorsAssumption == DiskErrors \subseteq Nat \ {0}

VARIABLES
  up,      \* whether the daemon runs
  thread   \* thread[t]: the request that thread t handles

vars == <<up, thread>>

\* An exception that is not a G2FException (filesystem_error, out_of_range).
Foreign == [cat |-> "foreign", value |-> 1]
NoError == AppError("Success")

Idle == [pc |-> "idle", req |-> "none", stage |-> 0, err |-> NoError,
         template |-> <<>>, args |-> <<>>, what |-> <<>>, failure |-> "none", errno |-> 0]

-----------------------------------------------------------------------------
(* The handlers.                                                            *)
(*   frame    who catches what the stage throws: "getINode", which logs it  *)
(*            and returns a null pointer; "gate", the other members of      *)
(*            FuseGate; "none"                                              *)
(*   calls    where the stage may fail: requests for descriptions, lists    *)
(*            and changes ("meta"), downloads, the store, arguments of the  *)
(*            tree's operations, the parent of a new file, the text of a    *)
(*            property                                                      *)
(*   refuses  what the stage answers without an exception                   *)

Stage(frame, calls, refuses) == [frame |-> frame, calls |-> calls, refuses |-> refuses]

Lookup(refuses) == Stage("getINode", {"meta"}, {Errno.ENOENT} \cup refuses)

CreateFile == Stage("gate", {"meta", "parent"}, {Errno.EISDIR, Errno.ENOTDIR, Errno.EEXIST, Errno.EPERM})

RemoveINode == Stage("gate", {"meta", "store"}, {Errno.ENOENT, Errno.EPERM})

CreateDir == Stage("gate", {"meta"}, {Errno.EEXIST, Errno.EPERM, Errno.ENOTDIR})

RenameINode == Stage("gate", {"meta", "store", "tree"}, {})

OpenContent == <<Stage("gate", {"meta"}, {Errno.ENOENT, Errno.EISDIR}),
                 Stage("gate", {"media", "store"}, {})>>

\* What setValue of a property in memory answers; PropNode::write answers the
\* value, whatever category it is of.
SetValueErrors == {SystemError(Errno.EINVAL)}

\* Handlers that answer ENOSYS, of those that g2f_init_ops offers to libfuse.
Stubs == {"utimens", "readlink", "mknod", "symlink", "link", "chmod", "chown",
          "statfs", "fsync", "fsyncdir"}
HandleStubs == {"ftruncate", "bmap", "ioctl", "poll"}

Handlers ==
  [getattr    |-> <<Lookup({})>>,
   access     |-> <<Lookup({})>>,
   opendir    |-> <<Lookup({Errno.ENOTDIR})>>,
   readdir    |-> <<Stage("none", {"meta"}, {Errno.ENOMEM})>>,
   releasedir |-> <<>>,
   open       |-> OpenContent,
   read       |-> <<Stage("none", {"pread", "text"}, {})>>,
   write      |-> <<Stage("none", {"store"}, {Errno.EINVAL} \cup {e.value : e \in SetValueErrors})>>,
   flush      |-> <<>>,
   fgetattr   |-> <<>>,
   truncate   |-> <<Lookup({Errno.EISDIR}),
                    Stage("none", {"media", "store"}, {Errno.EACCES, Errno.EFBIG})>>,
   release    |-> <<Stage("none", {"meta", "store"}, {})>>,
   create     |-> <<CreateFile, Stage("none", {"store"}, {})>>,
   unlink     |-> <<RemoveINode>>,
   rmdir      |-> <<RemoveINode>>,
   mkdir      |-> <<CreateDir>>,
   rename     |-> <<RenameINode>>]

Requests == DOMAIN Handlers \cup Stubs \cup HandleStubs

-----------------------------------------------------------------------------
Now(t)     == Handlers[thread[t].req][thread[t].stage]
Running(t) == up /\ thread[t].pc = "running"

Answer(t, n) == thread' = [thread EXCEPT ![t].pc = "answered", ![t].errno = n]

Call(t, q) ==
  /\ up /\ thread[t].pc = "idle"
  /\ thread' = [thread EXCEPT ![t] =
       CASE q \in Stubs \cup HandleStubs ->
              [Idle EXCEPT !.pc = "answered", !.req = q, !.errno = Errno.ENOSYS]
         [] q \in DOMAIN Handlers /\ Handlers[q] = <<>> ->
              [Idle EXCEPT !.pc = "answered", !.req = q]
         [] OTHER -> [Idle EXCEPT !.pc = "running", !.req = q, !.stage = 1]]
  /\ UNCHANGED up

\* The stage returns: the next one begins, or the handler answers 0.
GoOn(t, failure) ==
  /\ IF thread[t].stage < Len(Handlers[thread[t].req])
     THEN thread' = [thread EXCEPT ![t].stage = @ + 1, ![t].failure = failure]
     ELSE thread' = [thread EXCEPT ![t].pc = "answered", ![t].failure = failure]
  /\ UNCHANGED up

Succeed(t) == Running(t) /\ GoOn(t, thread[t].failure)

Refuse(t, n) ==
  /\ Running(t) /\ n \in Now(t).refuses
  /\ Answer(t, n) /\ UNCHANGED up

Throw(t, failure, e, template, args) ==
  /\ thread' = [thread EXCEPT ![t] =
       [@ EXCEPT !.pc = "thrown", !.failure = failure, !.err = e,
                 !.template = template, !.args = args,
                 !.what = CompileMessage(template, args)]]
  /\ UNCHANGED up

\* The process ends with all that its threads had in hand.
Die == up' = FALSE /\ thread' = [u \in Threads |-> Idle]

\* What the properties expect a program to hear of.
Serious(r) == ~r.answered \/ r.status \in 400..599

\* An answer of the drive that is not a success, or none.
DriveFails(t, r) ==
  /\ Running(t) /\ Now(t).calls \cap {"meta", "media"} # {}
  /\ LET e == CheckHttpResponse(r) IN
     IF IsError(e)
     THEN IF thread[t].req \in {"unlink", "rmdir", "rename"}
          THEN \E id \in Texts : Throw(t, "drive", e, <<"fail to remove", "%1">>, <<id>>)
          ELSE Throw(t, "drive", e, <<"fail to read">>, <<>>)
     ELSE GoOn(t, IF Serious(r) THEN "drive" ELSE "unnoticed")

\* The hash in a description is of a wrong length, or not of hexadecimal digits:
\* then unhex throws.
BadHash(t) ==
  /\ Running(t) /\ "meta" \in Now(t).calls
  /\ \/ Throw(t, "drive", AppError("MD5Error"), <<"length", "%1", "must be", "%2">>,
              <<<<"31">>, <<"32">>>>)
     \/ Throw(t, "drive", Foreign, <<>>, <<>>)

\* The stream of a download ends early; createFile asks the reader for its
\* error, which is none if it is equivalent to errc::success.
StreamBreaks(t) ==
  /\ Running(t) /\ "media" \in Now(t).calls
  /\ LET e == AppError("HttpReadError") IN
     IF Equivalent(e, 0) THEN GoOn(t, "drive")
     ELSE \E file \in Texts : Throw(t, "drive", e, <<"writing", "%1">>, <<file>>)

\* A system call on the store fails.
StoreFails(t) ==
  /\ Running(t) /\ "store" \in Now(t).calls
  /\ \E n \in DiskErrors, file \in Texts :
       Throw(t, "store", SystemError(n), <<"can not open", "%1">>, <<file>>)

\* The directories of a copy cannot be looked up or made: boost throws.
DirectoriesFail(t) ==
  /\ Running(t) /\ "store" \in Now(t).calls
  /\ Throw(t, "store", Foreign, <<>>, <<>>)

\* A rename whose paths the tree or the mounts do not accept.
TreeThrows(t, n) ==
  /\ Running(t) /\ "tree" \in Now(t).calls
  /\ \E path \in Texts : Throw(t, "tree", SystemError(n), <<"Path", "%1", "not found">>, <<path>>)

\* pread of the copy fails: the loop ends, what was read is answered.
PreadFails(t) ==
  /\ Running(t) /\ "pread" \in Now(t).calls
  /\ GoOn(t, "unnoticed")

\* The text of a property is read behind its end: std::string::copy throws.
ReadBehindText(t) ==
  /\ Running(t) /\ "text" \in Now(t).calls
  /\ Throw(t, "text", Foreign, <<>>, <<>>)

\* The directory of a new file is gone since the kernel looked it up: the null
\* pointer is asked whether it is a folder.
NoParent(t) == Running(t) /\ "parent" \in Now(t).calls /\ Die

Unwind_LeavesRequests(t) ==
  /\ up /\ thread[t].pc = "thrown"
  /\ IF Now(t).frame # "none" /\ thread[t].err # Foreign
     THEN Answer(t, thread[t].err.value) /\ UNCHANGED up
     ELSE up' = FALSE /\ UNCHANGED thread

\* An exception arrives at the frame of its stage.  Nobody catching it, the
\* process ends with all that its threads had in hand.
Unwind(t) ==
  /\ up /\ thread[t].pc = "thrown"
  /\ LET frame  == Now(t).frame
         caught == frame # "none" /\ thread[t].err # Foreign
     IN IF caught
        THEN /\ Answer(t, IF frame = "getINode" THEN Errno.ENOENT ELSE thread[t].err.value)
             /\ UNCHANGED up
        ELSE Die

Return(t) ==
  /\ up /\ thread[t].pc = "answered"
  /\ thread' = [thread EXCEPT ![t] = Idle]
  /\ UNCHANGED up

Restart ==
  /\ ~up /\ up' = TRUE
  /\ UNCHANGED thread

-----------------------------------------------------------------------------
Init == up = TRUE /\ thread = [t \in Threads |-> Idle]

Responses == [answered : {FALSE}, status : {0}, rewinds : {TRUE}]
               \cup [answered : {TRUE}, status : Statuses, rewinds : BOOLEAN]

Step(t) ==
  \/ \E q \in Requests : Call(t, q)
  \/ Succeed(t)
  \/ \E n \in {Errno[x] : x \in DOMAIN Errno} : Refuse(t, n)
  \/ \E r \in Responses : DriveFails(t, r)
  \/ BadHash(t)
  \/ StreamBreaks(t)
  \/ StoreFails(t)
  \/ DirectoriesFail(t)
  \/ \E n \in {Errno.ENOENT, Errno.EPERM} : TreeThrows(t, n)
  \/ PreadFails(t)
  \/ ReadBehindText(t)
  \/ NoParent(t)
  \/ Unwind(t)
  \/ Return(t)

Next == Restart \/ \E t \in Threads : Step(t)

Spec == Init /\ [][Next]_vars

-----------------------------------------------------------------------------
Errors == [cat : {"app", "system", "foreign"}, value : Nat]

\* The fields of a request are of their kinds; without a daemon there is none.
TypeOK ==
  /\ up \in BOOLEAN
  /\ ~up => \A t \in Threads : thread[t] = Idle
  /\ DOMAIN thread = Threads
  /\ \A t \in Threads :
       /\ DOMAIN thread[t] = DOMAIN Idle
       /\ thread[t].pc \in {"idle", "running", "thrown", "answered"}
       /\ thread[t].req \in Requests \cup {"none"}
       /\ thread[t].pc \in {"running", "thrown"} =>
            /\ thread[t].req \in DOMAIN Handlers
            /\ thread[t].stage \in DOMAIN Handlers[thread[t].req]
       /\ thread[t].err \in Errors
       /\ thread[t].errno \in Nat

\* What a request that runs, unwinds or answers can have behind it: a failure
\* ends the stage it happens in, by an exception with a code of its own.  This
\* makes the properties around it inductive.
FailureOK ==
  \A t \in Threads :
    /\ thread[t].pc = "running" => thread[t].failure \in {"none", "unnoticed"}
    /\ thread[t].pc = "thrown" =>
         /\ thread[t].err.value # 0
         /\ thread[t].failure = "drive" /\ thread[t].err # Foreign =>
              thread[t].err \in {AppError(c) : c \in {"HttpReadError", "HttpTransportError",
                                  "InternalError", "HttpClientError", "HttpServerError", "MD5Error"}}

\* A failure of the drive (no answer, a status from 400 to 599, a broken
\* stream, a hash that is none), of the store or of the tree is never answered
\* as a success, whichever frame it passes (checkHttpResponse, FuseGate).
\* Other statuses and a failed pread are: nothing in the code looks at them.
FailuresReported ==
  \A t \in Threads :
    thread[t].pc = "answered" /\ thread[t].failure \in {"drive", "store", "tree", "text"} =>
      thread[t].errno # 0

\* EEXIST, ENOTDIR, EISDIR and ENOSYS are the tree's own answers: no failure of
\* the drive has a code of the program (appError.h) with the same number, which
\* would make mkdir -p or a copy go on as if the entry were there.
RefusalsAreReal ==
  \A t \in Threads :
    thread[t].pc = "answered" /\ thread[t].failure = "drive" =>
      thread[t].errno \notin {Errno.EEXIST, Errno.ENOTDIR, Errno.EISDIR, Errno.ENOSYS}

\* The inductive invariant.
IInv == TypeOK /\ FailureOK /\ FailuresReported /\ RefusalsAreReal

\* The message of an exception holds its arguments as they are, in their
\* places: a name that contains %2 or the control characters of templates
\* changes nothing else (_compileMessage).
ArgumentsVerbatim ==
  \A t \in Threads :
    thread[t].pc = "thrown" =>
      /\ Len(thread[t].what) =
           Len(thread[t].template) + FoldLeft(LAMBDA n, a : n + Len(a) - 1, 0, thread[t].args)
      /\ \A k \in DOMAIN thread[t].args : \E i \in 0..Len(thread[t].what) :
           SubSeq(thread[t].what, i + 1, i + Len(thread[t].args[k])) = thread[t].args[k]
=============================================================================
