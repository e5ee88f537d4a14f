--------------------------- MODULE Failures_proofs ---------------------------
(* What Failures guarantees for any number of threads, every status of an    *)
(* answer and every errno of the store.                                      *)
EXTENDS Failures, TLAPS

-----------------------------------------------------------------------------
(* The table of handlers, the codes. *)

LEMMA HandlerLengths ==
  ASSUME NEW q \in DOMAIN Handlers
  PROVE  /\ Len(Handlers[q]) \in Nat
         /\ DOMAIN Handlers[q] = 1..Len(Handlers[q])
         /\ Handlers[q] # <<>> => 1 \in DOMAIN Handlers[q]
BY DEF Handlers, OpenContent

\* What an answer of the drive is taken for: an error, whenever the properties
\* call it a failure, and with one of five codes.
LEMMA AnswerCodes ==
  ASSUME NEW r \in Responses
  PROVE  LET e == CheckHttpResponse(r) IN
         /\ e \in Errors /\ e # Foreign
         /\ IsError(e) =>
              e \in {AppError(c) : c \in {"HttpTransportError", "InternalError",
                                          "HttpClientError", "HttpServerError"}}
         /\ Serious(r) => IsError(e)
<1>1. r.status \in Nat
  <2>. DEFINE None == [answered : {FALSE}, status : {0}, rewinds : {TRUE}]
              Some == [answered : {TRUE}, status : Statuses, rewinds : BOOLEAN]
  <2>1. ASSUME r \in None PROVE r.status \in Nat
    BY <2>1
  <2>2. ASSUME r \in Some PROVE r.status \in Nat
    BY <2>2, StatusesAssumption
  <2>3. r \in None \cup Some
    BY Zenon DEF Responses
  <2>. HIDE DEF None, Some
  <2>. QED
    BY <2>1, <2>2, <2>3, Zenon
<1>2. /\ ByStatus(r.status) \in {"Success", "HttpClientError", "HttpServerError"}
      /\ r.status \in 400..599 => ByStatus(r.status) # "Success"
  BY <1>1 DEF ByStatus
<1>3. PICK c \in {"Success", "HttpTransportError", "InternalError", "HttpClientError",
                  "HttpServerError"} :
         /\ CheckHttpResponse(r) = AppError(c)
         /\ Serious(r) => c # "Success"
  BY <1>1, <1>2 DEF CheckHttpResponse, Serious
<1>. QED
  BY <1>3 DEF AppError, AppCode, IsError, Errors, Foreign

DriveCodes == {AppError(c) : c \in {"HttpReadError", "HttpTransportError", "InternalError",
                                    "HttpClientError", "HttpServerError", "MD5Error"}}

\* The codes of the drive's failures are none of the tree's answers, and not 0.
LEMMA DriveCodesApart ==
  ASSUME NEW e \in DriveCodes
  PROVE  /\ e \in Errors /\ e # Foreign
         /\ e.value \notin {0, Errno.EEXIST, Errno.ENOTDIR, Errno.EISDIR, Errno.ENOSYS}
BY DEF DriveCodes, AppError, AppCode, Errno, Errors, Foreign

\* A stream that breaks off is never taken for the end of the file.
LEMMA BrokenStream == ~Equivalent(AppError("HttpReadError"), 0)
BY DEF Equivalent, AppError, AppCode, Condition, Errno

-----------------------------------------------------------------------------
(* The inductive invariant. *)

\* What the invariant says of one request.
Lawful(r) ==
  /\ DOMAIN r = DOMAIN Idle
  /\ r.req \in Requests \cup {"none"} /\ r.err \in Errors /\ r.errno \in Nat
  /\ \/ r.pc = "idle"
     \/ /\ r.pc = "running"
        /\ r.req \in DOMAIN Handlers /\ r.stage \in DOMAIN Handlers[r.req]
        /\ r.failure \in {"none", "unnoticed"}
     \/ /\ r.pc = "thrown"
        /\ r.req \in DOMAIN Handlers /\ r.stage \in DOMAIN Handlers[r.req]
        /\ r.err.value # 0
        /\ r.failure = "drive" /\ r.err # Foreign => r.err \in DriveCodes
     \/ /\ r.pc = "answered"
        /\ r.failure \in {"drive", "store", "tree", "text"} => r.errno # 0
        /\ r.failure = "drive" =>
             r.errno \notin {Errno.EEXIST, Errno.ENOTDIR, Errno.EISDIR, Errno.ENOSYS}

LEMMA InvByRequest ==
  IInv <=> /\ up \in BOOLEAN
           /\ ~up => \A t \in Threads : thread[t] = Idle
           /\ DOMAIN thread = Threads
           /\ \A t \in Threads : Lawful(thread[t])
BY DEF IInv, TypeOK, FailureOK, FailuresReported, RefusalsAreReal, Lawful, DriveCodes, Now

\* A step that changes one request.
Becomes(t, r) == thread' = [thread EXCEPT ![t] = r] /\ UNCHANGED up

LEMMA OneRequest ==
  ASSUME IInv, up, NEW t \in Threads, NEW r, Becomes(t, r), Lawful(r)
  PROVE  IInv'
<1>1. /\ DOMAIN thread' = Threads
      /\ \A u \in Threads : thread'[u] = IF u = t THEN r ELSE thread[u]
  BY InvByRequest DEF Becomes
<1>2. \A u \in Threads : Lawful(thread'[u])
  BY <1>1, InvByRequest
<1>. QED
  BY <1>1, <1>2, InvByRequest DEF Becomes, IInv, TypeOK, FailureOK, FailuresReported, RefusalsAreReal, Lawful, DriveCodes, Now

LEMMA InitInv == Init => IInv
BY DEF Init, IInv, TypeOK, FailureOK, FailuresReported, RefusalsAreReal, Idle, NoError,
       AppError, AppCode, Errors

LEMMA IdleFacts ==
  /\ Idle.stage = 0 /\ Idle.err \in Errors /\ Idle.failure = "none" /\ Idle.errno = 0
  /\ DOMAIN Idle = {"pc", "req", "stage", "err", "template", "args", "what", "failure", "errno"}
BY DEF Idle, NoError, AppError, AppCode, Errors

LEMMA CallStep ==
  ASSUME IInv, NEW t \in Threads, NEW q \in Requests, Call(t, q)
  PROVE  IInv'
<1>1. up /\ UNCHANGED up
  BY DEF Call
<1>2. CASE q \in Stubs \cup HandleStubs
  <2>. DEFINE r == [Idle EXCEPT !.pc = "answered", !.req = q, !.errno = Errno.ENOSYS]
  <2>1. Becomes(t, r)
    BY <1>2 DEF Becomes, Call, Stubs, HandleStubs, Handlers
  <2>2. /\ r.pc = "answered" /\ r.req = q /\ r.errno = Errno.ENOSYS /\ r.failure = "none"
        /\ r.err \in Errors /\ DOMAIN r = DOMAIN Idle
    BY IdleFacts
  <2>. HIDE DEF r
  <2>. QED
    BY <1>1, <2>1, <2>2, OneRequest DEF Lawful, Errno
<1>3. CASE q \in DOMAIN Handlers /\ Handlers[q] = <<>>
  <2>. DEFINE r == [Idle EXCEPT !.pc = "answered", !.req = q]
  <2>1. Becomes(t, r)
    BY <1>3 DEF Becomes, Call, Stubs, HandleStubs, Handlers
  <2>2. /\ r.pc = "answered" /\ r.req = q /\ r.errno = 0 /\ r.failure = "none"
        /\ r.err \in Errors /\ DOMAIN r = DOMAIN Idle
    BY IdleFacts
  <2>. HIDE DEF r
  <2>. QED
    BY <1>1, <2>1, <2>2, OneRequest DEF Lawful
<1>4. CASE q \in DOMAIN Handlers /\ Handlers[q] # <<>>
  <2>. DEFINE r == [Idle EXCEPT !.pc = "running", !.req = q, !.stage = 1]
  <2>1. Becomes(t, r)
    BY <1>4 DEF Becomes, Call, Stubs, HandleStubs, Handlers
  <2>2. 1 \in DOMAIN Handlers[q]
    BY <1>4, HandlerLengths
  <2>3. /\ r.pc = "running" /\ r.req = q /\ r.errno = 0 /\ r.failure = "none" /\ r.stage = 1
        /\ r.err \in Errors /\ DOMAIN r = DOMAIN Idle
    BY IdleFacts
  <2>. HIDE DEF r
  <2>4. Lawful(r)
    BY <1>4, <2>2, <2>3 DEF Lawful
  <2>. QED
    BY <1>1, <2>1, <2>4, OneRequest
<1>. QED
  BY <1>2, <1>3, <1>4 DEF Requests

\* A stage of a handler that runs.
LEMMA RunningFacts ==
  ASSUME IInv, NEW t \in Threads, Running(t)
  PROVE  /\ up /\ Lawful(thread[t]) /\ thread[t].pc = "running"
         /\ thread[t].req \in DOMAIN Handlers
         /\ thread[t].stage \in DOMAIN Handlers[thread[t].req]
         /\ thread[t].failure \in {"none", "unnoticed"}
<1>1. Lawful(thread[t])
  BY InvByRequest
<1>. QED
  BY <1>1 DEF Lawful, Running

\* A stage that returns leaves behind what failed unnoticed, and no more.
LEMMA GoOnStep ==
  ASSUME IInv, NEW t \in Threads, Running(t), NEW failure \in {"none", "unnoticed"},
         GoOn(t, failure)
  PROVE  IInv'
<1>. DEFINE old == thread[t]
            more == [old EXCEPT !.stage = @ + 1, !.failure = failure]
            done == [old EXCEPT !.pc = "answered", !.failure = failure]
<1>1. /\ up /\ Lawful(old) /\ old.pc = "running" /\ old.req \in DOMAIN Handlers
      /\ old.stage \in DOMAIN Handlers[old.req] /\ DOMAIN old = DOMAIN Idle
  BY RunningFacts DEF Lawful
<1>2. old.stage \in 1..Len(Handlers[old.req]) /\ Len(Handlers[old.req]) \in Nat
  BY <1>1, HandlerLengths
<1>3. CASE old.stage < Len(Handlers[old.req])
  <2>1. Becomes(t, more)
    BY <1>1, <1>3 DEF GoOn, Becomes
  <2>2. /\ more.pc = "running" /\ more.req = old.req /\ more.err = old.err
        /\ more.errno = old.errno /\ more.stage = old.stage + 1 /\ more.failure = failure
        /\ DOMAIN more = DOMAIN Idle
    BY <1>1, IdleFacts
  <2>3. old.stage + 1 \in DOMAIN Handlers[old.req]
    BY <1>1, <1>2, <1>3, HandlerLengths
  <2>. HIDE DEF more
  <2>4. Lawful(more)
    BY <1>1, <2>2, <2>3 DEF Lawful
  <2>. HIDE DEF old
  <2>. QED
    BY <1>1, <2>1, <2>4, OneRequest
<1>4. CASE ~(old.stage < Len(Handlers[old.req]))
  <2>1. Becomes(t, done)
    BY <1>1, <1>4 DEF GoOn, Becomes
  <2>2. /\ done.pc = "answered" /\ done.req = old.req /\ done.err = old.err
        /\ done.errno = old.errno /\ done.failure = failure /\ DOMAIN done = DOMAIN Idle
    BY <1>1, IdleFacts
  <2>. HIDE DEF done
  <2>3. Lawful(done)
    BY <1>1, <2>2 DEF Lawful
  <2>. HIDE DEF old
  <2>. QED
    BY <1>1, <2>1, <2>3, OneRequest
<1>. QED
  BY <1>3, <1>4

LEMMA ThrowStep ==
  ASSUME IInv, NEW t \in Threads, Running(t), NEW failure, NEW e \in Errors, NEW template, NEW args,
         Throw(t, failure, e, template, args),
         e.value # 0,
         failure = "drive" /\ e # Foreign => e \in DriveCodes
  PROVE  IInv'
<1>. DEFINE old == thread[t]
            what == CompileMessage(template, args)
            new == [old EXCEPT !.pc = "thrown", !.failure = failure, !.err = e,
                               !.template = template, !.args = args, !.what = what]
<1>1. /\ up /\ Lawful(old) /\ old.req \in DOMAIN Handlers
      /\ old.stage \in DOMAIN Handlers[old.req] /\ DOMAIN old = DOMAIN Idle
  BY RunningFacts DEF Lawful
<1>2. Becomes(t, new)
  BY DEF Throw, Becomes
<1>. HIDE DEF what
<1>3. /\ new.pc = "thrown" /\ new.req = old.req /\ new.err = e /\ new.stage = old.stage
      /\ new.errno = old.errno /\ new.failure = failure /\ DOMAIN new = DOMAIN Idle
  BY <1>1, IdleFacts
<1>. HIDE DEF new
<1>4. Lawful(new)
  BY <1>1, <1>3 DEF Lawful, Now
<1>. HIDE DEF old
<1>. QED
  BY <1>1, <1>2, <1>4, OneRequest

\* An answer with an errno that the failure behind it may have.
LEMMA AnswerStep ==
  ASSUME IInv, up, NEW t \in Threads, NEW n \in Nat, Answer(t, n), UNCHANGED up,
         thread[t].failure \in {"drive", "store", "tree", "text"} => n # 0,
         thread[t].failure = "drive" =>
           n \notin {Errno.EEXIST, Errno.ENOTDIR, Errno.EISDIR, Errno.ENOSYS}
  PROVE  IInv'
<1>. DEFINE old == thread[t]
            new == [old EXCEPT !.pc = "answered", !.errno = n]
<1>1. Lawful(old) /\ DOMAIN old = DOMAIN Idle
  BY InvByRequest DEF Lawful
<1>2. Becomes(t, new)
  BY DEF Answer, Becomes
<1>3. /\ new.pc = "answered" /\ new.req = old.req /\ new.err = old.err
      /\ new.errno = n /\ new.failure = old.failure /\ DOMAIN new = DOMAIN Idle
  BY <1>1, IdleFacts
<1>. HIDE DEF new
<1>4. Lawful(new)
  BY <1>1, <1>3 DEF Lawful
<1>. HIDE DEF old
<1>. QED
  BY <1>1, <1>2, <1>4, OneRequest

LEMMA ForeignIsError == Foreign \in Errors /\ Foreign.value # 0
BY DEF Foreign, Errors

LEMMA SystemErrors ==
  ASSUME NEW n \in Nat \ {0}
  PROVE  SystemError(n) \in Errors /\ SystemError(n).value # 0
BY DEF SystemError, Errors

\* DriveFails: what is an error is thrown with a code of the drive, and what the
\* properties call a failure is an error.
LEMMA DriveFailsStep ==
  ASSUME IInv, NEW t \in Threads, NEW r \in Responses, DriveFails(t, r)
  PROVE  IInv'
<1>. DEFINE e == CheckHttpResponse(r)
<1>1. Running(t) /\ thread[t].failure \in {"none", "unnoticed"}
  BY RunningFacts DEF DriveFails
<1>2. /\ e \in Errors /\ e # Foreign
      /\ IsError(e) => e \in DriveCodes
      /\ Serious(r) => IsError(e)
  BY AnswerCodes DEF DriveCodes
<1>3. CASE IsError(e)
  <2>1. PICK template, args : Throw(t, "drive", e, template, args)
    BY <1>3 DEF DriveFails
  <2>. HIDE DEF e
  <2>. QED
    BY <1>1, <1>2, <1>3, <2>1, ThrowStep DEF IsError
<1>4. CASE ~IsError(e)
  <2>1. GoOn(t, "unnoticed")
    BY <1>2, <1>4 DEF DriveFails
  <2>. QED
    BY <1>1, <2>1, GoOnStep
<1>. QED
  BY <1>3, <1>4

LEMMA BadHashStep ==
  ASSUME IInv, NEW t \in Threads, BadHash(t)
  PROVE  IInv'
<1>1. \E e \in {AppError("MD5Error"), Foreign} : \E template, args :
        Throw(t, "drive", e, template, args)
  BY DEF BadHash
<1>2. PICK e \in {AppError("MD5Error"), Foreign} : \E template, args :
        Throw(t, "drive", e, template, args)
  BY <1>1
<1>3. PICK template, args : Throw(t, "drive", e, template, args)
  BY <1>2
<1>4. AppError("MD5Error") \in DriveCodes
  BY DEF DriveCodes
<1>5. Running(t)
  BY DEF BadHash
<1>6. e \in Errors /\ e.value # 0 /\ (e # Foreign => e \in DriveCodes)
  BY <1>4, DriveCodesApart, ForeignIsError
<1>. QED
  BY <1>3, <1>5, <1>6, ThrowStep

LEMMA StreamBreaksStep ==
  ASSUME IInv, NEW t \in Threads, StreamBreaks(t)
  PROVE  IInv'
<1>1. PICK template, args : Throw(t, "drive", AppError("HttpReadError"), template, args)
  BY BrokenStream DEF StreamBreaks
<1>2. AppError("HttpReadError") \in DriveCodes
  BY DEF DriveCodes
<1>3. Running(t)
  BY DEF StreamBreaks
<1>. QED
  BY <1>1, <1>2, <1>3, DriveCodesApart, ThrowStep

LEMMA DieStep ==
  ASSUME IInv, Die
  PROVE  IInv'
BY IdleFacts DEF Die, IInv, TypeOK, FailureOK, FailuresReported, RefusalsAreReal, Idle

\* The frame of a stage answers an exception by an errno that is not 0, or the
\* process ends.
LEMMA UnwindStep ==
  ASSUME IInv, NEW t \in Threads, Unwind(t)
  PROVE  IInv'
<1>1. up /\ thread[t].pc = "thrown" /\ Lawful(thread[t])
  BY InvByRequest DEF Unwind
<1>2. CASE Now(t).frame # "none" /\ thread[t].err # Foreign
  <2>. DEFINE n == IF Now(t).frame = "getINode" THEN Errno.ENOENT ELSE thread[t].err.value
  <2>1. Answer(t, n) /\ UNCHANGED up
    BY <1>2 DEF Unwind
  <2>2. /\ thread[t].err.value \in Nat \ {0} /\ Errno.ENOENT = 2
        /\ 2 \notin {Errno.EEXIST, Errno.ENOTDIR, Errno.EISDIR, Errno.ENOSYS}
    BY <1>1 DEF Lawful, Errors, Errno
  <2>3. thread[t].failure = "drive" =>
          thread[t].err.value \notin {Errno.EEXIST, Errno.ENOTDIR, Errno.EISDIR, Errno.ENOSYS}
    BY <1>1, <1>2, DriveCodesApart DEF Lawful
  <2>4. n \in Nat /\ n # 0
    BY <2>2
  <2>5. thread[t].failure = "drive" =>
          n \notin {Errno.EEXIST, Errno.ENOTDIR, Errno.EISDIR, Errno.ENOSYS}
    BY <2>2, <2>3
  <2>. HIDE DEF n
  <2>. QED
    BY <1>1, <2>1, <2>4, <2>5, AnswerStep
<1>3. CASE ~(Now(t).frame # "none" /\ thread[t].err # Foreign)
  BY <1>3, DieStep DEF Unwind
<1>. QED
  BY <1>2, <1>3

LEMMA StepInv ==
  ASSUME IInv, [Next]_vars
  PROVE  IInv'
<1>1. ASSUME NEW t \in Threads, NEW q \in Requests, Call(t, q)
      PROVE  IInv'
  BY <1>1, CallStep
<1>2. ASSUME NEW t \in Threads, Succeed(t)
      PROVE  IInv'
  BY <1>2, RunningFacts, GoOnStep DEF Succeed
<1>3. ASSUME NEW t \in Threads, NEW x \in DOMAIN Errno, Refuse(t, Errno[x])
      PROVE  IInv'
  <2>1. Running(t) /\ up /\ thread[t].failure \in {"none", "unnoticed"}
    BY <1>3, RunningFacts DEF Refuse
  <2>2. Errno[x] \in Nat
    BY DEF Errno
  <2>. QED
    BY <1>3, <2>1, <2>2, AnswerStep DEF Refuse
<1>4. ASSUME NEW t \in Threads, NEW r \in Responses, DriveFails(t, r)
      PROVE  IInv'
  BY <1>4, DriveFailsStep
<1>5. ASSUME NEW t \in Threads, BadHash(t) \/ StreamBreaks(t)
      PROVE  IInv'
  BY <1>5, BadHashStep, StreamBreaksStep
<1>6. ASSUME NEW t \in Threads, StoreFails(t)
      PROVE  IInv'
  <2>1. PICK n \in DiskErrors : \E template, args :
                Throw(t, "store", SystemError(n), template, args)
    BY <1>6 DEF StoreFails
  <2>2. SystemError(n) \in Errors /\ SystemError(n).value # 0
    BY DiskErrorsAssumption, SystemErrors
  <2>. QED
    BY <1>6, <2>1, <2>2, ThrowStep DEF StoreFails
<1>7. ASSUME NEW t \in Threads, DirectoriesFail(t) \/ ReadBehindText(t)
      PROVE  IInv'
  BY <1>7, ForeignIsError, ThrowStep DEF DirectoriesFail, ReadBehindText
<1>8. ASSUME NEW t \in Threads, NEW n \in {Errno.ENOENT, Errno.EPERM}, TreeThrows(t, n)
      PROVE  IInv'
  <2>1. PICK template, args : Throw(t, "tree", SystemError(n), template, args)
    BY <1>8 DEF TreeThrows
  <2>2. SystemError(n) \in Errors /\ SystemError(n).value # 0
    BY SystemErrors DEF Errno
  <2>. QED
    BY <1>8, <2>1, <2>2, ThrowStep DEF TreeThrows
<1>9. ASSUME NEW t \in Threads, PreadFails(t)
      PROVE  IInv'
  BY <1>9, GoOnStep DEF PreadFails
<1>10. ASSUME NEW t \in Threads, Unwind(t) \/ NoParent(t)
       PROVE  IInv'
  BY <1>10, UnwindStep, DieStep DEF NoParent
<1>11. ASSUME NEW t \in Threads, Return(t)
       PROVE  IInv'
  <2>1. Becomes(t, Idle) /\ up
    BY <1>11 DEF Return, Becomes
  <2>2. Lawful(Idle)
    BY IdleFacts DEF Lawful, Idle
  <2>. QED
    BY <2>1, <2>2, OneRequest
<1>12. CASE Restart
  BY <1>12 DEF Restart, IInv, TypeOK, FailureOK, FailuresReported, RefusalsAreReal, Now
<1>13. CASE UNCHANGED vars
  BY <1>13 DEF vars, IInv, TypeOK, FailureOK, FailuresReported, RefusalsAreReal, Now
<1>. QED
  BY <1>1, <1>2, <1>3, <1>4, <1>5, <1>6, <1>7, <1>8, <1>9, <1>10, <1>11, <1>12, <1>13
     DEF Next, Step

-----------------------------------------------------------------------------
(* The theorems. *)

LEMMA Invariance == Spec => []IInv
<1>1. Init => IInv
  BY InitInv
<1>2. IInv /\ [Next]_vars => IInv'
  BY StepInv
<1>. QED
  BY <1>1, <1>2, PTL DEF Spec

\* Every request is in a stage its handler has, with a code and an errno; when
\* the daemon is down, no thread has one.
THEOREM FailuresTypes == Spec => []TypeOK
<1>1. IInv => TypeOK
  BY DEF IInv
<1>. QED
  BY <1>1, Invariance, PTL

\* No failure of the drive, the store, the tree or a property is answered as a
\* success, in whatever handler and through whatever frame (FuseGate).
THEOREM NoFailureIsSuccess == Spec => []FailuresReported
<1>1. IInv => FailuresReported
  BY DEF IInv
<1>. QED
  BY <1>1, Invariance, PTL

\* A failure of the drive is never answered as EEXIST, ENOTDIR, EISDIR or ENOSYS:
\* those numbers are the tree's and the stubs' own (appError.h).
THEOREM RefusalsAreTheTrees == Spec => []RefusalsAreReal
<1>1. IInv => RefusalsAreReal
  BY DEF IInv
<1>. QED
  BY <1>1, Invariance, PTL
=============================================================================
