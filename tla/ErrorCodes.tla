----------------------------- MODULE ErrorCodes -----------------------------
(***************************************************************************)
(* The error codes of gd2fuse, how an answer of the drive becomes one, and *)
(* the message that an exception carries.                                  *)
(*                                                                         *)
(* A code is a number in a category, as in boost::system: "app" for the    *)
(* enumerators of G2FErrorCodes, "system" for an errno.  What leaves the   *)
(* program is the number alone.                                            *)
(***************************************************************************)
EXTENDS Naturals, Sequences, SequencesExt

AppCode ==
  [Success |-> 0, WrongAppArguments |-> 1, HttpReadError |-> 2,
   HttpTransportError |-> 3, InternalError |-> 4, HttpClientError |-> 5,
   HttpServerError |-> 6, HttpPermissionError |-> 7, HttpTimeoutError |-> 8,
   NotImplemented |-> 9, NotSupported |-> 10, CouldntDetermineProvider |-> 11,
   PropertyNotFound |-> 12, BadFileOperation |-> 13, ErrorModifyConfFile |-> 14,
   UnknownEnvVariable |-> 15, PathError |-> 16, AuthenticationFailed |-> 17,
   MD5Error |-> 18]

\* Linux's numbers.
Errno ==
  [EPERM |-> 1, ENOENT |-> 2, EIO |-> 5, ENOMEM |-> 12, EACCES |-> 13,
   EFAULT |-> 14, EEXIST |-> 17, ENOTDIR |-> 20, EISDIR |-> 21, EINVAL |-> 22,
   EFBIG |-> 27, ENOSPC |-> 28, ENOSYS |-> 38, ENOTSUP |-> 95, ETIMEDOUT |-> 110]

AppError(name) == [cat |-> "app", value |-> AppCode[name]]
SystemError(n) == [cat |-> "system", value |-> n]

IsError(e) == e.value # 0

\* The POSIX condition that a code of the program is equivalent to; codes that
\* are left out have none.
Condition ==
  [Success |-> 0, PathError |-> Errno.EFAULT,
   PropertyNotFound |-> Errno.EINVAL, CouldntDetermineProvider |-> Errno.EINVAL,
   WrongAppArguments |-> Errno.EINVAL,
   ErrorModifyConfFile |-> Errno.EIO, BadFileOperation |-> Errno.EIO,
   HttpReadError |-> Errno.EIO, HttpTransportError |-> Errno.EIO,
   HttpClientError |-> Errno.EIO, HttpServerError |-> Errno.EIO,
   AuthenticationFailed |-> Errno.EACCES, HttpPermissionError |-> Errno.EACCES,
   HttpTimeoutError |-> Errno.ETIMEDOUT,
   NotSupported |-> Errno.ENOTSUP, NotImplemented |-> Errno.ENOTSUP]

Equivalent(e, n) ==
  IF e.cat = "app"
  THEN \E c \in DOMAIN Condition : AppCode[c] = e.value /\ Condition[c] = n
  ELSE e.value = n

-----------------------------------------------------------------------------
(* Answers of the drive: whether there was one, its HTTP status, and whether *)
(* its body can be read from the start again.                                *)

ByStatus_Behind400(s) ==
  CASE s > 400 /\ s < 500 -> "HttpClientError"
    [] s \in 500..599 -> "HttpServerError"
    [] OTHER          -> "Success"

ByStatus_Unauthorized(s) ==
  CASE s = 401           -> "AuthenticationFailed"
    [] s \in 400..499 \ {401} -> "HttpClientError"
    [] s \in 500..599 -> "HttpServerError"
    [] OTHER          -> "Success"

\* HttpPermissionError (401 to 403) and HttpTimeoutError (408) are asked for
\* only of a status that is not between 400 and 499.
ByStatus(s) ==
  CASE s \in 400..499 -> "HttpClientError"
    [] s \in 500..599 -> "HttpServerError"
    [] OTHER          -> "Success"

CheckHttpResponse(r) ==
  AppError(CASE ~r.answered          -> "HttpTransportError"
             [] r.answered /\ r.status \in 200..299 -> "Success"
             [] r.answered /\ r.status \notin 200..299 /\ ~r.rewinds -> "InternalError"
             [] OTHER                -> ByStatus(r.status))

-----------------------------------------------------------------------------
(* Messages are sequences of characters; "%1", "%2" and so on, a % with all *)
(* the digits behind it, is one of them.                                    *)

Placeholder == [x \in {"%1", "%2", "%3"} |->
                  CASE x = "%1" -> 1 [] x = "%2" -> 2 [] x = "%3" -> 3]

Control == [x \in {"{", "}", "|"} |->
              CASE x = "{" -> "Open" [] x = "}" -> "Close" [] x = "|" -> "NextBlock"]

\* What _readNext says of the i-th character: it is a control only as the last
\* one, or in front of another control character that differs from it.
Token(msg, i) ==
  IF /\ msg[i] \in DOMAIN Control
     /\ i < Len(msg) => msg[i + 1] \in DOMAIN Control \ {msg[i]}
  THEN Control[msg[i]] ELSE "Symbol"

\* The last argument does not count as given.
IsAcceptBlock(block, args) ==
  \A i \in DOMAIN block : block[i] \in DOMAIN Placeholder => Placeholder[block[i]] < Len(args)

Substitute(text, args) ==
  FlattenSeq([i \in DOMAIN text |->
                IF text[i] \in DOMAIN Placeholder THEN args[Placeholder[text[i]]]
                                                  ELSE <<text[i]>>])

\* The state machine over the tokens of a message: outside of a {..|..} block,
\* inside, or behind its first accepted part.
ReadToken(msg, args, s, i) ==
  LET token == Token(msg, i) IN
  CASE s.state = "out" /\ token # "Open" -> [s EXCEPT !.ret = Append(@, msg[i])]
    [] s.state = "out" /\ token = "Open" -> [s EXCEPT !.state = "inside"]
    [] s.state = "inside" /\ token \notin {"NextBlock", "Close"} ->
         [s EXCEPT !.block = Append(@, msg[i])]
    [] s.state = "inside" /\ token \in {"NextBlock", "Close"} ->
         [ret   |-> IF IsAcceptBlock(s.block, args) THEN s.ret \o s.block ELSE s.ret,
          block |-> <<>>,
          state |-> IF token = "Close" THEN "out"
                    ELSE IF IsAcceptBlock(s.block, args) THEN "skip" ELSE "inside"]
    [] s.state = "skip" -> [s EXCEPT !.state = IF token = "Close" THEN "out" ELSE @]

CompileMessage_ArgsFirst(message, args) ==
  LET msg == Substitute(message, args) IN
  FoldLeftDomain(LAMBDA s, i : ReadToken(msg, args, s, i),
                 [ret |-> <<>>, block |-> <<>>, state |-> "out"], msg).ret

CompileMessage(message, args) ==
  Substitute(FoldLeftDomain(LAMBDA s, i : ReadToken(message, args, s, i),
                            [ret |-> <<>>, block |-> <<>>, state |-> "out"], message).ret,
             args)
=============================================================================
