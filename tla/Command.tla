------------------------------ MODULE Command ------------------------------
(***************************************************************************)
(* One run of webcb copy, paste, status or clear: command/copy.go,         *)
(* paste.go, status.go, clear.go and command.go, with the goroutine that   *)
(* makes the call (client/client.go), the connection, the deadline,        *)
(* Ctrl-C, the user at the terminal and the output file.                   *)
(*                                                                         *)
(* What the calls transfer is the subject of module Transfer: here a copy  *)
(* reads its input in one piece, and a paste receives Total chunks and     *)
(* perhaps a checksum.                                                     *)
(***************************************************************************)
EXTENDS Integers, Sequences, Tls

CONSTANTS
  Options,      (* Command lines, and what a paste finds.                  *)
  Total,        (* Chunks in the clipboard.                                *)
  Old,          (* What the output file holds before, a sequence.          *)
  ServerPeer    (* The server's TLS configuration.                         *)

(* timeout: --timeout is given; out: stdout, file, or both --file and
   --discard; secret: none, env (WEBCB_SECRET) or tty; sum: the clipboard a
   paste finds has a checksum.                                             *)
ASSUME OptionsAssumption ==
  /\ \A o \in Options : /\ o.cmd \in {"copy", "paste", "status", "clear"}
                        /\ o.timeout \in BOOLEAN
                        /\ o.out \in {"stdout", "file", "discard"}
                        /\ o.secret \in {"none", "env", "tty"}
                        /\ o.sum \in BOOLEAN
                        /\ o.peer \in Peers
  /\ Total \in Nat

VARIABLES
  opt,        (* The command line.                                         *)
  main,       (* Where the main goroutine stands.                          *)
  exit,       (* none, success, failure (status 1) or killed (by a signal).*)
  sig,        (* A signal waits in the channel.                            *)
  worker,     (* Where the goroutine of the call stands.                   *)
  res,        (* Its result: none, ok or error.                            *)
  timer,      (* --timeout: none, running or passed.                       *)
  ctx,        (* The context of the call: none, live or done.              *)
  conn,       (* The connection: none, connecting, ready or failed.        *)
  rpc,        (* The call: none, open, ok or error.                        *)
  late,       (* A part of its answer came after --timeout.                *)
  sent,       (* The input has been sent to its end.                       *)
  avail,      (* Messages received after the header; -1 before it.         *)
  got,        (* Chunks written to the output.                             *)
  file        (* The content of the output file.                           *)

mainVars == <<opt, main, exit, sig>>
workVars == <<worker, res, sent, got, file>>
netVars  == <<conn, rpc, late, avail>>
timeVars == <<timer, ctx>>
vars == <<mainVars, workVars, netVars, timeVars>>

Streams == opt.cmd \in {"copy", "paste"}

(* A paste that ends with a checksum, and the messages after its header.   *)
Summed == opt.cmd = "paste" /\ opt.sum
Last   == IF Summed THEN Total + 1 ELSE Total

-----------------------------------------------------------------------------
(* The main goroutine                                                      *)

(* run returns code: the deferred cancel ends the call's context, and the
   process goes on until os.Exit.                                          *)
ReturnWith(code) ==
  /\ main' = "return"
  /\ exit' = code
  /\ ctx' = IF ctx = "live" THEN "done" ELSE ctx

(* The transfer rate is not a size; the files are not given, cannot be read
   or hold no certificate.                                                 *)
ParseFlags ==
  /\ main = "flags"
  /\ \/ Streams /\ ReturnWith("failure")
     \/ /\ ~opt.peer.dev /\ ~(FilesRead(opt.peer) /\ LoadCertificate(opt.peer))
        /\ ReturnWith("failure")
     \/ /\ opt.peer.dev \/ (FilesRead(opt.peer) /\ LoadCertificate(opt.peer))
        /\ main' = "dial" /\ UNCHANGED <<exit, ctx>>
  /\ UNCHANGED <<opt, sig, workVars, netVars, timer>>

(* Mutant of Dial: the copy or paste runs without the deadline.            *)
DialNoDeadline ==
  /\ main = "dial"
  /\ \/ ReturnWith("failure") /\ UNCHANGED <<conn, timer>>
     \/ /\ conn' = "connecting"
        /\ timer' = IF opt.timeout THEN "running" ELSE "none"
        /\ ctx' = "none"
        /\ main' = IF Streams THEN "output" ELSE "call"
        /\ UNCHANGED exit
  /\ UNCHANGED <<opt, sig, workVars, rpc, late, avail>>

(* grpc.DialContext, without WithBlock, returns at once and connects in the
   background, so that the context with --conn-timeout limits nothing.  Then
   the context of the call is made; status and clear call with
   context.Background().  An address it cannot use is an error at once.    *)
Dial ==
  /\ main = "dial"
  /\ \/ ReturnWith("failure") /\ UNCHANGED <<conn, timer>>
     \/ /\ conn' = "connecting"
        /\ timer' = IF opt.timeout THEN "running" ELSE "none"
        /\ ctx' = IF Streams THEN "live" ELSE "none"
        /\ main' = IF Streams THEN "output" ELSE "call"
        /\ UNCHANGED exit
  /\ UNCHANGED <<opt, sig, workVars, rpc, late, avail>>

(* Mutant of OpenOutput: the file is opened without O_TRUNC.               *)
OpenOutputKeep ==
  /\ main = "output"
  /\ \/ /\ opt.out # "stdout" /\ ReturnWith("failure")
        /\ UNCHANGED <<worker, file>>
     \/ /\ main' = "select" /\ worker' = "call"
        /\ UNCHANGED <<exit, ctx, file>>
  /\ UNCHANGED <<opt, sig, res, sent, got, netVars, timer>>

(* os.Create of --file truncates it, also when --discard is given; it may
   fail.  Then signal.Notify, and the goroutine is started.                *)
OpenOutput ==
  /\ main = "output"
  /\ \/ /\ opt.out # "stdout" /\ ReturnWith("failure")
        /\ UNCHANGED <<worker, file>>
     \/ /\ main' = "select" /\ worker' = "call"
        /\ file' = IF opt.out = "stdout" THEN file ELSE <<>>
        /\ UNCHANGED <<exit, ctx>>
  /\ UNCHANGED <<opt, sig, res, sent, got, netVars, timer>>

(* Mutant of SelectSignal: run waits for the goroutine before it returns.  *)
SelectSignalWait ==
  /\ main = "select" /\ sig /\ worker = "result"
  /\ sig' = FALSE
  /\ ReturnWith("failure")
  /\ UNCHANGED <<opt, workVars, netVars, timer>>

(* The select: a signal ...                                                *)
SelectSignal ==
  /\ main = "select" /\ sig
  /\ sig' = FALSE
  /\ ReturnWith("failure")
  /\ UNCHANGED <<opt, workVars, netVars, timer>>

(* Mutant of SelectResult: an error is printed only.                       *)
SelectResultIgnored ==
  /\ main = "select" /\ worker = "result"
  /\ worker' = "done"
  /\ IF opt.cmd = "copy" THEN ReturnWith("success")
     ELSE main' = "notify" /\ UNCHANGED <<exit, ctx>>
  /\ UNCHANGED <<opt, sig, res, sent, got, file, netVars, timer>>

(* ... or the result; paste then notifies the desktop.                     *)
SelectResult ==
  /\ main = "select" /\ worker = "result"
  /\ worker' = "done"
  /\ CASE res = "error" -> ReturnWith("failure")
       [] res = "ok" /\ opt.cmd = "copy" -> ReturnWith("success")
       [] res = "ok" /\ opt.cmd = "paste" ->
            main' = "notify" /\ UNCHANGED <<exit, ctx>>
  /\ UNCHANGED <<opt, sig, res, sent, got, file, netVars, timer>>

(* The result of beeep.Notify is that of the command.                      *)
Notify ==
  /\ main = "notify"
  /\ \E code \in {"success", "failure"} : ReturnWith(code)
  /\ UNCHANGED <<opt, sig, workVars, netVars, timer>>

(* Client.Status and Client.Clear, in the main goroutine.                  *)
UnaryCall ==
  /\ main = "call"
  /\ \/ /\ conn = "ready"
        /\ rpc' = "open" /\ main' = "wait" /\ UNCHANGED <<exit, ctx>>
     \/ conn = "failed" /\ ReturnWith("failure") /\ UNCHANGED rpc
  /\ UNCHANGED <<opt, sig, workVars, conn, late, avail, timer>>

UnaryReturn ==
  /\ main = "wait" /\ rpc # "open"
  /\ ReturnWith(IF rpc = "ok" THEN "success" ELSE "failure")
  /\ UNCHANGED <<opt, sig, workVars, netVars, timer>>

(* os.Exit: the goroutine and the connection end with the process.         *)
Exit ==
  /\ main = "return"
  /\ main' = "exited"
  /\ rpc' = IF rpc = "open" THEN "error" ELSE rpc
  /\ UNCHANGED <<opt, exit, sig, workVars, conn, late, avail,
                 timeVars>>

Main == \/ ParseFlags \/ Dial \/ OpenOutput \/ SelectSignal \/ SelectResult
        \/ Notify \/ UnaryCall \/ UnaryReturn \/ Exit

-----------------------------------------------------------------------------
(* The goroutine of the call                                               *)

Finish(r) == worker' = "result" /\ res' = r

(* Mutant of StartCall: the call waits for the connection without its
   context.                                                                *)
StartCallPatient ==
  /\ worker = "call"
  /\ \/ /\ conn = "ready" /\ ctx # "done"
        /\ rpc' = "open"
        /\ worker' = CASE opt.cmd = "paste" -> "header"
                       [] opt.cmd = "copy" /\ opt.secret = "none" -> "input"
                       [] opt.cmd = "copy" /\ opt.secret # "none" -> "secret"
        /\ UNCHANGED res
     \/ /\ conn = "failed"
        /\ Finish("error") /\ UNCHANGED rpc
  /\ UNCHANGED <<sent, got, file>>

(* A call waits for the connection, fails with it, or with its context.    *)
StartCall ==
  /\ worker = "call"
  /\ \/ /\ conn = "ready" /\ ctx # "done"
        /\ rpc' = "open"
        /\ worker' = CASE opt.cmd = "paste" -> "header"
                       [] opt.cmd = "copy" /\ opt.secret = "none" -> "input"
                       [] opt.cmd = "copy" /\ opt.secret # "none" -> "secret"
        /\ UNCHANGED res
     \/ /\ conn = "failed" \/ ctx = "done"
        /\ Finish("error") /\ UNCHANGED rpc
  /\ UNCHANGED <<sent, got, file>>

(* The first message of a paste tells whether a password is needed, or is an
   error.                                                                  *)
PasteHeader ==
  /\ worker = "header" /\ avail >= 0
  /\ \/ /\ worker' = IF opt.secret = "none" THEN "stream" ELSE "secret"
        /\ UNCHANGED res
     \/ Finish("error")
  /\ UNCHANGED <<rpc, sent, got, file>>

AfterSecret == worker' = IF opt.cmd = "copy" THEN "input" ELSE "stream"

(* readSecret takes the password from the environment ...                  *)
SecretEnv ==
  /\ worker = "secret" /\ opt.secret = "env"
  /\ AfterSecret
  /\ UNCHANGED <<res, rpc, sent, got, file>>

(* ... or asks at the terminal, whatever becomes of the call meanwhile.    *)
SecretTyped ==
  /\ worker = "secret" /\ opt.secret = "tty"
  /\ \/ AfterSecret /\ UNCHANGED res
     \/ Finish("error")
  /\ UNCHANGED <<rpc, sent, got, file>>

(* The input of a copy ends, or cannot be read; writing it fails when the
   call has failed meanwhile.                                              *)
InputEnds ==
  /\ worker = "input"
  /\ \/ rpc = "open" /\ sent' = TRUE /\ worker' = "reply" /\ UNCHANGED res
     \/ Finish("error") /\ UNCHANGED sent
  /\ UNCHANGED <<rpc, got, file>>

(* The checksum message is the end of a paste that has one, whatever becomes
   of the call; the digests are compared.                                  *)
SumEnds ==
  /\ worker = "stream" /\ Summed
  /\ got = Total /\ avail = Last
  /\ \E r \in {"ok", "error"} : Finish(r)
  /\ UNCHANGED <<rpc, sent, got, file>>

(* CloseAndRecv, or a Recv, reports the end of the call; of its context also
   while messages wait to be received.                                     *)
CallEnds ==
  /\ \/ /\ rpc = "ok"
        /\ worker = "reply" \/ (worker = "stream" /\ ~Summed /\ got = Total)
        /\ Finish("ok")
     \/ /\ rpc = "error" \/ ctx = "done"
        /\ worker \in {"header", "stream", "reply"}
        /\ Finish("error")
  /\ UNCHANGED <<rpc, sent, got, file>>

(* A chunk is written where the last one ended, or the output fails.       *)
WriteChunk ==
  /\ worker = "stream" /\ got < avail /\ got < Total
  /\ \/ /\ got' = got + 1
        /\ file' = IF opt.out # "file" THEN file
                   ELSE [i \in 1..(IF got < Len(file) THEN Len(file) ELSE got + 1)
                           |-> IF i = got + 1 THEN <<"new", i>> ELSE file[i]]
        /\ UNCHANGED <<worker, res>>
     \/ Finish("error") /\ UNCHANGED <<got, file>>
  /\ UNCHANGED <<rpc, sent>>

Worker ==
  /\ main # "exited"
  /\ StartCall \/ PasteHeader \/ SecretEnv \/ SumEnds \/ CallEnds
  /\ UNCHANGED <<mainVars, conn, late, avail, timeVars>>

(* The steps that wait for the user.                                       *)
User ==
  /\ main # "exited"
  /\ SecretTyped \/ InputEnds \/ WriteChunk
  /\ UNCHANGED <<mainVars, conn, late, avail, timeVars>>

-----------------------------------------------------------------------------
(* Time, signals, the connection and the server                            *)

(* The deadline of the call's context, if it has one.                      *)
Timeout ==
  /\ timer = "running" /\ main # "exited"
  /\ timer' = "passed"
  /\ ctx' = IF ctx = "live" THEN "done" ELSE ctx
  /\ rpc' = IF ctx = "live" /\ rpc = "open" THEN "error" ELSE rpc
  /\ UNCHANGED <<mainVars, workVars, conn, late, avail>>

(* Ctrl-C: into the channel once signal.Notify has been called, the end of
   the process before that and in status and clear.                        *)
Interrupt ==
  /\ main # "exited" /\ ~sig
  /\ IF worker # "none"
       THEN sig' = TRUE /\ UNCHANGED <<main, exit, rpc>>
       ELSE /\ main' = "exited" /\ exit' = "killed"
            /\ rpc' = IF rpc = "open" THEN "error" ELSE rpc
            /\ UNCHANGED sig
  /\ UNCHANGED <<opt, workVars, conn, late, avail, timeVars>>

(* External, grpc-go: the attempt to connect succeeds, or fails and is
   repeated.                                                               *)
Connect ==
  /\ conn \in {"connecting", "failed"} /\ main # "exited"
  /\ \/ /\ Handshake(opt.peer, ServerPeer)
        /\ conn' = "ready"
     \/ conn' = "failed"
  /\ UNCHANGED <<mainVars, workVars, rpc, late, avail, timeVars>>

(* The server sends the header, the chunks and the checksum of a paste; what
   comes after the context is done is not looked at.                       *)
ServerSends ==
  /\ rpc = "open" /\ opt.cmd = "paste" /\ avail < Last
  /\ ctx # "done"
  /\ avail' = avail + 1
  /\ late' = (timer = "passed")
  /\ UNCHANGED <<mainVars, workVars, conn, rpc, timeVars>>

(* It ends the call, well or not; again not after the context is done.     *)
ServerEnds ==
  /\ rpc = "open"
  /\ \/ /\ ctx # "done"
        /\ opt.cmd = "copy" => sent
        /\ opt.cmd = "paste" => avail = Last
        /\ rpc' = "ok" /\ late' = (timer = "passed")
     \/ rpc' = "error" /\ UNCHANGED late
  /\ UNCHANGED <<mainVars, workVars, conn, avail, timeVars>>

-----------------------------------------------------------------------------
Init ==
  /\ opt \in Options
  /\ main = "flags" /\ exit = "none" /\ sig = FALSE
  /\ worker = "none" /\ res = "none" /\ sent = FALSE /\ got = 0 /\ file = Old
  /\ conn = "none"
  /\ rpc = "none" /\ late = FALSE /\ avail = -1
  /\ timer = "none" /\ ctx = "none"

Next == \/ Main \/ Worker \/ User
        \/ Timeout \/ Interrupt
        \/ Connect \/ ServerSends \/ ServerEnds

Spec == Init /\ [][Next]_vars

(* The program's goroutines run and time passes; the network, the server and
   the user may be silent for ever.                                        *)
FairSpec == Spec /\ WF_vars(Main) /\ WF_vars(Worker) /\ WF_vars(Timeout)

-----------------------------------------------------------------------------
(* Properties                                                              *)

(* Exit status 0 means done: the server has accepted the whole input of a
   copy, or all chunks of a paste are in the output and nothing else is in
   the file.  The server has said so by the status of the call, or by the
   checksum of a paste, after which the call may still break.              *)
ExitTrue ==
  exit = "success" =>
    /\ IF Summed THEN avail = Last ELSE rpc = "ok"
    /\ opt.cmd = "copy" => sent
    /\ opt.cmd = "paste" => got = Total
    /\ (opt.cmd = "paste" /\ opt.out = "file") =>
         file = [i \in 1..Total |-> <<"new", i>>]

(* However a paste ends, by an error, a signal between two writes or not at
   all, the file holds its old content or the beginning of the new one: the
   end of a longer old file never follows what was pasted.                 *)
FileSane ==
  file = Old \/ (got >= Len(file) /\ \A i \in DOMAIN file : file[i] = <<"new", i>>)

(* --timeout, "timeout after which the copy request is considered to have
   failed", and likewise of paste: neither succeeds by an answer that came
   later, although it races the deadline.  (Status never reads its flag.)  *)
TimeoutFails == Streams /\ exit = "success" => ~late

(* Ctrl-C ends a copy or a paste, whatever its goroutine is blocked on: the
   connection, the server, the password, the input or the output.          *)
SignalEnds == sig ~> main = "exited"

(* The user types the password, the input ends and the output is read.     *)
UserKeepsUp == WF_vars(User)

(* Once --timeout has passed a copy or a paste ends, although the server and
   the network are silent, as soon as the user has done his part.          *)
TimeoutEnds ==
  UserKeepsUp => ((Streams /\ timer = "passed") ~> main = "exited")
=============================================================================
