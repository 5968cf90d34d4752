--------------------------- MODULE CommandProofs ---------------------------
(***************************************************************************)
(* That the exit status and the output file of a command tell the truth,   *)
(* for every set of command lines, every size of the clipboard, every old  *)
(* content of the file and every configuration of the server.              *)
(***************************************************************************)
EXTENDS Command, TLAPS

Ready == {"flags", "dial"}
Over  == {"return", "exited"}

(* Where the main goroutine and the goroutine of the call can be together,
   and when a call has not been made yet.                                  *)
Places ==
  /\ opt \in Options
  /\ main \in Ready \union Over
       \union (IF Streams THEN {"output", "select", "notify"}
               ELSE {"call", "wait"})
  /\ worker # "none" => Streams /\ main \in {"select", "notify"} \union Over
  /\ main \in {"select", "notify"} => worker # "none"
  /\ worker \in {"input", "reply"} => opt.cmd = "copy"
  /\ Streams /\ worker \in {"none", "call"} => rpc = "none"
  /\ ~Streams /\ main \in Ready \union {"call"} => rpc = "none"

(* How much has been received and written, and what the server has seen of
   the call when it ends it well.                                          *)
Progress ==
  /\ got \in Nat /\ avail \in Int
  /\ got <= Total /\ avail <= Last
  /\ rpc = "ok" => /\ opt.cmd = "copy" => sent
                   /\ opt.cmd = "paste" => avail = Last

(* The output file before it is opened, and once it has been truncated.    *)
Output ==
  /\ worker = "none" => file = Old /\ got = 0
  /\ worker # "none" /\ opt.out = "stdout" => file = Old
  /\ worker # "none" /\ opt.out = "discard" => file = <<>>
  /\ worker # "none" /\ opt.out = "file" =>
       file = [i \in 1..got |-> <<"new", i>>]

(* What tells the client that the server has done everything: the checksum
   of a paste that has one, else the status of the call.                   *)
Answered == IF Summed THEN avail = Last ELSE rpc = "ok"

(* The result of the goroutine, and what run makes of it.                  *)
Outcome ==
  /\ worker = "result" => res \in {"ok", "error"}
  /\ res = "ok" => /\ worker \in {"result", "done"}
                   /\ Answered
                   /\ opt.cmd = "paste" => got = Total
  /\ main = "notify" => res = "ok"
  /\ exit = "success" => /\ main \in Over
                         /\ Answered
                         /\ Streams => res = "ok"

(* The context of a copy or a paste is done when its deadline has passed.  *)
Deadline ==
  Streams => /\ timer = "running" => ctx \in {"live", "done"}
             /\ timer = "passed" => ctx = "done"
             /\ ~late

CommandInv == Places /\ Progress /\ Output /\ Outcome /\ Deadline

-----------------------------------------------------------------------------
(* The command line is one the flags can express.                          *)
LEMMA OptFacts ==
  ASSUME opt \in Options
  PROVE  /\ opt.cmd \in {"copy", "paste", "status", "clear"}
         /\ opt.out \in {"stdout", "file", "discard"}
         /\ opt.secret \in {"none", "env", "tty"}
         /\ Total \in Nat /\ Last \in Nat
BY OptionsAssumption DEF Last

(* A file of n pasted chunks has n elements, the i-th of them chunk i.     *)
LEMMA PastedFile ==
  ASSUME NEW n \in Nat, NEW f, f = [i \in 1..n |-> <<"new", i>>]
  PROVE  /\ Len(f) = n
         /\ DOMAIN f = 1..n
         /\ \A i \in 1..n : f[i] = <<"new", i>>
<1>1. DOMAIN f = 1..n /\ \A i \in 1..n : f[i] = <<"new", i>>
  OBVIOUS
<1>2. f \in Seq({"new"} \X Nat)
  <2>1. f \in [1..n -> {"new"} \X Nat]
    OBVIOUS
  <2> QED BY <2>1
<1>3. Len(f) = n
  BY <1>1, <1>2
<1> QED BY <1>1, <1>3

(* Nothing has happened when the program starts.                           *)
LEMMA InitCommand == Init => CommandInv
<1> SUFFICES ASSUME Init PROVE CommandInv
  OBVIOUS
<1>1. Places
  BY DEF Init, Places, Ready
<1>2. Progress
  BY OptFacts DEF Init, Progress
<1>3. Output /\ Outcome /\ Deadline
  BY DEF Init, Output, Outcome, Deadline
<1> QED BY <1>1, <1>2, <1>3 DEF CommandInv

(* The steps of run up to the start of the goroutine keep the invariant:
   the file is truncated before the goroutine can write to it.             *)
LEMMA SetupCommand ==
  CommandInv /\ (ParseFlags \/ Dial \/ OpenOutput) => CommandInv'
<1> SUFFICES ASSUME CommandInv, ParseFlags \/ Dial \/ OpenOutput
             PROVE  CommandInv'
  OBVIOUS
<1> USE DEF Ready, Over, Streams, Summed, Last, Answered, ReturnWith, workVars, netVars
<1>1. CASE ParseFlags
  <2>1. Places' /\ Outcome'
    BY <1>1 DEF CommandInv, Places, Outcome, ParseFlags
  <2>2. Progress' /\ Output' /\ Deadline'
    BY <1>1 DEF CommandInv, Progress, Output, Deadline, ParseFlags
  <2> QED BY <2>1, <2>2 DEF CommandInv
<1>2. CASE Dial
  <2>1. Places' /\ Outcome'
    BY <1>2 DEF CommandInv, Places, Outcome, Dial
  <2>2. Progress' /\ Output' /\ Deadline'
    BY <1>2 DEF CommandInv, Progress, Output, Deadline, Dial
  <2> QED BY <2>1, <2>2 DEF CommandInv
<1>3. CASE OpenOutput
  <2>1. Places' /\ Outcome'
    BY <1>3 DEF CommandInv, Places, Outcome, OpenOutput
  <2>2. Progress' /\ Deadline'
    BY <1>3 DEF CommandInv, Progress, Deadline, OpenOutput
  <2>3. got = 0 /\ file = Old /\ got' = got /\ opt' = opt
    BY <1>3 DEF CommandInv, Places, Output, OpenOutput
  <2>4. [i \in 1..0 |-> <<"new", i>>] = <<>>
    OBVIOUS
  <2>5. Output'
    <3>1. opt.out \in {"stdout", "file", "discard"}
      BY OptFacts DEF CommandInv, Places
    <3>2. CASE UNCHANGED <<worker, file>>
      BY <1>3, <2>3, <3>2 DEF CommandInv, Output, Places, OpenOutput
    <3>3. CASE worker' = "call" /\ file' = IF opt.out = "stdout" THEN file ELSE <<>>
      BY <2>3, <2>4, <3>1, <3>3 DEF Output
    <3> QED BY <1>3, <3>2, <3>3 DEF OpenOutput
  <2> QED BY <2>1, <2>2, <2>5 DEF CommandInv
<1> QED BY <1>1, <1>2, <1>3

(* The steps of run that wait for the call, and the end of the process, keep
   the invariant: run reports success only on the goroutine's success.     *)
LEMMA MainCommand ==
  CommandInv /\ (\/ SelectSignal \/ SelectResult \/ Notify \/ UnaryCall
                 \/ UnaryReturn \/ Exit) => CommandInv'
<1> SUFFICES ASSUME CommandInv,
                    \/ SelectSignal \/ SelectResult \/ Notify \/ UnaryCall
                    \/ UnaryReturn \/ Exit
             PROVE  CommandInv'
  OBVIOUS
<1> USE DEF Ready, Over, Streams, Summed, Last, Answered, ReturnWith, workVars, netVars, timeVars
<1>0. /\ opt.cmd \in {"copy", "paste", "status", "clear"}
      /\ opt' = opt /\ file' = file /\ got' = got /\ avail' = avail
      /\ sent' = sent /\ res' = res /\ late' = late /\ timer' = timer
      /\ ctx' \in {ctx, "done"} /\ (ctx' # ctx => ctx = "live")
  <2>1. opt.cmd \in {"copy", "paste", "status", "clear"}
    BY OptFacts DEF CommandInv, Places
  <2> QED BY <2>1 DEF CommandInv, Places, Outcome, SelectSignal, SelectResult,
                      Notify, UnaryCall, UnaryReturn, Exit
<1>1. Deadline'
  BY <1>0 DEF CommandInv, Deadline
<1>2. Places' /\ Outcome' /\ (rpc' = "ok" => rpc = "ok")
      /\ (worker' = "none" <=> worker = "none")
  <2>1. CASE SelectSignal \/ Notify
    BY <1>0, <2>1 DEF CommandInv, Places, Outcome, SelectSignal, Notify
  <2>2. CASE SelectResult
    BY <1>0, <2>2 DEF CommandInv, Places, Outcome, SelectResult
  <2>3. CASE UnaryCall
    BY <1>0, <2>3 DEF CommandInv, Places, Outcome, UnaryCall
  <2>4. CASE UnaryReturn
    BY <1>0, <2>4 DEF CommandInv, Places, Outcome, UnaryReturn
  <2>5. CASE Exit
    BY <1>0, <2>5 DEF CommandInv, Places, Outcome, Exit
  <2> QED BY <2>1, <2>2, <2>3, <2>4, <2>5
<1>3. Progress' /\ Output'
  BY <1>0, <1>2 DEF CommandInv, Progress, Output
<1> QED BY <1>1, <1>2, <1>3 DEF CommandInv

(* What the goroutine of the call does by itself keeps the invariant: it
   reports success only after the last chunk, and when the server has, or on
   the checksum.                                                           *)
LEMMA WorkerCommand ==
  CommandInv /\ Worker => CommandInv'
<1> SUFFICES ASSUME CommandInv, Worker
             PROVE  CommandInv'
  OBVIOUS
<1> USE DEF Ready, Over, Streams, Summed, Last, Answered, mainVars, timeVars
<1>0. /\ opt.cmd \in {"copy", "paste", "status", "clear"}
      /\ opt.secret \in {"none", "env", "tty"}
  BY OptFacts DEF CommandInv, Places
<1>1. /\ UNCHANGED <<opt, main, exit, sig, conn, late, avail, timer, ctx>>
      /\ UNCHANGED <<sent, got, file>>
  BY DEF Worker, StartCall, PasteHeader, SecretEnv, SumEnds, CallEnds
<1>2. Places' /\ Outcome' /\ (rpc' = "ok" => rpc = "ok")
      /\ worker # "none" /\ worker' # "none"
  <2>1. CASE StartCall
    BY <1>0, <1>1, <2>1 DEF CommandInv, Places, Outcome, StartCall, Finish
  <2>2. CASE PasteHeader \/ SecretEnv
    BY <1>0, <1>1, <2>2 DEF CommandInv, Places, Outcome, PasteHeader,
                            SecretEnv, AfterSecret, Finish
  <2>3. CASE SumEnds
    BY <1>0, <1>1, <2>3 DEF CommandInv, Places, Outcome, SumEnds, Finish
  <2>4. CASE CallEnds
    BY <1>0, <1>1, <2>4 DEF CommandInv, Places, Outcome, CallEnds, Finish
  <2> QED BY <2>1, <2>2, <2>3, <2>4 DEF Worker
<1>3. Progress' /\ Output' /\ Deadline'
  BY <1>1, <1>2 DEF CommandInv, Progress, Output, Deadline
<1> QED BY <1>2, <1>3 DEF CommandInv

(* The next chunk extends the file by itself: what was there before the
   paste has been truncated, so that nothing follows it.                   *)
LEMMA AppendChunk ==
  ASSUME NEW n \in Nat, NEW f, f = [i \in 1..n |-> <<"new", i>>]
  PROVE  [i \in 1..(IF n < Len(f) THEN Len(f) ELSE n + 1)
            |-> IF i = n + 1 THEN <<"new", i>> ELSE f[i]]
         = [i \in 1..(n + 1) |-> <<"new", i>>]
<1>1. Len(f) = n /\ \A i \in 1..n : f[i] = <<"new", i>>
  BY PastedFile
<1>2. \A i \in 1..(n + 1) : i # n + 1 => i \in 1..n
  OBVIOUS
<1> QED BY <1>1, <1>2

(* The password, the end of the input and the written chunks keep the
   invariant.                                                              *)
LEMMA UserCommand ==
  CommandInv /\ User => CommandInv'
<1> SUFFICES ASSUME CommandInv, User
             PROVE  CommandInv'
  OBVIOUS
<1> USE DEF Ready, Over, Streams, Summed, Last, Answered, mainVars, timeVars
<1>0. opt.cmd \in {"copy", "paste", "status", "clear"} /\ Total \in Nat
  BY OptFacts DEF CommandInv, Places
<1>1. /\ UNCHANGED <<opt, main, exit, sig, conn, late, avail, timer, ctx>>
      /\ UNCHANGED rpc
  BY DEF User, SecretTyped, InputEnds, WriteChunk
<1>2. /\ worker # "none" /\ worker' # "none"
      /\ worker \notin {"call", "result", "done"} /\ worker' # "call"
      /\ res' # "ok" /\ (worker' = "result" => res' = "error")
      /\ worker' # "done"
      /\ worker' \in {"input", "reply"} => opt.cmd = "copy"
  BY <1>1 DEF CommandInv, Places, Outcome, User, SecretTyped, InputEnds, WriteChunk,
              Finish, AfterSecret
<1>3. Places' /\ Outcome' /\ Deadline'
  BY <1>1, <1>2 DEF CommandInv, Places, Outcome, Deadline
<1>4. Progress'
  BY <1>0, <1>1 DEF CommandInv, Progress, User, SecretTyped, InputEnds,
                    WriteChunk
<1>5. Output'
  <2>1. CASE UNCHANGED <<got, file>>
    BY <1>1, <1>2, <2>1 DEF CommandInv, Output
  <2>2. CASE ~ UNCHANGED <<got, file>>
    <3>1. /\ got' = got + 1 /\ got \in Nat
          /\ file' = IF opt.out # "file" THEN file
                     ELSE [i \in 1..(IF got < Len(file) THEN Len(file) ELSE got + 1)
                             |-> IF i = got + 1 THEN <<"new", i>> ELSE file[i]]
      BY <2>2 DEF CommandInv, Progress, User, SecretTyped, InputEnds,
                  WriteChunk
    <3>2. CASE opt.out = "file"
      <4>1. file = [i \in 1..got |-> <<"new", i>>]
        BY <1>2, <3>2 DEF CommandInv, Output
      <4>2. file' = [i \in 1..got' |-> <<"new", i>>]
        BY <3>1, <3>2, <4>1, AppendChunk
      <4> QED BY <1>1, <1>2, <3>2, <4>2 DEF Output
    <3>3. CASE opt.out # "file"
      BY <1>1, <1>2, <3>1, <3>3 DEF CommandInv, Output
    <3> QED BY <3>2, <3>3
  <2> QED BY <2>1, <2>2
<1> QED BY <1>3, <1>4, <1>5 DEF CommandInv

(* Time, signals, the network and the server keep the invariant: an answer
   is looked at only before the deadline has ended the context.            *)
LEMMA WorldCommand ==
  CommandInv /\ (Timeout \/ Interrupt \/ Connect \/ ServerSends \/ ServerEnds)
    => CommandInv'
<1> SUFFICES ASSUME CommandInv,
                    Timeout \/ Interrupt \/ Connect \/ ServerSends \/ ServerEnds
             PROVE  CommandInv'
  OBVIOUS
<1> USE DEF Ready, Over, Streams, Summed, Last, Answered, mainVars, workVars, timeVars
<1>1. CASE Timeout
  <2>1. Places' /\ Outcome'
    BY <1>1 DEF CommandInv, Places, Outcome, Timeout
  <2>2. Progress' /\ Output' /\ Deadline'
    BY <1>1 DEF CommandInv, Progress, Output, Deadline, Timeout
  <2> QED BY <2>1, <2>2 DEF CommandInv
<1>2. CASE Interrupt
  <2>1. Places' /\ Outcome'
    BY <1>2 DEF CommandInv, Places, Outcome, Interrupt
  <2>2. Progress' /\ Output' /\ Deadline'
    BY <1>2 DEF CommandInv, Progress, Output, Deadline, Interrupt
  <2> QED BY <2>1, <2>2 DEF CommandInv
<1>3. CASE Connect
  <2>1. Places' /\ Outcome'
    BY <1>3 DEF CommandInv, Places, Outcome, Connect
  <2>2. Progress' /\ Output' /\ Deadline'
    BY <1>3 DEF CommandInv, Progress, Output, Deadline, Connect
  <2> QED BY <2>1, <2>2 DEF CommandInv
<1>4. CASE ServerSends
  <2>0. PICK n \in Nat : n = Last /\ Last' = n
    BY <1>4, OptFacts DEF CommandInv, Places, ServerSends
  <2>1. avail \in Int /\ avail < n /\ avail' = avail + 1
    BY <1>4, <2>0 DEF CommandInv, Progress, ServerSends
  <2>2. avail # n /\ avail' \in Int /\ avail' <= n
    BY <2>1
  <2>3. avail # Last /\ avail' <= Last'
    BY <2>0, <2>2
  <2>4. Places' /\ Outcome'
    <3> HIDE DEF Last
    <3> QED BY <1>4, <2>3 DEF CommandInv, Places, Outcome, ServerSends
  <2>5. Progress'
    <3> HIDE DEF Last
    <3> QED BY <1>4, <2>2, <2>3 DEF CommandInv, Progress, ServerSends
  <2>6. Output' /\ Deadline'
    BY <1>4 DEF CommandInv, Output, Deadline, ServerSends
  <2> QED BY <2>4, <2>5, <2>6 DEF CommandInv
<1>5. CASE ServerEnds
  <2>1. Places' /\ Outcome'
    BY <1>5 DEF CommandInv, Places, Outcome, ServerEnds
  <2>2. Progress' /\ Output'
    BY <1>5 DEF CommandInv, Progress, Output, ServerEnds
  <2>3. Deadline'
    BY <1>5 DEF CommandInv, Deadline, ServerEnds
  <2> QED BY <2>1, <2>2, <2>3 DEF CommandInv
<1> QED BY <1>1, <1>2, <1>3, <1>4, <1>5

(* Every step keeps the invariant.                                         *)
LEMMA NextCommand == CommandInv /\ [Next]_vars => CommandInv'
<1> SUFFICES ASSUME CommandInv, [Next]_vars
             PROVE  CommandInv'
  OBVIOUS
<1>1. CASE Main
  BY <1>1, SetupCommand, MainCommand DEF Main
<1>2. CASE Worker \/ User
  BY <1>2, WorkerCommand, UserCommand
<1>3. CASE Timeout \/ Interrupt \/ Connect \/ ServerSends \/ ServerEnds
  BY <1>3, WorldCommand
<1>4. CASE UNCHANGED vars
  BY <1>4 DEF CommandInv, Places, Progress, Output, Outcome, Deadline, Streams,
              Summed, Last, Answered, vars, mainVars, workVars, netVars, timeVars
<1> QED BY <1>1, <1>2, <1>3, <1>4 DEF Next

(* CommandInv holds throughout: what the goroutine of the call and run
   (command/copy.go, paste.go) have done so far agrees with what they have
   seen of the server and of the deadline.                                 *)
THEOREM CommandInvariant == Spec => []CommandInv
<1>1. Init => CommandInv
  BY InitCommand
<1>2. CommandInv /\ [Next]_vars => CommandInv'
  BY NextCommand
<1> QED BY <1>1, <1>2, PTL DEF Spec

(* A copy that exits with status 0 has been accepted by the server after its
   last byte, and a paste that does so has written every chunk, to an output
   file that holds nothing else, and has seen the checksum that follows them
   or, without one, the server's ok; the call itself may still be open or
   have failed when the checksum has come: for any size of the clipboard, any earlier
   content of the file and any command line (run in command/copy.go and
   command/paste.go).                                                      *)
THEOREM SuccessIsTrue == Spec => []ExitTrue
<1>1. CommandInv => ExitTrue
  <2> SUFFICES ASSUME CommandInv, exit = "success"
               PROVE  ExitTrue
    BY DEF ExitTrue
  <2>1. Answered /\ (Streams => res = "ok")
    BY DEF CommandInv, Outcome
  <2>2. opt.cmd = "copy" => sent
    BY <2>1 DEF CommandInv, Progress, Answered, Summed
  <2>3. opt.cmd = "paste" => got = Total /\ worker # "none"
    BY <2>1 DEF CommandInv, Outcome, Streams
  <2>4. opt.cmd = "paste" /\ opt.out = "file" =>
          file = [i \in 1..Total |-> <<"new", i>>]
    BY <2>3 DEF CommandInv, Output
  <2> QED BY <2>1, <2>2, <2>3, <2>4 DEF ExitTrue, Answered
<1> QED BY <1>1, CommandInvariant, PTL

(* At every moment of a paste, hence also after a signal or an error between
   two writes, the output file holds its old content, or a beginning of what
   was pasted and nothing behind it (os.Create in command/paste.go).       *)
THEOREM FileNeverMixed == Spec => []FileSane
<1>1. CommandInv => FileSane
  <2> SUFFICES ASSUME CommandInv PROVE FileSane
    OBVIOUS
  <2>0. opt.out \in {"stdout", "file", "discard"} /\ got \in Nat
    BY OptFacts DEF CommandInv, Places, Progress
  <2>1. CASE worker = "none" \/ opt.out = "stdout"
    BY <2>1 DEF CommandInv, Output, FileSane
  <2>2. CASE worker # "none" /\ opt.out = "discard"
    BY <2>0, <2>2 DEF CommandInv, Output, FileSane
  <2>3. CASE worker # "none" /\ opt.out = "file"
    <3>1. file = [i \in 1..got |-> <<"new", i>>]
      BY <2>3 DEF CommandInv, Output
    <3>2. Len(file) = got /\ DOMAIN file = 1..got
          /\ \A i \in 1..got : file[i] = <<"new", i>>
      BY <2>0, <3>1, PastedFile
    <3> QED BY <2>0, <3>2 DEF FileSane
  <2> QED BY <2>0, <2>1, <2>2, <2>3
<1> QED BY <1>1, CommandInvariant, PTL

(* No copy and no paste succeeds on an answer that came after --timeout,
   however the answer and the deadline race (context.WithTimeout in
   command/copy.go and command/paste.go).                                  *)
THEOREM LateAnswersFail == Spec => []TimeoutFails
<1>1. CommandInv => TimeoutFails
  BY DEF CommandInv, Deadline, TimeoutFails
<1> QED BY <1>1, CommandInvariant, PTL
=============================================================================
