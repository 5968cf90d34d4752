------------------------------- MODULE Server -------------------------------
(***************************************************************************)
(* The serve command from its options to its exit: command/server.go,      *)
(* server/server.go, server/option.go.  The goroutines are the main one,   *)
(* the one that serves, the one that stops gracefully and one handler for  *)
(* each request; the five-second context of Stop is a timer.               *)
(*                                                                         *)
(* Of a handler (server/clipboard.go) only that is kept which shutting     *)
(* down depends on: the store's lock, whether it waits for its client, and *)
(* its use of the database.                                                *)
(***************************************************************************)
EXTENDS Tls

CONSTANTS
  Calls,     (* Requests of clients.                                       *)
  Configs,   (* Command lines: peers with the path of the database.        *)
  Clients    (* Peers that connect.                                        *)

ASSUME ConfigsAssumption ==
  /\ \A k \in Configs : /\ [dev |-> k.dev, ca |-> k.ca, pair |-> k.pair] \in Peers
                        /\ k.path \in {"none", "good", "bad"}
  /\ Clients \subseteq Peers

VARIABLES
  cfg,      (* The options.                                                *)
  main,     (* Where the main goroutine stands.                            *)
  exit,     (* The exit status, 0 or 1.                                    *)
  db,       (* The database: none, open, closed, or leaked (badger is open,
               but NewBadgerDB has not handed it over).                    *)
  sig,      (* A signal waits in the channel.                              *)
  serve,    (* The serving goroutine: none, listen, serving, sending (its
               result on srvErr) or done.                                  *)
  grpc,     (* The grpc.Server: new, draining (GracefulStop) or stopped.   *)
  stopper,  (* The goroutine of Stop: none, ready, draining or done.       *)
  timer,    (* The context given to Stop: none, running or expired.        *)
  stop,     (* What Stop has returned: none, nil or error.                 *)
  kind,     (* Of a request: copy, paste, clear or status.                 *)
  hand,     (* Its handler: none, enter (the store's lock), inside, reply
               or done.                                                    *)
  fed,      (* The client has sent, or read, all there is.                 *)
  view      (* What the client knows: none, open, ok, failed, or gone.     *)

mainVars == <<cfg, main, exit, db, sig, timer, stop>>
grpcVars == <<serve, grpc, stopper>>
callVars == <<kind, hand, fed, view>>
vars == <<mainVars, grpcVars, callVars>>

Running(c) == hand[c] \in {"enter", "inside", "reply"}

(* The connections of every client are gone.                               *)
Disconnect == view' = [c \in Calls |-> IF view[c] = "open" THEN "failed"
                                       ELSE view[c]]

-----------------------------------------------------------------------------
(* The main goroutine                                                      *)

(* run returns: the deferred db.Close is next, if there is a database.     *)
ReturnFrom(label, code) == main' = label /\ exit' = code

(* The address cannot be resolved, or there is no path.                    *)
CheckOptions ==
  /\ main = "options"
  /\ \/ ReturnFrom("exiting", 1)
     \/ /\ cfg.dev \/ cfg.path # "none"
        /\ main' = "open" /\ UNCHANGED exit
  /\ UNCHANGED <<cfg, db, sig, timer, stop, grpcVars, callVars>>

(* NewBadgerDB, in memory or in a directory.  badger.Open fails, or after it
   GetSequence, with nobody left to close the database: run returns before
   the deferred Close is set up.                                           *)
OpenDb ==
  /\ main = "open"
  /\ \/ cfg.path = "bad" /\ ReturnFrom("exiting", 1) /\ UNCHANGED db
     \/ cfg.path # "bad" /\ ReturnFrom("exiting", 1) /\ db' = "leaked"
     \/ cfg.path # "bad" /\ main' = "certs" /\ db' = "open" /\ UNCHANGED exit
  /\ UNCHANGED <<cfg, sig, timer, stop, grpcVars, callVars>>

(* Mutant of Certs: the files are read in dev mode too.                    *)
CertsAlways == IF cfg.dev /\ ~FilesRead(cfg) THEN "none" ELSE cfg.pair

(* The certificate handed to NewServer: in dev mode no file is read.       *)
Certs == IF cfg.dev THEN "none" ELSE cfg.pair

(* Mutant of NewServer: a certificate that cannot be read ends the process
   on the spot.                                                            *)
NewServerFatal ==
  /\ main = "certs"
  /\ IF cfg.dev \/ (FilesRead(cfg) /\ LoadCertificate(cfg))
       THEN main' = "select" /\ serve' = "listen" /\ UNCHANGED exit
       ELSE ReturnFrom("exiting", 1) /\ UNCHANGED serve
  /\ UNCHANGED <<cfg, db, sig, timer, stop, grpc, stopper, callVars>>

(* Read the files, NewServer, start the serving goroutine.                 *)
NewServer ==
  /\ main = "certs"
  /\ IF cfg.dev \/ (FilesRead(cfg) /\ LoadCertificate(cfg))
       THEN main' = "select" /\ serve' = "listen" /\ UNCHANGED exit
       ELSE ReturnFrom("close", 1) /\ UNCHANGED serve
  /\ UNCHANGED <<cfg, db, sig, timer, stop, grpc, stopper, callVars>>

(* The select on the signal and on srvErr, whatever Start has returned; then
   Stop starts its timer and its goroutine.                                *)
Select ==
  /\ main = "select"
  /\ \/ sig /\ sig' = FALSE /\ UNCHANGED serve
     \/ serve = "sending" /\ serve' = "done" /\ UNCHANGED sig
  /\ main' = "stop"
  /\ timer' = "running"
  /\ stopper' = "ready"
  /\ UNCHANGED <<cfg, exit, db, stop, grpc, callVars>>

(* Mutant of StopGraceful: Stop does not wait for the goroutine.           *)
StopAtOnce ==
  /\ main = "stop"
  /\ grpc' = "stopped"
  /\ Disconnect
  /\ stop' = "error"
  /\ ReturnFrom("close", 0)
  /\ UNCHANGED <<cfg, db, sig, timer, serve, stopper, kind, hand, fed>>

(* Stop: GracefulStop has returned ...                                     *)
StopGraceful ==
  /\ main = "stop" /\ stopper = "done"
  /\ stop' = "nil"
  /\ ReturnFrom("close", 0)
  /\ UNCHANGED <<cfg, db, sig, timer, grpcVars, callVars>>

(* Mutant of StopForced: the context is not looked at.                     *)
StopForcedNever ==
  /\ FALSE
  /\ UNCHANGED vars

(* Mutant of StopForced: the error of the context is not returned.         *)
StopForcedSilent ==
  /\ main = "stop" /\ timer = "expired"
  /\ grpc' = "stopped"
  /\ Disconnect
  /\ stop' = "nil"
  /\ ReturnFrom("close", 0)
  /\ UNCHANGED <<cfg, db, sig, timer, serve, stopper, kind, hand, fed>>

(* ... or five seconds have passed, and grpc.Server.Stop closes every
   connection; it does not wait for the handlers.                          *)
StopForced ==
  /\ main = "stop" /\ timer = "expired"
  /\ grpc' = "stopped"
  /\ Disconnect
  /\ stop' = "error"
  /\ ReturnFrom("close", 0)
  /\ UNCHANGED <<cfg, db, sig, timer, serve, stopper, kind, hand, fed>>

(* The deferred db.Close.                                                  *)
CloseDb ==
  /\ main = "close"
  /\ db' = "closed"
  /\ main' = "exiting"
  /\ UNCHANGED <<cfg, exit, sig, timer, stop, grpcVars, callVars>>

(* os.Exit ends the other goroutines wherever they are.                    *)
Exit ==
  /\ main = "exiting"
  /\ main' = "exited"
  /\ hand' = [c \in Calls |-> IF Running(c) THEN "done" ELSE hand[c]]
  /\ Disconnect
  /\ UNCHANGED <<cfg, exit, db, sig, timer, stop, grpcVars, kind, fed>>

Main == \/ CheckOptions \/ OpenDb \/ NewServer \/ Select \/ StopGraceful
        \/ StopForced \/ CloseDb \/ Exit

(* A signal is caught once signal.Notify has been called; before, it is a
   crash (module Storage).                                                 *)
Signal ==
  /\ main \in {"select", "stop", "close"} /\ serve # "none"
  /\ ~sig
  /\ sig' = TRUE
  /\ UNCHANGED <<cfg, main, exit, db, timer, stop, grpcVars, callVars>>

Expire ==
  /\ main = "stop" /\ timer = "running"
  /\ timer' = "expired"
  /\ UNCHANGED <<cfg, main, exit, db, sig, stop, grpcVars, callVars>>

-----------------------------------------------------------------------------
(* The serving and the stopping goroutine, over grpc.Server                *)

(* Start: net.ListenTCP may fail, and Serve refuses to run when the server
   has been stopped before.                                                *)
Start ==
  /\ serve = "listen" /\ main # "exited"
  /\ \/ serve' = "sending"
     \/ grpc = "new" /\ serve' = "serving"
  /\ UNCHANGED <<mainVars, grpc, stopper, callVars>>

(* Serve returns: Accept has failed, or the server has been stopped.       *)
ServeReturns ==
  /\ serve = "serving" /\ main # "exited"
  /\ grpc = "draining" => stopper = "done"
  /\ serve' = "sending"
  /\ UNCHANGED <<mainVars, grpc, stopper, callVars>>

(* GracefulStop turns new connections away and waits for every handler, or
   for Stop.                                                               *)
GracefulStop ==
  /\ stopper = "ready" /\ main # "exited"
  /\ grpc' = IF grpc = "new" THEN "draining" ELSE grpc
  /\ stopper' = "draining"
  /\ UNCHANGED <<mainVars, serve, callVars>>

GracefulStopReturns ==
  /\ stopper = "draining" /\ main # "exited"
  /\ grpc = "stopped" \/ \A c \in Calls : ~Running(c)
  /\ stopper' = "done"
  /\ UNCHANGED <<mainVars, serve, grpc, callVars>>

-----------------------------------------------------------------------------
(* Clients and handlers                                                    *)

(* A client connects, or sends another request over its connection.        *)
Arrive(c) ==
  /\ view[c] = "none" /\ main # "exited"
  /\ \/ /\ serve = "serving" /\ grpc = "new"
        /\ \E p \in Clients : Handshake(p, cfg)
     \/ /\ grpc # "stopped"
        /\ \E d \in Calls : Running(d) /\ view[d] = "open"
  /\ \E k \in {"copy", "paste", "clear", "status"} :
       kind' = [kind EXCEPT ![c] = k]
  /\ hand' = [hand EXCEPT ![c] = "enter"]
  /\ view' = [view EXCEPT ![c] = "open"]
  /\ UNCHANGED <<mainVars, grpcVars, fed>>

Feed(c) ==
  /\ view[c] = "open" /\ ~fed[c]
  /\ fed' = [fed EXCEPT ![c] = TRUE]
  /\ UNCHANGED <<mainVars, grpcVars, kind, hand, view>>

Leave(c) ==
  /\ view[c] = "open"
  /\ view' = [view EXCEPT ![c] = "gone"]
  /\ UNCHANGED <<mainVars, grpcVars, kind, hand, fed>>

(* The store's RWMutex: DropAll waits until the store is empty, and keeps
   the others out while it waits.                                          *)
Enter(c) ==
  /\ hand[c] = "enter"
  /\ IF kind[c] = "clear"
       THEN \A d \in Calls : hand[d] # "inside"
       ELSE \A d \in Calls : kind[d] = "clear" => hand[d] \in {"reply", "done"}
  /\ hand' = [hand EXCEPT ![c] = "inside"]
  /\ UNCHANGED <<mainVars, grpcVars, kind, fed, view>>

(* The handler has done its work, if the database is still open.           *)
Work(c) ==
  /\ hand[c] = "inside"
  /\ kind[c] \in {"copy", "paste"} => fed[c]
  /\ IF db = "open"
       THEN hand' = [hand EXCEPT ![c] = "reply"] /\ UNCHANGED view
       ELSE /\ hand' = [hand EXCEPT ![c] = "done"]
            /\ view' = [view EXCEPT ![c] = IF @ = "open" THEN "failed" ELSE @]
  /\ UNCHANGED <<mainVars, grpcVars, kind, fed>>

(* Recv or Send reports that the connection is gone, or the context does
   before a unary call has begun.                                          *)
Break(c) ==
  /\ view[c] \in {"failed", "gone"}
  /\ \/ hand[c] = "inside" /\ kind[c] \in {"copy", "paste"}
     \/ hand[c] = "enter" /\ kind[c] # "paste"
  /\ hand' = [hand EXCEPT ![c] = "done"]
  /\ UNCHANGED <<mainVars, grpcVars, kind, fed, view>>

(* A paste at too high a rate is answered without touching the store.      *)
Refuse(c) ==
  /\ hand[c] = "enter" /\ kind[c] = "paste"
  /\ hand' = [hand EXCEPT ![c] = "reply"]
  /\ UNCHANGED <<mainVars, grpcVars, kind, fed, view>>

Reply(c) ==
  /\ hand[c] = "reply"
  /\ hand' = [hand EXCEPT ![c] = "done"]
  /\ view' = [view EXCEPT ![c] = IF @ = "open" THEN "ok" ELSE @]
  /\ UNCHANGED <<mainVars, grpcVars, kind, fed>>

Handler(c) == Enter(c) \/ Work(c) \/ Break(c) \/ Refuse(c) \/ Reply(c)

-----------------------------------------------------------------------------
Init ==
  /\ cfg \in Configs
  /\ main = "options" /\ exit = 0 /\ db = "none" /\ sig = FALSE
  /\ serve = "none" /\ grpc = "new" /\ stopper = "none"
  /\ timer = "none" /\ stop = "none"
  /\ kind = [c \in Calls |-> "none"]
  /\ hand = [c \in Calls |-> "none"]
  /\ fed = [c \in Calls |-> FALSE]
  /\ view = [c \in Calls |-> "none"]

Next ==
  \/ Main \/ Signal \/ Expire
  \/ Start \/ ServeReturns \/ GracefulStop \/ GracefulStopReturns
  \/ \E c \in Calls : Arrive(c) \/ Feed(c) \/ Leave(c) \/ Handler(c)

Spec == Init /\ [][Next]_vars

(* Goroutines run and time passes.  Nothing is assumed of the clients, who
   may stall for ever, nor of signals.                                     *)
FairSpec ==
  /\ Spec
  /\ WF_vars(Main) /\ WF_vars(Expire) /\ WF_vars(Start)
  /\ WF_vars(GracefulStop) /\ WF_vars(GracefulStopReturns)

-----------------------------------------------------------------------------
(* Properties                                                              *)

(* "server shutdown <nil>" says that no request was cut off: when Stop has
   returned nil no handler runs any more, nor will one start, so that the
   database is not closed under it, whether the signal came before the
   server listened, while it served or after Accept had failed.            *)
CleanShutdown == stop = "nil" => \A c \in Calls : ~Running(c)

(* Whatever makes run return once it has its database (certificates, a port
   in use, a signal, a shutdown by force), the database has been closed.  The
   only way out with badger open is the error of NewBadgerDB itself, after
   which no request has been let in and the exit status is 1.              *)
DbClosed ==
  main = "exited" =>
    /\ db # "open"
    /\ db = "leaked" => exit = 1 /\ \A c \in Calls : view[c] = "none"

(* A request in progress is not broken off by a shutdown as long as the five
   seconds have not passed.                                                *)
NoCallDropped ==
  [][\A c \in Calls : view[c] = "open" /\ view'[c] = "failed" =>
                        timer = "expired"]_vars

(* Status.GrpcMTls: there are a certificate and a key.                     *)
GrpcMTls == Certs \notin {"none", "missing", "empty"}

(* "MTLS enable" is the truth: a server that says so has checked the
   certificate of every client it answers, and one that denies it has not,
   whichever files its command line names.                                 *)
StatusTrue ==
  (\E c \in Calls : view[c] = "ok" /\ kind[c] = "status") =>
    \A p \in Clients : Handshake(p, cfg) =>
      (GrpcMTls <=> ~p.dev /\ p.pair \in Roots(cfg))

(* A signal, or the end of Start, ends the process, although clients stall,
   a clear waits for them and other requests wait for the clear.           *)
ShutdownEnds ==
  (main = "select" /\ (sig \/ serve = "sending")) ~> main = "exited"
=============================================================================
