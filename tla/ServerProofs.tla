---------------------------- MODULE ServerProofs ----------------------------
(***************************************************************************)
(* That a shutdown which reports no error has cut off no request, that no  *)
(* request is cut off before the five seconds are over, that run closes    *)
(* the database it was given and that Status tells the truth about mutual  *)
(* TLS, for any number of requests, configurations and clients.            *)
(***************************************************************************)
EXTENDS Server, TLAPS

Before == {"options", "open", "certs"}
After  == {"close", "exiting", "exited"}

(* Where the goroutines of Stop can be while main is where it is.          *)
Phases ==
  /\ main \in Before => serve = "none"
  /\ main \in Before \union {"select"} =>
       stopper = "none" /\ grpc = "new" /\ stop = "none"
  /\ main \in {"certs", "select"} => db = "open"
  /\ main = "stop" => db = "open" /\ grpc # "stopped" /\ stop = "none"
  /\ main \in Before \union After \union {"select", "stop"}

(* What Stop has returned, and why.                                        *)
StopReason ==
  /\ grpc = "stopped" => main \in After /\ stop = "error"
  /\ stop = "nil" => main \in After /\ grpc = "draining" /\ stopper = "done"
  /\ stop = "error" => timer = "expired" /\ main \in After
  /\ stop \in {"none", "nil", "error"}
  /\ grpc \in {"new", "draining", "stopped"}

(* Without Stop having returned, run has returned before it served.        *)
NeverServed == main \in After /\ stop = "none" => serve = "none"

(* GracefulStop returns when nothing runs, and lets nothing in afterwards. *)
Drained ==
  /\ stopper \in {"draining", "done"} => grpc # "new"
  /\ stopper = "done" /\ grpc = "draining" => \A c \in Calls : ~Running(c)

(* A request in progress has a handler, and a server.                      *)
Handled ==
  /\ hand \in [Calls -> {"none", "enter", "inside", "reply", "done"}]
  /\ view \in [Calls -> {"none", "open", "ok", "failed", "gone"}]
  /\ \A c \in Calls : view[c] = "open" => Running(c)
  /\ \A c \in Calls : Running(c) => serve # "none"

Shutdown == Phases /\ StopReason /\ NeverServed /\ Drained /\ Handled

-----------------------------------------------------------------------------
(* No goroutine runs and no request has come when the program starts.      *)
LEMMA InitShutdown == Init => Shutdown
BY DEF Init, Shutdown, Phases, StopReason, NeverServed, Drained, Handled,
       Running, Before, After

(* The steps of run until the goroutines have been started keep Shutdown.  *)
LEMMA SetupShutdown ==
  Shutdown /\ (CheckOptions \/ OpenDb \/ NewServer) => Shutdown'
<1> SUFFICES ASSUME Shutdown, CheckOptions \/ OpenDb \/ NewServer
             PROVE  Shutdown'
  OBVIOUS
<1> USE DEF Before, After, ReturnFrom, grpcVars, callVars
<1>1. Handled'
  BY DEF Shutdown, Phases, Handled, Running, CheckOptions, OpenDb, NewServer
<1>2. Phases'
  BY DEF Shutdown, Phases, CheckOptions, OpenDb, NewServer
<1>3. StopReason' /\ NeverServed'
  BY DEF Shutdown, Phases, StopReason, NeverServed, CheckOptions, OpenDb,
         NewServer
<1>4. Drained'
  BY DEF Shutdown, Drained, Running, CheckOptions, OpenDb, NewServer
<1> QED BY <1>1, <1>2, <1>3, <1>4 DEF Shutdown

(* The steps of run that shut down keep Shutdown.                          *)
LEMMA StopShutdown ==
  Shutdown /\ (Select \/ StopGraceful \/ StopForced \/ CloseDb \/ Exit)
    => Shutdown'
<1> SUFFICES ASSUME Shutdown,
                    Select \/ StopGraceful \/ StopForced \/ CloseDb \/ Exit
             PROVE  Shutdown'
  OBVIOUS
<1> USE DEF Before, After, ReturnFrom, grpcVars, callVars
<1>1. CASE Select
  BY <1>1 DEF Shutdown, Phases, StopReason, NeverServed, Drained, Handled,
              Running, Select
<1>2. CASE StopGraceful
  BY <1>2 DEF Shutdown, Phases, StopReason, NeverServed, Drained, Handled,
              Running, StopGraceful
<1>3. CASE StopForced
  BY <1>3 DEF Shutdown, Phases, StopReason, NeverServed, Drained, Handled,
              Running, StopForced, Disconnect
<1>4. CASE CloseDb
  BY <1>4 DEF Shutdown, Phases, StopReason, NeverServed, Drained, Handled,
              Running, CloseDb
<1>5. CASE Exit
  <2>1. Phases' /\ StopReason' /\ NeverServed'
    BY <1>5 DEF Shutdown, Phases, StopReason, NeverServed, Exit
  <2>2. Drained' /\ Handled'
    BY <1>5 DEF Shutdown, Drained, Handled, Running, Exit, Disconnect
  <2> QED BY <2>1, <2>2 DEF Shutdown
<1> QED BY <1>1, <1>2, <1>3, <1>4, <1>5

(* Signals, time and the goroutines of Serve and Stop keep Shutdown.       *)
LEMMA ServeShutdown ==
  Shutdown /\ (\/ Signal \/ Expire \/ Start \/ ServeReturns
               \/ GracefulStop \/ GracefulStopReturns) => Shutdown'
<1> SUFFICES ASSUME Shutdown,
                    \/ Signal \/ Expire \/ Start \/ ServeReturns
                    \/ GracefulStop \/ GracefulStopReturns
             PROVE  Shutdown'
  OBVIOUS
<1> USE DEF Before, After, mainVars, grpcVars, callVars
<1>1. CASE Signal \/ Expire
  BY <1>1 DEF Shutdown, Phases, StopReason, NeverServed, Drained, Handled,
              Running, Signal, Expire
<1>2. CASE Start \/ ServeReturns
  BY <1>2 DEF Shutdown, Phases, StopReason, NeverServed, Drained, Handled,
              Running, Start, ServeReturns
<1>3. CASE GracefulStop
  BY <1>3 DEF Shutdown, Phases, StopReason, NeverServed, Drained, Handled,
              Running, GracefulStop
<1>4. CASE GracefulStopReturns
  BY <1>4 DEF Shutdown, Phases, StopReason, NeverServed, Drained, Handled,
              Running, GracefulStopReturns
<1> QED BY <1>1, <1>2, <1>3, <1>4

(* What clients and handlers do keeps Shutdown: a new request needs a server
   that is not stopping, or another one that is still running.             *)
LEMMA CallShutdown ==
  ASSUME NEW c \in Calls, Shutdown,
         Arrive(c) \/ Feed(c) \/ Leave(c) \/ Handler(c)
  PROVE  Shutdown'
<1> USE DEF mainVars, grpcVars
<1>1. Phases' /\ StopReason' /\ NeverServed'
  BY DEF Shutdown, Phases, StopReason, NeverServed, Arrive, Feed, Leave,
         Handler, Enter, Work, Break, Refuse, Reply, Before, After
<1>2. Handled'
  <2>1. CASE Arrive(c)
    BY <2>1 DEF Shutdown, Handled, Running, Arrive
  <2>2. CASE Feed(c) \/ Leave(c)
    BY <2>2 DEF Shutdown, Handled, Running, Feed, Leave
  <2>3. CASE Enter(c) \/ Break(c) \/ Refuse(c)
    BY <2>3 DEF Shutdown, Handled, Running, Enter, Break, Refuse
  <2>4. CASE Work(c)
    BY <2>4 DEF Shutdown, Handled, Running, Work
  <2>5. CASE Reply(c)
    BY <2>5 DEF Shutdown, Handled, Running, Reply
  <2> QED BY <2>1, <2>2, <2>3, <2>4, <2>5 DEF Handler
<1>3. Drained'
  <2>1. CASE Arrive(c)
    BY <2>1 DEF Shutdown, Drained, Running, Arrive
  <2>2. CASE Feed(c) \/ Leave(c)
    BY <2>2 DEF Shutdown, Drained, Running, Feed, Leave
  <2>3. CASE Handler(c)
    BY <2>3 DEF Shutdown, Drained, Handled, Running, Handler, Enter, Work,
                Break, Refuse, Reply
  <2> QED BY <2>1, <2>2, <2>3
<1> QED BY <1>1, <1>2, <1>3 DEF Shutdown

(* Every step keeps Shutdown.                                              *)
LEMMA NextShutdown == Shutdown /\ [Next]_vars => Shutdown'
<1> SUFFICES ASSUME Shutdown, [Next]_vars PROVE Shutdown'
  OBVIOUS
<1>1. CASE Next
  BY <1>1, SetupShutdown, StopShutdown, ServeShutdown, CallShutdown
     DEF Next, Main
<1>2. CASE UNCHANGED vars
  BY <1>2 DEF Shutdown, Phases, StopReason, NeverServed, Drained, Handled,
              Running, vars, mainVars, grpcVars, callVars
<1> QED BY <1>1, <1>2

(* The goroutines of run, Start and Stop, the timer and the handlers always
   stand to each other as Shutdown says.                                   *)
THEOREM ShutdownInvariant == Spec => []Shutdown
BY InitShutdown, NextShutdown, PTL DEF Spec

(* When the serve command prints "server shutdown <nil>" no handler runs any
   more: the deferred db.Close closes the database under nobody.           *)
THEOREM NilMeansClean == Spec => []CleanShutdown
<1>1. Shutdown => CleanShutdown
  BY DEF Shutdown, StopReason, Drained, CleanShutdown
<1> QED BY <1>1, ShutdownInvariant, PTL

(* Server.Stop, db.Close and the exit of the process break off a request
   only after the five seconds of its context.                             *)
THEOREM CallsAreKept == Spec => NoCallDropped
<1> DEFINE Kept == \A c \in Calls : view[c] = "open" /\ view'[c] = "failed" =>
                     timer = "expired"
<1>1. Shutdown /\ [Next]_vars => [Kept]_vars
  <2> SUFFICES ASSUME Shutdown, Next,
                      NEW c \in Calls, view[c] = "open", view'[c] = "failed"
               PROVE  timer = "expired"
    BY DEF NoCallDropped
  <2>1. Running(c) /\ serve # "none"
    BY DEF Shutdown, Handled
  <2>2. CASE Main
    <3>1. CASE StopForced
      BY <3>1 DEF StopForced
    <3>2. CASE Exit
      BY <2>1, <3>2 DEF Shutdown, StopReason, NeverServed, Drained, Exit, After
    <3>3. CASE CheckOptions \/ OpenDb \/ NewServer \/ Select \/ StopGraceful
               \/ CloseDb
      BY <3>3 DEF CheckOptions, OpenDb, NewServer, Select, StopGraceful,
                  CloseDb, callVars
    <3> QED BY <2>2, <3>1, <3>2, <3>3 DEF Main
  <2>3. CASE \/ Signal \/ Expire \/ Start \/ ServeReturns
             \/ GracefulStop \/ GracefulStopReturns
    BY <2>3 DEF Signal, Expire, Start, ServeReturns, GracefulStop,
                GracefulStopReturns, callVars
  <2>4. ASSUME NEW d \in Calls, Arrive(d) \/ Feed(d) \/ Leave(d) \/ Handler(d)
        PROVE  timer = "expired"
    <3>1. CASE Work(d)
      <4>1. db # "open"
        BY <3>1 DEF Work
      <4>2. main \in Before \union After
        BY <4>1 DEF Shutdown, Phases
      <4>3. main \in After /\ stop # "none"
        BY <4>2, <2>1 DEF Shutdown, Phases, NeverServed
      <4> QED BY <4>3, <2>1 DEF Shutdown, StopReason, Drained
    <3>2. CASE Arrive(d) \/ Feed(d) \/ Leave(d) \/ Enter(d) \/ Break(d)
               \/ Refuse(d) \/ Reply(d)
      BY <3>2 DEF Shutdown, Handled, Arrive, Feed, Leave, Enter, Break, Refuse,
                  Reply
    <3> QED BY <2>4, <3>1, <3>2 DEF Handler
  <2> QED BY <2>2, <2>3, <2>4 DEF Next
<1>2. Spec => [][Kept]_vars
  BY <1>1, ShutdownInvariant, PTL DEF Spec
<1> QED BY <1>2 DEF NoCallDropped

-----------------------------------------------------------------------------
(* The options are the ones given; a database is opened once, and closed
   before run is left, unless NewBadgerDB has kept it to itself: then nothing
   is started any more.                                                    *)
Opened ==
  /\ cfg \in Configs
  /\ main \in {"options", "open"} => db = "none"
  /\ main \in {"exiting", "exited"} => db # "open"
  /\ db = "leaked" => /\ main \in {"exiting", "exited"}
                      /\ exit = 1 /\ serve = "none"

(* Without the certificate NewServer asks for, nothing serves and no request
   has come.                                                               *)
Certified ==
  /\ serve # "none" => cfg.dev \/ (FilesRead(cfg) /\ LoadCertificate(cfg))
  /\ \A c \in Calls : view[c] # "none" => serve # "none"

(* A request needs a serving server, or one that has let another in.       *)
LEMMA CertifiedStep ==
  ASSUME Shutdown, Opened, Certified, [Next]_vars
  PROVE  Opened' /\ Certified'
<1> USE DEF mainVars, grpcVars, callVars, ReturnFrom
<1>1. CASE CheckOptions \/ OpenDb \/ NewServer
  BY <1>1 DEF Opened, Certified, CheckOptions, OpenDb, NewServer, Shutdown,
              Phases, Before
<1>2. CASE Select \/ StopGraceful \/ CloseDb
  BY <1>2 DEF Opened, Certified, Select, StopGraceful, CloseDb
<1>3. CASE StopForced \/ Exit
  <2>1. Opened'
    BY <1>3 DEF Opened, StopForced, Exit
  <2>2. \A c \in Calls : view'[c] # "none" => view[c] # "none"
    BY <1>3 DEF StopForced, Exit, Disconnect
  <2>3. Certified'
    BY <1>3, <2>2 DEF Certified, StopForced, Exit
  <2> QED BY <2>1, <2>3
<1>4. CASE \/ Signal \/ Expire \/ Start \/ ServeReturns
           \/ GracefulStop \/ GracefulStopReturns
  BY <1>4 DEF Opened, Certified, Signal, Expire, Start, ServeReturns,
              GracefulStop, GracefulStopReturns
<1>5. ASSUME NEW c \in Calls, Arrive(c) \/ Feed(c) \/ Leave(c) \/ Handler(c)
      PROVE  Opened' /\ Certified'
  <2>1. UNCHANGED <<cfg, main, exit, db, serve>>
    BY <1>5 DEF Arrive, Feed, Leave, Handler, Enter, Work, Break, Refuse, Reply
  <2>2. CASE Arrive(c)
    <3>1. serve # "none"
      BY <2>2 DEF Shutdown, Handled, Arrive
    <3> QED BY <2>1, <3>1 DEF Opened, Certified
  <2>3. CASE Feed(c) \/ Leave(c) \/ Handler(c)
    <3>1. \A d \in Calls : view'[d] # "none" => view[d] # "none"
      BY <2>3 DEF Shutdown, Handled, Feed, Leave, Handler, Enter, Work, Break,
                  Refuse, Reply
    <3> QED BY <2>1, <3>1 DEF Opened, Certified
  <2> QED BY <1>5, <2>2, <2>3
<1>6. CASE UNCHANGED vars
  BY <1>6 DEF Opened, Certified, vars
<1> QED BY <1>1, <1>2, <1>3, <1>4, <1>5, <1>6 DEF Next, Main

(* Whatever is served is served under a certificate that has been read.    *)
LEMMA AlwaysCertified == Spec => [](Opened /\ Certified)
<1>1. Init => Opened /\ Certified
  BY DEF Init, Opened, Certified
<1>2. Shutdown /\ (Opened /\ Certified) /\ [Next]_vars => (Opened /\ Certified)'
  BY CertifiedStep
<1> QED BY <1>1, <1>2, ShutdownInvariant, PTL DEF Spec

(* However run of the serve command ends once NewBadgerDB has handed over the
   database (a certificate, a port in use, a signal, a shutdown that is
   forced), the process does not exit with it open; when NewBadgerDB fails
   after badger.Open the process has served nobody and exits with status 1
   (the defer in command/server.go, the error returns in
   storage/badger.go).                                                     *)
THEOREM DatabaseIsClosed == Spec => []DbClosed
<1>1. Opened /\ Certified => DbClosed
  BY DEF Opened, Certified, DbClosed
<1> QED BY <1>1, AlwaysCertified, PTL

(* The handshake of a server that serves decides as its status says: with a
   certificate both sides check each other, in dev mode neither does.      *)
LEMMA HandshakeMeans ==
  ASSUME Opened, cfg.dev \/ (FilesRead(cfg) /\ LoadCertificate(cfg)),
         NEW p \in Clients, Handshake(p, cfg)
  PROVE  GrpcMTls <=> ~p.dev /\ p.pair \in Roots(cfg)
<1>1. cfg.dev \in BOOLEAN /\ p.dev \in BOOLEAN
  BY ConfigsAssumption DEF Opened, Peers
<1>2. CASE cfg.dev
  BY <1>1, <1>2 DEF GrpcMTls, Certs, Handshake
<1>3. CASE ~cfg.dev
  BY <1>1, <1>3 DEF GrpcMTls, Certs, Handshake, FilesRead, LoadCertificate
<1> QED BY <1>2, <1>3

(* A client that is told "MTLS enable: true" by Status talks to a server that
   has verified the certificate of every client it answers, and one that is
   told false to a server that has not; whichever files the command line
   names (GrpcMTls in server/clipboard.go, NewServer in server/server.go). *)
THEOREM StatusTellsTheTruth == Spec => []StatusTrue
<1>1. Opened /\ Certified => StatusTrue
  BY HandshakeMeans DEF Certified, StatusTrue
<1> QED BY <1>1, AlwaysCertified, PTL
=============================================================================
