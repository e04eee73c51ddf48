------------------------------- MODULE Daemon -------------------------------
(****************************************************************************)
(* radmind(8): the accept loop of the server (daemon.c main()) with its     *)
(* signals, and the life of the child that serves a connection as far as    *)
(* the limit on connections goes (the head of cmdloop(), command.c).        *)
(*                                                                          *)
(* A signal handler may run between any two steps of the loop; it makes     *)
(* accept() return with EINTR only if the loop is inside accept() by then.  *)
(****************************************************************************)
EXTENDS Naturals, FiniteSets

CONSTANTS
  Client,         \* the connections that are ever made
  MaxConnections, \* -m, 0 for no limit
  MaxForkFails,   \* how often fork() fails
  MaxReloads      \* how often the TLS files change and SIGUSR1 is sent

ASSUME DaemonAssumption ==
  /\ IsFiniteSet(Client)
  /\ MaxConnections \in Nat /\ MaxForkFails \in Nat /\ MaxReloads \in Nat

VARIABLES
  pc,          \* the step of the loop
  connections, \* connections
  childSignal, \* child_signal > 0
  sslSignal,   \* reinit_ssl_signal
  conn,        \* conn[c]: how far connection c and its child have come
  seat,        \* seat[c]: "connections" as the child of c has it
  onDisk,      \* the TLS files, by version
  loaded,      \* the version that ctx was made from
  forkFails    \* how often fork() has failed

loop   == <<pc, connections, childSignal, sslSignal>>
tls    == <<onDisk, loaded>>
vars   == <<loop, conn, seat, tls, forkFails>>

With(state)  == { c \in Client : conn[c] \in state }
Zombies      == With({"zombie"})
Serving      == With({"serving"})
Children     == With({"forked", "serving", "zombie"})
-----------------------------------------------------------------------------
(* Signals.  The handlers only set a flag.                                  *)

Woken == IF pc = "blocked" THEN "ssl" ELSE pc

(* New TLS files are put in place and the server is told                    *)
Usr1 ==
  /\ pc # "down" /\ onDisk < MaxReloads
  /\ onDisk' = onDisk + 1
  /\ sslSignal' = TRUE
  /\ pc' = Woken
  /\ UNCHANGED <<connections, childSignal, conn, seat, loaded, forkFails>>

(* The child of c is gone                                                   *)
ChildExits(c) ==
  /\ conn' = [conn EXCEPT ![c] = "zombie"]
  /\ childSignal' = TRUE
  /\ pc' = Woken
  /\ UNCHANGED <<connections, sslSignal, seat, tls, forkFails>>
-----------------------------------------------------------------------------
(* The loop of the daemon                                                   *)

(* Mutant: the new context is made, and the old one stays in use            *)
CheckSslStale ==
  /\ pc = "ssl"
  /\ pc' = IF sslSignal THEN "setup" ELSE "children"
  /\ UNCHANGED <<connections, childSignal, sslSignal, conn, seat, tls, forkFails>>

CheckSsl ==
  /\ pc = "ssl"
  /\ IF sslSignal THEN pc' = "setup" /\ loaded' = onDisk
     ELSE pc' = "children" /\ loaded' = loaded
  /\ UNCHANGED <<connections, childSignal, sslSignal, conn, seat, onDisk, forkFails>>

(* tls_server_setup() fails: exit( 1 )                                      *)
SetupFails ==
  /\ pc = "ssl" /\ sslSignal
  /\ pc' = "down"
  /\ UNCHANGED <<connections, childSignal, sslSignal, conn, seat, tls, forkFails>>

(* Mutant: the flag is tested again instead of cleared                      *)
ClearSslAgain ==
  /\ pc = "setup"
  /\ pc' = "ssl"
  /\ UNCHANGED <<connections, childSignal, sslSignal, conn, seat, tls, forkFails>>

ClearSsl ==
  /\ pc = "setup"
  /\ sslSignal' = FALSE
  /\ pc' = "children"
  /\ UNCHANGED <<connections, childSignal, conn, seat, tls, forkFails>>

CheckChildren ==
  /\ pc = "children"
  /\ pc' = IF childSignal THEN "reap" ELSE "accept"
  /\ childSignal' = FALSE
  /\ UNCHANGED <<connections, sslSignal, conn, seat, tls, forkFails>>

(* Mutants: one child for each signal; a child is not counted off           *)
ReapOne ==
  /\ pc = "reap"
  /\ \/ \E c \in Zombies :
          /\ conn' = [conn EXCEPT ![c] = "reaped"]
          /\ connections' = connections - 1
     \/ Zombies = {} /\ UNCHANGED <<conn, connections>>
  /\ pc' = "accept"
  /\ UNCHANGED <<childSignal, sslSignal, seat, tls, forkFails>>
ReapUncounted ==
  /\ pc = "reap"
  /\ \/ \E c \in Zombies : conn' = [conn EXCEPT ![c] = "reaped"] /\ pc' = pc
     \/ Zombies = {} /\ pc' = "accept" /\ conn' = conn
  /\ UNCHANGED <<connections, childSignal, sslSignal, seat, tls, forkFails>>

(* One wait3()                                                              *)
Reap ==
  /\ pc = "reap"
  /\ \/ \E c \in Zombies :
          /\ conn' = [conn EXCEPT ![c] = "reaped"]
          /\ connections' = connections - 1
          /\ pc' = pc
     \/ /\ Zombies = {}
        /\ pc' = "accept"
        /\ UNCHANGED <<conn, connections>>
  /\ UNCHANGED <<childSignal, sslSignal, seat, tls, forkFails>>

EnterAccept ==
  /\ pc = "accept"
  /\ pc' = "blocked"
  /\ UNCHANGED <<connections, childSignal, sslSignal, conn, seat, tls, forkFails>>

Accept ==
  /\ pc = "blocked"
  /\ \E c \in With({"queued"}) : conn' = [conn EXCEPT ![c] = "accepted"]
  /\ connections' = connections + 1
  /\ pc' = "fork"
  /\ UNCHANGED <<childSignal, sslSignal, seat, tls, forkFails>>

Fork ==
  /\ pc = "fork"
  /\ \E c \in With({"accepted"}) :
       /\ conn' = [conn EXCEPT ![c] = "forked"]
       /\ seat' = [seat EXCEPT ![c] = connections]
  /\ pc' = "ssl"
  /\ UNCHANGED <<connections, childSignal, sslSignal, tls, forkFails>>

ForkFails ==
  /\ pc = "fork" /\ forkFails < MaxForkFails
  /\ \E c \in With({"accepted"}) : conn' = [conn EXCEPT ![c] = "dropped"]
  /\ forkFails' = forkFails + 1
  /\ pc' = "ssl"
  /\ UNCHANGED <<connections, childSignal, sslSignal, seat, tls>>
-----------------------------------------------------------------------------
(* The clients and the children                                             *)

Connect(c) ==
  /\ pc # "down" /\ conn[c] = "idle"
  /\ conn' = [conn EXCEPT ![c] = "queued"]
  /\ UNCHANGED <<loop, seat, tls, forkFails>>

(* Mutant: one too many                                                     *)
FullLate(c) == MaxConnections # 0 /\ seat[c] > MaxConnections + 1

Full(c) == MaxConnections # 0 /\ seat[c] > MaxConnections

(* "420 Server busy"                                                        *)
Refuse(c) == conn[c] = "forked" /\ Full(c) /\ ChildExits(c)

Serve(c) ==
  /\ conn[c] = "forked" /\ ~Full(c)
  /\ conn' = [conn EXCEPT ![c] = "serving"]
  /\ UNCHANGED <<loop, seat, tls, forkFails>>

Finish(c) == conn[c] = "serving" /\ ChildExits(c)
-----------------------------------------------------------------------------
Init ==
  /\ pc = "ssl" /\ connections = 0 /\ childSignal = FALSE /\ sslSignal = FALSE
  /\ conn = [c \in Client |-> "idle"] /\ seat = [c \in Client |-> 0]
  /\ onDisk = 0 /\ loaded = 0 /\ forkFails = 0

Loop ==
  \/ CheckSsl \/ SetupFails \/ ClearSsl \/ CheckChildren \/ Reap
  \/ EnterAccept \/ Accept \/ Fork \/ ForkFails

Child(c) == Refuse(c) \/ Serve(c) \/ Finish(c)

Next ==
  \/ Loop
  \/ \E c \in Client : Connect(c) \/ Child(c)
  \/ Usr1

(* The processes are scheduled; nobody has to connect or send a signal      *)
Spec == Init /\ [][Next]_vars /\ WF_vars(Loop) /\ \A c \in Client : WF_vars(Child(c))

TypeOK ==
  /\ pc \in {"ssl", "setup", "children", "reap", "accept", "blocked", "fork", "down"}
  /\ connections \in Nat
  /\ childSignal \in BOOLEAN /\ sslSignal \in BOOLEAN
  /\ conn \in [Client -> {"idle", "queued", "accepted", "forked", "serving",
                          "zombie", "reaped", "dropped"}]
  /\ seat \in [Client -> Nat]
  /\ onDisk \in 0..MaxReloads /\ loaded \in 0..onDisk
  /\ forkFails \in 0..MaxForkFails
-----------------------------------------------------------------------------
(* A child that has exited is waited for: the loop is at it, or will see    *)
(* child_signal (which it clears before the wait3() loop, not after)        *)
NoLostChild == Zombies # {} => childSignal \/ pc \in {"reap", "down"}

(* radmind(8), -m: at most so many connections are served at a time, though *)
(* every child decides by its own copy of "connections"                     *)
ServedBounded == MaxConnections # 0 => Cardinality(Serving) <= MaxConnections

(* "connections" never counts less than the children there are, and when    *)
(* all are gone and waited for, all it still counts are failed forks: the   *)
(* increment after accept() and the decrement after wait3() match, in any   *)
(* order of exits and signals                                               *)
CountsBack ==
  /\ connections >= Cardinality(Children)
  /\ Children = {} /\ pc = "blocked" => connections = forkFails

(* Who connects is answered, if only with 420, unless a reload has brought  *)
(* the daemon down                                                          *)
Answered == \A c \in Client :
  conn[c] = "queued" ~> conn[c] \in {"serving", "zombie", "reaped", "dropped"} \/ pc = "down"

(* SIGUSR1 is acted on as soon as the loop comes round, which the signal    *)
(* sees to only if it interrupts accept(); else the next connection does.   *)
(* From then on the files are in use that were on disk when it came, unless *)
(* it came while others were being read (see NoLostReload).                 *)
LoopsSoon == pc \in {"ssl", "fork"} \/ With({"queued"}) # {}

ReloadSeen == \A v \in 1..MaxReloads :
  onDisk = v /\ sslSignal /\ pc \notin {"setup", "down"} /\ LoopsSoon ~>
    loaded >= v \/ pc = "down"
-----------------------------------------------------------------------------
(****************************************************************************)
(* Statements of the documentation that the code does not keep.             *)
(****************************************************************************)

(* radmind(8), -m: "specifies the maximum number of simultaneous            *)
(* connections": when there is none, the next one is within the limit       *)
RoomWhenIdle ==
  MaxConnections # 0 /\ Children = {} /\ pc = "blocked" =>
    connections + 1 <= MaxConnections

(* radmind(8): "On receiving a SIGUSR1 signal, radmind will reread its TLS  *)
(* configuration": what is loaded is what the last signal announced, or     *)
(* the signal is still to be seen                                           *)
NoLostReload == pc # "down" /\ loaded # onDisk => sslSignal
=============================================================================
