--------------------------- MODULE Daemon_proofs ---------------------------
(****************************************************************************)
(* Theorems about the accept loop, for any number of connections and any    *)
(* limit: what the counter "connections" counts, and why the copies of it   *)
(* that the children hold keep the limit although they are out of date.     *)
(****************************************************************************)
EXTENDS Daemon, FiniteSetTheorems, TLAPS

(* The connections that "connections" counts, and the children that may     *)
(* still come to be served                                                  *)
Held == With({"accepted", "forked", "serving", "zombie"})
Live == With({"forked", "serving"})
Seated(k) == { c \in Live : seat[c] <= k }

(* A connection between accept() and fork() is the only one                 *)
OneAccepted ==
  /\ pc # "fork" => With({"accepted"}) = {}
  /\ \A c, d \in With({"accepted"}) : c = d

(* A failed fork() leaves the counter one too high                          *)
Counted == connections = Cardinality(Held) + forkFails

(* No more than k children have k or less as their copy of the counter: a   *)
(* child's copy counts it and every child alive when it was forked.         *)
SeatsDistinct == \A k \in Nat : Cardinality(Seated(k)) <= k

(* A child that serves has found its copy to be within the limit            *)
Admitted == MaxConnections # 0 => \A c \in Serving : seat[c] <= MaxConnections

IInv == TypeOK /\ NoLostChild /\ OneAccepted /\ Counted /\ SeatsDistinct /\ Admitted

-----------------------------------------------------------------------------
(* Subsets of the clients are finite, and counted by numbers.               *)
LEMMA Finite ==
  ASSUME NEW S \in SUBSET Client
  PROVE  IsFiniteSet(S) /\ Cardinality(S) \in Nat
BY DaemonAssumption, FS_Subset, FS_CardinalityType DEF DaemonAssumption

(* A set of clients that grows or shrinks by one counts one more or less,   *)
(* as the counter does on accept() and on wait3().                          *)
LEMMA CountOne ==
  ASSUME NEW S \in SUBSET Client, NEW c \in Client
  PROVE  /\ c \notin S => Cardinality(S \cup {c}) = Cardinality(S) + 1
         /\ c \in S => Cardinality(S \ {c}) = Cardinality(S) - 1
BY Finite, FS_AddElement, FS_RemoveElement

(* A set of clients counts at least as many as a part of it.                *)
LEMMA CountPart ==
  ASSUME NEW S \in SUBSET Client, NEW T \in SUBSET S
  PROVE  Cardinality(T) <= Cardinality(S)
BY Finite, FS_Subset
-----------------------------------------------------------------------------
(* The handlers and the loop keep every variable in its range; that the     *)
(* counter stays a natural number follows from what it counts (Counted).    *)
LEMMA TypeInductive ==
  ASSUME IInv, [Next]_vars
  PROVE  TypeOK'
<1> USE DaemonAssumption DEF DaemonAssumption, IInv, TypeOK, With
<1>1. CASE CheckSsl
  BY <1>1 DEF CheckSsl, tls
<1>2. CASE SetupFails
  BY <1>2 DEF SetupFails, tls
<1>3. CASE ClearSsl
  BY <1>3 DEF ClearSsl, tls
<1>4. CASE CheckChildren
  BY <1>4 DEF CheckChildren, tls
<1>5. CASE EnterAccept
  BY <1>5 DEF EnterAccept, tls
<1>6. CASE Reap
  <2>1. CASE UNCHANGED <<conn, connections>>
    BY <1>6, <2>1 DEF Reap, tls
  <2>2. ASSUME NEW c \in Zombies, conn' = [conn EXCEPT ![c] = "reaped"],
               connections' = connections - 1
        PROVE  TypeOK'
    <3>1. c \in Held
      BY <2>2 DEF Zombies, Held
    <3>2. Cardinality(Held) # 0
      <4>1. Held \in SUBSET Client
        BY DEF Held
      <4> QED BY <3>1, <4>1, Finite, FS_EmptySet
    <3>3. connections > 0
      BY <3>2, Finite DEF Counted, Held
    <3>4. connections' \in Nat
      BY <2>2, <3>3
    <3>5. conn' \in [Client -> {"idle", "queued", "accepted", "forked", "serving",
                              "zombie", "reaped", "dropped"}]
      BY <2>2
    <3> QED BY <1>6, <3>4, <3>5 DEF Reap, tls
  <2> QED BY <1>6, <2>1, <2>2 DEF Reap
<1>7. CASE Accept \/ Fork \/ ForkFails
  BY <1>7 DEF Accept, Fork, ForkFails, tls
<1>8. CASE Usr1
  BY <1>8 DEF Usr1, Woken
<1>9. ASSUME NEW c \in Client, Connect(c) \/ Child(c)
      PROVE  TypeOK'
  BY <1>9 DEF Connect, Child, Refuse, Serve, Finish, ChildExits, Woken, loop, tls
<1>10. CASE UNCHANGED vars
  BY <1>10 DEF vars, loop, tls
<1> QED
  BY <1>1, <1>2, <1>3, <1>4, <1>5, <1>6, <1>7, <1>8, <1>9, <1>10 DEF Next, Loop

(* A child that has exited is not forgotten, whenever its SIGCHLD comes.    *)
LEMMA NoLostChildInductive ==
  ASSUME IInv, [Next]_vars
  PROVE  NoLostChild'
<1> USE DEF IInv, TypeOK, NoLostChild, Zombies, With
<1>1. CASE CheckSsl \/ SetupFails \/ ClearSsl \/ CheckChildren \/ EnterAccept
  BY <1>1 DEF CheckSsl, SetupFails, ClearSsl, CheckChildren, EnterAccept
<1>2. CASE Reap
  BY <1>2 DEF Reap
<1>3. CASE Accept \/ Fork \/ ForkFails
  BY <1>3 DEF Accept, Fork, ForkFails
<1>4. CASE Usr1
  BY <1>4 DEF Usr1, Woken
<1>5. ASSUME NEW c \in Client, Connect(c) \/ Child(c)
      PROVE  NoLostChild'
  BY <1>5 DEF Connect, Child, Refuse, Serve, Finish, ChildExits, loop
<1>6. CASE UNCHANGED vars
  BY <1>6 DEF vars, loop
<1> QED BY <1>1, <1>2, <1>3, <1>4, <1>5, <1>6 DEF Next, Loop

(* accept() is called again only when the connection before has been given  *)
(* to a child or dropped.                                                   *)
LEMMA OneAcceptedInductive ==
  ASSUME IInv, [Next]_vars
  PROVE  OneAccepted'
<1> USE DEF IInv, TypeOK, OneAccepted, With
<1>1. CASE CheckSsl \/ SetupFails \/ ClearSsl \/ CheckChildren \/ EnterAccept
  BY <1>1 DEF CheckSsl, SetupFails, ClearSsl, CheckChildren, EnterAccept
<1>2. CASE Reap
  BY <1>2 DEF Reap, Zombies
<1>3. CASE Accept \/ Fork \/ ForkFails
  BY <1>3 DEF Accept, Fork, ForkFails
<1>4. CASE Usr1
  BY <1>4 DEF Usr1, Woken
<1>5. ASSUME NEW c \in Client, Connect(c) \/ Child(c)
      PROVE  OneAccepted'
  BY <1>5 DEF Connect, Child, Refuse, Serve, Finish, ChildExits, Woken, loop
<1>6. CASE UNCHANGED vars
  BY <1>6 DEF vars, loop
<1> QED BY <1>1, <1>2, <1>3, <1>4, <1>5, <1>6 DEF Next, Loop

(* The counter goes up in Accept and down in Reap, as what it counts does.  *)
LEMMA CountedInductive ==
  ASSUME IInv, [Next]_vars
  PROVE  Counted'
<1> USE DEF IInv, TypeOK, Counted
<1>7. Held \in SUBSET Client
  BY DEF Held, With
<1>8. Cardinality(Held) \in Nat /\ forkFails \in Nat
  BY <1>7, Finite, DaemonAssumption DEF DaemonAssumption
<1>1. CASE UNCHANGED <<conn, connections, forkFails>>
  BY <1>1 DEF Held, With
<1>2. CASE Reap
  <2>1. CASE UNCHANGED <<conn, connections>>
    BY <1>1, <1>2, <2>1 DEF Reap
  <2>2. ASSUME NEW c \in Zombies, conn' = [conn EXCEPT ![c] = "reaped"],
               connections' = connections - 1
        PROVE  Counted'
    <3>1. c \in Held /\ Held' = Held \ {c}
      BY <2>2 DEF Held, With, Zombies
    <3>2. Cardinality(Held') = Cardinality(Held) - 1
      BY <1>7, <3>1, CountOne
    <3> QED BY <1>2, <1>8, <2>2, <3>2 DEF Reap
  <2> QED BY <1>2, <2>1, <2>2 DEF Reap
<1>3. CASE Accept
  <2>1. PICK c \in With({"queued"}) : conn' = [conn EXCEPT ![c] = "accepted"]
    BY <1>3 DEF Accept
  <2>2. c \in Client /\ c \notin Held /\ Held' = Held \cup {c}
    BY <2>1 DEF Held, With
  <2>3. Cardinality(Held') = Cardinality(Held) + 1
    BY <1>7, <2>2, CountOne
  <2> QED BY <1>3, <1>8, <2>3 DEF Accept
<1>4. CASE Fork
  <2>1. Held' = Held
    BY <1>4 DEF Fork, Held, With
  <2> QED BY <1>4, <2>1 DEF Fork
<1>5. CASE ForkFails
  <2>1. PICK c \in With({"accepted"}) : conn' = [conn EXCEPT ![c] = "dropped"]
    BY <1>5 DEF ForkFails
  <2>2. c \in Held /\ Held' = Held \ {c}
    BY <2>1 DEF Held, With
  <2>3. Cardinality(Held') = Cardinality(Held) - 1
    BY <1>7, <2>2, CountOne
  <2> QED BY <1>5, <1>8, <2>3 DEF ForkFails
<1>6. ASSUME NEW c \in Client, Connect(c) \/ Child(c)
      PROVE  Counted'
  <2>1. Held' = Held
    BY <1>6 DEF Connect, Child, Refuse, Serve, Finish, ChildExits, Held, With
  <2>2. UNCHANGED <<connections, forkFails>>
    BY <1>6 DEF Connect, Child, Refuse, Serve, Finish, ChildExits, loop
  <2> QED BY <2>1, <2>2
<1> QED
  BY <1>1, <1>2, <1>3, <1>4, <1>5, <1>6
  DEF Next, Loop, CheckSsl, SetupFails, ClearSsl, CheckChildren, EnterAccept, Usr1,
      vars, loop

(* Only Fork adds a child; its copy of the counter is no less than the      *)
(* number of children, so every set of low copies it joins is small.        *)
LEMMA SeatsInductive ==
  ASSUME IInv, [Next]_vars
  PROVE  SeatsDistinct'
<1> USE DEF IInv, TypeOK
<1>6. \A k \in Nat : Seated(k) \in SUBSET Client
  BY DEF Seated, Live, With
<1>1. ASSUME \A k \in Nat : Seated(k)' \subseteq Seated(k)
      PROVE  SeatsDistinct'
  <2> SUFFICES ASSUME NEW k \in Nat
               PROVE  Cardinality(Seated(k)') <= k
    BY DEF SeatsDistinct
  <2>1. Cardinality(Seated(k)') <= Cardinality(Seated(k))
    BY <1>6, <1>1, CountPart
  <2>2. Cardinality(Seated(k)') \in Nat /\ Cardinality(Seated(k)) \in Nat
    BY <1>6, <1>1, Finite
  <2> QED BY <2>1, <2>2 DEF SeatsDistinct
<1>2. CASE Fork
  <2>1. PICK c \in With({"accepted"}) : /\ conn' = [conn EXCEPT ![c] = "forked"]
                                        /\ seat' = [seat EXCEPT ![c] = connections]
    BY <1>2 DEF Fork
  <2> SUFFICES ASSUME NEW k \in Nat
               PROVE  Cardinality(Seated(k)') <= k
    BY DEF SeatsDistinct
  <2>2. CASE k < connections
    <3>1. Seated(k)' = Seated(k)
      BY <2>1, <2>2 DEF Seated, Live, With
    <3> QED BY <3>1 DEF SeatsDistinct
  <2>3. CASE connections <= k
    <3>1. Seated(k)' \in SUBSET Held /\ Held \in SUBSET Client
      BY <2>1 DEF Seated, Live, Held, With
    <3>2. Cardinality(Seated(k)') <= Cardinality(Held)
      BY <3>1, CountPart
    <3>3. Cardinality(Seated(k)') \in Nat /\ Cardinality(Held) \in Nat
      BY <3>1, Finite
    <3>4. Cardinality(Held) <= connections
      BY <3>3, DaemonAssumption DEF Counted, DaemonAssumption
    <3> QED BY <2>3, <3>2, <3>3, <3>4
  <2> QED BY <2>2, <2>3
<1>3. CASE Reap \/ Accept \/ ForkFails
  <2>1. \A k \in Nat : Seated(k)' \subseteq Seated(k)
    BY <1>3 DEF Reap, Accept, ForkFails, Seated, Live, With, Zombies
  <2> QED BY <1>1, <2>1
<1>4. ASSUME NEW c \in Client, Connect(c) \/ Child(c)
      PROVE  SeatsDistinct'
  <2>1. \A k \in Nat : Seated(k)' \subseteq Seated(k)
    BY <1>4 DEF Connect, Child, Refuse, Serve, Finish, ChildExits, Seated, Live, With
  <2> QED BY <1>1, <2>1
<1>5. CASE UNCHANGED <<conn, seat>>
  <2>1. \A k \in Nat : Seated(k)' = Seated(k)
    BY <1>5 DEF Seated, Live, With
  <2> QED BY <1>1, <2>1
<1> QED
  BY <1>2, <1>3, <1>4, <1>5
  DEF Next, Loop, CheckSsl, SetupFails, ClearSsl, CheckChildren, EnterAccept, Usr1, vars

(* A child is only served when Full lets it, and its copy never changes.    *)
LEMMA AdmittedInductive ==
  ASSUME IInv, [Next]_vars
  PROVE  Admitted'
<1> USE DEF IInv, TypeOK, Admitted, Serving, With
<1>1. CASE Reap \/ Accept \/ Fork \/ ForkFails
  BY <1>1 DEF Reap, Accept, Fork, ForkFails, Zombies
<1>2. ASSUME NEW c \in Client, Connect(c) \/ Child(c)
      PROVE  Admitted'
  BY <1>2, DaemonAssumption
  DEF Connect, Child, Refuse, Serve, Finish, ChildExits, Full, DaemonAssumption
<1>3. CASE UNCHANGED <<conn, seat>>
  BY <1>3
<1> QED
  BY <1>1, <1>2, <1>3
  DEF Next, Loop, CheckSsl, SetupFails, ClearSsl, CheckChildren, EnterAccept, Usr1, vars

(* The daemon starts without connections.                                   *)
LEMMA InitIInv ==
  ASSUME Init
  PROVE  IInv
<1> USE DaemonAssumption DEF DaemonAssumption, Init, With
<1>1. TypeOK
  <2>1. onDisk \in 0..MaxReloads /\ loaded \in 0..onDisk /\ forkFails \in 0..MaxForkFails
    OBVIOUS
  <2>2. childSignal \in BOOLEAN /\ sslSignal \in BOOLEAN
    OBVIOUS
  <2> QED BY <2>1, <2>2 DEF TypeOK
<1>2. NoLostChild /\ OneAccepted /\ Admitted
  BY DEF NoLostChild, Zombies, OneAccepted, Admitted, Serving
<1>3. Held = {} /\ \A k \in Nat : Seated(k) = {}
  BY DEF Held, Seated, Live
<1>4. Counted /\ SeatsDistinct
  BY <1>3, FS_EmptySet DEF Counted, SeatsDistinct
<1> QED BY <1>1, <1>2, <1>4 DEF IInv

(* What is true of every state the daemon reaches.                          *)
THEOREM Invariance == Spec => []IInv
<1>1. IInv /\ [Next]_vars => IInv'
  <2> SUFFICES ASSUME IInv, [Next]_vars
               PROVE  IInv'
    OBVIOUS
  <2> QED
    BY TypeInductive, NoLostChildInductive, OneAcceptedInductive, CountedInductive,
       SeatsInductive, AdmittedInductive
    DEF IInv
<1> QED BY <1>1, InitIInv, PTL DEF Spec
-----------------------------------------------------------------------------
(* The variables of the accept loop keep their types; "connections" in      *)
(* particular never goes below zero.                                        *)
THEOREM TypeCorrect == Spec => []TypeOK
BY Invariance, PTL DEF IInv

(* wait3() is called again for every child that has exited: no order of     *)
(* SIGCHLD and the steps of the loop loses one.                             *)
THEOREM ChildrenReaped == Spec => []NoLostChild
BY Invariance, PTL DEF IInv

(* radmind(8), -m: never more than so many connections are served at once,  *)
(* for any number of clients and any order of forks, exits and signals.     *)
THEOREM LimitKept == Spec => []ServedBounded
<1>1. IInv => ServedBounded
  <2> SUFFICES ASSUME IInv, MaxConnections # 0
               PROVE  Cardinality(Serving) <= MaxConnections
    BY DEF ServedBounded
  <2>1. MaxConnections \in Nat
    BY DaemonAssumption DEF DaemonAssumption
  <2>2. Serving \in SUBSET Seated(MaxConnections)
    BY DEF IInv, Admitted, Seated, Live, Serving, With
  <2>3. Seated(MaxConnections) \in SUBSET Client
    BY DEF Seated, Live, With
  <2>4. Cardinality(Serving) <= Cardinality(Seated(MaxConnections))
    BY <2>2, <2>3, CountPart
  <2>5. Cardinality(Serving) \in Nat /\ Cardinality(Seated(MaxConnections)) \in Nat
    BY <2>2, <2>3, Finite
  <2>6. Cardinality(Seated(MaxConnections)) <= MaxConnections
    BY <2>1 DEF IInv, SeatsDistinct
  <2> QED BY <2>1, <2>4, <2>5, <2>6
<1> QED BY <1>1, Invariance, PTL

(* "connections" counts the children there are, and comes back to what      *)
(* failed forks have left in it: these are its only leak, and without them  *)
(* it comes back to none.                                                   *)
THEOREM CounterExact == Spec => []CountsBack
<1>1. IInv => CountsBack
  <2> SUFFICES ASSUME IInv
               PROVE  CountsBack
    OBVIOUS
  <2> USE DEF With
  <2>1. forkFails \in Nat
    BY DaemonAssumption DEF IInv, TypeOK, DaemonAssumption
  <2>2. Children \in SUBSET Held /\ Held \in SUBSET Client
    BY DEF Children, Held
  <2>3. Cardinality(Held) \in Nat /\ Cardinality(Children) \in Nat
    BY <2>2, Finite
  <2>4. connections = Cardinality(Held) + forkFails
    BY DEF IInv, Counted
  <2>5. connections >= Cardinality(Children)
    <3>1. Cardinality(Children) <= Cardinality(Held)
      BY <2>2, CountPart
    <3> QED BY <2>1, <2>3, <2>4, <3>1
  <2>6. ASSUME Children = {}, pc = "blocked"
        PROVE  connections = forkFails
    <3>1. Held = {}
      BY <2>6 DEF IInv, OneAccepted, Children, Held
    <3> QED BY <2>1, <2>4, <3>1, FS_EmptySet
  <2> QED BY <2>5, <2>6 DEF CountsBack
<1> QED BY <1>1, Invariance, PTL
=============================================================================
