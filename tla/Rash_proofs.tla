---------------------------- MODULE Rash_proofs ----------------------------
(****************************************************************************)
(* What somebody has changed on the machine is safe from every run that     *)
(* could know of it, and a run that nothing comes in the way of does what   *)
(* is meant, for any number of runs and users.                              *)
(****************************************************************************)
EXTENDS Rash, TLAPS

Pc == {"idle", "begin", "write", "remove", "dry", "ktcheck", "again", "trip", "fsdiff", "store",
       "lapply", "over"}

RunState == [pc : Pc, diff : Diff, tries : Nat, exit : {"none", "0", "1", "2"}]

Types ==
  /\ setup \in [Run -> Setup]
  /\ server \in Version /\ desc \in Desc /\ fs \in Tree /\ checked \in User \cup {NoOne}
  /\ run \in [Run -> RunState]
  /\ unseen \in [Run -> SUBSET {"checkout", "work"}]

Busy(i) == run[i].pc \notin {"idle", "begin", "over"}

(* Which commands come where; lapply gets a difference                      *)
Placed(i, r) ==
  /\ r.pc = "lapply" => Mode(i) \in {"auto", "force", "hook", "update"} /\ r.diff # Empty
  /\ r.pc = "dry" => Mode(i) # "auto"
  /\ r.pc \in {"dry", "trip", "ktcheck", "again", "fsdiff"} => Mode(i) \notin {"checkout", "checkin"}

(* Since a run has looked, nobody has checked the machine out, or it has    *)
(* happened since                                                           *)
NotBarred(i) ==
  Busy(i) => \/ Mode(i) \in {"trip", "create", "checkout", "checkin"}
             \/ checked = NoOne \/ "checkout" \in unseen[i]
             \/ Mode(i) = "update" /\ checked = setup[i].user

(* After the tripwire the file system is a version, a mixture or what an    *)
(* lapply has left, unless somebody has been at work since                  *)
NotWork(i) ==
  /\ Mode(i) = "auto" /\ run[i].pc \in {"ktcheck", "again", "fsdiff", "lapply"}
  /\ fs = Work
  => "work" \in unseen[i]

IInv == Types /\ \A i \in Run : Placed(i, run[i]) /\ NotBarred(i) /\ NotWork(i)
-----------------------------------------------------------------------------
LEMMA Numbers ==
  /\ Absent \in Desc /\ Absent \notin Version \cup {Mixed} /\ Work \in Tree /\ Partial \in Tree
  /\ Mixed \in Desc /\ Mixed \in Tree /\ Version \subseteq Desc /\ Version \subseteq Tree
  /\ Work \notin Desc /\ Work # Partial /\ MaxVersion \in Nat
BY RashAssumption DEF Absent, Mixed, Partial, Work, Desc, Tree, Version

(* What a step of a run does to its own state                               *)
Stays(i) == \A j \in Run \ {i} : run'[j] = run[j]
Tame     == desc' \in Desc /\ fs' \in Tree /\ (fs' = Work => fs = Work)
Lasting  == {"ktcheck", "again", "fsdiff", "lapply"}

Onward(i) ==
  /\ run' \in [Run -> RunState] /\ Stays(i) /\ Tame
  /\ run'[i] # run[i]
  /\ fs' # fs => At(i, "lapply")
  /\ checked' = checked \/ (run'[i].pc = "over" /\ checked' \in User \cup {NoOne})
  /\ Placed(i, run'[i])
  /\ run'[i].pc \notin {"idle", "begin", "over"} =>
       \/ Busy(i) /\ ~Looks(i)
       \/ Mode(i) \in {"trip", "create", "checkout", "checkin"} \/ checked = NoOne
       \/ Mode(i) = "update" /\ checked = setup[i].user
  /\ Mode(i) = "auto" /\ run'[i].pc \in Lasting => run[i].pc \in Lasting \/ fs' # Work

LEMMA Goes ==
  ASSUME Types, NEW i \in Run, NEW pc \in Pc, Go(i, pc)
  PROVE  /\ run' \in [Run -> RunState] /\ Stays(i) /\ run'[i].pc = pc
         /\ run'[i].diff = run[i].diff
<1>1. run' = [run EXCEPT ![i].pc = pc] BY DEF Go
<1>2. run \in [Run -> RunState] BY DEF Types
<1> QED BY <1>1, <1>2 DEF RunState, Stays

LEMMA NoDiff == Empty \in Diff
BY DEF Diff

LEMMA Exits ==
  ASSUME Types, NEW i \in Run, NEW st \in {"0", "1", "2"}, Exit(i, st)
  PROVE  run' \in [Run -> RunState] /\ Stays(i) /\ run'[i].pc = "over"
<1>1. run' = [run EXCEPT ![i].pc = "over", ![i].diff = Empty, ![i].exit = st] BY DEF Exit
<1>2. run \in [Run -> RunState] /\ "over" \in Pc BY DEF Types, Pc
<1> QED BY <1>1, <1>2, NoDiff DEF RunState, Stays

LEMMA Fails ==
  ASSUME Types, NEW i \in Run, NEW pc \in Pc, NEW st \in {"none", "0", "1", "2"}, Failed(i, pc, st)
  PROVE  run' \in [Run -> RunState] /\ Stays(i) /\ run'[i].pc = pc
<1>1. run \in [Run -> RunState] BY DEF Types
<1>2. run[i].tries + 1 \in Nat BY <1>1 DEF RunState
<1>3. [pc |-> pc, diff |-> Empty, tries |-> run[i].tries + 1, exit |-> st] \in RunState
  BY <1>2, NoDiff DEF RunState
<1> QED BY <1>1, <1>3 DEF Failed, Stays

(* Each of the programs                                                     *)
LEMMA BeginOnward ==
  ASSUME IInv, NEW i \in Run, Begin(i)
  PROVE  Onward(i)
<1>1. Types /\ At(i, "begin") /\ Tame /\ fs' = fs /\ checked' = checked
  BY DEF IInv, Types, Begin, client, Tame
<1>2. \/ \E st \in {"0", "1", "2"} : Exit(i, st)
      \/ Mode(i) \in {"trip", "create"} /\ Go(i, "dry")
      \/ Mode(i) = "update" /\ checked \in {NoOne, setup[i].user} /\ Go(i, "dry")
      \/ Mode(i) \in {"checkout", "checkin"} /\ \E pc \in {"write", "remove"} : Go(i, pc)
      \/ checked = NoOne /\ Mode(i) = "auto" /\ Go(i, "trip")
      \/ checked = NoOne /\ Mode(i) \in {"force", "hook"} /\ Go(i, "ktcheck")
  BY DEF Begin, Refused
<1>3. ASSUME NEW st \in {"0", "1", "2"}, Exit(i, st) PROVE Onward(i)
  BY <1>1, <1>3, Exits DEF Onward, At, Lasting, Placed
<1>4. ASSUME NEW pc \in {"dry", "write", "remove", "trip", "ktcheck"}, Go(i, pc),
             Mode(i) = "auto" => pc \notin {"dry", "ktcheck"},
             Mode(i) \in {"checkout", "checkin"} => pc \in {"write", "remove"},
             \/ Mode(i) \in {"trip", "create", "checkout", "checkin"} \/ checked = NoOne
             \/ Mode(i) = "update" /\ checked = setup[i].user
      PROVE  Onward(i)
  <2>1. pc \in Pc /\ pc # "lapply" /\ pc # "begin" BY DEF Pc
  <2>2. run' \in [Run -> RunState] /\ Stays(i) /\ run'[i].pc = pc BY <1>1, <1>4, <2>1, Goes
  <2> QED BY <1>1, <1>4, <2>1, <2>2 DEF Onward, At, Lasting, Placed
<1> QED BY <1>2, <1>3, <1>4

(* The steps that leave the file system alone, and what they go on with     *)
LEMMA GoOnward ==
  ASSUME IInv, NEW i \in Run, Busy(i), ~Looks(i), desc' \in Desc, fs' = fs, checked' = checked,
         Mode(i) \notin {"checkout", "checkin"},
         NEW pc \in Pc \ {"idle", "begin", "dry", "lapply"}, run[i].pc # pc, Go(i, pc),
         Mode(i) = "auto" /\ pc \in Lasting => run[i].pc \in Lasting \/ fs # Work
  PROVE  Onward(i)
<1>1. Types /\ Tame BY DEF IInv, Types, Tame
<1>2. run' \in [Run -> RunState] /\ Stays(i) /\ run'[i].pc = pc BY <1>1, Goes
<1> QED BY <1>1, <1>2 DEF Onward, Placed

LEMMA ExitOnward ==
  ASSUME IInv, NEW i \in Run, run[i].pc # "over", Tame, fs' = fs \/ At(i, "lapply"),
         checked' \in User \cup {NoOne}, NEW st \in {"0", "1", "2"}, Exit(i, st)
  PROVE  Onward(i)
<1>1. Types BY DEF IInv
<1>2. run' \in [Run -> RunState] /\ Stays(i) /\ run'[i].pc = "over" BY <1>1, Exits
<1> QED BY <1>1, <1>2 DEF Onward, Lasting, Placed

LEMMA OwnOnward ==
  ASSUME IInv, NEW i \in Run, Checkout(i) \/ Checkin(i)
  PROVE  Onward(i)
<1>1. Types BY DEF IInv
<1>2. setup[i].user \in User BY <1>1 DEF Types, Setup
<1>3. /\ run[i].pc # "over" /\ Tame /\ fs' = fs /\ checked' \in User \cup {NoOne} /\ Exit(i, "0")
  BY <1>1, <1>2 DEF Types, Checkout, Checkin, At, Tame
<1> QED BY <1>3, ExitOnward

LEMMA KeptTyped ==
  ASSUME Types
  PROVE  Kept \subseteq Desc
BY Numbers DEF Types, Kept

LEMMA KtcheckOnward ==
  ASSUME IInv, NEW i \in Run, KtcheckDry(i) \/ Ktcheck(i) \/ KtcheckAgain(i)
  PROVE  Onward(i)
<1>1. Types /\ Placed(i, run[i]) BY DEF IInv
<1>2. /\ desc' \in Desc /\ fs' = fs /\ checked' = checked /\ Busy(i) /\ ~Looks(i)
      /\ run[i].pc \in {"dry", "ktcheck", "again"}
  BY <1>1, Numbers, KeptTyped
  DEF Types, KtcheckDry, Ktcheck, KtcheckAgain, client, At, Busy, Looks
<1>3. Tame BY <1>1, <1>2 DEF Types, Tame
<1>4. Go(i, "fsdiff") \/ (At(i, "dry") /\ Go(i, "ktcheck")) \/ \E st \in {"0", "1", "2"} : Exit(i, st)
  BY DEF KtcheckDry, Ktcheck, KtcheckAgain, Ktchecked
<1>5. /\ Mode(i) = "auto" => ~At(i, "dry")
      /\ Mode(i) \notin {"checkout", "checkin"}
  BY <1>1, <1>2 DEF Placed, At
<1>6. CASE \E st \in {"0", "1", "2"} : Exit(i, st)
  BY <1>1, <1>2, <1>3, <1>6, ExitOnward DEF Types
<1>7. CASE Go(i, "fsdiff") BY <1>2, <1>5, <1>7, GoOnward DEF Pc, Lasting, At
<1>8. CASE At(i, "dry") /\ Go(i, "ktcheck") BY <1>2, <1>5, <1>8, GoOnward DEF Pc, Lasting, At
<1> QED BY <1>4, <1>6, <1>7, <1>8

LEMMA TripwireOnward ==
  ASSUME IInv, NEW i \in Run, Tripwire(i)
  PROVE  Onward(i)
<1>1. Types /\ Placed(i, run[i]) BY DEF IInv
<1>2. /\ desc' \in Desc /\ fs' = fs /\ checked' = checked /\ Busy(i) /\ ~Looks(i) /\ Tame
      /\ run[i].pc = "trip"
  BY <1>1 DEF Types, Tripwire, client, At, Busy, Looks, Tame
<1>3. TRUE \in Clean => fs # Work BY <1>1, Numbers DEF Types, Clean
<1>4. Mode(i) \notin {"checkout", "checkin"} BY <1>1, <1>2 DEF Placed
<1>5. (Go(i, "ktcheck") /\ TRUE \in Clean) \/ Exit(i, "1")
  BY DEF Tripwire, FsdiffFails, Trip
<1> QED BY <1>1, <1>2, <1>3, <1>4, <1>5, GoOnward, ExitOnward DEF Pc, Types

LEMMA FsdiffOnward ==
  ASSUME IInv, NEW i \in Run, FsdiffCreatable(i) \/ FsdiffApplicable(i) \/ Lcreate(i)
  PROVE  Onward(i)
<1>1. Types /\ Placed(i, run[i]) BY DEF IInv
<1>2. /\ desc' \in Desc /\ fs' = fs /\ checked' = checked /\ Busy(i) /\ ~Looks(i) /\ Tame
      /\ run[i].pc \in {"fsdiff", "store"}
  BY <1>1 DEF Types, FsdiffCreatable, FsdiffApplicable, Lcreate, client, At, Busy, Looks, Tame
<1>3. \/ At(i, "fsdiff") /\ Go(i, "store")
      \/ \E st \in {"0", "1"} : Exit(i, st)
      \/ /\ desc # Absent /\ At(i, "fsdiff") /\ Mode(i) \notin {"trip", "create"}
         /\ \E diff \in {Empty, [from |-> fs, to |-> desc]} : diff # Empty
              /\ run' = [run EXCEPT ![i].pc = "lapply", ![i].diff = diff]
  BY DEF FsdiffCreatable, FsdiffApplicable, Lcreate, FsdiffFails, Found
<1>4. CASE At(i, "fsdiff") /\ Go(i, "store")
  BY <1>1, <1>2, <1>4, GoOnward DEF Pc, At, Lasting, Placed
<1>5. CASE \E st \in {"0", "1"} : Exit(i, st)
  BY <1>1, <1>2, <1>5, ExitOnward DEF Types
<1>6. CASE /\ desc # Absent /\ At(i, "fsdiff") /\ Mode(i) \notin {"trip", "create"}
           /\ \E diff \in {Empty, [from |-> fs, to |-> desc]} : diff # Empty
                /\ run' = [run EXCEPT ![i].pc = "lapply", ![i].diff = diff]
  <2>1. Mode(i) \in {"auto", "force", "hook", "update"}
    BY <1>1, <1>6 DEF Types, Placed, At, Mode, Setup, Modes
  <2>2. PICK diff \in {[from |-> fs, to |-> desc]} :
          diff # Empty /\ run' = [run EXCEPT ![i].pc = "lapply", ![i].diff = diff]
    BY <1>6
  <2>3. desc \in Version \cup {Mixed} BY <1>1, <1>6 DEF Types, Desc
  <2>4. diff \in Diff BY <1>1, <2>2, <2>3 DEF Types, Diff
  <2>5. /\ run' \in [Run -> RunState] /\ Stays(i)
        /\ run'[i].pc = "lapply" /\ run'[i].diff # Empty
    BY <1>1, <2>2, <2>4 DEF Types, RunState, Stays, Pc
  <2> QED BY <1>1, <1>2, <1>6, <2>1, <2>5 DEF Onward, Placed, Lasting, At
<1> QED BY <1>3, <1>4, <1>5, <1>6

LEMMA LapplyOnward ==
  ASSUME IInv, NEW i \in Run, Lapply(i)
  PROVE  Onward(i)
<1>1. Types /\ Placed(i, run[i]) BY DEF IInv
<1>2. /\ desc' = desc /\ checked' = checked /\ At(i, "lapply")
      /\ fs' \in {fs, Partial, run[i].diff.to}
  BY DEF Lapply
<1>3. run[i].diff.to \in Version \cup {Mixed}
  BY <1>1, <1>2 DEF Types, Placed, At, RunState, Diff
<1>4. Tame BY <1>1, <1>2, <1>3, Numbers DEF Types, Tame, Desc, Tree
<1>5. \/ \E st \in {"0", "1", "2"} : Exit(i, st)
      \/ \E pc \in {"begin", "again", "over"}, st \in {"none", "1"} :
           Failed(i, pc, st) /\ (pc = "again" => Mode(i) = "auto")
  BY DEF Lapply, Lapplied, HookAgain
<1>6. CASE \E st \in {"0", "1", "2"} : Exit(i, st)
  BY <1>1, <1>2, <1>4, <1>6, ExitOnward DEF Types, At
<1>7. ASSUME NEW pc \in {"begin", "again", "over"}, NEW st \in {"none", "1"},
             Failed(i, pc, st), pc = "again" => Mode(i) = "auto"
      PROVE  Onward(i)
  <2>1. run' \in [Run -> RunState] /\ Stays(i) /\ run'[i].pc = pc
    BY <1>1, <1>7, Fails DEF Pc
  <2>2. pc = "again" => Busy(i) /\ ~Looks(i) BY <1>2, <1>7 DEF Busy, Looks, At
  <2> QED BY <1>2, <1>4, <1>7, <2>1, <2>2 DEF Onward, Placed, Lasting, At
<1> QED BY <1>5, <1>6, <1>7

LEMMA KilledOnward ==
  ASSUME IInv, NEW i \in Run, Killed(i)
  PROVE  Onward(i)
<1>1. Types BY DEF IInv
<1>2. At(i, "lapply") => run[i].diff.to \in Version \cup {Mixed}
  BY <1>1 DEF IInv, Types, Placed, At, RunState, Diff
<1>3. fs' \in {fs, Partial} \/ (At(i, "lapply") /\ fs' = run[i].diff.to) BY DEF Killed
<1>4. desc' \in Desc BY <1>1, KeptTyped DEF Types, Killed
<1>5. Tame BY <1>1, <1>2, <1>3, <1>4, Numbers DEF Types, Tame, Desc, Tree
<1>6. setup[i].user \in User BY <1>1 DEF Types, Setup
<1>7. checked' \in User \cup {NoOne} BY <1>1, <1>6 DEF Types, Killed
<1> QED BY <1>1, <1>5, <1>7, ExitOnward DEF Killed, At

(* What the others and the properties see of it                             *)
LEMMA StepKeeps ==
  ASSUME IInv, NEW i \in Run, Onward(i), Noticed(i)
  PROVE  IInv'
<1> USE DEF Stays
<1>1. /\ Types /\ setup' = setup /\ server' = server
      /\ \A j \in Run : Placed(j, run[j]) /\ NotBarred(j) /\ NotWork(j)
  BY DEF IInv, Noticed
<1>2. unseen' \in [Run -> SUBSET {"checkout", "work"}]
  BY <1>1 DEF Types, Noticed
<1>3. Types' BY <1>1, <1>2 DEF Types, Onward, Tame
<1>4. /\ \A j \in Run \ {i} :
           \/ checked' \in {checked, NoOne} /\ unseen'[j] = unseen[j]
           \/ checked' \notin {checked, NoOne} /\ unseen'[j] = unseen[j] \cup {"checkout"}
      /\ \/ Looks(i) \/ run'[i].pc = "over" \/ At(i, "trip")
         \/ checked' = checked /\ unseen'[i] = unseen[i]
      /\ At(i, "trip") /\ ~Looks(i) /\ run'[i].pc # "over" => unseen'[i] = unseen[i] \ {"work"}
  BY <1>1 DEF Noticed, Onward, Types
<1>5. ASSUME NEW j \in Run PROVE Placed(j, run[j])'
  BY <1>1 DEF Placed, Mode, Onward
<1>6. ASSUME NEW j \in Run PROVE NotBarred(j)'
  <2>1. CASE j # i BY <1>1, <1>4, <2>1 DEF NotBarred, Busy, Mode, Onward
  <2>2. CASE j = i /\ Busy(i)' /\ Busy(i) /\ ~Looks(i)
    BY <1>1, <1>4, <2>2 DEF NotBarred, Busy, Mode, Onward
  <2>3. CASE j = i /\ Busy(i)' /\ ~(Busy(i) /\ ~Looks(i))
    BY <1>1, <2>3 DEF NotBarred, Busy, Mode, Onward
  <2> QED BY <2>1, <2>2, <2>3 DEF NotBarred
<1>7. ASSUME NEW j \in Run PROVE NotWork(j)'
  <2>1. CASE j # i BY <1>1, <1>4, <2>1 DEF NotWork, Mode, Onward, Tame
  <2>2. CASE j = i
    <3>1. SUFFICES ASSUME Mode(i) = "auto", run'[i].pc \in Lasting, fs' = Work
                   PROVE  "work" \in unseen'[i]
      BY <1>1, <2>2 DEF NotWork, Mode, Lasting
    <3>2. run[i].pc \in Lasting /\ fs = Work BY <3>1 DEF Onward, Tame
    <3>3. "work" \in unseen[i] BY <1>1, <3>1, <3>2 DEF NotWork, Lasting
    <3>4. ~Looks(i) /\ ~At(i, "trip") /\ run'[i].pc # "over"
      BY <3>1, <3>2 DEF Looks, At, Lasting
    <3> QED BY <1>4, <3>3, <3>4
  <2> QED BY <2>1, <2>2
<1> QED BY <1>3, <1>5, <1>6, <1>7 DEF IInv

LEMMA Steps ==
  ASSUME IInv, NEW i \in Run, Program(i) \/ Killed(i)
  PROVE  Onward(i)
BY BeginOnward, OwnOnward, KtcheckOnward, TripwireOnward, FsdiffOnward, LapplyOnward, KilledOnward
DEF Program

LEMMA InvInit == Init => IInv
<1> SUFFICES ASSUME Init PROVE IInv OBVIOUS
<1>1. Types
  <2>1. PICK s \in Starts : server = s.server /\ desc = s.desc /\ fs = s.fs /\ checked = s.checked
                            /\ setup = s.setup
    BY DEF Init
  <2>2. run \in [Run -> RunState] /\ unseen \in [Run -> SUBSET {"checkout", "work"}]
    BY NoDiff DEF Init, RunState, Pc
  <2> QED BY <2>1, <2>2, RashAssumption DEF Types
<1>2. \A i \in Run : run[i].pc = "idle" BY DEF Init
<1> QED BY <1>1, <1>2 DEF IInv, Placed, NotBarred, NotWork, Busy

LEMMA InvNext == IInv /\ [Next]_vars => IInv'
<1> SUFFICES ASSUME IInv, [Next]_vars PROVE IInv' OBVIOUS
<1>1. ASSUME NEW i \in Run, Call(i) PROVE IInv'
  <2>1. Types BY DEF IInv
  <2>2. run' \in [Run -> RunState] /\ Stays(i) /\ run'[i].pc = "begin"
    BY <1>1, <2>1, Goes DEF Call, Pc
  <2>3. /\ setup' = setup /\ server' = server /\ desc' = desc /\ fs' = fs /\ checked' = checked
        /\ unseen' = unseen
    BY <1>1 DEF Call, client
  <2>4. Types' BY <2>1, <2>2, <2>3 DEF Types
  <2> QED BY <2>2, <2>3, <2>4 DEF IInv, Placed, NotBarred, NotWork, Busy, Mode, Stays
<1>2. ASSUME NEW i \in Run, Program(i) \/ Killed(i), Noticed(i) PROVE IInv'
  BY <1>2, Steps, StepKeeps
<1>3. CASE Release
  <2>1. server' \in Version BY <1>3, Numbers DEF IInv, Types, Release, Version
  <2> QED BY <1>3, <2>1
      DEF Release, client, IInv, Types, Placed, NotBarred, NotWork, Busy, Mode
<1>4. CASE Change
  <2>1. /\ setup' = setup /\ server' = server /\ desc' = desc /\ checked' = checked /\ run' = run
        /\ fs' = Work /\ unseen' = [j \in Run |-> unseen[j] \cup {"work"}]
    BY <1>4 DEF Change
  <2>2. Types' BY <2>1, Numbers DEF IInv, Types
  <2> QED BY <2>1, <2>2 DEF IInv, Placed, NotBarred, NotWork, Busy, Mode
<1>5. CASE UNCHANGED vars
  BY <1>5 DEF vars, client, ghosts, IInv, Types, Placed, NotBarred, NotWork, Busy, Mode
<1> QED BY <1>1, <1>2, <1>3, <1>4, <1>5 DEF Next

LEMMA InvHolds == Spec => []IInv
BY InvInit, InvNext, PTL DEF Spec
-----------------------------------------------------------------------------
(* Every variable keeps its range, whatever the tools and the runs do; and  *)
(* only a run that is to apply something comes to lapply                    *)
THEOREM TypeCorrect == Spec => []Types
<1>1. IInv => Types BY DEF IInv
<1> QED BY <1>1, InvHolds, PTL

(* What an administrator has changed is removed by nobody who could know:   *)
(* auto has seen the machine as it should be before, and everybody has seen *)
(* it not checked out, or is the one who has                                *)
THEOREM WorkIsSpared == Spec => WorkSpared
<1> DEFINE Spared ==
      fs = Work /\ fs' # Work =>
        \E i \in Run :
          /\ At(i, "lapply") /\ run'[i] # run[i]
          /\ Mode(i) = "auto" => "work" \in unseen[i]
          /\ \/ checked = NoOne \/ "checkout" \in unseen[i]
             \/ Mode(i) = "update" /\ checked = setup[i].user
<1>1. ASSUME IInv, [Next]_vars PROVE [Spared]_vars
  <2>1. SUFFICES ASSUME fs = Work, fs' # Work PROVE Spared BY DEF Spared
  <2>2. PICK i \in Run : (Program(i) \/ Killed(i)) /\ Noticed(i)
    BY <1>1, <2>1 DEF Next, Call, Release, Change, vars, client
  <2>3. Onward(i) BY <1>1, <2>2, Steps
  <2>4. At(i, "lapply") /\ run'[i] # run[i] BY <2>1, <2>3 DEF Onward
  <2>5. Placed(i, run[i]) /\ NotBarred(i) /\ NotWork(i) BY <1>1 DEF IInv
  <2>6. Mode(i) = "auto" => "work" \in unseen[i] BY <2>1, <2>4, <2>5 DEF NotWork, At
  <2>7. \/ checked = NoOne \/ "checkout" \in unseen[i]
        \/ Mode(i) = "update" /\ checked = setup[i].user
    BY <2>4, <2>5 DEF NotBarred, Placed, Busy, At
  <2> QED BY <2>4, <2>6, <2>7
<1> QED BY <1>1, InvHolds, PTL DEF Spec, WorkSpared
-----------------------------------------------------------------------------
(* A run that nothing has come in the way of does what is meant.  For this  *)
(* the ranges of what is only there for the properties:                     *)
Meets(w, s, d, f, c, st) == [desc |-> d, fs |-> f, checked |-> c, ok |-> st = "0"] \in Meant(w, s)
Finding == [server : Version, desc : Desc, fs : Tree, checked : User \cup {NoOne}]

Ranges ==
  /\ was \in [Run -> Finding] /\ failed \in [Run -> SUBSET Pc]
  /\ alone \subseteq Run /\ fresh \subseteq Run /\ faults \in Nat

(* Which steps a command has                                                *)
Places(m) ==
  CASE m = "trip"     -> {"dry", "fsdiff"}
    [] m = "create"   -> {"dry", "ktcheck", "fsdiff", "store"}
    [] m = "update"   -> {"dry", "ktcheck", "fsdiff", "lapply"}
    [] m = "auto"     -> {"trip", "ktcheck", "again", "fsdiff", "lapply"}
    [] m = "checkout" -> {"write"}
    [] m = "checkin"  -> {"remove"}
    [] OTHER          -> {"ktcheck", "fsdiff", "lapply"}

Posted(i)   == run[i].pc \in {"idle", "begin", "over"} \cup Places(Mode(i))
FirstTry(i) == Mode(i) = "auto" /\ run[i].pc \in {"idle", "begin", "trip", "ktcheck"} => run[i].tries = 0

(* While nobody else changes anything, what is to be applied is what has    *)
(* been found                                                               *)
Lone(i) ==
  i \in alone =>
    /\ server = was[i].server /\ ~At(i, "idle")
    /\ At(i, "lapply") => i \in fresh /\ run[i].diff = [from |-> fs, to |-> desc]

Retries(i) == Mode(i) = "auto" \/ (Mode(i) = "hook" /\ setup[i].flag /\ "ktcheck" \notin failed[i])
Mended(i) ==
  Over(i) /\ i \in alone /\ run[i].tries > 0 /\ Retries(i) => fs = desc \/ run[i].exit = "1"

(* What has failed in a run that goes on, or ends with 0                    *)
Heard(i) == (Over(i) => Succeeded(i)) => failed[i] \subseteq Forgotten(Mode(i))

(* Only lapply changes the file system                                      *)
Whole(i) ==
  i \in alone /\ "lapply" \notin failed[i] =>
    fs = was[i].fs \/ (Over(i) /\ fs = desc)

(* What a run that has got beyond its first step has found                  *)
Looked(w, s, pc) ==
  /\ s.mode \in {"auto", "force", "hook"} => w.checked = NoOne
  /\ s.mode = "update" => w.checked \in {NoOne, s.user}
  /\ s.mode = "checkout" => w.checked # s.user
  /\ s.mode = "checkin" => w.checked = s.user
  /\ s.mode = "trip" => w.desc # Absent
  /\ s.mode = "auto" /\ pc # "trip" => w.desc # Absent /\ w.fs = w.desc

(* With which description a run comes to compare                            *)
Compared(w, s, d) ==
  /\ d \in {w.desc, w.server}
  /\ s.mode = "trip" => d = w.desc
  /\ s.mode \in {"force", "hook", "auto"} => d = w.server
  /\ s.mode = "hook" => w.desc # w.server \/ s.flag
  /\ s.mode = "auto" => w.desc # w.server

(* Where a run is, with nothing failed                                      *)
OnPlan(w, s, r, d, f, c) ==
  /\ r.pc # "over" => f = w.fs /\ c = w.checked
  /\ r.pc \notin {"begin", "over"} => Looked(w, s, r.pc)
  /\ r.pc \in {"begin", "dry", "ktcheck", "trip", "write", "remove"} => d = w.desc
  /\ r.pc = "ktcheck" /\ s.mode \in {"create", "update"} => d # w.server
  /\ r.pc \in {"fsdiff", "store", "lapply"} => Compared(w, s, d)
  /\ r.pc \in {"store", "lapply"} => d # Absent /\ d # f
  /\ r.pc = "lapply" /\ s.mode = "auto" => ~Mismatch(s, r.diff)
  /\ r.pc # "again"
  /\ r.pc = "over" => Meets(w, s, d, f, c, r.exit)

Calm(i) == i \in alone /\ failed[i] = {} /\ was[i].fs # Mixed

Near(i) ==
  /\ Posted(i) /\ FirstTry(i) /\ Lone(i) /\ Mended(i) /\ Heard(i) /\ Whole(i)
  /\ Calm(i) => OnPlan(was[i], setup[i], run[i], desc, fs, checked)

AInv == IInv /\ Ranges /\ \A i \in Run : Near(i)
-----------------------------------------------------------------------------
(* The table of outcomes, in the order in which runs come to them           *)
LEMMA MeantRefused ==
  ASSUME NEW w \in Finding, NEW s \in Setup,
         \/ s.mode = "trip" /\ w.desc = Absent
         \/ s.mode \in {"auto", "force", "hook", "update", "checkout"} /\ w.checked # NoOne
         \/ s.mode = "auto" /\ (w.desc = Absent \/ w.fs # w.desc)
         \/ s.mode = "checkin" /\ w.checked # s.user
         \/ s.mode = "create" /\ w.desc \in {Absent, w.fs}
         \/ s.mode = "update" /\ w.desc = Absent /\ w.checked = s.user
  PROVE  Meets(w, s, w.desc, w.fs, w.checked, "1")
<1> USE DEF Meant, Meets
<1>1. CASE s.mode = "trip"
  <2>1. w.desc # w.server BY <1>1, Numbers DEF Finding
  <2> QED BY <1>1, <2>1
<1>2. CASE s.mode \in {"force", "hook"} BY <1>2
<1>3. CASE s.mode = "auto" BY <1>3
<1>4. CASE s.mode = "update" BY <1>4
<1>5. CASE s.mode = "checkout" BY <1>5
<1>6. CASE s.mode = "checkin" BY <1>6
<1>7. CASE s.mode = "create" BY <1>7
<1> QED BY <1>1, <1>2, <1>3, <1>4, <1>5, <1>6, <1>7

LEMMA MeantSame ==
  ASSUME NEW w \in Finding, NEW s \in Setup,
         \/ s.mode = "trip" /\ w.desc # Absent
         \/ s.mode = "hook" /\ w.checked = NoOne /\ w.desc = w.server /\ ~s.flag
         \/ s.mode = "auto" /\ w.checked = NoOne /\ w.desc # Absent /\ w.fs = w.desc /\ w.desc = w.server
  PROVE  Meets(w, s, w.desc, w.fs, w.checked, "0")
BY DEF Meant, Meets

LEMMA MeantOwned ==
  ASSUME NEW w \in Finding, NEW s \in Setup
  PROVE  /\ s.mode = "checkout" /\ w.checked # s.user
            => Meets(w, s, w.desc, w.fs, s.user, "0")
         /\ s.mode = "checkin" /\ w.checked = s.user
            => Meets(w, s, w.desc, w.fs, NoOne, "0")
BY DEF Meant, Meets

LEMMA MeantCreated ==
  ASSUME NEW w \in Finding, NEW s \in Setup, s.mode = "create", NEW d \in {w.desc, w.server}
  PROVE  /\ d \in {Absent, w.fs} => Meets(w, s, d, w.fs, w.checked, "1")
         /\ d \notin {Absent, w.fs} => Meets(w, s, d, w.fs, w.checked, "0")
BY DEF Meant, Meets

LEMMA MeantUpdate ==
  ASSUME NEW w \in Finding, NEW s \in Setup, s.mode = "update", w.checked \in {NoOne, s.user},
         NEW d \in {w.desc, w.server}
  PROVE  /\ d = Absent => Meets(w, s, w.desc, w.fs, w.checked, "1")
         /\ d # Absent => \A f \in {w.fs, d} :
                            Meets(w, s, d, f, w.checked, "0")
<1>1. ASSUME d = Absent PROVE Meets(w, s, w.desc, w.fs, w.checked, "1")
  BY <1>1 DEF Meant, Meets
<1>2. ASSUME d # Absent, NEW f \in {w.fs, d} PROVE Meets(w, s, d, f, w.checked, "0")
  <2>1. [desc |-> d, fs |-> f, checked |-> w.checked, ok |-> TRUE] \in Meant(w, s)
    BY <1>2 DEF Meant
  <2> QED BY <2>1 DEF Meets
<1> QED BY <1>1, <1>2

LEMMA MeantUpdated ==
  ASSUME NEW w \in Finding, NEW s \in Setup, w.checked = NoOne,
         \/ s.mode = "force"
         \/ s.mode = "hook" /\ (w.desc # w.server \/ s.flag)
         \/ /\ s.mode = "auto" /\ w.desc # Absent /\ w.fs = w.desc /\ w.desc # w.server
            /\ ~Mismatch(s, [from |-> w.fs, to |-> w.server])
  PROVE  Meets(w, s, w.server, w.server, w.checked, "0")
BY DEF Meant, Meets

LEMMA MeantUnlike ==
  ASSUME NEW w \in Finding, NEW s \in Setup, w.checked = NoOne, s.mode = "auto",
         w.desc # Absent, w.fs = w.desc, w.desc # w.server,
         Mismatch(s, [from |-> w.fs, to |-> w.server])
  PROVE  Meets(w, s, w.server, w.fs, w.checked, "1")
BY DEF Meant, Meets
-----------------------------------------------------------------------------
(* What is the same for every step of a run                                 *)
LEMMA AloneStill ==
  ASSUME AInv, NEW i \in Run, Noticed(i), i \in alone'
  PROVE  /\ i \in alone /\ was' = was /\ setup' = setup /\ server' = server
         /\ server = was[i].server /\ ~At(i, "idle")
         /\ At(i, "lapply") => i \in fresh /\ run[i].diff = [from |-> fs, to |-> desc]
<1>1. i \in alone /\ was' = was /\ setup' = setup /\ server' = server BY DEF Noticed
<1>2. Lone(i) BY DEF AInv, Near
<1> QED BY <1>1, <1>2 DEF Lone

(* What a step adds to what has failed                                      *)
LEMMA FailedBy ==
  ASSUME AInv, NEW i \in Run, Noticed(i)
  PROVE  /\ failed'[i] = failed[i] \/ failed'[i] = failed[i] \cup {run[i].pc}
         /\ faults' = faults /\ ~At(i, "lapply") => failed'[i] = failed[i]
         /\ At(i, "lapply") /\ fs' # run[i].diff.to => "lapply" \in failed'[i]
BY DEF AInv, Ranges, Noticed, At

LEMMA CalmStill ==
  ASSUME AInv, NEW i \in Run, Noticed(i), Calm(i)'
  PROVE  /\ faults' = faults /\ was' = was /\ setup' = setup /\ server' = server
         /\ i \in alone' /\ was[i].fs # Mixed /\ server = was[i].server
         /\ OnPlan(was[i], setup[i], run[i], desc, fs, checked)
<1>1. i \in alone' BY DEF Calm
<1>2. i \in alone /\ was' = was /\ setup' = setup /\ server' = server /\ server = was[i].server
  BY <1>1, AloneStill
<1>3. failed \in [Run -> SUBSET Pc] /\ failed'[i] = {} /\ was[i].fs # Mixed
  BY <1>2 DEF AInv, Ranges, Calm
<1>4. faults' = faults BY <1>3 DEF Noticed
<1>5. failed[i] = {} BY <1>3, FailedBy
<1> QED BY <1>1, <1>2, <1>3, <1>4, <1>5 DEF AInv, Near, Calm

(* A run goes on to its next step                                           *)
LEMMA GoNear ==
  ASSUME AInv, NEW i \in Run, Noticed(i), NEW pc, Go(i, pc), setup'[i] = setup[i],
         pc \in Places(Mode(i)), pc \notin {"lapply", "over", "idle", "begin"}, pc \in Pc,
         Mode(i) = "auto" /\ pc \in {"trip", "ktcheck"} => run[i].pc \in {"begin", "trip"},
         fs' = fs, ~At(i, "lapply"), ~At(i, "over"), NoFault \/ run[i].pc \in Forgotten(Mode(i)),
         Calm(i)' => OnPlan(was[i], setup[i], [run[i] EXCEPT !.pc = pc], desc', fs', checked')
  PROVE  Near(i)'
<1>1. Types /\ run \in [Run -> RunState] BY DEF AInv, IInv, Types
<1>2. run' = [run EXCEPT ![i].pc = pc] BY DEF Go
<1>3. run'[i] = [run[i] EXCEPT !.pc = pc] BY <1>1, <1>2
<1>4. run'[i].pc = pc /\ run'[i].tries = run[i].tries BY <1>1, <1>3 DEF RunState
<1>5. Mode(i)' = Mode(i) BY DEF Mode
<1>6. Posted(i)' BY <1>4, <1>5 DEF Posted
<1>7. FirstTry(i)' BY <1>4, <1>5 DEF AInv, Near, FirstTry
<1>8. Lone(i)' BY <1>4, AloneStill DEF Lone, At
<1>9. Mended(i)' BY <1>4 DEF Mended, Over, At
<1>10. Calm(i)' => OnPlan(was[i], setup[i], run[i], desc, fs, checked)'
  <2> SUFFICES ASSUME Calm(i)' PROVE OnPlan(was'[i], setup'[i], run'[i], desc', fs', checked') OBVIOUS
  <2>1. was' = was BY CalmStill
  <2> QED BY <1>3, <2>1
<1>11. Heard(i)'
  <2>1. failed'[i] \subseteq failed[i] \cup {run[i].pc} BY FailedBy
  <2>2. NoFault => failed'[i] = failed[i] BY FailedBy DEF NoFault
  <2>3. failed[i] \subseteq Forgotten(Mode(i)) BY DEF AInv, Near, Heard, Over
  <2> QED BY <1>5, <2>1, <2>2, <2>3 DEF Heard
<1>12. Whole(i)'
  <2>1. i \in alone' => i \in alone /\ was' = was BY AloneStill
  <2>2. failed[i] \subseteq failed'[i] BY FailedBy
  <2> QED BY <2>1, <2>2 DEF AInv, Near, Whole, Over
<1> QED BY <1>6, <1>7, <1>8, <1>9, <1>10, <1>11, <1>12 DEF Near

(* A run ends                                                               *)
LEMMA ExitNear ==
  ASSUME AInv, NEW i \in Run, Noticed(i), NEW st \in {"0", "1", "2"}, Exit(i, st),
         ~At(i, "over"), fs' = fs \/ (At(i, "lapply") /\ desc' = desc),
         st = "0" => (NoFault /\ ~At(i, "lapply")) \/ run[i].pc \in Forgotten(Mode(i)),
         i \in alone' /\ run[i].tries > 0 /\ Retries(i)' => fs' = desc' \/ st = "1",
         Calm(i)' => Meets(was[i], setup[i], desc', fs', checked', st)
  PROVE  Near(i)'
<1>1. Types /\ run \in [Run -> RunState] BY DEF AInv, IInv, Types
<1>2. run' = [run EXCEPT ![i].pc = "over", ![i].diff = Empty, ![i].exit = st] BY DEF Exit
<1>3. run'[i].pc = "over" /\ run'[i].tries = run[i].tries /\ run'[i].exit = st
  BY <1>1, <1>2 DEF RunState
<1>4. Posted(i)' /\ FirstTry(i)' BY <1>3 DEF Posted, FirstTry
<1>5. Lone(i)' BY <1>3, AloneStill DEF Lone, At
<1>6. Mended(i)' BY <1>3 DEF Mended
<1>7. Calm(i)' => OnPlan(was[i], setup[i], run[i], desc, fs, checked)'
  <2> SUFFICES ASSUME Calm(i)' PROVE OnPlan(was'[i], setup'[i], run'[i], desc', fs', checked') OBVIOUS
  <2>1. was' = was /\ setup' = setup BY CalmStill
  <2> QED BY <1>3, <2>1 DEF OnPlan
<1>8. Heard(i)'
  <2>1. failed'[i] \subseteq failed[i] \cup {run[i].pc} BY FailedBy
  <2>2. NoFault /\ ~At(i, "lapply") => failed'[i] = failed[i] BY FailedBy DEF NoFault
  <2>3. failed[i] \subseteq Forgotten(Mode(i)) BY DEF AInv, Near, Heard, Over
  <2>4. Mode(i)' = Mode(i) BY DEF Mode, Noticed
  <2> QED BY <1>3, <2>1, <2>2, <2>3, <2>4 DEF Heard, Over, Succeeded, At
<1>9. Whole(i)'
  <2> SUFFICES ASSUME i \in alone', "lapply" \notin failed'[i]
               PROVE  fs' \in {was'[i].fs, desc'}
    BY <1>3 DEF Whole, Over, At
  <2>1. i \in alone /\ was' = was /\ (At(i, "lapply") => run[i].diff = [from |-> fs, to |-> desc])
    BY AloneStill
  <2>2. "lapply" \notin failed[i] BY FailedBy
  <2>3. fs = was[i].fs BY <2>1, <2>2 DEF AInv, Near, Whole, Over
  <2>4. At(i, "lapply") => fs' = desc
    <3>1. At(i, "lapply") => fs' = run[i].diff.to BY FailedBy
    <3> QED BY <2>1, <3>1
  <2> QED BY <2>1, <2>3, <2>4
<1> QED BY <1>4, <1>5, <1>6, <1>7, <1>8, <1>9 DEF Near

LEMMA Known ==
  ASSUME AInv, NEW i \in Run
  PROVE  /\ was[i] \in Finding /\ setup[i] \in Setup /\ run[i].pc \in Pc /\ run[i].tries \in Nat
         /\ Posted(i) /\ FirstTry(i) /\ faults \in Nat
         /\ desc \in Desc /\ fs \in Tree /\ server \in Version
BY DEF AInv, IInv, Types, Ranges, Near, RunState

LEMMA BeginNear ==
  ASSUME AInv, NEW i \in Run, Begin(i), Noticed(i)
  PROVE  Near(i)'
<1> DEFINE w == was[i]
           s == setup[i]
<1>1. At(i, "begin") /\ desc' = desc /\ fs' = fs /\ checked' = checked /\ setup' = setup
      /\ NoFault
  BY DEF Begin, client, Noticed
<1>2. w \in Finding /\ s \in Setup /\ s.mode \in Modes BY Known DEF Setup
<1>3. Calm(i)' => desc = w.desc /\ fs = w.fs /\ checked = w.checked
  BY <1>1, CalmStill DEF OnPlan, At
<1>4. \/ /\ Exit(i, "1")
         /\ \/ s.mode = "trip" /\ desc = Absent
            \/ s.mode \in {"auto", "force", "hook", "update", "checkout"} /\ checked # NoOne
            \/ s.mode = "checkin" /\ checked # s.user
      \/ \E pc \in {"dry", "trip", "ktcheck", "write", "remove"} :
           /\ Go(i, pc)
           /\ pc \in Places(s.mode) /\ (s.mode = "auto" => pc = "trip")
           /\ s.mode \notin {"create", "update"} \/ pc # "ktcheck"
           /\ s.mode = "trip" => desc # Absent
           /\ s.mode \in {"auto", "force", "hook"} => checked = NoOne
           /\ s.mode = "update" => checked \in {NoOne, s.user}
           /\ s.mode = "checkout" => checked # s.user
           /\ s.mode = "checkin" => checked = s.user
  <2> USE DEF Begin, Mode, Refused, Places
  <2>1. CASE s.mode = "trip" BY <2>1
  <2>2. CASE s.mode = "create" BY <2>2
  <2>3. CASE s.mode = "update" BY <2>3
  <2>4. CASE s.mode \in {"auto", "force", "hook"} BY <2>4
  <2>5. CASE s.mode = "checkout" BY <2>5
  <2>6. CASE s.mode = "checkin" BY <2>6
  <2> QED BY <1>2, <2>1, <2>2, <2>3, <2>4, <2>5, <2>6 DEF Modes
<1>5. ASSUME Exit(i, "1"),
             \/ s.mode = "trip" /\ desc = Absent
             \/ s.mode \in {"auto", "force", "hook", "update", "checkout"} /\ checked # NoOne
             \/ s.mode = "checkin" /\ checked # s.user
      PROVE  Near(i)'
  <2>1. Calm(i)' => Meets(w, s, desc', fs', checked', "1")
    BY <1>1, <1>2, <1>3, <1>5, MeantRefused
  <2> QED BY <1>1, <1>5, <2>1, ExitNear DEF At
<1>6. ASSUME NEW pc \in {"dry", "trip", "ktcheck", "write", "remove"}, Go(i, pc),
             pc \in Places(s.mode), s.mode = "auto" => pc = "trip",
             s.mode \notin {"create", "update"} \/ pc # "ktcheck",
             s.mode = "trip" => desc # Absent,
             s.mode \in {"auto", "force", "hook"} => checked = NoOne,
             s.mode = "update" => checked \in {NoOne, s.user},
             s.mode = "checkout" => checked # s.user,
             s.mode = "checkin" => checked = s.user
      PROVE  Near(i)'
  <2>1. ASSUME Calm(i)'
        PROVE  OnPlan(w, s, [run[i] EXCEPT !.pc = pc], desc', fs', checked')
    <3>1. [run[i] EXCEPT !.pc = pc].pc = pc BY DEF AInv, IInv, Types, RunState
    <3>2. Looked(w, s, pc) BY <1>3, <1>6, <2>1 DEF Looked
    <3> QED BY <1>1, <1>3, <1>6, <2>1, <3>1, <3>2 DEF OnPlan
  <2> QED BY <1>1, <1>6, <2>1, GoNear DEF Pc, At, Mode
<1> QED BY <1>4, <1>5, <1>6

LEMMA OwnNear ==
  ASSUME AInv, NEW i \in Run, Noticed(i), Checkout(i) \/ Checkin(i)
  PROVE  Near(i)'
<1> DEFINE w == was[i]
           s == setup[i]
<1>1. w \in Finding /\ s \in Setup /\ s.mode \in Modes /\ Posted(i) BY Known DEF Setup
<1>2. \/ At(i, "write") /\ s.mode = "checkout" /\ checked' = s.user
      \/ At(i, "remove") /\ s.mode = "checkin" /\ checked' = NoOne
  BY <1>1 DEF Checkout, Checkin, At, Posted, Places, Mode, Modes
<1>3. Exit(i, "0") /\ desc' = desc /\ fs' = fs /\ NoFault BY DEF Checkout, Checkin
<1>4. Calm(i)' => desc = w.desc /\ fs = w.fs /\ Looked(w, s, run[i].pc)
  BY <1>2, CalmStill DEF OnPlan, At
<1>5. Calm(i)' => Meets(w, s, desc', fs', checked', "0")
  BY <1>1, <1>2, <1>3, <1>4, MeantOwned DEF Looked
<1>6. ~Retries(i)' BY <1>2 DEF Retries, Mode, Noticed
<1> QED BY <1>2, <1>3, <1>5, <1>6, ExitNear DEF At

LEMMA DryNear ==
  ASSUME AInv, NEW i \in Run, Noticed(i), KtcheckDry(i)
  PROVE  Near(i)'
<1> DEFINE w == was[i]
           s == setup[i]
<1>1. w \in Finding /\ s \in Setup /\ s.mode \in Modes /\ Posted(i) /\ faults \in Nat
  BY Known DEF Setup
<1>2. s.mode \in {"trip", "create", "update"} /\ At(i, "dry") /\ setup' = setup
  BY <1>1 DEF KtcheckDry, At, Posted, Places, Mode, Modes, Noticed
<1>3. desc' = desc /\ fs' = fs /\ checked' = checked BY DEF KtcheckDry, client
<1>4. ASSUME Calm(i)'
      PROVE  /\ server = w.server /\ desc = w.desc /\ fs = w.fs /\ checked = w.checked
             /\ Looked(w, s, "dry") /\ faults' = faults
  BY <1>2, <1>4, CalmStill DEF OnPlan, At
<1>5. ASSUME NEW pc \in {"fsdiff", "ktcheck"}, Go(i, pc), NoFault,
             pc = "ktcheck" => desc # server /\ s.mode # "trip"
      PROVE  Near(i)'
  <2>1. ASSUME Calm(i)'
        PROVE  OnPlan(w, s, [run[i] EXCEPT !.pc = pc], desc', fs', checked')
    <3>1. [run[i] EXCEPT !.pc = pc].pc = pc BY DEF AInv, IInv, Types, RunState
    <3>2. Looked(w, s, pc) /\ Compared(w, s, desc)
      BY <1>2, <1>4, <2>1 DEF Looked, Compared
    <3> QED BY <1>2, <1>3, <1>4, <1>5, <2>1, <3>1, <3>2 DEF OnPlan
  <2>2. pc \in Places(s.mode) BY <1>2, <1>5 DEF Places
  <2> QED BY <1>2, <1>3, <1>5, <2>1, <2>2, GoNear DEF Pc, Mode, At
<1>6. ASSUME Fault, Exit(i, "0") PROVE Near(i)'
  <2>1. faults' # faults BY <1>1, <1>6 DEF Fault
  <2>2. ~Retries(i)' BY <1>2 DEF Retries, Mode
  <2>3. run[i].pc \in Forgotten(Mode(i)) BY <1>2 DEF Forgotten, At, Mode
  <2> QED BY <1>2, <1>3, <1>4, <1>6, <2>1, <2>2, <2>3, ExitNear DEF At
<1> QED BY <1>5, <1>6 DEF KtcheckDry, Mode

LEMMA KtcheckNear ==
  ASSUME AInv, NEW i \in Run, Noticed(i), Ktcheck(i)
  PROVE  Near(i)'
<1> DEFINE w == was[i]
           s == setup[i]
<1>1. w \in Finding /\ s \in Setup /\ s.mode \in Modes /\ Posted(i) /\ FirstTry(i) /\ faults \in Nat
  BY Known DEF Setup
<1>2. /\ s.mode \in {"create", "update", "auto", "force", "hook"} /\ At(i, "ktcheck")
      /\ setup' = setup /\ fs' = fs /\ checked' = checked
  BY <1>1 DEF Ktcheck, At, Posted, Places, Mode, Modes, Noticed
<1>3. ASSUME Calm(i)'
      PROVE  /\ server = w.server /\ desc = w.desc /\ fs = w.fs /\ checked = w.checked
             /\ Looked(w, s, "ktcheck") /\ faults' = faults
             /\ s.mode \in {"create", "update"} => desc # server
  BY <1>2, <1>3, CalmStill DEF OnPlan, At
<1>4. ASSUME Go(i, "fsdiff"), NoFault, desc' = server,
             desc = server => s.mode \in {"force", "hook"} /\ (s.mode = "hook" => s.flag)
      PROVE  Near(i)'
  <2>1. ASSUME Calm(i)'
        PROVE  OnPlan(w, s, [run[i] EXCEPT !.pc = "fsdiff"], desc', fs', checked')
    <3>1. [run[i] EXCEPT !.pc = "fsdiff"].pc = "fsdiff" BY DEF AInv, IInv, Types, RunState
    <3>2. Looked(w, s, "fsdiff") BY <1>2, <1>3, <2>1 DEF Looked
    <3>3. Compared(w, s, desc') BY <1>2, <1>3, <1>4, <2>1 DEF Compared, NoFault
    <3> QED BY <1>2, <1>3, <2>1, <3>1, <3>2, <3>3 DEF OnPlan
  <2>2. "fsdiff" \in Places(s.mode) BY <1>2 DEF Places
  <2> QED BY <1>2, <1>4, <2>1, <2>2, GoNear DEF Pc, Mode, At
<1>5. ASSUME NEW st \in {"0", "2"}, Exit(i, st),
             s.mode = "hook" => Fault \/ ~s.flag,
             st = "0" => NoFault \/ s.mode \in {"auto", "force", "hook"},
             NoFault => desc = server /\ desc' = server /\ st = "0" /\ s.mode # "force"
      PROVE  Near(i)'
  <2>1. ASSUME i \in alone', run[i].tries > 0, Retries(i)' PROVE FALSE
    <3>1. s.mode = "hook" /\ s.flag /\ "ktcheck" \notin failed'[i]
      BY <1>1, <1>2, <2>1 DEF Retries, Mode, FirstTry, At
    <3>2. faults' # faults BY <1>1, <1>5, <3>1 DEF Fault
    <3>3. failed' = [failed EXCEPT ![i] = @ \cup {run[i].pc}] BY <3>2 DEF Noticed
    <3>4. "ktcheck" \in failed'[i] BY <1>2, <3>3 DEF AInv, Ranges, At
    <3> QED BY <3>1, <3>4
  <2>2. ASSUME Calm(i)' PROVE Meets(w, s, desc', fs', checked', st)
    <3>1. NoFault /\ ~Fault BY <1>1, <1>3, <2>2 DEF NoFault, Fault
    <3>2. s.mode \in {"auto", "hook"} BY <1>2, <1>3, <1>5, <2>2, <3>1
    <3> QED BY <1>1, <1>2, <1>3, <1>5, <2>2, <3>1, <3>2, MeantSame DEF Looked
  <2>3. st = "0" => NoFault \/ run[i].pc \in Forgotten(Mode(i)) BY <1>2, <1>5 DEF Forgotten, At, Mode
  <2> QED BY <1>2, <1>5, <2>1, <2>2, <2>3, ExitNear DEF At
<1>6. CASE NoFault /\ desc' = server /\ Ktchecked(i, "1") /\ desc # server
  <2>1. Go(i, "fsdiff") BY <1>2, <1>6 DEF Ktchecked, Mode
  <2> QED BY <1>4, <1>6, <2>1
<1>7. CASE NoFault /\ desc' = server /\ Ktchecked(i, "0") /\ desc = server
  <2>1. \/ Go(i, "fsdiff") /\ s.mode \in {"force", "hook"} /\ (s.mode = "hook" => s.flag)
        \/ Exit(i, "0") /\ s.mode # "force" /\ (s.mode = "hook" => ~s.flag)
    BY <1>1, <1>2, <1>7 DEF Ktchecked, Mode, Setup
  <2> QED BY <1>4, <1>5, <1>7, <2>1
<1>8. CASE Fault /\ Ktchecked(i, "2")
  <2>1. \E st \in {"0", "2"} : Exit(i, st) /\ (st = "0" => s.mode \in {"auto", "force", "hook"})
    BY <1>2, <1>8 DEF Ktchecked, Mode
  <2>2. ~NoFault BY <1>1, <1>8 DEF Fault, NoFault
  <2> QED BY <1>5, <1>8, <2>1, <2>2
<1>9. \/ NoFault /\ desc' = server /\ Ktchecked(i, "1") /\ desc # server
      \/ NoFault /\ desc' = server /\ Ktchecked(i, "0") /\ desc = server
      \/ Fault /\ Ktchecked(i, "2")
  BY DEF Ktcheck
<1> QED BY <1>6, <1>7, <1>8, <1>9

LEMMA AgainNear ==
  ASSUME AInv, NEW i \in Run, Noticed(i), KtcheckAgain(i)
  PROVE  Near(i)'
<1>1. Posted(i) /\ setup[i] \in Setup BY Known
<1>2. /\ Mode(i) = "auto" /\ At(i, "again") /\ Go(i, "fsdiff") /\ setup' = setup
      /\ fs' = fs
  BY <1>1 DEF KtcheckAgain, At, Posted, Places, Mode, Modes, Setup, Noticed
<1>3. ~Calm(i)' BY <1>2, CalmStill DEF OnPlan, At
<1>4. run[i].pc \in Forgotten(Mode(i)) BY <1>2 DEF Forgotten, At
<1> QED BY <1>2, <1>3, <1>4, GoNear DEF Places, Pc, At

LEMMA TripwireNear ==
  ASSUME AInv, NEW i \in Run, Noticed(i), Tripwire(i)
  PROVE  Near(i)'
<1> DEFINE w == was[i]
           s == setup[i]
<1>1. w \in Finding /\ s \in Setup /\ s.mode \in Modes /\ Posted(i) /\ faults \in Nat
  BY Known DEF Setup
<1>2. /\ s.mode = "auto" /\ At(i, "trip") /\ setup' = setup
      /\ desc' = desc /\ fs' = fs /\ checked' = checked
  BY <1>1 DEF Tripwire, At, Posted, Places, Mode, Modes, Noticed, client
<1>3. ASSUME Calm(i)'
      PROVE  /\ server = w.server /\ desc = w.desc /\ fs = w.fs /\ checked = w.checked
             /\ w.checked = NoOne /\ faults' = faults /\ fs # Mixed
  BY <1>2, <1>3, CalmStill DEF OnPlan, At, Looked
<1>4. CASE desc # Absent /\ TRUE \in Clean /\ Go(i, "ktcheck") /\ NoFault
  <2>1. ASSUME Calm(i)'
        PROVE  OnPlan(w, s, [run[i] EXCEPT !.pc = "ktcheck"], desc', fs', checked')
    <3>1. [run[i] EXCEPT !.pc = "ktcheck"].pc = "ktcheck" BY DEF AInv, IInv, Types, RunState
    <3>2. fs = desc BY <1>3, <1>4, <2>1 DEF Clean
    <3>3. Looked(w, s, "ktcheck") BY <1>2, <1>3, <1>4, <2>1, <3>2 DEF Looked
    <3> QED BY <1>2, <1>3, <2>1, <3>1, <3>3 DEF OnPlan
  <2>2. "ktcheck" \in Places(s.mode) BY <1>2 DEF Places
  <2> QED BY <1>2, <1>4, <2>1, <2>2, GoNear DEF Pc, Mode, At
<1>5. CASE Exit(i, "1") /\ (Fault \/ desc = Absent \/ FALSE \in Clean)
  <2>1. ASSUME Calm(i)' PROVE Meets(w, s, desc', fs', checked', "1")
    <3>1. ~Fault BY <1>1, <1>3, <2>1 DEF Fault
    <3>2. desc = Absent \/ fs # desc BY <1>3, <1>5, <2>1, <3>1 DEF Clean
    <3> QED BY <1>1, <1>2, <1>3, <2>1, <3>2, MeantRefused
  <2> QED BY <1>2, <1>5, <2>1, ExitNear DEF At
<1> QED BY <1>4, <1>5 DEF Tripwire, FsdiffFails, Trip

LEMMA CreateNear ==
  ASSUME AInv, NEW i \in Run, Noticed(i), FsdiffCreatable(i) \/ Lcreate(i)
  PROVE  Near(i)'
<1> DEFINE w == was[i]
           s == setup[i]
<1>1. w \in Finding /\ s \in Setup /\ s.mode \in Modes /\ Posted(i) /\ faults \in Nat
  BY Known DEF Setup
<1>2. /\ s.mode \in {"trip", "create"} /\ run[i].pc \in {"fsdiff", "store"} /\ setup' = setup
      /\ run[i].pc = "store" => s.mode = "create"
      /\ desc' = desc /\ fs' = fs /\ checked' = checked
  BY <1>1 DEF FsdiffCreatable, Lcreate, At, Posted, Places, Mode, Modes, Noticed, client
<1>3. ASSUME Calm(i)'
      PROVE  /\ fs = w.fs /\ checked = w.checked /\ desc \in {w.desc, w.server} /\ fs # Mixed
             /\ Looked(w, s, run[i].pc) /\ faults' = faults
             /\ s.mode = "trip" => desc = w.desc
             /\ run[i].pc = "store" => desc # Absent /\ desc # fs
  BY <1>2, <1>3, CalmStill DEF OnPlan, Compared
<1>4. ASSUME At(i, "fsdiff"), s.mode = "create", desc # Absent, FALSE \in Clean, Go(i, "store"), NoFault
      PROVE  Near(i)'
  <2>1. ASSUME Calm(i)'
        PROVE  OnPlan(w, s, [run[i] EXCEPT !.pc = "store"], desc', fs', checked')
    <3>1. [run[i] EXCEPT !.pc = "store"].pc = "store" BY DEF AInv, IInv, Types, RunState
    <3>2. fs # desc BY <1>3, <1>4, <2>1 DEF Clean
    <3>3. Looked(w, s, "store") /\ Compared(w, s, desc)
      BY <1>3, <1>4, <2>1 DEF Looked, Compared
    <3> QED BY <1>2, <1>3, <1>4, <2>1, <3>1, <3>2, <3>3 DEF OnPlan
  <2>2. "store" \in Places(s.mode) BY <1>4 DEF Places
  <2> QED BY <1>2, <1>4, <2>1, <2>2, GoNear DEF Pc, Mode, At
<1>5. ASSUME NEW st \in {"0", "1"}, Exit(i, st), st = "0" => NoFault,
             \/ Fault
             \/ st = "1" /\ (desc = Absent \/ TRUE \in Clean) /\ (s.mode = "create" \/ desc = Absent)
             \/ st = "0" /\ s.mode = "trip"
             \/ st = "0" /\ s.mode = "create" /\ desc # Absent
                /\ (FALSE \in Clean \/ run[i].pc = "store")
      PROVE  Near(i)'
  <2>1. ASSUME Calm(i)' PROVE Meets(w, s, desc', fs', checked', st)
    <3>1. ~Fault BY <1>1, <1>3, <2>1 DEF Fault
    <3>2. CASE s.mode = "create"
      <4>1. \/ st = "1" /\ desc \in {Absent, w.fs}
            \/ st = "0" /\ desc \notin {Absent, w.fs}
        BY <1>3, <1>5, <2>1, <3>1, <3>2 DEF Clean
      <4> QED BY <1>1, <1>2, <1>3, <2>1, <3>2, <4>1, MeantCreated
    <3>3. CASE s.mode = "trip"
      <4>1. w.desc # Absent /\ st = "0" BY <1>3, <1>5, <2>1, <3>1, <3>3 DEF Looked
      <4> QED BY <1>1, <1>2, <1>3, <2>1, <3>3, <4>1, MeantSame
    <3> QED BY <1>2, <3>2, <3>3
  <2>2. ~Retries(i)' BY <1>2 DEF Retries, Mode
  <2> QED BY <1>2, <1>5, <2>1, <2>2, ExitNear DEF At
<1>6. CASE Lcreate(i)
  <2>1. \/ Exit(i, "1") /\ Fault
        \/ Exit(i, "0") /\ run[i].pc = "store" /\ NoFault
    BY <1>6 DEF Lcreate, At
  <2>2. CASE Exit(i, "1") /\ Fault BY <1>5, <2>2
  <2>3. CASE Exit(i, "0") /\ run[i].pc = "store" /\ NoFault
    <3>1. ASSUME Calm(i)' PROVE Meets(w, s, desc', fs', checked', "0")
      BY <1>1, <1>2, <1>3, <2>3, <3>1, MeantCreated
    <3>2. ~Retries(i)' BY <1>2 DEF Retries, Mode
    <3> QED BY <1>2, <2>3, <3>1, <3>2, ExitNear DEF At
  <2> QED BY <2>1, <2>2, <2>3
<1>7. CASE FsdiffCreatable(i)
  <2>1. \/ Exit(i, "1") /\ (Fault \/ desc = Absent)
        \/ Exit(i, "0") /\ s.mode = "trip" /\ NoFault
        \/ Exit(i, "1") /\ s.mode = "create" /\ TRUE \in Clean
        \/ /\ s.mode = "create" /\ desc # Absent /\ FALSE \in Clean /\ NoFault
           /\ Go(i, "store") \/ Exit(i, "0")
    <3>1. \A clean \in Clean : clean \in BOOLEAN BY DEF Clean
    <3>2. \A clean \in Clean : (clean => TRUE \in Clean) /\ (~clean => FALSE \in Clean)
      BY <3>1
    <3> QED BY <1>7, <3>2 DEF FsdiffCreatable, FsdiffFails, Mode
  <2>2. At(i, "fsdiff") BY <1>7 DEF FsdiffCreatable
  <2> QED BY <1>4, <1>5, <2>1, <2>2
<1> QED BY <1>6, <1>7

LEMMA CompareNear ==
  ASSUME AInv, NEW i \in Run, Noticed(i), FsdiffApplicable(i)
  PROVE  Near(i)'
<1> DEFINE w == was[i]
           s == setup[i]
           diff == [from |-> fs, to |-> desc]
<1>1. /\ w \in Finding /\ s \in Setup /\ s.mode \in Modes /\ Posted(i) /\ faults \in Nat
      /\ desc \in Desc /\ fs \in Tree /\ w.server \in Version
  BY Known DEF Setup, Finding
<1>2. /\ s.mode \in {"update", "auto", "force", "hook"} /\ At(i, "fsdiff") /\ setup' = setup
      /\ desc' = desc /\ fs' = fs /\ checked' = checked
  BY <1>1 DEF FsdiffApplicable, At, Posted, Places, Mode, Modes, Noticed, client
<1>3. ASSUME Calm(i)'
      PROVE  /\ fs = w.fs /\ checked = w.checked /\ fs # Mixed /\ faults' = faults
             /\ Looked(w, s, "fsdiff") /\ Compared(w, s, desc)
  BY <1>2, <1>3, CalmStill DEF OnPlan, At
<1>4. CASE Exit(i, "1") /\ (Fault \/ desc = Absent)
  <2>1. ASSUME Calm(i)' PROVE Meets(w, s, desc', fs', checked', "1")
    <3>1. desc = Absent BY <1>1, <1>3, <1>4, <2>1 DEF Fault
    <3>2. w.desc = Absent /\ s.mode = "update"
      BY <1>1, <1>2, <1>3, <2>1, <3>1, Numbers DEF Compared
    <3> QED BY <1>1, <1>2, <1>3, <2>1, <3>1, <3>2, MeantUpdate DEF Looked
  <2> QED BY <1>2, <1>4, <2>1, ExitNear DEF At
<1>5. CASE /\ Exit(i, "1") /\ s.mode = "auto"
           /\ \/ TRUE \in Clean
              \/ Mismatch(s, diff)
  <2>1. ASSUME Calm(i)' PROVE Meets(w, s, desc', fs', checked', "1")
    <3>1. w.desc # Absent /\ w.fs = w.desc /\ w.desc # w.server /\ desc = w.server /\ w.checked = NoOne
      BY <1>3, <1>5, <2>1 DEF Looked, Compared
    <3>2. Mismatch(s, [from |-> w.fs, to |-> w.server])
      BY <1>3, <1>5, <2>1, <3>1 DEF Clean
    <3> QED BY <1>1, <1>2, <1>3, <1>5, <2>1, <3>1, <3>2, MeantUnlike
  <2> QED BY <1>2, <1>5, <2>1, ExitNear DEF At
<1>6. CASE Exit(i, "0") /\ desc # Absent /\ TRUE \in Clean /\ NoFault
  <2>1. fs = desc BY <1>6 DEF Clean
  <2>2. ASSUME Calm(i)' PROVE Meets(w, s, desc', fs', checked', "0")
    <3>1. CASE s.mode = "update"
      BY <1>1, <1>2, <1>3, <1>6, <2>1, <2>2, <3>1, MeantUpdate DEF Looked, Compared
    <3>2. CASE s.mode \in {"force", "hook"}
      <4>1. desc = w.server /\ w.checked = NoOne /\ (s.mode = "hook" => w.desc # w.server \/ s.flag)
        BY <1>3, <2>2, <3>2 DEF Looked, Compared
      <4> QED BY <1>1, <1>2, <1>3, <2>1, <2>2, <3>2, <4>1, MeantUpdated
    <3>3. s.mode # "auto" BY <1>3, <2>1, <2>2 DEF Looked, Compared
    <3> QED BY <1>2, <3>1, <3>2, <3>3
  <2> QED BY <1>2, <1>6, <2>1, <2>2, ExitNear DEF At
<1>7. CASE Exit(i, "0") /\ desc # Absent /\ s.mode = "update" /\ NoFault
  <2>1. ASSUME Calm(i)' PROVE Meets(w, s, desc', fs', checked', "0")
    BY <1>1, <1>2, <1>3, <1>7, <2>1, MeantUpdate DEF Looked, Compared
  <2>2. ~Retries(i)' BY <1>2, <1>7 DEF Retries, Mode
  <2> QED BY <1>2, <1>7, <2>1, <2>2, ExitNear DEF At
<1>8. CASE /\ desc # Absent /\ FALSE \in Clean /\ NoFault /\ (s.mode = "auto" => ~Mismatch(s, diff))
           /\ run' = [run EXCEPT ![i].pc = "lapply", ![i].diff = diff]
  <2>1. run \in [Run -> RunState] BY DEF AInv, IInv, Types
  <2>2. run'[i].pc = "lapply" /\ run'[i].diff = diff BY <1>8, <2>1 DEF RunState
  <2>3. Posted(i)' /\ FirstTry(i)' BY <1>2, <2>2 DEF Posted, FirstTry, Places, Mode
  <2>4. Lone(i)' BY <1>2, <2>2, AloneStill DEF Lone, At, Noticed
  <2>5. Mended(i)' BY <2>2 DEF Mended, Over, At
  <2>6. Calm(i)' => OnPlan(was[i], setup[i], run[i], desc, fs, checked)'
    <3> SUFFICES ASSUME Calm(i)' PROVE OnPlan(was'[i], setup'[i], run'[i], desc', fs', checked')
      OBVIOUS
    <3>1. was' = was BY CalmStill
    <3>2. Looked(w, s, "lapply") BY <1>3 DEF Looked
    <3>3. desc # fs BY <1>3, <1>8 DEF Clean
    <3> QED BY <1>2, <1>3, <1>8, <2>2, <3>1, <3>2, <3>3 DEF OnPlan
  <2>7. failed'[i] = failed[i] BY <1>2, <1>8, FailedBy DEF At, NoFault
  <2>8. Heard(i)' BY <1>2, <2>7 DEF AInv, Near, Heard, Over, At, Mode
  <2>9. Whole(i)' BY <1>2, <2>2, <2>7, AloneStill DEF AInv, Near, Whole, Over, At
  <2> QED BY <2>3, <2>4, <2>5, <2>6, <2>8, <2>9 DEF Near
<1>9. \/ Exit(i, "1") /\ (Fault \/ desc = Absent)
      \/ Exit(i, "1") /\ s.mode = "auto" /\ (TRUE \in Clean \/ Mismatch(s, diff))
      \/ Exit(i, "0") /\ desc # Absent /\ TRUE \in Clean /\ NoFault
      \/ Exit(i, "0") /\ desc # Absent /\ s.mode = "update" /\ NoFault
      \/ /\ desc # Absent /\ FALSE \in Clean /\ NoFault /\ (s.mode = "auto" => ~Mismatch(s, diff))
         /\ run' = [run EXCEPT ![i].pc = "lapply", ![i].diff = diff]
  <2>1. desc # Absent => diff # Empty
    <3>1. diff.to = desc /\ Empty.to = Absent BY DEF Empty
    <3> QED BY <3>1
  <2>2. CASE FsdiffFails(i) BY <2>2 DEF FsdiffFails
  <2>3. CASE desc # Absent /\ NoFault /\ \E clean \in Clean : Found(i, IF clean THEN Empty ELSE diff)
    <3>1. PICK clean \in Clean : Found(i, IF clean THEN Empty ELSE diff) BY <2>3
    <3>2. CASE clean = TRUE
      <4>1. Found(i, Empty) BY <3>1, <3>2
      <4>2. TRUE \in Clean BY <3>1, <3>2
      <4> QED BY <2>3, <4>1, <4>2 DEF Found, Mode
    <3>3. CASE clean = FALSE
      <4>1. Found(i, diff) BY <3>1, <3>3
      <4>2. FALSE \in Clean BY <3>1, <3>3
      <4> HIDE DEF diff
      <4> QED BY <2>1, <2>3, <4>1, <4>2 DEF Found, Mode
    <3>4. clean \in BOOLEAN BY <3>1 DEF Clean
    <3> QED BY <3>2, <3>3, <3>4
  <2> QED BY <2>2, <2>3 DEF FsdiffApplicable
<1> QED BY <1>4, <1>5, <1>6, <1>7, <1>8, <1>9

LEMMA LapplyNear ==
  ASSUME AInv, NEW i \in Run, Noticed(i), Lapply(i)
  PROVE  Near(i)'
<1> DEFINE w == was[i]
           s == setup[i]
           d == run[i].diff
<1>1. /\ w \in Finding /\ s \in Setup /\ s.mode \in Modes /\ Posted(i) /\ faults \in Nat
      /\ run[i].tries \in Nat /\ desc \in Desc
  BY Known DEF Setup
<1>2. /\ s.mode \in {"update", "auto", "force", "hook"} /\ At(i, "lapply") /\ setup' = setup
      /\ desc' = desc /\ checked' = checked
  BY <1>1 DEF Lapply, At, Posted, Places, Mode, Modes, Noticed
<1>11. run[i].pc \in Forgotten(Mode(i)) BY <1>2 DEF Forgotten, At, Mode
<1>3. ASSUME i \in alone' PROVE i \in fresh /\ d = [from |-> fs, to |-> desc] /\ d.to = desc
  BY <1>2, <1>3, AloneStill
<1>4. ASSUME Calm(i)'
      PROVE  /\ fs = w.fs /\ checked = w.checked /\ server = w.server /\ faults' = faults
             /\ Looked(w, s, "lapply") /\ Compared(w, s, desc) /\ desc # Absent
             /\ s.mode = "auto" => ~Mismatch(s, d)
             /\ i \in alone'
  BY <1>2, <1>4, CalmStill DEF OnPlan, At
<1>5. CASE fs' = d.to /\ Exit(i, "0")
  <2>1. ASSUME Calm(i)' PROVE Meets(w, s, desc', fs', checked', "0")
    <3>1. fs' = desc /\ d = [from |-> w.fs, to |-> desc] BY <1>3, <1>4, <1>5, <2>1
    <3>2. CASE s.mode = "update"
      BY <1>1, <1>2, <1>4, <2>1, <3>1, <3>2, MeantUpdate DEF Looked, Compared
    <3>3. CASE s.mode \in {"force", "hook", "auto"}
      <4>1. desc = w.server /\ w.checked = NoOne BY <1>4, <2>1, <3>3 DEF Looked, Compared
      <4>2. \/ s.mode = "force"
            \/ s.mode = "hook" /\ (w.desc # w.server \/ s.flag)
            \/ /\ s.mode = "auto" /\ w.desc # Absent /\ w.fs = w.desc /\ w.desc # w.server
               /\ ~Mismatch(s, [from |-> w.fs, to |-> w.server])
        BY <1>4, <2>1, <3>1, <3>3, <4>1 DEF Looked, Compared
      <4> QED BY <1>1, <1>2, <1>4, <2>1, <3>1, <4>1, <4>2, MeantUpdated
    <3> QED BY <1>2, <3>2, <3>3
  <2>2. i \in alone' => fs' = desc' BY <1>2, <1>3, <1>5
  <2> QED BY <1>2, <1>5, <1>11, <2>1, <2>2, ExitNear DEF At
<1>6. CASE i \notin fresh /\ Exit(i, "0")
  BY <1>2, <1>3, <1>6, <1>11, ExitNear DEF Calm, At
<1>7. CASE /\ Exit(i, "0") /\ s.mode \in {"force", "update"} /\ fs' \in {fs, Partial}
           /\ i \notin fresh \/ server # d.to \/ Fault
  <2>1. ~Calm(i)'
    <3> SUFFICES ASSUME Calm(i)' PROVE FALSE OBVIOUS
    <3>1. d.to = desc /\ desc # fs BY <1>2, <1>3, <1>4, CalmStill DEF OnPlan, At
    <3>2. desc # Partial BY <1>1, Numbers DEF Desc, Partial, Mixed, Version, Absent
    <3>3. "lapply" \in failed'[i] BY <1>2, <1>7, <3>1, <3>2, FailedBy
    <3> QED BY <3>3 DEF Calm
  <2>2. ~Retries(i)' BY <1>2, <1>7 DEF Retries, Mode
  <2> QED BY <1>2, <1>7, <1>11, <2>1, <2>2, ExitNear DEF At
<1>8. ASSUME NEW pc \in {"begin", "again", "over"}, NEW st, Failed(i, pc, st),
             s.mode \in {"hook", "auto"}, s.mode = "auto" => pc # "begin",
             s.mode = "hook" => pc = "begin", pc = "over" => st = "1",
             i \notin fresh \/ server # d.to \/ Fault, fs' \in {fs, Partial}
      PROVE  Near(i)'
  <2>1. run'[i] = [pc |-> pc, diff |-> Empty, tries |-> run[i].tries + 1, exit |-> st]
    BY <1>8 DEF Failed, AInv, IInv, Types
  <2>2. Posted(i)' BY <1>2, <1>8, <2>1 DEF Posted, Mode, Places
  <2>3. FirstTry(i)' BY <1>2, <1>8, <2>1 DEF FirstTry, Mode
  <2>4. Lone(i)' BY <1>8, <2>1, AloneStill DEF Lone, At
  <2>5. Mended(i)' BY <1>8, <2>1 DEF Mended, Over, At
  <2>6. ASSUME Calm(i)' PROVE FALSE
    <3>1. i \in fresh /\ d.to = desc /\ server = w.server /\ ~Fault
      BY <1>1, <1>3, <1>4, <2>6 DEF Fault
    <3>2. desc = w.server BY <1>4, <1>8, <2>6 DEF Compared
    <3> QED BY <1>8, <3>1, <3>2
  <2>7. failed'[i] \subseteq failed[i] \cup {run[i].pc} /\ failed[i] \subseteq failed'[i] BY FailedBy
  <2>8. Heard(i)' BY <1>2, <1>11, <2>7 DEF AInv, Near, Heard, Over, At, Mode
  <2>9. Whole(i)'
    <3> SUFFICES ASSUME i \in alone', "lapply" \notin failed'[i] PROVE fs' = was'[i].fs
      BY DEF Whole
    <3>1. i \in alone /\ was' = was /\ d = [from |-> fs, to |-> desc] BY <1>2, AloneStill
    <3>2. fs = was[i].fs BY <1>2, <2>7, <3>1 DEF AInv, Near, Whole, Over, At
    <3>3. fs' = d.to BY <1>2, FailedBy
    <3>4. desc # Partial BY <1>1, Numbers DEF Desc, Partial, Mixed, Version, Absent
    <3> QED BY <1>8, <3>1, <3>2, <3>3, <3>4
  <2> QED BY <2>2, <2>3, <2>4, <2>5, <2>6, <2>8, <2>9 DEF Near
<1>9. \/ fs' = d.to /\ Exit(i, "0")
      \/ i \notin fresh /\ Exit(i, "0")
      \/ /\ fs' \in {fs, Partial} /\ (i \notin fresh \/ server # d.to \/ Fault)
         /\ \E st \in {"1", "2"} : Lapplied(i, st)
  BY DEF Lapply, Lapplied
<1>10. ASSUME NEW st \in {"1", "2"}, Lapplied(i, st)
       PROVE  \/ Exit(i, "0") /\ s.mode \in {"force", "update"}
              \/ s.mode = "hook" /\ Failed(i, "begin", "none")
              \/ s.mode = "auto" /\ (Failed(i, "again", "none") \/ Failed(i, "over", "1"))
  BY <1>10 DEF Lapplied, HookAgain, Mode
<1> QED BY <1>5, <1>6, <1>7, <1>8, <1>9, <1>10

LEMMA KilledNear ==
  ASSUME AInv, NEW i \in Run, Noticed(i), Killed(i)
  PROVE  Near(i)'
<1>1. faults' # faults BY Known DEF Killed, Fault
<1>2. ~Calm(i)' BY <1>1, CalmStill
<1>3. fs' = fs \/ (At(i, "lapply") /\ desc' = desc) BY DEF Killed, At
<1> QED BY <1>2, <1>3, ExitNear DEF Killed, At
-----------------------------------------------------------------------------
(* The others: while they are alone nobody else has done anything           *)
LEMMA OthersNear ==
  ASSUME AInv, NEW i \in Run, Noticed(i), Onward(i), NEW j \in Run \ {i}
  PROVE  Near(j)'
<1>1. /\ run'[j] = run[j] /\ setup' = setup /\ was' = was /\ server' = server
      /\ failed'[j] = failed[j]
  BY DEF Noticed, Onward, Stays, AInv, Ranges
<1>2. ASSUME j \in alone'
      PROVE  /\ j \in alone /\ desc' = desc /\ fs' = fs /\ checked' = checked
             /\ j \in fresh => j \in fresh'
  BY <1>2 DEF Noticed, client
<1>3. Near(j) BY DEF AInv
<1>4. Posted(j)' /\ FirstTry(j)' BY <1>1, <1>3 DEF Near, Posted, FirstTry, Mode
<1>5. Lone(j)' BY <1>1, <1>2, <1>3 DEF Near, Lone, At
<1>6. Mended(j)' BY <1>1, <1>2, <1>3 DEF Near, Mended, Retries, Mode, Over, At
<1>8. Heard(j)' BY <1>1, <1>3 DEF Near, Heard, Succeeded, Mode, Over, At
<1>9. Whole(j)' BY <1>1, <1>2, <1>3 DEF Near, Whole, Over, At
<1>7. Calm(j)' => OnPlan(was[j], setup[j], run[j], desc, fs, checked)'
  <2> SUFFICES ASSUME Calm(j)' PROVE OnPlan(was'[j], setup'[j], run'[j], desc', fs', checked')
    OBVIOUS
  <2>1. Calm(j) /\ j \in alone' BY <1>1, <1>2 DEF Calm
  <2>2. OnPlan(was[j], setup[j], run[j], desc, fs, checked) BY <1>3, <2>1 DEF Near
  <2> QED BY <1>1, <1>2, <2>1, <2>2
<1> QED BY <1>4, <1>5, <1>6, <1>7, <1>8, <1>9 DEF Near

LEMMA ProgramNear ==
  ASSUME AInv, NEW i \in Run, Program(i) \/ Killed(i), Noticed(i)
  PROVE  AInv'
<1>1. IInv BY DEF AInv
<1>2. Onward(i) BY <1>1, Steps
<1>3. IInv' BY <1>1, <1>2, StepKeeps
<1>4. Near(i)'
  BY BeginNear, OwnNear, DryNear, KtcheckNear, AgainNear, TripwireNear, CreateNear, CompareNear,
     LapplyNear, KilledNear
  DEF Program
<1>5. Ranges'
  <2>1. faults' \in Nat
    <3>1. NoFault \/ Fault
      BY DEF Program, Begin, Checkout, Checkin, KtcheckDry, Ktcheck, KtcheckAgain, Tripwire,
             FsdiffCreatable, FsdiffApplicable, FsdiffFails, Lcreate, Lapply, Killed
    <3> QED BY <3>1 DEF NoFault, Fault, AInv, Ranges
  <2>2. run[i].pc \in Pc BY Known
  <2> QED BY <2>1, <2>2 DEF AInv, Ranges, Noticed
<1>6. \A j \in Run \ {i} : Near(j)' BY <1>2, OthersNear
<1> QED BY <1>3, <1>4, <1>5, <1>6 DEF AInv

(* Runs that nobody disturbs stay as they are                               *)
LEMMA StillNear ==
  ASSUME AInv, NEW i \in Run, setup' = setup, run'[i] = run[i], failed' = failed,
         was'[i] = was[i], i \in alone' => /\ i \in alone /\ server' = server /\ desc' = desc
                                           /\ fs' = fs /\ checked' = checked /\ fresh' = fresh
  PROVE  Near(i)'
<1>1. Near(i) BY DEF AInv
<1>2. Posted(i)' /\ FirstTry(i)' BY <1>1 DEF Near, Posted, FirstTry, Mode
<1>3. Lone(i)' BY <1>1 DEF Near, Lone, At
<1>4. Mended(i)' BY <1>1 DEF Near, Mended, Retries, Mode, Over, At
<1>6. Heard(i)' BY <1>1 DEF Near, Heard, Succeeded, Mode, Over, At
<1>7. Whole(i)' BY <1>1 DEF Near, Whole, Over, At
<1>5. Calm(i)' => OnPlan(was[i], setup[i], run[i], desc, fs, checked)'
  <2> SUFFICES ASSUME Calm(i)' PROVE OnPlan(was'[i], setup'[i], run'[i], desc', fs', checked')
    OBVIOUS
  <2>1. Calm(i) /\ i \in alone' BY DEF Calm
  <2>2. OnPlan(was[i], setup[i], run[i], desc, fs, checked) BY <1>1, <2>1 DEF Near
  <2> QED BY <2>1, <2>2
<1> QED BY <1>2, <1>3, <1>4, <1>5, <1>6, <1>7 DEF Near

LEMMA CallNear ==
  ASSUME AInv, NEW i \in Run, Call(i)
  PROVE  AInv'
<1>1. IInv' BY InvNext DEF AInv, Next, Call
<1> DEFINE found == [server |-> server, desc |-> desc, fs |-> fs, checked |-> checked]
<1>2. /\ was' = [was EXCEPT ![i] = found] /\ alone' = alone \cup {i} /\ setup' = setup
      /\ server' = server /\ desc' = desc /\ fs' = fs /\ checked' = checked
      /\ fresh' = fresh /\ faults' = faults /\ failed' = failed /\ run[i].pc = "idle"
      /\ run' = [run EXCEPT ![i].pc = "begin"]
  BY DEF Call, client, At, Go
<1>3. found \in Finding BY DEF AInv, IInv, Types, Finding
<1>4. Ranges'
  <2> HIDE DEF found
  <2> QED BY <1>2, <1>3 DEF AInv, Ranges
<1>5. was'[i] = found
  <2> HIDE DEF found
  <2> QED BY <1>2 DEF AInv, Ranges
<1>6. run'[i].pc = "begin" /\ run'[i].tries = run[i].tries
  BY <1>2 DEF AInv, IInv, Types, RunState
<1>7. ASSUME NEW j \in Run, j # i PROVE Near(j)'
  <2>1. was'[j] = was[j] /\ run'[j] = run[j]
    BY <1>2, <1>7 DEF AInv, Ranges, IInv, Types
  <2> QED BY <1>2, <1>7, <2>1, StillNear
<1>8. Near(i)'
  <2>1. Mode(i)' = "auto" => run[i].tries = 0 BY <1>2 DEF AInv, Near, FirstTry, Mode
  <2>2. Posted(i)' /\ FirstTry(i)' BY <1>6, <2>1 DEF Posted, FirstTry
  <2>3. Lone(i)' /\ Mended(i)' BY <1>2, <1>5, <1>6 DEF Lone, Mended, Over, At
  <2>4. OnPlan(was[i], setup[i], run[i], desc, fs, checked)'
    <3> SUFFICES OnPlan(was'[i], setup'[i], run'[i], desc', fs', checked') OBVIOUS
    <3> QED BY <1>2, <1>5, <1>6 DEF OnPlan
  <2>5. Heard(i)' BY <1>2, <1>6 DEF AInv, Near, Heard, Over, At, Mode
  <2>6. Whole(i)' BY <1>2, <1>5 DEF Whole
  <2> QED BY <2>2, <2>3, <2>4, <2>5, <2>6 DEF Near
<1> QED BY <1>1, <1>4, <1>7, <1>8 DEF AInv

LEMMA AllNext == AInv /\ [Next]_vars => AInv'
<1> SUFFICES ASSUME AInv, [Next]_vars PROVE AInv' OBVIOUS
<1>1. IInv' BY InvNext DEF AInv
<1>2. ASSUME NEW i \in Run, Program(i) \/ Killed(i), Noticed(i) PROVE AInv'
  BY <1>2, ProgramNear
<1>3. ASSUME NEW i \in Run, Call(i) PROVE AInv'
  BY <1>3, CallNear
<1>4. CASE Release \/ Change
  <2>1. /\ setup' = setup /\ run' = run /\ failed' = failed /\ was' = was /\ alone' = {}
        /\ fresh' \in {{}, fresh} /\ faults' = faults
    BY <1>4 DEF Release, Change
  <2>2. Ranges' BY <2>1 DEF AInv, Ranges
  <2>3. \A i \in Run : Near(i)' BY <2>1, StillNear
  <2> QED BY <1>1, <2>2, <2>3 DEF AInv
<1>5. CASE UNCHANGED vars
  <2>1. /\ setup' = setup /\ run' = run /\ failed' = failed /\ was' = was /\ alone' = alone
        /\ fresh' = fresh /\ faults' = faults /\ server' = server /\ desc' = desc /\ fs' = fs
        /\ checked' = checked
    BY <1>5 DEF vars, client, ghosts
  <2>2. Ranges' BY <2>1 DEF AInv, Ranges
  <2>3. \A i \in Run : Near(i)' BY <2>1, StillNear
  <2> QED BY <1>1, <2>2, <2>3 DEF AInv
<1> QED BY <1>2, <1>3, <1>4, <1>5 DEF Next

LEMMA AllInit == Init => AInv
<1> SUFFICES ASSUME Init PROVE AInv OBVIOUS
<1>1. IInv BY InvInit
<1>2. was = [i \in Run |-> [server |-> server, desc |-> desc, fs |-> fs, checked |-> checked]]
  BY DEF Init
<1>3. failed = [i \in Run |-> {}] /\ alone = {} /\ fresh = {} /\ faults = 0 BY DEF Init
<1>4. Ranges BY <1>1, <1>2, <1>3 DEF IInv, Types, Ranges, Finding
<1>5. \A i \in Run : run[i].pc = "idle" /\ run[i].tries = 0 BY DEF Init
<1>6. ASSUME NEW i \in Run PROVE Near(i)
  BY <1>3, <1>5 DEF Near, Posted, FirstTry, Lone, Mended, Heard, Whole, Calm, Over, At
<1> QED BY <1>1, <1>4, <1>6 DEF AInv

(* A run that nothing has come in the way of leaves what its command is     *)
(* for, as rash(1) and ra.sh tell it, and says whether it has succeeded.  A *)
(* run that ends with 0 has had no failure but those that ra.sh forgets     *)
(* (against rash(1)), and unless lapply has failed the machine is as it was *)
(* found or as the description wants it.  What retries, if nobody else has  *)
(* changed anything, makes up for an lapply that has failed, or says so.    *)
THEOREM RunsAsMeant == Spec => []RunExact
<1>1. AInv => RunExact
  <2> SUFFICES ASSUME AInv PROVE RunExact OBVIOUS
  <2>1. AsMeant
    BY DEF AsMeant, Undisturbed, Succeeded, Over, At, AInv, Near, Calm, OnPlan, Meets
  <2>2. Heals BY DEF Heals, AInv, Near, Mended, Retries
  <2>3. Told BY DEF Told, AInv, Near, Heard, Whole
  <2> QED BY <2>1, <2>2, <2>3 DEF RunExact
<1> QED BY <1>1, AllInit, AllNext, PTL DEF Spec
=============================================================================
