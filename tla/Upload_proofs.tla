--------------------------- MODULE Upload_proofs ---------------------------
(****************************************************************************)
(* Theorems about Upload, for any number of runs of lcreate, transcripts,   *)
(* files, faults and changes                                                *)
(****************************************************************************)
EXTENDS Upload, TLAPS

(* The commands on their way name files that there are                      *)
Stream ==
  \A s \in Session : \A i \in 1..Len(up[s]) :
    up[s][i].op = "stor" => up[s][i].arg \in 0..NFile

(* lcreate does not go beyond the last line                                 *)
Place ==
  \A s \in Session :
    /\ Len(disk[s]) = Len(lines[s]) /\ Len(lines[s]) <= NFile
    /\ lc[s].k <= Len(lines[s])
    /\ lc[s].pc = "poll" => lc[s].k < Files(s)

TInv == TypeOK /\ Stream /\ Place

(* The number of lines that lcreate uploads, which no step changes          *)
LEMMA FilesKept ==
  ASSUME UNCHANGED fixed, NEW s \in Session
  PROVE  Files(s)' = Files(s)
BY DEF fixed, Files

LEMMA FilesNat ==
  ASSUME TInv, NEW s \in Session
  PROVE  Files(s) \in Nat /\ Files(s) <= Len(lines[s]) /\ Len(lines[s]) \in Nat
<1>1. Len(lines[s]) \in Nat
  BY DEF TInv, TypeOK, FixedOK
<1>2. CASE opt[s].only
  BY <1>1, <1>2 DEF Files
<1>3. CASE ~opt[s].only
  BY <1>1, <1>3 DEF Files
<1> QED BY <1>2, <1>3, <1>1

LEMMA FoundBlocks ==
  ASSUME TInv, NEW s \in Session
  PROVE  Found(s, lc[s].k) \in Seq(Block)
BY UploadAssumption DEF TInv, TypeOK, FixedOK, ClientOK, LcState, Place, Found, TranBlocks

(* What is in a connection after an Append or a Tail                        *)
LEMMA Sending ==
  ASSUME TInv, NEW s \in Session, Room(s), NEW p \in Part,
         p.op = "stor" => p.arg \in 0..NFile,
         up' = [up EXCEPT ![s] = Append(@, p)]
  PROVE  /\ up' \in [Session -> Seq(Part)]
         /\ \A t \in Session : Len(up'[t]) <= UpRoom
         /\ Stream'
<1>1. up' \in [Session -> Seq(Part)]
  BY DEF TInv, TypeOK, NetOK
<1>2. \A t \in Session : Len(up'[t]) <= UpRoom
  BY UploadAssumption DEF TInv, TypeOK, NetOK, Room
<1>3. Stream'
  BY DEF TInv, TypeOK, NetOK, Stream
<1> QED BY <1>1, <1>2, <1>3

LEMMA Taking ==
  ASSUME TInv, NEW s \in Session, up[s] # <<>>, Takes(s)
  PROVE  /\ up' \in [Session -> Seq(Part)]
         /\ \A t \in Session : Len(up'[t]) <= UpRoom
         /\ Stream'
         /\ Head(up[s]) \in Part
         /\ Head(up[s]).op = "stor" => Head(up[s]).arg \in 0..NFile
<1>1. up[s] \in Seq(Part) /\ Len(up[s]) > 0
  BY DEF TInv, TypeOK, NetOK
<1>2. up' \in [Session -> Seq(Part)]
  BY <1>1 DEF TInv, TypeOK, NetOK, Takes
<1>3. \A t \in Session : Len(up'[t]) <= UpRoom
  BY <1>1, UploadAssumption DEF TInv, TypeOK, NetOK, Takes
<1>4. Stream'
  BY <1>1 DEF TInv, TypeOK, NetOK, Stream, Takes
<1>5. /\ Head(up[s]) \in Part
      /\ Head(up[s]).op = "stor" => Head(up[s]).arg \in 0..NFile
  BY <1>1 DEF TInv, Stream
<1> QED BY <1>2, <1>3, <1>4, <1>5

LEMMA Speaking ==
  ASSUME TInv, NEW s \in Session, NEW a \in {"3", "2", "5"}, Says(s, a)
  PROVE  down' \in [Session -> Seq({"3", "2", "5"})]
BY DEF TInv, TypeOK, NetOK, Says

THEOREM InitTypes == Init => TInv
<1> SUFFICES ASSUME Init PROVE TInv
  OBVIOUS
<1>1. PICK st \in Starts : name = st.name /\ lines = st.lines /\ disk = st.disk /\ opt = st.opt
  BY DEF Init
<1>2. FixedOK
  BY <1>1, StartsAssumption DEF FixedOK
<1>3. ClientOK
  BY <1>1, StartsAssumption, UploadAssumption DEF Init, ClientOK, LcState, LcPc
<1>4. NetOK
  BY UploadAssumption DEF Init, NetOK
<1>5. ServerOK
  BY UploadAssumption DEF Init, ServerOK, None, ChildState, ChildPc, TmpFile
<1>6. Stream
  BY DEF Init, Stream
<1>7. ASSUME NEW s \in Session
      PROVE  /\ Len(disk[s]) = Len(lines[s]) /\ Len(lines[s]) <= NFile /\ Len(lines[s]) \in Nat
             /\ lc[s].k = 0 /\ lc[s].pc = "idle"
  <2>1. Len(disk[s]) = Len(lines[s]) /\ Len(lines[s]) <= NFile
    BY <1>1, StartsAssumption
  <2>2. Len(lines[s]) \in Nat
    BY <1>2 DEF FixedOK
  <2>3. lc[s].k = 0 /\ lc[s].pc = "idle"
    BY DEF Init
  <2> QED BY <2>1, <2>2, <2>3
<1>8. Place
  <2> SUFFICES ASSUME NEW s \in Session
               PROVE  /\ Len(disk[s]) = Len(lines[s]) /\ Len(lines[s]) <= NFile
                      /\ lc[s].k <= Len(lines[s])
                      /\ lc[s].pc = "poll" => lc[s].k < Files(s)
    BY DEF Place
  <2>1. lc[s].k <= Len(lines[s])
    BY <1>7
  <2> QED BY <1>7, <2>1
<1> QED BY <1>2, <1>3, <1>4, <1>5, <1>6, <1>8 DEF TInv, TypeOK

(* The record of lcreate after a step of its own                            *)
LEMMA ClientStep ==
  ASSUME TInv, UNCHANGED <<fixed, disk>>, NEW s \in Session,
         exit' = exit \/ \E status \in {"0", "2", "killed"} : exit' = [exit EXCEPT ![s] = status],
         NEW r \in LcState, lc' = [lc EXCEPT ![s] = r],
         r.k <= Len(lines[s]), r.pc = "poll" => r.k < Files(s)
  PROVE  ClientOK' /\ Place'
<1>1. ClientOK'
  BY DEF TInv, TypeOK, ClientOK
<1>2. \A t \in Session : Files(t)' = Files(t)
  BY FilesKept
<1>3. Place'
  BY <1>2 DEF TInv, TypeOK, ClientOK, Place, fixed
<1> QED BY <1>1, <1>3

(* The steps of lcreate                                                     *)
LEMMA LcreateTypes ==
  ASSUME TInv, NEW s \in Session, Lcreate(s)
  PROVE  TInv'
<1> USE UploadAssumption
<1>typ. /\ lc[s] \in LcState /\ Files(s) \in Nat /\ Files(s) <= Len(lines[s])
        /\ Len(lines[s]) \in Nat /\ Len(lines[s]) <= NFile /\ lc[s].k <= Len(lines[s])
        /\ lc[s].pc = "poll" => lc[s].k < Files(s)
  BY FilesNat DEF TInv, TypeOK, ClientOK, Place
<1>lc. lc \in [Session -> LcState]
  BY DEF TInv, TypeOK, ClientOK
<1>pcs. \A pc \in {"poll", "open", "send", "end", "drain", "giveup", "over"} : pc \in LcPc
  BY DEF LcPc
<1>fld. /\ lc[s].k \in 0..NFile /\ lc[s].size \in Nat /\ lc[s].sent \in Seq(Block)
        /\ lc[s].respcount \in Nat /\ Counted(s) \in Nat
  BY <1>typ, SMTT(20), ZenonT(20) DEF LcState, Counted
<1>fix. UNCHANGED <<fixed, disk>> /\ FixedOK'
  BY DEF TInv, TypeOK, FixedOK, fixed, Lcreate, Connect, Open, Send, Finished, End, Answer,
         NextLine, Close
<1>srv. dir' = dir /\ stored' = stored /\ conn' = conn
  BY DEF tmp, net, Lcreate, Connect, Open, Send, Finished, End, Answer, NextLine, Close
<1>net. ASSUME UNCHANGED <<up, down>> PROVE NetOK' /\ Stream'
  BY <1>net, <1>srv DEF TInv, TypeOK, NetOK, Stream
<1>snd. ASSUME NEW p \in Part, p.op = "stor" => p.arg \in 0..NFile, Room(s),
               up' = [up EXCEPT ![s] = Append(@, p)], UNCHANGED down
        PROVE  NetOK' /\ Stream'
  BY <1>snd, <1>srv, Sending DEF TInv, TypeOK, NetOK
<1>chd. ASSUME UNCHANGED child PROVE ServerOK'
  BY <1>chd, <1>srv DEF TInv, TypeOK, ServerOK
<1>exi. ASSUME NEW status \in {"0", "2", "killed"}, Exits(s, status)
        PROVE  ClientOK' /\ Place'
  <2> DEFINE r == [lc[s] EXCEPT !.pc = "over"]
  <2>1. r \in LcState /\ r.k = lc[s].k /\ r.pc # "poll"
    BY <1>typ, <1>pcs DEF LcState
  <2>2. lc' = [lc EXCEPT ![s] = r]
    BY <1>exi, <1>lc DEF Exits
  <2>3. exit' = [exit EXCEPT ![s] = status]
    BY <1>exi DEF Exits
  <2> HIDE DEF r
  <2> QED BY <2>1, <2>2, <2>3, <1>typ, <1>fix, ClientStep
<1>giv. ASSUME GiveUp(s), UNCHANGED exit PROVE ClientOK' /\ Place'
  <2> DEFINE r == [lc[s] EXCEPT !.pc = "giveup", !.respcount = Counted(s)]
  <2>1. r \in LcState /\ r.k = lc[s].k /\ r.pc # "poll"
    BY <1>typ, <1>pcs, <1>fld DEF LcState
  <2>2. lc' = [lc EXCEPT ![s] = r]
    BY <1>giv, <1>lc DEF GiveUp
  <2> HIDE DEF r
  <2> QED BY <2>1, <2>2, <1>giv, <1>typ, <1>fix, ClientStep
<1>1. CASE Connect(s)
  <2> DEFINE r == [lc[s] EXCEPT !.pc = "open", !.respcount = 2]
  <2>1. r \in LcState /\ r.k = lc[s].k /\ r.pc # "poll"
    BY <1>typ, <1>pcs DEF LcState
  <2>2. lc' = [lc EXCEPT ![s] = r] /\ exit' = exit
    BY <1>1, <1>lc DEF Connect
  <2>3. ClientOK' /\ Place'
    <3> HIDE DEF r
    <3> QED BY <2>1, <2>2, <1>typ, <1>fix, ClientStep
  <2>4. ServerOK'
    <3>1. "cmd" \in ChildPc
      BY DEF ChildPc
    <3> QED BY <1>1, <1>srv, <3>1 DEF Connect, TInv, TypeOK, ServerOK, ChildState
  <2>5. NetOK' /\ Stream'
    BY <1>1, <1>net DEF Connect, net
  <2> QED BY <2>3, <2>4, <2>5, <1>fix DEF TInv, TypeOK
<1>2. CASE Open(s)
  <2>1. ServerOK'
    BY <1>2, <1>chd DEF Open
  <2>2. CASE Exits(s, "2") /\ UNCHANGED up
    BY <1>2, <2>1, <2>2, <1>exi, <1>net, <1>fix DEF Open, TInv, TypeOK
  <2>3. CASE ~(Exits(s, "2") /\ UNCHANGED up)
    <3> DEFINE k == lc[s].k
               n == IF Zero(s, k) THEN 0 ELSE Len(Found(s, k))
               pc == IF Zero(s, k) THEN "end" ELSE "send"
               r == [lc[s] EXCEPT !.pc = pc, !.size = n, !.sent = <<>>]
    <3>1. n \in Nat
      BY FoundBlocks
    <3>2. /\ Room(s)
          /\ up' = [up EXCEPT ![s] = Append(@, Stor(k, n))]
          /\ lc' = [lc EXCEPT ![s] = r]
          /\ UNCHANGED <<exit, down>>
      BY <1>2, <2>3, <1>lc DEF Open
    <3>3. r \in LcState /\ r.k = lc[s].k /\ r.pc # "poll"
      <4>1. pc \in LcPc /\ pc # "poll"
        BY <1>pcs
      <4>2. <<>> \in Seq(Block)
        OBVIOUS
      <4> HIDE DEF n, pc
      <4> QED BY <4>1, <4>2, <1>typ, <3>1 DEF LcState
    <3>4. ClientOK' /\ Place'
      <4> HIDE DEF r
      <4> QED BY <3>2, <3>3, <1>typ, <1>fix, ClientStep
    <3>5. Stor(k, n) \in Part /\ Stor(k, n).arg \in 0..NFile
      BY <3>1, <1>fld DEF Stor, Part
    <3>6. NetOK' /\ Stream'
      <4> HIDE DEF n
      <4> QED BY <3>2, <3>5, <1>snd
    <3> QED BY <3>4, <3>6, <2>1, <1>fix DEF TInv, TypeOK
  <2> QED BY <2>2, <2>3
<1>3. CASE Send(s)
  <2>1. ServerOK'
    BY <1>3, <1>chd DEF Send
  <2>2. CASE Broken(s)
    BY <1>3, <2>1, <2>2, <1>giv, <1>net, <1>fix DEF Send, TInv, TypeOK
  <2>3. CASE ~Broken(s)
    <3> DEFINE b == Found(s, lc[s].k)[Len(lc[s].sent) + 1]
               r == [lc[s] EXCEPT !.sent = Append(@, b)]
    <3>1. b \in Block
      BY <1>3, <1>fld, FoundBlocks DEF Send
    <3>2. /\ Room(s)
          /\ up' = [up EXCEPT ![s] = Append(@, Bytes(b))]
          /\ lc' = [lc EXCEPT ![s].sent = Append(@, b)]
          /\ UNCHANGED <<exit, down>>
      BY <1>3, <2>3 DEF Send
    <3>3. lc' = [lc EXCEPT ![s] = r]
      BY <3>2, <1>lc
    <3>4. r \in LcState /\ r.k = lc[s].k /\ r.pc = lc[s].pc
      <4> HIDE DEF b
      <4>1. Append(lc[s].sent, b) \in Seq(Block)
        BY <3>1, <1>fld
      <4> QED BY <1>typ, <4>1 DEF LcState
    <3>5. ClientOK' /\ Place'
      <4> HIDE DEF r
      <4> QED BY <3>2, <3>3, <3>4, <1>typ, <1>fix, ClientStep
    <3>6. Bytes(b) \in Part /\ Bytes(b).op # "stor"
      BY <3>1 DEF Bytes, Part
    <3>7. NetOK' /\ Stream'
      <4> HIDE DEF b
      <4> QED BY <3>2, <3>6, <1>snd
    <3> QED BY <3>5, <3>7, <2>1, <1>fix DEF TInv, TypeOK
  <2> QED BY <2>2, <2>3
<1>4. CASE Finished(s)
  <2>1. ServerOK' /\ NetOK' /\ Stream'
    BY <1>4, <1>chd, <1>net DEF Finished, net
  <2>2. CASE Exits(s, "2")
    BY <2>1, <2>2, <1>exi, <1>fix DEF TInv, TypeOK
  <2>3. CASE ~Exits(s, "2")
    <3> DEFINE r == [lc[s] EXCEPT !.pc = "end"]
    <3>1. lc' = [lc EXCEPT ![s] = r] /\ exit' = exit
      BY <1>4, <2>3, <1>lc DEF Finished
    <3>2. r \in LcState /\ r.k = lc[s].k /\ r.pc # "poll"
      BY <1>typ, <1>pcs DEF LcState
    <3> HIDE DEF r
    <3>3. ClientOK' /\ Place'
      BY <3>1, <3>2, <1>typ, <1>fix, ClientStep
    <3> QED BY <3>3, <2>1, <1>fix DEF TInv, TypeOK
  <2> QED BY <2>2, <2>3
<1>5. CASE End(s)
  <2>1. ServerOK' /\ UNCHANGED down
    BY <1>5, <1>chd DEF End
  <2>2. CASE Broken(s)
    <3>1. UNCHANGED up /\ (Exits(s, "2") \/ (GiveUp(s) /\ UNCHANGED exit))
      BY <1>5, <2>2 DEF End
    <3> QED BY <3>1, <2>1, <1>exi, <1>giv, <1>net, <1>fix DEF TInv, TypeOK
  <2>3. CASE ~Broken(s)
    <3> DEFINE r == [lc[s] EXCEPT !.pc = IF lc[s].k < Files(s) THEN "poll" ELSE "drain",
                                  !.respcount = Counted(s)]
    <3>1. /\ Room(s)
          /\ up' = [up EXCEPT ![s] = Append(@, Dot)]
          /\ \/ Exits(s, "2")
             \/ lc' = [lc EXCEPT ![s] = r] /\ UNCHANGED exit
      BY <1>5, <2>3, <1>lc DEF End
    <3>2. Dot \in Part /\ Dot.op # "stor"
      BY DEF Dot, Part
    <3>3. NetOK' /\ Stream'
      BY <3>1, <3>2, <2>1, <1>snd
    <3>4. r \in LcState /\ r.k = lc[s].k /\ (r.pc = "poll" => r.k < Files(s))
      BY <1>typ, <1>pcs, <1>fld DEF LcState
    <3> HIDE DEF r
    <3>5. ClientOK' /\ Place'
      BY <3>1, <3>4, <1>typ, <1>exi, <1>fix, ClientStep
    <3> QED BY <3>3, <3>5, <2>1, <1>fix DEF TInv, TypeOK
  <2> QED BY <2>2, <2>3
<1>6. CASE Answer(s)
  <2>1. ServerOK' /\ UNCHANGED up
    BY <1>6, <1>chd DEF Answer
  <2>2. down' \in [Session -> Seq({"3", "2", "5"})]
    BY <1>6 DEF Answer, TInv, TypeOK, NetOK
  <2>3. NetOK' /\ Stream'
    BY <2>1, <2>2, <1>srv DEF TInv, TypeOK, NetOK, Stream
  <2>4. CASE Exits(s, "2")
    BY <2>1, <2>3, <2>4, <1>exi, <1>fix DEF TInv, TypeOK
  <2>5. CASE ~Exits(s, "2")
    <3> DEFINE r == [lc[s] EXCEPT !.respcount = @ - 1]
    <3>1. lc' = [lc EXCEPT ![s].respcount = @ - 1] /\ exit' = exit /\ lc[s].respcount > 0
      BY <1>6, <2>5 DEF Answer, Reading
    <3>2. lc' = [lc EXCEPT ![s] = r]
      BY <3>1, <1>lc
    <3>3. lc[s].respcount - 1 \in Nat
      BY <3>1, <1>fld
    <3>4. r \in LcState /\ r.k = lc[s].k /\ r.pc = lc[s].pc
      BY <1>typ, <3>3 DEF LcState
    <3> HIDE DEF r
    <3>5. ClientOK' /\ Place'
      BY <3>1, <3>2, <3>4, <1>typ, <1>fix, ClientStep
    <3> QED BY <3>5, <2>1, <2>3, <1>fix DEF TInv, TypeOK
  <2> QED BY <2>4, <2>5
<1>7. CASE NextLine(s)
  <2>1. ServerOK' /\ NetOK' /\ Stream'
    BY <1>7, <1>chd, <1>net DEF NextLine, net
  <2> DEFINE r == [lc[s] EXCEPT !.pc = "open", !.k = @ + 1]
  <2>2. lc[s].k + 1 <= Len(lines[s]) /\ lc[s].k + 1 \in 0..NFile
    <3>1. lc[s].k < Files(s)
      BY <1>7, <1>typ DEF NextLine, At
    <3>2. lc[s].k \in Nat /\ NFile \in Nat
      BY <1>fld
    <3> QED BY <3>1, <3>2, <1>typ
  <2>3. r \in LcState /\ r.k <= Len(lines[s]) /\ r.pc # "poll"
    BY <1>typ, <1>pcs, <2>2 DEF LcState
  <2>4. lc' = [lc EXCEPT ![s] = r] /\ exit' = exit
    BY <1>7, <1>lc DEF NextLine
  <2> HIDE DEF r
  <2>5. ClientOK' /\ Place'
    BY <2>3, <2>4, <1>typ, <1>fix, ClientStep
  <2> QED BY <2>1, <2>5, <1>fix DEF TInv, TypeOK
<1>8. CASE Close(s)
  BY <1>8, <1>chd, <1>net, <1>exi, <1>fix DEF Close, net, TInv, TypeOK
<1> QED BY <1>1, <1>2, <1>3, <1>4, <1>5, <1>6, <1>7, <1>8 DEF Lcreate

(* The steps of the child                                                   *)
LEMMA ChildTypes ==
  ASSUME TInv, NEW s \in Session, Child(s)
  PROVE  TInv'
<1> USE UploadAssumption
<1>fix. UNCHANGED <<fixed, disk, lc, exit, conn>>
  BY DEF client, net, Child, StorCommand, StorBlock, StorEnd, HangUp
<1>cli. FixedOK' /\ ClientOK'
  BY <1>fix DEF TInv, TypeOK, FixedOK, ClientOK, fixed
<1>plc. Place'
  <2>1. \A t \in Session : Files(t)' = Files(t)
    BY <1>fix, FilesKept
  <2> QED BY <1>fix, <2>1 DEF TInv, Place, fixed
<1>rec. /\ child \in [Session -> ChildState] /\ child[s] \in ChildState
        /\ dir \subseteq Transcript /\ stored \in [Transcript -> [0..NFile -> TmpFile]]
        /\ name[s] \in Transcript /\ conn \in [Session -> BOOLEAN]
  BY DEF TInv, TypeOK, FixedOK, NetOK, ServerOK
<1>fld. child[s].xscript \in Transcript \cup {Nobody} /\ child[s].k \in 0..NFile /\ child[s].len \in Nat
  BY <1>rec DEF ChildState
<1>pcs. \A pc \in {"cmd", "data", "gone"} : pc \in ChildPc
  BY DEF ChildPc
<1>non. None \in TmpFile /\ [by |-> s, blocks |-> <<>>] \in TmpFile
  BY DEF None, TmpFile
<1>net. ASSUME up[s] # <<>>, Takes(s), down' \in [Session -> Seq({"3", "2", "5"})]
        PROVE  NetOK' /\ Stream'
  BY <1>net, <1>fix, <1>rec, Taking DEF NetOK
<1>1. CASE StorCommand(s)
  <2> DEFINE k == Head(up[s]).arg
             x == IF k = 0 THEN name[s] ELSE child[s].xscript
  <2>1. up[s] # <<>> /\ Takes(s)
    BY <1>1 DEF StorCommand, In
  <2>2. Head(up[s]) \in Part /\ Head(up[s]).size \in Nat
    BY <2>1, Taking DEF Part
  <2>3. x \in Transcript \cup {Nobody}
    BY <1>rec, <1>fld
  <2>4. CASE Head(up[s]).op = "stor" /\ Accepted(s, k)
    <3> DEFINE c == [pc |-> "data", xscript |-> x, k |-> k, len |-> Head(up[s]).size]
               f == [by |-> s, blocks |-> <<>>]
    <3>1. k \in 0..NFile
      BY <2>1, <2>4, Taking
    <3>2. c \in ChildState
      <4> HIDE DEF x, k
      <4> QED BY <2>2, <2>3, <3>1, <1>pcs DEF ChildState
    <3>3. /\ child' = [child EXCEPT ![s] = c] /\ dir' = dir \cup {name[s]}
          /\ stored' = [stored EXCEPT ![name[s]][k] = f] /\ Says(s, "3")
      BY <1>1, <2>4 DEF StorCommand
    <3>4. NetOK' /\ Stream'
      BY <2>1, <3>3, <1>net, Speaking
    <3>5. child' \in [Session -> ChildState]
      <4> HIDE DEF c
      <4> QED BY <3>2, <3>3, <1>rec
    <3>6. stored' \in [Transcript -> [0..NFile -> TmpFile]]
      <4> HIDE DEF f, k
      <4> QED BY <3>1, <3>3, <1>non, <1>rec DEF f
    <3> QED BY <3>3, <3>4, <3>5, <3>6, <1>cli, <1>plc, <1>rec DEF TInv, TypeOK, ServerOK
  <2>5. CASE ~(Head(up[s]).op = "stor" /\ Accepted(s, k))
    <3>1. Refused(s, x) /\ Says(s, "5") /\ UNCHANGED stored /\ dir' \subseteq Transcript
      BY <1>1, <2>5, <1>rec DEF StorCommand
    <3>2. child' \in [Session -> ChildState]
      <4> HIDE DEF x
      <4> QED BY <2>3, <3>1, <1>rec, <1>pcs DEF Refused, ChildState
    <3>3. NetOK' /\ Stream'
      BY <2>1, <3>1, <1>net, Speaking
    <3> QED BY <3>1, <3>2, <3>3, <1>cli, <1>plc, <1>rec DEF TInv, TypeOK, ServerOK
  <2> QED BY <2>4, <2>5
<1>2. CASE StorBlock(s)
  <2>1. up[s] # <<>> /\ Takes(s) /\ UNCHANGED <<down, dir>>
    BY <1>2 DEF StorBlock, In
  <2>2. NetOK' /\ Stream'
    BY <2>1, <1>net DEF TInv, TypeOK, NetOK
  <2>3. Head(up[s]).arg \in Nat
    BY <2>1, Taking DEF Part
  <2>4. child' \in [Session -> ChildState]
    <3>1. child[s].len - 1 \in Nat
      BY <1>2, <1>fld DEF StorBlock, WantsBlock
    <3> QED BY <1>2, <3>1, <1>rec DEF StorBlock, ChildState
  <2>5. stored' \in [Transcript -> [0..NFile -> TmpFile]]
    <3> DEFINE f == stored[name[s]][child[s].k]
               g == [f EXCEPT !.blocks = Append(@, Head(up[s]).arg)]
    <3>1. f \in TmpFile
      BY <1>rec, <1>fld
    <3>2. g \in TmpFile
      <4>1. Append(f.blocks, Head(up[s]).arg) \in Seq(Nat)
        BY <3>1, <2>3 DEF TmpFile
      <4> HIDE DEF f
      <4> QED BY <3>1, <4>1 DEF TmpFile
    <3>3. stored' = [stored EXCEPT ![name[s]] = [@ EXCEPT ![child[s].k] = g]]
      BY <1>2, <1>rec, <1>fld DEF StorBlock
    <3> HIDE DEF g
    <3> QED BY <3>2, <3>3, <1>rec, <1>fld
  <2> QED BY <2>1, <2>2, <2>4, <2>5, <1>cli, <1>plc, <1>rec DEF TInv, TypeOK, ServerOK
<1>3. CASE StorEnd(s)
  <2>1. up[s] # <<>> /\ Takes(s) /\ UNCHANGED dir
    BY <1>3 DEF StorEnd, In
  <2>2. NetOK' /\ Stream'
    BY <1>3, <2>1, <1>net, Speaking DEF StorEnd
  <2>3. child' \in [Session -> ChildState]
    <3>1. PICK pc \in {"cmd", "gone"} : child' = [child EXCEPT ![s].pc = pc]
      BY <1>3 DEF StorEnd
    <3>2. pc \in ChildPc
      BY <1>pcs
    <3>3. [child[s] EXCEPT !.pc = pc] \in ChildState
      BY <3>2, <1>rec DEF ChildState
    <3> QED BY <3>1, <3>3, <1>rec
  <2>4. stored' \in [Transcript -> [0..NFile -> TmpFile]]
    <3>1. \/ UNCHANGED stored
          \/ stored' = [stored EXCEPT ![name[s]][child[s].k] = None]
      BY <1>3 DEF StorEnd
    <3>2. CASE UNCHANGED stored
      BY <3>2, <1>rec
    <3>3. CASE stored' = [stored EXCEPT ![name[s]][child[s].k] = None]
      <4>1. [stored[name[s]] EXCEPT ![child[s].k] = None] \in [0..NFile -> TmpFile]
        BY <1>rec, <1>fld, <1>non
      <4> QED BY <3>3, <4>1, <1>rec
    <3> QED BY <3>1, <3>2, <3>3
  <2> QED BY <2>1, <2>2, <2>3, <2>4, <1>cli, <1>plc, <1>rec DEF TInv, TypeOK, ServerOK
<1>4. CASE HangUp(s)
  <2>1. UNCHANGED <<up, down, dir, stored>>
    BY <1>4 DEF HangUp, net, tmp
  <2>2. NetOK' /\ Stream'
    BY <2>1, <1>fix DEF TInv, TypeOK, NetOK, Stream
  <2>3. child' \in [Session -> ChildState]
    BY <1>4, <1>rec, <1>pcs DEF HangUp, ChildState
  <2> QED BY <2>1, <2>2, <2>3, <1>cli, <1>plc, <1>rec DEF TInv, TypeOK, ServerOK
<1> QED BY <1>1, <1>2, <1>3, <1>4 DEF Child

(* What happens around them                                                 *)
Around(s) == Lose(s) \/ Kill(s) \/ Fault(s) \/ Modify(s)

LEMMA AroundTypes ==
  ASSUME TInv, NEW s \in Session, Around(s)
  PROVE  TInv'
<1> USE UploadAssumption
<1>fix. UNCHANGED <<fixed, up>> /\ FixedOK'
  BY DEF client, net, Around, Lose, Kill, Fault, Modify, TInv, TypeOK, FixedOK, fixed
<1>fil. \A t \in Session : Files(t)' = Files(t)
  BY <1>fix, FilesKept
<1>net. ASSUME down' \in [Session -> Seq({"3", "2", "5"})], conn' \in [Session -> BOOLEAN]
        PROVE  NetOK' /\ Stream'
  BY <1>net, <1>fix DEF TInv, TypeOK, NetOK, Stream
<1>cli. ASSUME UNCHANGED <<disk, client>> PROVE ClientOK' /\ Place'
  BY <1>cli, <1>fix, <1>fil DEF client, fixed, TInv, TypeOK, ClientOK, Place
<1>srv. ASSUME UNCHANGED <<child, tmp>> PROVE ServerOK'
  BY <1>srv DEF tmp, TInv, TypeOK, ServerOK
<1>dwn. down \in [Session -> Seq({"3", "2", "5"})] /\ conn \in [Session -> BOOLEAN]
  BY DEF TInv, TypeOK, NetOK
<1>1. CASE Lose(s)
  <2>1. conn' \in [Session -> BOOLEAN]
    BY <1>1, <1>dwn DEF Lose
  <2>2. PICK n \in 0..Len(down[s]) : down' = [down EXCEPT ![s] = SubSeq(@, 1, n)]
    BY <1>1 DEF Lose
  <2>3. SubSeq(down[s], 1, n) \in Seq({"3", "2", "5"})
    BY <1>dwn
  <2>4. down' \in [Session -> Seq({"3", "2", "5"})]
    BY <2>2, <2>3, <1>dwn
  <2> QED BY <1>1, <2>1, <2>4, <1>fix, <1>net, <1>cli, <1>srv DEF Lose, TInv, TypeOK
<1>2. CASE Kill(s)
  <2>1. ClientOK' /\ Place'
    <3> DEFINE r == [lc[s] EXCEPT !.pc = "over"]
    <3>1. r \in LcState /\ r.k = lc[s].k /\ r.pc # "poll"
      BY DEF TInv, TypeOK, ClientOK, LcState, LcPc
    <3>2. /\ lc' = [lc EXCEPT ![s] = r] /\ exit' = [exit EXCEPT ![s] = "killed"]
          /\ UNCHANGED disk
      BY <1>2 DEF Kill, Exits, TInv, TypeOK, ClientOK
    <3>3. lc[s].k <= Len(lines[s])
      BY DEF TInv, Place
    <3> HIDE DEF r
    <3> QED BY <3>1, <3>2, <3>3, <1>fix, ClientStep
  <2>2. UNCHANGED <<down, conn, child, tmp>>
    BY <1>2 DEF Kill, net
  <2> QED BY <2>1, <2>2, <1>dwn, <1>fix, <1>net, <1>srv DEF TInv, TypeOK
<1>3. CASE Fault(s)
  <2>1. UNCHANGED <<disk, client, conn>>
    BY <1>3 DEF Fault
  <2>2. down' \in [Session -> Seq({"3", "2", "5"})]
    BY <1>3, <1>dwn, Speaking DEF Fault
  <2>3. ServerOK'
    <3>1. "gone" \in ChildPc
      BY DEF ChildPc
    <3>2. dir' \subseteq Transcript /\ UNCHANGED stored
      BY <1>3 DEF Fault, TInv, TypeOK, FixedOK, ServerOK
    <3> QED BY <1>3, <3>1, <3>2 DEF Fault, TInv, TypeOK, ServerOK, ChildState
  <2> QED BY <2>1, <2>2, <2>3, <1>dwn, <1>fix, <1>net, <1>cli DEF TInv, TypeOK
<1>4. CASE Modify(s)
  <2>1. PICK k \in DOMAIN disk[s], v \in Versions : disk' = [disk EXCEPT ![s][k] = v]
    BY <1>4 DEF Modify
  <2>2. disk \in [Session -> Seq(Seq(Block))]
    BY DEF TInv, TypeOK, ClientOK
  <2> DEFINE d == [disk[s] EXCEPT ![k] = v]
  <2>3. disk' = [disk EXCEPT ![s] = d]
    BY <2>1, <2>2
  <2>4. d \in Seq(Seq(Block)) /\ Len(d) = Len(disk[s])
    BY <2>2
  <2> HIDE DEF d
  <2>5. ClientOK'
    BY <1>4, <2>2, <2>3, <2>4 DEF Modify, client, TInv, TypeOK, ClientOK
  <2>6. Place'
    BY <1>4, <2>2, <2>3, <2>4, <1>fil DEF Modify, client, fixed, TInv, Place
  <2>7. UNCHANGED <<down, conn, child, tmp>>
    BY <1>4 DEF Modify, net
  <2> QED BY <2>5, <2>6, <2>7, <1>dwn, <1>fix, <1>net, <1>srv DEF TInv, TypeOK
<1> QED BY <1>1, <1>2, <1>3, <1>4 DEF Around

LEMMA CleanTypes ==
  ASSUME TInv, NEW t \in Transcript, Clean(t)
  PROVE  TInv'
<1> USE UploadAssumption
<1>1. UNCHANGED <<fixed, disk, client, net, child>>
  BY DEF Clean
<1>2. \A s \in Session : Files(s)' = Files(s)
  BY <1>1, FilesKept
<1>3. FixedOK' /\ ClientOK' /\ NetOK' /\ Stream'
  BY <1>1 DEF client, net, fixed, TInv, TypeOK, FixedOK, ClientOK, NetOK, Stream
<1>4. Place'
  BY <1>1, <1>2 DEF client, fixed, TInv, Place
<1>5. None \in TmpFile
  BY DEF None, TmpFile
<1>6. ServerOK'
  BY <1>1, <1>5 DEF Clean, TInv, TypeOK, ServerOK
<1> QED BY <1>3, <1>4, <1>6 DEF TInv, TypeOK

LEMMA StutterTypes ==
  ASSUME TInv, UNCHANGED vars
  PROVE  TInv'
<1>1. \A s \in Session : Files(s)' = Files(s)
  BY FilesKept DEF vars
<1>2. FixedOK' /\ ClientOK' /\ NetOK' /\ ServerOK' /\ Stream'
  BY DEF vars, fixed, client, net, tmp, TInv, TypeOK, FixedOK, ClientOK, NetOK, ServerOK, Stream
<1>3. Place'
  BY <1>1 DEF vars, fixed, client, TInv, Place
<1> QED BY <1>2, <1>3 DEF TInv, TypeOK

LEMMA StepTypes ==
  ASSUME TInv, [Next]_vars
  PROVE  TInv'
BY LcreateTypes, ChildTypes, AroundTypes, CleanTypes, StutterTypes DEF Next, Around, Idle

(* The variables keep their types: lcreate never looks for a file that its  *)
(* transcript does not list, the child never takes more bytes than were     *)
(* announced, and respcount does not fall below zero                        *)
THEOREM TypeCorrect == Spec => []TypeOK
<1>1. TInv /\ [Next]_vars => TInv'
  BY StepTypes
<1>2. TInv => TypeOK
  BY DEF TInv
<1> QED BY <1>1, <1>2, InitTypes, PTL DEF Spec
-----------------------------------------------------------------------------
(* The child that made the directory of a transcript holds it as long as    *)
(* it lives; no other child can write under that name.  The directory       *)
(* outlives the child, and the files in it keep others out no longer than   *)
(* the directory does.                                                      *)
Live(s) == child[s].pc \in {"cmd", "data"}

Holds(s) == Live(s) /\ child[s].xscript # Nobody

EmptyOutside ==
  \A t \in Transcript \ dir : \A k \in 0..NFile : stored[t][k].by = Nobody

HolderWrites ==
  \A s \in Session : Holds(s) =>
    /\ child[s].xscript = name[s] /\ name[s] \in dir
    /\ \A k \in 0..NFile : stored[name[s]][k].by \in {Nobody, s}

OneHolder ==
  \A r, s \in Session : Holds(r) /\ Holds(s) /\ name[r] = name[s] => r = s

IdleChild ==
  \A s \in Session :
    /\ lc[s].pc = "idle" => child[s].pc = "none"
    /\ child[s].pc = "none" => child[s].xscript = Nobody

WInv == TInv /\ EmptyOutside /\ HolderWrites /\ OneHolder /\ IdleChild /\ OneWriter

THEOREM InitWriters == Init => WInv
<1> SUFFICES ASSUME Init PROVE WInv
  OBVIOUS
<1>1. TInv
  BY InitTypes
<1>2. \A t \in Transcript : \A k \in 0..NFile : stored[t][k].by = Nobody
  BY DEF Init, None
<1>3. \A s \in Session : child[s].pc = "none" /\ child[s].xscript = Nobody
  <2>1. child = [s \in Session |-> [pc |-> "none", xscript |-> Nobody, k |-> 0, len |-> 0]]
    BY DEF Init
  <2> QED BY <2>1
<1> QED BY <1>1, <1>2, <1>3 DEF WInv, EmptyOutside, HolderWrites, OneHolder, IdleChild, OneWriter,
                                Holds, Live

(* Nothing is lost by a step that makes no child the holder of a name and   *)
(* gives no file to anybody                                                 *)
LEMMA NoNewHolder ==
  ASSUME WInv, UNCHANGED name, dir \subseteq dir',
         \A t \in Transcript : \A k \in 0..NFile : stored'[t][k].by \in {stored[t][k].by, Nobody},
         \A s \in Session : Holds(s)' => Holds(s) /\ child'[s].xscript = child[s].xscript
  PROVE  EmptyOutside' /\ HolderWrites' /\ OneHolder' /\ OneWriter'
<1>1. EmptyOutside'
  BY DEF WInv, EmptyOutside
<1>2. HolderWrites'
  BY DEF WInv, TInv, TypeOK, FixedOK, HolderWrites
<1>3. OneHolder'
  BY DEF WInv, OneHolder
<1>4. OneWriter'
  BY DEF WInv, OneWriter
<1> QED BY <1>1, <1>2, <1>3, <1>4

(* The steps of lcreate start children and do nothing else to them          *)
LEMMA LcreateWriters ==
  ASSUME WInv, NEW s \in Session, Lcreate(s)
  PROVE  EmptyOutside' /\ HolderWrites' /\ OneHolder' /\ IdleChild' /\ OneWriter'
<1>typ. lc \in [Session -> LcState] /\ child \in [Session -> ChildState]
  BY DEF WInv, TInv, TypeOK, ClientOK, ServerOK
<1>1. UNCHANGED <<name, dir, stored>>
  BY DEF Lcreate, Connect, Open, Send, Finished, End, Answer, NextLine, Close, fixed, tmp
<1>2. CASE Connect(s)
  <2>1. child[s].pc = "none" /\ child[s].xscript = Nobody
    BY <1>2 DEF Connect, At, WInv, IdleChild
  <2>2. /\ child' = [child EXCEPT ![s].pc = "cmd"]
        /\ lc' = [lc EXCEPT ![s].pc = "open", ![s].respcount = 2]
    BY <1>2 DEF Connect
  <2>3. \A t \in Session : Holds(t)' => Holds(t) /\ child'[t].xscript = child[t].xscript
    BY <2>1, <2>2, <1>typ DEF Holds, Live, ChildState
  <2>4. IdleChild'
    BY <2>1, <2>2, <1>typ DEF WInv, IdleChild, ChildState, LcState
  <2> QED BY <1>1, <2>3, <2>4, NoNewHolder
<1>3. CASE ~Connect(s)
  <2>1. UNCHANGED child
    BY <1>3 DEF Lcreate, Open, Send, Finished, End, Answer, NextLine, Close
  <2>2. \A t \in Session : lc'[t].pc = "idle" => lc[t].pc = "idle"
    <3>1. ASSUME NEW status, Exits(s, status)
          PROVE  \A t \in Session : lc'[t].pc = "idle" => lc[t].pc = "idle"
      BY <3>1, <1>typ DEF Exits, LcState
    <3>2. ASSUME GiveUp(s)
          PROVE  \A t \in Session : lc'[t].pc = "idle" => lc[t].pc = "idle"
      BY <3>2, <1>typ DEF GiveUp, LcState
    <3>3. CASE Open(s)
      <4> DEFINE n == IF Zero(s, lc[s].k) THEN 0 ELSE Len(Found(s, lc[s].k))
                 pc == IF Zero(s, lc[s].k) THEN "end" ELSE "send"
      <4>1. \/ Exits(s, "2")
            \/ lc' = [lc EXCEPT ![s].pc = pc, ![s].size = n, ![s].sent = <<>>]
        BY <3>3 DEF Open
      <4>2. pc # "idle"
        OBVIOUS
      <4> HIDE DEF n, pc
      <4> QED BY <4>1, <4>2, <3>1, <1>typ DEF LcState
    <3>4. CASE Send(s)
      <4> DEFINE b == Found(s, lc[s].k)[Len(lc[s].sent) + 1]
      <4>1. lc[s].pc = "send" /\ (GiveUp(s) \/ lc' = [lc EXCEPT ![s].sent = Append(@, b)])
        BY <3>4 DEF Send, At
      <4> HIDE DEF b
      <4> QED BY <4>1, <3>2, <1>typ DEF LcState
    <3>5. CASE Finished(s)
      BY <3>5, <3>1, <1>typ DEF Finished, LcState
    <3>6. CASE End(s)
      <4> DEFINE pc == IF lc[s].k < Files(s) THEN "poll" ELSE "drain"
      <4>1. \/ Exits(s, "2") \/ GiveUp(s)
            \/ lc' = [lc EXCEPT ![s].pc = pc, ![s].respcount = Counted(s)]
        BY <3>6 DEF End
      <4>2. pc # "idle"
        OBVIOUS
      <4> HIDE DEF pc
      <4> QED BY <4>1, <4>2, <3>1, <3>2, <1>typ DEF LcState
    <3>7. CASE Answer(s)
      <4> DEFINE c == lc[s].respcount - 1
      <4>1. Exits(s, "2") \/ lc' = [lc EXCEPT ![s].respcount = c]
        BY <3>7 DEF Answer
      <4> HIDE DEF c
      <4>2. CASE lc' = [lc EXCEPT ![s].respcount = c]
        <5>1. [lc[s] EXCEPT !.respcount = c].pc = lc[s].pc
          BY <1>typ DEF LcState
        <5> QED BY <4>2, <5>1, <1>typ
      <4> QED BY <4>1, <4>2, <3>1
    <3>8. CASE NextLine(s)
      BY <3>8, <1>typ DEF NextLine, LcState
    <3>9. CASE Close(s)
      BY <3>9, <3>1 DEF Close
    <3> QED BY <1>3, <3>3, <3>4, <3>5, <3>6, <3>7, <3>8, <3>9 DEF Lcreate
  <2>3. IdleChild'
    BY <2>1, <2>2 DEF WInv, IdleChild
  <2> QED BY <1>1, <2>1, <2>3, NoNewHolder DEF Holds, Live
<1> QED BY <1>2, <1>3

(* STOR that is accepted: mkdir() has succeeded, so nobody held the name    *)
(* and nothing was in the directory; or the child holds it from before      *)
LEMMA AcceptedWriters ==
  ASSUME WInv, NEW s \in Session, StorCommand(s),
         Head(up[s]).op = "stor" /\ Accepted(s, Head(up[s]).arg)
  PROVE  EmptyOutside' /\ HolderWrites' /\ OneHolder' /\ OneWriter'
<1> DEFINE k == Head(up[s]).arg
           n == name[s]
<1>typ. /\ child \in [Session -> ChildState] /\ name \in [Session -> Transcript]
        /\ stored \in [Transcript -> [0..NFile -> TmpFile]] /\ n \in Transcript
  BY DEF WInv, TInv, TypeOK, FixedOK, ServerOK
<1>non. Nobody \notin Transcript /\ Nobody \notin Session
  BY UploadAssumption
<1>1. k \in 0..NFile
  BY Taking DEF WInv, StorCommand, In
<1>2. /\ UNCHANGED name /\ dir' = dir \cup {n}
      /\ child' = [child EXCEPT ![s] = [pc |-> "data",
                     xscript |-> IF k = 0 THEN n ELSE child[s].xscript,
                     k |-> k, len |-> Head(up[s]).size]]
      /\ stored' = [stored EXCEPT ![n][k] = [by |-> s, blocks |-> <<>>]]
  BY DEF StorCommand, fixed
<1>3. child[s].pc = "cmd" /\ (IF k = 0 THEN n \notin dir ELSE child[s].xscript = n)
  BY DEF StorCommand, In, Accepted
<1>4. Live(s) /\ child'[s].pc = "data" /\ child'[s].xscript = n
  BY <1>2, <1>3, <1>typ DEF Live
<1>5. \A t \in Session \ {s} : child'[t] = child[t] /\ (Holds(t)' <=> Holds(t))
  BY <1>2, <1>typ DEF Holds, Live
<1>6. \A j \in 0..NFile : stored[n][j].by \in {Nobody, s}
  BY <1>3, <1>4, <1>typ, <1>non DEF WInv, EmptyOutside, HolderWrites, Holds
<1>7. \A t \in Session \ {s} : Holds(t) => name[t] # n
  <2>1. CASE k = 0
    BY <2>1, <1>3 DEF WInv, HolderWrites
  <2>2. CASE k # 0
    BY <2>2, <1>3, <1>4, <1>typ, <1>non DEF WInv, OneHolder, Holds
  <2> QED BY <2>1, <2>2
<1>8. \A j \in 0..NFile : stored'[n][j].by \in {Nobody, s}
  <2> HIDE DEF k, n
  <2> QED BY <1>1, <1>2, <1>6, <1>typ
<1>9. \A t \in Transcript \ {n} : stored'[t] = stored[t]
  <2> HIDE DEF k, n
  <2> QED BY <1>2, <1>typ
<1>10. EmptyOutside'
  <2> HIDE DEF k, n
  <2> QED BY <1>2, <1>9 DEF WInv, EmptyOutside
<1>11. HolderWrites'
  <2> SUFFICES ASSUME NEW t \in Session, Holds(t)'
               PROVE  /\ child'[t].xscript = name[t] /\ name[t] \in dir'
                      /\ \A j \in 0..NFile : stored'[name[t]][j].by \in {Nobody, t}
    BY <1>2 DEF HolderWrites
  <2>1. CASE t = s
    BY <2>1, <1>2, <1>4, <1>8
  <2>2. CASE t # s
    <3>1. Holds(t) /\ name[t] # n /\ child'[t] = child[t] /\ stored'[name[t]] = stored[name[t]]
      BY <2>2, <1>5, <1>7, <1>9, <1>typ
    <3> QED BY <3>1, <1>2 DEF WInv, HolderWrites
  <2> QED BY <2>1, <2>2
<1>12. OneHolder'
  BY <1>2, <1>5, <1>7 DEF WInv, OneHolder
<1>13. OneWriter'
  <2> HIDE DEF k, n
  <2> QED BY <1>8, <1>9 DEF WInv, OneWriter
<1> QED BY <1>10, <1>11, <1>12, <1>13

LEMMA ChildWriters ==
  ASSUME WInv, NEW s \in Session, Child(s)
  PROVE  EmptyOutside' /\ HolderWrites' /\ OneHolder' /\ IdleChild' /\ OneWriter'
<1>typ. /\ child \in [Session -> ChildState] /\ name \in [Session -> Transcript]
        /\ stored \in [Transcript -> [0..NFile -> TmpFile]]
        /\ child[s].k \in 0..NFile
  BY DEF WInv, TInv, TypeOK, FixedOK, ServerOK, ChildState
<1>1. UNCHANGED <<name, lc>>
  BY DEF Child, StorCommand, StorBlock, StorEnd, HangUp, fixed, client
<1>2. Live(s) /\ \A t \in Session \ {s} : child'[t] = child[t]
  BY <1>typ DEF Child, StorCommand, StorBlock, StorEnd, HangUp, In, Live, Refused
<1>3. child'[s].pc # "none"
  <2>1. CASE StorCommand(s)
    <3> DEFINE k == Head(up[s]).arg
               x == IF k = 0 THEN name[s] ELSE child[s].xscript
    <3>1. \/ child' = [child EXCEPT ![s] = [pc |-> "data", xscript |-> x, k |-> k,
                                           len |-> Head(up[s]).size]]
          \/ child' = [child EXCEPT ![s].pc = "gone", ![s].xscript = x]
      BY <2>1 DEF StorCommand, Refused
    <3> HIDE DEF k, x
    <3> QED BY <3>1, <1>typ DEF ChildState
  <2>2. CASE StorBlock(s)
    BY <2>2, <1>typ DEF StorBlock, In, ChildState
  <2>3. CASE StorEnd(s)
    <3>1. \E pc \in {"cmd", "gone"} : child' = [child EXCEPT ![s].pc = pc]
      BY <2>3 DEF StorEnd
    <3> QED BY <3>1, <1>typ DEF ChildState
  <2>4. CASE HangUp(s)
    BY <2>4, <1>typ DEF HangUp
  <2> QED BY <2>1, <2>2, <2>3, <2>4 DEF Child
<1>4. IdleChild'
  BY <1>1, <1>2, <1>3 DEF WInv, IdleChild, Live
<1>5. ASSUME dir \subseteq dir',
             \A t \in Transcript : \A k \in 0..NFile :
               stored'[t][k].by \in {stored[t][k].by, Nobody},
             child'[s].pc = "gone" \/ child'[s].xscript = child[s].xscript
      PROVE  EmptyOutside' /\ HolderWrites' /\ OneHolder' /\ OneWriter'
  BY <1>1, <1>2, <1>5, NoNewHolder DEF Holds, Live
<1>6. CASE StorCommand(s)
  <2>1. CASE Head(up[s]).op = "stor" /\ Accepted(s, Head(up[s]).arg)
    BY <1>4, <1>6, <2>1, AcceptedWriters
  <2>2. CASE ~(Head(up[s]).op = "stor" /\ Accepted(s, Head(up[s]).arg))
    <3> DEFINE x == IF Head(up[s]).arg = 0 THEN name[s] ELSE child[s].xscript
    <3>1. /\ child' = [child EXCEPT ![s].pc = "gone", ![s].xscript = x]
          /\ UNCHANGED stored /\ dir \subseteq dir'
      BY <1>6, <2>2 DEF StorCommand, Refused
    <3> HIDE DEF x
    <3>2. child'[s].pc = "gone"
      BY <3>1, <1>typ DEF ChildState
    <3> QED BY <1>4, <1>5, <3>1, <3>2
  <2> QED BY <2>1, <2>2
<1>7. CASE StorBlock(s)
  BY <1>4, <1>5, <1>7, <1>typ DEF StorBlock, TmpFile
<1>8. CASE StorEnd(s)
  <2>1. \A t \in Transcript : \A k \in 0..NFile :
          stored'[t][k].by \in {stored[t][k].by, Nobody}
    <3>1. UNCHANGED stored \/ stored' = [stored EXCEPT ![name[s]][child[s].k] = None]
      BY <1>8 DEF StorEnd
    <3>2. None.by = Nobody
      BY DEF None
    <3>3. CASE UNCHANGED stored
      BY <3>3
    <3>4. CASE stored' = [stored EXCEPT ![name[s]][child[s].k] = None]
      <4>1. \A t \in Transcript : \A k \in 0..NFile :
              stored'[t][k] = stored[t][k] \/ stored'[t][k] = None
        BY <3>4, <1>typ
      <4> QED BY <4>1, <3>2
    <3> QED BY <3>1, <3>3, <3>4
  <2>2. /\ dir' = dir
        /\ child' = [child EXCEPT ![s].pc = "cmd"] \/ child' = [child EXCEPT ![s].pc = "gone"]
    BY <1>8 DEF StorEnd
  <2>3. child'[s].xscript = child[s].xscript
    BY <2>2, <1>typ DEF ChildState
  <2> QED BY <2>1, <2>2, <2>3, <1>4, <1>5
<1>9. CASE HangUp(s)
  BY <1>4, <1>5, <1>9, <1>typ DEF HangUp, tmp
<1> QED BY <1>6, <1>7, <1>8, <1>9 DEF Child

LEMMA AroundWriters ==
  ASSUME WInv, NEW s \in Session, Around(s)
  PROVE  EmptyOutside' /\ HolderWrites' /\ OneHolder' /\ IdleChild' /\ OneWriter'
<1>typ. child \in [Session -> ChildState] /\ lc \in [Session -> LcState]
  BY DEF WInv, TInv, TypeOK, ClientOK, ServerOK
<1>1. UNCHANGED <<name, stored>> /\ dir \subseteq dir'
  BY DEF Around, Lose, Kill, Fault, Modify, fixed, tmp
<1>2. UNCHANGED child \/ (Live(s) /\ child' = [child EXCEPT ![s].pc = "gone"])
  BY DEF Around, Lose, Kill, Fault, Modify, Live
<1>3. \A t \in Session : Holds(t)' => Holds(t) /\ child'[t].xscript = child[t].xscript
  BY <1>2, <1>typ DEF Holds, Live, ChildState
<1>4. UNCHANGED lc \/ lc' = [lc EXCEPT ![s].pc = "over"]
  BY DEF Around, Lose, Kill, Fault, Modify, client, Exits
<1>5. \A t \in Session : lc'[t].pc = "idle" => lc[t].pc = "idle"
  BY <1>4, <1>typ DEF LcState
<1>6. \A t \in Session :
        \/ child'[t] = child[t]
        \/ child[t].pc # "none" /\ child'[t].pc = "gone" /\ lc[t].pc # "idle"
  BY <1>2, <1>typ DEF Live, ChildState, WInv, IdleChild
<1>7. IdleChild'
  BY <1>5, <1>6 DEF WInv, IdleChild
<1> QED BY <1>1, <1>3, <1>7, NoNewHolder

(* The administrator removes files only where no child is                   *)
LEMMA CleanWriters ==
  ASSUME WInv, NEW t \in Transcript, Clean(t)
  PROVE  EmptyOutside' /\ HolderWrites' /\ OneHolder' /\ IdleChild' /\ OneWriter'
<1>typ. /\ name \in [Session -> Transcript]
        /\ stored \in [Transcript -> [0..NFile -> TmpFile]]
  BY DEF WInv, TInv, TypeOK, FixedOK, ServerOK
<1>1. UNCHANGED <<name, lc, child>> /\ dir' = dir \ {t}
  BY DEF Clean, fixed, client
<1>2. stored' = [stored EXCEPT ![t] = [k \in 0..NFile |-> None]] /\ None.by = Nobody
  BY DEF Clean, None
<1>3. /\ \A k \in 0..NFile : stored'[t][k].by = Nobody
      /\ \A u \in Transcript \ {t} : stored'[u] = stored[u]
  BY <1>2, <1>typ
<1>4. \A s \in Session : Holds(s) => name[s] # t
  BY DEF Clean, At, Holds, Live, WInv, IdleChild
<1>5. EmptyOutside'
  BY <1>1, <1>3 DEF WInv, EmptyOutside
<1>6. HolderWrites'
  BY <1>1, <1>3, <1>4, <1>typ DEF WInv, HolderWrites, Holds, Live
<1>7. OneHolder' /\ IdleChild'
  BY <1>1 DEF WInv, OneHolder, IdleChild, Holds, Live
<1>8. OneWriter'
  BY <1>3 DEF WInv, OneWriter
<1> QED BY <1>5, <1>6, <1>7, <1>8

LEMMA StepWriters ==
  ASSUME WInv, [Next]_vars
  PROVE  WInv'
<1>1. TInv'
  BY StepTypes DEF WInv
<1>2. CASE UNCHANGED vars
  BY <1>1, <1>2 DEF vars, fixed, client, tmp, WInv, EmptyOutside, HolderWrites, OneHolder,
                    IdleChild, OneWriter, Holds, Live
<1>3. CASE Next
  BY <1>1, <1>2, <1>3, LcreateWriters, ChildWriters, AroundWriters, CleanWriters
     DEF Next, Idle, Around, WInv
<1> QED BY <1>2, <1>3

(* However many uploads run under one name, fail and are cleaned up after,  *)
(* all files of a transcript in tmp come from one of them                   *)
THEOREM UploadsLocked == Spec => []OneWriter
<1>1. WInv /\ [Next]_vars => WInv'
  BY StepWriters
<1>2. WInv => OneWriter
  BY DEF WInv
<1> QED BY <1>1, <1>2, InitWriters, PTL DEF Spec
-----------------------------------------------------------------------------
(* What is on its way.  The operators below speak of one upload: o and ln   *)
(* are its options and its lines, q is what the connection holds of its     *)
(* commands, l the record of lcreate, ch that of the child and st the       *)
(* files of its transcript in tmp.                                          *)

(* Contents that may be stored for file k                                   *)
Fit(o, ln, k, c) ==
  /\ o.negative /\ k > 0 => c = <<>>
  /\ ~(o.negative /\ k > 0) /\ ~o.force =>
       LET listed == IF k = 0 THEN TranBlocks ELSE ln[k]
       IN  Len(c) = Len(listed) /\ (o.cksum => c = listed)

(* The parts of q from p on are the blocks of c after those of b            *)
Spelled(q, b, p, c) ==
  /\ Len(b) <= Len(c)
  /\ \A j \in 1..Len(b) : c[j] = b[j]
  /\ \A j \in 1..(Len(c) - Len(b)) : q[p + j - 1] = Bytes(c[Len(b) + j])

(* lcreate is through with file k and has not announced the next one        *)
After(l, k) == (l.pc \in {"poll", "drain"} /\ l.k = k) \/ (l.pc = "open" /\ l.k = k + 1)

(* Of file k, b is in tmp and m more blocks are announced: either they and  *)
(* "." are on their way, and after them the next file if lcreate has come   *)
(* to it, or lcreate is still sending them, perhaps more than announced     *)
Whole(o, ln, q, l, k, b, p, m) ==
  /\ p + m <= Len(q) /\ q[p + m] = Dot
  /\ \E c \in Seq(Block) : Len(c) = Len(b) + m /\ Spelled(q, b, p, c) /\ Fit(o, ln, k, c)
  /\ IF p + m = Len(q) THEN After(l, k)
     ELSE q[p + m + 1].op = "stor" /\ q[p + m + 1].arg = k + 1

Begun(q, l, k, b, p, m) ==
  /\ l.pc \in {"send", "end"} /\ l.k = k /\ l.size = Len(b) + m
  /\ Spelled(q, b, p, l.sent)
  /\ Len(q) + 1 = p + Len(l.sent) - Len(b)

Rest(o, ln, q, l, k, b, p, m) == Whole(o, ln, q, l, k, b, p, m) \/ Begun(q, l, k, b, p, m)

Announced(o, ln, q, l) ==
  \A i \in 1..Len(q) :
    q[i].op = "stor" => Rest(o, ln, q, l, q[i].arg, <<>>, i + 1, q[i].size)

LEMMA PartTypes ==
  /\ \A x \in Nat : Bytes(x) \in Part /\ Bytes(x).op = "block" /\ Bytes(x).arg = x
  /\ Dot \in Part /\ Dot.op = "end"
  /\ \A k, n \in Nat : /\ Stor(k, n) \in Part /\ Stor(k, n).op = "stor"
                       /\ Stor(k, n).arg = k /\ Stor(k, n).size = n
BY DEF Bytes, Dot, Stor, Part

LEMMA AppendParts ==
  ASSUME NEW q \in Seq(Part), NEW x \in Part
  PROVE  /\ Append(q, x) \in Seq(Part) /\ Len(Append(q, x)) = Len(q) + 1
         /\ \A i \in 1..Len(q) : Append(q, x)[i] = q[i]
         /\ Append(q, x)[Len(q) + 1] = x
OBVIOUS

LEMMA TailParts ==
  ASSUME NEW q \in Seq(Part), q # <<>>
  PROVE  /\ Tail(q) \in Seq(Part) /\ Len(Tail(q)) = Len(q) - 1 /\ Len(q) \in Nat \ {0}
         /\ \A i \in 1..(Len(q) - 1) : Tail(q)[i] = q[i + 1]
         /\ Head(q) = q[1] /\ q[1] \in Part
         /\ Tail(q) = <<>> <=> Len(q) = 1
<1>1. /\ Tail(q) \in Seq(Part) /\ Len(Tail(q)) = Len(q) - 1 /\ Len(q) \in Nat \ {0}
      /\ \A i \in 1..(Len(q) - 1) : Tail(q)[i] = q[i + 1]
  OBVIOUS
<1>2. Head(q) = q[1] /\ q[1] \in Part
  BY <1>1
<1>3. Tail(q) = <<>> <=> Len(Tail(q)) = 0
  BY <1>1
<1> QED BY <1>1, <1>2, <1>3

LEMMA SpelledAppend ==
  ASSUME NEW q \in Seq(Part), NEW x \in Part, NEW b \in Seq(Nat), NEW c \in Seq(Block),
         NEW p \in Nat \ {0}, Spelled(q, b, p, c), p + Len(c) - Len(b) <= Len(q) + 1
  PROVE  Spelled(Append(q, x), b, p, c)
<1>1. ASSUME NEW j \in 1..(Len(c) - Len(b))
      PROVE  p + j - 1 \in 1..Len(q)
  OBVIOUS
<1> QED BY <1>1, AppendParts DEF Spelled

LEMMA SpelledMore ==
  ASSUME NEW q \in Seq(Part), NEW b \in Seq(Nat), NEW c \in Seq(Block), NEW x \in Block,
         NEW p \in Nat \ {0}, Spelled(q, b, p, c), p + Len(c) - Len(b) = Len(q) + 1
  PROVE  Spelled(Append(q, Bytes(x)), b, p, Append(c, x))
<1>1. Bytes(x) \in Part
  BY UploadAssumption DEF Bytes, Part
<1> DEFINE y == Bytes(x)
           d == Append(c, x)
<1>2. /\ Len(d) = Len(c) + 1 /\ d[Len(c) + 1] = x /\ Len(b) <= Len(c)
      /\ Len(b) \in Nat /\ Len(c) \in Nat /\ Len(q) \in Nat
      /\ \A j \in 1..Len(c) : d[j] = c[j]
  BY DEF Spelled
<1>4. /\ \A i \in 1..Len(q) : Append(q, y)[i] = q[i]
      /\ Append(q, y)[Len(q) + 1] = y
  BY <1>1, AppendParts
<1> HIDE DEF d
<1>3. \A j \in 1..(Len(d) - Len(b)) : Append(q, y)[p + j - 1] = Bytes(d[Len(b) + j])
  <2> SUFFICES ASSUME NEW j \in 1..(Len(d) - Len(b))
               PROVE  Append(q, y)[p + j - 1] = Bytes(d[Len(b) + j])
    OBVIOUS
  <2>1. CASE j = Len(d) - Len(b)
    <3>1. p + j - 1 = Len(q) + 1 /\ Len(b) + j = Len(c) + 1
      BY <2>1, <1>2
    <3> QED BY <3>1, <1>2, <1>4
  <2>2. CASE j # Len(d) - Len(b)
    <3>1. j \in 1..(Len(c) - Len(b)) /\ p + j - 1 \in 1..Len(q) /\ Len(b) + j \in 1..Len(c)
      BY <2>2, <1>2 DEF Spelled
    <3>2. q[p + j - 1] = Bytes(c[Len(b) + j])
      BY <3>1 DEF Spelled
    <3>3. Append(q, y)[p + j - 1] = q[p + j - 1]
      BY <3>1, <1>4
    <3>4. d[Len(b) + j] = c[Len(b) + j]
      BY <3>1, <1>2
    <3> QED BY <3>2, <3>3, <3>4
  <2> QED BY <2>1, <2>2
<1>5. Spelled(Append(q, y), b, p, d)
  <2>1. \A j \in 1..Len(b) : d[j] = c[j]
    BY <1>2
  <2>2. Len(b) <= Len(d)
    BY <1>2
  <2> QED BY <2>1, <2>2, <1>3 DEF Spelled
<1> QED BY <1>5 DEF d

LEMMA SpelledTail ==
  ASSUME NEW q \in Seq(Part), q # <<>>, NEW b \in Seq(Nat), NEW c \in Seq(Block),
         NEW p \in Nat \ {0, 1}, Spelled(q, b, p, c), p + Len(c) - Len(b) <= Len(q) + 1
  PROVE  Spelled(Tail(q), b, p - 1, c)
<1>1. ASSUME NEW j \in 1..(Len(c) - Len(b))
      PROVE  Tail(q)[p - 1 + j - 1] = q[p + j - 1]
  <2>1. p - 1 + j - 1 \in 1..(Len(q) - 1) /\ (p - 1 + j - 1) + 1 = p + j - 1
    OBVIOUS
  <2> QED BY <2>1, TailParts
<1> QED BY <1>1 DEF Spelled

LEMMA SpelledTake ==
  ASSUME NEW q \in Seq(Part), q # <<>>, NEW b \in Seq(Nat), NEW c \in Seq(Block),
         Spelled(q, b, 1, c), Len(c) > Len(b), Len(c) - Len(b) <= Len(q)
  PROVE  /\ q[1].op = "block" /\ q[1].arg \in Nat
         /\ Spelled(Tail(q), Append(b, q[1].arg), 1, c)
<1>1. q[1] = Bytes(c[Len(b) + 1]) /\ c[Len(b) + 1] \in Nat
  <2>1. Len(b) + 1 \in 1..Len(c) /\ 1 \in 1..(Len(c) - Len(b))
    OBVIOUS
  <2>2. q[1 + 1 - 1] = Bytes(c[Len(b) + 1]) /\ 1 + 1 - 1 = 1
    BY <2>1 DEF Spelled
  <2>3. c[Len(b) + 1] \in Block
    BY <2>1
  <2>4. q[1] = Bytes(c[Len(b) + 1])
    BY <2>2
  <2> QED BY <2>3, <2>4, UploadAssumption
<1>2. q[1].op = "block" /\ q[1].arg = c[Len(b) + 1]
  BY <1>1, PartTypes
<1> DEFINE x == q[1].arg
           d == Append(b, x)
<1>3. /\ Len(d) = Len(b) + 1 /\ d[Len(b) + 1] = x /\ Len(b) \in Nat /\ Len(c) \in Nat
      /\ \A j \in 1..Len(b) : d[j] = b[j]
  <2>1. x \in Nat
    BY <1>1, <1>2
  <2> HIDE DEF x
  <2> QED BY <2>1
<1> HIDE DEF d, x
<1>4. ASSUME NEW j \in 1..Len(d)
      PROVE  c[j] = d[j]
  <2>1. CASE j = Len(d)
    BY <2>1, <1>2, <1>3 DEF x
  <2>2. CASE j # Len(d)
    <3>1. j \in 1..Len(b)
      BY <2>2, <1>3
    <3> QED BY <3>1, <1>3 DEF Spelled
  <2> QED BY <2>1, <2>2
<1>5. ASSUME NEW j \in 1..(Len(c) - Len(d))
      PROVE  Tail(q)[1 + j - 1] = Bytes(c[Len(d) + j])
  <2>1. j \in 1..(Len(q) - 1) /\ j + 1 \in 1..(Len(c) - Len(b)) /\ Len(d) + j = Len(b) + (j + 1)
    BY <1>3
  <2>2. Tail(q)[j] = q[j + 1]
    BY <2>1, TailParts
  <2>3. q[1 + (j + 1) - 1] = Bytes(c[Len(b) + (j + 1)])
    BY <2>1 DEF Spelled
  <2> QED BY <2>1, <2>2, <2>3
<1>6. Spelled(Tail(q), d, 1, c)
  BY <1>3, <1>4, <1>5 DEF Spelled
<1> QED BY <1>1, <1>2, <1>6 DEF d, x

(* What a step of lcreate does to the files on their way                    *)
LEMMA WholeAppend ==
  ASSUME NEW o, NEW ln, NEW q \in Seq(Part), NEW x \in Part, NEW l, NEW r,
         NEW k, NEW b \in Seq(Nat), NEW p \in Nat \ {0}, NEW m \in Nat,
         Whole(o, ln, q, l, k, b, p, m),
         p + m = Len(q) => x.op = "stor" /\ x.arg = k + 1
  PROVE  Whole(o, ln, Append(q, x), r, k, b, p, m)
<1> DEFINE a == Append(q, x)
<1>1. /\ Len(a) = Len(q) + 1 /\ a[Len(q) + 1] = x /\ Len(q) \in Nat
      /\ \A i \in 1..Len(q) : a[i] = q[i]
  BY AppendParts
<1>2. PICK c \in Seq(Block) : Len(c) = Len(b) + m /\ Spelled(q, b, p, c) /\ Fit(o, ln, k, c)
  BY DEF Whole
<1>3. Spelled(a, b, p, c)
  BY <1>2, SpelledAppend DEF Whole
<1> HIDE DEF a
<1>4. p + m \in 1..Len(q) /\ p + m <= Len(a) /\ p + m # Len(a)
  BY <1>1 DEF Whole
<1>5. a[p + m] = Dot
  BY <1>1, <1>4 DEF Whole
<1>6. a[p + m + 1].op = "stor" /\ a[p + m + 1].arg = k + 1
  <2>1. CASE p + m = Len(q)
    BY <2>1, <1>1
  <2>2. CASE p + m # Len(q)
    <3>1. p + m + 1 \in 1..Len(q)
      BY <2>2, <1>1, <1>4
    <3> QED BY <2>2, <3>1, <1>1 DEF Whole
  <2> QED BY <2>1, <2>2
<1>7. Whole(o, ln, a, r, k, b, p, m)
  BY <1>2, <1>3, <1>4, <1>5, <1>6 DEF Whole
<1> QED BY <1>7 DEF a

LEMMA RestQuiet ==
  ASSUME NEW o, NEW ln, NEW q, NEW l, NEW r, NEW k, NEW b, NEW p, NEW m,
         Rest(o, ln, q, l, k, b, p, m),
         After(l, k) => After(r, k),
         l.pc \in {"send", "end"} =>
           r.pc \in {"send", "end"} /\ r.k = l.k /\ r.size = l.size /\ r.sent = l.sent
  PROVE  Rest(o, ln, q, r, k, b, p, m)
BY DEF Rest, Whole, Begun

LEMMA RestOpen ==
  ASSUME NEW o, NEW ln, NEW q \in Seq(Part), NEW l \in LcState, NEW r, NEW n \in Nat,
         NEW k, NEW b \in Seq(Nat), NEW p \in Nat \ {0}, NEW m \in Nat,
         Rest(o, ln, q, l, k, b, p, m), l.pc = "open"
  PROVE  Rest(o, ln, Append(q, Stor(l.k, n)), r, k, b, p, m)
<1>1. Whole(o, ln, q, l, k, b, p, m)
  BY DEF Rest, Begun
<1>2. p + m = Len(q) => l.k = k + 1
  BY <1>1 DEF Whole, After
<1>3. l.k \in Nat
  BY UploadAssumption DEF LcState
<1>4. Stor(l.k, n) \in Part /\ Stor(l.k, n).op = "stor" /\ Stor(l.k, n).arg = l.k
  BY <1>3, PartTypes
<1> QED BY <1>1, <1>2, <1>4, WholeAppend DEF Rest

LEMMA RestSend ==
  ASSUME NEW o, NEW ln, NEW q \in Seq(Part), NEW l \in LcState, NEW r, NEW x \in Block,
         NEW k, NEW b \in Seq(Nat), NEW p \in Nat \ {0}, NEW m \in Nat,
         Rest(o, ln, q, l, k, b, p, m), l.pc = "send",
         r.pc = "send" /\ r.k = l.k /\ r.size = l.size /\ r.sent = Append(l.sent, x)
  PROVE  Rest(o, ln, Append(q, Bytes(x)), r, k, b, p, m)
<1>1. Bytes(x) \in Part /\ Bytes(x).op = "block"
  BY UploadAssumption, PartTypes
<1>2. CASE Whole(o, ln, q, l, k, b, p, m)
  <2>1. p + m # Len(q)
    BY <1>2 DEF Whole, After
  <2> QED BY <1>1, <1>2, <2>1, WholeAppend DEF Rest
<1>3. CASE Begun(q, l, k, b, p, m)
  <2>1. l.sent \in Seq(Block)
    BY DEF LcState
  <2>2. p + Len(l.sent) - Len(b) = Len(q) + 1 /\ Spelled(q, b, p, l.sent)
    BY <1>3, <2>1 DEF Begun
  <2>3. Spelled(Append(q, Bytes(x)), b, p, r.sent)
    BY <2>1, <2>2, SpelledMore
  <2>4. Len(Append(q, Bytes(x))) = Len(q) + 1 /\ Len(r.sent) = Len(l.sent) + 1
    BY <1>1, <2>1, AppendParts
  <2>5. Len(Append(q, Bytes(x))) + 1 = p + Len(r.sent) - Len(b)
    <3>1. ASSUME NEW u \in Nat, NEW v \in Nat, NEW w \in Nat, NEW z \in Nat,
                 p + v - z = u + 1
          PROVE  (u + 1) + 1 = p + (v + 1) - z
      BY <3>1
    <3>2. Len(q) \in Nat /\ Len(l.sent) \in Nat /\ Len(b) \in Nat
      BY <2>1
    <3>3. (Len(q) + 1) + 1 = p + (Len(l.sent) + 1) - Len(b)
      BY <2>2, <3>1, <3>2
    <3> QED BY <2>4, <3>3
  <2>6. Begun(Append(q, Bytes(x)), r, k, b, p, m)
    BY <1>3, <2>3, <2>5 DEF Begun
  <2> QED BY <2>6 DEF Rest
<1> QED BY <1>2, <1>3 DEF Rest

LEMMA RestEnd ==
  ASSUME NEW o, NEW ln, NEW q \in Seq(Part), NEW l \in LcState, NEW r,
         NEW k, NEW b \in Seq(Nat), NEW p \in Nat \ {0}, NEW m \in Nat,
         Rest(o, ln, q, l, k, b, p, m), l.pc = "end",
         Len(l.sent) = l.size, Fit(o, ln, l.k, l.sent), After(r, l.k)
  PROVE  Rest(o, ln, Append(q, Dot), r, k, b, p, m)
<1>1. Dot \in Part
  BY PartTypes
<1>2. CASE Whole(o, ln, q, l, k, b, p, m)
  <2>1. p + m # Len(q)
    BY <1>2 DEF Whole, After
  <2> QED BY <1>1, <1>2, <2>1, WholeAppend DEF Rest
<1>3. CASE Begun(q, l, k, b, p, m)
  <2>1. l.sent \in Seq(Block)
    BY DEF LcState
  <2>2. Len(l.sent) = Len(b) + m /\ p + m = Len(q) + 1 /\ Spelled(q, b, p, l.sent) /\ l.k = k
    BY <1>3, <2>1 DEF Begun
  <2>3. Spelled(Append(q, Dot), b, p, l.sent)
    BY <1>1, <2>1, <2>2, SpelledAppend
  <2>4. Len(Append(q, Dot)) = p + m /\ Append(q, Dot)[p + m] = Dot
    BY <1>1, <2>2, AppendParts
  <2>5. Whole(o, ln, Append(q, Dot), r, k, b, p, m)
    BY <2>1, <2>2, <2>3, <2>4 DEF Whole
  <2> QED BY <2>5 DEF Rest
<1> QED BY <1>2, <1>3 DEF Rest

(* What a step of the child does to them                                    *)
LEMMA RestTail ==
  ASSUME NEW o, NEW ln, NEW q \in Seq(Part), q # <<>>, NEW l \in LcState,
         NEW k, NEW b \in Seq(Nat), NEW p \in Nat \ {0, 1}, NEW m \in Nat,
         Rest(o, ln, q, l, k, b, p, m)
  PROVE  Rest(o, ln, Tail(q), l, k, b, p - 1, m)
<1> DEFINE t == Tail(q)
<1>1. /\ Len(t) = Len(q) - 1 /\ Len(q) \in Nat \ {0}
      /\ \A i \in 1..(Len(q) - 1) : t[i] = q[i + 1]
  BY TailParts
<1>2. CASE Whole(o, ln, q, l, k, b, p, m)
  <2>1. PICK c \in Seq(Block) : Len(c) = Len(b) + m /\ Spelled(q, b, p, c) /\ Fit(o, ln, k, c)
    BY <1>2 DEF Whole
  <2>2. p + Len(c) - Len(b) <= Len(q) + 1
    BY <1>2, <2>1 DEF Whole
  <2>3. Spelled(t, b, p - 1, c)
    BY <2>1, <2>2, SpelledTail
  <2> HIDE DEF t
  <2>4. /\ p - 1 + m \in 1..(Len(q) - 1) /\ (p - 1 + m) + 1 = p + m
        /\ p - 1 + m <= Len(t) /\ (p - 1 + m = Len(t) <=> p + m = Len(q))
    BY <1>1, <1>2 DEF Whole
  <2>5. t[p - 1 + m] = Dot
    BY <1>1, <1>2, <2>4 DEF Whole
  <2>6. ASSUME p + m # Len(q)
        PROVE  t[p - 1 + m + 1].op = "stor" /\ t[p - 1 + m + 1].arg = k + 1
    <3>1. p + m \in 1..(Len(q) - 1) /\ p - 1 + m + 1 = p + m
      <4>1. p + m <= Len(q) /\ Len(q) \in Nat /\ p \in Nat \ {0} /\ m \in Nat
        BY <1>1, <1>2 DEF Whole
      <4> QED BY <4>1, <2>6
    <3>2. t[p + m] = q[p + m + 1]
      BY <3>1, <1>1
    <3> QED BY <2>6, <3>1, <3>2, <1>2 DEF Whole
  <2>7. Whole(o, ln, t, l, k, b, p - 1, m)
    BY <1>2, <2>1, <2>3, <2>4, <2>5, <2>6 DEF Whole
  <2> QED BY <2>7 DEF Rest, t
<1>3. CASE Begun(q, l, k, b, p, m)
  <2>1. l.sent \in Seq(Block)
    BY DEF LcState
  <2>2. p + Len(l.sent) - Len(b) <= Len(q) + 1 /\ Spelled(q, b, p, l.sent)
    BY <1>3, <2>1 DEF Begun
  <2>3. Spelled(t, b, p - 1, l.sent)
    BY <2>1, <2>2, SpelledTail
  <2>4. Len(t) + 1 = (p - 1) + Len(l.sent) - Len(b)
    BY <1>1, <1>3, <2>1 DEF Begun
  <2>5. Begun(t, l, k, b, p - 1, m)
    BY <1>3, <2>3, <2>4 DEF Begun
  <2> QED BY <2>5 DEF Rest
<1> QED BY <1>2, <1>3 DEF Rest

LEMMA RestTake ==
  ASSUME NEW o, NEW ln, NEW q \in Seq(Part), q # <<>>, NEW l \in LcState,
         NEW k, NEW b \in Seq(Nat), NEW m \in Nat \ {0},
         Rest(o, ln, q, l, k, b, 1, m)
  PROVE  /\ q[1].arg \in Nat
         /\ Rest(o, ln, Tail(q), l, k, Append(b, q[1].arg), 1, m - 1)
<1> DEFINE t == Tail(q)
           d == Append(b, q[1].arg)
<1>1. /\ Len(t) = Len(q) - 1 /\ Len(q) \in Nat \ {0}
      /\ \A i \in 1..(Len(q) - 1) : t[i] = q[i + 1]
  BY TailParts
<1>2. CASE Whole(o, ln, q, l, k, b, 1, m)
  <2>1. PICK c \in Seq(Block) : Len(c) = Len(b) + m /\ Spelled(q, b, 1, c) /\ Fit(o, ln, k, c)
    BY <1>2 DEF Whole
  <2>2. Len(c) > Len(b) /\ Len(c) - Len(b) <= Len(q)
    BY <1>2, <2>1 DEF Whole
  <2>3. q[1].arg \in Nat /\ Spelled(t, d, 1, c)
    BY <2>1, <2>2, SpelledTake
  <2>4. Len(d) = Len(b) + 1 /\ Len(b) \in Nat
    BY <2>3
  <2> HIDE DEF t, d
  <2>5. /\ 1 + (m - 1) = m /\ m \in 1..(Len(q) - 1) /\ m + 1 = 1 + m
        /\ m <= Len(t) /\ (m = Len(t) <=> 1 + m = Len(q))
    BY <1>1, <1>2 DEF Whole
  <2>6. t[m] = Dot
    BY <1>1, <1>2, <2>5 DEF Whole
  <2>7. ASSUME 1 + m # Len(q)
        PROVE  t[m + 1].op = "stor" /\ t[m + 1].arg = k + 1
    <3>1. m + 1 \in 1..(Len(q) - 1) /\ (m + 1) + 1 = 1 + m + 1
      <4>1. 1 + m <= Len(q) /\ Len(q) \in Nat
        BY <1>1, <1>2 DEF Whole
      <4> QED BY <4>1, <2>7
    <3>2. t[m + 1] = q[1 + m + 1]
      BY <3>1, <1>1
    <3> QED BY <2>7, <3>2, <1>2 DEF Whole
  <2>8. Len(c) = Len(d) + (m - 1)
    BY <2>1, <2>4
  <2>9. Whole(o, ln, t, l, k, d, 1, m - 1)
    <3>1. 1 + (m - 1) <= Len(t) /\ t[1 + (m - 1)] = Dot
      BY <2>5, <2>6
    <3>2. IF 1 + (m - 1) = Len(t) THEN After(l, k)
          ELSE t[1 + (m - 1) + 1].op = "stor" /\ t[1 + (m - 1) + 1].arg = k + 1
      BY <1>2, <2>5, <2>7 DEF Whole
    <3> QED BY <2>1, <2>3, <2>8, <3>1, <3>2 DEF Whole
  <2> QED BY <2>3, <2>9 DEF Rest, t, d
<1>3. CASE Begun(q, l, k, b, 1, m)
  <2>1. l.sent \in Seq(Block)
    BY DEF LcState
  <2>2. Len(l.sent) > Len(b) /\ Len(l.sent) - Len(b) = Len(q) /\ Spelled(q, b, 1, l.sent)
    BY <1>1, <1>3, <2>1 DEF Begun
  <2>3. q[1].arg \in Nat /\ Spelled(t, d, 1, l.sent)
    BY <2>1, <2>2, SpelledTake
  <2>4. Len(d) = Len(b) + 1 /\ Len(b) \in Nat /\ Len(l.sent) \in Nat
    BY <2>1, <2>3
  <2> HIDE DEF t, d
  <2>5. Len(t) + 1 = 1 + Len(l.sent) - Len(d) /\ l.size = Len(d) + (m - 1)
    BY <1>1, <1>3, <2>2, <2>4 DEF Begun
  <2>6. Begun(t, l, k, d, 1, m - 1)
    BY <1>3, <2>3, <2>5 DEF Begun
  <2> QED BY <2>3, <2>6 DEF Rest, t, d
<1> QED BY <1>2, <1>3 DEF Rest

LEMMA RestDone ==
  ASSUME NEW o, NEW ln, NEW q \in Seq(Part), q # <<>>, NEW l \in LcState,
         NEW k, NEW b \in Seq(Nat), Rest(o, ln, q, l, k, b, 1, 0), q[1].op = "end"
  PROVE  /\ Fit(o, ln, k, b)
         /\ Tail(q) = <<>> => After(l, k)
         /\ Tail(q) # <<>> => Tail(q)[1].op = "stor" /\ Tail(q)[1].arg = k + 1
<1>1. /\ Len(q) \in Nat \ {0} /\ (Tail(q) = <<>> <=> Len(q) = 1)
      /\ \A i \in 1..(Len(q) - 1) : Tail(q)[i] = q[i + 1]
  BY TailParts
<1>2. CASE Whole(o, ln, q, l, k, b, 1, 0)
  <2>1. PICK c \in Seq(Block) : Len(c) = Len(b) + 0 /\ Spelled(q, b, 1, c) /\ Fit(o, ln, k, c)
    BY <1>2 DEF Whole
  <2>2. Len(c) = Len(b) /\ \A j \in 1..Len(b) : c[j] = b[j]
    BY <2>1 DEF Spelled
  <2>3. c = b
    BY <2>2, SMTT(20), ZenonT(20)
  <2>4. ASSUME Len(q) # 1
        PROVE  Tail(q)[1] = q[1 + 0 + 1]
    <3>1. 1 \in 1..(Len(q) - 1) /\ 1 + 0 + 1 = 1 + 1
      BY <1>1, <2>4
    <3> QED BY <1>1, <3>1
  <2>5. 1 + 0 = 1
    OBVIOUS
  <2> QED BY <1>1, <1>2, <2>1, <2>3, <2>4, <2>5 DEF Whole
<1>3. CASE Begun(q, l, k, b, 1, 0)
  <2>1. l.sent \in Seq(Block)
    BY DEF LcState
  <2>2. Len(l.sent) > Len(b) /\ Len(l.sent) - Len(b) <= Len(q) /\ Spelled(q, b, 1, l.sent)
    BY <1>1, <1>3, <2>1 DEF Begun
  <2>3. q[1].op = "block"
    BY <2>1, <2>2, SpelledTake
  <2> QED BY <2>3
<1> QED BY <1>2, <1>3 DEF Rest

(* The file that the child waits for or takes                               *)
Coming(ch) ==
  IF ch.xscript = Nobody THEN 0 ELSE IF ch.pc = "cmd" THEN ch.k + 1 ELSE ch.k

(* What the child waits for is what comes next, of the file at hand the     *)
(* rest comes, and all files before it are in tmp, stored by this child     *)
Ready(q, l, ch) ==
  ch.pc = "cmd" => IF q = <<>> THEN After(l, Coming(ch) - 1)
                   ELSE q[1].op = "stor" /\ q[1].arg = Coming(ch)

AtHand(s, o, ln, q, l, ch, st) ==
  ch.pc = "data" =>
    st[ch.k].by = s /\ Rest(o, ln, q, l, ch.k, st[ch.k].blocks, 1, ch.len)

Taken(s, o, ln, ch, st) ==
  \A j \in 0..(Coming(ch) - 1) : st[j].by = s /\ Fit(o, ln, j, st[j].blocks)

Tidy(s, o, ln, q, l, ch, st) ==
  /\ Announced(o, ln, q, l)
  /\ Ready(q, l, ch)
  /\ AtHand(s, o, ln, q, l, ch, st)
  /\ Taken(s, o, ln, ch, st)

LEMMA BlocksTypes ==
  ASSUME NEW ch \in ChildState, NEW st \in [0..NFile -> TmpFile]
  PROVE  st[ch.k].blocks \in Seq(Nat) /\ ch.len \in Nat /\ ch.k \in 0..NFile
BY DEF ChildState, TmpFile

LEMMA AnnouncedAppend ==
  ASSUME NEW o, NEW ln, NEW q \in Seq(Part), NEW r, NEW x \in Part,
         \A i \in 1..Len(q) : q[i].op = "stor" =>
           Rest(o, ln, Append(q, x), r, q[i].arg, <<>>, i + 1, q[i].size),
         x.op = "stor" => Rest(o, ln, Append(q, x), r, x.arg, <<>>, Len(q) + 2, x.size)
  PROVE  Announced(o, ln, Append(q, x), r)
<1> DEFINE a == Append(q, x)
<1>1. /\ Len(a) = Len(q) + 1 /\ a[Len(q) + 1] = x /\ Len(q) \in Nat
      /\ \A i \in 1..Len(q) : a[i] = q[i]
  BY AppendParts
<1> SUFFICES ASSUME NEW i \in 1..Len(a), a[i].op = "stor"
             PROVE  Rest(o, ln, a, r, a[i].arg, <<>>, i + 1, a[i].size)
  BY DEF Announced
<1>2. CASE i = Len(q) + 1
  <2>1. i + 1 = Len(q) + 2
    BY <1>1, <1>2
  <2> QED BY <1>1, <1>2, <2>1
<1>3. CASE i # Len(q) + 1
  <2>1. i \in 1..Len(q)
    BY <1>1, <1>3
  <2> QED BY <1>1, <2>1
<1> QED BY <1>2, <1>3

LEMMA TidyQuiet ==
  ASSUME NEW s, NEW o, NEW ln, NEW q, NEW l, NEW r, NEW ch, NEW st,
         Tidy(s, o, ln, q, l, ch, st),
         \A k : After(l, k) => After(r, k),
         l.pc \in {"send", "end"} =>
           r.pc \in {"send", "end"} /\ r.k = l.k /\ r.size = l.size /\ r.sent = l.sent
  PROVE  Tidy(s, o, ln, q, r, ch, st)
<1>1. ASSUME NEW k, NEW b, NEW p, NEW m, Rest(o, ln, q, l, k, b, p, m)
      PROVE  Rest(o, ln, q, r, k, b, p, m)
  BY <1>1, RestQuiet
<1>2. Announced(o, ln, q, r)
  BY <1>1 DEF Tidy, Announced
<1>3. Ready(q, r, ch)
  BY DEF Tidy, Ready
<1>4. AtHand(s, o, ln, q, r, ch, st)
  BY <1>1 DEF Tidy, AtHand
<1> QED BY <1>2, <1>3, <1>4 DEF Tidy

(* A part is sent after which the files on their way are still in order     *)
LEMMA TidyAppend ==
  ASSUME NEW s, NEW o, NEW ln, NEW q \in Seq(Part), NEW l, NEW r,
         NEW ch \in ChildState, NEW st \in [0..NFile -> TmpFile], NEW x \in Part,
         Tidy(s, o, ln, q, l, ch, st),
         \A k, b, p, m :
           Rest(o, ln, q, l, k, b, p, m) /\ b \in Seq(Nat) /\ p \in Nat \ {0} /\ m \in Nat
             => Rest(o, ln, Append(q, x), r, k, b, p, m),
         x.op = "stor" => Rest(o, ln, Append(q, x), r, x.arg, <<>>, Len(q) + 2, x.size),
         \A k : After(l, k) => x.op = "stor" /\ x.arg = k + 1
  PROVE  Tidy(s, o, ln, Append(q, x), r, ch, st)
<1>1. \A i \in 1..Len(q) : q[i].size \in Nat /\ i + 1 \in Nat \ {0}
  <2>1. \A i \in 1..Len(q) : q[i] \in Part /\ i + 1 \in Nat \ {0}
    OBVIOUS
  <2> QED BY <2>1 DEF Part
<1>2. <<>> \in Seq(Nat)
  OBVIOUS
<1>3. Announced(o, ln, Append(q, x), r)
  <2>1. \A i \in 1..Len(q) : q[i].op = "stor" =>
           Rest(o, ln, Append(q, x), r, q[i].arg, <<>>, i + 1, q[i].size)
    BY <1>1, <1>2 DEF Tidy, Announced
  <2> QED BY <2>1, AnnouncedAppend
<1>4. Ready(Append(q, x), r, ch)
  <2> SUFFICES ASSUME ch.pc = "cmd"
               PROVE  /\ Append(q, x) # <<>> /\ Append(q, x)[1].op = "stor"
                      /\ Append(q, x)[1].arg = Coming(ch)
    BY DEF Ready
  <2>1. Append(q, x) # <<>>
    OBVIOUS
  <2>2. Coming(ch) \in Nat
    BY UploadAssumption DEF Coming, ChildState
  <2>3. CASE q = <<>>
    <3>1. After(l, Coming(ch) - 1)
      BY <2>3 DEF Tidy, Ready
    <3>2. x.op = "stor" /\ x.arg = (Coming(ch) - 1) + 1
      BY <3>1
    <3>3. Append(q, x)[1] = x
      BY <2>3
    <3> QED BY <2>1, <2>2, <3>2, <3>3
  <2>4. CASE q # <<>>
    <3>1. 1 \in 1..Len(q)
      BY <2>4
    <3>2. Append(q, x)[1] = q[1]
      BY <3>1, AppendParts
    <3> QED BY <2>1, <2>4, <3>2 DEF Tidy, Ready
  <2> QED BY <2>3, <2>4
<1>5. AtHand(s, o, ln, Append(q, x), r, ch, st)
  <2> SUFFICES ASSUME ch.pc = "data"
               PROVE  /\ st[ch.k].by = s
                      /\ Rest(o, ln, Append(q, x), r, ch.k, st[ch.k].blocks, 1, ch.len)
    BY DEF AtHand
  <2>1. st[ch.k].by = s /\ Rest(o, ln, q, l, ch.k, st[ch.k].blocks, 1, ch.len)
    BY DEF Tidy, AtHand
  <2>2. st[ch.k].blocks \in Seq(Nat) /\ ch.len \in Nat
    BY BlocksTypes
  <2> DEFINE b == st[ch.k].blocks
             k == ch.k
             m == ch.len
             p == 1
  <2>3. Rest(o, ln, q, l, k, b, p, m) /\ b \in Seq(Nat) /\ p \in Nat \ {0} /\ m \in Nat
    BY <2>1, <2>2
  <2> HIDE DEF b, k, m, p
  <2>4. Rest(o, ln, Append(q, x), r, k, b, p, m)
    BY <2>3
  <2> USE DEF b, k, m, p
  <2> QED BY <2>1, <2>4
<1> QED BY <1>3, <1>4, <1>5 DEF Tidy, Taken

LEMMA TidyOpen ==
  ASSUME NEW s, NEW o, NEW ln, NEW q \in Seq(Part), NEW l \in LcState, NEW r, NEW n \in Nat,
         NEW ch \in ChildState, NEW st \in [0..NFile -> TmpFile],
         Tidy(s, o, ln, q, l, ch, st), l.pc = "open",
         r.pc \in {"send", "end"} /\ r.k = l.k /\ r.size = n /\ r.sent = <<>>
  PROVE  Tidy(s, o, ln, Append(q, Stor(l.k, n)), r, ch, st)
<1> DEFINE x == Stor(l.k, n)
<1>1. l.k \in Nat
  BY UploadAssumption DEF LcState
<1>2. x \in Part /\ x.op = "stor" /\ x.arg = l.k /\ x.size = n
  BY <1>1, PartTypes
<1>3. \A k, b, p, m :
        Rest(o, ln, q, l, k, b, p, m) /\ b \in Seq(Nat) /\ p \in Nat \ {0} /\ m \in Nat
          => Rest(o, ln, Append(q, x), r, k, b, p, m)
  BY RestOpen
<1>4. \A k : After(l, k) => x.op = "stor" /\ x.arg = k + 1
  BY <1>2 DEF After
<1>5. Len(Append(q, x)) = Len(q) + 1 /\ Len(q) \in Nat
  BY <1>2, AppendParts
<1> HIDE DEF x
<1>6. Begun(Append(q, x), r, l.k, <<>>, Len(q) + 2, n)
  BY <1>5 DEF Begun, Spelled
<1>7. Rest(o, ln, Append(q, x), r, x.arg, <<>>, Len(q) + 2, x.size)
  BY <1>2, <1>6 DEF Rest
<1>8. Tidy(s, o, ln, Append(q, x), r, ch, st)
  BY <1>2, <1>3, <1>4, <1>7, TidyAppend
<1> QED BY <1>8 DEF x

LEMMA TidySend ==
  ASSUME NEW s, NEW o, NEW ln, NEW q \in Seq(Part), NEW l \in LcState, NEW r, NEW x \in Block,
         NEW ch \in ChildState, NEW st \in [0..NFile -> TmpFile],
         Tidy(s, o, ln, q, l, ch, st), l.pc = "send",
         r.pc = "send" /\ r.k = l.k /\ r.size = l.size /\ r.sent = Append(l.sent, x)
  PROVE  Tidy(s, o, ln, Append(q, Bytes(x)), r, ch, st)
<1>1. Bytes(x) \in Part /\ Bytes(x).op # "stor"
  BY UploadAssumption, PartTypes
<1>2. \A k, b, p, m :
        Rest(o, ln, q, l, k, b, p, m) /\ b \in Seq(Nat) /\ p \in Nat \ {0} /\ m \in Nat
          => Rest(o, ln, Append(q, Bytes(x)), r, k, b, p, m)
  BY RestSend
<1>3. \A k : ~After(l, k)
  BY DEF After
<1> QED BY <1>1, <1>2, <1>3, TidyAppend

LEMMA TidyDot ==
  ASSUME NEW s, NEW o, NEW ln, NEW q \in Seq(Part), NEW l \in LcState, NEW r,
         NEW ch \in ChildState, NEW st \in [0..NFile -> TmpFile],
         Tidy(s, o, ln, q, l, ch, st), l.pc = "end",
         Len(l.sent) = l.size, Fit(o, ln, l.k, l.sent), After(r, l.k)
  PROVE  Tidy(s, o, ln, Append(q, Dot), r, ch, st)
<1>1. Dot \in Part /\ Dot.op # "stor"
  BY PartTypes
<1>2. \A k, b, p, m :
        Rest(o, ln, q, l, k, b, p, m) /\ b \in Seq(Nat) /\ p \in Nat \ {0} /\ m \in Nat
          => Rest(o, ln, Append(q, Dot), r, k, b, p, m)
  BY RestEnd
<1>3. \A k : ~After(l, k)
  BY DEF After
<1> QED BY <1>1, <1>2, <1>3, TidyAppend

LEMMA AnnouncedTail ==
  ASSUME NEW o, NEW ln, NEW q \in Seq(Part), q # <<>>, NEW l \in LcState,
         Announced(o, ln, q, l)
  PROVE  Announced(o, ln, Tail(q), l)
<1> SUFFICES ASSUME NEW i \in 1..Len(Tail(q)), Tail(q)[i].op = "stor"
             PROVE  Rest(o, ln, Tail(q), l, Tail(q)[i].arg, <<>>, i + 1, Tail(q)[i].size)
  BY DEF Announced
<1>1. i \in 1..(Len(q) - 1) /\ i + 1 \in 1..Len(q) /\ Tail(q)[i] = q[i + 1]
  BY TailParts
<1> DEFINE x == q[i + 1]
           p == i + 2
<1>2. x \in Part
  BY <1>1
<1>3. x.size \in Nat /\ p \in Nat \ {0, 1} /\ p = (i + 1) + 1 /\ p - 1 = i + 1
  BY <1>1, <1>2 DEF Part
<1>4. Rest(o, ln, q, l, x.arg, <<>>, p, x.size)
  BY <1>1, <1>3 DEF Announced
<1>5. <<>> \in Seq(Nat)
  OBVIOUS
<1> HIDE DEF x, p
<1>6. Rest(o, ln, Tail(q), l, x.arg, <<>>, p - 1, x.size)
  BY <1>3, <1>4, <1>5, RestTail
<1>7. Rest(o, ln, Tail(q), l, x.arg, <<>>, i + 1, x.size)
  BY <1>3, <1>6
<1> USE DEF x
<1> QED BY <1>1, <1>7

LEMMA TidyStor ==
  ASSUME NEW s, NEW o, NEW ln, NEW q \in Seq(Part), q # <<>>, NEW l \in LcState,
         NEW ch \in ChildState, NEW c \in ChildState,
         NEW st \in [0..NFile -> TmpFile], NEW f \in TmpFile,
         Tidy(s, o, ln, q, l, ch, st), ch.pc = "cmd",
         f.by = s /\ f.blocks = <<>>,
         c.pc = "data" /\ c.xscript # Nobody /\ c.k = q[1].arg /\ c.len = q[1].size
  PROVE  Tidy(s, o, ln, Tail(q), l, c, [st EXCEPT ![q[1].arg] = f])
<1>1. q[1] \in Part /\ 1 \in 1..Len(q)
  BY TailParts
<1>2. q[1].op = "stor" /\ q[1].arg = Coming(ch) /\ Coming(c) = Coming(ch)
  BY DEF Tidy, Ready, Coming
<1>3. q[1].size \in Nat /\ c.k \in 0..NFile /\ Coming(ch) \in Nat /\ c.k = Coming(ch)
  BY <1>1, <1>2, UploadAssumption DEF Part, ChildState
<1> DEFINE n == [st EXCEPT ![q[1].arg] = f]
<1>4. n[c.k] = f /\ \A j \in 0..NFile : j # c.k => n[j] = st[j]
  BY <1>3
<1> HIDE DEF n
<1>5. Announced(o, ln, Tail(q), l)
  BY AnnouncedTail DEF Tidy
<1>6. Ready(Tail(q), l, c)
  BY DEF Ready
<1>7. AtHand(s, o, ln, Tail(q), l, c, n)
  <2> DEFINE p == 2
  <2>1. Rest(o, ln, q, l, q[1].arg, <<>>, 1 + 1, q[1].size)
    BY <1>1, <1>2 DEF Tidy, Announced
  <2>2. p \in Nat \ {0, 1} /\ p = 1 + 1 /\ p - 1 = 1
    OBVIOUS
  <2>3. Rest(o, ln, q, l, q[1].arg, <<>>, p, q[1].size)
    BY <2>1, <2>2
  <2>4. <<>> \in Seq(Nat)
    OBVIOUS
  <2> HIDE DEF p
  <2>5. Rest(o, ln, Tail(q), l, q[1].arg, <<>>, p - 1, q[1].size)
    BY <2>2, <2>3, <2>4, <1>3, RestTail
  <2>6. Rest(o, ln, Tail(q), l, c.k, n[c.k].blocks, 1, c.len)
    BY <2>2, <2>5, <1>4
  <2> QED BY <2>6, <1>4 DEF AtHand
<1>8. Taken(s, o, ln, c, n)
  <2> SUFFICES ASSUME NEW j \in 0..(Coming(c) - 1)
               PROVE  n[j].by = s /\ Fit(o, ln, j, n[j].blocks)
    BY DEF Taken
  <2>1. j \in 0..NFile /\ j # c.k /\ j \in 0..(Coming(ch) - 1)
    BY <1>2, <1>3, UploadAssumption
  <2> QED BY <2>1, <1>4 DEF Tidy, Taken
<1>9. Tidy(s, o, ln, Tail(q), l, c, n)
  BY <1>5, <1>6, <1>7, <1>8 DEF Tidy
<1> QED BY <1>9 DEF n

LEMMA TidyBlock ==
  ASSUME NEW s, NEW o, NEW ln, NEW q \in Seq(Part), q # <<>>, NEW l \in LcState,
         NEW ch \in ChildState, NEW c, NEW st \in [0..NFile -> TmpFile], NEW f,
         Tidy(s, o, ln, q, l, ch, st), ch.pc = "data", ch.xscript # Nobody, ch.len > 0,
         f.by = st[ch.k].by /\ f.blocks = Append(st[ch.k].blocks, q[1].arg),
         c.pc = "data" /\ c.xscript = ch.xscript /\ c.k = ch.k /\ c.len = ch.len - 1
  PROVE  Tidy(s, o, ln, Tail(q), l, c, [st EXCEPT ![ch.k] = f])
<1> DEFINE b == st[ch.k].blocks
           m == ch.len
           n == [st EXCEPT ![ch.k] = f]
<1>1. b \in Seq(Nat) /\ m \in Nat \ {0} /\ ch.k \in 0..NFile
  <2>1. b \in Seq(Nat) /\ m \in Nat /\ ch.k \in 0..NFile
    BY BlocksTypes
  <2> QED BY <2>1
<1>2. st[ch.k].by = s /\ Rest(o, ln, q, l, ch.k, b, 1, m)
  BY DEF Tidy, AtHand
<1>3. n[ch.k] = f /\ \A j \in 0..NFile : j # ch.k => n[j] = st[j]
  BY <1>1
<1>4. Rest(o, ln, Tail(q), l, ch.k, Append(b, q[1].arg), 1, m - 1)
  <2> HIDE DEF b, m
  <2> QED BY <1>1, <1>2, RestTake
<1> HIDE DEF n
<1>5. AtHand(s, o, ln, Tail(q), l, c, n)
  BY <1>2, <1>3, <1>4 DEF AtHand
<1>6. Announced(o, ln, Tail(q), l)
  BY AnnouncedTail DEF Tidy
<1>7. Ready(Tail(q), l, c)
  BY DEF Ready
<1>8. Taken(s, o, ln, c, n)
  <2> SUFFICES ASSUME NEW j \in 0..(Coming(c) - 1)
               PROVE  n[j].by = s /\ Fit(o, ln, j, n[j].blocks)
    BY DEF Taken
  <2>1. Coming(c) = ch.k /\ Coming(ch) = ch.k
    BY DEF Coming
  <2>2. j \in 0..NFile /\ j # ch.k /\ j \in 0..(Coming(ch) - 1)
    BY <1>1, <2>1, UploadAssumption
  <2> QED BY <2>2, <1>3 DEF Tidy, Taken
<1>9. Tidy(s, o, ln, Tail(q), l, c, n)
  BY <1>5, <1>6, <1>7, <1>8 DEF Tidy
<1> QED BY <1>9 DEF n

LEMMA TidyStored ==
  ASSUME NEW s, NEW o, NEW ln, NEW q \in Seq(Part), q # <<>>, NEW l \in LcState,
         NEW ch \in ChildState, NEW c, NEW st \in [0..NFile -> TmpFile],
         Tidy(s, o, ln, q, l, ch, st), ch.pc = "data", ch.xscript # Nobody, ch.len = 0,
         q[1].op = "end",
         c.pc = "cmd" /\ c.xscript = ch.xscript /\ c.k = ch.k
  PROVE  Tidy(s, o, ln, Tail(q), l, c, st)
<1> DEFINE b == st[ch.k].blocks
<1>1. b \in Seq(Nat) /\ ch.k \in 0..NFile
  BY BlocksTypes
<1>2. st[ch.k].by = s /\ Rest(o, ln, q, l, ch.k, b, 1, 0)
  BY DEF Tidy, AtHand
<1>3. /\ Fit(o, ln, ch.k, b)
      /\ IF Tail(q) = <<>> THEN After(l, ch.k)
         ELSE Tail(q)[1].op = "stor" /\ Tail(q)[1].arg = ch.k + 1
  <2> DEFINE k == ch.k
  <2>1. Rest(o, ln, q, l, k, b, 1, 0)
    BY <1>2
  <2> HIDE DEF b, k
  <2>2. /\ Fit(o, ln, k, b)
        /\ Tail(q) = <<>> => After(l, k)
        /\ Tail(q) # <<>> => Tail(q)[1].op = "stor" /\ Tail(q)[1].arg = k + 1
    BY <1>1, <2>1, RestDone, ZenonT(40)
  <2> USE DEF k
  <2> QED BY <2>2
<1>4. Coming(c) = ch.k + 1 /\ Coming(ch) = ch.k /\ Coming(c) - 1 = ch.k
  BY <1>1 DEF Coming
<1>5. Ready(Tail(q), l, c)
  BY <1>3, <1>4 DEF Ready
<1>6. Taken(s, o, ln, c, st)
  <2> SUFFICES ASSUME NEW j \in 0..(Coming(c) - 1)
               PROVE  st[j].by = s /\ Fit(o, ln, j, st[j].blocks)
    BY DEF Taken
  <2>1. CASE j = ch.k
    BY <1>2, <1>3, <2>1
  <2>2. CASE j # ch.k
    <3>1. j \in 0..(Coming(ch) - 1)
      BY <1>1, <1>4, <2>2
    <3> QED BY <3>1 DEF Tidy, Taken
  <2> QED BY <2>1, <2>2
<1>7. Announced(o, ln, Tail(q), l)
  BY AnnouncedTail DEF Tidy
<1>8. AtHand(s, o, ln, Tail(q), l, c, st)
  BY DEF AtHand
<1> QED BY <1>5, <1>6, <1>7, <1>8 DEF Tidy
-----------------------------------------------------------------------------
(* As long as lcreate, its child and the connection work, what is sent,     *)
(* what is stored, what is answered and what is still waited for fit        *)
(* together                                                                 *)
Going(s) ==
  Live(s) /\ conn[s] /\ lc[s].pc \in {"open", "send", "end", "poll", "drain"}

(* The answers that respcount has counted since the start: two for the      *)
(* transcript, and two for each file sent                                   *)
Total(l) == IF l.pc \in {"poll", "drain"} \/ l.k = 0 THEN 2 * (l.k + 1) ELSE 2 * l.k

(* Those that the child has given, one for STOR and one for "."             *)
Given(ch) == 2 * Coming(ch) + (IF ch.pc = "data" THEN 1 ELSE 0)

Balanced(l, d, ch) == Given(ch) + l.respcount = Total(l) + Len(d)

InOrder(s) == Going(s) =>
  /\ Balanced(lc[s], down[s], child[s])
  /\ Tidy(s, opt[s], lines[s], up[s], lc[s], child[s], stored[name[s]])

(* What has been sent of the file at hand                                   *)
Sent(s) == lc[s].pc \in {"send", "end"} =>
  /\ Zero(s, lc[s].k) => lc[s].sent = <<>> /\ lc[s].size = 0 /\ lc[s].pc = "end"
  /\ ~Zero(s, lc[s].k) /\ ~opt[s].force => lc[s].size = Len(ListedAs(s, lc[s].k))
  /\ lc[s].pc = "end" => Len(lc[s].sent) = lc[s].size
  /\ lc[s].k = 0 => lc[s].sent \in {<<>>, TranBlocks}

(* Nothing happens before lcreate connects, no file is announced before its *)
(* line is read, and the last file is the last                              *)
Within(s) ==
  /\ lc[s].pc = "idle" => up[s] = <<>> /\ down[s] = <<>> /\ lc[s].k = 0
  /\ lc[s].k <= Files(s) /\ (lc[s].pc = "drain" => lc[s].k = Files(s))
  /\ \A i \in 1..Len(up[s]) : up[s][i].op = "stor" => up[s][i].arg <= lc[s].k
  /\ child[s].pc = "data" => child[s].xscript = name[s] /\ child[s].k <= lc[s].k
  /\ child[s].pc = "none" => lc[s].pc = "idle"

(* What lcreate has reported stays as it is                                 *)
Kept(s) == exit[s] = "0" =>
  /\ lc[s].pc = "over" /\ name[s] \in dir
  /\ child[s].pc = "gone" \/ (child[s].pc = "cmd" /\ up[s] = <<>>)
  /\ \A k \in 0..Files(s) :
       stored[name[s]][k].by = s /\ Fit(opt[s], lines[s], k, stored[name[s]][k].blocks)
  /\ \A r \in Session \ {s} : Holds(r) => name[r] # name[s]

SInv == WInv /\ \A s \in Session : InOrder(s) /\ Sent(s) /\ Within(s) /\ Kept(s)

LEMMA Parameters ==
  ASSUME SInv, NEW s \in Session
  PROVE  /\ up[s] \in Seq(Part) /\ lc[s] \in LcState /\ child[s] \in ChildState
         /\ down[s] \in Seq({"3", "2", "5"}) /\ conn[s] \in BOOLEAN
         /\ name[s] \in Transcript /\ stored[name[s]] \in [0..NFile -> TmpFile]
         /\ lc[s].k \in Nat /\ lc[s].respcount \in Nat /\ child[s].k \in Nat
         /\ lc[s].sent \in Seq(Block) /\ lc[s].size \in Nat
         /\ Files(s) \in Nat /\ Coming(child[s]) \in Nat /\ lines[s] \in Seq(Seq(Block))
<1>1. /\ up[s] \in Seq(Part) /\ lc[s] \in LcState /\ child[s] \in ChildState
      /\ down[s] \in Seq({"3", "2", "5"}) /\ conn[s] \in BOOLEAN
      /\ name[s] \in Transcript /\ stored[name[s]] \in [0..NFile -> TmpFile]
      /\ lines[s] \in Seq(Seq(Block))
  BY DEF SInv, WInv, TInv, TypeOK, FixedOK, ClientOK, NetOK, ServerOK
<1>2. /\ lc[s].k \in Nat /\ lc[s].respcount \in Nat /\ child[s].k \in Nat
      /\ lc[s].sent \in Seq(Block) /\ lc[s].size \in Nat
  BY <1>1, UploadAssumption DEF LcState, ChildState
<1>3. Coming(child[s]) \in Nat
  BY <1>2 DEF Coming
<1>4. Files(s) \in Nat
  BY FilesNat DEF SInv, WInv
<1> QED BY <1>1, <1>2, <1>3, <1>4

LEMMA Numbers ==
  ASSUME SInv, NEW s \in Session
  PROVE  /\ Given(child[s]) \in Nat /\ Total(lc[s]) \in Nat
         /\ Len(down[s]) \in Nat /\ lc[s].respcount \in Nat
<1>1. /\ Coming(child[s]) \in Nat /\ lc[s].k \in Nat /\ lc[s].respcount \in Nat
      /\ Len(down[s]) \in Nat
  BY Parameters
<1> QED BY <1>1, SMTT(20), ZenonT(20) DEF Given, Total

(* The exit status is set by the last step of lcreate                       *)
LEMMA Unaffected ==
  ASSUME NEW s \in Session, UNCHANGED fixed,
         lc'[s] = lc[s], exit'[s] = exit[s], up'[s] = up[s], down'[s] = down[s],
         conn'[s] = conn[s], child'[s] = child[s]
  PROVE  /\ Sent(s) => Sent(s)'
         /\ Within(s) => Within(s)'
         /\ Going(s)' = Going(s)
         /\ stored'[name[s]] = stored[name[s]] /\ InOrder(s) => InOrder(s)'
<1>1. Files(s)' = Files(s) /\ opt' = opt /\ lines' = lines /\ name' = name
  BY FilesKept DEF fixed
<1>2. Going(s)' = Going(s)
  BY DEF Going, Live
<1>3. Sent(s) => Sent(s)'
  BY <1>1 DEF Sent, Zero, ListedAs
<1>4. Within(s) => Within(s)'
  BY <1>1 DEF Within
<1>5. ASSUME stored'[name[s]] = stored[name[s]], InOrder(s)
      PROVE  InOrder(s)'
  BY <1>1, <1>2, <1>5 DEF InOrder
<1> QED BY <1>2, <1>3, <1>4, <1>5

LEMMA StillKept ==
  ASSUME NEW s \in Session, UNCHANGED fixed, Kept(s), exit'[s] = exit[s], exit[s] = "0",
         lc'[s] = lc[s], up'[s] = up[s],
         child'[s] = child[s] \/ child'[s].pc = "gone",
         name[s] \in dir', stored'[name[s]] = stored[name[s]],
         \A r \in Session \ {s} : Holds(r)' => name[r] # name[s]
  PROVE  Kept(s)'
<1>1. Files(s)' = Files(s) /\ opt' = opt /\ lines' = lines /\ name' = name
  BY FilesKept DEF fixed
<1> QED BY <1>1 DEF Kept

(* lcreate gives up or ends, with another status than 0                     *)
LEMMA OwnStop ==
  ASSUME SInv, NEW s \in Session, UNCHANGED <<fixed, child>>,
         lc'[s].pc \in {"over", "giveup"}, lc'[s].k = lc[s].k, lc[s].pc # "idle",
         up'[s] = up[s] \/ up'[s] = Append(up[s], Dot), exit'[s] # "0"
  PROVE  InOrder(s)' /\ Sent(s)' /\ Within(s)' /\ Kept(s)'
<1>1. Files(s)' = Files(s) /\ opt' = opt /\ lines' = lines /\ name' = name /\ child' = child
  BY FilesKept DEF fixed
<1>2. InOrder(s)' /\ Sent(s)' /\ Kept(s)'
  BY DEF InOrder, Going, Sent, Kept
<1>3. \A i \in 1..Len(up'[s]) : up'[s][i].op = "stor" => up'[s][i].arg <= lc[s].k
  <2>1. CASE up'[s] = up[s]
    BY <2>1 DEF SInv, Within
  <2>2. CASE up'[s] = Append(up[s], Dot)
    <3> DEFINE q == up[s]
               a == Append(q, Dot)
    <3>1. q \in Seq(Part) /\ \A i \in 1..Len(q) : q[i].op = "stor" => q[i].arg <= lc[s].k
      BY Parameters DEF SInv, Within
    <3>2. Dot \in Part /\ Dot.op # "stor"
      BY PartTypes
    <3> HIDE DEF q
    <3>3. \A i \in 1..Len(a) : a[i] = Dot \/ (i \in 1..Len(q) /\ a[i] = q[i])
      BY <3>1, <3>2
    <3> HIDE DEF a
    <3>4. \A i \in 1..Len(a) : a[i].op = "stor" => a[i].arg <= lc[s].k
      BY <3>1, <3>2, <3>3
    <3> QED BY <2>2, <3>4 DEF a, q
  <2> QED BY <2>1, <2>2
<1>4. Within(s)'
  BY <1>1, <1>3 DEF SInv, Within
<1> QED BY <1>2, <1>4

LEMMA OwnConnect ==
  ASSUME SInv, NEW s \in Session, Connect(s)
  PROVE  InOrder(s)' /\ Sent(s)' /\ Within(s)' /\ Kept(s)'
<1>1. /\ lc[s].pc = "idle" /\ exit' = exit /\ UNCHANGED <<up, down, fixed>>
      /\ lc' = [lc EXCEPT ![s].pc = "open", ![s].respcount = 2]
      /\ child' = [child EXCEPT ![s].pc = "cmd"]
  BY DEF Connect, At, net
<1>2. /\ up[s] = <<>> /\ down[s] = <<>> /\ lc[s].k = 0
      /\ child[s].pc = "none" /\ child[s].xscript = Nobody
  BY <1>1 DEF SInv, Within, WInv, IdleChild
<1>3. lc \in [Session -> LcState] /\ child \in [Session -> ChildState]
  BY DEF SInv, WInv, TInv, TypeOK, ClientOK, ServerOK
<1>4. /\ lc'[s].pc = "open" /\ lc'[s].k = 0 /\ lc'[s].respcount = 2
      /\ child'[s].pc = "cmd" /\ child'[s].xscript = Nobody
  BY <1>1, <1>2, <1>3 DEF LcState, ChildState
<1>5. Files(s)' = Files(s) /\ opt' = opt /\ lines' = lines /\ name' = name
  BY <1>1, FilesKept DEF fixed
<1>6. Sent(s)' /\ Kept(s)'
  BY <1>1, <1>4 DEF SInv, Sent, Kept
<1>7. Within(s)'
  BY <1>1, <1>2, <1>4, <1>5 DEF SInv, Within
<1>8. Tidy(s, opt[s], lines[s], up[s], lc'[s], child'[s], stored'[name[s]])
  BY <1>2, <1>4 DEF Tidy, Announced, Ready, After, AtHand, Taken, Coming
<1>9. Balanced(lc'[s], down[s], child'[s])
  BY <1>2, <1>4 DEF Balanced, Given, Total, Coming
<1>10. InOrder(s)'
  BY <1>1, <1>5, <1>8, <1>9 DEF InOrder
<1> QED BY <1>6, <1>7, <1>10

(* Steps of a lcreate that goes on                                          *)
LEMMA OwnGoes ==
  ASSUME SInv, NEW s \in Session, UNCHANGED <<fixed, child, stored, conn>>,
         exit'[s] = exit[s], lc[s].pc \in {"open", "send", "end", "poll", "drain"},
         Going(s) => Balanced(lc'[s], down'[s], child[s]),
         Going(s) => Tidy(s, opt[s], lines[s], up'[s], lc'[s], child[s], stored[name[s]])
  PROVE  InOrder(s)' /\ Kept(s)'
<1>1. opt' = opt /\ lines' = lines /\ name' = name
  BY DEF fixed
<1>2. Going(s)' => Going(s)
  BY DEF Going, Live
<1>3. InOrder(s)'
  BY <1>1, <1>2 DEF InOrder
<1>4. exit'[s] # "0"
  BY DEF SInv, Kept
<1> QED BY <1>3, <1>4 DEF Kept

(* A part more is on its way, and Within is about no other                  *)
LEMMA WithinAppend ==
  ASSUME SInv, NEW s \in Session, UNCHANGED <<fixed, child>>, NEW x \in Part,
         up'[s] = Append(up[s], x), x.op = "stor" => x.arg <= lc'[s].k,
         lc[s].pc # "idle", lc'[s].k = lc[s].k, lc'[s].pc # "idle",
         lc'[s].pc = "drain" => lc[s].k = Files(s)
  PROVE  Within(s)'
<1>1. Files(s)' = Files(s) /\ name' = name /\ child' = child
  BY FilesKept DEF fixed
<1> DEFINE q == up[s]
           a == Append(q, x)
           k == lc[s].k
<1>2. q \in Seq(Part) /\ \A i \in 1..Len(q) : q[i].op = "stor" => q[i].arg <= k
  BY Parameters DEF SInv, Within
<1>3. \A i \in 1..Len(a) : a[i] = x \/ (i \in 1..Len(q) /\ a[i] = q[i])
  <2> HIDE DEF q
  <2> QED BY <1>2
<1>4. \A i \in 1..Len(a) : a[i].op = "stor" => a[i].arg <= k
  <2> HIDE DEF q, a
  <2> QED BY <1>2, <1>3
<1>5. \A i \in 1..Len(up'[s]) : up'[s][i].op = "stor" => up'[s][i].arg <= lc'[s].k
  BY <1>4
<1> HIDE DEF q, a, k
<1> QED BY <1>1, <1>5 DEF SInv, Within

LEMMA OwnOpen ==
  ASSUME SInv, NEW s \in Session, Open(s)
  PROVE  InOrder(s)' /\ Sent(s)' /\ Within(s)' /\ Kept(s)'
<1> DEFINE k == lc[s].k
           n == IF Zero(s, k) THEN 0 ELSE Len(Found(s, k))
           pc == IF Zero(s, k) THEN "end" ELSE "send"
<1>typ. lc \in [Session -> LcState] /\ exit \in [Session -> {"run", "0", "2", "killed"}]
        /\ up \in [Session -> Seq(Part)]
  BY DEF SInv, WInv, TInv, TypeOK, ClientOK, NetOK
<1>fix. lc[s].pc = "open" /\ UNCHANGED <<fixed, child, stored, conn, down>>
  BY DEF Open, At, tmp
<1>1. CASE Exits(s, "2") /\ UNCHANGED up
  <2>1. lc'[s].pc = "over" /\ lc'[s].k = lc[s].k /\ exit'[s] = "2"
    BY <1>1, <1>typ DEF Exits, LcState
  <2> QED BY <1>1, <1>fix, <2>1, OwnStop
<1>2. CASE ~(Exits(s, "2") /\ UNCHANGED up)
  <2>1. /\ Zero(s, k) \/ n = Len(ListedAs(s, k)) \/ opt[s].force
        /\ up' = [up EXCEPT ![s] = Append(@, Stor(k, n))]
        /\ lc' = [lc EXCEPT ![s].pc = pc, ![s].size = n, ![s].sent = <<>>]
        /\ UNCHANGED exit
    BY <1>2 DEF Open
  <2>2. /\ lc'[s].pc = pc /\ lc'[s].k = k /\ lc'[s].size = n /\ lc'[s].sent = <<>>
        /\ lc'[s].respcount = lc[s].respcount
        /\ up'[s] = Append(up[s], Stor(k, n)) /\ exit'[s] = exit[s]
    <3> HIDE DEF n, pc
    <3> QED BY <2>1, <1>typ DEF LcState
  <2>3. n \in Nat /\ k \in Nat /\ pc \in {"send", "end"}
    BY FoundBlocks, Parameters DEF SInv, WInv
  <2>4. Stor(k, n) \in Part /\ Stor(k, n).arg = k
    BY <2>3, PartTypes
  <2>5. Within(s)'
    <3>1. lc'[s].pc # "idle" /\ lc'[s].pc # "drain" /\ k <= k
      BY <2>2, <2>3
    <3> HIDE DEF n, pc
    <3> QED BY <1>fix, <2>2, <2>4, <3>1, WithinAppend
  <2>6. Sent(s)'
    <3>1. opt' = opt /\ lines' = lines /\ k \in Nat
      BY <1>fix, <2>3 DEF fixed
    <3>2. /\ Zero(s, k) => n = 0 /\ pc = "end"
          /\ ~Zero(s, k) /\ ~opt[s].force => n = Len(ListedAs(s, k))
          /\ pc = "end" => n = 0
      BY <2>1
    <3>3. Len(<<>>) = 0
      OBVIOUS
    <3> HIDE DEF n, pc
    <3> QED BY <2>2, <3>1, <3>2, <3>3 DEF Sent, Zero, ListedAs
  <2>7. ASSUME Going(s)
        PROVE  /\ Balanced(lc'[s], down'[s], child[s])
               /\ Tidy(s, opt[s], lines[s], up'[s], lc'[s], child[s], stored[name[s]])
    <3>1. Balanced(lc[s], down[s], child[s])
          /\ Tidy(s, opt[s], lines[s], up[s], lc[s], child[s], stored[name[s]])
      BY <2>7 DEF SInv, InOrder
    <3>2. lc'[s].pc \notin {"poll", "drain"} /\ down'[s] = down[s]
      BY <2>2, <2>3, <1>fix
    <3>3. Balanced(lc'[s], down'[s], child[s])
      BY <3>1, <3>2, <2>2, <1>fix DEF Balanced, Total
    <3>4. Tidy(s, opt[s], lines[s], Append(up[s], Stor(k, n)), lc'[s], child[s], stored[name[s]])
      <4> HIDE DEF n, pc
      <4> QED BY <3>1, <2>2, <2>3, <1>fix, Parameters, TidyOpen
    <3> QED BY <3>3, <3>4, <2>2
  <2> HIDE DEF n, pc, k
  <2>8. InOrder(s)' /\ Kept(s)'
    BY <1>fix, <2>2, <2>7, OwnGoes
  <2> QED BY <2>5, <2>6, <2>8
<1> QED BY <1>1, <1>2

LEMMA OwnSend ==
  ASSUME SInv, NEW s \in Session, Send(s)
  PROVE  InOrder(s)' /\ Sent(s)' /\ Within(s)' /\ Kept(s)'
<1> DEFINE k == lc[s].k
           b == Found(s, k)[Len(lc[s].sent) + 1]
<1>typ. lc \in [Session -> LcState] /\ up \in [Session -> Seq(Part)]
  BY DEF SInv, WInv, TInv, TypeOK, ClientOK, NetOK
<1>fix. /\ lc[s].pc = "send" /\ Len(lc[s].sent) < Len(Found(s, k))
        /\ UNCHANGED <<fixed, child, stored, conn, down, exit>>
  BY DEF Send, At, tmp
<1>exi. exit[s] # "0"
  BY <1>fix DEF SInv, Kept
<1>1. CASE Broken(s)
  <2>1. lc'[s].pc = "giveup" /\ lc'[s].k = lc[s].k /\ up' = up
    BY <1>1, <1>typ DEF Send, GiveUp, LcState
  <2> QED BY <1>exi, <1>fix, <2>1, OwnStop
<1>2. CASE ~Broken(s)
  <2>1. /\ up' = [up EXCEPT ![s] = Append(@, Bytes(b))]
        /\ lc' = [lc EXCEPT ![s].sent = Append(@, b)]
    BY <1>2 DEF Send
  <2>2. /\ lc'[s].pc = "send" /\ lc'[s].k = k /\ lc'[s].size = lc[s].size
        /\ lc'[s].sent = Append(lc[s].sent, b) /\ lc'[s].respcount = lc[s].respcount
        /\ up'[s] = Append(up[s], Bytes(b))
    <3> HIDE DEF b
    <3> QED BY <1>fix, <2>1, <1>typ DEF LcState
  <2>3. b \in Block /\ k \in Nat
    <3>1. Found(s, k) \in Seq(Block) /\ lc[s].sent \in Seq(Block)
      BY FoundBlocks, Parameters DEF SInv, WInv
    <3> QED BY <3>1, <1>fix, Parameters
  <2>4. Bytes(b) \in Part /\ Bytes(b).op = "block"
    BY <2>3, UploadAssumption, PartTypes
  <2>5. Within(s)'
    <3> HIDE DEF b
    <3> QED BY <1>fix, <2>2, <2>4, WithinAppend
  <2>6. Sent(s)'
    <3>1. opt' = opt /\ lines' = lines
      BY <1>fix DEF fixed
    <3>2. ~Zero(s, k) /\ (~opt[s].force => lc[s].size = Len(ListedAs(s, k)))
      BY <1>fix DEF SInv, Sent
    <3>3. ASSUME k = 0
          PROVE  Append(lc[s].sent, b) = TranBlocks
      <4>1. lc[s].sent \in {<<>>, TranBlocks} /\ Found(s, k) = TranBlocks
        BY <1>fix, <3>3 DEF SInv, Sent, Found
      <4>2. lc[s].sent = <<>>
        BY <1>fix, <4>1
      <4>3. b = TranBlocks[0 + 1]
        BY <4>1, <4>2
      <4> QED BY <4>2, <4>3 DEF TranBlocks
    <3> HIDE DEF b
    <3> QED BY <2>2, <3>1, <3>2, <3>3 DEF Sent, Zero, ListedAs
  <2>7. ASSUME Going(s)
        PROVE  /\ Balanced(lc'[s], down'[s], child[s])
               /\ Tidy(s, opt[s], lines[s], up'[s], lc'[s], child[s], stored[name[s]])
    <3>1. Balanced(lc[s], down[s], child[s])
          /\ Tidy(s, opt[s], lines[s], up[s], lc[s], child[s], stored[name[s]])
      BY <2>7 DEF SInv, InOrder
    <3>2. Balanced(lc'[s], down'[s], child[s])
      BY <3>1, <2>2, <1>fix DEF Balanced, Total
    <3>3. Tidy(s, opt[s], lines[s], Append(up[s], Bytes(b)), lc'[s], child[s], stored[name[s]])
      <4> HIDE DEF b
      <4> QED BY <3>1, <2>2, <2>3, <1>fix, Parameters, TidySend
    <3> QED BY <3>2, <3>3, <2>2
  <2>8. InOrder(s)' /\ Kept(s)'
    <3> HIDE DEF b
    <3> QED BY <1>fix, <2>7, OwnGoes
  <2> QED BY <2>5, <2>6, <2>8
<1> QED BY <1>1, <1>2

LEMMA OwnFinished ==
  ASSUME SInv, NEW s \in Session, Finished(s)
  PROVE  InOrder(s)' /\ Sent(s)' /\ Within(s)' /\ Kept(s)'
<1>typ. lc \in [Session -> LcState] /\ exit \in [Session -> {"run", "0", "2", "killed"}]
  BY DEF SInv, WInv, TInv, TypeOK, ClientOK
<1>fix. lc[s].pc = "send" /\ UNCHANGED <<fixed, child, stored, conn, down, up>>
  BY DEF Finished, At, tmp, net
<1>1. CASE Exits(s, "2")
  <2>1. lc'[s].pc = "over" /\ lc'[s].k = lc[s].k /\ exit'[s] = "2"
    BY <1>1, <1>typ DEF Exits, LcState
  <2> QED BY <1>fix, <2>1, OwnStop
<1>2. CASE ~Exits(s, "2")
  <2>1. Len(lc[s].sent) = lc[s].size /\ lc' = [lc EXCEPT ![s].pc = "end"] /\ exit' = exit
    BY <1>2 DEF Finished
  <2>2. /\ lc'[s].pc = "end" /\ lc'[s].k = lc[s].k /\ lc'[s].size = lc[s].size
        /\ lc'[s].sent = lc[s].sent /\ lc'[s].respcount = lc[s].respcount
    BY <2>1, <1>typ DEF LcState
  <2>3. Files(s)' = Files(s) /\ opt' = opt /\ lines' = lines /\ name' = name
    BY <1>fix, FilesKept DEF fixed
  <2>4. Sent(s)'
    BY <1>fix, <2>1, <2>2, <2>3 DEF SInv, Sent, Zero, ListedAs
  <2>5. Within(s)'
    BY <1>fix, <2>2, <2>3 DEF SInv, Within
  <2>6. ASSUME Going(s)
        PROVE  /\ Balanced(lc'[s], down'[s], child[s])
               /\ Tidy(s, opt[s], lines[s], up'[s], lc'[s], child[s], stored[name[s]])
    <3>1. Balanced(lc[s], down[s], child[s])
          /\ Tidy(s, opt[s], lines[s], up[s], lc[s], child[s], stored[name[s]])
      BY <2>6 DEF SInv, InOrder
    <3>2. Balanced(lc'[s], down'[s], child[s])
      BY <3>1, <2>2, <1>fix DEF Balanced, Total
    <3>3. \A k : After(lc[s], k) => After(lc'[s], k)
      BY <1>fix DEF After
    <3>4. Tidy(s, opt[s], lines[s], up[s], lc'[s], child[s], stored[name[s]])
      BY <3>1, <3>3, <2>2, TidyQuiet
    <3> QED BY <3>2, <3>4, <1>fix
  <2>7. InOrder(s)' /\ Kept(s)'
    BY <1>fix, <2>1, <2>6, OwnGoes
  <2> QED BY <2>4, <2>5, <2>7
<1> QED BY <1>1, <1>2

LEMMA OwnEnd ==
  ASSUME SInv, NEW s \in Session, End(s)
  PROVE  InOrder(s)' /\ Sent(s)' /\ Within(s)' /\ Kept(s)'
<1> DEFINE k == lc[s].k
           pc == IF k < Files(s) THEN "poll" ELSE "drain"
           wrong == opt[s].cksum /\ k > 0 /\ ~Zero(s, k) /\ lc[s].sent # ListedAs(s, k)
<1>typ. /\ lc \in [Session -> LcState] /\ exit \in [Session -> {"run", "0", "2", "killed"}]
        /\ up \in [Session -> Seq(Part)]
  BY DEF SInv, WInv, TInv, TypeOK, ClientOK, NetOK
<1>fix. lc[s].pc = "end" /\ UNCHANGED <<fixed, child, stored, conn, down>>
  BY DEF End, At, tmp
<1>exi. exit[s] # "0"
  BY <1>fix DEF SInv, Kept
<1>1. ASSUME Exits(s, "2"), up' = up \/ up' = [up EXCEPT ![s] = Append(@, Dot)]
      PROVE  InOrder(s)' /\ Sent(s)' /\ Within(s)' /\ Kept(s)'
  <2>1. lc'[s].pc = "over" /\ lc'[s].k = lc[s].k /\ exit'[s] = "2"
    BY <1>1, <1>typ DEF Exits, LcState
  <2>2. up'[s] = up[s] \/ up'[s] = Append(up[s], Dot)
    BY <1>1, <1>typ
  <2> QED BY <1>fix, <2>1, <2>2, OwnStop
<1>2. CASE Broken(s)
  <2>1. CASE Exits(s, "2") /\ UNCHANGED up
    BY <2>1, <1>1
  <2>2. CASE GiveUp(s) /\ UNCHANGED <<exit, up>>
    <3>1. lc'[s].pc = "giveup" /\ lc'[s].k = lc[s].k
      BY <2>2, <1>typ DEF GiveUp, LcState
    <3> QED BY <1>exi, <1>fix, <2>2, <3>1, OwnStop
  <2> QED BY <1>2, <2>1, <2>2 DEF End
<1>3. CASE ~Broken(s) /\ wrong /\ ~opt[s].force
  BY <1>3, <1>1 DEF End
<1>4. CASE ~Broken(s) /\ ~(wrong /\ ~opt[s].force)
  <2>1. /\ up' = [up EXCEPT ![s] = Append(@, Dot)]
        /\ lc' = [lc EXCEPT ![s].pc = pc, ![s].respcount = Counted(s)]
        /\ UNCHANGED exit
    BY <1>4 DEF End
  <2>2. /\ lc'[s].pc = pc /\ lc'[s].k = k /\ lc'[s].size = lc[s].size
        /\ lc'[s].sent = lc[s].sent /\ lc'[s].respcount = Counted(s)
        /\ up'[s] = Append(up[s], Dot) /\ exit'[s] = exit[s]
    <3> HIDE DEF pc
    <3> QED BY <2>1, <1>typ DEF LcState
  <2>3. k \in Nat /\ pc \in {"poll", "drain"} /\ (pc = "drain" => k = Files(s))
    BY Parameters DEF SInv, Within
  <2>4. Dot \in Part /\ Dot.op # "stor"
    BY PartTypes
  <2>5. Within(s)'
    <3> HIDE DEF pc
    <3> QED BY <1>fix, <2>2, <2>3, <2>4, WithinAppend
  <2>6. Sent(s)'
    <3> HIDE DEF pc
    <3> QED BY <2>2, <2>3 DEF Sent
  <2>7. Fit(opt[s], lines[s], k, lc[s].sent)
    <3>1. /\ Zero(s, k) => lc[s].sent = <<>>
          /\ ~Zero(s, k) /\ ~opt[s].force => Len(lc[s].sent) = Len(ListedAs(s, k))
          /\ k = 0 => lc[s].sent \in {<<>>, TranBlocks}
      BY <1>fix DEF SInv, Sent
    <3>2. Len(<<>>) # Len(TranBlocks)
      BY DEF TranBlocks
    <3>3. ~Zero(s, k) /\ ~opt[s].force /\ opt[s].cksum => lc[s].sent = ListedAs(s, k)
      <4>1. CASE k = 0
        BY <3>1, <3>2, <4>1 DEF ListedAs
      <4>2. CASE k # 0
        BY <1>4, <2>3, <4>2
      <4> QED BY <4>1, <4>2
    <3> QED BY <3>1, <3>3 DEF Fit, Zero, ListedAs
  <2>8. ASSUME Going(s)
        PROVE  /\ Balanced(lc'[s], down'[s], child[s])
               /\ Tidy(s, opt[s], lines[s], up'[s], lc'[s], child[s], stored[name[s]])
    <3>1. Balanced(lc[s], down[s], child[s])
          /\ Tidy(s, opt[s], lines[s], up[s], lc[s], child[s], stored[name[s]])
      BY <2>8 DEF SInv, InOrder
    <3>2. Balanced(lc'[s], down'[s], child[s])
      <4>1. Total(lc'[s]) = 2 * (k + 1) /\ Total(lc[s]) = IF k = 0 THEN 2 ELSE 2 * k
        <5> HIDE DEF pc
        <5> QED BY <1>fix, <2>2, <2>3 DEF Total
      <4>2. lc'[s].respcount = IF k = 0 THEN lc[s].respcount ELSE lc[s].respcount + 2
        BY <2>2 DEF Counted
      <4>3. /\ Given(child[s]) \in Nat /\ Total(lc[s]) \in Nat
            /\ Len(down[s]) \in Nat /\ lc[s].respcount \in Nat
        BY Numbers
      <4>4. Given(child[s]) + lc[s].respcount = Total(lc[s]) + Len(down[s])
        BY <3>1 DEF Balanced
      <4>5. ASSUME NEW g \in Nat, NEW a \in Nat, NEW d \in Nat, NEW t \in Nat, g + a = t + d
            PROVE  g + (a + 2) = (t + 2) + d
        BY <4>5
      <4>6. Given(child[s]) + lc'[s].respcount = Total(lc'[s]) + Len(down[s])
        <5>1. CASE k = 0
          <6>1. Total(lc'[s]) = Total(lc[s]) /\ lc'[s].respcount = lc[s].respcount
            BY <4>1, <4>2, <5>1
          <6> QED BY <4>4, <6>1
        <5>2. CASE k # 0
          <6>1. Total(lc'[s]) = Total(lc[s]) + 2
            BY <4>1, <5>2, <2>3
          <6>2. lc'[s].respcount = lc[s].respcount + 2
            BY <4>2, <5>2
          <6> DEFINE g == Given(child[s])
                     t == Total(lc[s])
                     a == lc[s].respcount
                     d == Len(down[s])
          <6>3. g \in Nat /\ t \in Nat /\ a \in Nat /\ d \in Nat /\ g + a = t + d
            BY <4>3, <4>4
          <6>4. g + (a + 2) = (t + 2) + d
            <7> HIDE DEF g, t, a, d
            <7> QED BY <4>5, <6>3
          <6> QED BY <6>1, <6>2, <6>4
        <5> QED BY <5>1, <5>2
      <4> QED BY <4>6, <1>fix DEF Balanced
    <3>3. After(lc'[s], k)
      <4> HIDE DEF pc
      <4> QED BY <2>2, <2>3 DEF After
    <3>4. Len(lc[s].sent) = lc[s].size
      BY <1>fix DEF SInv, Sent
    <3>5. Tidy(s, opt[s], lines[s], Append(up[s], Dot), lc'[s], child[s], stored[name[s]])
      BY <3>1, <3>3, <3>4, <2>7, <1>fix, Parameters, TidyDot
    <3> QED BY <3>2, <3>5, <2>2
  <2>9. InOrder(s)' /\ Kept(s)'
    <3> HIDE DEF pc
    <3> QED BY <1>fix, <2>2, <2>8, OwnGoes
  <2> QED BY <2>5, <2>6, <2>9
<1> QED BY <1>2, <1>3, <1>4

LEMMA OwnAnswer ==
  ASSUME SInv, NEW s \in Session, Answer(s)
  PROVE  InOrder(s)' /\ Sent(s)' /\ Within(s)' /\ Kept(s)'
<1>typ. /\ lc \in [Session -> LcState] /\ exit \in [Session -> {"run", "0", "2", "killed"}]
        /\ down \in [Session -> Seq({"3", "2", "5"})]
  BY DEF SInv, WInv, TInv, TypeOK, ClientOK, NetOK
<1>fix. /\ lc[s].pc \in {"poll", "drain", "giveup"} /\ lc[s].respcount > 0
        /\ UNCHANGED <<fixed, child, stored, conn, up>>
  BY DEF Answer, Reading, tmp
<1>1. CASE Exits(s, "2")
  <2>1. lc'[s].pc = "over" /\ lc'[s].k = lc[s].k /\ exit'[s] = "2"
    BY <1>1, <1>typ DEF Exits, LcState
  <2> QED BY <1>fix, <2>1, OwnStop
<1>2. CASE ~Exits(s, "2")
  <2>1. /\ down[s] # <<>> /\ exit' = exit /\ lc' = [lc EXCEPT ![s].respcount = @ - 1]
        /\ down' = [down EXCEPT ![s] = Tail(@)]
    BY <1>2 DEF Answer
  <2>2. /\ lc'[s].pc = lc[s].pc /\ lc'[s].k = lc[s].k /\ lc'[s].size = lc[s].size
        /\ lc'[s].sent = lc[s].sent /\ lc'[s].respcount = lc[s].respcount - 1
        /\ down'[s] = Tail(down[s])
    BY <2>1, <1>typ DEF LcState
  <2>3. Files(s)' = Files(s) /\ opt' = opt /\ lines' = lines /\ name' = name
    BY <1>fix, FilesKept DEF fixed
  <2>4. Sent(s)'
    BY <1>fix, <2>2 DEF Sent
  <2>5. Within(s)'
    BY <1>fix, <2>2, <2>3 DEF SInv, Within
  <2>6. CASE lc[s].pc = "giveup"
    <3>1. exit'[s] # "0"
      BY <1>fix, <2>1 DEF SInv, Kept
    <3> QED BY <1>fix, <2>2, <2>6, <3>1, OwnStop
  <2>7. CASE lc[s].pc # "giveup"
    <3>1. ASSUME Going(s)
          PROVE  /\ Balanced(lc'[s], down'[s], child[s])
                 /\ Tidy(s, opt[s], lines[s], up'[s], lc'[s], child[s], stored[name[s]])
      <4>1. Balanced(lc[s], down[s], child[s])
            /\ Tidy(s, opt[s], lines[s], up[s], lc[s], child[s], stored[name[s]])
        BY <3>1 DEF SInv, InOrder
      <4>2. Balanced(lc'[s], down'[s], child[s])
        <5>1. Total(lc'[s]) = Total(lc[s])
          BY <2>2 DEF Total
        <5>2. Len(down'[s]) = Len(down[s]) - 1
          BY <2>1, <2>2, <1>typ
        <5>3. /\ Given(child[s]) \in Nat /\ Total(lc[s]) \in Nat
              /\ Len(down[s]) \in Nat /\ lc[s].respcount \in Nat
          BY Numbers
        <5>4. Given(child[s]) + lc[s].respcount = Total(lc[s]) + Len(down[s])
          BY <4>1 DEF Balanced
        <5>5. ASSUME NEW g \in Nat, NEW a \in Nat, NEW t \in Nat, NEW d \in Nat, g + a = t + d
              PROVE  g + (a - 1) = t + (d - 1)
          BY <5>5
        <5>6. Given(child[s]) + lc'[s].respcount = Total(lc'[s]) + Len(down'[s])
          BY <2>2, <5>1, <5>2, <5>3, <5>4, <5>5, SMTT(20), ZenonT(20)
        <5> QED BY <5>6 DEF Balanced
      <4>3. \A k : After(lc[s], k) => After(lc'[s], k)
        BY <2>2 DEF After
      <4>4. Tidy(s, opt[s], lines[s], up[s], lc'[s], child[s], stored[name[s]])
        BY <4>1, <4>3, <2>2, TidyQuiet
      <4> QED BY <4>2, <4>4, <1>fix
    <3>2. InOrder(s)' /\ Kept(s)'
      BY <1>fix, <2>1, <2>7, <3>1, OwnGoes
    <3> QED BY <2>4, <2>5, <3>2
  <2> QED BY <2>6, <2>7
<1> QED BY <1>1, <1>2

LEMMA OwnNextLine ==
  ASSUME SInv, NEW s \in Session, NextLine(s)
  PROVE  InOrder(s)' /\ Sent(s)' /\ Within(s)' /\ Kept(s)'
<1>typ. lc \in [Session -> LcState]
  BY DEF SInv, WInv, TInv, TypeOK, ClientOK
<1>fix. lc[s].pc = "poll" /\ UNCHANGED <<fixed, child, stored, conn, up, down, exit>>
  BY DEF NextLine, At, tmp, net
<1>1. lc' = [lc EXCEPT ![s].pc = "open", ![s].k = @ + 1]
  BY DEF NextLine
<1>2. /\ lc'[s].pc = "open" /\ lc'[s].k = lc[s].k + 1 /\ lc'[s].respcount = lc[s].respcount
      /\ lc[s].k \in Nat /\ lc[s].k < Files(s) /\ Files(s) \in Nat
  BY <1>1, <1>fix, <1>typ, Parameters DEF LcState, SInv, WInv, TInv, Place
<1>3. Files(s)' = Files(s) /\ opt' = opt /\ lines' = lines /\ name' = name
  BY <1>fix, FilesKept DEF fixed
<1>4. Sent(s)'
  BY <1>2 DEF Sent
<1>5. Within(s)'
  <2>1. \A i \in 1..Len(up[s]) : up[s][i].op = "stor" => up[s][i].arg <= lc[s].k + 1
    <3>1. ASSUME NEW i \in 1..Len(up[s]), up[s][i].op = "stor"
          PROVE  up[s][i].arg <= lc[s].k + 1
      <4>1. up[s][i].arg <= lc[s].k /\ up[s][i] \in Part
        BY <3>1, Parameters DEF SInv, Within
      <4>2. up[s][i].arg \in Nat
        BY <4>1 DEF Part
      <4> QED BY <4>1, <4>2, <1>2
    <3> QED BY <3>1
  <2>2. child[s].pc = "data" => child[s].xscript = name[s] /\ child[s].k <= lc[s].k + 1
    BY <1>2, Parameters DEF SInv, Within
  <2>3. child[s].pc # "none"
    BY <1>fix DEF SInv, Within
  <2> QED BY <1>fix, <1>2, <1>3, <2>1, <2>2, <2>3 DEF Within
<1>6. ASSUME Going(s)
      PROVE  /\ Balanced(lc'[s], down'[s], child[s])
             /\ Tidy(s, opt[s], lines[s], up'[s], lc'[s], child[s], stored[name[s]])
  <2>1. Balanced(lc[s], down[s], child[s])
        /\ Tidy(s, opt[s], lines[s], up[s], lc[s], child[s], stored[name[s]])
    BY <1>6 DEF SInv, InOrder
  <2>2. Total(lc'[s]) = Total(lc[s])
    BY <1>fix, <1>2 DEF Total
  <2>3. \A k : After(lc[s], k) => After(lc'[s], k)
    BY <1>fix, <1>2 DEF After
  <2>4. Tidy(s, opt[s], lines[s], up[s], lc'[s], child[s], stored[name[s]])
    BY <1>fix, <2>1, <2>3, TidyQuiet
  <2> QED BY <1>fix, <1>2, <2>1, <2>2, <2>4 DEF Balanced
<1>7. InOrder(s)' /\ Kept(s)'
  BY <1>fix, <1>6, OwnGoes
<1> QED BY <1>4, <1>5, <1>7

(* All answers have been counted, none is due: the child has given two for  *)
(* the transcript and two for each file, so it has taken them all           *)
LEMMA OwnClose ==
  ASSUME SInv, NEW s \in Session, Close(s)
  PROVE  InOrder(s)' /\ Sent(s)' /\ Within(s)' /\ Kept(s)'
<1>typ. lc \in [Session -> LcState] /\ exit \in [Session -> {"run", "0", "2", "killed"}]
  BY DEF SInv, WInv, TInv, TypeOK, ClientOK
<1>fix. /\ lc[s].pc \in {"drain", "giveup"} /\ lc[s].respcount = 0
        /\ UNCHANGED <<fixed, child, stored, dir, conn, up, down>>
  BY DEF Close, tmp, net
<1>1. CASE exit'[s] # "0"
  <2>1. lc'[s].pc = "over" /\ lc'[s].k = lc[s].k
    BY <1>typ DEF Close, Exits, LcState
  <2> QED BY <1>1, <1>fix, <2>1, OwnStop
<1>2. CASE exit'[s] = "0"
  <2>1. lc[s].pc = "drain" /\ ~Broken(s)
    BY <1>2, <1>typ DEF Close, Exits, At
  <2>2. lc' = [lc EXCEPT ![s].pc = "over"]
    BY DEF Close, Exits
  <2>3. lc'[s].pc = "over" /\ lc'[s].k = lc[s].k
    BY <2>2, <1>typ DEF LcState
  <2>4. child[s].pc # "none" /\ child[s].pc # "gone" /\ conn[s]
    BY <2>1 DEF Broken, SInv, Within
  <2>5. Going(s)
    BY <2>1, <2>4, Parameters DEF Going, Live, ChildState, ChildPc
  <2>6. /\ Given(child[s]) + 0 = 2 * (lc[s].k + 1) + Len(down[s]) /\ lc[s].k = Files(s)
        /\ Tidy(s, opt[s], lines[s], up[s], lc[s], child[s], stored[name[s]])
    BY <1>fix, <2>1, <2>5 DEF SInv, InOrder, Balanced, Total, Within
  <2>7. /\ Coming(child[s]) \in Nat /\ lc[s].k \in Nat /\ Len(down[s]) \in Nat
        /\ child[s].k \in Nat
    BY Parameters
  <2>8. Coming(child[s]) >= lc[s].k + 1
    BY <2>6, <2>7 DEF Given
  <2>9. child[s].pc = "cmd"
    <3> SUFFICES ASSUME child[s].pc = "data" PROVE FALSE
      BY <2>5 DEF Going, Live
    <3>1. child[s].k <= lc[s].k
      BY DEF SInv, Within
    <3>2. Coming(child[s]) = child[s].k \/ Coming(child[s]) = 0
      BY DEF Coming
    <3> QED BY <2>7, <2>8, <3>1, <3>2
  <2>10. up[s] = <<>>
    <3> SUFFICES ASSUME up[s] # <<>> PROVE FALSE
      OBVIOUS
    <3>1. up[s][1].op = "stor" /\ up[s][1].arg = Coming(child[s])
      BY <2>6, <2>9 DEF Tidy, Ready
    <3>2. 1 \in 1..Len(up[s])
      BY Parameters
    <3>3. up[s][1].arg <= lc[s].k
      BY <3>1, <3>2 DEF SInv, Within
    <3> QED BY <2>7, <2>8, <3>1, <3>3
  <2>11. \A j \in 0..Files(s) :
           stored[name[s]][j].by = s /\ Fit(opt[s], lines[s], j, stored[name[s]][j].blocks)
    <3>1. \A j \in 0..Files(s) : j \in 0..(Coming(child[s]) - 1)
      BY <2>6, <2>7, <2>8
    <3> QED BY <2>6, <3>1 DEF Tidy, Taken
  <2>12. Holds(s)
    BY <2>7, <2>8, <2>9 DEF Holds, Live, Coming
  <2>13. name[s] \in dir /\ \A r \in Session \ {s} : Holds(r) => name[r] # name[s]
    BY <2>12 DEF SInv, WInv, HolderWrites, OneHolder
  <2>14. Files(s)' = Files(s) /\ opt' = opt /\ lines' = lines /\ name' = name
    BY <1>fix, FilesKept DEF fixed
  <2>15. Kept(s)'
    BY <1>fix, <2>3, <2>9, <2>10, <2>11, <2>13, <2>14 DEF Kept, Holds, Live
  <2>16. InOrder(s)' /\ Sent(s)'
    BY <2>3 DEF InOrder, Going, Sent
  <2>17. Within(s)'
    BY <1>fix, <2>1, <2>3, <2>14 DEF SInv, Within
  <2> QED BY <2>15, <2>16, <2>17
<1> QED BY <1>1, <1>2
-----------------------------------------------------------------------------
(* The steps of a child take from the connection what comes first           *)
LEMMA WithinTail ==
  ASSUME SInv, NEW s \in Session, UNCHANGED fixed, lc'[s] = lc[s], Live(s),
         up'[s] = up[s] \/ (up[s] # <<>> /\ up'[s] = Tail(up[s])),
         child'[s].pc # "none",
         child'[s].pc = "data" => child'[s].xscript = name[s] /\ child'[s].k <= lc[s].k
  PROVE  Within(s)'
<1>1. Files(s)' = Files(s) /\ name' = name
  BY FilesKept DEF fixed
<1>2. lc[s].pc # "idle"
  BY DEF SInv, WInv, IdleChild, Live
<1>3. \A i \in 1..Len(up'[s]) : up'[s][i].op = "stor" => up'[s][i].arg <= lc[s].k
  <2>1. CASE up'[s] = up[s]
    BY <2>1 DEF SInv, Within
  <2>2. CASE up[s] # <<>> /\ up'[s] = Tail(up[s])
    <3> DEFINE q == up[s]
               k == lc[s].k
    <3>1. q \in Seq(Part) /\ q # <<>>
      BY <2>2, Parameters
    <3>2. \A i \in 1..Len(q) : q[i].op = "stor" => q[i].arg <= k
      BY DEF SInv, Within
    <3> HIDE DEF q, k
    <3>3. \A i \in 1..Len(Tail(q)) : i + 1 \in 1..Len(q) /\ Tail(q)[i] = q[i + 1]
      BY <3>1, TailParts
    <3>4. \A i \in 1..Len(Tail(q)) : Tail(q)[i].op = "stor" => Tail(q)[i].arg <= k
      BY <3>2, <3>3
    <3> QED BY <2>2, <3>4 DEF q, k
  <2> QED BY <2>1, <2>2
<1> QED BY <1>1, <1>2, <1>3 DEF SInv, Within

(* The child ends                                                           *)
LEMMA OwnGone ==
  ASSUME SInv, NEW s \in Session, UNCHANGED fixed, lc'[s] = lc[s], exit'[s] = exit[s], Live(s),
         child'[s].pc = "gone",
         up'[s] = up[s] \/ (up[s] # <<>> /\ up'[s] = Tail(up[s])),
         exit[s] = "0" =>
           /\ up'[s] = up[s] /\ name[s] \in dir' /\ stored'[name[s]] = stored[name[s]]
           /\ \A r \in Session \ {s} : Holds(r)' => name[r] # name[s]
  PROVE  InOrder(s)' /\ Sent(s)' /\ Within(s)' /\ Kept(s)'
<1>1. opt' = opt /\ lines' = lines
  BY DEF fixed
<1>2. InOrder(s)'
  BY DEF InOrder, Going, Live
<1>3. Sent(s)'
  BY <1>1 DEF SInv, Sent, Zero, ListedAs
<1>4. Within(s)'
  BY WithinTail
<1>5. Kept(s)'
  <2>1. CASE exit[s] = "0"
    <3>1. Kept(s)
      BY DEF SInv
    <3> QED BY <2>1, <3>1, StillKept
  <2>2. CASE exit[s] # "0"
    BY <2>2 DEF Kept
  <2> QED BY <2>1, <2>2
<1> QED BY <1>2, <1>3, <1>4, <1>5

(* The child takes a part and goes on                                       *)
LEMMA OwnTakes ==
  ASSUME SInv, NEW s \in Session, UNCHANGED <<fixed, lc, exit, conn>>, Live(s),
         up[s] # <<>>, up'[s] = Tail(up[s]), child'[s].pc # "none", exit[s] # "0",
         child'[s].pc = "data" => child'[s].xscript = name[s] /\ child'[s].k <= lc[s].k,
         Going(s) => /\ Balanced(lc[s], down'[s], child'[s])
                     /\ Tidy(s, opt[s], lines[s], up'[s], lc[s], child'[s], stored'[name[s]])
  PROVE  InOrder(s)' /\ Sent(s)' /\ Within(s)' /\ Kept(s)'
<1>1. opt' = opt /\ lines' = lines /\ name' = name
  BY DEF fixed
<1>2. Sent(s)'
  BY <1>1 DEF SInv, Sent, Zero, ListedAs
<1>3. Within(s)'
  BY WithinTail
<1>4. Going(s)' => Going(s)
  BY DEF Going
<1>5. InOrder(s)'
  BY <1>1, <1>4 DEF InOrder
<1> QED BY <1>2, <1>3, <1>5 DEF Kept

(* One answer more is on its way and one more has been given                *)
LEMMA BalancedSays ==
  ASSUME SInv, NEW s \in Session, NEW a \in {"3", "2", "5"}, Says(s, a), conn[s],
         NEW c, Given(c) = Given(child[s]) + 1,
         Balanced(lc[s], down[s], child[s])
  PROVE  Balanced(lc[s], down'[s], c)
<1>1. down \in [Session -> Seq({"3", "2", "5"})]
  BY DEF SInv, WInv, TInv, TypeOK, NetOK
<1>2. down'[s] = Append(down[s], a)
  BY <1>1 DEF Says
<1>3. Len(down'[s]) = Len(down[s]) + 1
  BY <1>1, <1>2
<1> DEFINE g == Given(child[s])
           t == Total(lc[s])
           r == lc[s].respcount
           d == Len(down[s])
<1>4. g \in Nat /\ t \in Nat /\ r \in Nat /\ d \in Nat /\ g + r = t + d
  BY Numbers DEF Balanced
<1>5. (g + 1) + r = t + (d + 1)
  <2> HIDE DEF g, t, r, d
  <2> QED BY <1>4
<1> QED BY <1>3, <1>5 DEF Balanced

LEMMA FirstPart ==
  ASSUME SInv, NEW s \in Session, up[s] # <<>>, Takes(s)
  PROVE  /\ Head(up[s]) = up[s][1] /\ 1 \in 1..Len(up[s]) /\ up'[s] = Tail(up[s])
         /\ up[s][1] \in Part
<1>1. up \in [Session -> Seq(Part)]
  BY DEF SInv, WInv, TInv, TypeOK, NetOK
<1>2. up'[s] = Tail(up[s])
  BY <1>1 DEF Takes
<1> DEFINE q == up[s]
<1>3. q \in Seq(Part) /\ q # <<>>
  BY <1>1
<1>4. Head(q) = q[1] /\ 1 \in 1..Len(q) /\ q[1] \in Part
  <2> HIDE DEF q
  <2> QED BY <1>3
<1> QED BY <1>2, <1>4

LEMMA OwnStor ==
  ASSUME SInv, NEW s \in Session, StorCommand(s)
  PROVE  InOrder(s)' /\ Sent(s)' /\ Within(s)' /\ Kept(s)'
<1> DEFINE p == up[s][1]
           k == p.arg
           x == IF k = 0 THEN name[s] ELSE child[s].xscript
<1>fix. /\ UNCHANGED <<fixed, lc, exit, conn>> /\ child[s].pc = "cmd" /\ up[s] # <<>>
        /\ Takes(s) /\ Live(s)
  BY DEF StorCommand, In, client, Live
<1>typ. /\ child \in [Session -> ChildState] /\ stored \in [Transcript -> [0..NFile -> TmpFile]]
        /\ name[s] \in Transcript
  BY DEF SInv, WInv, TInv, TypeOK, FixedOK, ServerOK
<1>hd. /\ Head(up[s]) = p /\ 1 \in 1..Len(up[s]) /\ up'[s] = Tail(up[s]) /\ p \in Part
  BY <1>fix, FirstPart
<1>exi. exit[s] # "0"
  BY <1>fix DEF SInv, Kept
<1>1. CASE p.op = "stor" /\ Accepted(s, k)
  <2> DEFINE c == [pc |-> "data", xscript |-> x, k |-> k, len |-> p.size]
             f == [by |-> s, blocks |-> <<>>]
  <2>1. /\ child' = [child EXCEPT ![s] = c] /\ Says(s, "3")
        /\ stored' = [stored EXCEPT ![name[s]][k] = f]
    BY <1>1, <1>hd DEF StorCommand
  <2>2. k \in 0..NFile /\ k \in Nat /\ p.size \in Nat /\ k <= lc[s].k
    <3>1. k \in 0..NFile
      BY <1>1, <1>hd, <1>fix, Taking DEF SInv, WInv
    <3>2. k \in Nat /\ p.size \in Nat
      BY <1>hd DEF Part
    <3>3. k <= lc[s].k
      BY <1>1, <1>hd DEF SInv, Within
    <3> QED BY <3>1, <3>2, <3>3
  <2>3. x = name[s] /\ name[s] # Nobody
    BY <1>1, <1>typ, UploadAssumption DEF Accepted
  <2>4. /\ child'[s] = c /\ c.pc = "data" /\ c.xscript = name[s] /\ c.k = k /\ c.len = p.size
        /\ c \in ChildState
    <3>1. c \in ChildState
      BY <1>typ, <2>2, <2>3 DEF ChildState, ChildPc
    <3> QED BY <2>1, <2>3, <1>typ, <3>1
  <2>5. stored'[name[s]] = [stored[name[s]] EXCEPT ![k] = f] /\ f.by = s /\ f.blocks = <<>>
    <3> HIDE DEF f, k
    <3>1. stored'[name[s]] = [stored[name[s]] EXCEPT ![k] = f]
      BY <2>1, <1>typ
    <3> QED BY <3>1 DEF f
  <2>6. f \in TmpFile
    BY DEF TmpFile
  <2>7. ASSUME Going(s)
        PROVE  /\ Balanced(lc[s], down'[s], child'[s])
               /\ Tidy(s, opt[s], lines[s], up'[s], lc[s], child'[s], stored'[name[s]])
    <3>1. Balanced(lc[s], down[s], child[s])
          /\ Tidy(s, opt[s], lines[s], up[s], lc[s], child[s], stored[name[s]])
      BY <2>7 DEF SInv, InOrder
    <3>2. k = Coming(child[s]) /\ Coming(child[s]) \in Nat
      BY <3>1, <1>fix, Parameters DEF Tidy, Ready
    <3>3. Given(child'[s]) = Given(child[s]) + 1
      <4>1. Coming(child'[s]) = k /\ child'[s].pc = "data" /\ child[s].pc = "cmd"
        BY <2>3, <2>4, <1>fix DEF Coming
      <4> HIDE DEF k, c
      <4> QED BY <4>1, <3>2 DEF Given
    <3>4. Balanced(lc[s], down'[s], child'[s])
      BY <2>1, <2>7, <3>1, <3>3, BalancedSays DEF Going
    <3>5. Tidy(s, opt[s], lines[s], Tail(up[s]), lc[s], c, [stored[name[s]] EXCEPT ![k] = f])
      <4> DEFINE q == up[s]
                 st == stored[name[s]]
      <4>1. /\ q \in Seq(Part) /\ q # <<>> /\ lc[s] \in LcState
            /\ child[s] \in ChildState /\ st \in [0..NFile -> TmpFile]
        BY <1>fix, Parameters
      <4>2. /\ c \in ChildState /\ c.pc = "data" /\ c.xscript # Nobody
            /\ c.k = q[1].arg /\ c.len = q[1].size
        BY <2>3, <2>4
      <4>3. Tidy(s, opt[s], lines[s], q, lc[s], child[s], st) /\ child[s].pc = "cmd"
        BY <3>1, <1>fix
      <4>4. f \in TmpFile /\ f.by = s /\ f.blocks = <<>>
        BY <2>5, <2>6
      <4>5. Tidy(s, opt[s], lines[s], Tail(q), lc[s], c, [st EXCEPT ![q[1].arg] = f])
        <5> HIDE DEF c, f, x, q, st, k, p
        <5> QED BY <4>1, <4>2, <4>3, <4>4, TidyStor
      <4> QED BY <4>5
    <3> HIDE DEF c, f, k
    <3> QED BY <3>4, <3>5, <2>4, <2>5, <1>hd
  <2> HIDE DEF c, f, k, x
  <2> QED BY <1>fix, <1>hd, <1>exi, <2>2, <2>3, <2>4, <2>7, OwnTakes
<1>2. CASE ~(p.op = "stor" /\ Accepted(s, k))
  <2>1. child' = [child EXCEPT ![s].pc = "gone", ![s].xscript = x]
    BY <1>2, <1>hd DEF StorCommand, Refused
  <2>2. child'[s].pc = "gone"
    <3> HIDE DEF x
    <3> QED BY <2>1, <1>typ DEF ChildState
  <2> QED BY <1>fix, <1>hd, <1>exi, <2>2, OwnGone
<1> QED BY <1>1, <1>2

(* A child in the middle of a file has made the directory                   *)
LEMMA DataHolds ==
  ASSUME SInv, NEW s \in Session, child[s].pc = "data"
  PROVE  child[s].xscript = name[s] /\ child[s].k <= lc[s].k /\ name[s] # Nobody /\ Holds(s)
<1>1. child[s].xscript = name[s] /\ child[s].k <= lc[s].k
  BY DEF SInv, Within
<1>2. name[s] # Nobody
  BY Parameters, UploadAssumption
<1> QED BY <1>1, <1>2 DEF Holds, Live

LEMMA OwnBlock ==
  ASSUME SInv, NEW s \in Session, StorBlock(s)
  PROVE  InOrder(s)' /\ Sent(s)' /\ Within(s)' /\ Kept(s)'
<1> DEFINE k == child[s].k
           n == name[s]
           f == [stored[n][k] EXCEPT !.blocks = Append(@, up[s][1].arg)]
           c == [child[s] EXCEPT !.len = @ - 1]
<1>fix. /\ UNCHANGED <<fixed, lc, exit, conn, down>> /\ child[s].pc = "data" /\ up[s] # <<>>
        /\ Takes(s) /\ Live(s) /\ child[s].len > 0
  BY DEF StorBlock, In, client, Live, WantsBlock
<1>typ. /\ child \in [Session -> ChildState] /\ stored \in [Transcript -> [0..NFile -> TmpFile]]
        /\ n \in Transcript /\ k \in 0..NFile
  BY DEF SInv, WInv, TInv, TypeOK, FixedOK, ServerOK, ChildState
<1>hd. /\ Head(up[s]) = up[s][1] /\ up'[s] = Tail(up[s])
  BY <1>fix, FirstPart
<1>exi. exit[s] # "0"
  BY <1>fix DEF SInv, Kept
<1>1. /\ child' = [child EXCEPT ![s].len = @ - 1]
      /\ stored' = [stored EXCEPT ![n][k].blocks = Append(@, up[s][1].arg)]
  BY <1>hd DEF StorBlock
<1>2. child'[s] = c /\ c.pc = "data" /\ c.xscript = child[s].xscript /\ c.k = k
      /\ c.len = child[s].len - 1
  BY <1>1, <1>fix, <1>typ DEF ChildState
<1>3. stored'[n] = [stored[n] EXCEPT ![k] = f]
  <2> HIDE DEF k, n
  <2> QED BY <1>1, <1>typ
<1>4. f.by = stored[n][k].by /\ f.blocks = Append(stored[n][k].blocks, up[s][1].arg)
  <2>1. stored[n][k] \in TmpFile
    BY <1>typ
  <2> HIDE DEF n, k
  <2> QED BY <2>1 DEF TmpFile
<1>5. child[s].xscript = n /\ k <= lc[s].k /\ n # Nobody
  BY <1>fix, DataHolds
<1>6. ASSUME Going(s)
      PROVE  /\ Balanced(lc[s], down'[s], child'[s])
             /\ Tidy(s, opt[s], lines[s], up'[s], lc[s], child'[s], stored'[n])
  <2>1. Balanced(lc[s], down[s], child[s])
        /\ Tidy(s, opt[s], lines[s], up[s], lc[s], child[s], stored[n])
    BY <1>6 DEF SInv, InOrder
  <2>2. Given(child'[s]) = Given(child[s])
    BY <1>2, <1>fix DEF Given, Coming
  <2>3. Balanced(lc[s], down'[s], child'[s])
    BY <2>1, <2>2, <1>fix DEF Balanced
  <2>4. Tidy(s, opt[s], lines[s], Tail(up[s]), lc[s], c, [stored[n] EXCEPT ![k] = f])
    <3> HIDE DEF c, f
    <3> QED BY <2>1, <1>2, <1>4, <1>5, <1>fix, Parameters, TidyBlock
  <2> HIDE DEF c, f, k, n
  <2> QED BY <2>3, <2>4, <1>2, <1>3, <1>hd
<1> HIDE DEF c, f
<1> QED BY <1>fix, <1>hd, <1>exi, <1>2, <1>5, <1>6, OwnTakes

LEMMA OwnStored ==
  ASSUME SInv, NEW s \in Session, StorEnd(s)
  PROVE  InOrder(s)' /\ Sent(s)' /\ Within(s)' /\ Kept(s)'
<1> DEFINE n == name[s]
           c == [child[s] EXCEPT !.pc = "cmd"]
<1>fix. /\ UNCHANGED <<fixed, lc, exit, conn>> /\ child[s].pc = "data" /\ up[s] # <<>>
        /\ Takes(s) /\ Live(s) /\ ~(child[s].len > 0)
  BY DEF StorEnd, In, client, Live, WantsBlock
<1>typ. child \in [Session -> ChildState] /\ child[s].len = 0 /\ child[s].k \in Nat
  BY <1>fix, UploadAssumption DEF SInv, WInv, TInv, TypeOK, ServerOK, ChildState
<1>hd. /\ Head(up[s]) = up[s][1] /\ up'[s] = Tail(up[s])
  BY <1>fix, FirstPart
<1>exi. exit[s] # "0"
  BY <1>fix DEF SInv, Kept
<1>1. CASE up[s][1].op = "end"
  <2>1. child' = [child EXCEPT ![s].pc = "cmd"] /\ Says(s, "2") /\ UNCHANGED stored
    BY <1>1, <1>hd DEF StorEnd
  <2>2. child'[s] = c /\ c.pc = "cmd" /\ c.xscript = child[s].xscript /\ c.k = child[s].k
    BY <2>1, <1>typ DEF ChildState
  <2>3. child[s].xscript # Nobody
    BY <1>fix, DataHolds
  <2>4. ASSUME Going(s)
        PROVE  /\ Balanced(lc[s], down'[s], child'[s])
               /\ Tidy(s, opt[s], lines[s], up'[s], lc[s], child'[s], stored'[n])
    <3>1. Balanced(lc[s], down[s], child[s])
          /\ Tidy(s, opt[s], lines[s], up[s], lc[s], child[s], stored[n])
      BY <2>4 DEF SInv, InOrder
    <3>2. Given(child'[s]) = Given(child[s]) + 1
      <4>1. /\ Coming(child'[s]) = child[s].k + 1 /\ Coming(child[s]) = child[s].k
            /\ child'[s].pc = "cmd"
        BY <2>2, <2>3, <1>fix DEF Coming
      <4> HIDE DEF c
      <4> QED BY <4>1, <1>fix, <1>typ DEF Given
    <3>3. Balanced(lc[s], down'[s], child'[s])
      BY <2>1, <2>4, <3>1, <3>2, BalancedSays DEF Going
    <3>4. Tidy(s, opt[s], lines[s], Tail(up[s]), lc[s], c, stored[n])
      <4> HIDE DEF c
      <4> QED BY <3>1, <2>2, <2>3, <1>1, <1>fix, <1>typ, Parameters, TidyStored
    <3> HIDE DEF c
    <3> QED BY <3>3, <3>4, <2>1, <2>2, <1>hd
  <2> HIDE DEF c
  <2> QED BY <1>fix, <1>hd, <1>exi, <2>2, <2>4, OwnTakes
<1>2. CASE up[s][1].op # "end"
  <2>1. child' = [child EXCEPT ![s].pc = "gone"]
    BY <1>2, <1>hd DEF StorEnd
  <2>2. child'[s].pc = "gone"
    BY <2>1, <1>typ DEF ChildState
  <2> QED BY <1>fix, <1>hd, <1>exi, <2>2, OwnGone
<1> QED BY <1>1, <1>2

LEMMA OwnHangUp ==
  ASSUME SInv, NEW s \in Session, HangUp(s)
  PROVE  InOrder(s)' /\ Sent(s)' /\ Within(s)' /\ Kept(s)'
<1>1. /\ Live(s) /\ UNCHANGED <<fixed, lc, exit, up, dir, stored>>
      /\ child' = [child EXCEPT ![s].pc = "gone"]
  BY DEF HangUp, Live, client, net, tmp
<1>2. child \in [Session -> ChildState]
  BY DEF SInv, WInv, TInv, TypeOK, ServerOK
<1>3. child'[s].pc = "gone"
  BY <1>1, <1>2 DEF ChildState
<1>4. \A r \in Session \ {s} : Holds(r)' => Holds(r)
  BY <1>1, <1>2 DEF Holds, Live
<1>5. exit[s] = "0" => name[s] \in dir /\ \A r \in Session \ {s} : Holds(r) => name[r] # name[s]
  BY DEF SInv, Kept
<1> QED BY <1>1, <1>3, <1>4, <1>5, OwnGone
-----------------------------------------------------------------------------
(* What the step of one upload leaves to the others: files change only in   *)
(* a directory that its child holds or makes, and then no other child holds *)
(* it                                                                       *)
LEMMA Others ==
  ASSUME SInv, NEW s \in Session, UNCHANGED fixed, dir \subseteq dir',
         \A t \in Session \ {s} :
           /\ lc'[t] = lc[t] /\ exit'[t] = exit[t] /\ up'[t] = up[t] /\ down'[t] = down[t]
           /\ conn'[t] = conn[t] /\ child'[t] = child[t],
         \A n \in Transcript \ {name[s]} : stored'[n] = stored[n],
         stored'[name[s]] = stored[name[s]] \/ Holds(s) \/ name[s] \notin dir,
         Holds(s)' => Holds(s) \/ name[s] \notin dir
  PROVE  \A t \in Session \ {s} : InOrder(t)' /\ Sent(t)' /\ Within(t)' /\ Kept(t)'
<1> SUFFICES ASSUME NEW t \in Session \ {s}
             PROVE  InOrder(t)' /\ Sent(t)' /\ Within(t)' /\ Kept(t)'
  OBVIOUS
<1>1. /\ InOrder(t) /\ Sent(t) /\ Within(t) /\ Kept(t)
      /\ t \in Session /\ s \in Session /\ t # s
      /\ name[t] \in Transcript
  BY Parameters DEF SInv
<1>2. /\ lc'[t] = lc[t] /\ exit'[t] = exit[t] /\ up'[t] = up[t] /\ down'[t] = down[t]
      /\ conn'[t] = conn[t] /\ child'[t] = child[t]
  OBVIOUS
<1>3. Sent(t)' /\ Within(t)' /\ Going(t)' = Going(t)
  BY <1>1, <1>2, Unaffected
<1>4. InOrder(t)'
  <2>1. CASE stored'[name[t]] = stored[name[t]]
    BY <1>1, <1>2, <2>1, Unaffected
  <2>2. CASE stored'[name[t]] # stored[name[t]]
    <3>1. name[t] = name[s] /\ (Holds(s) \/ name[t] \notin dir)
      BY <1>1, <2>2
    <3>2. ~Holds(t)
      BY <1>1, <3>1 DEF SInv, WInv, OneHolder, HolderWrites
    <3>3. ASSUME Going(t)
          PROVE  /\ Balanced(lc[t], down[t], child[t])
                 /\ Tidy(t, opt[t], lines[t], up[t], lc[t], child[t], stored'[name[t]])
      <4>1. Balanced(lc[t], down[t], child[t])
            /\ Tidy(t, opt[t], lines[t], up[t], lc[t], child[t], stored[name[t]])
        BY <1>1, <3>3 DEF InOrder
      <4>2. child[t].xscript = Nobody /\ child[t].pc = "cmd"
        <5>1. child[t].xscript = Nobody /\ Live(t)
          BY <3>2, <3>3 DEF Holds, Going
        <5>2. child[t].pc # "data"
          BY <1>1, <3>2, DataHolds
        <5> QED BY <5>1, <5>2 DEF Live
      <4>3. Tidy(t, opt[t], lines[t], up[t], lc[t], child[t], stored'[name[t]])
        BY <4>1, <4>2 DEF Tidy, AtHand, Taken, Coming
      <4> QED BY <4>1, <4>3
    <3>4. opt' = opt /\ lines' = lines /\ name' = name
      BY DEF fixed
    <3> QED BY <1>2, <1>3, <3>3, <3>4 DEF InOrder
  <2> QED BY <2>1, <2>2
<1>5. Kept(t)'
  <2>1. CASE exit[t] # "0"
    BY <1>2, <2>1 DEF Kept
  <2>2. CASE exit[t] = "0"
    <3>1. name[t] \in dir /\ \A r \in Session \ {t} : Holds(r) => name[r] # name[t]
      BY <1>1, <2>2 DEF Kept
    <3>2. stored'[name[t]] = stored[name[t]]
      BY <1>1, <3>1
    <3>3. \A r \in Session \ {t} : Holds(r)' => name[r] # name[t]
      <4> SUFFICES ASSUME NEW r \in Session \ {t}, Holds(r)', name[r] = name[t]
                   PROVE  FALSE
        OBVIOUS
      <4>1. CASE r = s
        BY <1>1, <3>1, <4>1
      <4>2. CASE r # s
        <5>1. child'[r] = child[r]
          BY <4>2
        <5> QED BY <3>1, <5>1 DEF Holds, Live
      <4> QED BY <4>1, <4>2
    <3>4. name[t] \in dir'
      BY <3>1
    <3> QED BY <1>1, <1>2, <2>2, <3>2, <3>3, <3>4, StillKept
  <2> QED BY <2>1, <2>2
<1> QED BY <1>3, <1>4, <1>5

(* What the step of one upload does not touch                               *)
LEMMA LcreateApart ==
  ASSUME SInv, NEW s \in Session, Lcreate(s)
  PROVE  /\ \A t \in Session \ {s} :
              /\ lc'[t] = lc[t] /\ exit'[t] = exit[t] /\ up'[t] = up[t] /\ down'[t] = down[t]
              /\ conn'[t] = conn[t] /\ child'[t] = child[t]
         /\ \A n \in Transcript \ {name[s]} :
              stored'[n] = stored[n] /\ (n \in dir' <=> n \in dir)
<1>typ. /\ lc \in [Session -> LcState] /\ exit \in [Session -> {"run", "0", "2", "killed"}]
        /\ up \in [Session -> Seq(Part)] /\ down \in [Session -> Seq({"3", "2", "5"})]
        /\ child \in [Session -> ChildState] /\ conn \in [Session -> BOOLEAN]
        /\ stored \in [Transcript -> [0..NFile -> TmpFile]] /\ name[s] \in Transcript
  BY DEF SInv, WInv, TInv, TypeOK, FixedOK, ClientOK, NetOK, ServerOK
<1>2. UNCHANGED <<fixed, dir, stored, conn>>
  BY DEF Lcreate, Connect, Open, Send, Finished, End, Answer, NextLine, Close, tmp, net
<1>3. /\ UNCHANGED child \/ Connect(s)
      /\ UNCHANGED exit \/ \E status : exit' = [exit EXCEPT ![s] = status]
      /\ UNCHANGED up \/ \E x : up' = [up EXCEPT ![s] = x]
      /\ UNCHANGED down \/ \E x : down' = [down EXCEPT ![s] = x]
  <2>1. UNCHANGED child \/ Connect(s)
    BY DEF Lcreate, Open, Send, Finished, End, Answer, NextLine, Close
  <2>2. UNCHANGED exit \/ \E status : exit' = [exit EXCEPT ![s] = status]
    BY DEF Lcreate, Connect, Open, Send, Finished, End, Answer, NextLine, Close, Exits, client
  <2>3. UNCHANGED up \/ \E x : up' = [up EXCEPT ![s] = x]
    BY DEF Lcreate, Connect, Open, Send, Finished, End, Answer, NextLine, Close, net
  <2>4. UNCHANGED down \/ \E x : down' = [down EXCEPT ![s] = x]
    BY DEF Lcreate, Connect, Open, Send, Finished, End, Answer, NextLine, Close, net
  <2> QED BY <2>1, <2>2, <2>3, <2>4
<1>4. \A t \in Session \ {s} : lc'[t] = lc[t]
  <2> USE <1>typ DEF Exits, GiveUp
  <2>1. CASE Connect(s) \/ NextLine(s) \/ Close(s)
    BY <2>1 DEF Connect, NextLine, Close
  <2>2. CASE Open(s)
    BY <2>2 DEF Open
  <2>3. CASE Send(s)
    BY <2>3 DEF Send
  <2>4. CASE Finished(s)
    BY <2>4 DEF Finished
  <2>5. CASE End(s)
    BY <2>5 DEF End
  <2>6. CASE Answer(s)
    BY <2>6 DEF Answer, client
  <2> QED BY <2>1, <2>2, <2>3, <2>4, <2>5, <2>6 DEF Lcreate
<1>5. ASSUME NEW t \in Session \ {s}
      PROVE  /\ lc'[t] = lc[t] /\ exit'[t] = exit[t] /\ up'[t] = up[t] /\ down'[t] = down[t]
             /\ conn'[t] = conn[t] /\ child'[t] = child[t]
  BY <1>2, <1>3, <1>4, <1>typ DEF Connect
<1> QED BY <1>2, <1>5

LEMMA ChildApart ==
  ASSUME SInv, NEW s \in Session, Child(s)
  PROVE  /\ \A t \in Session \ {s} :
              /\ lc'[t] = lc[t] /\ exit'[t] = exit[t] /\ up'[t] = up[t] /\ down'[t] = down[t]
              /\ conn'[t] = conn[t] /\ child'[t] = child[t]
         /\ \A n \in Transcript \ {name[s]} :
              stored'[n] = stored[n] /\ (n \in dir' <=> n \in dir)
<1>typ. /\ lc \in [Session -> LcState] /\ exit \in [Session -> {"run", "0", "2", "killed"}]
        /\ up \in [Session -> Seq(Part)] /\ down \in [Session -> Seq({"3", "2", "5"})]
        /\ child \in [Session -> ChildState] /\ conn \in [Session -> BOOLEAN]
        /\ stored \in [Transcript -> [0..NFile -> TmpFile]] /\ name[s] \in Transcript
  BY DEF SInv, WInv, TInv, TypeOK, FixedOK, ClientOK, NetOK, ServerOK
<1>2. UNCHANGED <<fixed, lc, exit, conn>> /\ dir \subseteq dir' /\ Live(s)
  BY DEF Child, StorCommand, StorBlock, StorEnd, HangUp, In, tmp, net, client, Live
<1>3. /\ UNCHANGED up \/ \E x : up' = [up EXCEPT ![s] = x]
      /\ UNCHANGED down \/ \E x : down' = [down EXCEPT ![s] = x]
      /\ \A t \in Session \ {s} : child'[t] = child[t]
  <2>1. UNCHANGED up \/ \E x : up' = [up EXCEPT ![s] = x]
    BY DEF Child, StorCommand, StorBlock, StorEnd, HangUp, net, Takes
  <2>2. UNCHANGED down \/ \E x : down' = [down EXCEPT ![s] = x]
    BY DEF Child, StorCommand, StorBlock, StorEnd, HangUp, net, Says
  <2>3. \A t \in Session \ {s} : child'[t] = child[t]
    BY <1>typ DEF Child, StorCommand, StorBlock, StorEnd, HangUp, Refused
  <2> QED BY <2>1, <2>2, <2>3
<1>4. ASSUME NEW t \in Session \ {s}
      PROVE  /\ lc'[t] = lc[t] /\ exit'[t] = exit[t] /\ up'[t] = up[t] /\ down'[t] = down[t]
             /\ conn'[t] = conn[t] /\ child'[t] = child[t]
  BY <1>2, <1>3, <1>typ
<1>5. \A n \in Transcript \ {name[s]} : stored'[n] = stored[n]
  BY <1>typ DEF Child, StorCommand, StorBlock, StorEnd, HangUp, tmp
<1>6. \A n \in Transcript \ {name[s]} : n \in dir' <=> n \in dir
  BY DEF Child, StorCommand, StorBlock, StorEnd, HangUp, tmp
<1> QED BY <1>4, <1>5, <1>6

LEMMA AroundApart ==
  ASSUME SInv, NEW s \in Session, Around(s)
  PROVE  /\ \A t \in Session \ {s} :
              /\ lc'[t] = lc[t] /\ exit'[t] = exit[t] /\ up'[t] = up[t] /\ down'[t] = down[t]
              /\ conn'[t] = conn[t] /\ child'[t] = child[t]
         /\ \A n \in Transcript \ {name[s]} :
              stored'[n] = stored[n] /\ (n \in dir' <=> n \in dir)
<1>typ. /\ lc \in [Session -> LcState] /\ exit \in [Session -> {"run", "0", "2", "killed"}]
        /\ up \in [Session -> Seq(Part)] /\ down \in [Session -> Seq({"3", "2", "5"})]
        /\ child \in [Session -> ChildState] /\ conn \in [Session -> BOOLEAN]
        /\ stored \in [Transcript -> [0..NFile -> TmpFile]] /\ name[s] \in Transcript
  BY DEF SInv, WInv, TInv, TypeOK, FixedOK, ClientOK, NetOK, ServerOK
<1>4. \A t \in Session \ {s} : lc'[t] = lc[t] /\ exit'[t] = exit[t] /\ conn'[t] = conn[t]
  BY <1>typ DEF Around, Lose, Kill, Fault, Modify, client, net, Exits
<1>5. \A t \in Session \ {s} : down'[t] = down[t] /\ child'[t] = child[t]
  BY <1>typ DEF Around, Lose, Kill, Fault, Modify, net, Says
<1>6. UNCHANGED <<up, stored>> /\ \A n \in Transcript \ {name[s]} : n \in dir' <=> n \in dir
  BY DEF Around, Lose, Kill, Fault, Modify, net, tmp
<1> QED BY <1>4, <1>5, <1>6

LEMMA LcreateSound ==
  ASSUME SInv, NEW s \in Session, Lcreate(s)
  PROVE  \A t \in Session : InOrder(t)' /\ Sent(t)' /\ Within(t)' /\ Kept(t)'
<1>1. InOrder(s)' /\ Sent(s)' /\ Within(s)' /\ Kept(s)'
  BY OwnConnect, OwnOpen, OwnSend, OwnFinished, OwnEnd, OwnAnswer, OwnNextLine, OwnClose DEF Lcreate
<1>2. UNCHANGED <<fixed, dir, stored>>
  BY DEF Lcreate, Connect, Open, Send, Finished, End, Answer, NextLine, Close, tmp
<1>3. UNCHANGED child \/ Connect(s)
  BY DEF Lcreate, Open, Send, Finished, End, Answer, NextLine, Close
<1>typ. child \in [Session -> ChildState]
  BY DEF SInv, WInv, TInv, TypeOK, ServerOK
<1>6. Holds(s)' => Holds(s)
  <2>1. CASE Connect(s)
    <3>1. child' = [child EXCEPT ![s].pc = "cmd"] /\ child[s].xscript = Nobody
      BY <2>1 DEF Connect, At, SInv, WInv, IdleChild
    <3>2. child'[s].xscript = Nobody
      BY <3>1, <1>typ DEF ChildState
    <3> QED BY <3>2 DEF Holds
  <2>2. CASE UNCHANGED child
    BY <2>2 DEF Holds, Live
  <2> QED BY <1>3, <2>1, <2>2
<1>7. \A t \in Session \ {s} : InOrder(t)' /\ Sent(t)' /\ Within(t)' /\ Kept(t)'
  BY <1>2, <1>6, LcreateApart, Others
<1> QED BY <1>1, <1>7

LEMMA ChildSound ==
  ASSUME SInv, NEW s \in Session, Child(s)
  PROVE  \A t \in Session : InOrder(t)' /\ Sent(t)' /\ Within(t)' /\ Kept(t)'
<1>1. InOrder(s)' /\ Sent(s)' /\ Within(s)' /\ Kept(s)'
  BY OwnStor, OwnBlock, OwnStored, OwnHangUp DEF Child
<1>typ. /\ up \in [Session -> Seq(Part)] /\ down \in [Session -> Seq({"3", "2", "5"})]
        /\ child \in [Session -> ChildState] /\ name[s] \in Transcript
        /\ stored \in [Transcript -> [0..NFile -> TmpFile]]
  BY DEF SInv, WInv, TInv, TypeOK, FixedOK, NetOK, ServerOK
<1>2. UNCHANGED fixed /\ dir \subseteq dir' /\ Live(s)
  BY DEF Child, StorCommand, StorBlock, StorEnd, HangUp, In, tmp, Live
<1>6. /\ stored'[name[s]] = stored[name[s]] \/ Holds(s) \/ name[s] \notin dir
      /\ Holds(s)' => Holds(s) \/ name[s] \notin dir
  <2>1. CASE child[s].pc = "data"
    BY <2>1, DataHolds
  <2>2. CASE HangUp(s)
    <3>1. child'[s].pc = "gone" /\ UNCHANGED stored
      BY <2>2, <1>typ DEF HangUp, tmp
    <3> QED BY <3>1 DEF Holds, Live
  <2>3. CASE StorCommand(s)
    <3> DEFINE k == Head(up[s]).arg
               x == IF k = 0 THEN name[s] ELSE child[s].xscript
    <3>1. CASE Head(up[s]).op = "stor" /\ Accepted(s, k)
      <4>1. name[s] \notin dir \/ child[s].xscript = name[s]
        BY <3>1 DEF Accepted
      <4> QED BY <4>1, <1>2, <1>typ, UploadAssumption DEF Holds
    <3>2. CASE ~(Head(up[s]).op = "stor" /\ Accepted(s, k))
      <4>1. child' = [child EXCEPT ![s].pc = "gone", ![s].xscript = x] /\ UNCHANGED stored
        BY <2>3, <3>2 DEF StorCommand, Refused
      <4>2. child'[s].pc = "gone"
        <5> HIDE DEF x
        <5> QED BY <4>1, <1>typ DEF ChildState
      <4> QED BY <4>1, <4>2 DEF Holds, Live
    <3> QED BY <3>1, <3>2
  <2> QED BY <2>1, <2>2, <2>3 DEF Child, StorBlock, StorEnd, In
<1>7. \A t \in Session \ {s} : InOrder(t)' /\ Sent(t)' /\ Within(t)' /\ Kept(t)'
  BY <1>2, <1>6, ChildApart, Others
<1> QED BY <1>1, <1>7

LEMMA AroundSound ==
  ASSUME SInv, NEW s \in Session, Around(s)
  PROVE  \A t \in Session : InOrder(t)' /\ Sent(t)' /\ Within(t)' /\ Kept(t)'
<1>typ. /\ lc \in [Session -> LcState] /\ exit \in [Session -> {"run", "0", "2", "killed"}]
        /\ child \in [Session -> ChildState] /\ conn \in [Session -> BOOLEAN]
  BY DEF SInv, WInv, TInv, TypeOK, ClientOK, NetOK, ServerOK
<1>1. UNCHANGED <<fixed, up, stored>> /\ dir \subseteq dir'
  BY DEF Around, Lose, Kill, Fault, Modify, net, tmp
<1>2. opt' = opt /\ lines' = lines /\ name' = name /\ Files(s)' = Files(s)
  BY <1>1, FilesKept DEF fixed
<1>3. Holds(s)' => Holds(s)
  <2>1. UNCHANGED child \/ (Live(s) /\ child' = [child EXCEPT ![s].pc = "gone"])
    BY DEF Around, Lose, Kill, Fault, Modify, Live
  <2> QED BY <2>1, <1>typ DEF Holds, Live, ChildState
<1>6. \A t \in Session \ {s} : InOrder(t)' /\ Sent(t)' /\ Within(t)' /\ Kept(t)'
  BY <1>1, <1>3, AroundApart, Others
<1>old. InOrder(s) /\ Sent(s) /\ Within(s) /\ Kept(s)
  BY DEF SInv
<1>7. CASE Lose(s)
  <2>1. UNCHANGED <<lc, exit, child, dir>> /\ Live(s) /\ conn' = [conn EXCEPT ![s] = FALSE]
    BY <1>7 DEF Lose, client, tmp, Live
  <2>2. InOrder(s)'
    BY <2>1, <1>typ DEF InOrder, Going
  <2>3. Sent(s)'
    BY <2>1, <1>2, <1>old DEF Sent, Zero, ListedAs
  <2>4. Within(s)'
    BY <2>1, <1>1, <1>2, <1>old, WithinTail DEF Live, Within
  <2>5. Kept(s)'
    BY <2>1, <1>1, <1>2, <1>old DEF Kept, Holds, Live
  <2> QED BY <1>6, <2>2, <2>3, <2>4, <2>5
<1>8. CASE Kill(s)
  <2>1. /\ lc[s].pc # "idle" /\ UNCHANGED child
        /\ lc' = [lc EXCEPT ![s].pc = "over"] /\ exit' = [exit EXCEPT ![s] = "killed"]
    BY <1>8 DEF Kill, Exits
  <2>2. lc'[s].pc = "over" /\ lc'[s].k = lc[s].k /\ exit'[s] = "killed"
    BY <2>1, <1>typ DEF LcState
  <2> QED BY <1>1, <1>6, <2>1, <2>2, OwnStop
<1>9. CASE Fault(s)
  <2>1. UNCHANGED <<lc, exit>> /\ Live(s) /\ child' = [child EXCEPT ![s].pc = "gone"]
    BY <1>9 DEF Fault, client, Live
  <2>2. child'[s].pc = "gone"
    BY <2>1, <1>typ DEF ChildState
  <2>3. \A r \in Session \ {s} : Holds(r)' => Holds(r)
    BY AroundApart DEF Holds, Live
  <2>4. exit[s] = "0" => name[s] \in dir /\ \A r \in Session \ {s} : Holds(r) => name[r] # name[s]
    BY <1>old DEF Kept
  <2>5. InOrder(s)' /\ Sent(s)' /\ Within(s)' /\ Kept(s)'
    BY <1>1, <2>1, <2>2, <2>3, <2>4, OwnGone
  <2> QED BY <1>6, <2>5
<1>10. CASE Modify(s)
  <2>1. UNCHANGED <<lc, exit, down, conn, child, dir>>
    BY <1>10 DEF Modify, client, net, tmp
  <2>2. InOrder(s)' /\ Sent(s)' /\ Within(s)'
    BY <1>1, <1>old, <2>1, Unaffected
  <2>3. Kept(s)'
    BY <1>1, <1>2, <1>old, <2>1 DEF Kept, Holds, Live
  <2> QED BY <1>6, <2>2, <2>3
<1> QED BY <1>7, <1>8, <1>9, <1>10 DEF Around

LEMMA CleanSound ==
  ASSUME SInv, NEW n \in Transcript, Clean(n)
  PROVE  \A t \in Session : InOrder(t)' /\ Sent(t)' /\ Within(t)' /\ Kept(t)'
<1>1. /\ UNCHANGED <<fixed, lc, exit, up, down, conn, child>> /\ dir' = dir \ {n}
      /\ stored' = [stored EXCEPT ![n] = [k \in 0..NFile |-> None]]
  BY DEF Clean, client, net
<1>2. stored \in [Transcript -> [0..NFile -> TmpFile]]
  BY DEF SInv, WInv, TInv, TypeOK, ServerOK
<1> SUFFICES ASSUME NEW t \in Session
             PROVE  InOrder(t)' /\ Sent(t)' /\ Within(t)' /\ Kept(t)'
  OBVIOUS
<1>3. InOrder(t) /\ Sent(t) /\ Within(t) /\ Kept(t) /\ name[t] \in Transcript
  BY Parameters DEF SInv
<1>4. Sent(t)' /\ Within(t)' /\ Going(t)' = Going(t)
  BY <1>1, <1>3, Unaffected
<1>5. CASE name[t] = n
  <2>1. lc[t].pc \in {"idle", "over"} /\ (lc[t].pc = "over" => exit[t] # "0")
    BY <1>5 DEF Clean, At
  <2>2. exit[t] # "0"
    BY <1>3, <2>1 DEF Kept
  <2>3. ~Going(t)
    BY <2>1 DEF Going
  <2> QED BY <1>1, <1>4, <2>2, <2>3 DEF InOrder, Kept
<1>6. CASE name[t] # n
  <2>1. stored'[name[t]] = stored[name[t]]
    BY <1>1, <1>2, <1>3, <1>6
  <2>2. InOrder(t)'
    BY <1>1, <1>3, <2>1, Unaffected
  <2>3. Kept(t)'
    <3>1. CASE exit[t] = "0"
      <4>1. name[t] \in dir' /\ \A r \in Session \ {t} : Holds(r)' => name[r] # name[t]
        BY <1>1, <1>3, <1>6, <3>1 DEF Kept, Holds, Live
      <4> QED BY <1>1, <1>3, <2>1, <3>1, <4>1, StillKept
    <3>2. CASE exit[t] # "0"
      BY <1>1, <3>2 DEF Kept
    <3> QED BY <3>1, <3>2
  <2> QED BY <1>4, <2>2, <2>3
<1> QED BY <1>5, <1>6

(* Before any lcreate has connected nothing is on its way and nothing has   *)
(* been reported                                                            *)
THEOREM InitStored == Init => SInv
<1> SUFFICES ASSUME Init PROVE SInv
  OBVIOUS
<1>1. WInv
  BY InitWriters
<1>2. ASSUME NEW s \in Session
      PROVE  /\ lc[s].pc = "idle" /\ lc[s].k = 0 /\ exit[s] = "run" /\ up[s] = <<>>
             /\ down[s] = <<>> /\ child[s].pc = "none" /\ Files(s) \in Nat
  <2>1. /\ lc[s].pc = "idle" /\ lc[s].k = 0 /\ exit[s] = "run" /\ up[s] = <<>>
        /\ down[s] = <<>> /\ child[s].pc = "none"
    BY DEF Init
  <2>2. Files(s) \in Nat
    BY <1>1, FilesNat DEF WInv
  <2> QED BY <2>1, <2>2
<1>3. ASSUME NEW s \in Session
      PROVE  InOrder(s) /\ Sent(s) /\ Within(s) /\ Kept(s)
  BY <1>2 DEF InOrder, Going, Live, Sent, Within, Kept
<1> QED BY <1>1, <1>3 DEF SInv

LEMMA StepStored ==
  ASSUME SInv, [Next]_vars
  PROVE  SInv'
<1>1. WInv'
  BY StepWriters DEF SInv
<1>2. CASE UNCHANGED vars
  <2>1. ASSUME NEW t \in Session
        PROVE  InOrder(t)' /\ Sent(t)' /\ Within(t)' /\ Kept(t)'
    <3>1. UNCHANGED <<fixed, lc, exit, up, down, conn, child, dir, stored>>
      BY <1>2 DEF vars, client, net, tmp
    <3>2. InOrder(t) /\ Sent(t) /\ Within(t) /\ Kept(t)
      BY DEF SInv
    <3>3. InOrder(t)' /\ Sent(t)' /\ Within(t)'
      BY <3>1, <3>2, Unaffected
    <3>4. Files(t)' = Files(t)
      BY <3>1, FilesKept
    <3>5. Kept(t)'
      BY <3>1, <3>2, <3>4 DEF Kept, Holds, Live, fixed
    <3> QED BY <3>3, <3>5
  <2> QED BY <1>1, <2>1 DEF SInv
<1>3. CASE Next
  <2>1. \/ UNCHANGED vars
        \/ \E s \in Session : Lcreate(s) \/ Child(s) \/ Around(s)
        \/ \E n \in Transcript : Clean(n)
    BY <1>3 DEF Next, Idle, Around
  <2>2. CASE \E s \in Session : Lcreate(s) \/ Child(s) \/ Around(s)
    <3>1. PICK s \in Session : Lcreate(s) \/ Child(s) \/ Around(s)
      BY <2>2
    <3>2. \A t \in Session : InOrder(t)' /\ Sent(t)' /\ Within(t)' /\ Kept(t)'
      BY <3>1, LcreateSound, ChildSound, AroundSound
    <3> QED BY <1>1, <3>2 DEF SInv
  <2>3. CASE \E n \in Transcript : Clean(n)
    <3>1. \A t \in Session : InOrder(t)' /\ Sent(t)' /\ Within(t)' /\ Kept(t)'
      BY <2>3, CleanSound
    <3> QED BY <1>1, <3>1 DEF SInv
  <2> QED BY <1>2, <2>1, <2>2, <2>3
<1> QED BY <1>2, <1>3

LEMMA KeptIsStored ==
  ASSUME SInv
  PROVE  Stored
<1> SUFFICES ASSUME NEW s \in Session, exit[s] = "0", NEW k \in 0..Files(s)
             PROVE  /\ stored[name[s]][k].by = s
                    /\ Zero(s, k) => stored[name[s]][k].blocks = <<>>
                    /\ ~Zero(s, k) /\ ~opt[s].force =>
                         /\ Len(stored[name[s]][k].blocks) = Len(ListedAs(s, k))
                         /\ opt[s].cksum => stored[name[s]][k].blocks = ListedAs(s, k)
  BY DEF Stored
<1>1. stored[name[s]][k].by = s /\ Fit(opt[s], lines[s], k, stored[name[s]][k].blocks)
  BY DEF SInv, Kept
<1> QED BY <1>1 DEF Fit, Zero, ListedAs
-----------------------------------------------------------------------------
(* Every answer is either an error or the one that lcreate takes it for: a  *)
(* 3 and a 2 in turn, the last of them always a 2.  After i answers more    *)
(* are read, respcount is less by i.                                        *)
Turn(r, i) == IF (r + i) % 2 = 1 THEN "3" ELSE "2"

InTurn(r, d) == \A i \in 1..Len(d) : d[i] \in {Turn(r, i), "5"}

NextTurn(r, d, ch) == Turn(r, Len(d) + 1) = IF ch.pc = "cmd" THEN "3" ELSE "2"

InStep(s) == lc[s].pc # "over" =>
  /\ InTurn(lc[s].respcount, down[s])
  /\ Live(s) /\ conn[s] => NextTurn(lc[s].respcount, down[s], child[s])

AInv == SInv /\ \A s \in Session : InStep(s)

LEMMA Turns ==
  ASSUME NEW r \in Nat, NEW i \in Nat
  PROVE  /\ Turn(r + 2, i) = Turn(r, i)
         /\ Turn(r, i + 1) = (IF Turn(r, i) = "3" THEN "2" ELSE "3")
         /\ r > 0 => Turn(r - 1, i) = Turn(r, i + 1)
         /\ Turn(r, i) \in {"3", "2"}
<1>1. \A n \in Nat : n % 2 \in {0, 1} /\ (n + 1) % 2 = 1 - (n % 2) /\ (n + 2) % 2 = n % 2
  OBVIOUS
<1>2. r + i \in Nat /\ (r + 2) + i = (r + i) + 2 /\ r + (i + 1) = (r + i) + 1
  OBVIOUS
<1>3. r > 0 => (r - 1) + i \in Nat /\ ((r - 1) + i) + 2 = r + (i + 1)
  OBVIOUS
<1>4. (r + 2 + i) % 2 = (r + i) % 2 /\ (r + (i + 1)) % 2 = 1 - ((r + i) % 2)
  BY <1>1, <1>2
<1>5. r > 0 => ((r - 1) + i) % 2 = (r + (i + 1)) % 2
  BY <1>1, <1>3
<1>6. (r + i) % 2 \in {0, 1}
  BY <1>1, <1>2
<1> QED BY <1>4, <1>5, <1>6 DEF Turn

LEMMA DueIsTurn ==
  ASSUME NEW s \in Session, lc[s].respcount \in Nat
  PROVE  Due(s) = Turn(lc[s].respcount, 1)
<1> DEFINE r == lc[s].respcount
<1>1. r \in Nat
  OBVIOUS
<1>2. (IF r % 2 = 0 THEN "3" ELSE "2") = IF (r + 1) % 2 = 1 THEN "3" ELSE "2"
  <2> HIDE DEF r
  <2> QED BY <1>1
<1> QED BY <1>2 DEF Due, Turn

(* An answer more is on its way, or one is read                             *)
LEMMA TurnSays ==
  ASSUME NEW r \in Nat, NEW d \in Seq({"3", "2", "5"}), InTurn(r, d),
         NEW ch, NextTurn(r, d, ch), ch.pc \in {"cmd", "data"}, NEW a \in {"3", "2", "5"},
         a = "5" \/ (ch.pc = "cmd" /\ a = "3") \/ (ch.pc = "data" /\ a = "2")
  PROVE  /\ InTurn(r, Append(d, a))
         /\ ch.pc = "cmd" => Turn(r, Len(Append(d, a)) + 1) = "2"
         /\ ch.pc = "data" => Turn(r, Len(Append(d, a)) + 1) = "3"
<1> DEFINE e == Append(d, a)
           n == Len(d)
<1>1. /\ Len(e) = n + 1 /\ e[n + 1] = a /\ n \in Nat /\ n + 1 \in Nat
      /\ \A i \in 1..n : e[i] = d[i]
  OBVIOUS
<1>2. InTurn(r, e)
  <2> SUFFICES ASSUME NEW i \in 1..Len(e) PROVE e[i] \in {Turn(r, i), "5"}
    BY DEF InTurn
  <2>1. CASE i = n + 1
    BY <2>1, <1>1 DEF NextTurn
  <2>2. CASE i # n + 1
    <3>1. i \in 1..n
      BY <2>2, <1>1
    <3> QED BY <3>1, <1>1 DEF InTurn
  <2> QED BY <2>1, <2>2
<1>3. Turn(r, (n + 1) + 1) = IF Turn(r, n + 1) = "3" THEN "2" ELSE "3"
  BY <1>1, Turns
<1>4. Turn(r, Len(e) + 1) = IF Turn(r, n + 1) = "3" THEN "2" ELSE "3"
  BY <1>1, <1>3
<1>5. Turn(r, n + 1) = IF ch.pc = "cmd" THEN "3" ELSE "2"
  BY DEF NextTurn
<1> HIDE DEF e, n
<1>6. /\ ch.pc = "cmd" => Turn(r, Len(e) + 1) = "2"
      /\ ch.pc = "data" => Turn(r, Len(e) + 1) = "3"
  BY <1>4, <1>5
<1> QED BY <1>2, <1>6 DEF e

LEMMA TurnTail ==
  ASSUME NEW r \in Nat, r > 0, NEW d \in Seq({"3", "2", "5"}), d # <<>>, NEW ch,
         InTurn(r, d)
  PROVE  /\ InTurn(r - 1, Tail(d))
         /\ NextTurn(r, d, ch) => NextTurn(r - 1, Tail(d), ch)
<1> DEFINE e == Tail(d)
<1>1. /\ Len(e) = Len(d) - 1 /\ Len(e) \in Nat /\ Len(d) \in Nat /\ Len(e) + 1 = Len(d)
      /\ \A i \in 1..Len(e) : e[i] = d[i + 1] /\ i + 1 \in 1..Len(d) /\ i \in Nat
  OBVIOUS
<1>2. \A i \in Nat : Turn(r - 1, i) = Turn(r, i + 1)
  BY Turns
<1> HIDE DEF e
<1>3. InTurn(r - 1, e)
  BY <1>1, <1>2 DEF InTurn
<1>4. Turn(r - 1, Len(e) + 1) = Turn(r, Len(d) + 1)
  <2>1. Len(e) + 1 \in Nat
    BY <1>1
  <2> QED BY <2>1, <1>1, <1>2
<1>5. NextTurn(r, d, ch) => NextTurn(r - 1, e, ch)
  BY <1>4 DEF NextTurn
<1> QED BY <1>3, <1>5 DEF e

LEMMA TurnCounted ==
  ASSUME NEW r \in Nat, NEW n, n \in {r, r + 2}, NEW d \in Seq({"3", "2", "5"}), NEW ch
  PROVE  /\ InTurn(r, d) => InTurn(n, d)
         /\ NextTurn(r, d, ch) => NextTurn(n, d, ch)
<1>1. ASSUME NEW i \in Nat
      PROVE  Turn(n, i) = Turn(r, i)
  <2>1. Turn(r + 2, i) = Turn(r, i)
    BY Turns
  <2> QED BY <2>1
<1>2. Len(d) + 1 \in Nat /\ \A i \in 1..Len(d) : i \in Nat
  OBVIOUS
<1> QED BY <1>1, <1>2 DEF InTurn, NextTurn

(* lcreate counts two answers more, or none                                 *)
LEMMA StepCounted ==
  ASSUME AInv, NEW s \in Session, UNCHANGED <<down, child, conn>>,
         lc'[s].pc = "over" \/
           (lc[s].pc # "over" /\ lc'[s].respcount \in {lc[s].respcount, lc[s].respcount + 2})
  PROVE  InStep(s)'
<1> SUFFICES ASSUME lc'[s].pc # "over" PROVE InStep(s)'
  BY DEF InStep
<1> DEFINE r == lc[s].respcount
           n == lc'[s].respcount
           d == down[s]
<1>1. r \in Nat /\ d \in Seq({"3", "2", "5"}) /\ n \in {r, r + 2}
  BY Parameters DEF AInv
<1>2. InTurn(r, d) /\ (Live(s) /\ conn[s] => NextTurn(r, d, child[s]))
  BY DEF AInv, InStep
<1>3. InTurn(n, d) /\ (Live(s) /\ conn[s] => NextTurn(n, d, child[s]))
  <2> HIDE DEF r, n, d
  <2> QED BY <1>1, <1>2, TurnCounted
<1> QED BY <1>3 DEF InStep, Live

LEMMA LcreateInStep ==
  ASSUME AInv, NEW s \in Session, Lcreate(s)
  PROVE  InStep(s)'
<1>typ. /\ lc \in [Session -> LcState] /\ down \in [Session -> Seq({"3", "2", "5"})]
        /\ child \in [Session -> ChildState] /\ lc[s].respcount \in Nat
  BY Parameters DEF AInv, SInv, WInv, TInv, TypeOK, ClientOK, NetOK, ServerOK
<1>cnt. Counted(s) \in {lc[s].respcount, lc[s].respcount + 2}
  BY DEF Counted
<1>exi. ASSUME NEW status, Exits(s, status) PROVE lc'[s].pc = "over"
  BY <1>exi, <1>typ DEF Exits, LcState
<1>giv. ASSUME GiveUp(s) PROVE lc'[s].respcount = Counted(s)
  BY <1>giv, <1>typ DEF GiveUp, LcState
<1>1. CASE Connect(s)
  <2>1. /\ lc' = [lc EXCEPT ![s].pc = "open", ![s].respcount = 2]
        /\ child' = [child EXCEPT ![s].pc = "cmd"] /\ down' = down /\ down[s] = <<>>
    BY <1>1 DEF Connect, At, net, AInv, SInv, Within
  <2>2. lc'[s].respcount = 2 /\ child'[s].pc = "cmd" /\ down'[s] = <<>>
    BY <2>1, <1>typ DEF LcState, ChildState
  <2>3. (2 + (0 + 1)) % 2 = 1
    OBVIOUS
  <2>4. Len(<<>>) = 0 /\ Turn(2, 0 + 1) = "3"
    BY <2>3 DEF Turn
  <2> QED BY <2>2, <2>4 DEF InStep, InTurn, NextTurn
<1>2. CASE Open(s)
  <2> DEFINE n == IF Zero(s, lc[s].k) THEN 0 ELSE Len(Found(s, lc[s].k))
             pc == IF Zero(s, lc[s].k) THEN "end" ELSE "send"
  <2>1. /\ lc[s].pc = "open" /\ UNCHANGED <<down, child, conn>>
        /\ \/ Exits(s, "2")
           \/ lc' = [lc EXCEPT ![s].pc = pc, ![s].size = n, ![s].sent = <<>>]
    BY <1>2 DEF Open, At
  <2> HIDE DEF n, pc
  <2>2. lc'[s].pc = "over" \/ lc'[s].respcount = lc[s].respcount
    BY <2>1, <1>typ, <1>exi DEF LcState
  <2> QED BY <2>1, <2>2, StepCounted
<1>3. CASE Send(s)
  <2> DEFINE b == Found(s, lc[s].k)[Len(lc[s].sent) + 1]
  <2>1. /\ lc[s].pc = "send" /\ UNCHANGED <<down, child, conn>>
        /\ GiveUp(s) \/ lc' = [lc EXCEPT ![s].sent = Append(@, b)]
    BY <1>3 DEF Send, At
  <2> HIDE DEF b
  <2>2. lc'[s].respcount = Counted(s) \/ lc'[s].respcount = lc[s].respcount
    BY <2>1, <1>typ, <1>giv DEF LcState
  <2> QED BY <2>1, <2>2, <1>cnt, StepCounted
<1>4. CASE Finished(s)
  <2>1. /\ lc[s].pc = "send" /\ UNCHANGED <<down, child, conn>>
        /\ Exits(s, "2") \/ lc' = [lc EXCEPT ![s].pc = "end"]
    BY <1>4 DEF Finished, At, net
  <2>2. lc'[s].pc = "over" \/ lc'[s].respcount = lc[s].respcount
    BY <2>1, <1>typ, <1>exi DEF LcState
  <2> QED BY <2>1, <2>2, StepCounted
<1>5. CASE End(s)
  <2> DEFINE pc == IF lc[s].k < Files(s) THEN "poll" ELSE "drain"
  <2>1. /\ lc[s].pc = "end" /\ UNCHANGED <<down, child, conn>>
        /\ \/ Exits(s, "2") \/ GiveUp(s)
           \/ lc' = [lc EXCEPT ![s].pc = pc, ![s].respcount = Counted(s)]
    BY <1>5 DEF End, At
  <2> HIDE DEF pc
  <2>2. lc'[s].pc = "over" \/ lc'[s].respcount = Counted(s)
    BY <2>1, <1>typ, <1>exi, <1>giv DEF LcState
  <2> QED BY <2>1, <2>2, <1>cnt, StepCounted
<1>6. CASE Answer(s)
  <2>1. CASE Exits(s, "2")
    BY <2>1, <1>exi DEF InStep
  <2>2. CASE ~Exits(s, "2")
    <3>1. /\ down[s] # <<>> /\ lc' = [lc EXCEPT ![s].respcount = @ - 1]
          /\ down' = [down EXCEPT ![s] = Tail(@)] /\ UNCHANGED <<child, conn>>
          /\ lc[s].pc # "over" /\ lc[s].respcount > 0
      BY <1>6, <2>2 DEF Answer, Reading
    <3>2. lc'[s].respcount = lc[s].respcount - 1 /\ down'[s] = Tail(down[s])
      BY <3>1, <1>typ DEF LcState
    <3>3. /\ InTurn(lc[s].respcount, down[s])
          /\ Live(s) /\ conn[s] => NextTurn(lc[s].respcount, down[s], child[s])
      BY <3>1 DEF AInv, InStep
    <3>4. /\ InTurn(lc[s].respcount - 1, Tail(down[s]))
          /\ Live(s) /\ conn[s] => NextTurn(lc[s].respcount - 1, Tail(down[s]), child[s])
      BY <3>1, <3>3, <1>typ, TurnTail
    <3> QED BY <3>1, <3>2, <3>4 DEF InStep, Live
  <2> QED BY <2>1, <2>2
<1>7. CASE NextLine(s)
  <2>1. /\ lc[s].pc = "poll" /\ UNCHANGED <<down, child, conn>>
        /\ lc' = [lc EXCEPT ![s].pc = "open", ![s].k = @ + 1]
    BY <1>7 DEF NextLine, At, net
  <2>2. lc'[s].respcount = lc[s].respcount
    BY <2>1, <1>typ DEF LcState
  <2> QED BY <2>1, <2>2, StepCounted
<1>8. CASE Close(s)
  BY <1>8, <1>exi DEF Close, InStep
<1> QED BY <1>1, <1>2, <1>3, <1>4, <1>5, <1>6, <1>7, <1>8 DEF Lcreate

(* The child answers, or ends with an error                                 *)
LEMMA ChildAnswers ==
  ASSUME AInv, NEW s \in Session, UNCHANGED <<lc, conn>>, Live(s), NEW a \in {"3", "2", "5"},
         Says(s, a),
         (a = "5" /\ child'[s].pc = "gone") \/
           (child[s].pc = "cmd" /\ a = "3" /\ child'[s].pc = "data") \/
           (child[s].pc = "data" /\ a = "2" /\ child'[s].pc = "cmd")
  PROVE  InStep(s)'
<1> SUFFICES ASSUME lc[s].pc # "over" PROVE InStep(s)'
  BY DEF InStep
<1> DEFINE r == lc[s].respcount
           d == down[s]
<1>typ. r \in Nat /\ d \in Seq({"3", "2", "5"}) /\ down \in [Session -> Seq({"3", "2", "5"})]
  BY Parameters DEF AInv, SInv, WInv, TInv, TypeOK, NetOK
<1>1. InTurn(r, d) /\ (conn[s] => NextTurn(r, d, child[s]))
  BY DEF AInv, InStep
<1>2. CASE ~conn[s]
  <2>1. down'[s] = d
    BY <1>2, <1>typ DEF Says
  <2> QED BY <1>1, <1>2, <2>1 DEF InStep
<1>3. CASE conn[s]
  <2>1. down'[s] = Append(d, a)
    BY <1>3, <1>typ DEF Says
  <2>2. child[s].pc \in {"cmd", "data"}
    BY DEF Live
  <2>3. a = "5" \/ (child[s].pc = "cmd" /\ a = "3") \/ (child[s].pc = "data" /\ a = "2")
    OBVIOUS
  <2>4. /\ InTurn(r, Append(d, a))
        /\ child[s].pc = "cmd" /\ child'[s].pc = "data" => NextTurn(r, Append(d, a), child'[s])
        /\ child[s].pc = "data" /\ child'[s].pc = "cmd" => NextTurn(r, Append(d, a), child'[s])
    <3>1. NextTurn(r, d, child[s]) /\ InTurn(r, d)
      BY <1>1, <1>3
    <3> DEFINE e == child[s]
    <3>2. e.pc \in {"cmd", "data"}
      BY <2>2
    <3>3. a = "5" \/ (e.pc = "cmd" /\ a = "3") \/ (e.pc = "data" /\ a = "2")
      BY <2>3
    <3>4. /\ InTurn(r, Append(d, a))
          /\ e.pc = "cmd" => Turn(r, Len(Append(d, a)) + 1) = "2"
          /\ e.pc = "data" => Turn(r, Len(Append(d, a)) + 1) = "3"
      <4> HIDE DEF r, d, e
      <4>1. NextTurn(r, d, e)
        BY <3>1 DEF e
      <4> QED BY <3>1, <4>1, <3>2, <3>3, <1>typ, TurnSays
    <3> QED BY <3>4 DEF NextTurn
  <2>5. Live(s)' => child'[s].pc \in {"cmd", "data"}
    BY DEF Live
  <2> QED BY <2>1, <2>4, <2>5 DEF InStep
<1> QED BY <1>2, <1>3

LEMMA ChildInStep ==
  ASSUME AInv, NEW s \in Session, Child(s)
  PROVE  InStep(s)'
<1>typ. child \in [Session -> ChildState]
  BY DEF AInv, SInv, WInv, TInv, TypeOK, ServerOK
<1>1. UNCHANGED <<lc, conn>> /\ Live(s)
  BY DEF Child, StorCommand, StorBlock, StorEnd, HangUp, In, client, net, Live
<1>2. CASE StorCommand(s)
  <2> DEFINE k == Head(up[s]).arg
             x == IF k = 0 THEN name[s] ELSE child[s].xscript
             c == [pc |-> "data", xscript |-> x, k |-> k, len |-> Head(up[s]).size]
  <2>1. /\ child[s].pc = "cmd"
        /\ \/ Says(s, "3") /\ child' = [child EXCEPT ![s] = c]
           \/ Says(s, "5") /\ child' = [child EXCEPT ![s].pc = "gone", ![s].xscript = x]
    BY <1>2 DEF StorCommand, In, Refused
  <2>2. c.pc = "data"
    OBVIOUS
  <2> HIDE DEF c, x
  <2>3. \/ Says(s, "3") /\ child'[s].pc = "data"
        \/ Says(s, "5") /\ child'[s].pc = "gone"
    BY <2>1, <2>2, <1>typ DEF ChildState
  <2> QED BY <1>1, <2>1, <2>3, ChildAnswers
<1>3. CASE StorBlock(s)
  <2>1. child' = [child EXCEPT ![s].len = @ - 1] /\ down' = down
    BY <1>3 DEF StorBlock
  <2>2. child'[s].pc = child[s].pc
    BY <2>1, <1>typ DEF ChildState
  <2> QED BY <1>1, <2>1, <2>2 DEF AInv, InStep, Live, NextTurn
<1>4. CASE StorEnd(s)
  <2>1. /\ child[s].pc = "data"
        /\ \/ Says(s, "2") /\ child' = [child EXCEPT ![s].pc = "cmd"]
           \/ Says(s, "5") /\ child' = [child EXCEPT ![s].pc = "gone"]
    BY <1>4 DEF StorEnd, In
  <2>2. \/ Says(s, "2") /\ child'[s].pc = "cmd"
        \/ Says(s, "5") /\ child'[s].pc = "gone"
    BY <2>1, <1>typ DEF ChildState
  <2> QED BY <1>1, <2>1, <2>2, ChildAnswers
<1>5. CASE HangUp(s)
  <2>1. child' = [child EXCEPT ![s].pc = "gone"] /\ down' = down
    BY <1>5 DEF HangUp, net
  <2>2. child'[s].pc = "gone"
    BY <2>1, <1>typ DEF ChildState
  <2> QED BY <1>1, <2>1, <2>2 DEF AInv, InStep, Live
<1> QED BY <1>2, <1>3, <1>4, <1>5 DEF Child

(* A connection that is lost takes the last answers with it                 *)
LEMMA AroundInStep ==
  ASSUME AInv, NEW s \in Session, Around(s)
  PROVE  InStep(s)'
<1>typ. /\ child \in [Session -> ChildState] /\ lc \in [Session -> LcState]
        /\ down \in [Session -> Seq({"3", "2", "5"})] /\ conn \in [Session -> BOOLEAN]
  BY DEF AInv, SInv, WInv, TInv, TypeOK, ClientOK, NetOK, ServerOK
<1>1. CASE Lose(s)
  <2>1. PICK n \in 0..Len(down[s]) : down' = [down EXCEPT ![s] = SubSeq(@, 1, n)]
    BY <1>1 DEF Lose
  <2>2. lc' = lc /\ conn' = [conn EXCEPT ![s] = FALSE]
    BY <1>1 DEF Lose, client
  <2> DEFINE d == down[s]
  <2>3. d \in Seq({"3", "2", "5"}) /\ n \in 0..Len(d) /\ down'[s] = SubSeq(d, 1, n)
    BY <2>1, <1>typ
  <2>4. \A i \in 1..Len(SubSeq(d, 1, n)) : i \in 1..Len(d) /\ SubSeq(d, 1, n)[i] = d[i]
    <3> HIDE DEF d
    <3> QED BY <2>3
  <2>5. InTurn(lc[s].respcount, d) => InTurn(lc[s].respcount, down'[s])
    BY <2>3, <2>4 DEF InTurn
  <2>6. ~conn'[s]
    BY <2>2, <1>typ
  <2> QED BY <2>2, <2>5, <2>6 DEF AInv, InStep
<1>2. CASE Kill(s)
  <2>1. lc' = [lc EXCEPT ![s].pc = "over"]
    BY <1>2 DEF Kill, Exits
  <2> QED BY <2>1, <1>typ DEF InStep, LcState
<1>3. CASE Fault(s)
  <2>1. /\ UNCHANGED <<lc, conn>> /\ Live(s) /\ child' = [child EXCEPT ![s].pc = "gone"]
        /\ Says(s, "5") \/ UNCHANGED down
    BY <1>3 DEF Fault, client, Live
  <2>2. child'[s].pc = "gone"
    BY <2>1, <1>typ DEF ChildState
  <2>3. CASE Says(s, "5")
    BY <2>1, <2>2, <2>3, ChildAnswers
  <2>4. CASE UNCHANGED down
    BY <2>1, <2>2, <2>4 DEF AInv, InStep, Live
  <2> QED BY <2>1, <2>3, <2>4
<1>4. CASE Modify(s)
  <2>1. UNCHANGED <<lc, down, conn, child>>
    BY <1>4 DEF Modify, client, net
  <2> QED BY <2>1 DEF AInv, InStep, Live
<1> QED BY <1>1, <1>2, <1>3, <1>4 DEF Around

LEMMA StepAnswers ==
  ASSUME AInv, [Next]_vars
  PROVE  AInv'
<1>1. SInv'
  BY StepStored DEF AInv
<1>2. ASSUME UNCHANGED <<lc, down, conn, child>> PROVE AInv'
  BY <1>1, <1>2 DEF AInv, InStep, Live
<1>3. CASE \E s \in Session : Lcreate(s) \/ Child(s) \/ Around(s)
  <2>1. PICK s \in Session : Lcreate(s) \/ Child(s) \/ Around(s)
    BY <1>3
  <2>2. InStep(s)'
    BY <2>1, LcreateInStep, ChildInStep, AroundInStep
  <2>3. \A t \in Session \ {s} : InStep(t)'
    BY <2>1, LcreateApart, ChildApart, AroundApart DEF AInv, InStep, Live
  <2> QED BY <1>1, <2>2, <2>3 DEF AInv
<1>4. \/ UNCHANGED <<lc, down, conn, child>>
      \/ \E s \in Session : Lcreate(s) \/ Child(s) \/ Around(s)
  <2>1. CASE UNCHANGED vars
    BY <2>1 DEF vars, client, net
  <2>2. CASE \E n \in Transcript : Clean(n)
    BY <2>2 DEF Clean, client, net
  <2> QED BY <2>1, <2>2 DEF Next, Idle, Around
<1> QED BY <1>2, <1>3, <1>4

(* No answer has been given, and there is no child to give one              *)
THEOREM InitAnswers == Init => AInv
<1> SUFFICES ASSUME Init PROVE AInv
  OBVIOUS
<1>1. SInv
  BY InitStored
<1>2. \A s \in Session : down[s] = <<>> /\ child[s].pc = "none"
  <2>1. /\ down = [s \in Session |-> <<>>]
        /\ child = [s \in Session |-> [pc |-> "none", xscript |-> Nobody, k |-> 0, len |-> 0]]
    BY DEF Init
  <2> QED BY <2>1
<1>3. ASSUME NEW s \in Session
      PROVE  InStep(s)
  <2>1. down[s] = <<>> /\ ~Live(s)
    BY <1>2 DEF Live
  <2>2. \A i \in 1..Len(down[s]) : FALSE
    BY <2>1
  <2> QED BY <2>1, <2>2 DEF InStep, InTurn
<1> QED BY <1>1, <1>3 DEF AInv

(* An answer that comes is the one that is due, or an error                 *)
LEMMA FirstAnswer ==
  ASSUME AInv, NEW s \in Session, lc[s].pc # "over", down[s] # <<>>
  PROVE  Head(down[s]) \in {Due(s), "5"}
<1> DEFINE d == down[s]
<1>1. d \in Seq({"3", "2", "5"}) /\ d # <<>> /\ lc[s].respcount \in Nat
  BY Parameters DEF AInv
<1>2. 1 \in 1..Len(d) /\ Head(d) = d[1]
  <2> HIDE DEF d
  <2> QED BY <1>1
<1>3. Head(d) \in {Turn(lc[s].respcount, 1), "5"}
  BY <1>2 DEF AInv, InStep, InTurn
<1> QED BY <1>1, <1>3, DueIsTurn

(* Whatever is lost, fails or is killed, lcreate takes no answer for that to*)
(* another file or to the other half of a STOR: the next to be read is the  *)
(* one that respcount says is due, or an error                              *)
THEOREM AnswersInStep == Spec => []AnswersMatch
<1>1. AInv /\ [Next]_vars => AInv'
  BY StepAnswers
<1>2. AInv => AnswersMatch
  BY FirstAnswer DEF AnswersMatch, Reading
<1> QED BY <1>1, <1>2, InitAnswers, PTL DEF Spec
-----------------------------------------------------------------------------
(* An upload that nothing disturbs: no call has failed, nobody else has     *)
(* come to its name, and its files are as they are listed                   *)
Undisturbed(s) ==
  /\ faults = 0
  /\ \A t \in Session \ {s} : name[t] # name[s] \/ lc[t].pc = "idle"
  /\ \A k \in 1..Files(s) : disk[s][k] = lines[s][k]

(* The first file that the child has not opened yet                         *)
First(ch) == Coming(ch) + (IF ch.pc = "data" THEN 1 ELSE 0)

(* Where it stands: before the start nothing is there, while it goes on     *)
(* nothing is there that it has not sent, no answer is an error, and what   *)
(* is sent of the file at hand is the beginning of it; and its end is good  *)
Clear(s) ==
  /\ conn[s]
  /\ lc[s].pc = "idle" => name[s] \notin dir
  /\ lc[s].pc = "idle" \/ Going(s) \/ (lc[s].pc = "over" /\ exit[s] = "0")
  /\ lc[s].pc # "over" => exit[s] = "run"
  /\ Going(s) =>
       /\ First(child[s]) = 0 => name[s] \notin dir
       /\ \A k \in 0..NFile : k >= First(child[s]) => stored[name[s]][k].by = Nobody
       /\ \A i \in 1..Len(down[s]) : down[s][i] # "5"

Beginning(l, found) ==
  /\ l.size = Len(found) /\ Len(l.sent) <= Len(found)
  /\ \A j \in 1..Len(l.sent) : l.sent[j] = found[j]

AsFound(s) ==
  lc[s].pc \in {"send", "end"} /\ ~Zero(s, lc[s].k) => Beginning(lc[s], Found(s, lc[s].k))

Smooth(s) == Undisturbed(s) => Clear(s) /\ AsFound(s)

FInv == AInv /\ faults \in Nat /\ \A s \in Session : Smooth(s)

(* What the files are said to contain is what is in them                    *)
LEMMA AsListed ==
  ASSUME SInv, NEW s \in Session, Undisturbed(s)
  PROVE  /\ Found(s, lc[s].k) = ListedAs(s, lc[s].k)
         /\ Found(s, lc[s].k) \in Seq(Block) /\ lc[s].k \in Nat
<1>1. lc[s].k \in Nat /\ lc[s].k <= Files(s) /\ Files(s) \in Nat
  BY Parameters DEF SInv, Within
<1>2. CASE lc[s].k = 0
  BY <1>2, FoundBlocks DEF SInv, WInv, Found, ListedAs
<1>3. CASE lc[s].k # 0
  <2>1. lc[s].k \in 1..Files(s)
    BY <1>1, <1>3
  <2> QED BY <2>1, <1>1, <1>3, FoundBlocks DEF SInv, WInv, Found, ListedAs, Undisturbed
<1> QED BY <1>2, <1>3

LEMMA Started ==
  ASSUME SInv, NEW s \in Session, Lcreate(s)
  PROVE  lc'[s].pc # "idle"
<1>typ. lc \in [Session -> LcState]
  BY DEF SInv, WInv, TInv, TypeOK, ClientOK
<1>exi. ASSUME NEW status, Exits(s, status) PROVE lc'[s].pc # "idle"
  BY <1>exi, <1>typ DEF Exits, LcState
<1>giv. ASSUME GiveUp(s) PROVE lc'[s].pc # "idle"
  BY <1>giv, <1>typ DEF GiveUp, LcState
<1>1. CASE Connect(s)
  BY <1>1, <1>typ DEF Connect, LcState
<1>2. CASE Open(s)
  <2> DEFINE n == IF Zero(s, lc[s].k) THEN 0 ELSE Len(Found(s, lc[s].k))
             pc == IF Zero(s, lc[s].k) THEN "end" ELSE "send"
  <2>1. \/ Exits(s, "2")
        \/ lc' = [lc EXCEPT ![s].pc = pc, ![s].size = n, ![s].sent = <<>>]
    BY <1>2 DEF Open
  <2>2. pc # "idle"
    OBVIOUS
  <2> HIDE DEF n, pc
  <2> QED BY <2>1, <2>2, <1>exi, <1>typ DEF LcState
<1>3. CASE Send(s)
  <2> DEFINE b == Found(s, lc[s].k)[Len(lc[s].sent) + 1]
  <2>1. lc[s].pc = "send" /\ (GiveUp(s) \/ lc' = [lc EXCEPT ![s].sent = Append(@, b)])
    BY <1>3 DEF Send, At
  <2> HIDE DEF b
  <2> QED BY <2>1, <1>giv, <1>typ DEF LcState
<1>4. CASE Finished(s)
  BY <1>4, <1>exi, <1>typ DEF Finished, LcState
<1>5. CASE End(s)
  <2> DEFINE pc == IF lc[s].k < Files(s) THEN "poll" ELSE "drain"
  <2>1. \/ Exits(s, "2") \/ GiveUp(s)
        \/ lc' = [lc EXCEPT ![s].pc = pc, ![s].respcount = Counted(s)]
    BY <1>5 DEF End
  <2>2. pc # "idle"
    OBVIOUS
  <2> HIDE DEF pc
  <2> QED BY <2>1, <2>2, <1>exi, <1>giv, <1>typ DEF LcState
<1>6. CASE Answer(s)
  BY <1>6, <1>exi, <1>typ DEF Answer, Reading, LcState
<1>7. CASE NextLine(s)
  BY <1>7, <1>typ DEF NextLine, LcState
<1>8. CASE Close(s)
  BY <1>8, <1>exi DEF Close
<1> QED BY <1>1, <1>2, <1>3, <1>4, <1>5, <1>6, <1>7, <1>8 DEF Lcreate

(* lcreate goes on, and the child has done nothing                          *)
LEMMA ClearGoes ==
  ASSUME SInv, NEW s \in Session, Clear(s), Going(s),
         UNCHANGED <<fixed, child, stored, dir, conn>>, exit'[s] = exit[s],
         lc'[s].pc \in {"open", "send", "end", "poll", "drain"},
         \A i \in 1..Len(down'[s]) : down'[s][i] # "5"
  PROVE  Clear(s)'
<1>1. name' = name /\ Going(s)'
  BY DEF fixed, Going, Live
<1> QED BY <1>1 DEF Clear, Going

LEMMA ClearConnect ==
  ASSUME SInv, NEW s \in Session, Clear(s), Connect(s)
  PROVE  Clear(s)' /\ AsFound(s)'
<1>1. /\ lc[s].pc = "idle" /\ UNCHANGED <<fixed, exit, up, down, conn, dir, stored>>
      /\ lc' = [lc EXCEPT ![s].pc = "open", ![s].respcount = 2]
      /\ child' = [child EXCEPT ![s].pc = "cmd"]
  BY DEF Connect, At, net, tmp
<1>typ. lc \in [Session -> LcState] /\ child \in [Session -> ChildState] /\ name[s] \in Transcript
  BY DEF SInv, WInv, TInv, TypeOK, FixedOK, ClientOK, ServerOK
<1>2. lc'[s].pc = "open" /\ child'[s].pc = "cmd"
  BY <1>1, <1>typ DEF LcState, ChildState
<1>3. Going(s)' /\ exit[s] = "run" /\ conn[s] /\ name[s] \notin dir
  BY <1>1, <1>2 DEF Going, Live, Clear
<1>4. \A k \in 0..NFile : stored[name[s]][k].by = Nobody
  BY <1>3, <1>typ DEF SInv, WInv, EmptyOutside
<1>5. \A i \in 1..Len(down[s]) : down[s][i] # "5"
  BY <1>1 DEF SInv, Within
<1>6. name' = name
  BY <1>1 DEF fixed
<1>7. Clear(s)'
  BY <1>1, <1>2, <1>3, <1>4, <1>5, <1>6 DEF Clear
<1>8. AsFound(s)'
  BY <1>2 DEF AsFound
<1> QED BY <1>7, <1>8

LEMMA ClearOpen ==
  ASSUME SInv, NEW s \in Session, Undisturbed(s), Clear(s), Open(s)
  PROVE  Clear(s)' /\ AsFound(s)'
<1> DEFINE k == lc[s].k
           n == IF Zero(s, k) THEN 0 ELSE Len(Found(s, k))
           pc == IF Zero(s, k) THEN "end" ELSE "send"
<1>typ. lc \in [Session -> LcState]
  BY DEF SInv, WInv, TInv, TypeOK, ClientOK
<1>fix. lc[s].pc = "open" /\ UNCHANGED <<fixed, disk, child, stored, dir, conn, down>>
  BY DEF Open, At, tmp
<1>1. Going(s) /\ ~Broken(s)
  BY <1>fix DEF Clear, Going, Live, Broken
<1>2. Zero(s, k) \/ n = Len(ListedAs(s, k))
  BY AsListed
<1>3. /\ lc' = [lc EXCEPT ![s].pc = pc, ![s].size = n, ![s].sent = <<>>]
      /\ UNCHANGED exit
  BY <1>1, <1>2 DEF Open
<1>4. pc \in {"send", "end"} /\ (~Zero(s, k) => n = Len(Found(s, k)))
  OBVIOUS
<1>5. lc'[s].pc = pc /\ lc'[s].k = k /\ lc'[s].size = n /\ lc'[s].sent = <<>>
  <2> HIDE DEF n, pc
  <2> QED BY <1>3, <1>typ DEF LcState
<1>6. Clear(s)'
  <2> HIDE DEF n, pc
  <2> QED BY <1>fix, <1>1, <1>3, <1>4, <1>5, ClearGoes DEF Clear
<1>7. AsFound(s)'
  <2>1. opt' = opt /\ Found(s, k) \in Seq(Block)
    BY <1>fix, AsListed DEF fixed
  <2>3. ~Zero(s, k) => Beginning(lc'[s], Found(s, k))
    <3>1. Len(<<>>) = 0 /\ 0 <= Len(Found(s, k)) /\ \A j \in 1..Len(<<>>) : FALSE
      BY <2>1
    <3> HIDE DEF n, pc, k
    <3> QED BY <3>1, <1>4, <1>5 DEF Beginning
  <2>4. Zero(s, lc[s].k)' = Zero(s, k) /\ Found(s, lc[s].k)' = Found(s, k)
    <3> HIDE DEF n, pc
    <3> QED BY <1>fix, <2>1, <1>5 DEF Zero, Found
  <2> QED BY <2>3, <2>4 DEF AsFound
<1> QED BY <1>6, <1>7

LEMMA ClearSend ==
  ASSUME SInv, NEW s \in Session, Undisturbed(s), Clear(s), AsFound(s), Send(s)
  PROVE  Clear(s)' /\ AsFound(s)'
<1> DEFINE k == lc[s].k
           f == Found(s, k)
           sent == lc[s].sent
           b == f[Len(sent) + 1]
<1>typ. lc \in [Session -> LcState]
  BY DEF SInv, WInv, TInv, TypeOK, ClientOK
<1>fix. /\ lc[s].pc = "send" /\ Len(sent) < Len(f)
        /\ UNCHANGED <<fixed, disk, child, stored, dir, conn, down, exit>>
  BY DEF Send, At, tmp
<1>1. Going(s) /\ ~Broken(s)
  BY <1>fix DEF Clear, Going, Live, Broken
<1>2. lc' = [lc EXCEPT ![s].sent = Append(@, b)]
  BY <1>1 DEF Send
<1>3. lc'[s].pc = "send" /\ lc'[s].k = k /\ lc'[s].size = lc[s].size /\ lc'[s].sent = Append(sent, b)
  <2> HIDE DEF b
  <2> QED BY <1>2, <1>fix, <1>typ DEF LcState
<1>4. Clear(s)'
  <2> HIDE DEF b
  <2> QED BY <1>fix, <1>1, <1>3, ClearGoes DEF Clear
<1>5. ~Zero(s, k) /\ sent \in Seq(Block) /\ f \in Seq(Block)
  BY <1>fix, AsListed, Parameters DEF SInv, Sent
<1>6. lc[s].size = Len(f) /\ Len(sent) <= Len(f) /\ \A j \in 1..Len(sent) : sent[j] = f[j]
  BY <1>fix, <1>5 DEF AsFound, Beginning
<1>7. /\ Len(Append(sent, b)) <= Len(f)
      /\ \A j \in 1..Len(Append(sent, b)) : Append(sent, b)[j] = f[j]
  <2> DEFINE n == Len(sent)
             e == Append(sent, b)
  <2>1. n \in Nat /\ Len(f) \in Nat /\ n < Len(f)
    BY <1>fix, <1>5
  <2>2. Len(e) = n + 1 /\ e[n + 1] = b /\ \A j \in 1..n : e[j] = sent[j]
    <3> HIDE DEF sent, b
    <3> QED BY <1>5
  <2>3. Len(e) <= Len(f)
    BY <2>1, <2>2
  <2>4. ASSUME NEW j \in 1..Len(e) PROVE e[j] = f[j]
    <3>1. CASE j = n + 1
      BY <3>1, <2>2
    <3>2. CASE j # n + 1
      <4>1. j \in 1..n
        BY <3>2, <2>1, <2>2
      <4> QED BY <4>1, <2>2, <1>6
    <3> QED BY <3>1, <3>2
  <2> HIDE DEF e
  <2>5. Len(e) <= Len(f) /\ \A j \in 1..Len(e) : e[j] = f[j]
    BY <2>3, <2>4
  <2> QED BY <2>5 DEF e
<1>8. Beginning(lc'[s], f)
  <2> HIDE DEF sent, f, b
  <2> QED BY <1>3, <1>6, <1>7 DEF Beginning
<1>9. Found(s, lc[s].k)' = f
  BY <1>fix, <1>3 DEF Found
<1> QED BY <1>4, <1>8, <1>9 DEF AsFound

LEMMA ClearFinished ==
  ASSUME SInv, NEW s \in Session, Undisturbed(s), Clear(s), AsFound(s), Finished(s)
  PROVE  Clear(s)' /\ AsFound(s)'
<1>typ. lc \in [Session -> LcState] /\ lc[s].sent \in Seq(Block)
  BY Parameters DEF SInv, WInv, TInv, TypeOK, ClientOK
<1>fix. /\ lc[s].pc = "send" /\ Len(lc[s].sent) >= Len(Found(s, lc[s].k))
        /\ UNCHANGED <<fixed, disk, child, stored, dir, conn, down>>
  BY DEF Finished, At, net, tmp
<1>1. Going(s)
  BY <1>fix DEF Clear
<1>2. ~Zero(s, lc[s].k) /\ Found(s, lc[s].k) \in Seq(Block)
  BY <1>fix, AsListed DEF SInv, Sent
<1>3. Beginning(lc[s], Found(s, lc[s].k))
  BY <1>fix, <1>2 DEF AsFound
<1>4. Len(lc[s].sent) = lc[s].size
  BY <1>fix, <1>2, <1>3, <1>typ DEF Beginning
<1>5. lc' = [lc EXCEPT ![s].pc = "end"] /\ exit' = exit
  BY <1>4 DEF Finished
<1>6. /\ lc'[s].pc = "end" /\ lc'[s].k = lc[s].k /\ lc'[s].size = lc[s].size
      /\ lc'[s].sent = lc[s].sent
  BY <1>5, <1>typ DEF LcState
<1>7. Clear(s)'
  BY <1>fix, <1>1, <1>5, <1>6, ClearGoes DEF Clear
<1>8. Found(s, lc[s].k)' = Found(s, lc[s].k)
  BY <1>fix, <1>6 DEF Found
<1>9. Beginning(lc'[s], Found(s, lc[s].k))
  BY <1>3, <1>6 DEF Beginning
<1> QED BY <1>7, <1>8, <1>9 DEF AsFound

LEMMA ClearEnd ==
  ASSUME SInv, NEW s \in Session, Undisturbed(s), Clear(s), AsFound(s), End(s)
  PROVE  Clear(s)' /\ AsFound(s)'
<1> DEFINE pc == IF lc[s].k < Files(s) THEN "poll" ELSE "drain"
<1>typ. lc \in [Session -> LcState] /\ lc[s].sent \in Seq(Block)
  BY Parameters DEF SInv, WInv, TInv, TypeOK, ClientOK
<1>fix. lc[s].pc = "end" /\ UNCHANGED <<fixed, disk, child, stored, dir, conn, down>>
  BY DEF End, At, tmp
<1>1. Going(s) /\ ~Broken(s)
  BY <1>fix DEF Clear, Going, Live, Broken
<1>2. ~Zero(s, lc[s].k) => lc[s].sent = ListedAs(s, lc[s].k)
  <2> SUFFICES ASSUME ~Zero(s, lc[s].k) PROVE lc[s].sent = ListedAs(s, lc[s].k)
    OBVIOUS
  <2> DEFINE f == Found(s, lc[s].k)
             sent == lc[s].sent
  <2>1. f \in Seq(Block) /\ f = ListedAs(s, lc[s].k) /\ sent \in Seq(Block)
    BY AsListed, <1>typ
  <2>2. Len(sent) = Len(f) /\ \A j \in 1..Len(sent) : sent[j] = f[j]
    BY <1>fix DEF AsFound, Beginning, SInv, Sent
  <2>3. sent = f
    <3> HIDE DEF sent, f
    <3> QED BY <2>1, <2>2
  <2> QED BY <2>1, <2>3
<1>3. /\ lc' = [lc EXCEPT ![s].pc = pc, ![s].respcount = Counted(s)]
      /\ UNCHANGED exit
  BY <1>1, <1>2 DEF End
<1>4. pc \in {"poll", "drain"}
  OBVIOUS
<1>5. lc'[s].pc = pc
  <2> HIDE DEF pc
  <2> QED BY <1>3, <1>typ DEF LcState
<1> HIDE DEF pc
<1>6. Clear(s)'
  BY <1>fix, <1>1, <1>3, <1>4, <1>5, ClearGoes DEF Clear
<1> QED BY <1>4, <1>5, <1>6 DEF AsFound

LEMMA ClearAnswer ==
  ASSUME AInv, NEW s \in Session, Undisturbed(s), Clear(s), Answer(s)
  PROVE  Clear(s)' /\ AsFound(s)'
<1>typ. /\ lc \in [Session -> LcState] /\ down \in [Session -> Seq({"3", "2", "5"})]
        /\ down[s] \in Seq({"3", "2", "5"}) /\ SInv
  BY Parameters DEF AInv, SInv, WInv, TInv, TypeOK, ClientOK, NetOK
<1>fix. /\ lc[s].pc \in {"poll", "drain", "giveup"} /\ (down[s] # <<>> \/ Broken(s))
        /\ UNCHANGED <<fixed, disk, child, stored, dir, conn>>
  BY DEF Answer, Reading, tmp
<1>1. Going(s) /\ ~Broken(s) /\ down[s] # <<>>
  BY <1>fix DEF Clear, Going, Live, Broken
<1>2. \A i \in 1..Len(down[s]) : down[s][i] # "5"
  BY <1>1 DEF Clear
<1>3. Head(down[s]) \in {Due(s), "5"}
  BY <1>fix, <1>1, FirstAnswer
<1>4. Head(down[s]) # "5" /\ \A i \in 1..Len(Tail(down[s])) : Tail(down[s])[i] # "5"
  <2> DEFINE d == down[s]
  <2>1. d \in Seq({"3", "2", "5"}) /\ d # <<>> /\ \A i \in 1..Len(d) : d[i] # "5"
    BY <1>typ, <1>1, <1>2
  <2>2. Head(d) = d[1] /\ 1 \in 1..Len(d)
    <3> HIDE DEF d
    <3> QED BY <2>1
  <2>3. \A i \in 1..Len(Tail(d)) : Tail(d)[i] = d[i + 1] /\ i + 1 \in 1..Len(d)
    <3> HIDE DEF d
    <3> QED BY <2>1
  <2> QED BY <2>1, <2>2, <2>3
<1>5. /\ lc' = [lc EXCEPT ![s].respcount = @ - 1] /\ exit' = exit
      /\ down' = [down EXCEPT ![s] = Tail(@)]
  BY <1>1, <1>3, <1>4 DEF Answer
<1>6. lc'[s].pc = lc[s].pc /\ down'[s] = Tail(down[s])
  BY <1>5, <1>typ DEF LcState
<1>7. lc[s].pc \in {"poll", "drain"}
  BY <1>fix, <1>1 DEF Going
<1>8. Clear(s)'
  BY <1>fix, <1>typ, <1>1, <1>4, <1>5, <1>6, <1>7, ClearGoes
<1> QED BY <1>6, <1>7, <1>8 DEF AsFound

LEMMA ClearNextLine ==
  ASSUME SInv, NEW s \in Session, Clear(s), NextLine(s)
  PROVE  Clear(s)' /\ AsFound(s)'
<1>typ. lc \in [Session -> LcState]
  BY DEF SInv, WInv, TInv, TypeOK, ClientOK
<1>1. /\ lc[s].pc = "poll" /\ UNCHANGED <<fixed, child, stored, dir, conn, down, exit>>
      /\ lc' = [lc EXCEPT ![s].pc = "open", ![s].k = @ + 1]
  BY DEF NextLine, At, net, tmp
<1>2. lc'[s].pc = "open"
  BY <1>1, <1>typ DEF LcState
<1>3. Going(s)
  BY <1>1 DEF Clear
<1>4. Clear(s)'
  BY <1>1, <1>2, <1>3, ClearGoes DEF Clear
<1> QED BY <1>2, <1>4 DEF AsFound

LEMMA ClearClose ==
  ASSUME SInv, NEW s \in Session, Clear(s), Close(s)
  PROVE  Clear(s)' /\ AsFound(s)'
<1>typ. lc \in [Session -> LcState] /\ exit \in [Session -> {"run", "0", "2", "killed"}]
  BY DEF SInv, WInv, TInv, TypeOK, ClientOK
<1>1. lc[s].pc \in {"drain", "giveup"} /\ UNCHANGED conn
  BY DEF Close, net
<1>2. Going(s) /\ ~Broken(s) /\ lc[s].pc = "drain"
  BY <1>1 DEF Clear, Going, Live, Broken
<1>3. Exits(s, "0")
  BY <1>2 DEF Close, At
<1>4. lc'[s].pc = "over" /\ exit'[s] = "0"
  BY <1>3, <1>typ DEF Exits, LcState
<1> QED BY <1>1, <1>4 DEF Clear, AsFound, Going

(* No answer but an error ends the upload, and the child has none to give   *)
LEMMA ClearSays ==
  ASSUME SInv, NEW s \in Session, NEW a \in {"3", "2"}, Says(s, a),
         \A i \in 1..Len(down[s]) : down[s][i] # "5"
  PROVE  \A i \in 1..Len(down'[s]) : down'[s][i] # "5"
<1> DEFINE d == down[s]
<1>1. down \in [Session -> Seq({"3", "2", "5"})] /\ d \in Seq({"3", "2", "5"})
  BY Parameters DEF SInv, WInv, TInv, TypeOK, NetOK
<1>2. down'[s] = d \/ down'[s] = Append(d, a)
  BY <1>1 DEF Says
<1>3. \A i \in 1..Len(Append(d, a)) :
        Append(d, a)[i] = a \/ (i \in 1..Len(d) /\ Append(d, a)[i] = d[i])
  <2> HIDE DEF d
  <2> QED BY <1>1
<1> QED BY <1>2, <1>3

LEMMA ClearStor ==
  ASSUME SInv, NEW s \in Session, Clear(s), Going(s), StorCommand(s)
  PROVE  Clear(s)'
<1> DEFINE p == up[s][1]
           k == p.arg
           n == name[s]
           x == IF k = 0 THEN n ELSE child[s].xscript
           c == [pc |-> "data", xscript |-> x, k |-> k, len |-> p.size]
           f == [by |-> s, blocks |-> <<>>]
<1>fix. /\ UNCHANGED <<fixed, lc, exit, conn>> /\ child[s].pc = "cmd" /\ up[s] # <<>> /\ Takes(s)
  BY DEF StorCommand, In, client
<1>typ. /\ child \in [Session -> ChildState] /\ stored \in [Transcript -> [0..NFile -> TmpFile]]
        /\ n \in Transcript /\ n # Nobody /\ Coming(child[s]) \in Nat
  BY Parameters, UploadAssumption DEF SInv, WInv, TInv, TypeOK, FixedOK, ServerOK
<1>hd. Head(up[s]) = p /\ p \in Part
  BY <1>fix, FirstPart
<1>1. p.op = "stor" /\ k = Coming(child[s]) /\ k \in Nat
  BY <1>fix, <1>typ DEF SInv, InOrder, Tidy, Ready
<1>2. k \in 0..NFile
  BY <1>1, <1>hd, <1>fix, Taking DEF SInv, WInv
<1>3. First(child[s]) = k
  BY <1>1, <1>fix, <1>typ DEF First
<1>4. IF k = 0 THEN n \notin dir ELSE child[s].xscript = n
  <2>1. CASE k = 0
    BY <2>1, <1>3 DEF Clear
  <2>2. CASE k # 0
    <3>1. child[s].xscript # Nobody
      BY <2>2, <1>1 DEF Coming
    <3>2. Holds(s)
      BY <3>1 DEF Going, Holds
    <3> QED BY <2>2, <3>2 DEF SInv, WInv, HolderWrites
  <2> QED BY <2>1, <2>2
<1>5. stored[n][k].by = Nobody
  BY <1>1, <1>2, <1>3 DEF Clear
<1>6. Accepted(s, k)
  BY <1>4, <1>5 DEF Accepted
<1>7. /\ child' = [child EXCEPT ![s] = c] /\ Says(s, "3")
      /\ stored' = [stored EXCEPT ![n][k] = f]
  BY <1>1, <1>6, <1>hd DEF StorCommand
<1>8. c.pc = "data" /\ c.xscript = n /\ c.k = k
  BY <1>4
<1>9. First(child'[s]) = k + 1 /\ child'[s].pc = "data"
  <2>1. child'[s] = c
    BY <1>7, <1>typ
  <2>2. Coming(c) = k
    BY <1>8, <1>typ DEF Coming
  <2> HIDE DEF c, k
  <2> QED BY <2>1, <2>2, <1>8 DEF First
<1>10. \A j \in 0..NFile : j # k => stored'[n][j] = stored[n][j]
  <2> HIDE DEF k, n, f
  <2> QED BY <1>7, <1>typ
<1>11. \A i \in 1..Len(down'[s]) : down'[s][i] # "5"
  BY <1>7, ClearSays DEF Clear
<1>12. name' = name
  BY <1>fix DEF fixed
<1>13. \A j \in 0..NFile : j >= k + 1 => stored'[n][j].by = Nobody
  <2> SUFFICES ASSUME NEW j \in 0..NFile, j >= k + 1 PROVE stored'[n][j].by = Nobody
    OBVIOUS
  <2>1. j # k /\ j >= k
    BY <1>1
  <2>2. stored[n][j].by = Nobody
    BY <2>1, <1>3 DEF Clear
  <2>3. stored'[n][j] = stored[n][j]
    BY <2>1, <1>10
  <2> QED BY <2>2, <2>3
<1>14. First(child'[s]) # 0
  BY <1>1, <1>9
<1>15. Going(s)' /\ lc[s].pc \notin {"idle", "over"}
  BY <1>fix, <1>9 DEF Going, Live
<1> HIDE DEF p, k, n, x, c, f
<1> QED BY <1>fix, <1>9, <1>11, <1>12, <1>13, <1>14, <1>15 DEF Clear, n

LEMMA ClearBlock ==
  ASSUME SInv, NEW s \in Session, Clear(s), Going(s), StorBlock(s)
  PROVE  Clear(s)'
<1> DEFINE k == child[s].k
           n == name[s]
           b == Append(stored[n][k].blocks, Head(up[s]).arg)
<1>fix. /\ UNCHANGED <<fixed, lc, exit, conn, down, dir>> /\ child[s].pc = "data"
  BY DEF StorBlock, In, client
<1>typ. /\ child \in [Session -> ChildState] /\ stored \in [Transcript -> [0..NFile -> TmpFile]]
        /\ n \in Transcript /\ k \in 0..NFile
  BY DEF SInv, WInv, TInv, TypeOK, FixedOK, ServerOK, ChildState
<1>1. /\ child' = [child EXCEPT ![s].len = @ - 1]
      /\ stored' = [stored EXCEPT ![n][k].blocks = Append(@, Head(up[s]).arg)]
  BY DEF StorBlock
<1>2. child'[s].pc = "data" /\ child'[s].xscript = child[s].xscript /\ child'[s].k = k
  BY <1>1, <1>fix, <1>typ DEF ChildState
<1>3. First(child'[s]) = First(child[s])
  BY <1>2, <1>fix DEF First, Coming
<1>4. \A j \in 0..NFile : stored'[n][j].by = stored[n][j].by
  BY <1>1, <1>typ DEF TmpFile
<1>5. Going(s)' /\ name' = name
  BY <1>fix, <1>2 DEF Going, Live, fixed
<1> HIDE DEF k, b
<1> QED BY <1>fix, <1>3, <1>4, <1>5 DEF Clear

(* All that was announced has come, so "." is next                          *)
LEMMA DotIsNext ==
  ASSUME SInv, NEW s \in Session, Undisturbed(s), Going(s), AsFound(s), StorEnd(s)
  PROVE  Head(up[s]).op = "end"
<1> DEFINE q == up[s]
           l == lc[s]
           k == child[s].k
           b == stored[name[s]][k].blocks
<1>1. child[s].pc = "data" /\ up[s] # <<>> /\ ~(child[s].len > 0) /\ Takes(s)
  BY DEF StorEnd, In, WantsBlock
<1>2. child[s].len = 0
  BY <1>1, Parameters DEF ChildState
<1>3. Head(q) = q[1] /\ q \in Seq(Part) /\ q # <<>> /\ Len(q) \in Nat \ {0}
  <2>1. Head(q) = q[1] /\ q \in Seq(Part) /\ q # <<>>
    BY <1>1, FirstPart, Parameters
  <2> HIDE DEF q
  <2> QED BY <2>1
<1>4. Rest(opt[s], lines[s], q, l, k, b, 1, 0)
  BY <1>1, <1>2 DEF SInv, InOrder, Tidy, AtHand
<1>5. CASE Whole(opt[s], lines[s], q, l, k, b, 1, 0)
  <2>1. q[1 + 0] = Dot /\ 1 + 0 = 1
    BY <1>5 DEF Whole
  <2> QED BY <2>1, <1>3, PartTypes
<1>6. CASE Begun(q, l, k, b, 1, 0)
  <2>1. l.sent \in Seq(Block) /\ Len(l.sent) \in Nat
    BY Parameters
  <2>2. b \in Seq(Nat) /\ Len(b) \in Nat
    <3>1. child[s] \in ChildState /\ stored[name[s]] \in [0..NFile -> TmpFile]
      BY Parameters
    <3>2. b \in Seq(Nat)
      BY <3>1, BlocksTypes
    <3> HIDE DEF b
    <3> QED BY <3>2
  <2>3. l.size = Len(b) + 0 /\ Len(q) + 1 = 1 + Len(l.sent) - Len(b) /\ l.pc \in {"send", "end"}
    BY <1>6 DEF Begun
  <2>4. Len(l.sent) > l.size
    <3> HIDE DEF q, l, b
    <3> QED BY <1>3, <2>1, <2>2, <2>3
  <2>5. l.pc # "end"
    BY <2>1, <2>4 DEF SInv, Sent
  <2>6. ~Zero(s, l.k)
    BY <2>3, <2>5 DEF SInv, Sent
  <2>7. l.size = Len(Found(s, l.k)) /\ Len(l.sent) <= Len(Found(s, l.k))
    BY <2>3, <2>6 DEF AsFound, Beginning
  <2> QED BY <2>1, <2>4, <2>7
<1> QED BY <1>4, <1>5, <1>6 DEF Rest

LEMMA ClearStored ==
  ASSUME SInv, NEW s \in Session, Undisturbed(s), Clear(s), Going(s), AsFound(s), StorEnd(s)
  PROVE  Clear(s)'
<1>typ. /\ child \in [Session -> ChildState] /\ child[s].k \in Nat
  BY Parameters DEF SInv, WInv, TInv, TypeOK, ServerOK
<1>fix. UNCHANGED <<fixed, lc, exit, conn, dir>> /\ child[s].pc = "data"
  BY DEF StorEnd, In, client
<1>1. child' = [child EXCEPT ![s].pc = "cmd"] /\ Says(s, "2") /\ UNCHANGED stored
  BY DotIsNext DEF StorEnd
<1>2. child'[s].pc = "cmd" /\ child'[s].xscript = child[s].xscript /\ child'[s].k = child[s].k
  BY <1>1, <1>typ DEF ChildState
<1>3. child[s].xscript # Nobody
  BY <1>fix, DataHolds
<1>4. First(child'[s]) = First(child[s])
  <2>1. Coming(child'[s]) = child[s].k + 1 /\ Coming(child[s]) = child[s].k
    BY <1>2, <1>3, <1>fix DEF Coming
  <2> QED BY <2>1, <1>2, <1>fix, <1>typ DEF First
<1>5. \A i \in 1..Len(down'[s]) : down'[s][i] # "5"
  BY <1>1, ClearSays DEF Clear
<1>6. Going(s)' /\ name' = name
  BY <1>fix, <1>2 DEF Going, Live, fixed
<1> QED BY <1>fix, <1>1, <1>4, <1>5, <1>6 DEF Clear

LEMMA ClearChild ==
  ASSUME SInv, NEW s \in Session, Undisturbed(s), Clear(s), AsFound(s), Child(s)
  PROVE  Clear(s)' /\ AsFound(s)'
<1>1. UNCHANGED <<fixed, disk, lc, exit, conn>> /\ Live(s)
  BY DEF Child, StorCommand, StorBlock, StorEnd, HangUp, In, client, net, Live
<1>2. AsFound(s)'
  BY <1>1 DEF AsFound, Zero, Found, fixed
<1>3. lc[s].pc # "idle"
  BY <1>1 DEF SInv, WInv, IdleChild, Live
<1>4. CASE Going(s)
  <2>1. ~HangUp(s)
    <3>1. lc[s].pc # "over" /\ exit[s] = "run" /\ conn[s]
      BY <1>4 DEF Going, Clear
    <3> QED BY <3>1 DEF HangUp
  <2> QED BY <1>2, <1>4, <2>1, ClearStor, ClearBlock, ClearStored DEF Child
<1>5. CASE ~Going(s)
  <2>1. lc[s].pc = "over" /\ exit[s] = "0" /\ conn[s]
    BY <1>3, <1>5 DEF Clear
  <2> QED BY <1>1, <1>2, <2>1 DEF Clear, Going
<1> QED BY <1>4, <1>5

(* What does not touch an upload leaves it clear                            *)
LEMMA ClearAlone ==
  ASSUME NEW s \in Session, UNCHANGED <<fixed, disk>>,
         lc'[s] = lc[s], exit'[s] = exit[s], down'[s] = down[s], conn'[s] = conn[s],
         child'[s] = child[s], stored'[name[s]] = stored[name[s]],
         name[s] \in dir' <=> name[s] \in dir, Clear(s), AsFound(s)
  PROVE  Clear(s)' /\ AsFound(s)'
<1>1. opt' = opt /\ name' = name
  BY DEF fixed
<1>2. Going(s)' = Going(s)
  BY DEF Going, Live
<1>3. Clear(s)'
  BY <1>1, <1>2 DEF Clear
<1>4. AsFound(s)'
  BY <1>1 DEF AsFound, Zero, Found
<1> QED BY <1>3, <1>4

(* What is not disturbed after a step was not disturbed before it           *)
LEMMA WasUndisturbed ==
  ASSUME UNCHANGED <<fixed, disk, faults>>, NEW s \in Session, Undisturbed(s)',
         \A t \in Session : lc'[t].pc = "idle" => lc[t].pc = "idle"
  PROVE  Undisturbed(s)
<1>1. Files(s)' = Files(s) /\ name' = name /\ lines' = lines
  BY FilesKept DEF fixed
<1> QED BY <1>1 DEF Undisturbed

LEMMA UploadSmooth ==
  ASSUME FInv, NEW r \in Session, Lcreate(r) \/ Child(r)
  PROVE  UNCHANGED faults /\ \A s \in Session : Smooth(s)'
<1>1. UNCHANGED <<fixed, disk, faults>>
  BY DEF Lcreate, Connect, Open, Send, Finished, End, Answer, NextLine, Close,
         Child, StorCommand, StorBlock, StorEnd, HangUp
<1>typ. AInv /\ SInv
  BY DEF FInv, AInv
<1>2. lc'[r].pc # "idle"
  <2>1. CASE Lcreate(r)
    BY <1>typ, <2>1, Started
  <2>2. CASE Child(r)
    <3>1. UNCHANGED lc /\ Live(r)
      BY <2>2 DEF Child, StorCommand, StorBlock, StorEnd, HangUp, In, client, Live
    <3> QED BY <3>1, <1>typ DEF SInv, WInv, IdleChild, Live
  <2> QED BY <2>1, <2>2
<1>3. /\ \A t \in Session \ {r} :
           /\ lc'[t] = lc[t] /\ exit'[t] = exit[t] /\ up'[t] = up[t] /\ down'[t] = down[t]
           /\ conn'[t] = conn[t] /\ child'[t] = child[t]
      /\ \A n \in Transcript \ {name[r]} :
           stored'[n] = stored[n] /\ (n \in dir' <=> n \in dir)
  BY <1>typ, LcreateApart, ChildApart
<1>4. \A t \in Session : lc'[t].pc = "idle" => lc[t].pc = "idle"
  BY <1>2, <1>3
<1>5. ASSUME NEW s \in Session, Undisturbed(s)'
      PROVE  Clear(s)' /\ AsFound(s)'
  <2>1. Undisturbed(s)
    BY <1>1, <1>4, <1>5, WasUndisturbed
  <2>2. Clear(s) /\ AsFound(s)
    BY <2>1 DEF FInv, Smooth
  <2>3. CASE s = r
    <3>1. CASE Lcreate(s)
      BY <1>typ, <2>1, <2>2, <3>1, ClearConnect, ClearOpen, ClearSend, ClearFinished, ClearEnd,
         ClearAnswer, ClearNextLine, ClearClose DEF Lcreate
    <3>2. CASE Child(s)
      BY <1>typ, <2>1, <2>2, <3>2, ClearChild
    <3> QED BY <2>3, <3>1, <3>2
  <2>4. CASE s # r
    <3>1. name[r] # name[s]
      <4>1. name'[r] # name'[s]
        BY <1>2, <1>5, <2>4 DEF Undisturbed
      <4> QED BY <4>1, <1>1 DEF fixed
    <3>2. name[s] \in Transcript
      BY <1>typ, Parameters
    <3>3. stored'[name[s]] = stored[name[s]] /\ (name[s] \in dir' <=> name[s] \in dir)
      BY <1>3, <3>1, <3>2
    <3> QED BY <1>1, <1>3, <2>2, <2>4, <3>3, ClearAlone
  <2> QED BY <2>3, <2>4
<1> QED BY <1>1, <1>5 DEF Smooth

(* The administrator removes nothing of an upload that is clear             *)
LEMMA CleanSmooth ==
  ASSUME FInv, NEW n \in Transcript, Clean(n)
  PROVE  UNCHANGED faults /\ \A s \in Session : Smooth(s)'
<1>1. /\ UNCHANGED <<fixed, disk, lc, exit, up, down, conn, child, faults>>
      /\ dir' = dir \ {n} /\ n \in dir
      /\ stored' = [stored EXCEPT ![n] = [k \in 0..NFile |-> None]]
  BY DEF Clean, client, net
<1>typ. SInv /\ stored \in [Transcript -> [0..NFile -> TmpFile]]
  BY DEF FInv, AInv, SInv, WInv, TInv, TypeOK, ServerOK
<1>2. ASSUME NEW s \in Session, Undisturbed(s)'
      PROVE  Clear(s)' /\ AsFound(s)'
  <2>1. Undisturbed(s)
    BY <1>1, <1>2, WasUndisturbed
  <2>2. Clear(s) /\ AsFound(s)
    BY <2>1 DEF FInv, Smooth
  <2>3. name[s] # n
    BY <1>1, <2>2 DEF Clean, At, Clear, Going
  <2>4. name[s] \in Transcript
    BY <1>typ, Parameters
  <2>5. stored'[name[s]] = stored[name[s]] /\ (name[s] \in dir' <=> name[s] \in dir)
    BY <1>1, <1>typ, <2>3, <2>4
  <2> QED BY <1>1, <2>2, <2>5, ClearAlone
<1> QED BY <1>1, <1>2 DEF Smooth

LEMMA StepSmooth ==
  ASSUME FInv, [Next]_vars
  PROVE  FInv'
<1>1. AInv'
  BY StepAnswers DEF FInv
<1>2. CASE UNCHANGED vars
  <2>1. UNCHANGED <<fixed, disk, lc, exit, down, conn, child, dir, stored, faults>>
    BY <1>2 DEF vars, client, net, tmp
  <2>2. ASSUME NEW s \in Session, Undisturbed(s)'
        PROVE  Clear(s)' /\ AsFound(s)'
    <3>1. Undisturbed(s)
      BY <2>1, <2>2, WasUndisturbed
    <3> QED BY <2>1, <3>1, ClearAlone DEF FInv, Smooth
  <2> QED BY <1>1, <2>1, <2>2 DEF FInv, Smooth
<1>3. CASE \E r \in Session : Lcreate(r) \/ Child(r)
  BY <1>1, <1>3, UploadSmooth DEF FInv
<1>4. CASE \E r \in Session : Around(r)
  <2>1. faults' = faults + 1
    BY <1>4 DEF Around, Lose, Kill, Fault, Modify, Faulty
  <2>2. faults' \in Nat /\ faults' # 0
    BY <2>1 DEF FInv
  <2> QED BY <1>1, <2>2 DEF FInv, Smooth, Undisturbed
<1>5. CASE \E n \in Transcript : Clean(n)
  BY <1>1, <1>5, CleanSmooth DEF FInv
<1>6. \/ UNCHANGED vars
      \/ \E r \in Session : Lcreate(r) \/ Child(r)
      \/ \E r \in Session : Around(r)
      \/ \E n \in Transcript : Clean(n)
  BY DEF Next, Idle, Around
<1> QED BY <1>2, <1>3, <1>4, <1>5, <1>6

(* Nothing is in tmp when the first lcreate starts                          *)
THEOREM InitSmooth == Init => FInv
<1> SUFFICES ASSUME Init PROVE FInv
  OBVIOUS
<1>1. AInv
  BY InitAnswers
<1>2. /\ faults = 0 /\ dir = {} /\ conn = [s \in Session |-> TRUE]
      /\ exit = [s \in Session |-> "run"]
      /\ child = [s \in Session |-> [pc |-> "none", xscript |-> Nobody, k |-> 0, len |-> 0]]
      /\ lc = [s \in Session |->
           [pc |-> "idle", k |-> 0, size |-> 0, sent |-> <<>>, respcount |-> 0]]
  BY DEF Init
<1>3. ASSUME NEW s \in Session
      PROVE  conn[s] /\ exit[s] = "run" /\ child[s].pc = "none" /\ lc[s].pc = "idle"
  BY <1>2
<1>4. ASSUME NEW s \in Session
      PROVE  Smooth(s)
  BY <1>2, <1>3 DEF Smooth, Clear, AsFound, Going, Live
<1> QED BY <1>1, <1>2, <1>4 DEF FInv

(* An upload that nothing disturbs ends with exit status 0                  *)
LEMMA SmoothIsFeasible ==
  ASSUME FInv
  PROVE  ExitZeroStored
<1>1. Stored
  BY KeptIsStored DEF FInv, AInv
<1>2. UploadFeasible
  <2> SUFFICES ASSUME NEW s \in Session, faults = 0, lc[s].pc = "over",
                      \A t \in Session \ {s} : name[t] # name[s] \/ lc[t].pc = "idle",
                      \A k \in 1..Files(s) : disk[s][k] = lines[s][k]
               PROVE  exit[s] = "0"
    BY DEF UploadFeasible, At
  <2>1. Undisturbed(s)
    BY DEF Undisturbed
  <2>2. Clear(s)
    BY <2>1 DEF FInv, Smooth
  <2> QED BY <2>2 DEF Clear, Going
<1> QED BY <1>1, <1>2 DEF ExitZeroStored

(* Exit status 0 of lcreate means that the transcript and all its files are *)
(* stored as they were listed and remain so, whatever the other uploads,    *)
(* the network, failing calls and the administrator do; and it is what      *)
(* lcreate ends with when nothing stands in its way                         *)
THEOREM UploadsStored == Spec => []ExitZeroStored
<1>1. FInv /\ [Next]_vars => FInv'
  BY StepSmooth
<1> QED BY <1>1, InitSmooth, SmoothIsFeasible, PTL DEF Spec
=============================================================================
