--------------------------- MODULE Session_proofs ---------------------------
(****************************************************************************)
(* Theorems about sessions, for any set-up, any requests, any config and    *)
(* command files and any number of faults: who is served, why client and    *)
(* server stay in step over replies that nobody has asked for, that the     *)
(* look-up finds what the files say, and how a session ends in which no     *)
(* call fails.                                                              *)
(****************************************************************************)
EXTENDS Session, SequenceTheorems, WellFoundedInduction, TLAPS

Types ==
  /\ setup \in Setup
  /\ cl \in ClientState /\ sv \in ServerState
  /\ c2s \in Seq(CommandMsg) /\ s2c \in Seq(ReplyMsg)

(* A table of commands holds only for a client that has been found, and     *)
(* that of those who are served only after TLS, if it is asked for.  While  *)
(* the client is looked up again nothing is served.                         *)
Tables ==
  /\ sv.table = "auth" =>
       /\ sv.pc \notin {"lookup", "done"} => finding = "ready"
       /\ setup.authlevel # 0 => sv.tls
  /\ sv.pc = "lookup" /\ setup.authlevel # 0 => sv.tls
  /\ sv.pc = "start" => sv.table # "auth"

(* A client that has met no error is where its plan says                    *)
OnPlan ==
  ~cl.err =>
    /\ cl.pc = "write" => cl.i < Len(Plan)
    /\ cl.pc = "shake" => cl.verb = "STARTTLS"
    /\ cl.pc \in {"read", "shake"} =>
         IF cl.verb = "none" THEN cl.i = 0
         ELSE cl.i \in 1..Len(Plan) /\ Plan[cl.i] = cl.verb

Unopened == sv.pc \in {"start", "banner"} \/ (sv.pc = "lookup" /\ ~sv.tls)

(* No success is on its way to the client                                   *)
Quiet == \A k \in DOMAIN s2c : ~Positive(s2c[k])

(* Client and server take turns: a command is on its way only if the client *)
(* waits for the answer to it, and no other success is on its way then;     *)
(* the successes that are belong to that command, or to the banner, and     *)
(* nothing but the lines of the banner is followed by another.              *)
Turns ==
  /\ Unopened => sv.n = 0
  /\ \A k \in DOMAIN s2c : s2c[k].more => s2c[k].re = 0
  /\ ~cl.err /\ cl.pc # "done" =>
       /\ cl.pc \in {"write", "shake"} => c2s = <<>> /\ Quiet
       /\ c2s # <<>> => cl.pc = "read" /\ Len(c2s) = 1 /\ c2s[1].n = cl.i /\ Quiet
       /\ cl.pc = "read" =>
            \A k \in DOMAIN s2c : Positive(s2c[k]) =>
              /\ s2c[k].re = cl.i
              /\ \A m \in 1..(k - 1) : Positive(s2c[m]) => s2c[m].more
       /\ Unopened => c2s = <<>> /\ s2c = <<>> /\ cl.i = 0 /\ cl.pc = "read"

IInv == Types /\ Tables /\ OnPlan /\ Turns
-----------------------------------------------------------------------------
(* What is sent and received                                                *)

LEMMA ReplyTyped ==
  ASSUME Types, NEW code \in Nat
  PROVE  /\ Reply(code) \in ReplyMsg
         /\ Reply(code).code = code /\ ~Reply(code).more /\ Reply(code).re = sv.n
BY DEF Types, Reply, ReplyMsg, ServerState, ServerMode, Mode

LEMMA NowTyped ==
  ASSUME Types, NEW code \in Nat, c2s # <<>>
  PROVE  /\ Now(code) \in ReplyMsg
         /\ Now(code).code = code /\ ~Now(code).more /\ Now(code).re = Head(c2s).n
<1>1. Head(c2s) \in CommandMsg
  BY HeadTailProperties DEF Types
<1>2. Head(c2s).n \in Nat
  BY <1>1 DEF CommandMsg
<1> QED
  BY <1>2, ReplyTyped DEF Now, ReplyMsg

(* The plan of a client ends with QUIT.                                     *)
LEMMA PlanTyped ==
  ASSUME NEW q \in Setup, NEW capa
  PROVE  /\ PlanOf(q, capa) \in Seq(Verb) /\ Len(PlanOf(q, capa)) \in Nat \ {0}
         /\ PlanOf(q, capa)[Len(PlanOf(q, capa))] = "QUIT"
<1> DEFINE a == IF q.cauth # 0 THEN <<"STARTTLS">> ELSE <<>>
           b == IF q.czlib /\ "ZLIB" \in capa THEN <<"COMP">> ELSE <<>>
<1>0. "STARTTLS" \in Verb /\ "COMP" \in Verb /\ "QUIT" \in Verb
  BY DEF Verb
<1>1. a \in Seq(Verb) /\ b \in Seq(Verb) /\ <<"QUIT">> \in Seq(Verb)
  <2>1. \A v \in Verb : <<v>> \in Seq(Verb)
    OBVIOUS
  <2>2. <<>> \in Seq(Verb)
    OBVIOUS
  <2> HIDE DEF Verb
  <2> QED
    BY <1>0, <2>1, <2>2, Zenon
<1>2. q.script \in Seq(Verb)
  BY DEF Setup
<1>3. PlanOf(q, capa) = ((a \o b) \o q.script) \o <<"QUIT">>
  BY DEF PlanOf
<1> HIDE DEF a, b
<1> DEFINE s == (a \o b) \o q.script
<1>4. s \in Seq(Verb)
  BY <1>1, <1>2
<1> HIDE DEF s
<1>5. PlanOf(q, capa) = s \o <<"QUIT">>
  BY <1>3 DEF s
<1> QED
  BY <1>1, <1>4, <1>5

(* A message that is sent comes after those that are on the way.            *)
LEMMA Sent ==
  ASSUME Types, NEW m \in ReplyMsg, s2c' = Append(s2c, m)
  PROVE  /\ s2c' \in Seq(ReplyMsg) /\ Len(s2c') = Len(s2c) + 1
         /\ s2c'[Len(s2c) + 1] = m
         /\ \A k \in DOMAIN s2c : s2c'[k] = s2c[k]
         /\ \A k \in DOMAIN s2c' : k \in DOMAIN s2c \/ k = Len(s2c) + 1
BY DEF Types

LEMMA SentBoth ==
  ASSUME Types, NEW m \in ReplyMsg, NEW n \in ReplyMsg, s2c' = s2c \o <<m, n>>
  PROVE  /\ s2c' \in Seq(ReplyMsg) /\ Len(s2c') = Len(s2c) + 2
         /\ s2c'[Len(s2c) + 1] = m /\ s2c'[Len(s2c) + 2] = n
         /\ \A k \in DOMAIN s2c : s2c'[k] = s2c[k]
         /\ \A k \in DOMAIN s2c' : k \in DOMAIN s2c \/ k \in {Len(s2c) + 1, Len(s2c) + 2}
<1>1. s2c \in Seq(ReplyMsg) /\ <<m, n>> \in Seq(ReplyMsg)
  BY DEF Types
<1> QED
  BY <1>1

(* What the server may send on one command: replies to that command, of     *)
(* which one at most is a success.                                          *)
Replied ==
  /\ s2c' \in Seq(ReplyMsg)
  /\ \A k \in DOMAIN s2c : k \in DOMAIN s2c' /\ s2c'[k] = s2c[k]
  /\ \A k \in DOMAIN s2c' \ DOMAIN s2c : ~s2c'[k].more /\ s2c'[k].re = Head(c2s).n
  /\ \A k, m \in DOMAIN s2c' \ DOMAIN s2c : Positive(s2c'[k]) /\ Positive(s2c'[m]) => k = m

LEMMA NoReply ==
  ASSUME Types, s2c' = s2c
  PROVE  Replied
BY DEF Replied, Types

LEMMA OneReply ==
  ASSUME Types, c2s # <<>>, NEW code \in Nat, Says(code)
  PROVE  /\ Replied
         /\ Len(s2c') > Len(s2c) /\ s2c'[Len(s2c) + 1].code = code
<1>1. Now(code) \in ReplyMsg /\ Now(code).code = code /\ ~Now(code).more /\ Now(code).re = Head(c2s).n
  BY NowTyped
<1>2. s2c' = Append(s2c, Now(code))
  BY DEF Says
<1> HIDE DEF Now
<1>3. s2c \in Seq(ReplyMsg)
  BY DEF Types
<1>4. /\ s2c' \in Seq(ReplyMsg) /\ Len(s2c') = Len(s2c) + 1
      /\ s2c'[Len(s2c) + 1] = Now(code)
      /\ \A k \in DOMAIN s2c : s2c'[k] = s2c[k]
  BY <1>1, <1>2, Sent
<1> QED
  BY <1>1, <1>3, <1>4 DEF Replied

LEMMA TwoReplies ==
  ASSUME Types, c2s # <<>>, NEW a \in Nat, NEW b \in Nat, SaysBoth(a, b),
         ~(Positive(Now(a)) /\ Positive(Now(b)))
  PROVE  /\ Replied
         /\ Len(s2c') > Len(s2c) /\ s2c'[Len(s2c) + 1].code = a
<1>1. \A c \in {a, b} : /\ Now(c) \in ReplyMsg /\ Now(c).code = c
                        /\ ~Now(c).more /\ Now(c).re = Head(c2s).n
  BY NowTyped
<1>2. s2c' = s2c \o <<Now(a), Now(b)>>
  BY DEF SaysBoth
<1> HIDE DEF Now, Positive
<1>3. s2c \in Seq(ReplyMsg)
  BY DEF Types
<1>4. /\ s2c' \in Seq(ReplyMsg) /\ Len(s2c') = Len(s2c) + 2
      /\ s2c'[Len(s2c) + 1] = Now(a) /\ s2c'[Len(s2c) + 2] = Now(b)
      /\ \A k \in DOMAIN s2c : s2c'[k] = s2c[k]
  BY <1>1, <1>2, SentBoth
<1> QED
  BY <1>1, <1>3, <1>4, SMTT(20), ZenonT(20) DEF Replied
-----------------------------------------------------------------------------
(* One command: it is read, nothing changes for the client, the table and   *)
(* the mode of TLS stay, and it is replied to.  What has been asked for is  *)
(* done only with the table of those who are served.                        *)
Served == {215, 230, 240, 250}

Effect ==
  /\ sv.pc = "loop" /\ c2s # <<>> /\ c2s' = Tail(c2s)
  /\ cl' = cl /\ setup' = setup /\ finding' = finding
  /\ sv' \in ServerState /\ sv'.pc \in {"loop", "done", "shake"}
  /\ sv'.table = sv.table /\ sv'.tls = sv.tls
  /\ Replied
  /\ Len(s2c') > Len(s2c) /\ s2c'[Len(s2c) + 1].code \in Served =>
       /\ sv.table = "auth"
       /\ s2c'[Len(s2c) + 1].code = 250 => (setup.checkuser => sv.authorized)

LEMMA HeadTyped ==
  ASSUME Types, c2s # <<>>
  PROVE  /\ Head(c2s) \in CommandMsg /\ Head(c2s).n \in Nat /\ Tail(c2s) \in Seq(CommandMsg)
         /\ \A pc \in {"loop", "done", "shake"}, z, a, f \in BOOLEAN :
              [sv EXCEPT !.n = Head(c2s).n, !.pc = pc, !.zlib = z, !.authorized = a, !.freed = f]
                \in ServerState
<1>1. Head(c2s) \in CommandMsg /\ Tail(c2s) \in Seq(CommandMsg)
  BY HeadTailProperties DEF Types
<1>2. Head(c2s).n \in Nat
  BY <1>1 DEF CommandMsg
<1> QED
  BY <1>1, <1>2 DEF Types, ServerState

(* What becomes of the server after a command, in every case                *)
LEMMA ServerTyped ==
  ASSUME Types, c2s # <<>>, sv.pc = "loop",
         \/ Continues \/ Leaves
         \/ sv' = [Read1 EXCEPT !.pc = "shake"]
         \/ sv' = [Read1 EXCEPT !.authorized = TRUE, !.freed = TRUE]
         \/ \E freed \in BOOLEAN : sv' = [Read1 EXCEPT !.freed = freed]
         \/ sv' = [Read1 EXCEPT !.zlib = TRUE]
  PROVE  /\ sv' \in ServerState /\ sv'.pc \in {"loop", "done", "shake"}
         /\ sv'.table = sv.table /\ sv'.tls = sv.tls
<1>1. Head(c2s).n \in Nat
  BY HeadTyped
<1>2. sv \in ServerState
  BY DEF Types
<1> QED
  BY <1>1, <1>2 DEF ServerState, Continues, Leaves, Read1

LEMMA SimpleEffect ==
  ASSUME Types, Unaffected, Simple \/ StartTls \/ Garbled \/ NotAllowed
  PROVE  Effect
<1>1. /\ sv.pc = "loop" /\ c2s # <<>> /\ c2s' = Tail(c2s)
      /\ cl' = cl /\ setup' = setup /\ finding' = finding
  BY DEF Simple, StartTls, Garbled, NotAllowed, Reads, ServerAt, Unaffected, lookup
<1>2. /\ sv' \in ServerState /\ sv'.pc \in {"loop", "done", "shake"}
      /\ sv'.table = sv.table /\ sv'.tls = sv.tls
  BY <1>1, ServerTyped DEF Simple, StartTls, Garbled, NotAllowed
<1>3. s2c' = s2c \/ \E code \in {201, 202, 203, 220, 500, 530} : Says(code)
  BY DEF Simple, StartTls, Garbled, NotAllowed
<1>4. CASE s2c' = s2c
  BY <1>1, <1>2, <1>4, NoReply DEF Effect, Types
<1>5. CASE \E code \in {201, 202, 203, 220, 500, 530} : Says(code)
  BY <1>1, <1>2, <1>5, OneReply DEF Effect, Served
<1> QED
  BY <1>3, <1>4, <1>5

LEMMA ServeEffect ==
  ASSUME Types, Unaffected, Serve \/ Stor
  PROVE  Effect
<1>1. /\ sv.pc = "loop" /\ c2s # <<>> /\ c2s' = Tail(c2s)
      /\ cl' = cl /\ setup' = setup /\ finding' = finding /\ sv.table = "auth"
  BY DEF Serve, Stor, Reads, ServerAt, Unaffected, lookup
<1>2. /\ sv' \in ServerState /\ sv'.pc \in {"loop", "done", "shake"}
      /\ sv'.table = sv.table /\ sv'.tls = sv.tls
  BY <1>1, ServerTyped DEF Serve, Stor
<1>3. \/ \E code \in {230, 240, 215, 540, 444, 551} : Says(code)
      \/ SaysBoth(240, 444)
      \/ Says(250) /\ (setup.checkuser => sv.authorized)
  BY DEF Serve, Stor, MayStore
<1>4. CASE \E code \in {230, 240, 215, 540, 444, 551} : Says(code)
  BY <1>1, <1>2, <1>4, OneReply DEF Effect, Served
<1>5. CASE SaysBoth(240, 444)
  <2>1. ~Positive(Now(444))
    BY <1>1, NowTyped DEF Positive
  <2> QED
    BY <1>1, <1>2, <1>5, <2>1, TwoReplies DEF Effect, Served
<1>6. CASE Says(250) /\ (setup.checkuser => sv.authorized)
  BY <1>1, <1>2, <1>6, OneReply DEF Effect, Served
<1> QED
  BY <1>3, <1>4, <1>5, <1>6

LEMMA LoginEffect ==
  ASSUME Types, Unaffected, Login
  PROVE  Effect
<1>1. /\ sv.pc = "loop" /\ c2s # <<>> /\ c2s' = Tail(c2s)
      /\ cl' = cl /\ setup' = setup /\ finding' = finding
  BY DEF Login, Reads, ServerAt, Unaffected, lookup
<1>2. /\ sv' \in ServerState /\ sv'.pc \in {"loop", "done", "shake"}
      /\ sv'.table = sv.table /\ sv'.tls = sv.tls
  BY <1>1, ServerTyped DEF Login
<1>3. s2c' = s2c \/ \E code \in {502, 205, 535} : Says(code)
  BY DEF Login
<1>4. CASE s2c' = s2c
  BY <1>1, <1>2, <1>4, NoReply DEF Effect, Types
<1>5. CASE \E code \in {502, 205, 535} : Says(code)
  BY <1>1, <1>2, <1>5, OneReply DEF Effect, Served
<1> QED
  BY <1>3, <1>4, <1>5

LEMMA CompressEffect ==
  ASSUME Types, Unaffected, Compress
  PROVE  Effect
<1>1. /\ sv.pc = "loop" /\ c2s # <<>> /\ c2s' = Tail(c2s)
      /\ cl' = cl /\ setup' = setup /\ finding' = finding
  BY DEF Compress, Reads, ServerAt, Unaffected, lookup
<1>2. /\ sv' \in ServerState /\ sv'.pc \in {"loop", "done", "shake"}
      /\ sv'.table = sv.table /\ sv'.tls = sv.tls
  BY <1>1, ServerTyped DEF Compress
<1>3. \/ Says(501)
      \/ SaysBoth(320, 444)
      \/ s2c' = s2c \o <<Now(320), [Now(220) EXCEPT !.mode.zlib = TRUE]>>
  BY DEF Compress
<1>4. CASE Says(501)
  BY <1>1, <1>2, <1>4, OneReply DEF Effect, Served
<1>5. CASE SaysBoth(320, 444)
  <2>1. ~Positive(Now(444))
    BY <1>1, NowTyped DEF Positive
  <2> QED
    BY <1>1, <1>2, <1>5, <2>1, TwoReplies DEF Effect, Served
<1>6. CASE s2c' = s2c \o <<Now(320), [Now(220) EXCEPT !.mode.zlib = TRUE]>>
  <2> DEFINE m == Now(320)
             n == [Now(220) EXCEPT !.mode.zlib = TRUE]
  <2>1. m \in ReplyMsg /\ m.code = 320 /\ ~m.more /\ m.re = Head(c2s).n
    BY <1>1, NowTyped
  <2>2. n \in ReplyMsg /\ n.code = 220 /\ ~n.more /\ n.re = Head(c2s).n
    <3>1. Now(220) \in ReplyMsg /\ Now(220).code = 220 /\ ~Now(220).more /\ Now(220).re = Head(c2s).n
      BY <1>1, NowTyped
    <3> DEFINE r == Now(220)
               z == [r.mode EXCEPT !.zlib = TRUE]
    <3>2. r \in ReplyMsg /\ r.code = 220 /\ ~r.more /\ r.re = Head(c2s).n
      BY <3>1
    <3>3. n = [r EXCEPT !.mode = z]
      OBVIOUS
    <3> HIDE DEF r, n
    <3>4. z \in Mode
      BY <3>2 DEF ReplyMsg, Mode
    <3> HIDE DEF z
    <3> QED
      BY <3>2, <3>3, <3>4 DEF ReplyMsg
  <2>3. s2c' = s2c \o <<m, n>>
    BY <1>6
  <2> HIDE DEF m, n
  <2>4. /\ s2c' \in Seq(ReplyMsg) /\ Len(s2c') = Len(s2c) + 2
        /\ s2c'[Len(s2c) + 1] = m /\ s2c'[Len(s2c) + 2] = n
        /\ \A k \in DOMAIN s2c : s2c'[k] = s2c[k]
    BY <2>1, <2>2, <2>3, SentBoth, SMTT(20), ZenonT(20)
  <2>5. s2c \in Seq(ReplyMsg)
    BY DEF Types
  <2>6. Replied
    <3>1. DOMAIN s2c' \ DOMAIN s2c = {Len(s2c) + 1, Len(s2c) + 2}
      BY <2>4, <2>5
    <3>2. \A k \in DOMAIN s2c : k \in DOMAIN s2c' /\ s2c'[k] = s2c[k]
      BY <2>4, <2>5
    <3>3. ~Positive(m)
      BY <2>1 DEF Positive
    <3> QED
      BY <2>1, <2>2, <2>4, <3>1, <3>2, <3>3 DEF Replied
  <2> QED
    BY <1>1, <1>2, <2>1, <2>4, <2>6 DEF Effect, Served
<1> QED
  BY <1>3, <1>4, <1>5, <1>6

LEMMA CommandEffect ==
  ASSUME Types, Command
  PROVE  Effect
BY SimpleEffect, ServeEffect, LoginEffect, CompressEffect DEF Command
-----------------------------------------------------------------------------
(* The other steps of the server                                            *)

(* The lines of the banner                                                  *)
LEMMA BannerSent ==
  ASSUME Types, Banner
  PROVE  /\ s2c' \in Seq(ReplyMsg) /\ sv' = [sv EXCEPT !.pc = "loop"]
         /\ \A k \in DOMAIN s2c : k \in DOMAIN s2c' /\ s2c'[k] = s2c[k]
         /\ \A k \in DOMAIN s2c' \ DOMAIN s2c :
              /\ s2c'[k].re = sv.n /\ s2c'[k].code = 200
              /\ \A m \in DOMAIN s2c' \ DOMAIN s2c : m < k => s2c'[m].more
<1>1. sv' = [sv EXCEPT !.pc = "loop"]
  BY DEF Banner, ServerGoes
<1>2. s2c \in Seq(ReplyMsg)
  BY DEF Types
<1> DEFINE r == Reply(200)
           a == [r EXCEPT !.more = TRUE]
           b == [r EXCEPT !.capa = Capabilities]
<1>3. r \in ReplyMsg /\ r.code = 200 /\ r.re = sv.n
  BY ReplyTyped
<1>4. s2c' = Append(s2c, r) \/ s2c' = s2c \o <<a, b>>
  BY <1>2, <1>3 DEF Banner
<1>5. Capabilities \in SUBSET {"ZLIB", "REPO"}
  BY DEF Capabilities
<1> HIDE DEF r
<1>6. a \in ReplyMsg /\ a.code = 200 /\ a.re = sv.n /\ a.more
  BY <1>3 DEF ReplyMsg
<1>7. b \in ReplyMsg /\ b.code = 200 /\ b.re = sv.n
  BY <1>3, <1>5 DEF ReplyMsg
<1> HIDE DEF a, b
<1>8. CASE s2c' = Append(s2c, r)
  BY <1>1, <1>2, <1>3, <1>8, Sent
<1>9. CASE s2c' = s2c \o <<a, b>>
  <2>1. /\ s2c' \in Seq(ReplyMsg) /\ Len(s2c') = Len(s2c) + 2
        /\ s2c'[Len(s2c) + 1] = a /\ s2c'[Len(s2c) + 2] = b
        /\ \A k \in DOMAIN s2c : s2c'[k] = s2c[k]
    BY <1>6, <1>7, <1>9, SentBoth
  <2>2. DOMAIN s2c' \ DOMAIN s2c = {Len(s2c) + 1, Len(s2c) + 2}
    BY <1>2, <2>1
  <2> QED
    BY <1>1, <1>2, <1>6, <1>7, <2>1, <2>2
<1> QED
  BY <1>4, <1>8, <1>9

(* An error that is told is no success                                      *)
Told ==
  /\ s2c' \in Seq(ReplyMsg)
  /\ \A k \in DOMAIN s2c : k \in DOMAIN s2c' /\ s2c'[k] = s2c[k]
  /\ \A k \in DOMAIN s2c' \ DOMAIN s2c : ~s2c'[k].more /\ ~Positive(s2c'[k])
  /\ \A k \in DOMAIN s2c' \ DOMAIN s2c : s2c'[k].code \notin Served

LEMMA ErrorTold ==
  ASSUME Types, NEW code \in {420, 421, 444, 500, 501}, Answers(code)
  PROVE  Told
<1>1. Reply(code) \in ReplyMsg /\ Reply(code).code = code /\ ~Reply(code).more
  BY ReplyTyped
<1>2. s2c' = Append(s2c, Reply(code))
  BY DEF Answers
<1>3. s2c \in Seq(ReplyMsg)
  BY DEF Types
<1>4. ~Positive(Reply(code)) /\ code \notin Served
  BY <1>1 DEF Positive, Served
<1> HIDE DEF Reply
<1>5. /\ s2c' \in Seq(ReplyMsg) /\ Len(s2c') = Len(s2c) + 1
      /\ s2c'[Len(s2c) + 1] = Reply(code)
      /\ \A k \in DOMAIN s2c : s2c'[k] = s2c[k]
  BY <1>1, <1>2, Sent
<1>6. DOMAIN s2c' \ DOMAIN s2c = {Len(s2c) + 1}
  BY <1>3, <1>5
<1> QED
  BY <1>1, <1>3, <1>4, <1>5, <1>6 DEF Told

LEMMA NothingTold ==
  ASSUME Types, s2c' = s2c
  PROVE  Told
BY DEF Told, Types

(* Before the banner, while the client is looked up, and when it is gone or *)
(* silent                                                                   *)
Waiting == ServerStart \/ Lookup \/ LookupDone \/ ServerHangsUp \/ ServerTimesOut

LEMMA WaitingEffect ==
  ASSUME Types, Tables, Waiting
  PROVE  /\ cl' = cl /\ setup' = setup /\ c2s' = c2s
         /\ sv' \in ServerState /\ sv'.n = sv.n /\ sv'.tls = sv.tls
         /\ Told
         /\ sv.pc # "loop" => s2c' = s2c \/ sv'.pc = "done"
         /\ ~Unopened => ~Unopened'
         /\ Tables'
<1> USE DEF Types
<1>1. CASE ServerStart
  <2>1. \/ Answers(420) /\ sv' = [sv EXCEPT !.pc = "done"]
        \/ s2c' = s2c /\ sv' = [sv EXCEPT !.pc = "lookup"] /\ setup.authlevel = 0
        \/ s2c' = s2c /\ sv' = [sv EXCEPT !.pc = "banner"]
    BY <1>1 DEF ServerStart, ServerGoes
  <2>2. cl' = cl /\ setup' = setup /\ c2s' = c2s /\ sv.pc = "start"
    BY <1>1 DEF ServerStart, ServerAt
  <2>3. Told
    BY <2>1, ErrorTold, NothingTold
  <2> QED
    BY <2>1, <2>2, <2>3 DEF ServerState, Tables, Unopened
<1>2. CASE Lookup
  <2>1. cl' = cl /\ setup' = setup /\ c2s' = c2s /\ sv' = sv /\ s2c' = s2c /\ sv.pc = "lookup"
    BY <1>2 DEF Lookup, ServerAt, sessionOwn
  <2>2. Told
    BY <2>1, NothingTold
  <2> QED
    BY <2>1, <2>2 DEF Tables, Unopened
<1>3. CASE LookupDone
  <2>1. cl' = cl /\ setup' = setup /\ c2s' = c2s /\ sv.pc = "lookup" /\ finding' = finding
    BY <1>3 DEF LookupDone, ServerAt, lookup
  <2>2. \/ /\ finding = "ready" /\ s2c' = s2c
           /\ sv' = [sv EXCEPT !.table = "auth", !.pc = IF sv.tls THEN "loop" ELSE "banner"]
        \/ sv.tls /\ s2c' = s2c /\ sv' = [sv EXCEPT !.table = "noauth", !.pc = "loop"]
        \/ Answers(500) /\ sv' = [sv EXCEPT !.pc = "done"]
        \/ Answers(421) /\ sv' = [sv EXCEPT !.pc = "done"]
    BY <1>3 DEF LookupDone, ServerGoes, Unlisted
  <2>3. Told
    BY <2>2, ErrorTold, NothingTold
  <2>4. /\ sv' \in ServerState /\ sv'.n = sv.n /\ sv'.tls = sv.tls
        /\ s2c' = s2c \/ sv'.pc = "done"
    BY <2>2 DEF ServerState
  <2>5. ~Unopened => ~Unopened'
    BY <2>1, <2>2 DEF Unopened, ServerState
  <2>6. Tables'
    <3>1. /\ sv'.pc \notin {"lookup", "start"} /\ sv'.tls = sv.tls
          /\ sv'.table = "auth" => (sv'.pc = "done" /\ sv.table = "auth") \/ finding = "ready"
      <4>1. CASE /\ finding = "ready"
                 /\ sv' = [sv EXCEPT !.table = "auth", !.pc = IF sv.tls THEN "loop" ELSE "banner"]
        BY <4>1 DEF ServerState
      <4>2. CASE sv' = [sv EXCEPT !.table = "noauth", !.pc = "loop"]
        BY <4>2 DEF ServerState
      <4>3. CASE sv' = [sv EXCEPT !.pc = "done"]
        BY <4>3 DEF ServerState
      <4> QED
        BY <2>2, <4>1, <4>2, <4>3
    <3>2. setup.authlevel # 0 => sv.tls
      BY <2>1 DEF Tables
    <3> QED
      BY <2>1, <3>1, <3>2 DEF Tables
  <2> QED
    BY <2>1, <2>3, <2>4, <2>5, <2>6
<1>4. CASE ServerHangsUp \/ ServerTimesOut
  <2>1. /\ cl' = cl /\ setup' = setup /\ c2s' = c2s /\ sv.pc = "loop"
        /\ Answers(444) /\ sv' = [sv EXCEPT !.pc = "done"] /\ finding' = finding
    BY <1>4 DEF ServerHangsUp, ServerTimesOut, ServerAt, ServerGoes, lookup
  <2>2. Told
    BY <2>1, ErrorTold
  <2> QED
    BY <2>1, <2>2 DEF ServerState, Tables, Unopened
<1> QED
  BY <1>1, <1>2, <1>3, <1>4 DEF Waiting
-----------------------------------------------------------------------------
(* The steps of the client                                                  *)

(* The next command: QUIT after an error, else what the plan says           *)
LEMMA WritesKeeps ==
  ASSUME IInv, ClientWrites
  PROVE  IInv'
<1> DEFINE v == IF cl.err THEN "QUIT" ELSE Plan[cl.i + 1]
<1>1. /\ cl.pc = "write" /\ setup' = setup /\ sv' = sv /\ s2c' = s2c /\ finding' = finding
      /\ cl \in ClientState /\ c2s \in Seq(CommandMsg)
  BY DEF ClientWrites, ClientAt, lookup, IInv, Types
<1>2. /\ Plan \in Seq(Verb) /\ Len(Plan) \in Nat \ {0}
      /\ ~cl.err => cl.i < Len(Plan)
  BY <1>1, PlanTyped DEF Plan, IInv, Types, OnPlan
<1>3. v \in Verb /\ v # "none"
  BY <1>1, <1>2 DEF ClientState, Verb, Request
<1>4. \/ cl' = [cl EXCEPT !.pc = "done"] /\ c2s' = c2s
      \/ /\ c2s' = Append(c2s, [verb |-> v, n |-> cl.i + 1, mode |-> ClientMode])
         /\ cl' = [cl EXCEPT !.pc = "read", !.i = @ + 1, !.verb = v]
  BY DEF ClientWrites, ClientExits
<1>5. v = IF cl.err THEN "QUIT" ELSE Plan[cl.i + 1]
  OBVIOUS
<1> HIDE DEF v
<1>6. /\ cl' \in ClientState /\ cl'.err = cl.err /\ cl'.capa = cl.capa
      /\ cl'.pc = "read" => cl'.i = cl.i + 1 /\ cl'.verb = v
      /\ cl'.pc \in {"read", "done"}
  <2>1. CASE cl' = [cl EXCEPT !.pc = "done"]
    BY <1>1, <2>1 DEF ClientState
  <2>2. CASE cl' = [cl EXCEPT !.pc = "read", !.i = @ + 1, !.verb = v]
    <3>1. cl.i + 1 \in Nat
      BY <1>1 DEF ClientState
    <3> QED
      BY <1>1, <1>3, <2>2, <3>1 DEF ClientState
  <2> QED
    BY <1>4, <2>1, <2>2
<1>7. Plan' = Plan
  BY <1>1, <1>6 DEF Plan
<1>8. Types' /\ Tables' /\ OnPlan'
  <2>1. [verb |-> v, n |-> cl.i + 1, mode |-> ClientMode] \in CommandMsg
    BY <1>1, <1>3 DEF ClientState, CommandMsg, ClientMode, Mode
  <2>2. c2s' \in Seq(CommandMsg)
    BY <1>1, <1>4, <2>1
  <2>3. Types' /\ Tables'
    BY <1>1, <1>6, <2>2 DEF IInv, Types, Tables
  <2>4. OnPlan'
    <3>1. cl.i \in Nat
      BY <1>1 DEF ClientState
    <3> QED
      BY <1>2, <1>3, <1>5, <1>6, <1>7, <3>1 DEF OnPlan
  <2> QED
    BY <2>3, <2>4
<1>9. Turns'
  <2>1. CASE cl.err \/ cl'.pc = "done"
    BY <1>1, <1>6, <2>1 DEF IInv, Turns, Unopened
  <2>2. CASE ~cl.err /\ cl'.pc # "done"
    <3>1. c2s = <<>> /\ Quiet /\ ~Unopened
      BY <1>1, <2>2 DEF IInv, Turns
    <3>2. /\ cl'.pc = "read" /\ cl'.i = cl.i + 1
          /\ c2s' = <<[verb |-> v, n |-> cl.i + 1, mode |-> ClientMode]>>
      <4>1. cl'.pc = "read" /\ cl'.i = cl.i + 1
        BY <1>6, <2>2
      <4>2. cl' # [cl EXCEPT !.pc = "done"]
        BY <1>1, <4>1 DEF ClientState
      <4> QED
        BY <1>4, <3>1, <4>1, <4>2
    <3>3. Quiet' /\ ~Unopened'
      BY <1>1, <3>1 DEF Quiet, Unopened
    <3>4. /\ Len(c2s') = 1 /\ c2s'[1].n = cl'.i
      BY <3>2
    <3> QED
      BY <1>1, <3>2, <3>3, <3>4 DEF IInv, Turns, Quiet
  <2> QED
    BY <2>1, <2>2
<1> QED
  BY <1>8, <1>9 DEF IInv

(* What the client makes of the next reply: the end, an error, the next     *)
(* line of the banner or reply, or success                                  *)
LEMMA ReadsCases ==
  ASSUME IInv, ClientReads
  PROVE  /\ cl.pc = "read" /\ s2c # <<>> /\ s2c' = Tail(s2c)
         /\ setup' = setup /\ sv' = sv /\ c2s' = c2s /\ finding' = finding
         /\ Head(s2c) \in ReplyMsg
         /\ \/ cl' = [cl EXCEPT !.pc = "done"]
            \/ cl' = [cl EXCEPT !.pc = "write", !.err = TRUE]
            \/ /\ cl' = [cl EXCEPT !.pc = IF Head(s2c).more THEN "read" ELSE "write",
                                   !.capa = Head(s2c).capa]
               /\ cl.verb = "none" /\ Positive(Head(s2c))
            \/ /\ cl' = [cl EXCEPT !.pc = IF cl.verb = "STARTTLS" THEN "shake" ELSE "write"]
               /\ cl.verb \notin {"none", "QUIT"} /\ Positive(Head(s2c))
            \/ cl' = [cl EXCEPT !.zlib = TRUE] /\ cl.verb = "COMP" /\ ~Positive(Head(s2c))
<1>1. /\ cl.pc = "read" /\ s2c # <<>> /\ s2c' = Tail(s2c)
      /\ setup' = setup /\ sv' = sv /\ c2s' = c2s /\ finding' = finding
  BY DEF ClientReads, ClientAt, lookup
<1>2. Head(s2c) \in ReplyMsg
  BY <1>1, HeadTailProperties DEF IInv, Types
<1> DEFINE m == Head(s2c)
<1>3. \/ ClientExits("2")
      \/ ReadsBanner(m) \/ ReadsReply(m) \/ ReadsCompress(m) \/ ReadsError(m)
  BY DEF ClientReads
<1> HIDE DEF m
<1>4. CASE ReadsBanner(m)
  BY <1>1, <1>2, <1>4 DEF ReadsBanner, ClientExits, Positive, m
<1>5. CASE ReadsReply(m)
  BY <1>1, <1>2, <1>5 DEF ReadsReply, Accepts, ClientExits, ClientGoes, m
<1>6. CASE ReadsCompress(m)
  BY <1>1, <1>2, <1>6 DEF ReadsCompress, Positive, m
<1>7. CASE ReadsError(m)
  BY <1>1, <1>2, <1>7 DEF ReadsError, ClientExits, m
<1> QED
  BY <1>1, <1>2, <1>3, <1>4, <1>5, <1>6, <1>7 DEF ClientExits

(* A success is the last one on its way, and no command is                  *)
LEMMA SuccessAlone ==
  ASSUME IInv, cl.pc = "read", ~cl.err, s2c # <<>>, Positive(Head(s2c))
  PROVE  /\ Head(s2c).re = cl.i /\ c2s = <<>> /\ ~Unopened
         /\ ~Head(s2c).more => \A k \in DOMAIN Tail(s2c) : ~Positive(Tail(s2c)[k])
<1>1. s2c \in Seq(ReplyMsg) /\ 1 \in DOMAIN s2c /\ Head(s2c) = s2c[1]
  BY DEF IInv, Types
<1>2. /\ s2c[1].re = cl.i /\ c2s = <<>> /\ ~Unopened
  BY <1>1 DEF IInv, Turns, Quiet
<1>3. ASSUME ~s2c[1].more, NEW k \in DOMAIN Tail(s2c), Positive(Tail(s2c)[k])
      PROVE  FALSE
  <2>1. k \in Nat /\ k >= 1 /\ k + 1 \in DOMAIN s2c /\ Tail(s2c)[k] = s2c[k + 1]
    BY <1>1, <1>3
  <2>2. 1 \in 1..((k + 1) - 1)
    BY <2>1
  <2>3. s2c[1].more
    BY <1>1, <1>3, <2>1, <2>2 DEF IInv, Turns
  <2> QED
    BY <1>3, <2>3
<1> QED
  BY <1>1, <1>2, <1>3

LEMMA ReadsKeeps ==
  ASSUME IInv, ClientReads
  PROVE  IInv'
<1>1. /\ cl.pc = "read" /\ s2c # <<>> /\ s2c' = Tail(s2c)
      /\ setup' = setup /\ sv' = sv /\ c2s' = c2s /\ finding' = finding
      /\ Head(s2c) \in ReplyMsg /\ cl \in ClientState /\ s2c \in Seq(ReplyMsg)
  BY ReadsCases DEF IInv, Types
<1>2. /\ s2c' \in Seq(ReplyMsg)
      /\ \A k \in DOMAIN s2c' : k + 1 \in DOMAIN s2c /\ s2c'[k] = s2c[k + 1] /\ k \in Nat \ {0}
  BY <1>1
<1>3. cl' \in ClientState
  <2> DEFINE m == Head(s2c)
             next == IF cl.verb = "STARTTLS" THEN "shake" ELSE "write"
             line == IF m.more THEN "read" ELSE "write"
  <2>1. m.capa \in SUBSET {"ZLIB", "REPO"} /\ next \in {"shake", "write"} /\ line \in {"read", "write"}
    BY <1>1 DEF ReplyMsg
  <2>2. \/ cl' = [cl EXCEPT !.pc = "done"]
        \/ cl' = [cl EXCEPT !.pc = "write", !.err = TRUE]
        \/ cl' = [cl EXCEPT !.pc = line, !.capa = m.capa]
        \/ cl' = [cl EXCEPT !.pc = next]
        \/ cl' = [cl EXCEPT !.zlib = TRUE]
    BY ReadsCases
  <2>3. cl \in ClientState
    BY <1>1
  <2> HIDE DEF m, next, line
  <2> QED
    BY <2>1, <2>2, <2>3, ZenonT(40) DEF ClientState
<1>4. Types' /\ Tables'
  BY <1>1, <1>2, <1>3 DEF IInv, Types, Tables
<1>5. /\ Unopened' = Unopened
      /\ \A k \in DOMAIN s2c' : s2c'[k].more => s2c'[k].re = 0
  BY <1>1, <1>2 DEF IInv, Turns, Unopened
<1>6. CASE cl'.err \/ cl'.pc = "done"
  <2>1. OnPlan'
    BY <1>6 DEF OnPlan
  <2>2. Turns'
    BY <1>1, <1>5, <1>6 DEF IInv, Turns
  <2> QED
    BY <1>4, <2>1, <2>2 DEF IInv
<1>7. CASE ~cl'.err /\ cl'.pc # "done"
  <2>1. /\ cl'.i = cl.i /\ cl'.err = cl.err /\ cl'.verb = cl.verb /\ ~cl.err
        /\ \/ /\ cl'.pc = IF Head(s2c).more THEN "read" ELSE "write"
              /\ cl.verb = "none" /\ Positive(Head(s2c))
           \/ /\ cl'.pc = IF cl.verb = "STARTTLS" THEN "shake" ELSE "write"
              /\ cl.verb \notin {"none", "QUIT"} /\ Positive(Head(s2c))
           \/ cl'.pc = "read" /\ cl.verb = "COMP" /\ ~Positive(Head(s2c))
        /\ cl'.capa = cl.capa \/ cl.verb = "none"
    BY <1>1, <1>7, ReadsCases DEF ClientState
  <2>2. /\ IF cl.verb = "none" THEN cl.i = 0 ELSE cl.i \in 1..Len(Plan) /\ Plan[cl.i] = cl.verb
    BY <1>1, <2>1 DEF IInv, OnPlan
  <2>3. /\ Len(Plan) \in Nat /\ Plan[Len(Plan)] = "QUIT" /\ Len(Plan)' \in Nat \ {0}
        /\ cl.verb # "none" => Plan' = Plan
    <3>1. setup \in Setup
      BY DEF IInv, Types
    <3> QED
      BY <1>1, <2>1, <3>1, PlanTyped DEF Plan
  <2>4. OnPlan'
    <3>1. CASE cl.verb = "none"
      BY <2>1, <2>2, <2>3, <3>1 DEF OnPlan
    <3>2. CASE cl.verb # "none"
      <4>1. cl.i \in Nat /\ cl.i <= Len(Plan) /\ (cl.verb # "QUIT" => cl.i < Len(Plan))
        BY <2>2, <2>3, <3>2
      <4>2. cl'.pc = "shake" => cl.verb = "STARTTLS"
        BY <2>1
      <4>3. cl'.pc = "write" => cl.verb # "QUIT"
        BY <2>1, <3>2
      <4> QED
        BY <2>1, <2>2, <2>3, <3>2, <4>1, <4>2, <4>3 DEF OnPlan
    <3> QED
      BY <3>1, <3>2
  <2>5. Turns'
    <3>1. ~Unopened
      BY <1>1, <2>1 DEF IInv, Turns
    <3>2. CASE cl'.pc \in {"write", "shake"}
      <4>1. Positive(Head(s2c)) /\ ~Head(s2c).more
        <5>1. Positive(Head(s2c))
          BY <2>1, <3>2
        <5>2. Head(s2c).more => cl.i = 0
          BY <1>1, <2>1, <5>1, SuccessAlone DEF IInv, Turns
        <5>3. cl.verb # "none" => cl.i # 0
          BY <2>2, <2>3
        <5> QED
          BY <2>1, <3>2, <5>1, <5>2, <5>3
      <4>2. c2s = <<>> /\ \A k \in DOMAIN Tail(s2c) : ~Positive(Tail(s2c)[k])
        BY <1>1, <2>1, <4>1, SuccessAlone
      <4>3. Quiet' /\ c2s' = <<>>
        BY <1>1, <4>2 DEF Quiet, Positive
      <4> QED
        BY <1>1, <1>5, <3>1, <3>2, <4>3 DEF IInv, Turns
    <3>3. CASE cl'.pc = "read"
      <4>1. \A k \in DOMAIN s2c' : Positive(s2c[k + 1]) =>
              /\ s2c[k + 1].re = cl.i
              /\ \A m \in 1..(k - 1) : Positive(s2c[m + 1]) => s2c[m + 1].more
        <5>1. \A k \in DOMAIN s2c : Positive(s2c[k]) =>
                /\ s2c[k].re = cl.i
                /\ \A m \in 1..(k - 1) : Positive(s2c[m]) => s2c[m].more
          BY <1>1, <2>1 DEF IInv, Turns
        <5> SUFFICES ASSUME NEW k \in DOMAIN s2c', Positive(s2c[k + 1])
                     PROVE  /\ s2c[k + 1].re = cl.i
                            /\ \A m \in 1..(k - 1) : Positive(s2c[m + 1]) => s2c[m + 1].more
          OBVIOUS
        <5>2. \A m \in 1..(k - 1) : m + 1 \in 1..((k + 1) - 1)
          BY <1>2
        <5> QED
          BY <1>2, <5>1, <5>2
      <4>2. \A k \in DOMAIN s2c' : Positive(s2c'[k]) =>
              /\ s2c'[k].re = cl.i
              /\ \A m \in 1..(k - 1) : Positive(s2c'[m]) => s2c'[m].more
        <5>1. \A k \in DOMAIN s2c' : \A m \in 1..(k - 1) : m \in DOMAIN s2c'
          BY <1>2
        <5> QED
          BY <1>2, <4>1, <5>1 DEF Positive
      <4>3. c2s # <<>> => Quiet'
        <5>1. c2s # <<>> => Quiet
          BY <1>1, <2>1 DEF IInv, Turns
        <5> QED
          BY <1>2, <5>1 DEF Quiet, Positive
      <4>4. c2s # <<>> => Len(c2s) = 1 /\ c2s[1].n = cl.i
        BY <1>1, <2>1 DEF IInv, Turns
      <4> QED
        BY <1>1, <1>5, <2>1, <3>1, <3>3, <4>2, <4>3, <4>4 DEF IInv, Turns, Positive
    <3> QED
      BY <1>3, <1>7, <3>2, <3>3 DEF ClientState
  <2> QED
    BY <1>4, <2>4, <2>5 DEF IInv
<1> QED
  BY <1>6, <1>7

(* A reply to a command keeps the turns.                                    *)
LEMMA CommandKeeps ==
  ASSUME IInv, Command
  PROVE  IInv'
<1>1. Effect /\ s2c \in Seq(ReplyMsg) /\ cl \in ClientState /\ c2s \in Seq(CommandMsg)
  BY CommandEffect DEF IInv, Types
<1>2. /\ sv.pc = "loop" /\ c2s # <<>> /\ c2s' = Tail(c2s)
      /\ cl' = cl /\ setup' = setup /\ finding' = finding
      /\ sv' \in ServerState /\ sv'.pc \in {"loop", "done", "shake"}
      /\ sv'.table = sv.table /\ sv'.tls = sv.tls /\ Replied
  BY <1>1 DEF Effect
<1>3. c2s' \in Seq(CommandMsg) /\ s2c' \in Seq(ReplyMsg)
  BY <1>2, HeadTyped DEF Replied, IInv
<1>4. Types' /\ Tables'
  BY <1>1, <1>2, <1>3 DEF IInv, Types, Tables
<1>5. OnPlan'
  BY <1>2 DEF IInv, OnPlan, Plan
<1>6. Turns'
  <2>1. ~Unopened'
    BY <1>2 DEF Unopened
  <2>2. \A k \in DOMAIN s2c' : s2c'[k].more => s2c'[k].re = 0
    BY <1>2 DEF Replied, IInv, Turns
  <2>3. CASE cl.err \/ cl.pc = "done"
    BY <1>2, <2>1, <2>2, <2>3 DEF Turns
  <2>4. CASE ~cl.err /\ cl.pc # "done"
    <3>1. cl.pc = "read" /\ Len(c2s) = 1 /\ c2s[1].n = cl.i /\ Quiet
      BY <1>2, <2>4 DEF IInv, Turns
    <3>2. c2s' = <<>> /\ Head(c2s).n = cl.i
      BY <1>1, <1>2, <3>1
    <3>3. \A k \in DOMAIN s2c' : Positive(s2c'[k]) => k \notin DOMAIN s2c
      BY <1>2, <3>1 DEF Replied, Quiet, Positive
    <3>4. \A k \in DOMAIN s2c' : Positive(s2c'[k]) => s2c'[k].re = cl.i
      BY <1>2, <3>2, <3>3 DEF Replied
    <3>5. \A k \in DOMAIN s2c' : Positive(s2c'[k]) =>
            \A m \in 1..(k - 1) : ~Positive(s2c'[m])
      <4> SUFFICES ASSUME NEW k \in DOMAIN s2c', Positive(s2c'[k]), NEW m \in 1..(k - 1), Positive(s2c'[m])
                   PROVE  FALSE
        OBVIOUS
      <4>1. m \in DOMAIN s2c' /\ m # k
        BY <1>3
      <4>2. m = k
        BY <1>2, <3>3, <4>1 DEF Replied
      <4> QED
        BY <4>1, <4>2
    <3> QED
      BY <1>2, <2>1, <2>2, <3>1, <3>2, <3>4, <3>5 DEF Turns
  <2> QED
    BY <2>3, <2>4
<1> QED
  BY <1>4, <1>5, <1>6 DEF IInv

LEMMA BannerKeeps ==
  ASSUME IInv, Banner
  PROVE  IInv'
<1>1. /\ s2c' \in Seq(ReplyMsg) /\ sv' = [sv EXCEPT !.pc = "loop"]
      /\ \A k \in DOMAIN s2c : k \in DOMAIN s2c' /\ s2c'[k] = s2c[k]
      /\ \A k \in DOMAIN s2c' \ DOMAIN s2c :
           /\ s2c'[k].re = sv.n /\ s2c'[k].code = 200
           /\ \A m \in DOMAIN s2c' \ DOMAIN s2c : m < k => s2c'[m].more
  BY BannerSent DEF IInv
<1>2. /\ sv.pc = "banner" /\ cl' = cl /\ setup' = setup /\ c2s' = c2s /\ finding' = finding
      /\ sv \in ServerState
  BY DEF Banner, ServerAt, lookup, IInv, Types
<1>3. Types' /\ Tables'
  BY <1>1, <1>2 DEF IInv, Types, Tables, ServerState
<1>4. OnPlan'
  BY <1>2 DEF IInv, OnPlan, Plan
<1>5. Turns'
  <2>1. Unopened /\ ~Unopened' /\ sv.n = 0
    BY <1>1, <1>2 DEF IInv, Turns, Unopened, ServerState
  <2>2. \A k \in DOMAIN s2c' : s2c'[k].more => s2c'[k].re = 0
    BY <1>1, <2>1 DEF IInv, Turns
  <2>3. CASE cl.err \/ cl.pc = "done"
    BY <1>2, <2>1, <2>2, <2>3 DEF Turns
  <2>4. CASE ~cl.err /\ cl.pc # "done"
    <3>1. c2s = <<>> /\ s2c = <<>> /\ cl.i = 0 /\ cl.pc = "read"
      BY <2>1, <2>4 DEF IInv, Turns
    <3>2. \A k \in DOMAIN s2c' : \A m \in 1..(k - 1) : m \in DOMAIN s2c' /\ m < k
      BY <1>1
    <3>3. \A k \in DOMAIN s2c' : s2c'[k].re = 0 /\ \A m \in 1..(k - 1) : s2c'[m].more
      BY <1>1, <2>1, <3>1, <3>2
    <3> QED
      BY <1>2, <2>1, <2>2, <3>1, <3>3 DEF Turns
  <2> QED
    BY <2>3, <2>4
<1> QED
  BY <1>3, <1>4, <1>5 DEF IInv

(* Errors that are told unasked do not disturb anything.                    *)
LEMMA ToldKeeps ==
  ASSUME IInv, Told, c2s' = c2s, cl' = cl, sv'.n = sv.n,
         ~Unopened => ~Unopened',
         sv.pc # "loop" => s2c' = s2c \/ sv'.pc = "done"
  PROVE  Turns'
<1>1. \A k \in DOMAIN s2c' : s2c'[k].more => s2c'[k].re = 0
  BY DEF Told, IInv, Turns
<1>2. \A k \in DOMAIN s2c' : Positive(s2c'[k]) => k \in DOMAIN s2c /\ s2c'[k] = s2c[k]
  BY DEF Told
<1>3. Quiet => Quiet'
  BY <1>2 DEF Quiet, Positive
<1>4. Unopened' => Unopened /\ s2c' = s2c
  BY DEF Unopened
<1>5. CASE cl.err \/ cl.pc = "done"
  BY <1>1, <1>4, <1>5 DEF IInv, Turns
<1>6. CASE ~cl.err /\ cl.pc # "done"
  <2>1. cl.pc = "read" =>
          \A k \in DOMAIN s2c' : Positive(s2c'[k]) =>
            /\ s2c'[k].re = cl.i
            /\ \A m \in 1..(k - 1) : Positive(s2c'[m]) => s2c'[m].more
    <3>1. \A k \in DOMAIN s2c : \A m \in 1..(k - 1) : m \in DOMAIN s2c /\ s2c'[m] = s2c[m]
      BY DEF Told, IInv, Types
    <3> QED
      BY <1>2, <1>6, <3>1 DEF IInv, Turns, Positive
  <2> QED
    BY <1>1, <1>3, <1>4, <1>6, <2>1 DEF IInv, Turns
<1> QED
  BY <1>5, <1>6

LEMMA WaitingKeeps ==
  ASSUME IInv, Waiting
  PROVE  IInv'
<1>1. /\ cl' = cl /\ setup' = setup /\ c2s' = c2s
      /\ sv' \in ServerState /\ sv'.n = sv.n /\ sv'.tls = sv.tls
      /\ Told
      /\ sv.pc # "loop" => s2c' = s2c \/ sv'.pc = "done"
      /\ ~Unopened => ~Unopened'
      /\ Tables'
  BY WaitingEffect DEF IInv
<1>2. Types'
  BY <1>1 DEF IInv, Types, Told
<1>3. OnPlan'
  BY <1>1 DEF IInv, OnPlan, Plan
<1>4. Turns'
  BY <1>1, ToldKeeps
<1> QED
  BY <1>1, <1>2, <1>3, <1>4 DEF IInv
-----------------------------------------------------------------------------
(* The handshake, and processes that end                                    *)

LEMMA HandshakeKeeps ==
  ASSUME IInv, Handshake
  PROVE  IInv'
<1>1. /\ cl.pc = "shake" /\ sv.pc = "shake" /\ setup' = setup /\ c2s' = c2s /\ s2c' = s2c
      /\ sv' = [sv EXCEPT !.tls = TRUE, !.pc = "lookup"]
      /\ \/ cl' = [cl EXCEPT !.tls = TRUE, !.pc = "write"]
         \/ cl' = [cl EXCEPT !.tls = TRUE, !.pc = "done"]
      /\ sv \in ServerState /\ cl \in ClientState
  BY DEF Handshake, Shaking, ClientAt, ServerAt, IInv, Types
<1>2. /\ sv' \in ServerState /\ sv'.pc = "lookup" /\ sv'.tls = TRUE /\ sv'.n = sv.n
      /\ cl' \in ClientState /\ cl'.pc \in {"write", "done"}
      /\ cl'.err = cl.err /\ cl'.i = cl.i /\ cl'.verb = cl.verb /\ cl'.capa = cl.capa
  BY <1>1 DEF ServerState, ClientState
<1>3. Types' /\ Tables'
  BY <1>1, <1>2 DEF IInv, Types, Tables
<1>4. OnPlan'
  <2>1. Plan' = Plan /\ Len(Plan) \in Nat /\ Plan[Len(Plan)] = "QUIT"
    BY <1>1, <1>2, PlanTyped DEF Plan, IInv, Types
  <2>2. ~cl.err => cl.i \in 1..Len(Plan) /\ Plan[cl.i] = "STARTTLS"
    BY <1>1 DEF IInv, OnPlan
  <2>3. ~cl.err => cl.i < Len(Plan)
    BY <2>1, <2>2
  <2> QED
    BY <1>2, <2>1, <2>3 DEF OnPlan
<1>5. Turns'
  BY <1>1, <1>2 DEF IInv, Turns, Unopened, Quiet
<1> QED
  BY <1>3, <1>4, <1>5 DEF IInv

LEMMA FailsKeeps ==
  ASSUME IInv, HandshakeFails \/ HandshakeAlone
  PROVE  IInv' /\ Told
<1>1. /\ setup' = setup /\ c2s' = c2s /\ finding' = finding /\ cl.pc \in {"shake", "done"}
      /\ \/ Answers(501) /\ sv.pc = "shake" /\ sv' = [sv EXCEPT !.pc = "loop"]
         \/ s2c' = s2c /\ sv' = sv
      /\ \/ cl' = [cl EXCEPT !.tls = TRUE, !.pc = "write"] /\ cl.pc = "shake"
         \/ cl' = [cl EXCEPT !.pc = "done"]
         \/ cl' = cl /\ cl.pc = "done"
      /\ sv \in ServerState /\ cl \in ClientState
  BY DEF HandshakeFails, HandshakeAlone, Shaking, ClientAt, ServerAt, ServerGoes, ClientExits,
         lookup, IInv, Types
<1>2. Told
  BY <1>1, ErrorTold, NothingTold DEF IInv
<1>3. /\ sv' \in ServerState /\ sv'.n = sv.n /\ sv'.tls = sv.tls /\ sv'.table = sv.table
      /\ sv' = sv \/ (sv.pc = "shake" /\ sv'.pc = "loop")
      /\ cl' \in ClientState /\ cl'.pc \in {"write", "done"}
      /\ cl'.pc = "write" => cl.pc = "shake"
      /\ cl'.err = cl.err /\ cl'.i = cl.i /\ cl'.verb = cl.verb /\ cl'.capa = cl.capa
  <2>1. /\ sv' \in ServerState /\ sv'.n = sv.n /\ sv'.tls = sv.tls /\ sv'.table = sv.table
        /\ sv' = sv \/ (sv.pc = "shake" /\ sv'.pc = "loop")
    BY <1>1 DEF ServerState
  <2>2. /\ cl' \in ClientState /\ cl'.pc \in {"write", "done"}
        /\ cl'.pc = "write" => cl.pc = "shake"
        /\ cl'.err = cl.err /\ cl'.i = cl.i /\ cl'.verb = cl.verb /\ cl'.capa = cl.capa
    BY <1>1 DEF ClientState
  <2> QED
    BY <2>1, <2>2
<1>4. Types' /\ Tables'
  BY <1>1, <1>2, <1>3 DEF IInv, Types, Tables, Told
<1>5. OnPlan'
  <2>1. Plan' = Plan /\ Len(Plan) \in Nat /\ Plan[Len(Plan)] = "QUIT"
    BY <1>1, <1>3, PlanTyped DEF Plan, IInv, Types
  <2>2. ~cl.err /\ cl.pc = "shake" => cl.i \in 1..Len(Plan) /\ Plan[cl.i] = "STARTTLS"
    BY <1>1 DEF IInv, OnPlan
  <2>3. ~cl.err /\ cl.pc = "shake" => cl.i < Len(Plan)
    BY <2>1, <2>2
  <2> QED
    BY <1>3, <2>1, <2>3 DEF OnPlan
<1>6. Turns'
  <2>1. \A k \in DOMAIN s2c' : s2c'[k].more => s2c'[k].re = 0
    BY <1>2 DEF Told, IInv, Turns
  <2>2. Quiet => Quiet'
    BY <1>2 DEF Told, Quiet, Positive
  <2>3. Unopened' = Unopened
    BY <1>3 DEF Unopened
  <2>4. CASE cl'.err \/ cl'.pc = "done"
    BY <1>3, <2>1, <2>3, <2>4 DEF IInv, Turns
  <2>5. CASE ~cl'.err /\ cl'.pc # "done"
    BY <1>1, <1>3, <2>1, <2>2, <2>3, <2>5 DEF IInv, Turns
  <2> QED
    BY <2>4, <2>5
<1> QED
  BY <1>2, <1>4, <1>5, <1>6 DEF IInv

Ends == ClientGivesUp \/ ClientTimesOut \/ Killed

LEMMA EndsKeeps ==
  ASSUME IInv, Ends
  PROVE  IInv' /\ s2c' = s2c
<1>1. /\ setup' = setup /\ c2s' = c2s /\ finding' = finding /\ s2c' = s2c
      /\ \/ cl' = [cl EXCEPT !.pc = "done"] /\ sv' = sv
         \/ cl' = cl /\ sv' = [sv EXCEPT !.pc = "done"]
      /\ sv \in ServerState /\ cl \in ClientState
  BY DEF Ends, ClientGivesUp, ClientTimesOut, Killed, ClientExits, ServerGoes, lookup, IInv, Types
<1>2. Types' /\ Tables'
  BY <1>1 DEF IInv, Types, Tables, ServerState, ClientState
<1>3. OnPlan'
  BY <1>1 DEF IInv, OnPlan, Plan, ClientState
<1>4. Turns'
  <2>1. Unopened' => Unopened
    BY <1>1 DEF Unopened, ServerState
  <2>2. sv'.n = sv.n
    BY <1>1 DEF ServerState
  <2>3. cl' = cl \/ cl'.pc = "done"
    BY <1>1 DEF ClientState
  <2> QED
    BY <1>1, <2>1, <2>2, <2>3 DEF IInv, Turns, Quiet
<1> QED
  BY <1>1, <1>2, <1>3, <1>4 DEF IInv
-----------------------------------------------------------------------------
LEMMA InitKeeps == Init => IInv
<1> SUFFICES ASSUME NEW b \in Setups, setup = b.setup, ConfigIdle,
               cl = [pc |-> "read", i |-> 0, verb |-> "none", tls |-> FALSE, zlib |-> FALSE,
                     capa |-> {}, err |-> FALSE],
               sv = [pc |-> "start", table |-> IF b.setup.authlevel = 0 THEN "noauth" ELSE "notls",
                     tls |-> FALSE, zlib |-> FALSE, authorized |-> FALSE, freed |-> FALSE, n |-> 0],
               c2s = <<>>, s2c = <<>>
             PROVE  IInv
  BY DEF Init
<1>1. setup \in Setup
  BY SessionAssumption DEF SessionAssumption
<1>2. cl \in ClientState /\ sv \in ServerState
  BY DEF ClientState, ServerState
<1>3. Types
  BY <1>1, <1>2 DEF Types
<1>4. Tables /\ OnPlan /\ Turns
  BY DEF Tables, OnPlan, Turns, Quiet
<1> QED
  BY <1>3, <1>4 DEF IInv

LEMMA StepKeeps ==
  ASSUME IInv, [Next]_vars
  PROVE  IInv'
<1>1. CASE UNCHANGED vars
  BY <1>1 DEF vars, sessionOwn, lookup, IInv, Types, Tables, OnPlan, Turns, Unopened, Quiet, Plan
<1>2. CASE Next
  BY <1>2, CommandKeeps, BannerKeeps, WaitingKeeps, WritesKeeps, ReadsKeeps, HandshakeKeeps,
     FailsKeeps, EndsKeeps
     DEF Next, Server, Client, Tls, Waiting, Ends
<1> QED
  BY <1>1, <1>2

LEMMA Invariance == Spec => []IInv
<1>1. Init => IInv
  BY InitKeeps
<1>2. IInv /\ [Next]_vars => IInv'
  BY StepKeeps
<1> QED
  BY <1>1, <1>2, PTL DEF Spec

(* Requests are served only for a client that has been found in the config  *)
(* files, after TLS if -w says so, and files are stored only for a user who *)
(* has logged in if -U says so (cmdloop(), f_starttls(), f_stor()).         *)
THEOREM OnlyAsSet == Spec => ServedAsSet
<1> DEFINE New == Len(s2c) + 1
           A == Len(s2c') > Len(s2c) /\ s2c'[Len(s2c) + 1].code \in {215, 230, 240, 250} =>
                  /\ finding = "ready"
                  /\ setup.authlevel # 0 => sv.tls
                  /\ s2c'[Len(s2c) + 1].code = 250 /\ setup.checkuser => sv.authorized
<1>1. ASSUME IInv, [Next]_vars, ~UNCHANGED s2c
      PROVE  A
  <2>1. CASE Command
    <3>1. Effect
      BY <1>1, <2>1, CommandEffect DEF IInv
    <3> QED
      BY <1>1, <3>1 DEF Effect, Served, IInv, Tables
  <2>2. CASE Banner
    <3>1. s2c \in Seq(ReplyMsg) /\ s2c' \in Seq(ReplyMsg)
      BY <1>1, <2>2, BannerSent DEF IInv, Types
    <3>2. Len(s2c') > Len(s2c) => New \in DOMAIN s2c' \ DOMAIN s2c
      BY <3>1
    <3> QED
      BY <1>1, <2>2, <3>2, BannerSent DEF IInv
  <2>3. CASE Waiting \/ HandshakeFails \/ HandshakeAlone
    <3>1. Told
      BY <1>1, <2>3, WaitingEffect, FailsKeeps DEF IInv
    <3>2. s2c \in Seq(ReplyMsg) /\ s2c' \in Seq(ReplyMsg)
      BY <1>1, <3>1 DEF IInv, Types, Told
    <3>3. Len(s2c') > Len(s2c) => New \in DOMAIN s2c' \ DOMAIN s2c
      BY <3>2
    <3> QED
      BY <3>1, <3>3 DEF Told, Served
  <2>4. CASE ClientReads
    <3>1. s2c \in Seq(ReplyMsg) /\ s2c # <<>> /\ s2c' = Tail(s2c)
      BY <1>1, <2>4, ReadsCases DEF IInv, Types
    <3>2. Len(s2c') = Len(s2c) - 1 /\ Len(s2c) \in Nat
      BY <3>1
    <3> QED
      BY <3>2
  <2>5. CASE ClientWrites \/ Handshake \/ Ends \/ UNCHANGED vars
    BY <1>1, <2>5, EndsKeeps DEF ClientWrites, Handshake, vars, sessionOwn
  <2> QED
    BY <1>1, <2>1, <2>2, <2>3, <2>4, <2>5 DEF Next, Server, Client, Tls, Waiting, Ends
<1> HIDE DEF A
<1>2. IInv /\ [Next]_vars => [A]_vars
  <2>1. s2c' = s2c /\ IInv => A
    BY DEF A, IInv, Types
  <2> QED
    BY <1>1, <2>1
<1>3. Spec => [][A]_vars
  BY <1>2, Invariance, PTL DEF Spec
<1> QED
  BY <1>3 DEF ServedAsSet, A

(* What a client takes for success is the answer to its last command, or    *)
(* the banner, whatever else the server has sent (get_capabilities() and    *)
(* the callers of snet_getline_multi()).                                    *)
THEOREM AnswersInStep == Spec => InStep
<1> DEFINE A == ClientAt("read") /\ cl'.pc \in {"write", "shake"} /\ ~cl'.err => Head(s2c).re = cl.i
<1>1. ASSUME IInv, [Next]_vars, ClientAt("read"), cl'.pc \in {"write", "shake"}, ~cl'.err
      PROVE  Head(s2c).re = cl.i
  <2>1. cl.pc = "read" /\ cl \in ClientState
    BY <1>1 DEF ClientAt, IInv, Types
  <2>2. ~UNCHANGED cl
    BY <1>1, <2>1
  <2>3. CASE ClientReads
    <3>1. /\ ~cl.err /\ s2c # <<>> /\ Positive(Head(s2c))
      BY <1>1, <2>1, <2>3, ReadsCases DEF ClientState
    <3> QED
      BY <1>1, <2>1, <3>1, SuccessAlone
  <2>4. CASE ClientWrites \/ Handshake \/ HandshakeFails \/ HandshakeAlone
    BY <1>1, <2>1, <2>2, <2>4 DEF ClientWrites, Handshake, HandshakeFails, HandshakeAlone, Shaking, ClientAt
  <2>5. CASE ClientGivesUp \/ ClientTimesOut \/ Killed
    BY <1>1, <2>1, <2>2, <2>5 DEF ClientGivesUp, ClientTimesOut, Killed, ClientExits, ClientState
  <2>6. CASE Command \/ Banner \/ Waiting \/ UNCHANGED vars
    BY <1>1, <2>2, <2>6, CommandEffect, WaitingEffect DEF Effect, Banner, vars, sessionOwn, IInv
  <2> QED
    BY <1>1, <2>3, <2>4, <2>5, <2>6 DEF Next, Server, Client, Tls, Waiting
<1>2. IInv /\ [Next]_vars => [A]_vars
  BY <1>1
<1> HIDE DEF A
<1>3. Spec => [][A]_vars
  BY <1>2, Invariance, PTL DEF Spec
<1> QED
  BY <1>3 DEF InStep, A
-----------------------------------------------------------------------------
(* Whom the server looks up, and where it looks                             *)

After == {"found", "kfile", "ready", "failed"}

Frames == [file : DOMAIN conf \cup DOMAIN kfiles, at : Nat \ {0}]

LookupTypes ==
  /\ \A f \in DOMAIN conf : conf[f] \in Seq(ConfLine)
  /\ DOMAIN kfiles \subseteq KFile /\ \A f \in DOMAIN kfiles : kfiles[f] \in Seq(KLine)
  /\ finding \in {"idle", "config", "none"} \cup After
  /\ stack \in Seq(Frames) /\ (finding \in {"config", "kfile"} => stack # <<>>)

(* The client is looked up under its names, and only between commands       *)
Asked ==
  /\ finding = "idle" => access = {}
  /\ finding # "idle" => hasCn = (setup.authlevel = 2)
  /\ sv.pc \notin {"lookup", "done"} => finding \in {"idle", "none", "ready"}
  /\ sv.pc = "start" => finding = "idle"

(* How many levels of includes may follow the file at place i of the stack, *)
(* and what the files below it say                                          *)
Level(i)    == MaxDepth - (Len(stack) - i)
Said(n)     == SaidBy(hasCn)[n]
Below(i)    == IF Level(i) = 0 THEN <<>> ELSE Said(Level(i) - 1)
Left(i, at) == \E k \in Leaving(hasCn, Level(i), Below(i), stack[i].file) : k < at

(* The config files that are open: in none has a line been passed at which  *)
(* it is left, each but the top one has just included the one above it, and *)
(* what the client finds in one of them is what it finds in all             *)
Searching ==
  /\ Len(stack) <= MaxDepth + 1
  /\ \A i \in DOMAIN stack : stack[i].file \in DOMAIN conf
  /\ stack[Len(stack)].file = TopConf
  /\ ~Left(1, stack[1].at)
  /\ \A i \in DOMAIN stack : i > 1 =>
       /\ ~Left(i, stack[i].at - 1)
       /\ stack[i].at - 1 \in DOMAIN conf[stack[i].file]
       /\ LET l == conf[stack[i].file][stack[i].at - 1]
          IN  l.op = "include" /\ WhoFor(l.pattern, hasCn) # NoOne /\ l.name = stack[i - 1].file
  /\ \A i \in DOMAIN stack : Said(Level(i))[stack[i].file] # NoEntry =>
       Said(Level(i))[stack[i].file] = Decision(hasCn)

(* Line m of a command file has been dealt with                             *)
Taken(f, m) ==
  LET l == kfiles[f][m]
  IN  ~l.minus => l.op # "bad" /\ (l.op \in {"k", "p"} => l.name \in access)

Opened == {command} \cup (access \cap KFile)

(* The command files that are open: none that the client does not reach,    *)
(* and what has not been dealt with in one is ahead in it                   *)
Listing ==
  /\ \A i \in DOMAIN stack : stack[i].file \in KReached(command) \cap DOMAIN kfiles
  /\ Opened \subseteq DOMAIN kfiles
  /\ \A f \in Opened : \A m \in DOMAIN kfiles[f] :
       Taken(f, m) \/ \E i \in DOMAIN stack : stack[i].file = f /\ stack[i].at <= m

Complete ==
  /\ Opened \subseteq DOMAIN kfiles
  /\ \A f \in Opened : \A m \in DOMAIN kfiles[f] : Taken(f, m)

LookupInv ==
  /\ LookupTypes /\ Asked
  /\ access # {} \/ finding \in After => Decision(hasCn) # NoEntry /\ command = Decision(hasCn).file
  /\ finding \in After => special = [dir |-> DirName[command], id |-> Decision(hasCn).id]
  /\ finding = "none" => Decision(hasCn) = NoEntry
  /\ finding = "config" => Searching
  /\ finding = "kfile" => Listing
  /\ finding = "failed" => ~KReadable(command)
  /\ finding = "ready" \/ (access # {} /\ finding \notin {"kfile", "failed"}) => Complete
  /\ access \subseteq KNamed(command)
-----------------------------------------------------------------------------
(* What the config files say, level by level                                *)

LEMMA FirstOf ==
  ASSUME NEW T \in SUBSET Nat, T # {}
  PROVE  \E m \in T : \A k \in T : m <= k
<1> DEFINE less == OpToRel(<, Nat)
<1>1. IsWellFoundedOn(less, Nat)
  BY NatLessThanWellFounded
<1>2. \A k, m \in Nat : k < m => <<k, m>> \in less
  BY DEF OpToRel
<1> HIDE DEF less
<1>3. PICK m \in T : \A k \in T : ~(<<k, m>> \in less)
  BY <1>1, WFMin
<1>4. m \in Nat /\ \A k \in T : k \in Nat /\ ~(k < m)
  BY <1>2, <1>3
<1>5. \A k \in T : m <= k
  BY <1>4
<1> QED
  BY <1>5

LEMMA SaidByIs ==
  ASSUME NEW cn, NEW n \in 0..MaxDepth
  PROVE  SaidBy(cn)[n] =
           [f \in DOMAIN conf |-> FileSays(cn, n, IF n = 0 THEN <<>> ELSE SaidBy(cn)[n - 1], f)]
<1> DEFINE B(m, below) == [f \in DOMAIN conf |-> FileSays(cn, m, below, f)]
           Good(m, g) == g = [k \in 0..m |-> B(k, IF k = 0 THEN <<>> ELSE g[k - 1])]
           S == SaidBy(cn)
<1>0. S = CHOOSE g : Good(MaxDepth, g)
  BY DEF SaidBy
<1> HIDE DEF B, S
<1>1. ASSUME NEW m \in Nat, m # 0, NEW g, Good(m - 1, g)
      PROVE  \E h : Good(m, h)
  <2> DEFINE h == [k \in 0..m |-> IF k = m THEN B(m, g[m - 1]) ELSE g[k]]
  <2>1. ASSUME NEW k \in 0..m PROVE h[k] = B(k, IF k = 0 THEN <<>> ELSE h[k - 1])
    <3>1. CASE k = m
      <4>1. h[k] = B(m, g[m - 1]) /\ h[k - 1] = g[m - 1]
        BY <1>1, <3>1
      <4> QED
        BY <1>1, <3>1, <4>1
    <3>2. CASE k # m
      <4>1. k \in 0..(m - 1) /\ h[k] = g[k] /\ (k # 0 => h[k - 1] = g[k - 1])
        BY <1>1, <3>2
      <4>2. g[k] = B(k, IF k = 0 THEN <<>> ELSE g[k - 1])
        BY <1>1, <4>1
      <4> QED
        BY <4>1, <4>2
    <3> QED
      BY <3>1, <3>2
  <2>2. h = [k \in 0..m |-> h[k]]
    OBVIOUS
  <2>3. h = [k \in 0..m |-> B(k, IF k = 0 THEN <<>> ELSE h[k - 1])]
    <3> HIDE DEF h
    <3> QED
      BY <2>1, <2>2
  <2> HIDE DEF h
  <2> QED
    BY <2>3
<1>2. \E g : Good(0, g)
  <2> DEFINE h == [k \in 0..0 |-> B(k, <<>>)]
  <2>1. h = [k \in 0..0 |-> B(k, IF k = 0 THEN <<>> ELSE h[k - 1])]
    OBVIOUS
  <2> HIDE DEF h
  <2> QED
    BY <2>1
<1> HIDE DEF Good
<1>3. \A m \in Nat : \E g : Good(m, g)
  <2> DEFINE T == { m \in Nat : ~\E g : Good(m, g) }
  <2>1. SUFFICES ASSUME T # {} PROVE FALSE
    OBVIOUS
  <2>2. PICK m \in T : \A k \in T : m <= k
    BY <2>1, FirstOf
  <2>3. m # 0
    BY <1>2, <2>2
  <2>4. m \in Nat /\ m - 1 \in Nat /\ m - 1 \notin T
    BY <2>2, <2>3
  <2>5. \E g : Good(m - 1, g)
    BY <2>4
  <2> QED
    BY <1>1, <2>2, <2>3, <2>4, <2>5
<1>4. Good(MaxDepth, S)
  BY <1>0, <1>3, ServerConfigAssumption
<1>5. S = [k \in 0..MaxDepth |-> B(k, IF k = 0 THEN <<>> ELSE S[k - 1])]
  BY <1>4 DEF Good
<1>6. S[n] = B(n, IF n = 0 THEN <<>> ELSE S[n - 1])
  BY <1>5
<1> QED
  BY <1>6 DEF B, S

(* ... and file by file: the first line at which it is left decides         *)
LEMMA FileIs ==
  ASSUME LookupTypes, NEW cn, NEW n \in 0..MaxDepth, NEW f \in DOMAIN conf
  PROVE  LET below == IF n = 0 THEN <<>> ELSE SaidBy(cn)[n - 1]
             ends  == Leaving(cn, n, below, f)
         IN  /\ ends = {} => SaidBy(cn)[n][f] = NoEntry
             /\ \A k \in ends : (\A m \in ends : ~(m < k)) =>
                  SaidBy(cn)[n][f] = LineSays(cn, below, conf[f][k])
<1> DEFINE below == IF n = 0 THEN <<>> ELSE SaidBy(cn)[n - 1]
           ends  == Leaving(cn, n, below, f)
<1>0. SaidBy(cn)[n] = [g \in DOMAIN conf |-> FileSays(cn, n, below, g)]
  BY SaidByIs
<1> HIDE DEF below
<1>1. SaidBy(cn)[n][f] = FileSays(cn, n, below, f)
  BY <1>0
<1>2. ends = {} => FileSays(cn, n, below, f) = NoEntry
  BY DEF FileSays
<1>3. ASSUME NEW k \in ends, \A m \in ends : ~(m < k)
      PROVE  FileSays(cn, n, below, f) = LineSays(cn, below, conf[f][k])
  <2>1. ends \subseteq Nat
    BY DEF Leaving, LookupTypes
  <2> DEFINE First(j) == j \in ends /\ \A m \in ends : j <= m
  <2>2. First(k) /\ \A j : First(j) => j = k
    BY <1>3, <2>1
  <2>3. FileSays(cn, n, below, f) =
          LineSays(cn, below, conf[f][CHOOSE j \in ends : \A m \in ends : j <= m])
    BY <1>3 DEF FileSays
  <2> HIDE DEF ends
  <2>4. (CHOOSE j \in ends : \A m \in ends : j <= m) = k
    BY <2>2
  <2> QED
    BY <2>3, <2>4
<1> QED
  BY <1>1, <1>2, <1>3 DEF below

LEMMA SaidKept ==
  ASSUME UNCHANGED <<conf, hasCn>>
  PROVE  /\ SaidBy(hasCn)' = SaidBy(hasCn) /\ Decision(hasCn)' = Decision(hasCn)
         /\ \A n, below, f : Leaving(hasCn, n, below, f)' = Leaving(hasCn, n, below, f)
<1>1. SaidBy(hasCn)' = SaidBy(hasCn)
  BY SMTT(20), ZenonT(30) DEF SaidBy, FileSays, Leaving, LineSays, WhoFor
<1>2. Decision(hasCn)' = Decision(hasCn)
  BY <1>1 DEF Decision
<1>3. \A n, below, f : Leaving(hasCn, n, below, f)' = Leaving(hasCn, n, below, f)
  BY DEF Leaving, LineSays, WhoFor
<1> QED
  BY <1>1, <1>2, <1>3

(* Where the search is                                                      *)
LEMMA LevelIs ==
  ASSUME LookupTypes, Searching, NEW i \in DOMAIN stack
  PROVE  /\ i \in Nat /\ Level(i) \in 0..MaxDepth /\ stack[i].file \in DOMAIN conf /\ stack[i].at \in Nat \ {0}
         /\ conf[stack[i].file] \in Seq(ConfLine)
         /\ Below(i) = IF Level(i) = 0 THEN <<>> ELSE SaidBy(hasCn)[Level(i) - 1]
         /\ Level(i) # 0 => DOMAIN Below(i) = DOMAIN conf
         /\ i > 1 => i - 1 \in DOMAIN stack /\ Level(i) # 0 /\ Level(i) - 1 = Level(i - 1)
<1>1. stack \in Seq(Frames) /\ Len(stack) \in Nat /\ Len(stack) <= MaxDepth + 1 /\ MaxDepth \in Nat
  BY ServerConfigAssumption DEF LookupTypes, Searching
<1>2. i \in Nat /\ i >= 1 /\ i <= Len(stack)
  BY <1>1
<1>3. Level(i) \in 0..MaxDepth /\ (i > 1 => i - 1 \in DOMAIN stack /\ Level(i) # 0 /\ Level(i) - 1 = Level(i - 1))
  <2> DEFINE L == Len(stack)
  <2>1. L \in Nat /\ L <= MaxDepth + 1 /\ DOMAIN stack = 1..L /\ i <= L
    BY <1>1, <1>2
  <2>2. Level(i) = MaxDepth - (L - i) /\ Level(i - 1) = MaxDepth - (L - (i - 1))
    BY DEF Level
  <2> HIDE DEF L
  <2> QED
    BY <1>1, <1>2, <2>1, <2>2
<1>4. stack[i].file \in DOMAIN conf /\ stack[i].at \in Nat \ {0}
  <2>1. stack[i] \in Frames
    BY <1>1
  <2>2. stack[i].at \in Nat \ {0}
    BY <2>1 DEF Frames
  <2>3. stack[i].file \in DOMAIN conf
    BY DEF Searching
  <2> QED
    BY <2>2, <2>3
<1>5. Below(i) = IF Level(i) = 0 THEN <<>> ELSE SaidBy(hasCn)[Level(i) - 1]
  BY DEF Below, Said
<1> HIDE DEF Level
<1>6. ASSUME Level(i) # 0 PROVE DOMAIN Below(i) = DOMAIN conf
  <2>1. Level(i) - 1 \in 0..MaxDepth
    BY <1>3, <1>6, <1>1
  <2> DEFINE n == Level(i) - 1
  <2> HIDE DEF n
  <2>2. DOMAIN SaidBy(hasCn)[n] = DOMAIN conf
    BY <2>1, SaidByIs DEF n
  <2> QED
    BY <1>5, <1>6, <2>2 DEF n
<1> QED
  BY <1>2, <1>3, <1>4, <1>5, <1>6 DEF LookupTypes

(* The line at which the search is, and what it is worth                    *)
TopLine == conf[Top.file][Top.at]

LEMMA LineLeaves ==
  ASSUME LookupTypes, Searching, stack # <<>>, Top.at <= Len(conf[Top.file])
  PROVE  /\ 1 \in DOMAIN stack /\ Top.at \in DOMAIN conf[Top.file] /\ TopLine \in ConfLine
         /\ Top.at \in Leaving(hasCn, Level(1), Below(1), Top.file) <=>
              \/ LineSays(hasCn, Below(1), TopLine) # NoEntry
              \/ TopLine.op = "include" /\ Level(1) = 0
<1>1. 1 \in DOMAIN stack
  BY DEF LookupTypes
<1>2. Top.file \in DOMAIN conf /\ Top.at \in Nat \ {0} /\ conf[Top.file] \in Seq(ConfLine)
  BY <1>1, LevelIs DEF Top
<1>3. Top.at \in DOMAIN conf[Top.file]
  BY <1>2
<1>4. TopLine \in ConfLine
  BY <1>2, <1>3 DEF TopLine
<1> QED
  BY <1>1, <1>3, <1>4 DEF Leaving, TopLine

(* It is the first at which the file is left: then it decides               *)
LEMMA LineDecides ==
  ASSUME LookupTypes, Searching, stack # <<>>, Top.at <= Len(conf[Top.file]),
         Top.at \in Leaving(hasCn, Level(1), Below(1), Top.file)
  PROVE  Said(Level(1))[Top.file] = LineSays(hasCn, Below(1), TopLine)
<1>1. 1 \in DOMAIN stack
  BY DEF LookupTypes
<1>2. /\ Level(1) \in 0..MaxDepth /\ Top.file \in DOMAIN conf
      /\ Below(1) = IF Level(1) = 0 THEN <<>> ELSE SaidBy(hasCn)[Level(1) - 1]
  BY <1>1, LevelIs DEF Top
<1> DEFINE n == Level(1)
           f == Top.file
<1>3. \A k \in Leaving(hasCn, n, Below(1), f) : ~(k < Top.at)
  BY DEF Searching, Left, Top
<1> HIDE DEF n, f
<1>4. SaidBy(hasCn)[n][f] = LineSays(hasCn, Below(1), conf[f][Top.at])
  BY <1>2, <1>3, FileIs DEF n, f
<1> QED
  BY <1>4 DEF n, f, Said, TopLine

(* It is the last: then the file says nothing                               *)
LEMMA NothingFound ==
  ASSUME LookupTypes, Searching, stack # <<>>, Top.at > Len(conf[Top.file])
  PROVE  Said(Level(1))[Top.file] = NoEntry
<1>1. 1 \in DOMAIN stack
  BY DEF LookupTypes
<1>2. /\ Level(1) \in 0..MaxDepth /\ Top.file \in DOMAIN conf /\ Top.at \in Nat
      /\ Below(1) = IF Level(1) = 0 THEN <<>> ELSE SaidBy(hasCn)[Level(1) - 1]
      /\ conf[Top.file] \in Seq(ConfLine)
  BY <1>1, LevelIs DEF Top
<1>3. \A k \in Leaving(hasCn, Level(1), Below(1), Top.file) : ~(k < Top.at)
  BY DEF Searching, Left, Top
<1>4. \A k \in Leaving(hasCn, Level(1), Below(1), Top.file) : k < Top.at
  BY <1>2 DEF Leaving
<1>5. Leaving(hasCn, Level(1), Below(1), Top.file) = {}
  BY <1>3, <1>4
<1> QED
  BY <1>2, <1>5, FileIs DEF Said

(* The next line                                                            *)
LEMMA NextLineIs ==
  ASSUME LookupTypes, stack # <<>>
  PROVE  /\ NextLine \in Seq(Frames) /\ Len(NextLine) = Len(stack) /\ DOMAIN NextLine = DOMAIN stack
         /\ 1 \in DOMAIN stack /\ NextLine[1].file = Top.file /\ NextLine[1].at = Top.at + 1
         /\ NextLine[1] \in Frames
         /\ \A i \in DOMAIN stack : i # 1 => NextLine[i] = stack[i]
<1>1. stack \in Seq(Frames) /\ 1 \in DOMAIN stack /\ Len(stack) \in Nat
  BY DEF LookupTypes
<1>2. Top \in Frames
  BY <1>1 DEF Top
<1>3. /\ [Top EXCEPT !.at = @ + 1] \in Frames
      /\ [Top EXCEPT !.at = @ + 1].file = Top.file /\ [Top EXCEPT !.at = @ + 1].at = Top.at + 1
  BY <1>2 DEF Frames
<1> DEFINE x == [Top EXCEPT !.at = @ + 1]
<1>4. NextLine = [stack EXCEPT ![1] = x]
  BY DEF NextLine, Top
<1> HIDE DEF x
<1>5. x \in Frames /\ x.file = Top.file /\ x.at = Top.at + 1
  BY <1>3 DEF x
<1>6. NextLine \in Seq(Frames) /\ Len(NextLine) = Len(stack) /\ DOMAIN NextLine = DOMAIN stack
  BY <1>1, <1>4, <1>5
<1>7. NextLine[1] = x /\ \A i \in DOMAIN stack : i # 1 => NextLine[i] = stack[i]
  BY <1>1, <1>4
<1> QED
  BY <1>1, <1>5, <1>6, <1>7

LEMMA ReadOn ==
  ASSUME LookupTypes, Searching, stack # <<>>, Top.at <= Len(conf[Top.file]),
         Top.at \notin Leaving(hasCn, Level(1), Below(1), Top.file),
         UNCHANGED <<conf, hasCn>>, stack' = NextLine
  PROVE  Searching'
<1>1. /\ stack' \in Seq(Frames) /\ Len(stack') = Len(stack) /\ DOMAIN stack' = DOMAIN stack
      /\ 1 \in DOMAIN stack /\ stack'[1].file = Top.file /\ stack'[1].at = Top.at + 1
      /\ \A i \in DOMAIN stack : i # 1 => stack'[i] = stack[i]
  BY NextLineIs
<1>2. \A i \in DOMAIN stack : stack'[i].file = stack[i].file
  BY <1>1 DEF Top
<1>3. /\ \A i : Level(i)' = Level(i) /\ Below(i)' = Below(i)
      /\ \A n : Said(n)' = Said(n)
      /\ Decision(hasCn)' = Decision(hasCn)
      /\ \A n, below, f : Leaving(hasCn, n, below, f)' = Leaving(hasCn, n, below, f)
  BY <1>1, SaidKept DEF Level, Below, Said
<1>4. ~Left(1, stack[1].at)'
  <2>1. \A k \in Leaving(hasCn, Level(1), Below(1), Top.file) : k \in Nat /\ ~(k < Top.at) /\ k # Top.at
    BY <1>1, LevelIs DEF Searching, Left, Top, Leaving
  <2>2. Top.at \in Nat
    BY <1>1, LevelIs DEF Top
  <2>3. \A k \in Leaving(hasCn, Level(1), Below(1), Top.file) : ~(k < Top.at + 1)
    BY <2>1, <2>2
  <2> QED
    BY <1>1, <1>3, <2>3 DEF Left
<1>5. ASSUME NEW i \in DOMAIN stack, i > 1
      PROVE  /\ ~Left(i, stack[i].at - 1)'
             /\ stack'[i].at - 1 \in DOMAIN conf'[stack'[i].file]
             /\ LET l == conf'[stack'[i].file][stack'[i].at - 1]
                IN  l.op = "include" /\ WhoFor(l.pattern, hasCn') # NoOne /\ l.name = stack'[i - 1].file
  <2>1. i # 1 /\ i - 1 \in DOMAIN stack
    BY <1>5, LevelIs
  <2>2. stack'[i] = stack[i] /\ stack'[i - 1].file = stack[i - 1].file
    BY <1>1, <1>2, <2>1
  <2>3. ~Left(i, stack[i].at - 1)'
    BY <1>3, <1>5, <2>2 DEF Searching, Left
  <2> QED
    BY <1>5, <2>2, <2>3 DEF Searching
<1>6. stack'[Len(stack')].file = TopConf /\ Len(stack') <= MaxDepth + 1
  BY <1>1, <1>2 DEF Searching, LookupTypes
<1>7. \A i \in DOMAIN stack : stack'[i].file \in DOMAIN conf'
  BY <1>2 DEF Searching
<1>8. \A i \in DOMAIN stack : Said(Level(i))'[stack'[i].file] # NoEntry =>
        Said(Level(i))'[stack'[i].file] = Decision(hasCn)'
  BY <1>2, <1>3 DEF Searching
<1> QED
  BY <1>1, <1>4, <1>5, <1>6, <1>7, <1>8 DEF Searching

(* A file that is included                                                  *)
LEMMA Pushed ==
  ASSUME LookupTypes, stack # <<>>, NEW f \in DOMAIN conf \cup DOMAIN kfiles,
         stack' = <<FirstLineOf(f)>> \o NextLine
  PROVE  /\ stack' \in Seq(Frames) /\ Len(stack') = Len(stack) + 1
         /\ stack'[1].file = f /\ stack'[1].at = 1 /\ 1 \in DOMAIN stack
         /\ \A i \in DOMAIN stack' : i # 1 => i - 1 \in DOMAIN stack /\ stack'[i] = NextLine[i - 1]
         /\ \A i \in DOMAIN stack : i + 1 \in DOMAIN stack' /\ stack'[i + 1] = NextLine[i]
<1>1. FirstLineOf(f) \in Frames /\ FirstLineOf(f).file = f /\ FirstLineOf(f).at = 1
  BY DEF FirstLineOf, Frames
<1>2. /\ NextLine \in Seq(Frames) /\ Len(NextLine) = Len(stack) /\ DOMAIN NextLine = DOMAIN stack
      /\ 1 \in DOMAIN stack
  BY NextLineIs
<1> HIDE DEF NextLine, FirstLineOf, Frames
<1> QED
  BY <1>1, <1>2

LEMMA GoesInto ==
  ASSUME LookupTypes, Searching, stack # <<>>, Top.at <= Len(conf[Top.file]),
         TopLine.op = "include", WhoFor(TopLine.pattern, hasCn) # NoOne, TopLine.name \in DOMAIN conf,
         Len(stack) <= MaxDepth, UNCHANGED <<conf, hasCn>>,
         stack' = <<FirstLineOf(TopLine.name)>> \o NextLine
  PROVE  Searching'
<1> DEFINE f == TopLine.name
<1>1. /\ stack' \in Seq(Frames) /\ Len(stack') = Len(stack) + 1 /\ Len(stack) \in Nat
      /\ stack'[1].file = f /\ stack'[1].at = 1 /\ 1 \in DOMAIN stack
      /\ \A i \in DOMAIN stack' : i # 1 => i - 1 \in DOMAIN stack /\ stack'[i] = NextLine[i - 1]
      /\ \A i \in DOMAIN stack : i + 1 \in DOMAIN stack' /\ stack'[i + 1] = NextLine[i]
  <2> HIDE DEF f
  <2>1. f \in DOMAIN conf /\ stack' = <<FirstLineOf(f)>> \o NextLine
    BY DEF f
  <2>2. Len(stack) \in Nat
    BY DEF LookupTypes
  <2> QED
    BY <2>1, <2>2, Pushed
<1>2. /\ NextLine[1].file = Top.file /\ NextLine[1].at = Top.at + 1
      /\ \A i \in DOMAIN stack : i # 1 => NextLine[i] = stack[i]
      /\ \A i \in DOMAIN stack : NextLine[i].file = stack[i].file
  BY NextLineIs DEF Top
<1>3. /\ Top.at \in DOMAIN conf[Top.file] /\ TopLine \in ConfLine /\ Top.at \in Nat
      /\ Top.file \in DOMAIN conf /\ MaxDepth \in Nat
  BY <1>1, LineLeaves, LevelIs, ServerConfigAssumption DEF Top
<1>4. /\ \A n : Said(n)' = Said(n)
      /\ Decision(hasCn)' = Decision(hasCn)
      /\ \A n, below, g : Leaving(hasCn, n, below, g)' = Leaving(hasCn, n, below, g)
  BY SaidKept DEF Said
<1>5. ASSUME NEW i \in DOMAIN stack', i # 1
      PROVE  Level(i)' = Level(i - 1) /\ Below(i)' = Below(i - 1) /\ i - 1 \in DOMAIN stack /\ i \in Nat
  <2>1. i \in Nat /\ i - 1 \in DOMAIN stack
    BY <1>1, <1>5
  <2>2. Level(i)' = Level(i - 1)
    BY <1>1, <1>3, <2>1 DEF Level
  <2> QED
    BY <1>4, <2>1, <2>2 DEF Below
<1>6. Level(1)' = Level(1) - 1 /\ Level(1) \in 1..MaxDepth /\ Level(1)' \in 0..MaxDepth
  <2>1. Level(1)' = MaxDepth - (Len(stack) + 1 - 1) /\ Level(1) = MaxDepth - (Len(stack) - 1)
    BY <1>1 DEF Level
  <2> DEFINE L == Len(stack)
  <2>2. L \in Nat /\ L >= 1 /\ L <= MaxDepth
    BY <1>1
  <2>3. Level(1)' = MaxDepth - (L + 1 - 1) /\ Level(1) = MaxDepth - (L - 1)
    BY <2>1
  <2> HIDE DEF Level, L
  <2> QED
    BY <1>3, <2>2, <2>3
<1> HIDE DEF Level
<1>7. ~Left(1, stack[1].at)'
  <2>1. \A k \in Leaving(hasCn, Level(1)', Below(1)', f) : ~(k < 1)
    <3>1. conf[f] \in Seq(ConfLine)
      BY DEF LookupTypes
    <3> QED
      BY <3>1 DEF Leaving
  <2> QED
    BY <1>1, <1>4, <2>1 DEF Left
<1>8. LineSays(hasCn, Below(1), TopLine) = Said(Level(1) - 1)[f]
  <2>1. Below(1) = SaidBy(hasCn)[Level(1) - 1] /\ DOMAIN Below(1) = DOMAIN conf
    BY <1>1, <1>6, LevelIs
  <2>2. LineSays(hasCn, Below(1), TopLine) = Below(1)[f]
    BY <2>1 DEF LineSays
  <2> QED
    BY <2>1, <2>2 DEF Said
<1>9. Said(Level(1) - 1)[f] # NoEntry => Said(Level(1) - 1)[f] = Decision(hasCn)
  <2> SUFFICES ASSUME Said(Level(1) - 1)[f] # NoEntry PROVE Said(Level(1) - 1)[f] = Decision(hasCn)
    OBVIOUS
  <2>1. Top.at \in Leaving(hasCn, Level(1), Below(1), Top.file)
    BY <1>8, LineLeaves
  <2>2. Said(Level(1))[Top.file] = Said(Level(1) - 1)[f]
    BY <1>8, <2>1, LineDecides
  <2> QED
    BY <1>1, <2>2 DEF Searching, Top
<1>10. \A i \in DOMAIN stack' : /\ stack'[i].file \in DOMAIN conf'
                                /\ Said(Level(i))'[stack'[i].file] # NoEntry =>
                                     Said(Level(i))'[stack'[i].file] = Decision(hasCn)'
  <2> SUFFICES ASSUME NEW i \in DOMAIN stack'
               PROVE  /\ stack'[i].file \in DOMAIN conf'
                      /\ Said(Level(i))'[stack'[i].file] # NoEntry =>
                           Said(Level(i))'[stack'[i].file] = Decision(hasCn)'
    OBVIOUS
  <2>1. CASE i = 1
    <3>1. Said(Level(1))' = Said(Level(1) - 1)
      BY <1>4, <1>6 DEF Said
    <3> QED
      BY <1>1, <1>4, <1>9, <2>1, <3>1
  <2>2. CASE i # 1
    <3>1. Level(i)' = Level(i - 1) /\ i - 1 \in DOMAIN stack /\ stack'[i].file = stack[i - 1].file
      BY <1>1, <1>2, <1>5, <2>2
    <3>2. Said(Level(i))' = Said(Level(i - 1))
      BY <1>4, <3>1 DEF Said
    <3> QED
      BY <1>4, <3>1, <3>2 DEF Searching
  <2> QED
    BY <2>1, <2>2
<1>11. stack'[Len(stack')].file = TopConf /\ Len(stack') <= MaxDepth + 1
  <2>1. Len(stack) \in DOMAIN stack /\ Len(stack') = Len(stack) + 1
    BY <1>1
  <2>2. stack'[Len(stack')] = NextLine[Len(stack)]
    BY <1>1, <2>1
  <2> QED
    BY <1>1, <1>2, <1>3, <2>1, <2>2 DEF Searching
<1>12. ASSUME NEW i \in DOMAIN stack', i > 1
       PROVE  /\ ~Left(i, stack[i].at - 1)'
              /\ stack'[i].at - 1 \in DOMAIN conf'[stack'[i].file]
              /\ LET l == conf'[stack'[i].file][stack'[i].at - 1]
                 IN  l.op = "include" /\ WhoFor(l.pattern, hasCn') # NoOne /\ l.name = stack'[i - 1].file
  <2>1. /\ i # 1 /\ i - 1 \in DOMAIN stack /\ stack'[i] = NextLine[i - 1] /\ i \in Nat
        /\ Level(i)' = Level(i - 1) /\ Below(i)' = Below(i - 1)
    BY <1>1, <1>5, <1>12
  <2>2. CASE i = 2
    <3>1. stack'[2].file = Top.file /\ stack'[2].at - 1 = Top.at
      BY <1>2, <1>3, <2>1, <2>2
    <3>2. ~Left(i, stack[i].at - 1)'
      BY <1>4, <2>1, <2>2, <3>1 DEF Searching, Left, Top
    <3>3. stack'[i - 1].file = f
      BY <1>1, <2>2
    <3> QED
      BY <1>3, <2>2, <3>1, <3>2, <3>3 DEF TopLine
  <2>3. CASE i # 2
    <3>1. i - 1 > 1 /\ i - 1 # 1 /\ i - 2 \in DOMAIN stack /\ i - 1 \in DOMAIN stack' /\ (i - 1) - 1 = i - 2
      <4>1. i - 1 > 1 /\ i - 1 # 1 /\ (i - 1) - 1 = i - 2
        BY <1>12, <2>1, <2>3
      <4> DEFINE L == Len(stack)
      <4>2. L \in Nat /\ DOMAIN stack = 1..L /\ DOMAIN stack' = 1..(L + 1)
        BY <1>1 DEF LookupTypes
      <4>3. i - 1 \in 1..L /\ i \in Nat
        BY <2>1, <4>2
      <4> HIDE DEF L
      <4>4. i - 2 \in 1..L /\ i - 1 \in 1..(L + 1)
        BY <4>1, <4>2, <4>3
      <4> QED
        BY <4>1, <4>2, <4>4
    <3>2. stack'[i] = stack[i - 1] /\ stack'[i - 1].file = stack[i - 2].file
      <4>1. stack'[i] = stack[i - 1]
        BY <1>2, <2>1, <3>1
      <4>2. stack'[i - 1] = NextLine[i - 2]
        BY <1>1, <3>1
      <4> QED
        BY <1>2, <3>1, <4>1, <4>2
    <3>3. ~Left(i, stack[i].at - 1)'
      BY <1>4, <2>1, <3>1, <3>2 DEF Searching, Left
    <3> QED
      BY <2>1, <3>1, <3>2, <3>3 DEF Searching
  <2> QED
    BY <2>2, <2>3
<1> QED
  BY <1>7, <1>10, <1>11, <1>12 DEF Searching

(* The file is left without an answer                                       *)
LEMMA Popped ==
  ASSUME LookupTypes, stack # <<>>, stack' = Tail(stack)
  PROVE  /\ stack' \in Seq(Frames) /\ Len(stack') = Len(stack) - 1
         /\ Len(stack) \in Nat \ {0} /\ Len(stack) \in DOMAIN stack /\ 1 \in DOMAIN stack
         /\ \A i \in DOMAIN stack' : i \in Nat /\ i + 1 \in DOMAIN stack /\ stack'[i] = stack[i + 1]
         /\ \A i \in DOMAIN stack : i > 1 => i - 1 \in DOMAIN stack'
         /\ Len(stack) # 1 => stack' # <<>>
<1> DEFINE L == Len(stack)
<1>1. stack \in Seq(Frames) /\ L \in Nat \ {0} /\ DOMAIN stack = 1..L
  BY DEF LookupTypes
<1>2. stack' \in Seq(Frames) /\ Len(stack') = L - 1 /\ DOMAIN stack' = 1..(L - 1)
  BY <1>1
<1>3. \A i \in 1..(L - 1) : stack'[i] = stack[i + 1]
  <2>1. stack \in Seq(Frames) /\ stack # <<>> /\ L = Len(stack)
    BY <1>1
  <2>2. \A i \in 1..(Len(stack) - 1) : Tail(stack)[i] = stack[i + 1]
    BY <2>1, HeadTailProperties
  <2> QED
    BY <2>2
<1>4. ASSUME stack' = <<>> PROVE L = 1
  <2>1. L - 1 = Len(<<>>) /\ L \in Nat
    BY <1>1, <1>2, <1>4
  <2>2. Len(<<>>) = 0
    OBVIOUS
  <2> HIDE DEF L
  <2> QED
    BY <2>1, <2>2
<1> HIDE DEF L
<1>0. L \in Nat /\ L >= 1
  BY <1>1
<1>5. L \in 1..L /\ 1 \in 1..L
  BY <1>0
<1>6. \A i \in 1..(L - 1) : i \in Nat /\ i + 1 \in 1..L
  BY <1>0
<1>7. \A i \in 1..L : i > 1 => i - 1 \in 1..(L - 1)
  BY <1>0
<1> QED
  BY <1>1, <1>2, <1>3, <1>4, <1>5, <1>6, <1>7 DEF L

LEMMA GoesBack ==
  ASSUME LookupTypes, Searching, stack # <<>>, Len(stack) # 1,
         Said(Level(1))[Top.file] = NoEntry, UNCHANGED <<conf, hasCn>>, stack' = Tail(stack)
  PROVE  Searching'
<1>1. /\ stack' \in Seq(Frames) /\ Len(stack') = Len(stack) - 1
      /\ Len(stack) \in Nat \ {0} /\ Len(stack) \in DOMAIN stack /\ 1 \in DOMAIN stack
      /\ \A i \in DOMAIN stack' : i \in Nat /\ i + 1 \in DOMAIN stack /\ stack'[i] = stack[i + 1]
      /\ stack' # <<>>
  BY Popped
<1>2. /\ \A n : Said(n)' = Said(n)
      /\ Decision(hasCn)' = Decision(hasCn)
      /\ \A n, below, g : Leaving(hasCn, n, below, g)' = Leaving(hasCn, n, below, g)
  BY SaidKept DEF Said
<1>3. MaxDepth \in Nat
  BY ServerConfigAssumption
<1>4. ASSUME NEW i \in DOMAIN stack'
      PROVE  /\ Level(i)' = Level(i + 1) /\ Below(i)' = Below(i + 1) /\ i + 1 \in DOMAIN stack /\ i \in Nat
             /\ i + 1 > 1 /\ (i + 1) - 1 = i /\ i >= 1 /\ i + 1 \in Nat /\ (i > 1 => (i - 1) + 1 = i)
  <2>1. i \in Nat /\ i + 1 \in DOMAIN stack /\ i >= 1
    BY <1>1
  <2>2. Level(i)' = Level(i + 1)
    BY <1>1, <1>3, <2>1 DEF Level
  <2> HIDE DEF Level
  <2>3. Below(i)' = Below(i + 1)
    BY <1>2, <2>2 DEF Below
  <2> QED
    BY <2>1, <2>2, <2>3
<1> HIDE DEF Level
<1>5. \A i \in DOMAIN stack' : /\ stack'[i].file \in DOMAIN conf'
                               /\ Said(Level(i))'[stack'[i].file] # NoEntry =>
                                    Said(Level(i))'[stack'[i].file] = Decision(hasCn)'
  <2> SUFFICES ASSUME NEW i \in DOMAIN stack'
               PROVE  /\ stack'[i].file \in DOMAIN conf'
                      /\ Said(Level(i))'[stack'[i].file] # NoEntry =>
                           Said(Level(i))'[stack'[i].file] = Decision(hasCn)'
    OBVIOUS
  <2>1. Said(Level(i))' = Said(Level(i + 1)) /\ stack'[i] = stack[i + 1] /\ i + 1 \in DOMAIN stack
    BY <1>1, <1>2, <1>4 DEF Said
  <2> QED
    BY <1>2, <2>1 DEF Searching
<1>6. stack'[Len(stack')].file = TopConf /\ Len(stack') <= MaxDepth + 1
  <2>1. Len(stack') \in DOMAIN stack' /\ Len(stack') + 1 = Len(stack)
    BY <1>1
  <2>2. Len(stack') <= MaxDepth + 1
    BY <1>1, <1>3 DEF Searching
  <2> QED
    BY <1>1, <2>1, <2>2 DEF Searching
<1>7. ASSUME NEW i \in DOMAIN stack', i > 1
      PROVE  /\ ~Left(i, stack[i].at - 1)'
             /\ stack'[i].at - 1 \in DOMAIN conf'[stack'[i].file]
             /\ LET l == conf'[stack'[i].file][stack'[i].at - 1]
                IN  l.op = "include" /\ WhoFor(l.pattern, hasCn') # NoOne /\ l.name = stack'[i - 1].file
  <2>1. /\ stack'[i] = stack[i + 1] /\ i + 1 \in DOMAIN stack /\ i + 1 > 1 /\ (i + 1) - 1 = i
        /\ Level(i)' = Level(i + 1) /\ Below(i)' = Below(i + 1)
    BY <1>1, <1>4
  <2>2. i - 1 \in DOMAIN stack' /\ (i - 1) + 1 = i
    BY <1>1, <1>4, <1>7
  <2>3. stack'[i - 1] = stack[i]
    BY <1>1, <2>2
  <2>4. ~Left(i, stack[i].at - 1)'
    BY <1>2, <2>1 DEF Searching, Left
  <2> QED
    BY <2>1, <2>3, <2>4 DEF Searching
<1>8. ~Left(1, stack[1].at)'
  <2>1. /\ 1 \in DOMAIN stack' /\ 2 \in DOMAIN stack /\ stack'[1] = stack[2]
        /\ Level(1)' = Level(2) /\ Below(1)' = Below(2)
    <3>1. 1 \in DOMAIN stack'
      BY <1>1
    <3>2. 1 + 1 = 2
      OBVIOUS
    <3> QED
      BY <1>1, <1>4, <3>1, <3>2
  <2>2. /\ Level(2) # 0 /\ Level(2) - 1 = Level(1) /\ stack[2].file \in DOMAIN conf
        /\ Below(2) = SaidBy(hasCn)[Level(2) - 1] /\ stack[2].at \in Nat
        /\ DOMAIN Below(2) = DOMAIN conf
    BY <2>1, LevelIs
  <2> DEFINE f  == stack[2].file
             at == stack[2].at
             l  == conf[f][at - 1]
  <2>3. /\ ~Left(2, at - 1) /\ at - 1 \in DOMAIN conf[f]
        /\ l.op = "include" /\ l.name = Top.file
    BY <2>1 DEF Searching, Top
  <2>4. LineSays(hasCn, Below(2), l) = NoEntry
    <3>1. Below(2)[l.name] = NoEntry
      BY <2>2, <2>3 DEF Said
    <3> QED
      BY <2>3, <3>1 DEF LineSays
  <2>5. at - 1 \notin Leaving(hasCn, Level(2), Below(2), f)
    BY <2>2, <2>3, <2>4 DEF Leaving
  <2>6. \A k \in Leaving(hasCn, Level(2), Below(2), f) : k \in Nat /\ ~(k < at - 1) /\ k # at - 1
    <3>1. conf[f] \in Seq(ConfLine)
      BY <2>2 DEF LookupTypes
    <3>2. \A k \in Leaving(hasCn, Level(2), Below(2), f) : k \in Nat
      BY <3>1 DEF Leaving
    <3> QED
      BY <2>3, <2>5, <3>2 DEF Left
  <2> HIDE DEF f, at
  <2>7. at \in Nat
    BY <2>2 DEF at
  <2>8. \A k \in Leaving(hasCn, Level(2), Below(2), f) : ~(k < at)
    BY <2>6, <2>7
  <2> QED
    BY <1>2, <2>1, <2>8 DEF Left, f, at
<1> QED
  BY <1>5, <1>6, <1>7, <1>8 DEF Searching

(* The first file is left without an answer: then there is none             *)
LEMMA NoneThere ==
  ASSUME LookupTypes, Searching, Len(stack) = 1, Said(Level(1))[Top.file] = NoEntry
  PROVE  Decision(hasCn) = NoEntry
<1>1. Level(1) = MaxDepth
  BY ServerConfigAssumption DEF Level
<1>2. Top.file = TopConf /\ TopConf \in DOMAIN conf
  BY DEF Searching, Top, LookupTypes
<1> QED
  BY <1>1, <1>2 DEF Decision, Said

(* A file from which no more may be included is left at an include          *)
LEMMA TooDeep ==
  ASSUME LookupTypes, Searching, stack # <<>>, Top.at <= Len(conf[Top.file]),
         TopLine.op = "include", Len(stack) > MaxDepth
  PROVE  Said(Level(1))[Top.file] = NoEntry
<1>1. Level(1) = 0
  BY ServerConfigAssumption DEF Level, Searching, LookupTypes
<1>2. Below(1) = <<>>
  BY <1>1 DEF Below
<1>3. LineSays(hasCn, Below(1), TopLine) = NoEntry
  BY <1>2 DEF LineSays
<1> HIDE DEF Level
<1> QED
  BY <1>1, <1>3, LineLeaves, LineDecides

(* An entry for the client                                                  *)
LEMMA EntryDecides ==
  ASSUME LookupTypes, Searching, stack # <<>>, Top.at <= Len(conf[Top.file]),
         TopLine.op = "entry", WhoFor(TopLine.pattern, hasCn) # NoOne
  PROVE  /\ Decision(hasCn) = [file |-> TopLine.name, id |-> WhoFor(TopLine.pattern, hasCn)]
         /\ Decision(hasCn) # NoEntry
<1> DEFINE e == [file |-> TopLine.name, id |-> WhoFor(TopLine.pattern, hasCn)]
<1>1. LineSays(hasCn, Below(1), TopLine) = e /\ e # NoEntry
  BY DEF LineSays, NoEntry
<1> HIDE DEF e
<1>2. Said(Level(1))[Top.file] = e /\ 1 \in DOMAIN stack
  BY <1>1, LineLeaves, LineDecides
<1>3. Decision(hasCn) = e
  BY <1>1, <1>2 DEF Searching, Top
<1> QED
  BY <1>1, <1>3 DEF e

(* A line that does not decide                                              *)
LEMMA SaysNothing ==
  ASSUME LookupTypes, Searching, stack # <<>>, Top.at <= Len(conf[Top.file]),
         \/ TopLine.op = "bad"
         \/ TopLine.op = "entry" /\ WhoFor(TopLine.pattern, hasCn) = NoOne
         \/ /\ TopLine.op = "include" /\ Len(stack) <= MaxDepth
            /\ WhoFor(TopLine.pattern, hasCn) = NoOne \/ TopLine.name \notin DOMAIN conf
  PROVE  Top.at \notin Leaving(hasCn, Level(1), Below(1), Top.file)
<1>1. 1 \in DOMAIN stack
  BY DEF LookupTypes
<1>2. TopLine.op = "include" => Level(1) # 0
  BY <1>1, ServerConfigAssumption DEF Level, LookupTypes
<1>3. DOMAIN Below(1) \subseteq DOMAIN conf \cup {} \/ Level(1) = 0
  BY <1>1, LevelIs
<1> HIDE DEF Level
<1>4. LineSays(hasCn, Below(1), TopLine) = NoEntry
  BY <1>2, <1>3 DEF LineSays
<1> QED
  BY <1>2, <1>4, LineLeaves
-----------------------------------------------------------------------------
(* What the command files that are read for the client say                  *)

LEMMA Reached ==
  ASSUME LookupTypes, NEW k
  PROVE  /\ k \in KReached(k) /\ KReached(k) \subseteq KFile \cup {k}
         /\ \A f \in KReached(k) \cap DOMAIN kfiles : \A m \in DOMAIN kfiles[f] :
              kfiles[f][m].op = "k" /\ ~kfiles[f][m].minus => kfiles[f][m].name \in KReached(k)
         /\ \A files \in SUBSET (KFile \cup {k}) : k \in files /\ KClosed(files) => KReached(k) \subseteq files
<1>1. k \in KReached(k) /\ KReached(k) \subseteq KFile \cup {k}
  BY DEF KReached
<1>2. ASSUME NEW f \in KReached(k), f \in DOMAIN kfiles, NEW m \in DOMAIN kfiles[f],
             kfiles[f][m].op = "k", ~kfiles[f][m].minus
      PROVE  kfiles[f][m].name \in KReached(k)
  <2> DEFINE g == kfiles[f][m].name
  <2>1. kfiles[f][m] \in KLine
    BY <1>2 DEF LookupTypes
  <2>2. g \in KFile
    BY <1>2, <2>1 DEF KLine
  <2>3. ASSUME NEW files \in SUBSET (KFile \cup {k}), k \in files, KClosed(files)
        PROVE  g \in files
    <3>1. f \in files
      BY <2>3 DEF KReached
    <3> QED
      BY <1>2, <2>3, <3>1 DEF KClosed
  <2> HIDE DEF g
  <2> QED
    BY <2>2, <2>3 DEF KReached, g
<1>3. \A files \in SUBSET (KFile \cup {k}) : k \in files /\ KClosed(files) => KReached(k) \subseteq files
  BY DEF KReached
<1> QED
  BY <1>1, <1>2, <1>3

LEMMA ListsKept ==
  ASSUME UNCHANGED <<kfiles, command>>
  PROVE  /\ KReached(command)' = KReached(command) /\ KNamed(command)' = KNamed(command)
         /\ KReadable(command)' = KReadable(command)
         /\ UNCHANGED access => Complete' = Complete
<1>1. KReached(command)' = KReached(command)
  BY DEF KReached, KClosed
<1>2. KNamed(command)' = KNamed(command) /\ KReadable(command)' = KReadable(command)
  BY <1>1 DEF KNamed, KReadable
<1>3. UNCHANGED access => Complete' = Complete
  BY DEF Complete, Opened, Taken
<1> QED
  BY <1>1, <1>2, <1>3
-----------------------------------------------------------------------------
(* The steps of the search                                                  *)

LEMMA StillSearching ==
  ASSUME LookupInv, finding = "config", UNCHANGED <<conf, kfiles, hasCn, command, access, sv, setup>>,
         finding' = "config", stack' \in Seq(Frames), stack' # <<>>, Searching'
  PROVE  LookupInv'
<1>1. Frames' = Frames
  BY DEF Frames
<1>2. LookupTypes'
  BY <1>1 DEF LookupTypes, LookupInv
<1>3. Asked'
  BY DEF Asked, LookupInv
<1>4. Decision(hasCn)' = Decision(hasCn)
  BY SaidKept
<1> QED
  BY <1>2, <1>3, <1>4, ListsKept DEF LookupInv, After

LEMMA NotThereKeeps ==
  ASSUME LookupInv, finding = "config", UNCHANGED <<conf, kfiles, hasCn, command, access, sv, setup>>,
         sv.pc = "lookup", Said(Level(1))[Top.file] = NoEntry, NotThere
  PROVE  LookupInv'
<1>1. stack # <<>> /\ stack' \in Seq(Frames) /\ (Len(stack) # 1 => stack' # <<>>)
  BY Popped DEF LookupInv, LookupTypes, NotThere
<1>2. CASE Len(stack) # 1
  <2>1. finding' = "config"
    BY <1>2 DEF NotThere
  <2>2. Searching'
    BY <1>1, <1>2, GoesBack DEF LookupInv, NotThere
  <2> QED
    BY <1>1, <1>2, <2>1, <2>2, StillSearching
<1>3. CASE Len(stack) = 1
  <2>1. finding' = "none"
    BY <1>3 DEF NotThere
  <2>2. Decision(hasCn)' = Decision(hasCn) /\ Decision(hasCn) = NoEntry
    BY <1>3, NoneThere, SaidKept DEF LookupInv
  <2>3. Frames' = Frames
    BY DEF Frames
  <2>4. LookupTypes'
    BY <1>1, <2>1, <2>3 DEF LookupTypes, LookupInv
  <2>5. Asked'
    BY <2>1 DEF Asked, LookupInv
  <2> QED
    BY <2>1, <2>2, <2>4, <2>5, ListsKept DEF LookupInv, After
<1> QED
  BY <1>2, <1>3

LEMMA EntryKeeps ==
  ASSUME LookupInv, finding = "config", UNCHANGED <<conf, kfiles, hasCn, access, sv, setup>>,
         sv.pc = "lookup", Top.at <= Len(conf[Top.file]), TopLine.op = "entry",
         WhoFor(TopLine.pattern, hasCn) # NoOne, Entry(TopLine)
  PROVE  LookupInv'
<1>1. LookupTypes /\ Searching /\ stack # <<>>
  BY DEF LookupInv, LookupTypes
<1>2. /\ Decision(hasCn) = [file |-> TopLine.name, id |-> WhoFor(TopLine.pattern, hasCn)]
      /\ Decision(hasCn) # NoEntry /\ Decision(hasCn)' = Decision(hasCn)
  BY <1>1, EntryDecides, SaidKept
<1>3. /\ command' = TopLine.name /\ stack' = <<>> /\ finding' = "found"
      /\ special' = [dir |-> DirName[TopLine.name], id |-> WhoFor(TopLine.pattern, hasCn)]
  BY DEF Entry, Who
<1>4. LookupTypes'
  <2>1. stack' \in Seq(Frames)'
    BY <1>3
  <2> QED
    BY <1>1, <1>3, <2>1 DEF LookupTypes, After
<1>5. Asked'
  BY <1>3 DEF Asked, LookupInv
<1>6. command' = Decision(hasCn)'.file /\ special' = [dir |-> DirName[command'], id |-> Decision(hasCn)'.id]
  BY <1>2, <1>3
<1>7. CASE access = {}
  BY <1>2, <1>3, <1>4, <1>5, <1>6, <1>7 DEF LookupInv, After
<1>8. CASE access # {}
  <2>1. command' = command
    BY <1>2, <1>6, <1>8 DEF LookupInv
  <2>2. Complete' = Complete /\ KNamed(command)' = KNamed(command)
    BY <2>1, ListsKept
  <2>3. Complete' /\ access' \subseteq KNamed(command)'
    BY <1>8, <2>2 DEF LookupInv
  <2> QED
    BY <1>2, <1>3, <1>4, <1>5, <1>6, <1>8, <2>3 DEF LookupInv, After
<1> QED
  BY <1>7, <1>8

LEMMA ConfigLineKeeps ==
  ASSUME LookupInv, ConfigLine, sv.pc = "lookup", UNCHANGED <<conf, kfiles, sv, setup>>
  PROVE  LookupInv'
<1>1. LookupTypes /\ Searching /\ stack # <<>> /\ finding = "config" /\ UNCHANGED <<hasCn, access>>
  BY DEF LookupInv, LookupTypes, ConfigLine
<1>2. CASE Top.at > Len(conf[Top.file])
  <2>1. NotThere /\ UNCHANGED <<command, special>>
    BY <1>2 DEF ConfigLine
  <2> QED
    BY <1>1, <1>2, <2>1, NothingFound, NotThereKeeps
<1>3. CASE ~(Top.at > Len(conf[Top.file]))
  <2>1. Top.at <= Len(conf[Top.file])
    <3>1. Top.at \in Nat /\ conf[Top.file] \in Seq(ConfLine)
      BY <1>1, LevelIs DEF Top, LookupTypes
    <3> QED
      BY <1>3, <3>1
  <2>2. \/ TopLine.op = "bad" /\ stack' = NextLine /\ UNCHANGED <<finding, command, special>>
        \/ TopLine.op = "include" /\ Include(TopLine) /\ UNCHANGED <<command, special>>
        \/ TopLine.op = "entry" /\ Entry(TopLine)
    BY <1>3 DEF ConfigLine, TopLine
  <2>3. ASSUME stack' = NextLine, Top.at \notin Leaving(hasCn, Level(1), Below(1), Top.file),
               UNCHANGED <<finding, command>>
        PROVE  LookupInv'
    <3>1. Searching' /\ stack' \in Seq(Frames) /\ stack' # <<>>
      BY <1>1, <2>1, <2>3, ReadOn, NextLineIs
    <3> QED
      BY <1>1, <2>3, <3>1, StillSearching
  <2>4. CASE TopLine.op = "bad" /\ stack' = NextLine /\ UNCHANGED <<finding, command, special>>
    BY <1>1, <2>1, <2>3, <2>4, SaysNothing
  <2>5. CASE TopLine.op = "include" /\ Include(TopLine) /\ UNCHANGED <<command, special>>
    <3>1. CASE Len(stack) > MaxDepth
      BY <1>1, <2>1, <2>5, <3>1, TooDeep, NotThereKeeps DEF Include
    <3>2. CASE ~(Len(stack) > MaxDepth)
      <4>1. Len(stack) <= MaxDepth
        BY <1>1, <3>2, ServerConfigAssumption DEF LookupTypes
      <4>2. CASE WhoFor(TopLine.pattern, hasCn) # NoOne /\ TopLine.name \in DOMAIN conf
        <5>1. stack' = <<FirstLineOf(TopLine.name)>> \o NextLine /\ finding' = finding
          BY <2>5, <3>2, <4>2 DEF Include, Who
        <5>2. Searching'
          BY <1>1, <2>1, <2>5, <4>1, <4>2, <5>1, GoesInto
        <5>3. stack' \in Seq(Frames) /\ Len(stack') = Len(stack) + 1
          BY <1>1, <4>2, <5>1, Pushed
        <5>4. stack' # <<>>
          BY <1>1, <5>3 DEF LookupTypes
        <5> QED
          BY <1>1, <2>5, <5>1, <5>2, <5>3, <5>4, StillSearching
      <4>3. CASE ~(WhoFor(TopLine.pattern, hasCn) # NoOne /\ TopLine.name \in DOMAIN conf)
        <5>1. stack' = NextLine /\ finding' = finding
          BY <2>5, <3>2, <4>3 DEF Include, Who
        <5> QED
          BY <1>1, <2>1, <2>3, <2>5, <4>1, <4>3, <5>1, SaysNothing
      <4> QED
        BY <4>2, <4>3
    <3> QED
      BY <3>1, <3>2
  <2>6. CASE TopLine.op = "entry" /\ Entry(TopLine)
    <3>1. CASE WhoFor(TopLine.pattern, hasCn) = NoOne
      <4>1. stack' = NextLine /\ UNCHANGED <<finding, command>>
        BY <2>6, <3>1 DEF Entry, Who
      <4> QED
        BY <1>1, <2>1, <2>3, <2>6, <3>1, <4>1, SaysNothing
    <3>2. CASE WhoFor(TopLine.pattern, hasCn) # NoOne
      BY <1>1, <2>1, <2>6, <3>2, EntryKeeps
    <3> QED
      BY <3>1, <3>2
  <2> QED
    BY <2>2, <2>4, <2>5, <2>6
<1> QED
  BY <1>2, <1>3
-----------------------------------------------------------------------------
(* The steps of the listing                                                 *)

(* What every one of them keeps                                             *)
LEMMA Lists ==
  ASSUME LookupInv, sv.pc = "lookup", finding \in {"found", "kfile"},
         UNCHANGED <<conf, kfiles, sv, setup, hasCn, command, special>>,
         finding' \in {"kfile", "ready", "failed"}, stack' \in Seq(Frames),
         finding' = "kfile" => stack' # <<>> /\ Listing',
         finding' = "ready" => Complete', finding' = "failed" => ~KReadable(command),
         access' \subseteq KNamed(command)
  PROVE  LookupInv'
<1>1. Frames' = Frames
  BY DEF Frames
<1>2. LookupTypes'
  BY <1>1 DEF LookupTypes, LookupInv, After
<1>3. Asked'
  BY DEF Asked, LookupInv
<1>4. Decision(hasCn)' = Decision(hasCn)
  BY SaidKept
<1>5. /\ KNamed(command)' = KNamed(command) /\ KReadable(command)' = KReadable(command)
  BY ListsKept
<1> QED
  BY <1>2, <1>3, <1>4, <1>5 DEF LookupInv, After

LEMMA TakenKept ==
  ASSUME UNCHANGED <<kfiles, command>>, access \subseteq access', NEW f, NEW m, Taken(f, m)
  PROVE  Taken(f, m)'
BY DEF Taken

LEMMA KOpenKeeps ==
  ASSUME LookupInv, KOpen, sv.pc = "lookup", UNCHANGED <<conf, kfiles, sv, setup>>
  PROVE  LookupInv'
<1>1. /\ finding = "found" /\ UNCHANGED <<hasCn, command, special, access>> /\ LookupTypes
      /\ access \subseteq KNamed(command)
  BY DEF KOpen, LookupInv
<1>2. CASE command \in DOMAIN kfiles
  <2>1. finding' = "kfile" /\ stack' = <<FirstLineOf(command)>>
    BY <1>2 DEF KOpen
  <2>2. FirstLineOf(command) \in Frames /\ FirstLineOf(command).file = command /\ FirstLineOf(command).at = 1
    BY <1>2 DEF FirstLineOf, Frames
  <2> HIDE DEF FirstLineOf
  <2>3. /\ stack' \in Seq(Frames) /\ stack' # <<>> /\ DOMAIN stack' = {1}
        /\ stack'[1].file = command /\ stack'[1].at = 1
    BY <2>1, <2>2
  <2>4. access # {} => Complete
    BY <1>1 DEF LookupInv
  <2>5. Opened' = Opened /\ Opened \subseteq DOMAIN kfiles
    BY <1>1, <1>2, <2>4 DEF Opened, Complete
  <2>6. ASSUME NEW f \in Opened, NEW m \in DOMAIN kfiles[f]
        PROVE  Taken(f, m)' \/ \E i \in DOMAIN stack' : stack'[i].file = f /\ stack'[i].at <= m
    <3>1. CASE f = command
      <4>1. m \in Nat /\ m >= 1
        BY <1>1, <2>5, <2>6 DEF LookupTypes
      <4> QED
        BY <2>3, <3>1, <4>1
    <3>2. CASE f # command
      <4>1. access # {}
        BY <2>6, <3>2 DEF Opened
      <4> QED
        BY <1>1, <2>4, <2>6, <4>1, TakenKept DEF Complete
    <3> QED
      BY <3>1, <3>2
  <2>7. command \in KReached(command)' /\ KReached(command)' = KReached(command)
    BY <1>1, ListsKept, Reached
  <2>8. Listing'
    BY <1>1, <1>2, <2>3, <2>5, <2>6, <2>7 DEF Listing
  <2> QED
    BY <1>1, <2>1, <2>3, <2>8, Lists
<1>3. CASE command \notin DOMAIN kfiles
  <2>1. finding' = "failed" /\ stack' = <<>>
    BY <1>3 DEF KOpen
  <2>2. ~KReadable(command)
    BY <1>1, <1>3, Reached DEF KReadable
  <2>3. stack' \in Seq(Frames)
    BY <2>1
  <2> QED
    BY <1>1, <2>1, <2>2, <2>3, Lists
<1> QED
  BY <1>2, <1>3

(* The line of the command file on top of the others                        *)
TopKLine == kfiles[Top.file][Top.at]

LEMMA TopIs ==
  ASSUME LookupTypes, Listing, stack # <<>>
  PROVE  /\ 1 \in DOMAIN stack /\ Top \in Frames /\ Top.file \in KReached(command) /\ Top.file \in DOMAIN kfiles
         /\ Top.at \in Nat \ {0} /\ kfiles[Top.file] \in Seq(KLine)
         /\ Top.at <= Len(kfiles[Top.file]) => Top.at \in DOMAIN kfiles[Top.file] /\ TopKLine \in KLine
<1>1. 1 \in DOMAIN stack /\ stack \in Seq(Frames)
  BY DEF LookupTypes
<1>2. Top \in Frames /\ Top.file \in KReached(command) /\ Top.file \in DOMAIN kfiles
  BY <1>1 DEF Listing, Top
<1>3. Top.at \in Nat \ {0} /\ kfiles[Top.file] \in Seq(KLine)
  BY <1>2 DEF Frames, LookupTypes
<1>4. Top.at <= Len(kfiles[Top.file]) => Top.at \in DOMAIN kfiles[Top.file] /\ TopKLine \in KLine
  <2> DEFINE f == Top.file
             s == kfiles[f]
             at == Top.at
  <2>1. at \in Nat \ {0} /\ s \in Seq(KLine)
    BY <1>3
  <2> HIDE DEF at, s
  <2>2. at <= Len(s) => at \in DOMAIN s /\ s[at] \in KLine
    BY <2>1
  <2> QED
    BY <2>2 DEF at, s, TopKLine
<1> QED
  BY <1>1, <1>2, <1>3, <1>4

(* The end of a command file: all of its lines have been dealt with         *)
LEMMA KEndKeeps ==
  ASSUME LookupInv, finding = "kfile", sv.pc = "lookup",
         UNCHANGED <<conf, kfiles, sv, setup, hasCn, command, special, access>>,
         Top.at > Len(kfiles[Top.file]), stack' = Tail(stack),
         finding' = IF Len(stack) = 1 THEN "ready" ELSE finding
  PROVE  LookupInv'
<1>1. LookupTypes /\ Listing /\ stack # <<>> /\ access \subseteq KNamed(command)
  BY DEF LookupInv, LookupTypes
<1>2. /\ stack' \in Seq(Frames) /\ Len(stack') = Len(stack) - 1
      /\ \A i \in DOMAIN stack' : i \in Nat /\ i + 1 \in DOMAIN stack /\ stack'[i] = stack[i + 1]
      /\ \A i \in DOMAIN stack : i > 1 => i - 1 \in DOMAIN stack'
      /\ Len(stack) # 1 => stack' # <<>>
  BY <1>1, Popped
<1>3. Opened' = Opened /\ Opened \subseteq DOMAIN kfiles
  BY <1>1 DEF Opened, Listing
<1>4. ASSUME NEW f \in Opened, NEW m \in DOMAIN kfiles[f], ~Taken(f, m)
      PROVE  \E i \in DOMAIN stack' : stack'[i].file = f /\ stack'[i].at <= m
  <2>1. PICK i \in DOMAIN stack : stack[i].file = f /\ stack[i].at <= m
    BY <1>1, <1>4 DEF Listing
  <2>2. i # 1
    <3>1. ASSUME i = 1 PROVE FALSE
      <4>1. Top.file = f /\ Top.at <= m
        BY <2>1, <3>1 DEF Top
      <4>2. m \in Nat /\ m <= Len(kfiles[f]) /\ Len(kfiles[f]) \in Nat /\ Top.at \in Nat
        BY <1>1, <1>3, <1>4, TopIs DEF LookupTypes
      <4> QED
        BY <4>1, <4>2
    <3> QED
      BY <3>1
  <2>3. i \in Nat /\ i > 1
    BY <1>1, <2>1, <2>2 DEF LookupTypes
  <2>4. i - 1 \in DOMAIN stack' /\ (i - 1) + 1 = i
    BY <1>2, <2>3
  <2>5. stack'[i - 1] = stack[i]
    BY <1>2, <2>4
  <2> QED
    BY <2>1, <2>4, <2>5
<1>5. CASE Len(stack) # 1
  <2>1. finding' = "kfile"
    BY <1>5
  <2>2. \A i \in DOMAIN stack' : stack'[i].file \in KReached(command)' \cap DOMAIN kfiles'
    BY <1>1, <1>2, ListsKept DEF Listing
  <2>3. Listing'
    BY <1>3, <1>4, <2>2, TakenKept DEF Listing
  <2> QED
    BY <1>1, <1>2, <1>5, <2>1, <2>3, Lists
<1>6. CASE Len(stack) = 1
  <2>1. finding' = "ready"
    BY <1>6
  <2>2. DOMAIN stack' = {}
    BY <1>2, <1>6
  <2>3. \A f \in Opened : \A m \in DOMAIN kfiles[f] : Taken(f, m)
    BY <1>4, <2>2
  <2>4. Complete'
    BY <1>3, <2>3, TakenKept DEF Complete
  <2> QED
    BY <1>1, <1>2, <2>1, <2>4, Lists
<1> QED
  BY <1>5, <1>6

(* A line is dealt with                                                     *)
LEMMA KNextKeeps ==
  ASSUME LookupInv, finding = "kfile", sv.pc = "lookup",
         UNCHANGED <<conf, kfiles, sv, setup, hasCn, command, special, finding>>,
         Top.at <= Len(kfiles[Top.file]), stack' = NextLine,
         access \subseteq access', access' \cap KFile = access \cap KFile, access' \subseteq KNamed(command),
         \A f, m : f = Top.file /\ m = Top.at => Taken(f, m)'
  PROVE  LookupInv'
<1>1. LookupTypes /\ Listing /\ stack # <<>>
  BY DEF LookupInv, LookupTypes
<1>2. /\ stack' \in Seq(Frames) /\ DOMAIN stack' = DOMAIN stack /\ 1 \in DOMAIN stack
      /\ stack'[1].file = Top.file /\ stack'[1].at = Top.at + 1
      /\ \A i \in DOMAIN stack : i # 1 => stack'[i] = stack[i]
      /\ stack' # <<>>
  BY <1>1, NextLineIs
<1>3. Opened' = Opened /\ Opened \subseteq DOMAIN kfiles
  BY <1>1 DEF Opened, Listing
<1>4. ASSUME NEW f \in Opened, NEW m \in DOMAIN kfiles[f], ~Taken(f, m)'
      PROVE  \E i \in DOMAIN stack' : stack'[i].file = f /\ stack'[i].at <= m
  <2>1. ~Taken(f, m)
    BY <1>4, TakenKept
  <2>2. PICK i \in DOMAIN stack : stack[i].file = f /\ stack[i].at <= m
    BY <1>1, <1>4, <2>1 DEF Listing
  <2>3. CASE i # 1
    BY <1>2, <2>2, <2>3
  <2>4. CASE i = 1
    <3>1. Top.file = f /\ Top.at <= m
      BY <2>2, <2>4 DEF Top
    <3>2. Top.at \in Nat /\ m \in Nat
      BY <1>1, <1>3, <1>4, TopIs DEF LookupTypes
    <3>3. Top.at # m
      BY <1>4, <3>1
    <3>4. Top.at + 1 <= m
      BY <3>1, <3>2, <3>3
    <3> QED
      BY <1>2, <2>4, <3>1, <3>4
  <2> QED
    BY <2>3, <2>4
<1>5. \A i \in DOMAIN stack' : stack'[i].file = stack[i].file
  BY <1>2 DEF Top
<1>6. \A i \in DOMAIN stack' : stack'[i].file \in KReached(command)' \cap DOMAIN kfiles'
  BY <1>1, <1>2, <1>5, ListsKept DEF Listing
<1>7. Listing'
  BY <1>3, <1>4, <1>6 DEF Listing
<1> QED
  BY <1>1, <1>2, <1>7, Lists

(* A command file is met for the first time                                 *)
LEMMA KIntoKeeps ==
  ASSUME LookupInv, finding = "kfile", sv.pc = "lookup",
         UNCHANGED <<conf, kfiles, sv, setup, hasCn, command, special, finding>>,
         Top.at <= Len(kfiles[Top.file]), ~TopKLine.minus, TopKLine.op = "k",
         TopKLine.name \in DOMAIN kfiles, access' = access \cup {TopKLine.name},
         stack' = <<FirstLineOf(TopKLine.name)>> \o NextLine, access' \subseteq KNamed(command)
  PROVE  LookupInv'
<1> DEFINE g == TopKLine.name
<1>1. LookupTypes /\ Listing /\ stack # <<>>
  BY DEF LookupInv, LookupTypes
<1>2. /\ stack' \in Seq(Frames) /\ stack'[1].file = g /\ stack'[1].at = 1 /\ Len(stack') = Len(stack) + 1
      /\ \A i \in DOMAIN stack' : i # 1 => i - 1 \in DOMAIN stack /\ stack'[i] = NextLine[i - 1]
      /\ \A i \in DOMAIN stack : i + 1 \in DOMAIN stack' /\ stack'[i + 1] = NextLine[i]
  <2> HIDE DEF g
  <2>1. g \in DOMAIN kfiles /\ stack' = <<FirstLineOf(g)>> \o NextLine
    BY DEF g
  <2> QED
    BY <1>1, <2>1, Pushed
<1>3. 1 \in DOMAIN stack' /\ stack' # <<>>
  BY <1>1, <1>2 DEF LookupTypes
<1>4. /\ 1 \in DOMAIN stack /\ NextLine[1].file = Top.file /\ NextLine[1].at = Top.at + 1
      /\ \A i \in DOMAIN stack : i # 1 => NextLine[i] = stack[i]
  BY <1>1, NextLineIs
<1>5. g \in KReached(command) /\ g \in KFile
  BY <1>1, TopIs, Reached DEF TopKLine, LookupTypes
<1>6. Opened' = Opened \cup {g} /\ Opened' \subseteq DOMAIN kfiles
  BY <1>1, <1>5 DEF Opened, Listing
<1>7. ASSUME NEW f \in Opened', NEW m \in DOMAIN kfiles[f], ~Taken(f, m)'
      PROVE  \E i \in DOMAIN stack' : stack'[i].file = f /\ stack'[i].at <= m
  <2>1. m \in Nat /\ m >= 1
    BY <1>1, <1>6, <1>7 DEF LookupTypes
  <2>2. CASE f = g
    BY <1>2, <1>3, <2>1, <2>2
  <2>3. CASE f # g
    <3>1. f \in Opened /\ ~Taken(f, m)
      BY <1>6, <1>7, <2>3, TakenKept
    <3>2. PICK i \in DOMAIN stack : stack[i].file = f /\ stack[i].at <= m
      BY <1>1, <1>7, <3>1 DEF Listing
    <3>3. i + 1 \in DOMAIN stack' /\ stack'[i + 1] = NextLine[i]
      BY <1>2
    <3>4. CASE i # 1
      BY <1>4, <3>2, <3>3, <3>4
    <3>5. CASE i = 1
      <4>1. Top.file = f /\ Top.at <= m /\ Top.at \in Nat
        BY <1>1, <3>2, <3>5, TopIs DEF Top
      <4>2. Top.at # m
        <5>1. ASSUME m = Top.at PROVE Taken(f, m)'
          <6>1. kfiles'[f][m] = TopKLine
            BY <4>1, <5>1 DEF TopKLine
          <6> QED
            BY <6>1 DEF Taken
        <5> QED
          BY <1>7, <5>1
      <4>3. Top.at + 1 <= m
        BY <2>1, <4>1, <4>2
      <4>4. NextLine[i].file = f /\ NextLine[i].at <= m
        BY <1>4, <3>5, <4>1, <4>3
      <4> QED
        BY <3>3, <4>4
    <3> QED
      BY <3>4, <3>5
  <2> QED
    BY <2>2, <2>3
<1>8. ASSUME NEW i \in DOMAIN stack' PROVE stack'[i].file \in KReached(command)' \cap DOMAIN kfiles'
  <2>1. CASE i = 1
    BY <1>2, <1>5, <2>1, ListsKept
  <2>2. CASE i # 1
    <3>1. i - 1 \in DOMAIN stack /\ stack'[i] = NextLine[i - 1]
      BY <1>2, <2>2
    <3>2. NextLine[i - 1].file = stack[i - 1].file
      BY <1>4, <3>1 DEF Top
    <3> QED
      BY <1>1, <3>1, <3>2, ListsKept DEF Listing
  <2> QED
    BY <2>1, <2>2
<1>9. Listing'
  BY <1>6, <1>7, <1>8 DEF Listing
<1> QED
  BY <1>1, <1>2, <1>3, <1>9, Lists

LEMMA KFileLineKeeps ==
  ASSUME LookupInv, KFileLine, sv.pc = "lookup", UNCHANGED <<conf, kfiles, sv, setup>>
  PROVE  LookupInv'
<1>1. /\ LookupTypes /\ Listing /\ stack # <<>> /\ finding = "kfile" /\ UNCHANGED <<hasCn, command, special>>
      /\ access \subseteq KNamed(command)
  BY DEF LookupInv, LookupTypes, KFileLine
<1>2. CASE Top.at > Len(kfiles[Top.file])
  <2>1. stack' = Tail(stack) /\ access' = access /\ finding' = IF Len(stack) = 1 THEN "ready" ELSE finding
    BY <1>2 DEF KFileLine
  <2> QED
    BY <1>1, <1>2, <2>1, KEndKeeps
<1>3. CASE ~(Top.at > Len(kfiles[Top.file]))
  <2> DEFINE l == TopKLine
  <2>1. /\ Top.at <= Len(kfiles[Top.file]) /\ Top.file \in KReached(command) \cap DOMAIN kfiles
        /\ Top.at \in DOMAIN kfiles[Top.file] /\ l \in KLine
    <3>1. Top.at <= Len(kfiles[Top.file])
      <4>1. Top.at \in Nat /\ Len(kfiles[Top.file]) \in Nat
        BY <1>1, TopIs
      <4> QED
        BY <1>3, <4>1
    <3> QED
      BY <1>1, <3>1, TopIs
  <2>2. \/ (l.minus \/ l.op = "s") /\ stack' = NextLine /\ UNCHANGED <<finding, access>>
        \/ ~l.minus /\ l.op = "bad" /\ KFails /\ UNCHANGED access
        \/ ~l.minus /\ l.op \in {"k", "p"} /\ Names(l)
    BY <1>3 DEF KFileLine, TopKLine
  <2>3. CASE (l.minus \/ l.op = "s") /\ stack' = NextLine /\ UNCHANGED <<finding, access>>
    <3>1. \A f, m : f = Top.file /\ m = Top.at => Taken(f, m)'
      BY <2>3 DEF Taken, TopKLine
    <3> QED
      BY <1>1, <2>1, <2>3, <3>1, KNextKeeps
  <2>4. ASSUME KFails, access' \subseteq KNamed(command), ~KReadable(command) PROVE LookupInv'
    <3>1. finding' = "failed" /\ stack' = <<>> /\ stack' \in Seq(Frames)
      BY <2>4 DEF KFails
    <3> QED
      BY <1>1, <2>4, <3>1, Lists
  <2>5. CASE ~l.minus /\ l.op = "bad" /\ KFails /\ UNCHANGED access
    <3>1. ~KReadable(command)
      BY <2>1, <2>5 DEF KReadable, TopKLine
    <3> QED
      BY <1>1, <2>4, <2>5, <3>1
  <2>6. CASE ~l.minus /\ l.op \in {"k", "p"} /\ Names(l)
    <3>1. l.name \in KNamed(command)
      BY <2>1, <2>6 DEF KNamed, TopKLine
    <3>2. access' = access \cup {l.name} /\ access' \subseteq KNamed(command)
      BY <1>1, <2>6, <3>1 DEF Names
    <3>3. CASE l.op = "k" /\ l.name \notin access
      <4>1. Included(l.name)
        BY <2>6, <3>3 DEF Names
      <4>2. CASE l.name \in DOMAIN kfiles
        <5>1. stack' = <<FirstLineOf(l.name)>> \o NextLine /\ UNCHANGED finding
          BY <4>1, <4>2 DEF Included
        <5> QED
          BY <1>1, <2>1, <2>6, <3>2, <3>3, <4>2, <5>1, KIntoKeeps
      <4>3. CASE l.name \notin DOMAIN kfiles
        <5>1. KFails
          BY <4>1, <4>3 DEF Included
        <5>2. l.name \in KReached(command)
          BY <1>1, <2>1, <2>6, <3>3, Reached DEF TopKLine
        <5>3. ~KReadable(command)
          BY <4>3, <5>2 DEF KReadable
        <5> QED
          BY <2>4, <3>2, <5>1, <5>3
      <4> QED
        BY <4>2, <4>3
    <3>4. CASE ~(l.op = "k" /\ l.name \notin access)
      <4>1. stack' = NextLine /\ UNCHANGED finding
        BY <2>6, <3>4 DEF Names
      <4>2. access' \cap KFile = access \cap KFile
        BY <2>1, <2>6, <3>2, <3>4, ServerConfigAssumption DEF KLine
      <4>3. \A f, m : f = Top.file /\ m = Top.at => Taken(f, m)'
        BY <2>6, <3>2 DEF Taken, TopKLine
      <4> QED
        BY <1>1, <2>1, <3>2, <4>1, <4>2, <4>3, KNextKeeps
    <3> QED
      BY <3>3, <3>4
  <2> QED
    BY <2>2, <2>3, <2>5, <2>6
<1> QED
  BY <1>2, <1>3
-----------------------------------------------------------------------------
(* The other steps of a session                                             *)

LEMMA OpenKeeps ==
  ASSUME LookupInv, UNCHANGED <<conf, kfiles, setup>>, sv'.pc = "lookup",
         finding \in {"idle", "none", "ready"}, ConfigOpen(setup.authlevel = 2)
  PROVE  LookupInv'
<1>1. /\ hasCn' = (setup.authlevel = 2) /\ UNCHANGED <<command, special, access>>
      /\ LookupTypes /\ Asked
  BY DEF ConfigOpen, LookupInv
<1>2. Frames' = Frames
  BY DEF Frames
<1>3. access # {} => /\ UNCHANGED hasCn
                     /\ Decision(hasCn)' = Decision(hasCn) /\ Complete' = Complete
                     /\ Decision(hasCn) # NoEntry /\ command = Decision(hasCn).file /\ Complete
  BY <1>1, SaidKept, ListsKept DEF LookupInv, Asked
<1>4. access' \subseteq KNamed(command)'
  BY <1>1, ListsKept DEF LookupInv
<1>5. CASE TopConf \in DOMAIN conf
  <2>1. finding' = "config" /\ stack' = <<FirstLineOf(TopConf)>>
    BY <1>5 DEF ConfigOpen
  <2>2. FirstLineOf(TopConf) \in Frames /\ FirstLineOf(TopConf).file = TopConf /\ FirstLineOf(TopConf).at = 1
    BY <1>5 DEF FirstLineOf, Frames
  <2> HIDE DEF FirstLineOf
  <2>3. /\ stack' \in Seq(Frames) /\ stack' # <<>> /\ DOMAIN stack' = {1} /\ Len(stack') = 1
        /\ stack'[1].file = TopConf /\ stack'[1].at = 1
    BY <2>1, <2>2
  <2>4. LookupTypes' /\ Asked'
    BY <1>1, <1>2, <2>1, <2>3 DEF LookupTypes, Asked
  <2>5. Level(1)' = MaxDepth /\ MaxDepth \in Nat
    BY <2>3, ServerConfigAssumption DEF Level
  <2>6. ~Left(1, stack[1].at)'
    <3>1. conf'[TopConf] \in Seq(ConfLine)
      BY <1>1, <1>5 DEF LookupTypes
    <3>2. \A k \in DOMAIN conf'[TopConf] : ~(k < 1)
      BY <3>1
    <3>3. \A n, below, f, k : k \in Leaving(hasCn, n, below, f)' => k \in DOMAIN conf'[f]
      BY DEF Leaving
    <3> HIDE DEF Level
    <3>4. Left(1, stack[1].at)' => \E k \in DOMAIN conf'[stack'[1].file] : k < stack'[1].at
      BY <3>3 DEF Left
    <3> QED
      BY <2>3, <3>2, <3>4
  <2>7. Said(Level(1))'[TopConf] = Decision(hasCn)'
    BY <1>5, <2>5 DEF Said, Decision
  <2>8. Searching'
    <3>1. \A i \in DOMAIN stack' : i = 1
      BY <2>3
    <3> HIDE DEF Level
    <3> QED
      BY <1>5, <2>3, <2>5, <2>6, <2>7, <3>1 DEF Searching
  <2> QED
    BY <1>1, <1>3, <1>4, <2>1, <2>4, <2>8 DEF LookupInv, After
<1>6. CASE TopConf \notin DOMAIN conf
  <2>1. finding' = "none" /\ stack' = <<>> /\ stack' \in Seq(Frames)
    BY <1>6 DEF ConfigOpen
  <2>2. LookupTypes' /\ Asked'
    BY <1>1, <1>2, <2>1 DEF LookupTypes, Asked
  <2>3. Decision(hasCn)' = NoEntry
    BY <1>6 DEF Decision
  <2> QED
    BY <1>1, <1>3, <1>4, <2>1, <2>2, <2>3 DEF LookupInv, After
<1> QED
  BY <1>5, <1>6

(* The lookup is over, or has not begun                                     *)
LEMMA ElsewhereKeeps ==
  ASSUME LookupInv, UNCHANGED <<configFiles, lookup, setup>>,
         sv'.pc \notin {"lookup", "done"} => finding \in {"idle", "none", "ready"},
         sv'.pc = "start" => finding = "idle"
  PROVE  LookupInv'
<1>1. UNCHANGED <<conf, kfiles, hasCn, finding, stack, command, special, access, setup>>
  BY DEF configFiles, lookup
<1>2. Frames' = Frames
  BY <1>1 DEF Frames
<1>3. LookupTypes'
  BY <1>1, <1>2 DEF LookupTypes, LookupInv
<1>4. Asked'
  BY <1>1 DEF Asked, LookupInv
<1>5. Decision(hasCn)' = Decision(hasCn) /\ SaidBy(hasCn)' = SaidBy(hasCn)
  BY <1>1, SaidKept
<1>6. finding = "config" => Searching'
  <2>1. /\ \A i : Level(i)' = Level(i) /\ Below(i)' = Below(i)
        /\ \A n : Said(n)' = Said(n)
    BY <1>1, <1>5 DEF Level, Below, Said
  <2>2. \A n, below, f : Leaving(hasCn, n, below, f)' = Leaving(hasCn, n, below, f)
    BY <1>1, SaidKept
  <2>3. \A i, at : Left(i, at)' = Left(i, at)
    BY <1>1, <2>1, <2>2 DEF Left
  <2> QED
    BY <1>1, <1>5, <2>1, <2>3 DEF Searching, LookupInv
<1>7. finding = "kfile" => Listing'
  BY <1>1, ListsKept DEF Listing, LookupInv, Opened, Taken
<1> QED
  BY <1>1, <1>3, <1>4, <1>5, <1>6, <1>7, ListsKept DEF LookupInv

LEMMA InitLooks == Init => LookupInv
<1> SUFFICES ASSUME NEW b \in Setups, conf = b.conf, kfiles = b.kfiles, ConfigIdle, sv.pc = "start"
             PROVE  LookupInv
  BY DEF Init
<1>1. LookupTypes
  BY SessionAssumption DEF LookupTypes, ConfigIdle
<1> QED
  BY <1>1 DEF LookupInv, Asked, ConfigIdle, After

LEMMA CommandElsewhere ==
  ASSUME Types, Command
  PROVE  /\ UNCHANGED <<configFiles, lookup, setup>>
         /\ sv.pc = "loop" /\ sv'.pc \in {"loop", "done", "shake"}
BY CommandEffect DEF Command, Unaffected, Effect

LEMMA LooksOn ==
  ASSUME IInv, LookupInv, [Next]_vars
  PROVE  LookupInv'
<1>1. Asked /\ Types
  BY DEF LookupInv, IInv
<1>2. ASSUME UNCHANGED <<configFiles, lookup, setup>>,
             \/ sv'.pc = "done"
             \/ sv'.pc = sv.pc
             \/ sv.pc \notin {"lookup", "done"} /\ sv'.pc # "start"
      PROVE  LookupInv'
  BY <1>1, <1>2, ElsewhereKeeps DEF Asked
<1>3. CASE UNCHANGED vars
  BY <1>2, <1>3 DEF vars, sessionOwn
<1>4. CASE ServerStart
  <2>1. sv.pc = "start" /\ finding = "idle" /\ UNCHANGED <<configFiles, setup>> /\ sv \in ServerState
    BY <1>1, <1>4 DEF ServerStart, ServerAt, Asked, Types
  <2>2. CASE setup.busy \/ (~setup.busy /\ setup.authlevel # 0)
    BY <1>2, <1>4, <2>1, <2>2 DEF ServerStart, ServerGoes, ServerState
  <2>3. CASE ~setup.busy /\ setup.authlevel = 0
    <3>1. ConfigOpen(FALSE) /\ sv'.pc = "lookup"
      BY <1>4, <2>1, <2>3 DEF ServerStart, ServerGoes, ServerState
    <3>2. ConfigOpen(setup.authlevel = 2)
      <4> DEFINE tls == setup.authlevel = 2
      <4>1. tls = FALSE
        BY <2>3
      <4> HIDE DEF tls
      <4>2. ConfigOpen(tls)
        BY <3>1, <4>1 DEF ConfigOpen
      <4> QED
        BY <4>2 DEF tls
    <3> QED
      BY <2>1, <3>1, <3>2, OpenKeeps DEF configFiles
  <2> QED
    BY <2>2, <2>3
<1>5. CASE Lookup
  BY <1>5, ConfigLineKeeps, KFileLineKeeps, KOpenKeeps DEF Lookup, ServerAt, configFiles, sessionOwn
<1>6. CASE LookupDone
  <2>1. UNCHANGED <<configFiles, lookup, setup>> /\ sv \in ServerState
    BY <1>1, <1>6 DEF LookupDone, Types
  <2>2. sv'.pc = "done" \/ (finding \in {"none", "ready"} /\ sv'.pc # "start")
    BY <1>6, <2>1 DEF LookupDone, ServerGoes, ServerState
  <2> QED
    BY <2>1, <2>2, ElsewhereKeeps
<1>7. CASE Handshake
  <2>1. /\ sv.pc = "shake" /\ sv'.pc = "lookup" /\ UNCHANGED <<configFiles, setup>>
        /\ ConfigOpen(setup.authlevel = 2)
    BY <1>1, <1>7 DEF Handshake, Shaking, ServerAt, ServerState, Types
  <2>2. finding \in {"idle", "none", "ready"}
    BY <1>1, <2>1 DEF Asked
  <2> QED
    BY <2>1, <2>2, OpenKeeps DEF configFiles
<1>8. CASE Command
  BY <1>1, <1>2, <1>8, CommandElsewhere
<1>9. CASE Banner \/ ServerHangsUp \/ ServerTimesOut \/ HandshakeFails \/ HandshakeAlone \/ Killed
  <2>1. UNCHANGED <<configFiles, lookup, setup>> /\ sv \in ServerState
    BY <1>1, <1>9 DEF Banner, ServerHangsUp, ServerTimesOut, HandshakeFails, HandshakeAlone, Killed, Types
  <2>2. sv'.pc = "done" \/ sv' = sv \/ (sv.pc \in {"banner", "shake"} /\ sv'.pc = "loop")
    BY <1>9, <2>1 DEF Banner, ServerHangsUp, ServerTimesOut, HandshakeFails, HandshakeAlone, Killed,
       ServerGoes, ServerAt, Shaking, ServerState
  <2> QED
    BY <1>2, <2>1, <2>2
<1>10. CASE Client \/ ClientTimesOut
  BY <1>2, <1>10 DEF Client, ClientWrites, ClientReads, ClientGivesUp, ClientTimesOut
<1> QED
  BY <1>3, <1>4, <1>5, <1>6, <1>7, <1>8, <1>9, <1>10 DEF Next, Server, Tls

(* What has been read is all that can be reached                            *)
LEMMA AllReached ==
  ASSUME LookupTypes, Complete, access \subseteq KNamed(command)
  PROVE  KReached(command) \subseteq Opened /\ access = KNamed(command) /\ KReadable(command)
<1>1. Opened \subseteq KFile \cup {command} /\ command \in Opened /\ Opened \subseteq DOMAIN kfiles
  BY DEF Opened, Complete
<1>2. KClosed(Opened)
  <2> SUFFICES ASSUME NEW f \in Opened \cap DOMAIN kfiles, NEW m \in DOMAIN kfiles[f],
                      kfiles[f][m].op = "k", ~kfiles[f][m].minus
               PROVE  kfiles[f][m].name \in Opened
    BY DEF KClosed
  <2>1. kfiles[f][m].name \in access
    BY DEF Complete, Taken
  <2>2. kfiles[f][m] \in KLine
    BY DEF LookupTypes
  <2> QED
    BY <2>1, <2>2 DEF Opened, KLine
<1>3. KReached(command) \subseteq Opened
  BY <1>1, <1>2, Reached
<1>4. KReadable(command)
  BY <1>1, <1>3 DEF KReadable, Complete, Taken
<1>5. KNamed(command) \subseteq access
  BY <1>1, <1>3 DEF KNamed, Complete, Taken
<1> QED
  BY <1>3, <1>4, <1>5

LEMMA LooksRight ==
  ASSUME LookupInv
  PROVE  LookupExact
<1>1. FirstEntryWins
  BY DEF LookupInv, FirstEntryWins, After
<1>2. finding = "ready" => access = KNamed(command) /\ KReadable(command)
  BY AllReached DEF LookupInv
<1>3. AccessExact
  BY <1>2 DEF LookupInv, AccessExact
<1> QED
  BY <1>1, <1>3 DEF LookupExact

(* What a client is served is what the text of the files says: the server   *)
(* finds the first entry for the client in the config files, through any    *)
(* includes, or finds that there is none, and lists what the command file   *)
(* of that entry and those that it includes name, all of it and nothing     *)
(* else (command_k() and read_kfile(), before the banner or in              *)
(* f_starttls(), once or again).                                            *)
THEOREM LookedUp == Spec => []LookupExact
<1>1. Init => IInv /\ LookupInv
  BY InitKeeps, InitLooks
<1>2. IInv /\ LookupInv /\ [Next]_vars => (IInv /\ LookupInv)'
  BY StepKeeps, LooksOn
<1>3. IInv /\ LookupInv => LookupExact
  BY LooksRight
<1> QED
  BY <1>1, <1>2, <1>3, PTL DEF Spec
-----------------------------------------------------------------------------
(* Both sides have switched to the same mode; the server can accept the     *)
(* certificate of the client; the capabilities that it shows in its banner  *)
Agreed    == ClientMode = ServerMode
Certified == setup.authlevel = 2 => ServerContent
ShownCapa == IF setup.rap THEN Capabilities ELSE {}

(* The files list the client, and can be read                               *)
Listed ==
  LET d == Decision(setup.authlevel = 2) IN d # NoEntry /\ KReadable(d.file)

(* What is on its way to the client is an error, or what is left of the     *)
(* banner                                                                   *)
Refusal ==
  /\ Len(s2c) = 1 /\ s2c[1].mode = ClientMode
  /\ ~Positive(s2c[1]) /\ s2c[1].code # 320

BannerLeft ==
  /\ Len(s2c) \in 1..2
  /\ \A k \in 1..Len(s2c) : /\ s2c[k].code = 200 /\ s2c[k].mode = ClientMode
                            /\ s2c[k].more <=> k < Len(s2c)
  /\ s2c[Len(s2c)].capa = ShownCapa

(* The phases of a session in which no call fails: the banner; a command    *)
(* that the client writes, that waits for the server, that has been         *)
(* answered in one of three ways; the handshake; and its ends: the server   *)
(* is gone, the client believes in a handshake that has failed, the client  *)
(* is gone                                                                  *)
Greeting ==
  /\ cl.pc = "read" /\ cl.verb = "none" /\ cl.i = 0 /\ ~cl.err /\ ~cl.tls /\ ~cl.zlib
  /\ Agreed /\ c2s = <<>> /\ sv.n = 0
  /\ \/ sv.pc \in {"start", "banner", "lookup"} /\ s2c = <<>>
     \/ sv.pc = "loop" /\ BannerLeft

AtWork == sv.pc = "loop" \/ (sv.pc = "lookup" /\ sv.tls)

Writing ==
  /\ cl.pc = "write" /\ c2s = <<>> /\ s2c = <<>>
  /\ Agreed /\ AtWork /\ sv.n = cl.i

Asking ==
  /\ cl.pc = "read" /\ cl.verb # "none" /\ s2c = <<>>
  /\ Len(c2s) = 1 /\ c2s[1] = [verb |-> cl.verb, n |-> cl.i, mode |-> ClientMode]
  /\ Agreed /\ AtWork /\ sv.n = cl.i - 1

Answered == cl.pc = "read" /\ cl.verb # "none" /\ c2s = <<>> /\ sv.n = cl.i

Denied == Answered /\ Agreed /\ Refusal /\ sv.pc = "loop"

After1 == IF cl.verb = "QUIT" THEN "done" ELSE IF cl.verb = "STARTTLS" THEN "shake" ELSE "loop"

Accepted ==
  /\ Answered /\ Agreed
  /\ Len(s2c) = 1 /\ Positive(s2c[1]) /\ s2c[1].mode = ClientMode
  /\ sv.pc = After1

Compressing ==
  /\ Answered /\ cl.verb = "COMP" /\ sv.pc = "loop"
  /\ ~cl.zlib /\ sv.zlib /\ sv.tls = cl.tls
  /\ Len(s2c) = 2 /\ s2c[1].code = 320 /\ s2c[1].mode = ClientMode
  /\ Positive(s2c[2]) /\ s2c[2].mode = ServerMode

Handshaking ==
  /\ cl.pc = "shake" /\ sv.pc = "shake" /\ c2s = <<>> /\ s2c = <<>>
  /\ Agreed /\ cl.verb = "STARTTLS" /\ sv.n = cl.i

Deserted ==
  /\ sv.pc = "done" /\ cl.pc \in {"read", "write"}
  /\ s2c = <<>> \/ Refusal

Misled ==
  /\ ~Certified /\ cl.pc \in {"read", "write"} /\ cl.verb # "none"
  /\ cl.tls /\ s2c # <<>> /\ ~s2c[1].mode.tls

Over ==
  /\ cl.pc = "done" /\ exit \in {"0", "2"}
  /\ Certified => c2s = <<>> \/ sv.pc = "done"
  /\ exit = "0" => /\ ~cl.err /\ cl.verb = "QUIT" /\ sv.pc = "done"
                   /\ c2s = <<>> /\ s2c = <<>> /\ sv.n = cl.i

Phases ==
  \/ Greeting \/ Writing \/ Asking \/ Denied \/ Accepted \/ Compressing \/ Handshaking
  \/ Deserted \/ Misled \/ Over

Lockstep ==
  /\ Phases
  /\ cl.pc # "done" => exit = "none"
  /\ cl.err /\ cl.pc \in {"read", "shake"} => cl.verb = "QUIT"
  /\ sv.tls => ClientContent /\ ServerContent

(* How client and server have to be set up for a command to be accepted     *)
Earns(v) ==
  /\ v = "STARTTLS" => ClientContent /\ ServerContent /\ setup.sname
  /\ v \in Request \cup {"LOGIN", "COMP"} => Listed /\ (setup.authlevel # 0 => setup.cauth # 0)
  /\ v = "REPO" => setup.rap
  /\ v = "LOGIN" => setup.checkuser /\ setup.pass
  /\ v = "STOR" /\ setup.checkuser => setup.script[1] = "LOGIN"

(* A client that gets as far as it has come without an error is set up for  *)
(* all that it has asked for                                                *)
Passed(j) == j < cl.i \/ (j = cl.i /\ cl.pc \in {"write", "done"})

Earned ==
  /\ sv.pc \notin {"start", "done"} \/ cl.verb # "none" \/ cl.pc = "write" => ~setup.busy
  /\ cl.verb # "none" \/ cl.pc = "write" => cl.capa = ShownCapa
  /\ sv.tls => setup.cauth # 0
  /\ sv.authorized => setup.script[1] = "LOGIN"
  /\ ~cl.err => \A j \in 1..Len(Plan) : j <= cl.i /\ Plan[j] = "REPO" => setup.rap
  /\ ~cl.err /\ ~Misled /\ exit # "2" => \A j \in 1..Len(Plan) : Passed(j) => Earns(Plan[j])
  /\ ~cl.err /\ (Accepted \/ Compressing) /\ cl.verb # "STARTTLS" => Earns(cl.verb)
  /\ exit = "0" => cl.i = Len(Plan)

(* A client that is welcome meets no error                                  *)
Among(v) == \E j \in 1..Len(Plan) : j <= sv.n /\ Plan[j] = v

Smooth ==
  /\ Greeting \/ Writing \/ Asking \/ Accepted \/ Compressing \/ Handshaking \/ Over
  /\ ~cl.err /\ exit # "2"
  /\ sv.pc = "start" /\ setup.authlevel # 0 => sv.table = "notls"
  /\ sv.pc \in {"banner", "loop", "shake"} =>
       sv.table = IF setup.authlevel # 0 /\ ~sv.tls THEN "notls" ELSE "auth"
  /\ setup.cauth # 0 /\ cl.i >= 1 /\ (cl.i > 1 \/ cl.pc = "write") => cl.tls
  /\ sv.zlib => Among("COMP")
  /\ sv.freed => Among("LOGIN")
  /\ Among("LOGIN") => sv.authorized

Course ==
  /\ faults \in Nat
  /\ faults = 0 => /\ Lockstep
                   /\ Program => Earned
                   /\ Program /\ Welcome => Smooth
-----------------------------------------------------------------------------
(* What is on its way                                                       *)

LEMMA Queues ==
  ASSUME Types
  PROVE  /\ Len(s2c) \in Nat /\ (s2c = <<>> <=> Len(s2c) = 0)
         /\ Len(c2s) \in Nat /\ (c2s = <<>> <=> Len(c2s) = 0)
         /\ \A k \in 1..Len(s2c) : s2c[k] \in ReplyMsg
         /\ s2c # <<>> =>
              /\ Head(s2c) = s2c[1] /\ s2c[1] \in ReplyMsg
              /\ Len(Tail(s2c)) = Len(s2c) - 1
              /\ \A k \in 1..(Len(s2c) - 1) : Tail(s2c)[k] = s2c[k + 1]
              /\ Len(s2c) = 1 => Tail(s2c) = <<>>
         /\ c2s # <<>> => /\ Head(c2s) = c2s[1] /\ c2s[1] \in CommandMsg
                          /\ Len(c2s) = 1 => Tail(c2s) = <<>>
<1>1. s2c \in Seq(ReplyMsg) /\ c2s \in Seq(CommandMsg)
  BY DEF Types
<1>2. ASSUME NEW S, NEW s \in Seq(S)
      PROVE  /\ Len(s) \in Nat /\ (s = <<>> <=> Len(s) = 0)
             /\ \A k \in 1..Len(s) : s[k] \in S
             /\ s # <<>> => /\ Head(s) = s[1] /\ s[1] \in S
                            /\ Len(Tail(s)) = Len(s) - 1
                            /\ \A k \in 1..(Len(s) - 1) : Tail(s)[k] = s[k + 1]
                            /\ Len(s) = 1 => Tail(s) = <<>>
  OBVIOUS
<1> QED
  BY <1>1, <1>2

LEMMA SentAlone ==
  ASSUME Types, s2c = <<>>, NEW m \in ReplyMsg, s2c' = Append(s2c, m)
  PROVE  s2c' # <<>> /\ Len(s2c') = 1 /\ s2c'[1] = m
BY Sent

LEMMA SentPair ==
  ASSUME Types, s2c = <<>>, NEW m \in ReplyMsg, NEW n \in ReplyMsg, s2c' = s2c \o <<m, n>>
  PROVE  s2c' # <<>> /\ Len(s2c') = 2 /\ s2c'[1] = m /\ s2c'[2] = n
<1>1. s2c' \in Seq(ReplyMsg) /\ Len(s2c') = Len(s2c) + 2 /\ Len(s2c) = 0
      /\ s2c'[Len(s2c) + 1] = m /\ s2c'[Len(s2c) + 2] = n
  BY SentBoth, SMTT(20), ZenonT(20)
<1>2. s2c' # <<>>
  BY <1>1
<1> QED
  BY <1>1, <1>2

LEMMA ReplyIs ==
  ASSUME NEW code
  PROVE  /\ Reply(code).code = code /\ Reply(code).mode = ServerMode /\ ~Reply(code).more
         /\ Now(code).code = code /\ Now(code).mode = ServerMode
<1>1. Reply(code).code = code /\ Reply(code).mode = ServerMode /\ ~Reply(code).more
  BY DEF Reply
<1>2. Now(code).code = code /\ Now(code).mode = ServerMode
  <2> DEFINE r == Reply(code)
  <2>1. r = [code |-> code, more |-> FALSE, capa |-> {}, re |-> sv.n, mode |-> ServerMode]
    BY DEF Reply
  <2>2. Now(code) = [r EXCEPT !.re = Head(c2s).n]
    BY DEF Now
  <2> HIDE DEF r
  <2> QED
    BY <2>1, <2>2
<1> QED
  BY <1>1, <1>2
-----------------------------------------------------------------------------
(* The set-up does not change                                               *)

LEMMA ListedKept ==
  ASSUME UNCHANGED <<setup, conf, kfiles>>
  PROVE  Listed' = Listed
<1> DEFINE cn == setup.authlevel = 2
<1>1. cn' = cn
  OBVIOUS
<1> HIDE DEF cn
<1>2. SaidBy(cn)' = SaidBy(cn)
  <2>1. \A below, l : LineSays(cn, below, l)' = LineSays(cn, below, l)
    BY <1>1, SMTT(20), ZenonT(30) DEF LineSays, WhoFor
  <2>2. conf' = conf
    OBVIOUS
  <2>3. \A n, below, f : Leaving(cn, n, below, f)' = Leaving(cn, n, below, f)
    BY <2>1, <2>2, SMTT(20), ZenonT(30) DEF Leaving
  <2>4. \A n, below, f : FileSays(cn, n, below, f)' = FileSays(cn, n, below, f)
    <3> TAKE n, below, f
    <3> DEFINE ends == Leaving(cn, n, below, f)
               k0   == CHOOSE k \in ends : \A m \in ends : k <= m
    <3>1. ends' = ends
      BY <2>3
    <3>2. k0' = k0
      <4> HIDE DEF ends
      <4> QED
        BY <3>1
    <3>3. FileSays(cn, n, below, f) = IF ends = {} THEN NoEntry ELSE LineSays(cn, below, conf[f][k0])
      BY DEF FileSays
    <3>4. FileSays(cn, n, below, f)' = (IF ends = {} THEN NoEntry ELSE LineSays(cn, below, conf[f][k0]))'
      BY DEF FileSays
    <3> HIDE DEF ends, k0
    <3>5. LineSays(cn, below, conf[f][k0])' = LineSays(cn, below, conf[f][k0])
      BY <1>1, <2>2, <3>2, SMTT(20), ZenonT(30) DEF LineSays, WhoFor
    <3>6. NoEntry' = NoEntry
      BY DEF NoEntry
    <3> QED
      BY <3>1, <3>3, <3>4, <3>5, <3>6
  <2> QED
    BY <2>2, <2>4, SMTT(20), ZenonT(30) DEF SaidBy
<1>3. Decision(cn)' = Decision(cn)
  BY <1>2 DEF Decision
<1>4. \A f : KReadable(f)' = KReadable(f)
  <2>1. \A f : KReached(f)' = KReached(f)
    BY DEF KReached, KClosed
  <2> QED
    BY <2>1 DEF KReadable
<1>5. Listed = (Decision(cn) # NoEntry /\ KReadable(Decision(cn).file))
  BY DEF Listed, cn
<1>6. Listed' = (Decision(cn)' # NoEntry /\ KReadable(Decision(cn).file)')
  BY DEF Listed, cn
<1> QED
  BY <1>3, <1>4, <1>5, <1>6

LEMMA SetUpKept ==
  ASSUME UNCHANGED <<setup, conf, kfiles>>
  PROVE  /\ Listed' = Listed /\ Certified' = Certified /\ ShownCapa' = ShownCapa
         /\ ClientContent' = ClientContent /\ ServerContent' = ServerContent
         /\ Program' = Program /\ Welcome' = Welcome
         /\ \A v : Earns(v)' = Earns(v)
<1>1. Listed' = Listed
  BY ListedKept
<1>2. /\ ShownCapa' = ShownCapa
      /\ ClientContent' = ClientContent /\ ServerContent' = ServerContent
  BY DEF ShownCapa, Capabilities, ClientContent, ServerContent
<1>3. Certified' = Certified
  BY <1>2 DEF Certified
<1>4. Program' = Program
  BY DEF Program
<1>5. \A v : Position(v)' = Position(v)
  BY DEF Position
<1>6. Welcome' = Welcome
  <2> DEFINE free == setup.checkuser =>
               \A k \in Position("STOR") : \E m \in Position("LOGIN") : m < k
             rest == /\ ~setup.busy
                     /\ setup.authlevel = 0 <=> setup.cauth = 0
                     /\ Position("REPO") # {} => setup.rap
                     /\ Position("LOGIN") # {} => setup.checkuser /\ setup.pass
  <2>1. Position("STOR")' = Position("STOR") /\ Position("LOGIN")' = Position("LOGIN")
        /\ Position("REPO")' = Position("REPO")
    BY <1>5
  <2>2. free' = free
    BY <2>1
  <2>3. rest' = rest
    BY <2>1
  <2>4. Welcome = (free /\ rest /\ Listed /\ (setup.authlevel # 0 => ClientContent /\ ServerContent /\ setup.sname))
    BY DEF Welcome, Listed
  <2>5. Welcome' = (free /\ rest /\ Listed /\ (setup.authlevel # 0 => ClientContent /\ ServerContent /\ setup.sname))'
    BY DEF Welcome, Listed
  <2> HIDE DEF free, rest
  <2> QED
    BY <1>1, <1>2, <2>2, <2>3, <2>4, <2>5
<1>7. \A v : Earns(v)' = Earns(v)
  BY <1>1, <1>2 DEF Earns
<1> QED
  BY <1>1, <1>2, <1>3, <1>4, <1>6, <1>7
-----------------------------------------------------------------------------
(* What the server makes of the command that it waits for: it accepts it,   *)
(* says twice that it has switched to compression, or refuses it for one of *)
(* these reasons                                                            *)
Privileged == Request \cup {"LOGIN", "COMP"}

Accepts1 ==
  /\ Len(s2c') = 1 /\ Positive(s2c'[1]) /\ s2c'[1].mode = ServerMode
  /\ sv'.zlib = sv.zlib /\ sv'.pc = After1
  /\ cl.verb \in Privileged => sv.table = "auth"
  /\ cl.verb # "COMP"
  /\ cl.verb = "LOGIN" => setup.checkuser /\ setup.pass /\ sv'.authorized
  /\ cl.verb # "LOGIN" => sv'.freed = sv.freed /\ sv'.authorized = sv.authorized
  /\ cl.verb = "STOR" /\ setup.checkuser => sv.authorized

Switches ==
  /\ cl.verb = "COMP" /\ sv.table = "auth" /\ setup.zlib
  /\ ~sv.zlib /\ sv'.zlib /\ sv'.pc = "loop"
  /\ sv'.freed = sv.freed /\ sv'.authorized = sv.authorized
  /\ Len(s2c') = 2 /\ s2c'[1].code = 320 /\ s2c'[1].mode = ServerMode
  /\ Positive(s2c'[2]) /\ s2c'[2].mode = [tls |-> sv.tls, zlib |-> TRUE]

Refuses ==
  /\ sv'.zlib = sv.zlib
  /\ \/ sv'.pc = "done" /\ s2c' = <<>>
     \/ /\ sv'.pc \in {"loop", "done"}
        /\ Len(s2c') = 1 /\ s2c'[1].mode = ServerMode
        /\ ~Positive(s2c'[1]) /\ s2c'[1].code # 320
  /\ sv'.authorized = sv.authorized
  /\ \/ cl.verb \in Privileged /\ sv.table # "auth"
     \/ cl.verb = "STARTTLS" /\ sv.table = "noauth"
     \/ cl.verb = "STOR" /\ setup.checkuser /\ ~sv.authorized
     \/ cl.verb = "LOGIN" /\ (~setup.checkuser \/ ~setup.pass \/ sv.freed)
     \/ cl.verb = "COMP" /\ (~setup.zlib \/ sv.zlib)

Outcome ==
  /\ sv.pc = "loop" /\ c2s' = <<>>
  /\ sv'.n = cl.i /\ sv'.tls = sv.tls /\ sv'.table = sv.table
  /\ Accepts1 \/ Switches \/ Refuses

LEMMA AskedIs ==
  ASSUME Types, Asking
  PROVE  /\ c2s # <<>> /\ Tail(c2s) = <<>>
         /\ Head(c2s).verb = cl.verb /\ Head(c2s).n = cl.i /\ Head(c2s).mode = ServerMode
         /\ s2c = <<>> /\ cl.i \in Nat /\ cl.verb # "none"
<1>1. c2s # <<>> /\ Head(c2s) = c2s[1] /\ Tail(c2s) = <<>>
  BY Queues DEF Asking
<1>2. c2s[1] = [verb |-> cl.verb, n |-> cl.i, mode |-> ClientMode]
  BY DEF Asking
<1>3. cl.i \in Nat
  BY DEF Types, ClientState
<1> HIDE DEF ClientMode
<1> QED
  BY <1>1, <1>2, <1>3 DEF Asking, Agreed

(* One reply                                                                *)
LEMMA SaidAlone ==
  ASSUME Types, Asking, NEW code \in Nat, Says(code)
  PROVE  /\ s2c' # <<>> /\ Len(s2c') = 1 /\ s2c'[1].code = code /\ s2c'[1].mode = ServerMode
         /\ Positive(s2c'[1]) <=> code \in {200, 201, 202, 203, 205, 215, 220, 230, 240, 250}
<1>1. Now(code) \in ReplyMsg /\ s2c' = Append(s2c, Now(code)) /\ s2c = <<>>
  BY AskedIs, NowTyped DEF Says
<1>2. Now(code).code = code /\ Now(code).mode = ServerMode
  BY ReplyIs
<1> HIDE DEF Now
<1>3. s2c' # <<>> /\ Len(s2c') = 1 /\ s2c'[1] = Now(code)
  BY <1>1, SentAlone
<1> QED
  BY <1>2, <1>3 DEF Positive

LEMMA ServerNow ==
  ASSUME Types, Asking
  PROVE  /\ sv.pc = "loop" /\ Continues =>
              /\ sv'.pc = "loop" /\ sv'.n = cl.i /\ sv'.tls = sv.tls /\ sv'.table = sv.table
              /\ sv'.zlib = sv.zlib /\ sv'.freed = sv.freed /\ sv'.authorized = sv.authorized
         /\ Leaves =>
              /\ sv'.pc = "done" /\ sv'.n = cl.i /\ sv'.tls = sv.tls /\ sv'.table = sv.table
              /\ sv'.zlib = sv.zlib /\ sv'.freed = sv.freed /\ sv'.authorized = sv.authorized
         /\ sv' = [Read1 EXCEPT !.pc = "shake"] =>
              /\ sv'.pc = "shake" /\ sv'.n = cl.i /\ sv'.tls = sv.tls /\ sv'.table = sv.table
              /\ sv'.zlib = sv.zlib /\ sv'.freed = sv.freed /\ sv'.authorized = sv.authorized
         /\ sv.pc = "loop" /\ sv' = [Read1 EXCEPT !.authorized = TRUE, !.freed = TRUE] =>
              /\ sv'.pc = "loop" /\ sv'.n = cl.i /\ sv'.tls = sv.tls /\ sv'.table = sv.table
              /\ sv'.zlib = sv.zlib /\ sv'.freed /\ sv'.authorized
         /\ sv.pc = "loop" /\ sv' = [Read1 EXCEPT !.freed = FALSE] =>
              /\ sv'.pc = "loop" /\ sv'.n = cl.i /\ sv'.tls = sv.tls /\ sv'.table = sv.table
              /\ sv'.zlib = sv.zlib /\ ~sv'.freed /\ sv'.authorized = sv.authorized
         /\ sv.pc = "loop" /\ sv' = [Read1 EXCEPT !.zlib = TRUE] =>
              /\ sv'.pc = "loop" /\ sv'.n = cl.i /\ sv'.tls = sv.tls /\ sv'.table = sv.table
              /\ sv'.zlib /\ sv'.freed = sv.freed /\ sv'.authorized = sv.authorized
<1>1. Head(c2s).n = cl.i
  BY AskedIs
<1>2. sv \in ServerState
  BY DEF Types
<1> DEFINE r == Read1
<1>3. r = [sv EXCEPT !.n = cl.i]
  BY <1>1 DEF Read1
<1>4. /\ r.pc = sv.pc /\ r.n = cl.i /\ r.tls = sv.tls /\ r.table = sv.table
      /\ r.zlib = sv.zlib /\ r.freed = sv.freed /\ r.authorized = sv.authorized
      /\ DOMAIN r = {"pc", "table", "tls", "zlib", "authorized", "freed", "n"}
  BY <1>2, <1>3 DEF ServerState
<1>5. /\ Continues => sv' = r
      /\ Leaves => sv' = [r EXCEPT !.pc = "done"]
  BY DEF Continues, Leaves
<1> HIDE DEF r
<1> SUFFICES
      /\ sv' = r =>
              /\ sv'.pc = sv.pc /\ sv'.n = cl.i /\ sv'.tls = sv.tls /\ sv'.table = sv.table
              /\ sv'.zlib = sv.zlib /\ sv'.freed = sv.freed /\ sv'.authorized = sv.authorized
      /\ \A pc : sv' = [r EXCEPT !.pc = pc] =>
              /\ sv'.pc = pc /\ sv'.n = cl.i /\ sv'.tls = sv.tls /\ sv'.table = sv.table
              /\ sv'.zlib = sv.zlib /\ sv'.freed = sv.freed /\ sv'.authorized = sv.authorized
      /\ sv' = [r EXCEPT !.authorized = TRUE, !.freed = TRUE] =>
              /\ sv'.pc = sv.pc /\ sv'.n = cl.i /\ sv'.tls = sv.tls /\ sv'.table = sv.table
              /\ sv'.zlib = sv.zlib /\ sv'.freed /\ sv'.authorized
      /\ sv' = [r EXCEPT !.freed = FALSE] =>
              /\ sv'.pc = sv.pc /\ sv'.n = cl.i /\ sv'.tls = sv.tls /\ sv'.table = sv.table
              /\ sv'.zlib = sv.zlib /\ ~sv'.freed /\ sv'.authorized = sv.authorized
      /\ sv' = [r EXCEPT !.zlib = TRUE] =>
              /\ sv'.pc = sv.pc /\ sv'.n = cl.i /\ sv'.tls = sv.tls /\ sv'.table = sv.table
              /\ sv'.zlib /\ sv'.freed = sv.freed /\ sv'.authorized = sv.authorized
  BY <1>5 DEF r
<1> QED
  BY <1>4

LEMMA CommandIs ==
  ASSUME Types, Asking, Command, faults = 0, faults' = 0
  PROVE  Outcome
<1>1. /\ c2s # <<>> /\ Tail(c2s) = <<>> /\ s2c = <<>>
      /\ Head(c2s).verb = cl.verb /\ Head(c2s).mode = ServerMode
  BY AskedIs
<1>2. ASSUME NEW v, Reads(v) PROVE sv.pc = "loop" /\ cl.verb = v /\ c2s' = <<>>
  BY <1>1, <1>2 DEF Reads, ServerAt
<1>3. ~Fault
  BY DEF Fault
<1> DEFINE Heard(code) ==
             /\ s2c' # <<>> /\ Len(s2c') = 1 /\ s2c'[1].mode = ServerMode
             /\ code = 320 \/ s2c'[1].code # 320
             /\ Positive(s2c'[1]) <=> code \in {201, 202, 203, 205, 215, 220, 230, 240, 250}
<1>4. ASSUME NEW code \in {201, 202, 203, 205, 215, 220, 230, 240, 250, 500, 501, 502, 530, 535, 551}, Says(code)
      PROVE  Heard(code)
  <2>1. code \in Nat
    BY <1>4
  <2> QED
    BY <1>4, <2>1, SaidAlone
<1> HIDE DEF Heard
<1>5. CASE Simple
  <2>1. \/ Reads("QUIT") /\ Says(201) /\ Leaves
        \/ Reads("NOOP") /\ Says(202) /\ Continues
        \/ Reads("HELP") /\ Says(203) /\ Continues
    BY <1>5 DEF Simple
  <2>2. /\ sv.pc = "loop" /\ c2s' = <<>> /\ cl.verb \in {"QUIT", "NOOP", "HELP"}
        /\ (cl.verb = "QUIT" /\ Leaves) \/ (cl.verb # "QUIT" /\ Continues)
        /\ Heard(201) \/ Heard(202) \/ Heard(203)
    BY <1>2, <1>4, <2>1
  <2> QED
    BY <2>2, ServerNow DEF Outcome, Accepts1, After1, Privileged, Request, Heard
<1>6. CASE NotAllowed
  <2>1. PICK v : Reads(v) /\ \/ /\ v \in Privileged /\ sv.table # "auth" /\ Leaves
                                /\ Says(530) \/ Says(500)
                             \/ v = "STARTTLS" /\ sv.table = "noauth" /\ Says(500) /\ Continues
    BY <1>6 DEF NotAllowed, Privileged
  <2>2. /\ sv.pc = "loop" /\ c2s' = <<>>
        /\ Heard(530) \/ Heard(500)
        /\ \/ cl.verb \in Privileged /\ sv.table # "auth" /\ Leaves
           \/ cl.verb = "STARTTLS" /\ sv.table = "noauth" /\ Continues
    BY <1>2, <1>4, <2>1
  <2> QED
    BY <2>2, ServerNow DEF Outcome, Refuses, Heard
<1>7. CASE StartTls
  <2>1. /\ sv.pc = "loop" /\ c2s' = <<>> /\ cl.verb = "STARTTLS" /\ Heard(220)
        /\ sv' = [Read1 EXCEPT !.pc = "shake"]
    BY <1>2, <1>4, <1>7 DEF StartTls
  <2> QED
    BY <2>1, ServerNow DEF Outcome, Accepts1, After1, Privileged, Request, Heard
<1>8. ~Garbled
  BY <1>1 DEF Garbled
<1>9. CASE Serve
  <2>1. PICK v \in {"STAT", "RETR", "REPO"} :
          /\ Reads(v) /\ sv.table = "auth" /\ Continues
          /\ Says(CASE v = "STAT" -> 230 [] v = "RETR" -> 240 [] OTHER -> 215)
    BY <1>3, <1>9 DEF Serve
  <2>2. Says(230) \/ Says(240) \/ Says(215)
    BY <2>1
  <2>3. /\ sv.pc = "loop" /\ c2s' = <<>> /\ cl.verb \in {"STAT", "RETR", "REPO"} /\ sv.table = "auth"
        /\ Continues
        /\ Heard(230) \/ Heard(240) \/ Heard(215)
    BY <1>2, <1>4, <2>1, <2>2
  <2> QED
    BY <2>3, ServerNow DEF Outcome, Accepts1, After1, Privileged, Request, Heard
<1>10. CASE Stor
  <2>1. /\ Reads("STOR") /\ sv.table = "auth"
        /\ \/ MayStore /\ Says(250) /\ Continues
           \/ ~MayStore /\ Says(551) /\ Leaves
    BY <1>3, <1>10 DEF Stor
  <2>2. /\ sv.pc = "loop" /\ c2s' = <<>> /\ cl.verb = "STOR" /\ sv.table = "auth"
        /\ \/ (setup.checkuser => sv.authorized) /\ Heard(250) /\ Continues
           \/ setup.checkuser /\ ~sv.authorized /\ Heard(551) /\ Leaves
    BY <1>2, <1>4, <2>1 DEF MayStore
  <2>3. CASE (setup.checkuser => sv.authorized) /\ Heard(250) /\ Continues
    BY <2>2, <2>3, ServerNow DEF Outcome, Accepts1, After1, Privileged, Request, Heard
  <2>4. CASE setup.checkuser /\ ~sv.authorized /\ Heard(551) /\ Leaves
    BY <2>2, <2>4, ServerNow DEF Outcome, Refuses, Heard
  <2> QED
    BY <2>2, <2>3, <2>4
<1>11. CASE Login
  <2>1. /\ Reads("LOGIN") /\ sv.table = "auth"
        /\ \/ ~setup.checkuser /\ Says(502) /\ Continues
           \/ /\ setup.checkuser /\ setup.pass /\ Says(205)
              /\ sv' = [Read1 EXCEPT !.authorized = TRUE, !.freed = TRUE]
           \/ ~setup.pass /\ Says(535) /\ sv' = [Read1 EXCEPT !.freed = FALSE]
           \/ sv.freed /\ s2c' = s2c /\ Leaves
    BY <1>3, <1>11 DEF Login
  <2>2. sv.pc = "loop" /\ c2s' = <<>> /\ cl.verb = "LOGIN" /\ sv.table = "auth"
    BY <1>2, <2>1
  <2>3. CASE ~setup.checkuser /\ Says(502) /\ Continues
    BY <1>4, <2>2, <2>3, ServerNow DEF Outcome, Refuses, Heard
  <2>4. CASE /\ setup.checkuser /\ setup.pass /\ Says(205)
             /\ sv' = [Read1 EXCEPT !.authorized = TRUE, !.freed = TRUE]
    BY <1>4, <2>2, <2>4, ServerNow DEF Outcome, Accepts1, After1, Privileged, Request, Heard
  <2>5. CASE ~setup.pass /\ Says(535) /\ sv' = [Read1 EXCEPT !.freed = FALSE]
    BY <1>4, <2>2, <2>5, ServerNow DEF Outcome, Refuses, Heard
  <2>6. CASE sv.freed /\ s2c' = s2c /\ Leaves
    BY <1>1, <2>2, <2>6, ServerNow DEF Outcome, Refuses
  <2> QED
    BY <2>1, <2>3, <2>4, <2>5, <2>6
<1>12. CASE Compress
  <2>1. /\ Reads("COMP") /\ sv.table = "auth"
        /\ \/ (~setup.zlib \/ sv.zlib) /\ Says(501) /\ Continues
           \/ /\ setup.zlib /\ ~sv.zlib /\ sv' = [Read1 EXCEPT !.zlib = TRUE]
              /\ s2c' = s2c \o <<Now(320), [Now(220) EXCEPT !.mode.zlib = TRUE]>>
    BY <1>3, <1>12 DEF Compress
  <2>2. sv.pc = "loop" /\ c2s' = <<>> /\ cl.verb = "COMP" /\ sv.table = "auth"
    BY <1>2, <2>1
  <2>3. CASE (~setup.zlib \/ sv.zlib) /\ Says(501) /\ Continues
    BY <1>4, <2>2, <2>3, ServerNow DEF Outcome, Refuses, Heard
  <2>4. CASE /\ setup.zlib /\ ~sv.zlib /\ sv' = [Read1 EXCEPT !.zlib = TRUE]
             /\ s2c' = s2c \o <<Now(320), [Now(220) EXCEPT !.mode.zlib = TRUE]>>
    <3> DEFINE m == Now(320)
               r == Now(220)
               z == [r.mode EXCEPT !.zlib = TRUE]
               n == [r EXCEPT !.mode = z]
    <3>1. m \in ReplyMsg /\ m.code = 320 /\ m.mode = ServerMode
      BY <1>1, NowTyped, ReplyIs
    <3>2. r \in ReplyMsg /\ r.code = 220 /\ r.mode = ServerMode
      BY <1>1, NowTyped, ReplyIs
    <3>3. s2c' = s2c \o <<m, n>>
      BY <2>4
    <3> HIDE DEF m, r
    <3>4. z \in Mode /\ z = [tls |-> sv.tls, zlib |-> TRUE]
      <4>1. z \in Mode /\ z.tls = r.mode.tls /\ z.zlib
        BY <3>2 DEF ReplyMsg, Mode
      <4>2. r.mode.tls = sv.tls
        BY <3>2 DEF ServerMode
      <4>3. \A w \in Mode : w.zlib => w = [tls |-> w.tls, zlib |-> TRUE]
        BY DEF Mode
      <4> HIDE DEF z
      <4> QED
        BY <4>1, <4>2, <4>3
    <3> HIDE DEF z
    <3>5. n \in ReplyMsg /\ n.code = 220 /\ n.mode = z
      BY <3>2, <3>4 DEF ReplyMsg
    <3> HIDE DEF n
    <3>6. Len(s2c') = 2 /\ s2c'[1] = m /\ s2c'[2] = n
      BY <1>1, <3>1, <3>3, <3>5, SentPair
    <3>7. Positive(n)
      BY <3>5 DEF Positive
    <3>8. Switches
      BY <2>2, <2>4, <3>1, <3>4, <3>5, <3>6, <3>7, ServerNow DEF Switches
    <3> QED
      BY <2>2, <2>4, <3>8, ServerNow DEF Outcome
  <2> QED
    BY <2>1, <2>3, <2>4
<1> QED
  BY <1>5, <1>6, <1>7, <1>8, <1>9, <1>10, <1>11, <1>12 DEF Command
-----------------------------------------------------------------------------
(* What the client writes and reads                                         *)
NextVerb == IF cl.err THEN "QUIT" ELSE Plan[cl.i + 1]

(* No REPO to a server that does not announce it                            *)
GivesUpRepo ==
  /\ cl'.pc = "done" /\ exit' = "2" /\ c2s' = c2s /\ cl'.i = cl.i /\ cl'.verb = cl.verb
  /\ ~cl.err /\ Plan[cl.i + 1] = "REPO" /\ "REPO" \notin cl.capa

Writes ==
  /\ cl'.pc = "read" /\ exit' = exit /\ cl'.i = cl.i + 1
  /\ cl'.verb = NextVerb /\ cl'.verb # "none"
  /\ NextVerb = "REPO" => "REPO" \in cl.capa
  /\ c2s = <<>> => Len(c2s') = 1 /\ c2s'[1] = [verb |-> cl'.verb, n |-> cl'.i, mode |-> ClientMode]

LEMMA WritesIs ==
  ASSUME IInv, ClientWrites
  PROVE  /\ cl.pc = "write" /\ UNCHANGED <<setup, sv, s2c, conf, kfiles, faults>>
         /\ cl'.tls = cl.tls /\ cl'.zlib = cl.zlib /\ cl'.capa = cl.capa /\ cl'.err = cl.err
         /\ ~cl.err => cl.i + 1 \in 1..Len(Plan)
         /\ GivesUpRepo \/ Writes
<1>1. /\ cl.pc = "write" /\ UNCHANGED <<setup, sv, s2c, conf, kfiles, faults>>
      /\ cl \in ClientState /\ c2s \in Seq(CommandMsg) /\ cl.i \in Nat
  BY DEF ClientWrites, ClientAt, configFiles, IInv, Types, ClientState
<1>2. ~cl.err => cl.i + 1 \in 1..Len(Plan)
  BY <1>1, PlanTyped DEF IInv, OnPlan, Plan, Types
<1>3. NextVerb \in Verb /\ NextVerb # "none"
  BY <1>1, <1>2, PlanTyped DEF NextVerb, Verb, Request, Plan, IInv, Types
<1>4. \/ /\ NextVerb = "REPO" /\ "REPO" \notin cl.capa
         /\ cl' = [cl EXCEPT !.pc = "done"] /\ exit' = "2" /\ c2s' = c2s
      \/ /\ NextVerb = "REPO" => "REPO" \in cl.capa
         /\ c2s' = Append(c2s, [verb |-> NextVerb, n |-> cl.i + 1, mode |-> ClientMode])
         /\ cl' = [cl EXCEPT !.pc = "read", !.i = @ + 1, !.verb = NextVerb]
         /\ exit' = exit
  BY DEF ClientWrites, ClientExits, NextVerb
<1>5. NextVerb = "REPO" => ~cl.err /\ Plan[cl.i + 1] = "REPO"
  BY DEF NextVerb
<1> HIDE DEF NextVerb
<1>6. CASE /\ NextVerb = "REPO" /\ "REPO" \notin cl.capa
           /\ cl' = [cl EXCEPT !.pc = "done"] /\ exit' = "2" /\ c2s' = c2s
  BY <1>1, <1>2, <1>5, <1>6 DEF ClientState, GivesUpRepo
<1>7. CASE /\ NextVerb = "REPO" => "REPO" \in cl.capa
           /\ c2s' = Append(c2s, [verb |-> NextVerb, n |-> cl.i + 1, mode |-> ClientMode])
           /\ cl' = [cl EXCEPT !.pc = "read", !.i = @ + 1, !.verb = NextVerb]
           /\ exit' = exit
  <2>1. /\ cl'.pc = "read" /\ cl'.i = cl.i + 1 /\ cl'.verb = NextVerb
        /\ cl'.tls = cl.tls /\ cl'.zlib = cl.zlib /\ cl'.capa = cl.capa /\ cl'.err = cl.err
    BY <1>1, <1>7 DEF ClientState
  <2> DEFINE m == [verb |-> NextVerb, n |-> cl.i + 1, mode |-> ClientMode]
  <2>2. c2s' = Append(c2s, m) /\ m = [verb |-> cl'.verb, n |-> cl'.i, mode |-> ClientMode]
    BY <1>7, <2>1
  <2> HIDE DEF m
  <2>3. c2s = <<>> => Len(c2s') = 1 /\ c2s'[1] = m
    BY <2>2
  <2> QED
    BY <1>1, <1>2, <1>3, <1>7, <2>1, <2>2, <2>3 DEF Writes
<1> QED
  BY <1>4, <1>6, <1>7

(* What the client makes of the next reply                                  *)
Fails1 ==
  /\ cl'.pc = "done" /\ exit' = "2" /\ cl'.err = cl.err /\ cl'.capa = cl.capa
  /\ \/ s2c[1].mode # ClientMode
     \/ cl.verb = "none" /\ s2c[1].code # 200
     \/ cl.verb # "none" /\ ~Positive(s2c[1]) /\ ~(cl.verb = "COMP" /\ s2c[1].code = 320 /\ ~cl.zlib)

Welcomed ==
  /\ cl.verb = "none" /\ s2c[1].code = 200 /\ exit' = exit
  /\ cl'.pc = (IF s2c[1].more THEN "read" ELSE "write") /\ cl'.capa = s2c[1].capa
  /\ cl'.zlib = cl.zlib /\ cl'.err = cl.err

Quits ==
  /\ cl.verb = "QUIT" /\ Positive(s2c[1])
  /\ cl'.pc = "done" /\ exit' = (IF cl.err THEN "2" ELSE "0")
  /\ cl'.err = cl.err /\ cl'.capa = cl.capa

Proceeds ==
  /\ cl.verb \notin {"none", "QUIT"} /\ Positive(s2c[1]) /\ exit' = exit
  /\ cl'.pc = IF cl.verb = "STARTTLS" THEN "shake" ELSE "write"
  /\ cl'.zlib = cl.zlib /\ cl'.err = cl.err /\ cl'.capa = cl.capa

Inflates ==
  /\ cl.verb = "COMP" /\ s2c[1].code = 320 /\ ~cl.zlib /\ exit' = exit
  /\ cl'.pc = "read" /\ cl'.zlib /\ cl'.err = cl.err /\ cl'.capa = cl.capa

Gathers ==
  /\ cl.verb \in Request /\ ~Positive(s2c[1]) /\ exit' = exit
  /\ cl'.pc = "write" /\ cl'.err /\ cl'.zlib = cl.zlib /\ cl'.capa = cl.capa

LEMMA ReadsIs ==
  ASSUME IInv, ClientReads
  PROVE  /\ cl.pc = "read" /\ s2c # <<>> /\ s2c' = Tail(s2c)
         /\ UNCHANGED <<setup, sv, c2s, conf, kfiles, faults>>
         /\ cl'.i = cl.i /\ cl'.verb = cl.verb /\ cl'.tls = cl.tls
         /\ \/ Fails1
            \/ /\ s2c[1].mode = ClientMode
               /\ Welcomed \/ Quits \/ Proceeds \/ Inflates \/ Gathers
<1>1. /\ cl.pc = "read" /\ s2c # <<>> /\ s2c' = Tail(s2c)
      /\ UNCHANGED <<setup, sv, c2s, conf, kfiles, faults>>
  BY DEF ClientReads, ClientAt, configFiles
<1>2. Head(s2c) = s2c[1] /\ cl \in ClientState
  BY <1>1, Queues DEF IInv, Types
<1> DEFINE m == s2c[1]
<1>3. \/ m.mode # ClientMode /\ ClientExits("2")
      \/ m.mode = ClientMode /\ (ReadsBanner(m) \/ ReadsReply(m) \/ ReadsCompress(m) \/ ReadsError(m))
  BY <1>2 DEF ClientReads
<1>4. ASSUME ClientExits("2")
      PROVE  /\ cl'.i = cl.i /\ cl'.verb = cl.verb /\ cl'.tls = cl.tls /\ cl'.pc = "done" /\ exit' = "2"
             /\ cl'.err = cl.err /\ cl'.capa = cl.capa
  BY <1>2, <1>4 DEF ClientExits, ClientState
<1> HIDE DEF ClientMode
<1>5. CASE m.mode # ClientMode /\ ClientExits("2")
  BY <1>1, <1>4, <1>5 DEF Fails1
<1>6. CASE m.mode = ClientMode /\ ReadsBanner(m)
  <2>1. CASE m.code # 200
    BY <1>1, <1>4, <1>6, <2>1 DEF ReadsBanner, Fails1
  <2>2. CASE m.code = 200
    <3> DEFINE pc == IF m.more THEN "read" ELSE "write"
    <3>1. cl.verb = "none" /\ cl' = [cl EXCEPT !.pc = pc, !.capa = m.capa] /\ exit' = exit
      BY <1>6, <2>2 DEF ReadsBanner
    <3> HIDE DEF pc
    <3>2. /\ cl'.pc = pc /\ cl'.capa = m.capa /\ cl'.i = cl.i /\ cl'.verb = cl.verb
          /\ cl'.tls = cl.tls /\ cl'.zlib = cl.zlib /\ cl'.err = cl.err
      BY <1>2, <3>1 DEF ClientState
    <3> QED
      BY <1>1, <1>6, <2>2, <3>1, <3>2 DEF Welcomed, pc
  <2> QED
    BY <2>1, <2>2
<1>7. CASE m.mode = ClientMode /\ ReadsReply(m)
  <2>1. CASE Accepts(m) /\ cl.verb = "QUIT" /\ ClientExits(IF cl.err THEN "2" ELSE "0")
    BY <1>1, <1>2, <1>7, <2>1 DEF Accepts, ClientExits, Quits, ClientState
  <2>2. CASE Accepts(m) /\ cl.verb = "STARTTLS" /\ ClientGoes("shake") /\ exit' = exit
    BY <1>1, <1>2, <1>7, <2>2 DEF Accepts, ClientGoes, Proceeds, ClientState
  <2>3. CASE Accepts(m) /\ cl.verb \notin {"QUIT", "STARTTLS"} /\ ClientGoes("write") /\ exit' = exit
    BY <1>1, <1>2, <1>7, <2>3 DEF Accepts, ClientGoes, Proceeds, ClientState
  <2> QED
    BY <1>7, <2>1, <2>2, <2>3 DEF ReadsReply
<1>8. CASE m.mode = ClientMode /\ ReadsCompress(m)
  BY <1>1, <1>2, <1>8 DEF ReadsCompress, Inflates, ClientState
<1>9. CASE m.mode = ClientMode /\ ReadsError(m)
  <2>1. CASE ClientExits("2")
    BY <1>1, <1>4, <1>9, <2>1 DEF ReadsError, Fails1
  <2>2. CASE cl.verb \in Request /\ cl' = [cl EXCEPT !.pc = "write", !.err = TRUE] /\ exit' = exit
    BY <1>1, <1>2, <1>9, <2>2 DEF ReadsError, Gathers, ClientState
  <2> QED
    BY <1>9, <2>1, <2>2 DEF ReadsError
<1> QED
  BY <1>3, <1>5, <1>6, <1>7, <1>8, <1>9
-----------------------------------------------------------------------------
(* The other steps                                                          *)
Steady ==
  /\ sv'.n = sv.n /\ sv'.tls = sv.tls /\ sv'.zlib = sv.zlib
  /\ sv'.authorized = sv.authorized /\ sv'.freed = sv.freed
  /\ UNCHANGED <<setup, cl, c2s, exit, faults, conf, kfiles>>

Tells ==
  /\ s2c = <<>> => /\ Len(s2c') = 1 /\ s2c'[1].mode = ServerMode
                   /\ ~Positive(s2c'[1]) /\ s2c'[1].code # 320
  /\ s2c # <<>> => s2c' # <<>> /\ s2c'[1] = s2c[1]

LEMMA TellsIs ==
  ASSUME Types, NEW code \in {420, 421, 444, 500, 501}, Answers(code)
  PROVE  Tells
<1>1. Reply(code) \in ReplyMsg /\ s2c' = Append(s2c, Reply(code))
  BY ReplyTyped DEF Answers
<1>2. Reply(code).code = code /\ Reply(code).mode = ServerMode
  BY ReplyIs
<1>3. ~Positive(Reply(code))
  BY <1>2 DEF Positive
<1> HIDE DEF Reply
<1>4. s2c = <<>> => Len(s2c') = 1 /\ s2c'[1] = Reply(code)
  BY <1>1, SentAlone
<1>5. s2c # <<>> => s2c' # <<>> /\ s2c'[1] = s2c[1]
  <2>1. s2c \in Seq(ReplyMsg)
    BY DEF Types
  <2> QED
    BY <1>1, <2>1
<1> QED
  BY <1>2, <1>3, <1>4, <1>5 DEF Tells

LEMMA StartIs ==
  ASSUME Types, ServerStart
  PROVE  /\ sv.pc = "start" /\ Steady /\ sv'.table = sv.table
         /\ \/ setup.busy /\ Tells /\ sv'.pc = "done"
            \/ /\ ~setup.busy /\ s2c' = s2c
               /\ sv'.pc = IF setup.authlevel = 0 THEN "lookup" ELSE "banner"
<1>1. sv.pc = "start" /\ UNCHANGED <<setup, cl, c2s, exit, faults, conf, kfiles>> /\ sv \in ServerState
  BY DEF ServerStart, ServerAt, configFiles, Types
<1>2. \/ setup.busy /\ Answers(420) /\ ServerGoes("done")
      \/ ~setup.busy /\ setup.authlevel = 0 /\ ServerGoes("lookup") /\ s2c' = s2c
      \/ ~setup.busy /\ setup.authlevel # 0 /\ ServerGoes("banner") /\ s2c' = s2c
  BY DEF ServerStart
<1>3. ASSUME NEW pc, ServerGoes(pc)
      PROVE  Steady /\ sv'.pc = pc /\ sv'.table = sv.table
  BY <1>1, <1>3 DEF ServerGoes, ServerState, Steady
<1> QED
  BY <1>1, <1>2, <1>3, TellsIs

LEMMA LookupDoneIs ==
  ASSUME Types, LookupDone
  PROVE  /\ sv.pc = "lookup" /\ Steady
         /\ \/ /\ finding = "ready" /\ s2c' = s2c
               /\ sv'.table = "auth" /\ sv'.pc = IF sv.tls THEN "loop" ELSE "banner"
            \/ finding = "none" /\ sv.tls /\ s2c' = s2c /\ sv'.table = "noauth" /\ sv'.pc = "loop"
            \/ finding \in {"none", "failed"} /\ Tells /\ sv'.pc = "done"
<1>1. sv.pc = "lookup" /\ UNCHANGED <<setup, cl, c2s, exit, faults, conf, kfiles>> /\ sv \in ServerState
  BY DEF LookupDone, ServerAt, configFiles, Types
<1>2. \/ /\ finding = "ready" /\ s2c' = s2c
         /\ sv' = [sv EXCEPT !.table = "auth", !.pc = IF sv.tls THEN "loop" ELSE "banner"]
      \/ finding = "none" /\ sv.tls /\ s2c' = s2c /\ sv' = [sv EXCEPT !.table = "noauth", !.pc = "loop"]
      \/ finding = "none" /\ Answers(500) /\ ServerGoes("done")
      \/ finding = "failed" /\ Answers(421) /\ ServerGoes("done")
  BY DEF LookupDone, Unlisted
<1>3. ASSUME ServerGoes("done")
      PROVE  Steady /\ sv'.pc = "done"
  BY <1>1, <1>3 DEF ServerGoes, ServerState, Steady
<1>4. ASSUME NEW table, NEW pc, sv' = [sv EXCEPT !.table = table, !.pc = pc]
      PROVE  Steady /\ sv'.pc = pc /\ sv'.table = table
  BY <1>1, <1>4 DEF ServerState, Steady
<1> DEFINE next == IF sv.tls THEN "loop" ELSE "banner"
<1>5. CASE finding = "ready" /\ s2c' = s2c /\ sv' = [sv EXCEPT !.table = "auth", !.pc = next]
  <2> HIDE DEF next
  <2>1. Steady /\ sv'.pc = next /\ sv'.table = "auth"
    BY <1>4, <1>5
  <2> QED
    BY <1>1, <1>5, <2>1 DEF next
<1>6. CASE finding = "none" /\ sv.tls /\ s2c' = s2c /\ sv' = [sv EXCEPT !.table = "noauth", !.pc = "loop"]
  <2>1. Steady /\ sv'.pc = "loop" /\ sv'.table = "noauth"
    BY <1>4, <1>6
  <2> QED
    BY <1>1, <1>6, <2>1
<1>7. CASE finding = "none" /\ Answers(500) /\ ServerGoes("done")
  BY <1>1, <1>3, <1>7, TellsIs
<1>8. CASE finding = "failed" /\ Answers(421) /\ ServerGoes("done")
  BY <1>1, <1>3, <1>8, TellsIs
<1> QED
  BY <1>2, <1>5, <1>6, <1>7, <1>8

LEMMA LookupIs ==
  ASSUME Lookup
  PROVE  sv.pc = "lookup" /\ sv' = sv /\ s2c' = s2c /\ Steady
BY DEF Lookup, ServerAt, configFiles, sessionOwn, Steady

(* The lines of the banner                                                  *)
BannerSays ==
  /\ Len(s2c') \in 1..2
  /\ \A k \in 1..Len(s2c') : /\ s2c'[k].code = 200 /\ s2c'[k].mode = ServerMode
                             /\ s2c'[k].more <=> k < Len(s2c')
  /\ s2c'[Len(s2c')].capa = ShownCapa

LEMMA BannerIs ==
  ASSUME Types, Banner, s2c = <<>>
  PROVE  /\ sv.pc = "banner" /\ Steady /\ sv'.table = sv.table /\ sv'.pc = "loop" /\ BannerSays
<1>1. sv.pc = "banner" /\ UNCHANGED <<setup, cl, c2s, exit, faults, conf, kfiles>> /\ sv \in ServerState
      /\ sv' = [sv EXCEPT !.pc = "loop"]
  BY DEF Banner, ServerAt, ServerGoes, configFiles, Types
<1>2. Steady /\ sv'.table = sv.table /\ sv'.pc = "loop"
  BY <1>1 DEF ServerState, Steady
<1> DEFINE r == Reply(200)
           a == [r EXCEPT !.more = TRUE]
           b == [r EXCEPT !.capa = Capabilities]
<1>3. r \in ReplyMsg /\ r.code = 200 /\ ~r.more /\ r.capa = {} /\ r.mode = ServerMode
  BY ReplyTyped, ReplyIs DEF Reply
<1>4. IF setup.rap THEN s2c' = s2c \o <<a, b>> ELSE s2c' = Append(s2c, r)
  <2>1. s2c \in Seq(ReplyMsg)
    BY DEF Types
  <2> HIDE DEF r
  <2>2. s2c \o <<r>> = Append(s2c, r)
    BY <1>3, <2>1
  <2> QED
    BY <2>2 DEF Banner, r
<1>5. Capabilities \in SUBSET {"ZLIB", "REPO"}
  BY DEF Capabilities
<1> HIDE DEF r
<1>6. a \in ReplyMsg /\ a.code = 200 /\ a.more /\ a.mode = ServerMode
  BY <1>3 DEF ReplyMsg
<1>7. b \in ReplyMsg /\ b.code = 200 /\ ~b.more /\ b.mode = ServerMode /\ b.capa = Capabilities
  BY <1>3, <1>5 DEF ReplyMsg
<1> HIDE DEF a, b
<1>8. CASE setup.rap
  <2>1. Len(s2c') = 2 /\ s2c'[1] = a /\ s2c'[2] = b
    BY <1>4, <1>6, <1>7, <1>8, SentPair
  <2> QED
    BY <1>1, <1>2, <1>6, <1>7, <1>8, <2>1 DEF BannerSays, ShownCapa
<1>9. CASE ~setup.rap
  <2>1. Len(s2c') = 1 /\ s2c'[1] = r
    BY <1>3, <1>4, <1>9, SentAlone
  <2> QED
    BY <1>1, <1>2, <1>3, <1>9, <2>1 DEF BannerSays, ShownCapa
<1> QED
  BY <1>8, <1>9

LEMMA HangsUpIs ==
  ASSUME Types, ServerHangsUp
  PROVE  sv.pc = "loop" /\ cl.pc = "done" /\ Steady /\ sv'.pc = "done"
<1>1. /\ sv.pc = "loop" /\ cl.pc = "done" /\ UNCHANGED <<setup, cl, c2s, exit, faults, conf, kfiles>>
      /\ sv \in ServerState /\ sv' = [sv EXCEPT !.pc = "done"]
  BY DEF ServerHangsUp, ServerAt, ClientAt, ServerGoes, configFiles, Types
<1> QED
  BY <1>1 DEF ServerState, Steady

LEMMA GivesUpIs ==
  ASSUME Types, ClientGivesUp
  PROVE  /\ cl.pc = "read" /\ s2c = <<>> /\ sv.pc = "done"
         /\ UNCHANGED <<setup, sv, c2s, s2c, conf, kfiles, faults>>
         /\ cl'.pc = "done" /\ exit' = "2" /\ cl'.err = cl.err /\ cl'.i = cl.i
         /\ cl'.verb = cl.verb /\ cl'.capa = cl.capa /\ cl'.tls = cl.tls
BY DEF ClientGivesUp, ClientAt, ServerAt, ClientExits, configFiles, Types, ClientState

LEMMA HandshakeIs ==
  ASSUME Types, Handshake
  PROVE  /\ cl.pc = "shake" /\ sv.pc = "shake" /\ ClientContent /\ ServerContent
         /\ UNCHANGED <<setup, c2s, s2c, conf, kfiles, faults>>
         /\ cl'.tls /\ cl'.err = cl.err /\ cl'.i = cl.i /\ cl'.verb = cl.verb
         /\ cl'.capa = cl.capa /\ cl'.zlib = cl.zlib
         /\ \/ setup.sname /\ cl'.pc = "write" /\ exit' = exit
            \/ ~setup.sname /\ cl'.pc = "done" /\ exit' = "2"
         /\ sv'.tls /\ sv'.pc = "lookup" /\ sv'.n = sv.n /\ sv'.zlib = sv.zlib
         /\ sv'.authorized = sv.authorized /\ sv'.freed = sv.freed
<1>1. cl \in ClientState /\ sv \in ServerState
  BY DEF Types
<1>2. /\ sv'.tls /\ sv'.pc = "lookup" /\ sv'.n = sv.n /\ sv'.zlib = sv.zlib
      /\ sv'.authorized = sv.authorized /\ sv'.freed = sv.freed
  BY <1>1 DEF Handshake, ServerState
<1>3. ASSUME NEW pc, cl' = [cl EXCEPT !.tls = TRUE, !.pc = pc]
      PROVE  /\ cl'.tls /\ cl'.err = cl.err /\ cl'.i = cl.i /\ cl'.verb = cl.verb
             /\ cl'.capa = cl.capa /\ cl'.zlib = cl.zlib /\ cl'.pc = pc
  BY <1>1, <1>3 DEF ClientState
<1> QED
  BY <1>2, <1>3 DEF Handshake, Shaking, ClientAt, ServerAt, NameAsExpected, configFiles

LEMMA FailsIs ==
  ASSUME Types, HandshakeFails, faults = 0, faults' = 0
  PROVE  /\ cl.pc = "shake" /\ sv.pc = "shake" /\ ~(ClientContent /\ ServerContent)
         /\ UNCHANGED <<setup, c2s, conf, kfiles>>
         /\ cl'.err = cl.err /\ cl'.i = cl.i /\ cl'.verb = cl.verb /\ cl'.capa = cl.capa
         /\ \/ cl'.pc = "done" /\ exit' = "2"
            \/ ClientContent /\ cl'.pc = "write" /\ exit' = exit /\ cl'.tls
         /\ Tells /\ sv'.pc = "loop" /\ sv'.n = sv.n /\ sv'.zlib = sv.zlib /\ sv'.tls = sv.tls
         /\ sv'.authorized = sv.authorized /\ sv'.freed = sv.freed
<1>1. cl \in ClientState /\ sv \in ServerState
  BY DEF Types
<1>2. /\ sv'.tls = sv.tls /\ sv'.pc = "loop" /\ sv'.n = sv.n /\ sv'.zlib = sv.zlib
      /\ sv'.authorized = sv.authorized /\ sv'.freed = sv.freed
  BY <1>1 DEF HandshakeFails, ServerGoes, ServerState
<1>3. Tells
  BY TellsIs DEF HandshakeFails
<1>4. /\ cl.pc = "shake" /\ sv.pc = "shake" /\ ~(ClientContent /\ ServerContent)
      /\ UNCHANGED <<setup, c2s, conf, kfiles>>
      /\ \/ ClientExits("2")
         \/ ClientContent /\ cl' = [cl EXCEPT !.tls = TRUE, !.pc = "write"] /\ exit' = exit
  BY DEF HandshakeFails, Shaking, ClientAt, ServerAt, configFiles, Fault
<1>5. CASE ClientExits("2")
  BY <1>1, <1>2, <1>3, <1>4, <1>5 DEF ClientExits, ClientState
<1>6. CASE ClientContent /\ cl' = [cl EXCEPT !.tls = TRUE, !.pc = "write"] /\ exit' = exit
  BY <1>1, <1>2, <1>3, <1>4, <1>6 DEF ClientState
<1> QED
  BY <1>4, <1>5, <1>6

LEMMA AloneIs ==
  ASSUME Types, HandshakeAlone
  PROVE  \/ /\ cl.pc = "shake" /\ sv.pc = "done"
         \/ /\ cl.pc = "done" /\ sv.pc = "shake" /\ Steady /\ sv'.pc = "loop"
BY DEF HandshakeAlone, ClientAt, ServerAt, ServerGoes, configFiles, Types, ServerState, Steady
-----------------------------------------------------------------------------
(* The phases follow one another                                            *)

LEMMA Modes ==
  ASSUME Types
  PROVE  /\ Agreed <=> cl.tls = sv.tls /\ cl.zlib = sv.zlib
         /\ Agreed' <=> cl'.tls = sv'.tls /\ cl'.zlib = sv'.zlib
         /\ cl'.tls = cl.tls /\ cl'.zlib = cl.zlib => ClientMode' = ClientMode
         /\ sv'.tls = sv.tls /\ sv'.zlib = sv.zlib => ServerMode' = ServerMode
         /\ Agreed <=> ClientMode = ServerMode
         /\ Agreed' <=> ClientMode' = ServerMode'
BY DEF Agreed, ClientMode, ServerMode

LEMMA FirstKept ==
  ASSUME Types, s2c # <<>>, s2c' \in Seq(ReplyMsg),
         \A k \in DOMAIN s2c : k \in DOMAIN s2c' /\ s2c'[k] = s2c[k]
  PROVE  s2c' # <<>> /\ s2c'[1] = s2c[1]
<1>1. 1 \in DOMAIN s2c
  BY DEF Types
<1> QED
  BY <1>1

LEMMA CommandStays ==
  ASSUME IInv, Lockstep, Command, faults = 0, faults' = 0
  PROVE  Lockstep'
<1>1. /\ Types /\ sv.pc = "loop" /\ c2s # <<>> /\ sv'.tls = sv.tls
      /\ UNCHANGED <<setup, cl, exit, conf, kfiles>>
  BY CommandEffect DEF IInv, Effect, Command, Unaffected, configFiles
<1>2. /\ Certified' = Certified /\ ClientContent' = ClientContent /\ ServerContent' = ServerContent
      /\ ClientMode' = ClientMode
  BY <1>1, SetUpKept, Modes
<1>3. s2c # <<>> => s2c' # <<>> /\ s2c'[1] = s2c[1]
  BY <1>1, CommandEffect, FirstKept DEF Effect, Replied
<1>4. CASE Asking
  <2>1. Outcome
    BY <1>1, <1>4, CommandIs
  <2>2. cl.pc = "read" /\ cl.verb # "none" /\ Agreed /\ ClientMode = ServerMode /\ cl.zlib = sv.zlib /\ cl.tls = sv.tls
    BY <1>1, <1>4, Modes DEF Asking
  <2>3. CASE Accepts1
    <3>1. Agreed' /\ After1' = After1
      BY <1>1, <2>1, <2>2, <2>3, Modes DEF Outcome, Accepts1, After1
    <3>2. Positive(s2c[1])'
      BY <2>3 DEF Accepts1, Positive
    <3>3. Accepted'
      BY <1>1, <1>2, <2>1, <2>2, <2>3, <3>1, <3>2 DEF Outcome, Accepts1, Accepted, Answered
    <3> QED
      BY <1>1, <1>2, <3>3 DEF Lockstep, Phases
  <2>4. CASE Switches
    <3>1. ServerMode' = [tls |-> sv.tls, zlib |-> TRUE]
      <4>1. sv' \in ServerState
        BY <1>1, CommandEffect DEF Effect
      <4> QED
        BY <1>1, <2>4, <4>1 DEF Switches, ServerMode, ServerState
    <3>2. Positive(s2c[2])'
      BY <2>4 DEF Switches, Positive
    <3>3. Compressing'
      BY <1>1, <1>2, <2>1, <2>2, <2>4, <3>1, <3>2 DEF Outcome, Switches, Compressing, Answered
    <3> QED
      BY <1>1, <1>2, <3>3 DEF Lockstep, Phases
  <2>5. CASE Refuses
    <3>1. Agreed'
      BY <1>1, <2>1, <2>2, <2>5, Modes DEF Outcome, Refuses
    <3>2. \/ sv'.pc = "done" /\ s2c' = <<>>
          \/ sv'.pc \in {"loop", "done"} /\ Refusal'
      <4>1. Positive(s2c[1])' <=> Positive(s2c'[1])
        BY DEF Positive
      <4> HIDE DEF Positive
      <4> QED
        BY <1>2, <2>2, <2>5, <4>1 DEF Refuses, Refusal
    <3>3. Denied' \/ Deserted'
      BY <1>1, <2>1, <2>2, <3>1, <3>2 DEF Outcome, Denied, Answered, Deserted
    <3> QED
      BY <1>1, <1>2, <3>3 DEF Lockstep, Phases
  <2> QED
    BY <2>1, <2>3, <2>4, <2>5 DEF Outcome
<1>5. CASE Misled
  <2>1. Misled'
    BY <1>1, <1>2, <1>3, <1>5 DEF Misled
  <2> QED
    BY <1>1, <1>2, <2>1 DEF Lockstep, Phases
<1>6. CASE Over
  <2>1. Over'
    BY <1>1, <1>2, <1>6 DEF Over
  <2> QED
    BY <1>1, <1>2, <2>1 DEF Lockstep, Phases
<1> QED
  BY <1>1, <1>4, <1>5, <1>6 DEF Lockstep, Phases, Greeting, Writing, Denied, Accepted, Compressing,
     Handshaking, Deserted, Answered

LEMMA WritesStays ==
  ASSUME IInv, Lockstep, ClientWrites, faults = 0
  PROVE  Lockstep'
<1>1. /\ Types /\ cl.pc = "write" /\ UNCHANGED <<setup, sv, s2c, conf, kfiles, faults>>
      /\ cl'.tls = cl.tls /\ cl'.zlib = cl.zlib /\ cl'.capa = cl.capa /\ cl'.err = cl.err
      /\ GivesUpRepo \/ Writes
  BY WritesIs DEF IInv
<1>2. /\ Certified' = Certified /\ ClientContent' = ClientContent /\ ServerContent' = ServerContent
      /\ ClientMode' = ClientMode /\ (Agreed => Agreed')
  BY <1>1, SetUpKept, Modes
<1>3. Writing \/ Deserted \/ Misled
  BY <1>1 DEF Lockstep, Phases, Greeting, Asking, Denied, Accepted, Compressing, Handshaking, Answered, Over
<1>4. CASE GivesUpRepo
  <2>1. Over'
    BY <1>1, <1>2, <1>3, <1>4 DEF GivesUpRepo, Over, Writing, Deserted, Misled
  <2> QED
    BY <1>1, <1>2, <1>4, <2>1 DEF Lockstep, Phases, GivesUpRepo, Over
<1>5. CASE Writes
  <2>1. CASE Writing
    <3>1. cl.i \in Nat
      BY <1>1 DEF Types, ClientState
    <3>2. Asking'
      BY <1>1, <1>2, <1>5, <2>1, <3>1 DEF Writes, Writing, Asking, AtWork
    <3> QED
      BY <1>1, <1>2, <1>5, <3>2 DEF Lockstep, Phases, Writes, NextVerb
  <2>2. CASE Deserted
    <3>1. Deserted'
      BY <1>1, <1>2, <1>5, <2>2 DEF Writes, Deserted, Refusal, Positive
    <3> QED
      BY <1>1, <1>2, <1>5, <3>1 DEF Lockstep, Phases, Writes, NextVerb
  <2>3. CASE Misled
    <3>1. Misled'
      BY <1>1, <1>2, <1>5, <2>3 DEF Writes, Misled
    <3> QED
      BY <1>1, <1>2, <1>5, <3>1 DEF Lockstep, Phases, Writes, NextVerb
  <2> QED
    BY <1>3, <2>1, <2>2, <2>3
<1> QED
  BY <1>1, <1>4, <1>5

LEMMA TailIs ==
  ASSUME Types, s2c # <<>>, s2c' = Tail(s2c)
  PROVE  /\ s2c[1] \in ReplyMsg /\ Len(s2c) \in Nat
         /\ Len(s2c') = Len(s2c) - 1
         /\ Len(s2c) = 1 => s2c' = <<>>
         /\ Len(s2c) = 2 => Len(s2c') = 1 /\ s2c'[1] = s2c[2]
BY Queues

LEMMA ReadsStays ==
  ASSUME IInv, Lockstep, ClientReads, faults = 0
  PROVE  Lockstep'
<1>1. /\ Types /\ cl.pc = "read" /\ s2c # <<>> /\ s2c' = Tail(s2c)
      /\ UNCHANGED <<setup, sv, c2s, conf, kfiles, faults>>
      /\ cl'.i = cl.i /\ cl'.verb = cl.verb /\ cl'.tls = cl.tls
      /\ \/ Fails1
         \/ /\ s2c[1].mode = ClientMode
            /\ Welcomed \/ Quits \/ Proceeds \/ Inflates \/ Gathers
  BY ReadsIs DEF IInv
<1>2. /\ Certified' = Certified /\ ClientContent' = ClientContent /\ ServerContent' = ServerContent
      /\ ServerMode' = ServerMode /\ ShownCapa' = ShownCapa
  BY <1>1, SetUpKept, Modes
<1>3. exit = "none" /\ (sv.tls => ClientContent /\ ServerContent)
      /\ (cl.err => cl.verb = "QUIT")
  BY <1>1 DEF Lockstep
<1>4. /\ Len(s2c) \in Nat /\ Len(s2c') = Len(s2c) - 1
      /\ Len(s2c) = 1 => s2c' = <<>>
      /\ Len(s2c) = 2 => Len(s2c') = 1 /\ s2c'[1] = s2c[2]
  BY <1>1, TailIs
<1>5. \/ Greeting /\ BannerLeft /\ sv.pc = "loop"
      \/ Denied \/ Accepted \/ Compressing
      \/ Deserted /\ Refusal
      \/ Misled
  BY <1>1 DEF Lockstep, Phases, Greeting, Writing, Asking, Handshaking, Deserted, Over
<1>6. CASE Misled
  <2>1. s2c[1].mode # ClientMode
    BY <1>6 DEF Misled, ClientMode
  <2>2. Over'
    BY <1>1, <1>2, <1>6, <2>1 DEF Fails1, Over, Misled
  <2> QED
    BY <1>1, <1>2, <1>3, <2>2 DEF Lockstep, Phases, Over
<1>7. CASE Greeting /\ BannerLeft /\ sv.pc = "loop"
  <2>1. /\ Len(s2c) \in 1..2 /\ s2c[1].code = 200 /\ s2c[1].mode = ClientMode
        /\ s2c[1].more <=> Len(s2c) = 2
        /\ cl.verb = "none" /\ cl.i = 0 /\ ~cl.err /\ Agreed /\ c2s = <<>> /\ sv.n = 0
        /\ ~cl.tls /\ ~cl.zlib
    BY <1>4, <1>7 DEF BannerLeft, Greeting
  <2>2. Welcomed
    BY <1>1, <2>1 DEF Fails1, Quits, Proceeds, Inflates, Gathers, Request
  <2>3. Agreed' /\ ClientMode' = ClientMode
    BY <1>1, <2>1, <2>2, Modes DEF Welcomed
  <2>4. CASE Len(s2c) = 2
    <3>1. BannerLeft'
      <4>1. Len(s2c') = 1 /\ s2c'[1] = s2c[2] /\ 2 \in 1..Len(s2c)
        BY <1>4, <2>4
      <4>2. s2c[2].code = 200 /\ s2c[2].mode = ClientMode /\ ~s2c[2].more /\ s2c[2].capa = ShownCapa
        BY <1>7, <2>4, <4>1 DEF BannerLeft
      <4> QED
        BY <1>2, <2>3, <4>1, <4>2 DEF BannerLeft
    <3>2. Greeting'
      BY <1>1, <1>7, <2>1, <2>2, <2>3, <2>4, <3>1 DEF Greeting, Welcomed
    <3> QED
      BY <1>1, <1>2, <1>3, <2>1, <2>2, <3>2 DEF Lockstep, Phases, Welcomed
  <2>5. CASE Len(s2c) = 1
    <3>1. Writing'
      BY <1>1, <1>4, <1>7, <2>1, <2>2, <2>3, <2>5 DEF Writing, Welcomed, AtWork
    <3> QED
      BY <1>1, <1>2, <1>3, <2>1, <2>2, <3>1 DEF Lockstep, Phases, Welcomed
  <2> QED
    BY <2>1, <2>4, <2>5
<1>8. CASE Compressing
  <2>1. Inflates
    <3>1. ~Positive(s2c[1])
      BY <1>8 DEF Compressing, Positive
    <3> QED
      BY <1>1, <1>8, <3>1 DEF Compressing, Fails1, Welcomed, Quits, Proceeds, Gathers, Request
  <2>2. Agreed' /\ ClientMode' = ServerMode'
    <3>1. cl'.zlib = TRUE /\ sv'.zlib = TRUE
      <4>1. cl' \in ClientState /\ sv \in ServerState
        BY ReadsKeeps DEF IInv, Types
      <4> QED
        BY <1>1, <1>8, <2>1, <4>1 DEF Compressing, Inflates, ClientState, ServerState
    <3> QED
      BY <1>1, <1>8, <3>1, Modes DEF Compressing
  <2>3. Accepted'
    <3>1. Len(s2c') = 1 /\ s2c'[1] = s2c[2] /\ Positive(s2c[1])' /\ s2c'[1].mode = ClientMode'
      BY <1>2, <1>4, <1>8, <2>2 DEF Compressing, Positive
    <3> QED
      BY <1>1, <1>8, <2>1, <2>2, <3>1 DEF Compressing, Inflates, Accepted, Answered, After1
  <2> QED
    BY <1>1, <1>2, <1>3, <2>1, <2>3 DEF Lockstep, Phases, Inflates
<1>9. CASE Accepted
  <2>1. /\ s2c[1].mode = ClientMode /\ Positive(s2c[1]) /\ cl.verb # "none" /\ s2c' = <<>>
        /\ s2c[1].code # 320
    BY <1>4, <1>9 DEF Accepted, Answered, Positive
  <2>2. Quits \/ Proceeds
    BY <1>1, <2>1 DEF Fails1, Welcomed, Inflates, Gathers
  <2>3. CASE Quits
    <3>1. Over'
      BY <1>1, <1>2, <1>9, <2>1, <2>3 DEF Quits, Over, Accepted, Answered, After1
    <3> QED
      BY <1>1, <1>2, <1>3, <2>3, <3>1 DEF Lockstep, Phases, Quits
  <2>4. CASE Proceeds
    <3>1. Agreed'
      BY <1>1, <1>9, <2>4, Modes DEF Accepted, Proceeds
    <3>2. Writing' \/ Handshaking'
      BY <1>1, <1>9, <2>1, <2>4, <3>1 DEF Proceeds, Accepted, Answered, After1, Writing, Handshaking, AtWork
    <3> QED
      BY <1>1, <1>2, <1>3, <2>4, <3>2 DEF Lockstep, Phases, Proceeds
  <2> QED
    BY <2>2, <2>3, <2>4
<1>10. CASE Denied \/ (Deserted /\ Refusal)
  <2>1. s2c[1].mode = ClientMode /\ ~Positive(s2c[1]) /\ s2c' = <<>> /\ s2c[1].code \notin {200, 320}
    BY <1>4, <1>10 DEF Denied, Refusal, Positive
  <2>2. Fails1 \/ Gathers
    BY <1>1, <2>1 DEF Welcomed, Quits, Proceeds, Inflates
  <2>3. CASE Fails1
    <3>1. Over'
      BY <1>1, <1>2, <1>10, <2>3 DEF Fails1, Over, Denied, Answered, Deserted
    <3> QED
      BY <1>1, <1>2, <1>3, <2>3, <3>1 DEF Lockstep, Phases, Fails1
  <2>4. CASE Gathers
    <3>1. Denied => Agreed'
      BY <1>1, <2>4, Modes DEF Denied, Gathers
    <3>2. Writing' \/ Deserted'
      BY <1>1, <1>10, <2>1, <2>4, <3>1 DEF Gathers, Denied, Answered, Deserted, Writing, AtWork
    <3> QED
      BY <1>1, <1>2, <1>3, <2>4, <3>2 DEF Lockstep, Phases, Gathers
  <2> QED
    BY <2>2, <2>3, <2>4
<1> QED
  BY <1>5, <1>6, <1>7, <1>8, <1>9, <1>10

(* The server, before the banner and after the handshake                    *)
LEMMA PreludeStays ==
  ASSUME IInv, Lockstep, ServerStart \/ Lookup \/ LookupDone \/ Banner, faults = 0
  PROVE  Lockstep'
<1>1. /\ Types /\ Steady /\ sv.pc \in {"start", "lookup", "banner"}
      /\ \/ sv.pc = "start" /\ s2c' = s2c /\ sv'.pc \in {"lookup", "banner"}
         \/ sv.pc = "lookup" /\ s2c' = s2c /\ sv'.pc = "lookup"
         \/ sv.pc = "lookup" /\ s2c' = s2c /\ sv'.pc = (IF sv.tls THEN "loop" ELSE "banner")
         \/ sv.pc = "lookup" /\ s2c' = s2c /\ sv'.pc = "loop" /\ sv.tls
         \/ sv'.pc = "done" /\ Tells
         \/ sv.pc = "banner" /\ sv'.pc = "loop" /\ (s2c = <<>> => BannerSays)
                             /\ (s2c # <<>> => s2c' # <<>> /\ s2c'[1] = s2c[1])
  <2>1. Types
    BY DEF IInv
  <2>2. CASE ServerStart
    BY <2>1, <2>2, StartIs
  <2>3. CASE Lookup
    BY <2>1, <2>3, LookupIs
  <2>4. CASE LookupDone
    BY <2>1, <2>4, LookupDoneIs
  <2>5. CASE Banner
    <3>1. s2c # <<>> => s2c' # <<>> /\ s2c'[1] = s2c[1]
      BY <2>1, <2>5, BannerSent, FirstKept
    <3>2. sv.pc = "banner" /\ Steady /\ sv'.pc = "loop"
      BY <2>1, <2>5 DEF Banner, ServerAt, ServerGoes, configFiles, Types, ServerState, Steady
    <3> QED
      BY <2>1, <2>5, <3>1, <3>2, BannerIs
  <2> QED
    BY <2>2, <2>3, <2>4, <2>5
<1>2. /\ Certified' = Certified /\ ClientContent' = ClientContent /\ ServerContent' = ServerContent
      /\ ClientMode' = ClientMode /\ ServerMode' = ServerMode /\ ShownCapa' = ShownCapa
      /\ Agreed => Agreed'
  <2>1. UNCHANGED <<setup, conf, kfiles>> /\ cl' = cl /\ sv'.tls = sv.tls /\ sv'.zlib = sv.zlib
    BY <1>1 DEF Steady
  <2>2. /\ ClientMode' = ClientMode /\ ServerMode' = ServerMode
        /\ Agreed => Agreed'
    BY <1>1, <2>1, Modes
  <2> QED
    BY <2>1, <2>2, SetUpKept
<1>3. cl' = cl /\ exit' = exit /\ c2s' = c2s /\ sv'.n = sv.n /\ sv'.tls = sv.tls /\ setup' = setup
  BY <1>1 DEF Steady
<1>4. Greeting \/ Writing \/ Asking \/ Misled \/ Over
  BY <1>1 DEF Lockstep, Phases, Denied, Accepted, Compressing, Handshaking, Deserted, After1, Answered
<1>5. CASE Misled
  <2>1. s2c' # <<>> /\ s2c'[1] = s2c[1]
    BY <1>1, <1>5 DEF Misled, Tells
  <2>2. Misled'
    BY <1>2, <1>3, <1>5, <2>1 DEF Misled
  <2> QED
    BY <1>2, <1>3, <2>2 DEF Lockstep, Phases
<1>6. CASE Over
  <2>1. Over'
    BY <1>1, <1>2, <1>3, <1>6 DEF Over
  <2> QED
    BY <1>2, <1>3, <2>1 DEF Lockstep, Phases
<1>7. CASE /\ Greeting \/ Writing \/ Asking
           /\ sv'.pc = "done" /\ Tells
  <2>1. s2c = <<>> /\ cl.pc \in {"read", "write"} /\ Agreed
    BY <1>1, <1>7 DEF Greeting, Writing, Asking
  <2>2. Positive(s2c[1])' <=> Positive(s2c'[1])
    BY DEF Positive
  <2>3. Refusal'
    BY <1>2, <1>7, <2>1, <2>2 DEF Tells, Refusal, Agreed
  <2>4. Deserted'
    BY <1>3, <1>7, <2>1, <2>3 DEF Deserted
  <2> QED
    BY <1>2, <1>3, <2>4 DEF Lockstep, Phases
<1>8. CASE Greeting /\ sv'.pc # "done"
  <2>1. s2c = <<>> /\ ~sv.tls /\ Agreed /\ ClientMode = ServerMode
    BY <1>1, <1>8, Modes DEF Greeting
  <2>2. CASE s2c' = s2c
    <3>1. sv'.pc \in {"lookup", "banner"}
      BY <1>1, <1>8, <2>1, <2>2 DEF BannerSays
    <3>2. Greeting'
      BY <1>2, <1>3, <1>8, <2>1, <2>2, <3>1 DEF Greeting
    <3> QED
      BY <1>2, <1>3, <3>2 DEF Lockstep, Phases
  <2>3. CASE s2c' # s2c
    <3>1. BannerSays /\ sv'.pc = "loop"
      BY <1>1, <1>8, <2>1, <2>3
    <3>2. BannerLeft'
      BY <1>2, <2>1, <3>1 DEF BannerSays, BannerLeft
    <3>3. Greeting'
      BY <1>2, <1>3, <1>8, <3>1, <3>2 DEF Greeting
    <3> QED
      BY <1>2, <1>3, <3>3 DEF Lockstep, Phases
  <2> QED
    BY <2>2, <2>3
<1>9. CASE (Writing \/ Asking) /\ sv'.pc # "done"
  <2>1. s2c' = s2c /\ AtWork' /\ Agreed
    BY <1>1, <1>9 DEF Writing, Asking, AtWork, Steady
  <2>2. Writing' \/ Asking'
    BY <1>2, <1>3, <1>9, <2>1 DEF Writing, Asking
  <2> QED
    BY <1>2, <1>3, <2>2 DEF Lockstep, Phases
<1> QED
  BY <1>1, <1>4, <1>5, <1>6, <1>7, <1>8, <1>9

LEMMA TlsStays ==
  ASSUME IInv, Lockstep, Tls, faults = 0, faults' = 0
  PROVE  Lockstep'
<1>1. Types
  BY DEF IInv
<1>2. CASE Handshake
  <2>1. /\ cl.pc = "shake" /\ sv.pc = "shake" /\ ClientContent /\ ServerContent
        /\ UNCHANGED <<setup, c2s, s2c, conf, kfiles, faults>>
        /\ cl'.tls /\ cl'.err = cl.err /\ cl'.i = cl.i /\ cl'.verb = cl.verb
        /\ cl'.capa = cl.capa /\ cl'.zlib = cl.zlib
        /\ \/ setup.sname /\ cl'.pc = "write" /\ exit' = exit
           \/ ~setup.sname /\ cl'.pc = "done" /\ exit' = "2"
        /\ sv'.tls /\ sv'.pc = "lookup" /\ sv'.n = sv.n /\ sv'.zlib = sv.zlib
    BY <1>1, <1>2, HandshakeIs
  <2>2. ClientContent' /\ ServerContent'
    BY <2>1, SetUpKept
  <2>3. Handshaking
    BY <2>1 DEF Lockstep, Phases, Greeting, Writing, Asking, Denied, Accepted, Compressing, Deserted,
       Misled, Over, Answered
  <2>4. Agreed'
    <3>1. cl'.tls = TRUE /\ sv'.tls = TRUE
      <4>1. cl' \in ClientState /\ sv' \in ServerState
        BY <1>2, HandshakeKeeps DEF IInv, Types
      <4> QED
        BY <2>1, <4>1 DEF ClientState, ServerState
    <3> QED
      BY <1>1, <2>1, <2>3, <3>1, Modes DEF Handshaking
  <2>5. Writing' \/ Over'
    BY <2>1, <2>3, <2>4 DEF Handshaking, Writing, Over, AtWork
  <2> QED
    BY <2>1, <2>2, <2>3, <2>5 DEF Lockstep, Phases, Over, Handshaking
<1>3. CASE HandshakeFails
  <2>1. /\ cl.pc = "shake" /\ sv.pc = "shake" /\ ~(ClientContent /\ ServerContent)
        /\ UNCHANGED <<setup, c2s, conf, kfiles>>
        /\ cl'.err = cl.err /\ cl'.i = cl.i /\ cl'.verb = cl.verb /\ cl'.capa = cl.capa
        /\ \/ cl'.pc = "done" /\ exit' = "2"
           \/ ClientContent /\ cl'.pc = "write" /\ exit' = exit /\ cl'.tls
        /\ Tells /\ sv'.pc = "loop" /\ sv'.n = sv.n /\ sv'.zlib = sv.zlib /\ sv'.tls = sv.tls
    BY <1>1, <1>3, FailsIs
  <2>2. /\ Certified' = Certified /\ ClientContent' = ClientContent /\ ServerContent' = ServerContent
    BY <2>1, SetUpKept
  <2>3. Handshaking
    BY <2>1 DEF Lockstep, Phases, Greeting, Writing, Asking, Denied, Accepted, Compressing, Deserted,
       Misled, Over, Answered
  <2>4. ~sv.tls
    BY <2>1 DEF Lockstep
  <2>5. CASE cl'.pc = "done" /\ exit' = "2"
    <3>1. Over'
      BY <2>1, <2>3, <2>5 DEF Handshaking, Over
    <3> QED
      BY <2>1, <2>2, <2>4, <2>5, <3>1 DEF Lockstep, Phases
  <2>6. CASE ClientContent /\ cl'.pc = "write" /\ exit' = exit /\ cl'.tls
    <3>1. ~Certified
      BY <2>1, <2>6 DEF Certified, ClientContent, ServerContent
    <3>2. Len(s2c') = 1 /\ s2c'[1].mode = ServerMode /\ s2c = <<>>
      BY <2>1, <2>3 DEF Tells, Handshaking
    <3>3. ~s2c'[1].mode.tls /\ s2c' # <<>>
      <4>1. s2c' # <<>>
        BY <3>2
      <4>2. ServerMode.tls = sv.tls
        BY DEF ServerMode
      <4> QED
        BY <2>4, <3>2, <4>1, <4>2
    <3>4. Misled'
      BY <2>1, <2>2, <2>3, <2>6, <3>1, <3>3 DEF Misled, Handshaking
    <3> QED
      BY <2>1, <2>2, <2>3, <2>4, <2>6, <3>4 DEF Lockstep, Phases, Handshaking
  <2> QED
    BY <2>1, <2>5, <2>6
<1>4. CASE HandshakeAlone
  <2>1. /\ cl.pc = "done" /\ sv.pc = "shake" /\ Steady /\ sv'.pc = "loop"
    <3>1. ~(cl.pc = "shake" /\ sv.pc = "done")
      BY DEF Lockstep, Phases, Greeting, Writing, Asking, Denied, Accepted, Compressing, Handshaking,
         Deserted, Misled, Over, Answered
    <3> QED
      BY <1>1, <1>4, <3>1, AloneIs
  <2>2. Over
    BY <2>1 DEF Lockstep, Phases, Greeting, Writing, Asking, Denied, Accepted, Compressing, Handshaking,
       Deserted, Misled, Answered
  <2>3. /\ Certified' = Certified /\ ClientContent' = ClientContent /\ ServerContent' = ServerContent
    BY <2>1, SetUpKept DEF Steady
  <2>4. Over'
    BY <2>1, <2>2, <2>3 DEF Over, Steady
  <2> QED
    BY <2>1, <2>3, <2>4 DEF Lockstep, Phases, Steady
<1> QED
  BY <1>2, <1>3, <1>4 DEF Tls

LEMMA EndsStay ==
  ASSUME IInv, Lockstep, ServerHangsUp \/ ClientGivesUp, faults = 0
  PROVE  Lockstep'
<1>1. Types
  BY DEF IInv
<1>2. CASE ServerHangsUp
  <2>1. sv.pc = "loop" /\ cl.pc = "done" /\ Steady /\ sv'.pc = "done"
    BY <1>1, <1>2, HangsUpIs
  <2>2. Over
    BY <2>1 DEF Lockstep, Phases, Greeting, Writing, Asking, Denied, Accepted, Compressing, Handshaking,
       Deserted, Misled, Answered
  <2>3. /\ Certified' = Certified /\ ClientContent' = ClientContent /\ ServerContent' = ServerContent
    BY <2>1, SetUpKept DEF Steady
  <2>4. Over'
    BY <2>1, <2>2, <2>3 DEF Over, Steady
  <2> QED
    BY <2>1, <2>3, <2>4 DEF Lockstep, Phases, Steady
<1>3. CASE ClientGivesUp
  <2>1. /\ cl.pc = "read" /\ s2c = <<>> /\ sv.pc = "done"
        /\ UNCHANGED <<setup, sv, c2s, s2c, conf, kfiles, faults>>
        /\ cl'.pc = "done" /\ exit' = "2" /\ cl'.err = cl.err
    BY <1>1, <1>3, GivesUpIs
  <2>2. /\ ClientContent' = ClientContent /\ ServerContent' = ServerContent
    BY <2>1, SetUpKept
  <2>3. Over'
    BY <2>1 DEF Over
  <2> QED
    BY <2>1, <2>2, <2>3 DEF Lockstep, Phases
<1> QED
  BY <1>2, <1>3
-----------------------------------------------------------------------------
(* What is asked for                                                        *)

(* The plan of a client: STARTTLS and COMP, its script, QUIT                *)
LEMMA PlanParts ==
  ASSUME Types
  PROVE  \E off \in 0..2 :
           /\ Len(Plan) = off + Len(setup.script) + 1 /\ Len(setup.script) \in Nat
           /\ \A k \in DOMAIN setup.script : Plan[off + k] = setup.script[k]
           /\ Plan[Len(Plan)] = "QUIT"
           /\ \A j \in 1..off :
                \/ Plan[j] = "STARTTLS" /\ j = 1 /\ setup.cauth # 0
                \/ Plan[j] = "COMP" /\ j = off /\ setup.czlib /\ "ZLIB" \in cl.capa
           /\ setup.cauth # 0 => off >= 1 /\ Plan[1] = "STARTTLS"
<1> DEFINE a == IF setup.cauth # 0 THEN <<"STARTTLS">> ELSE <<>>
           b == IF setup.czlib /\ "ZLIB" \in cl.capa THEN <<"COMP">> ELSE <<>>
           s == setup.script
           q == <<"QUIT">>
           c == a \o b
           d == c \o s
<1>1. Plan = d \o q
  BY DEF Plan, PlanOf
<1>2. a \in Seq(Verb) /\ b \in Seq(Verb) /\ s \in Seq(Verb) /\ q \in Seq(Verb)
  <2>1. "STARTTLS" \in Verb /\ "COMP" \in Verb /\ "QUIT" \in Verb
    BY DEF Verb
  <2>2. \A v \in Verb : <<v>> \in Seq(Verb)
    OBVIOUS
  <2>3. <<>> \in Seq(Verb)
    OBVIOUS
  <2>4. s \in Seq(Verb)
    BY DEF Types, Setup
  <2> HIDE DEF Verb, s
  <2> QED
    BY <2>1, <2>2, <2>3, <2>4, Zenon
<1>3. /\ setup.cauth # 0 => Len(a) = 1 /\ a[1] = "STARTTLS"
      /\ setup.cauth = 0 => Len(a) = 0
  OBVIOUS
<1>4. /\ setup.czlib /\ "ZLIB" \in cl.capa => Len(b) = 1 /\ b[1] = "COMP"
      /\ ~(setup.czlib /\ "ZLIB" \in cl.capa) => Len(b) = 0
  OBVIOUS
<1>5. Len(q) = 1 /\ q[1] = "QUIT"
  OBVIOUS
<1> HIDE DEF a, b, s, q
<1>6. ASSUME NEW x \in Seq(Verb), NEW y \in Seq(Verb)
      PROVE  /\ x \o y \in Seq(Verb) /\ Len(x) \in Nat /\ Len(y) \in Nat
             /\ Len(x \o y) = Len(x) + Len(y) /\ DOMAIN x = 1..Len(x)
             /\ \A j \in 1..Len(x) : (x \o y)[j] = x[j]
             /\ \A j \in 1..Len(y) : (x \o y)[Len(x) + j] = y[j]
  OBVIOUS
<1>7. /\ c \in Seq(Verb) /\ Len(c) = Len(a) + Len(b)
      /\ \A j \in 1..Len(a) : c[j] = a[j]
      /\ \A j \in 1..Len(b) : c[Len(a) + j] = b[j]
  BY <1>2, <1>6
<1>8. /\ Len(c) \in 0..2
      /\ \A j \in 1..Len(c) :
           \/ c[j] = "STARTTLS" /\ j = 1 /\ setup.cauth # 0
           \/ c[j] = "COMP" /\ j = Len(c) /\ setup.czlib /\ "ZLIB" \in cl.capa
      /\ setup.cauth # 0 => Len(c) >= 1 /\ c[1] = "STARTTLS"
  <2>0. Len(c) = Len(a) + Len(b)
    BY <1>7
  <2>1. (Len(a) = 0 \/ Len(a) = 1) /\ (Len(b) = 0 \/ Len(b) = 1)
    BY ONLY <1>3, <1>4
  <2> HIDE DEF c
  <2>2. /\ Len(c) \in 0..2
        /\ \A j \in 1..Len(c) : \/ j = 1 /\ 1 \in 1..Len(a)
                                \/ j = Len(a) + 1 /\ 1 \in 1..Len(b) /\ j = Len(c)
    <3>1. ASSUME NEW m, NEW n, m = 0 \/ m = 1, n = 0 \/ n = 1
          PROVE  /\ m \in Int /\ n \in Int /\ m + n \in 0..2
                 /\ m = 0 => 1 \notin 1..m
                 /\ m = 1 => 1 \in 1..m
                 /\ n = 0 => 1 \notin 1..n
                 /\ n = 1 => 1 \in 1..n
      <4>1. CASE m = 0
        BY <3>1, <4>1
      <4>2. CASE m = 1
        BY <3>1, <4>2
      <4> QED
        BY <3>1, <4>1, <4>2
    <3>2. ASSUME NEW m, NEW n, m = 0 \/ m = 1, n = 0 \/ n = 1, NEW j \in 1..(m + n)
          PROVE  \/ j = 1 /\ 1 \in 1..m
                 \/ j = m + 1 /\ 1 \in 1..n /\ j = m + n
      <4>1. j \in Int /\ 1 <= j /\ j <= m + n /\ m \in Int /\ n \in Int
        BY <3>1, <3>2
      <4>2. CASE m = 1 /\ j = 1
        BY <4>2
      <4>3. CASE m = 0 \/ j # 1
        <5>1. n = 1 /\ j = m + 1
          BY <3>2, <4>1, <4>3
        <5> QED
          BY <5>1
      <4> QED
        BY <3>2, <4>2, <4>3
    <3>3. /\ Len(a) + Len(b) \in 0..2
          /\ \A j \in 1..(Len(a) + Len(b)) : \/ j = 1 /\ 1 \in 1..Len(a)
                                             \/ j = Len(a) + 1 /\ 1 \in 1..Len(b) /\ j = Len(a) + Len(b)
      <4> DEFINE m == Len(a)
                 n == Len(b)
      <4>1. (m = 0 \/ m = 1) /\ (n = 0 \/ n = 1)
        BY <2>1
      <4> HIDE DEF m, n
      <4>2. m + n \in 0..2
        BY <3>1, <4>1
      <4>3. \A j \in 1..(m + n) : \/ j = 1 /\ 1 \in 1..m
                                  \/ j = m + 1 /\ 1 \in 1..n /\ j = m + n
        BY <3>2, <4>1
      <4> QED
        BY <4>2, <4>3 DEF m, n
    <3> QED
      BY <2>0, <3>3
  <2> HIDE DEF c
  <2>3. setup.cauth # 0 => 1 \in 1..Len(a)
    BY <1>3
  <2>4. 1 \in 1..Len(a) => c[1] = "STARTTLS" /\ setup.cauth # 0
    <3>1. 1 \in 1..Len(a) => setup.cauth # 0 /\ a[1] = "STARTTLS"
      <4>1. 1 \in 1..Len(a) => Len(a) # 0
        BY <2>1
      <4> QED
        BY <1>3, <4>1
    <3> QED
      BY <1>7, <3>1
  <2>5. 1 \in 1..Len(b) => c[Len(a) + 1] = "COMP" /\ setup.czlib /\ "ZLIB" \in cl.capa
    <3>1. 1 \in 1..Len(b) => setup.czlib /\ "ZLIB" \in cl.capa /\ b[1] = "COMP"
      BY <1>4
    <3> QED
      BY <1>7, <3>1
  <2>6. ASSUME NEW j \in 1..Len(c)
        PROVE  \/ c[j] = "STARTTLS" /\ j = 1 /\ setup.cauth # 0
               \/ c[j] = "COMP" /\ j = Len(c) /\ setup.czlib /\ "ZLIB" \in cl.capa
    <3>1. CASE j = 1 /\ 1 \in 1..Len(a)
      BY <2>4, <3>1
    <3>2. CASE j = Len(a) + 1 /\ 1 \in 1..Len(b) /\ j = Len(c)
      BY <2>5, <3>2
    <3> QED
      BY <2>2, <3>1, <3>2
  <2>7. setup.cauth # 0 => Len(c) >= 1
    BY <2>0, <2>1, <2>3
  <2> QED
    BY <2>2, <2>3, <2>4, <2>6, <2>7
<1> HIDE DEF c
<1>9. /\ d \in Seq(Verb) /\ Len(d) = Len(c) + Len(s) /\ Len(s) \in Nat /\ DOMAIN s = 1..Len(s)
      /\ \A j \in 1..Len(c) : d[j] = c[j]
      /\ \A j \in 1..Len(s) : d[Len(c) + j] = s[j]
  BY <1>2, <1>6, <1>7
<1> HIDE DEF d
<1>10. /\ Len(Plan) = Len(d) + 1
       /\ \A j \in 1..Len(d) : Plan[j] = d[j]
       /\ Plan[Len(d) + 1] = "QUIT"
  <2>1. 1 \in 1..Len(q)
    BY <1>5
  <2>2. /\ Len(d \o q) = Len(d) + Len(q)
        /\ \A j \in 1..Len(d) : (d \o q)[j] = d[j]
        /\ \A j \in 1..Len(q) : (d \o q)[Len(d) + j] = q[j]
    BY <1>2, <1>6, <1>9
  <2> QED
    BY <1>1, <1>5, <2>1, <2>2
<1>11. /\ Len(Plan) = Len(c) + Len(s) + 1
       /\ \A k \in DOMAIN s : Plan[Len(c) + k] = s[k]
       /\ Plan[Len(Plan)] = "QUIT"
       /\ \A j \in 1..Len(c) : Plan[j] = c[j]
  BY <1>8, <1>9, <1>10
<1>12. \E off \in 0..2 :
         /\ Len(Plan) = off + Len(s) + 1 /\ Len(s) \in Nat
         /\ \A k \in DOMAIN s : Plan[off + k] = s[k]
         /\ Plan[Len(Plan)] = "QUIT"
         /\ \A j \in 1..off :
              \/ Plan[j] = "STARTTLS" /\ j = 1 /\ setup.cauth # 0
              \/ Plan[j] = "COMP" /\ j = off /\ setup.czlib /\ "ZLIB" \in cl.capa
         /\ setup.cauth # 0 => off >= 1 /\ Plan[1] = "STARTTLS"
  <2> DEFINE off == Len(c)
  <2>1. /\ off \in 0..2 /\ Len(Plan) = off + Len(s) + 1 /\ Len(s) \in Nat
        /\ \A k \in DOMAIN s : Plan[off + k] = s[k]
        /\ Plan[Len(Plan)] = "QUIT"
    BY <1>8, <1>9, <1>11
  <2>2. \A j \in 1..off : \/ Plan[j] = "STARTTLS" /\ j = 1 /\ setup.cauth # 0
                          \/ Plan[j] = "COMP" /\ j = off /\ setup.czlib /\ "ZLIB" \in cl.capa
    BY <1>8, <1>11
  <2>3. setup.cauth # 0 => off >= 1 /\ Plan[1] = "STARTTLS"
    <3>1. setup.cauth # 0 => 1 \in 1..off
      BY <1>8
    <3> QED
      BY <1>8, <1>11, <3>1
  <2> HIDE DEF off
  <2> QED
    BY <2>1, <2>2, <2>3
<1> QED
  BY <1>12 DEF s

LEMMA PlanIs ==
  ASSUME Types, Program
  PROVE  /\ Len(Plan) \in Nat /\ Len(Plan) \in 1..Len(Plan) /\ 1 \in DOMAIN setup.script
         /\ \A j \in 1..Len(Plan) :
              /\ Plan[j] = "QUIT" <=> j = Len(Plan)
              /\ Plan[j] = "STARTTLS" <=> j = 1 /\ setup.cauth # 0
              /\ Plan[j] = "LOGIN" => setup.script[1] = "LOGIN" /\ Position("LOGIN") # {}
              /\ Plan[j] = "COMP" => "ZLIB" \in cl.capa
              /\ Plan[j] = "REPO" => Position("REPO") # {}
              /\ Plan[j] \in Privileged \cup {"STARTTLS", "QUIT"}
              /\ \A k \in 1..Len(Plan) : Plan[j] = Plan[k] /\ Plan[j] \in {"LOGIN", "COMP"} => j = k
         /\ \A k \in DOMAIN setup.script : \E j \in 1..Len(Plan) : Plan[j] = setup.script[k]
         /\ \A j \in 1..Len(Plan) : Plan[j] = "STOR" /\ Welcome /\ setup.checkuser =>
              \E k \in 1..Len(Plan) : k < j /\ Plan[k] = "LOGIN"
<1> DEFINE s == setup.script
           n == Len(setup.script)
<1>1. PICK off \in 0..2 :
           /\ Len(Plan) = off + n + 1 /\ n \in Nat
           /\ \A k \in DOMAIN s : Plan[off + k] = s[k]
           /\ Plan[Len(Plan)] = "QUIT"
           /\ \A j \in 1..off :
                \/ Plan[j] = "STARTTLS" /\ j = 1 /\ setup.cauth # 0
                \/ Plan[j] = "COMP" /\ j = off /\ setup.czlib /\ "ZLIB" \in cl.capa
           /\ setup.cauth # 0 => off >= 1 /\ Plan[1] = "STARTTLS"
  BY PlanParts
<1>2. DOMAIN s = 1..n /\ n # 0
  <2>1. s \in Seq(Verb) /\ s # <<>>
    BY DEF Types, Setup, Program
  <2> QED
    BY <2>1
<1>3. \A k \in 1..n : s[k] \in Request \/ (k = 1 /\ s[k] = "LOGIN")
  BY <1>2 DEF Program
<1> HIDE DEF s, n
<1>4. ASSUME NEW j \in 1..Len(Plan)
      PROVE  \/ j \in 1..off \/ (\E k \in 1..n : j = off + k) \/ j = Len(Plan)
  <2>1. CASE j <= off
    BY <2>1
  <2>2. CASE j > off /\ j <= off + n
    <3>1. j - off \in 1..n /\ j = off + (j - off)
      BY <1>1, <2>2
    <3> QED
      BY <3>1
  <2> QED
    BY <1>1, <2>1, <2>2
<1>5. ASSUME NEW k \in 1..n
      PROVE  /\ Plan[off + k] = s[k] /\ off + k \in 1..Len(Plan) /\ off + k # Len(Plan)
             /\ s[k] \in Request \/ (k = 1 /\ s[k] = "LOGIN")
  BY <1>1, <1>2, <1>3
<1> DEFINE Mine(j) ==
             \E k \in 1..n : /\ j = off + k /\ Plan[j] = s[k] /\ j # Len(Plan)
                             /\ s[k] \in Request \/ (k = 1 /\ s[k] = "LOGIN")
<1>6. ASSUME NEW j \in 1..Len(Plan)
      PROVE  \/ Plan[j] = "STARTTLS" /\ j = 1 /\ setup.cauth # 0
             \/ Plan[j] = "COMP" /\ j = off /\ j # Len(Plan) /\ "ZLIB" \in cl.capa
             \/ Mine(j)
             \/ Plan[j] = "QUIT" /\ j = Len(Plan)
  <2>1. CASE j \in 1..off
    BY <1>1, <2>1
  <2>2. CASE \E k \in 1..n : j = off + k
    BY <1>5, <2>2
  <2> QED
    BY <1>1, <1>4, <2>1, <2>2
<1> HIDE DEF Mine
<1>7. Len(Plan) \in Nat /\ Len(Plan) \in 1..Len(Plan) /\ 1 \in DOMAIN s
  BY <1>1, <1>2
<1>8. ASSUME NEW j \in 1..Len(Plan), Mine(j)
      PROVE  /\ Plan[j] \in Request \cup {"LOGIN"} /\ j # Len(Plan)
             /\ Plan[j] = "LOGIN" => j = off + 1 /\ s[1] = "LOGIN" /\ Position("LOGIN") # {}
             /\ Plan[j] = "REPO" => Position("REPO") # {}
  <2>1. PICK k \in 1..n : /\ j = off + k /\ Plan[j] = s[k] /\ j # Len(Plan)
                          /\ s[k] \in Request \/ (k = 1 /\ s[k] = "LOGIN")
    BY <1>8 DEF Mine
  <2>2. k \in Position(Plan[j])
    BY <1>2, <2>1 DEF Position, s
  <2>3. "LOGIN" \notin Request
    BY DEF Request
  <2> QED
    BY <2>1, <2>2, <2>3
<1>9. /\ Request \cap {"LOGIN", "COMP", "STARTTLS", "QUIT"} = {}
      /\ Privileged = Request \cup {"LOGIN", "COMP"}
  BY DEF Request, Privileged
<1>10. ASSUME NEW j \in 1..Len(Plan)
       PROVE  /\ Plan[j] = "QUIT" <=> j = Len(Plan)
              /\ Plan[j] = "LOGIN" => s[1] = "LOGIN" /\ Position("LOGIN") # {} /\ j = off + 1
              /\ Plan[j] = "COMP" => "ZLIB" \in cl.capa /\ j = off
              /\ Plan[j] = "REPO" => Position("REPO") # {}
              /\ Plan[j] \in Privileged \cup {"STARTTLS", "QUIT"}
  <2>1. CASE Plan[j] = "STARTTLS" /\ j = 1 /\ setup.cauth # 0
    <3>1. j # Len(Plan)
      BY <1>1, <1>2, <2>1
    <3> QED
      BY <2>1, <3>1
  <2>2. CASE Plan[j] = "COMP" /\ j = off /\ j # Len(Plan) /\ "ZLIB" \in cl.capa
    BY <1>9, <2>2
  <2>3. CASE Mine(j)
    <3>1. /\ Plan[j] \in Request \cup {"LOGIN"} /\ j # Len(Plan)
          /\ Plan[j] = "LOGIN" => j = off + 1 /\ s[1] = "LOGIN" /\ Position("LOGIN") # {}
          /\ Plan[j] = "REPO" => Position("REPO") # {}
      BY <1>8, <2>3
    <3>2. Plan[j] \notin {"COMP", "STARTTLS", "QUIT"} /\ Plan[j] \in Privileged
      BY <1>9, <3>1
    <3> QED
      BY <3>1, <3>2
  <2>4. CASE Plan[j] = "QUIT" /\ j = Len(Plan)
    BY <2>4
  <2> QED
    BY <1>6, <2>1, <2>2, <2>3, <2>4
<1>11. ASSUME NEW j \in 1..Len(Plan)
       PROVE  Plan[j] = "STARTTLS" <=> j = 1 /\ setup.cauth # 0
  <2>1. Mine(j) => Plan[j] # "STARTTLS"
    BY <1>8, <1>9
  <2>2. Plan[j] = "STARTTLS" => j = 1 /\ setup.cauth # 0
    BY <1>6, <2>1
  <2> QED
    BY <1>1, <2>2
<1>12. ASSUME NEW j \in 1..Len(Plan), NEW k \in 1..Len(Plan),
              Plan[j] = Plan[k], Plan[j] \in {"LOGIN", "COMP"}
       PROVE  j = k
  BY <1>10, <1>12
<1>13. ASSUME NEW k \in DOMAIN setup.script
       PROVE  \E j \in 1..Len(Plan) : Plan[j] = setup.script[k]
  <2>1. k \in 1..n
    BY <1>2 DEF s
  <2>2. Plan[off + k] = s[k] /\ off + k \in 1..Len(Plan)
    BY <1>5, <2>1
  <2> QED
    BY <2>2 DEF s
<1>14. ASSUME NEW j \in 1..Len(Plan), Plan[j] = "STOR", Welcome, setup.checkuser
       PROVE  \E k \in 1..Len(Plan) : k < j /\ Plan[k] = "LOGIN"
  <2>1. Mine(j)
    BY <1>6, <1>14
  <2>2. PICK k \in 1..n : j = off + k /\ Plan[j] = s[k]
    BY <2>1 DEF Mine
  <2>3. k \in Position("STOR")
    BY <1>2, <1>14, <2>2 DEF Position, s
  <2>4. PICK m \in Position("LOGIN") : m < k
    BY <1>14, <2>3 DEF Welcome
  <2>5. m \in 1..n /\ s[m] = "LOGIN"
    BY <1>2 DEF Position, s
  <2>6. Plan[off + m] = "LOGIN" /\ off + m \in 1..Len(Plan)
    BY <1>5, <2>5
  <2>7. off + m < j
    BY <1>1, <2>2, <2>4, <2>5
  <2> QED
    BY <2>6, <2>7
<1> QED
  BY <1>7, <1>10, <1>11, <1>12, <1>13, <1>14 DEF s
-----------------------------------------------------------------------------
(* Whoever reads is in the mode of what is to be read                       *)
LEMMA ReadableIs ==
  ASSUME Types, faults = 0 => Lockstep
  PROVE  Readable
<1> SUFFICES ASSUME Lockstep, Certified
             PROVE  /\ cl.pc = "read" /\ s2c # <<>> => Head(s2c).mode = ClientMode
                    /\ sv.pc = "loop" /\ c2s # <<>> => Head(c2s).mode = ServerMode
  BY DEF Readable, Certified, ClientAt, ServerAt
<1>1. /\ s2c # <<>> => Head(s2c) = s2c[1]
      /\ c2s # <<>> => Head(c2s) = c2s[1]
  BY Queues
<1>2. ASSUME cl.pc = "read", s2c # <<>>
      PROVE  s2c[1].mode = ClientMode
  <2>1. Greeting \/ Denied \/ Accepted \/ Compressing \/ (Deserted /\ Refusal)
    BY <1>2 DEF Lockstep, Phases, Writing, Asking, Handshaking, Deserted, Misled, Over
  <2>2. CASE Greeting
    <3>1. BannerLeft
      BY <1>2, <2>2 DEF Greeting
    <3>2. 1 \in 1..Len(s2c)
      BY <3>1 DEF BannerLeft
    <3> QED
      BY <3>1, <3>2 DEF BannerLeft
  <2> QED
    BY <2>1, <2>2 DEF Denied, Refusal, Accepted, Compressing
<1>3. ASSUME sv.pc = "loop", c2s # <<>>
      PROVE  c2s[1].mode = ServerMode
  <2>1. Asking
    BY <1>3 DEF Lockstep, Phases, Greeting, Writing, Denied, Accepted, Compressing, Answered,
       Handshaking, Deserted, Misled, Over
  <2>2. c2s[1] = [verb |-> cl.verb, n |-> cl.i, mode |-> ClientMode] /\ ClientMode = ServerMode
    BY <2>1 DEF Asking, Agreed
  <2> HIDE DEF ClientMode, ServerMode
  <2> QED
    BY <2>2
<1> QED
  BY <1>1, <1>2, <1>3
-----------------------------------------------------------------------------
(* What only some commands change, and who may give them                    *)

(* No one is authorized who has no table                                    *)
LEMMA NoLogin ==
  ASSUME Types, Command, sv.table # "auth"
  PROVE  sv'.authorized = sv.authorized
<1>1. sv \in ServerState
  BY DEF Types
<1>2. Simple \/ NotAllowed \/ StartTls \/ Garbled
  BY DEF Command, Serve, Stor, Login, Compress
<1>3. Continues \/ Leaves \/ sv' = [Read1 EXCEPT !.pc = "shake"]
  BY <1>2 DEF Simple, NotAllowed, StartTls, Garbled
<1> QED
  BY <1>1, <1>3 DEF Continues, Leaves, Read1, ServerState

(* The server has found out what the files say                              *)
LEMMA ListedIs ==
  ASSUME LookupInv
  PROVE  /\ finding = "ready" => Listed
         /\ finding \in {"none", "failed"} => ~Listed
<1> DEFINE cn == setup.authlevel = 2
<1>1. finding # "idle" => hasCn = cn
  BY DEF LookupInv, Asked
<1>2. LookupExact
  BY LooksRight
<1>3. Listed <=> Decision(cn) # NoEntry /\ KReadable(Decision(cn).file)
  BY DEF Listed
<1> HIDE DEF cn
<1>4. ASSUME finding # "idle"
      PROVE  Decision(hasCn) = Decision(cn)
  BY <1>1, <1>4
<1>5. CASE finding = "ready"
  BY <1>2, <1>3, <1>4, <1>5 DEF LookupExact, FirstEntryWins, AccessExact
<1>6. CASE finding = "none"
  BY <1>2, <1>3, <1>4, <1>6 DEF LookupExact, FirstEntryWins
<1>7. CASE finding = "failed"
  BY <1>2, <1>3, <1>4, <1>7 DEF LookupExact, FirstEntryWins, AccessExact
<1> QED
  BY <1>5, <1>6, <1>7

(* Without the certificate that it asks for, a server has a table for none  *)
LEMMA NoTable ==
  ASSUME IInv, Lockstep, ~Certified
  PROVE  sv.table # "auth"
BY DEF IInv, Tables, Lockstep, Certified

(* What the client reads only in another mode stays first                   *)
LEMMA MisledStays ==
  ASSUME IInv, Lockstep, Misled, faults = 0, faults' = 0,
         Command \/ ServerStart \/ Lookup \/ LookupDone \/ Banner \/ (ClientWrites /\ Writes)
  PROVE  Misled'
<1>1. Types
  BY DEF IInv
<1>2. s2c # <<>>
  BY DEF Misled
<1>3. s2c' # <<>> /\ s2c'[1] = s2c[1]
  <2>1. CASE Command
    BY <1>1, <1>2, <2>1, CommandEffect, FirstKept DEF Effect, Replied
  <2>2. CASE ServerStart
    BY <1>1, <1>2, <2>2, StartIs DEF Tells
  <2>3. CASE Lookup
    BY <1>2, <2>3, LookupIs
  <2>4. CASE LookupDone
    BY <1>1, <1>2, <2>4, LookupDoneIs DEF Tells
  <2>5. CASE Banner
    BY <1>1, <1>2, <2>5, BannerSent, FirstKept
  <2>6. CASE ClientWrites
    BY <1>2, <2>6, WritesIs
  <2> QED
    BY <2>1, <2>2, <2>3, <2>4, <2>5, <2>6
<1>4. UNCHANGED <<setup, conf, kfiles>> /\ cl'.tls = cl.tls /\ cl'.pc \in {"read", "write"} /\ cl'.verb # "none"
  <2>1. CASE ClientWrites /\ Writes
    BY <2>1, WritesIs DEF Writes
  <2>2. CASE Command
    BY <1>1, <2>2, CommandEffect DEF Command, Unaffected, configFiles, Misled
  <2>3. CASE ServerStart \/ Lookup \/ LookupDone \/ Banner
    BY <2>3 DEF ServerStart, Lookup, LookupDone, Banner, configFiles, sessionOwn, Misled
  <2> QED
    BY <2>1, <2>2, <2>3
<1> QED
  BY <1>3, <1>4, SetUpKept DEF Misled
-----------------------------------------------------------------------------
(* What the client has got is what it is set up for                         *)

(* Nothing that waits to be read in another mode has been accepted          *)
LEMMA MisledWaits ==
  ASSUME Misled
  PROVE  ~Accepted /\ ~Compressing
<1>1. s2c[1].mode # ClientMode
  BY DEF Misled, ClientMode
<1> QED
  BY <1>1 DEF Accepted, Compressing

(* A step of the server alone                                               *)
LEMMA ServerEarns ==
  ASSUME Types, Earned, UNCHANGED <<setup, cl, exit, conf, kfiles>>, sv'.tls = sv.tls,
         Misled => Misled',
         sv'.pc \notin {"start", "done"} => ~setup.busy,
         sv'.authorized => setup.script[1] = "LOGIN",
         ~cl.err /\ (Accepted' \/ Compressing') /\ cl.verb # "STARTTLS" => Earns(cl.verb)
  PROVE  Earned'
<1>1. /\ \A v : Earns(v)' = Earns(v)
      /\ ShownCapa' = ShownCapa
  BY SetUpKept
<1>2. Plan' = Plan /\ \A j : Passed(j)' = Passed(j)
  BY DEF Plan, PlanOf, Passed
<1>3. /\ sv'.pc \notin {"start", "done"} \/ cl.verb # "none" \/ cl.pc = "write" => ~setup.busy
      /\ cl.verb # "none" \/ cl.pc = "write" => cl.capa = ShownCapa
      /\ sv.tls => setup.cauth # 0
      /\ ~cl.err => \A j \in 1..Len(Plan) : j <= cl.i /\ Plan[j] = "REPO" => setup.rap
      /\ exit = "0" => cl.i = Len(Plan)
  BY DEF Earned
<1>4. ~cl.err /\ ~Misled' /\ exit # "2" => \A j \in 1..Len(Plan) : Passed(j) => Earns(Plan[j])
  BY DEF Earned
<1>5. (~cl.err /\ ~Misled /\ exit # "2" => \A j \in 1..Len(Plan) : Passed(j) => Earns(Plan[j]))'
  BY <1>1, <1>2, <1>4
<1>6. (~cl.err /\ (Accepted \/ Compressing) /\ cl.verb # "STARTTLS" => Earns(cl.verb))'
  BY <1>1
<1> QED
  BY <1>1, <1>2, <1>3, <1>5, <1>6 DEF Earned

LEMMA CommandEarns ==
  ASSUME IInv, LookupInv, Lockstep, Program, Earned, Command, faults = 0, faults' = 0
  PROVE  Earned'
<1>1. /\ Types /\ sv.pc = "loop" /\ c2s # <<>> /\ sv'.tls = sv.tls
      /\ UNCHANGED <<setup, cl, exit, conf, kfiles>>
  BY CommandEffect DEF IInv, Effect, Command, Unaffected, configFiles
<1>2. ~setup.busy /\ (sv.tls => setup.cauth # 0) /\ (sv.authorized => setup.script[1] = "LOGIN")
      /\ (~cl.err => \A j \in 1..Len(Plan) : j <= cl.i /\ Plan[j] = "REPO" => setup.rap)
  BY <1>1 DEF Earned
<1>3. CASE Asking
  <2>1. Outcome /\ cl.pc = "read" /\ cl.verb # "none"
    BY <1>1, <1>3, CommandIs DEF Asking
  <2>2. ~cl.err => cl.i \in 1..Len(Plan) /\ Plan[cl.i] = cl.verb
    BY <2>1 DEF IInv, OnPlan
  <2>3. cl.verb = "LOGIN" => setup.script[1] = "LOGIN"
    <3>1. cl.verb = "LOGIN" => ~cl.err
      BY <2>1 DEF Lockstep
    <3> QED
      BY <1>1, <2>2, <3>1, PlanIs
  <2>4. sv'.authorized => setup.script[1] = "LOGIN"
    BY <1>2, <2>1, <2>3 DEF Outcome, Accepts1, Switches, Refuses
  <2>5. sv.table = "auth" => Listed /\ (setup.authlevel # 0 => setup.cauth # 0)
    BY <1>1, <1>2, ListedIs DEF IInv, Tables
  <2>6. ASSUME ~cl.err, Accepted' \/ Compressing', cl.verb # "STARTTLS"
        PROVE  Earns(cl.verb)
    <3>1. Accepts1 \/ Switches
      <4>1. Positive(s2c[1])' <=> Positive(s2c'[1])
        BY DEF Positive
      <4>2. s2c' # <<>> /\ (Positive(s2c'[1]) \/ s2c'[1].code = 320)
        <5>1. Len(s2c)' = 1 \/ Len(s2c)' = 2
          BY <2>6 DEF Accepted, Compressing
        <5>2. s2c' # <<>>
          BY <5>1
        <5> QED
          BY <2>6, <4>1, <5>2 DEF Accepted, Compressing
      <4> QED
        BY <2>1, <4>2 DEF Outcome, Refuses
    <3>2. cl.verb \in Privileged => sv.table = "auth"
      BY <3>1 DEF Accepts1, Switches
    <3>3. cl.verb = "REPO" => setup.rap
      <4>1. cl.i \in Nat
        BY <1>1 DEF Types, ClientState
      <4> QED
        BY <1>2, <2>2, <2>6, <4>1
    <3>4. /\ cl.verb = "LOGIN" => setup.checkuser /\ setup.pass
          /\ cl.verb = "STOR" /\ setup.checkuser => setup.script[1] = "LOGIN"
      BY <1>2, <3>1 DEF Accepts1, Switches
    <3> QED
      BY <2>5, <2>6, <3>2, <3>3, <3>4 DEF Earns, Privileged
  <2>7. ~Misled
    BY <1>3 DEF Asking, Misled
  <2> QED
    BY <1>1, <1>2, <2>4, <2>6, <2>7, ServerEarns
<1>4. CASE ~Asking
  <2>1. Misled \/ (Over /\ ~Certified)
    BY <1>1, <1>4 DEF Lockstep, Phases, Greeting, Writing, Denied, Accepted, Compressing, Answered,
       Handshaking, Deserted, Over
  <2>2. sv'.authorized = sv.authorized
    <3>1. ~Certified
      BY <2>1 DEF Misled
    <3> QED
      BY <1>1, <3>1, NoTable, NoLogin
  <2>3. Misled => Misled'
    BY MisledStays
  <2>4. ~Accepted' /\ ~Compressing'
    <3>1. CASE Misled
      <4>1. s2c'[1].mode # ClientMode'
        BY <2>3, <3>1 DEF Misled, ClientMode
      <4> QED
        BY <4>1 DEF Accepted, Compressing
    <3>2. CASE Over
      BY <1>1, <3>2 DEF Over, Accepted, Compressing, Answered
    <3> QED
      BY <2>1, <3>1, <3>2
  <2> QED
    BY <1>1, <1>2, <2>2, <2>3, <2>4, ServerEarns
<1> QED
  BY <1>3, <1>4

LEMMA PreludeEarns ==
  ASSUME IInv, Lockstep, Earned, ServerStart \/ Lookup \/ LookupDone \/ Banner, faults = 0, faults' = 0
  PROVE  Earned'
<1>1. Types
  BY DEF IInv
<1>2. /\ Steady /\ sv.pc \in {"start", "lookup", "banner"}
      /\ sv'.pc \notin {"start", "done"} => ~setup.busy
  <2>1. CASE ServerStart
    BY <1>1, <2>1, StartIs
  <2>2. CASE Lookup
    BY <2>2, LookupIs DEF Earned
  <2>3. CASE LookupDone
    BY <1>1, <2>3, LookupDoneIs DEF Earned
  <2>4. CASE Banner
    <3>1. sv.pc = "banner" /\ Steady
      BY <1>1, <2>4 DEF Banner, ServerAt, ServerGoes, configFiles, Types, ServerState, Steady
    <3> QED
      BY <3>1 DEF Earned
  <2> QED
    BY <2>1, <2>2, <2>3, <2>4
<1>3. Misled => Misled'
  BY MisledStays
<1>4. /\ UNCHANGED <<setup, cl, c2s, exit, conf, kfiles>> /\ sv'.tls = sv.tls
      /\ sv'.authorized = sv.authorized
  BY <1>2 DEF Steady
<1>5. ~Accepted' /\ ~Compressing'
  <2>1. CASE Misled
    <3>1. s2c'[1].mode # ClientMode'
      BY <1>3, <2>1 DEF Misled, ClientMode
    <3> QED
      BY <3>1 DEF Accepted, Compressing
  <2>2. CASE ~Misled
    <3>1. cl.pc = "read" /\ cl.verb # "none" => c2s # <<>>
      <4>1. cl.pc = "read" /\ cl.verb # "none" => Asking
        BY <1>2, <2>2 DEF Lockstep, Phases, Greeting, Writing, Denied, Accepted, Compressing, Answered,
           After1, Handshaking, Deserted, Over
      <4> QED
        BY <1>1, <4>1, AskedIs
    <3> QED
      BY <1>4, <3>1 DEF Accepted, Compressing, Answered
  <2> QED
    BY <2>1, <2>2
<1>6. sv.authorized => setup.script[1] = "LOGIN"
  BY DEF Earned
<1> QED
  BY <1>1, <1>2, <1>3, <1>4, <1>5, <1>6, ServerEarns

LEMMA EndsEarn ==
  ASSUME IInv, Lockstep, Earned, ServerHangsUp \/ ClientGivesUp \/ HandshakeAlone, faults = 0
  PROVE  Earned'
<1>1. Types
  BY DEF IInv
<1>2. sv.authorized => setup.script[1] = "LOGIN"
  BY DEF Earned
<1>3. CASE ServerHangsUp \/ HandshakeAlone
  <2>1. cl.pc = "done" /\ sv.pc \notin {"start", "done"} /\ Steady
    <3>1. CASE ServerHangsUp
      BY <1>1, <3>1, HangsUpIs
    <3>2. CASE HandshakeAlone
      <4>1. ~(cl.pc = "shake" /\ sv.pc = "done")
        BY DEF Lockstep, Phases, Greeting, Writing, Asking, Denied, Accepted, Compressing, Handshaking,
           Deserted, Misled, Over, Answered
      <4> QED
        BY <1>1, <3>2, <4>1, AloneIs
    <3> QED
      BY <1>3, <3>1, <3>2
  <2>2. ~setup.busy
    BY <2>1 DEF Earned
  <2>3. ~Misled /\ ~Accepted' /\ ~Compressing'
    BY <2>1 DEF Misled, Accepted, Compressing, Answered, Steady
  <2> QED
    BY <1>1, <1>2, <2>1, <2>2, <2>3, ServerEarns DEF Steady
<1>4. CASE ClientGivesUp
  <2>1. /\ cl.pc = "read" /\ UNCHANGED <<setup, sv, conf, kfiles>>
        /\ cl'.pc = "done" /\ exit' = "2" /\ cl'.err = cl.err /\ cl'.i = cl.i
        /\ cl'.verb = cl.verb /\ cl'.capa = cl.capa
    BY <1>1, <1>4, GivesUpIs
  <2>2. ShownCapa' = ShownCapa /\ Plan' = Plan
    BY <2>1, SetUpKept DEF Plan, PlanOf
  <2>3. ~Accepted' /\ ~Compressing'
    BY <2>1 DEF Accepted, Compressing, Answered
  <2> QED
    BY <2>1, <2>2, <2>3 DEF Earned
<1> QED
  BY <1>3, <1>4

LEMMA WritesEarns ==
  ASSUME IInv, Lockstep, Earned, ClientWrites, faults = 0, faults' = 0
  PROVE  Earned'
<1>1. /\ Types /\ cl.pc = "write" /\ UNCHANGED <<setup, sv, s2c, conf, kfiles, faults>>
      /\ cl'.capa = cl.capa /\ cl'.err = cl.err
      /\ GivesUpRepo \/ Writes
  BY WritesIs DEF IInv
<1>2. /\ ShownCapa' = ShownCapa /\ Plan' = Plan
      /\ \A v : Earns(v)' = Earns(v)
  BY <1>1, SetUpKept DEF Plan, PlanOf
<1>3. /\ ~setup.busy /\ cl.capa = ShownCapa
      /\ sv.tls => setup.cauth # 0
      /\ sv.authorized => setup.script[1] = "LOGIN"
      /\ ~cl.err => \A j \in 1..Len(Plan) : j <= cl.i /\ Plan[j] = "REPO" => setup.rap
      /\ ~cl.err /\ ~Misled /\ exit # "2" => \A j \in 1..Len(Plan) : Passed(j) => Earns(Plan[j])
  BY <1>1 DEF Earned
<1>4. exit = "none" /\ cl.i \in Nat
  BY <1>1 DEF Lockstep, Types, ClientState
<1>5. CASE GivesUpRepo
  <2>1. ~Accepted' /\ ~Compressing'
    BY <1>5 DEF GivesUpRepo, Accepted, Compressing, Answered
  <2>2. cl'.pc = "done" /\ exit' = "2" /\ cl'.i = cl.i
    BY <1>5 DEF GivesUpRepo
  <2> QED
    BY <1>1, <1>2, <1>3, <2>1, <2>2 DEF Earned
<1>6. CASE Writes
  <2>1. /\ cl'.pc = "read" /\ exit' = "none" /\ cl'.i = cl.i + 1
        /\ cl'.verb = NextVerb /\ (NextVerb = "REPO" => "REPO" \in cl.capa)
    BY <1>4, <1>6 DEF Writes
  <2>2. Misled => Misled'
    BY <1>6, MisledStays
  <2>3. ~Accepted' /\ ~Compressing'
    <3>1. Writing \/ Deserted \/ Misled
      BY <1>1 DEF Lockstep, Phases, Greeting, Asking, Denied, Accepted, Compressing, Handshaking,
         Answered, Over
    <3>2. CASE Writing \/ Deserted
      <4>1. s2c = <<>> \/ (s2c # <<>> /\ ~Positive(s2c[1]) /\ s2c[1].code # 320)
        BY <3>2 DEF Writing, Deserted, Refusal
      <4>2. Positive(s2c[1])' <=> Positive(s2c[1])
        BY <1>1 DEF Positive
      <4> HIDE DEF Positive
      <4>3. Len(s2c)' \in {1, 2} => s2c # <<>>
        <5>1. s2c' = s2c /\ (s2c = <<>> => Len(s2c) = 0)
          BY <1>1, Queues
        <5> QED
          BY <5>1
      <4> QED
        BY <1>1, <4>1, <4>2, <4>3 DEF Accepted, Compressing
    <3>3. CASE Misled
      BY <2>2, <3>3 DEF Misled, Accepted, Compressing, ClientMode
    <3> QED
      BY <3>1, <3>2, <3>3
  <2>4. ASSUME ~cl.err, NEW j \in 1..Len(Plan), j <= cl.i + 1, Plan[j] = "REPO"
        PROVE  setup.rap
    <3>1. CASE j <= cl.i
      BY <1>3, <2>4, <3>1
    <3>2. CASE j = cl.i + 1
      <4>1. "REPO" \in cl.capa
        BY <2>1, <2>4, <3>2 DEF NextVerb
      <4> QED
        BY <1>3, <4>1 DEF ShownCapa
    <3> QED
      BY <1>4, <2>4, <3>1, <3>2
  <2>5. ASSUME ~cl.err, ~Misled', NEW j \in 1..Len(Plan), Passed(j)'
        PROVE  Earns(Plan[j])
    <3>1. Passed(j)
      BY <1>1, <1>4, <2>1, <2>5 DEF Passed
    <3> QED
      BY <1>3, <1>4, <2>2, <2>5, <3>1
  <2> QED
    BY <1>1, <1>2, <1>3, <2>1, <2>3, <2>4, <2>5 DEF Earned
<1> QED
  BY <1>1, <1>5, <1>6

LEMMA ReadsEarns ==
  ASSUME IInv, Lockstep, Program, Earned, ClientReads, faults = 0
  PROVE  Earned'
<1>1. /\ Types /\ cl.pc = "read" /\ s2c # <<>>
      /\ UNCHANGED <<setup, sv, c2s, conf, kfiles, faults>>
      /\ cl'.i = cl.i /\ cl'.verb = cl.verb
      /\ \/ Fails1
         \/ /\ s2c[1].mode = ClientMode
            /\ Welcomed \/ Quits \/ Proceeds \/ Inflates \/ Gathers
  BY ReadsIs DEF IInv
<1>2. /\ ShownCapa' = ShownCapa
      /\ \A v : Earns(v)' = Earns(v)
  BY <1>1, SetUpKept
<1>3. /\ sv.pc \notin {"start", "done"} \/ cl.verb # "none" => ~setup.busy
      /\ cl.verb # "none" => cl.capa = ShownCapa
      /\ sv.tls => setup.cauth # 0
      /\ sv.authorized => setup.script[1] = "LOGIN"
      /\ ~cl.err => \A j \in 1..Len(Plan) : j <= cl.i /\ Plan[j] = "REPO" => setup.rap
      /\ ~cl.err /\ ~Misled /\ exit # "2" => \A j \in 1..Len(Plan) : Passed(j) => Earns(Plan[j])
      /\ ~cl.err /\ (Accepted \/ Compressing) /\ cl.verb # "STARTTLS" => Earns(cl.verb)
  BY <1>1 DEF Earned
<1>4. exit = "none" /\ cl.i \in Nat
  BY <1>1 DEF Lockstep, Types, ClientState
<1>5. ~cl.err /\ cl.verb # "none" => cl.i \in 1..Len(Plan) /\ Plan[cl.i] = cl.verb
  BY <1>1 DEF IInv, OnPlan
<1>6. s2c[1].mode = ClientMode => ~Misled
  BY DEF Misled, ClientMode
<1>7. cl'.capa = cl.capa => Plan' = Plan
  BY <1>1 DEF Plan, PlanOf
<1>8. CASE Fails1
  <2>1. /\ cl'.pc = "done" /\ exit' = "2" /\ cl'.err = cl.err /\ cl'.capa = cl.capa
        /\ cl.verb # "none" \/ sv.pc \notin {"start", "done"} => ~setup.busy
    BY <1>3, <1>8 DEF Fails1
  <2>2. ~Accepted' /\ ~Compressing'
    BY <2>1 DEF Accepted, Compressing, Answered
  <2> QED
    BY <1>1, <1>2, <1>3, <1>7, <2>1, <2>2 DEF Earned
<1>9. CASE s2c[1].mode = ClientMode /\ Welcomed
  <2>1. /\ cl.verb = "none" /\ s2c[1].code = 200 /\ exit' = "none" /\ cl'.err = cl.err
        /\ cl'.pc = (IF s2c[1].more THEN "read" ELSE "write") /\ cl'.capa = s2c[1].capa
    BY <1>4, <1>9 DEF Welcomed
  <2>2. BannerLeft /\ sv.pc = "loop" /\ cl.i = 0
    <3>1. Greeting
      <4>1. Positive(s2c[1])
        BY <2>1 DEF Positive
      <4> QED
        BY <1>1, <2>1, <4>1 DEF Lockstep, Phases, Writing, Asking, Denied, Accepted, Compressing, Answered,
           Handshaking, Deserted, Refusal, Misled, Over
    <3> QED
      BY <1>1, <3>1 DEF Greeting
  <2>3. cl'.pc = "write" => cl'.capa = ShownCapa
    <3>1. ASSUME ~s2c[1].more PROVE s2c[1].capa = ShownCapa
      <4>1. Len(s2c) = 1 \/ Len(s2c) = 2
        BY <2>2 DEF BannerLeft
      <4>2. Len(s2c) # 2
        <5>1. Len(s2c) = 2 => s2c[1].more
          BY <2>2 DEF BannerLeft
        <5> QED
          BY <3>1, <5>1
      <4> QED
        BY <2>2, <4>1, <4>2 DEF BannerLeft
    <3> QED
      BY <2>1, <3>1
  <2>4. ~Accepted' /\ ~Compressing'
    BY <1>1, <2>1 DEF Accepted, Compressing, Answered
  <2>5. ~setup.busy
    BY <1>3, <2>2
  <2>6. \A j \in 1..Len(Plan)' : ~(j <= cl'.i) /\ ~Passed(j)'
    BY <1>1, <2>2 DEF Passed
  <2>7. exit' # "0"
    BY <2>1
  <2> QED
    BY <1>1, <1>2, <1>3, <2>1, <2>3, <2>4, <2>5, <2>6, <2>7 DEF Earned
<1>10. ASSUME s2c[1].mode = ClientMode, cl.verb # "none", cl'.err = cl.err, cl'.capa = cl.capa, exit' # "2",
              ~cl.err /\ cl'.pc \in {"write", "done"} => Earns(cl.verb),
              ~cl.err /\ (Accepted' \/ Compressing') => cl.verb = "COMP" /\ Compressing,
              exit' = "0" => cl.i = Len(Plan)
       PROVE  Earned'
  <2>1. ~setup.busy /\ cl.capa = ShownCapa /\ Plan' = Plan /\ ~Misled
    BY <1>3, <1>6, <1>7, <1>10
  <2>2. ASSUME ~cl.err, NEW j \in 1..Len(Plan), Passed(j)'
        PROVE  Earns(Plan[j])
    <3>1. j < cl.i \/ (j = cl.i /\ cl'.pc \in {"write", "done"})
      BY <1>1, <2>2 DEF Passed
    <3>2. CASE j < cl.i
      BY <1>3, <1>4, <2>1, <2>2, <3>2 DEF Passed
    <3>3. CASE j = cl.i /\ cl'.pc \in {"write", "done"}
      BY <1>5, <1>10, <2>2, <3>3
    <3> QED
      BY <3>1, <3>2, <3>3
  <2>3. ~cl.err /\ (Accepted' \/ Compressing') => Earns(cl.verb)
    <3>1. cl.verb = "COMP" => cl.verb # "STARTTLS"
      OBVIOUS
    <3> QED
      BY <1>3, <1>10, <3>1
  <2> QED
    BY <1>1, <1>2, <1>3, <1>10, <2>1, <2>2, <2>3 DEF Earned
<1>11. CASE s2c[1].mode = ClientMode /\ Quits
  <2>1. /\ cl.verb = "QUIT" /\ cl'.pc = "done" /\ cl'.err = cl.err /\ cl'.capa = cl.capa
        /\ exit' = (IF cl.err THEN "2" ELSE "0")
    BY <1>11 DEF Quits
  <2>2. ~Accepted' /\ ~Compressing'
    BY <2>1 DEF Accepted, Compressing, Answered
  <2>3. CASE ~cl.err
    <3>1. cl.i = Len(Plan)
      BY <1>1, <1>5, <2>1, <2>3, PlanIs
    <3>2. Earns(cl.verb)
      BY <2>1 DEF Earns, Request
    <3> QED
      BY <1>10, <1>11, <2>1, <2>2, <2>3, <3>1, <3>2
  <2>4. CASE cl.err
    BY <1>1, <1>2, <1>3, <1>7, <2>1, <2>2, <2>4 DEF Earned
  <2> QED
    BY <2>3, <2>4
<1>12. CASE s2c[1].mode = ClientMode /\ Proceeds
  <2>1. /\ cl.verb # "none" /\ Positive(s2c[1]) /\ exit' = "none" /\ s2c[1].code # 320
        /\ cl'.pc = (IF cl.verb = "STARTTLS" THEN "shake" ELSE "write")
        /\ cl'.err = cl.err /\ cl'.capa = cl.capa
    BY <1>4, <1>12 DEF Proceeds, Positive
  <2>2. Accepted
    BY <1>1, <1>6, <1>12, <2>1 DEF Lockstep, Phases, Greeting, Writing, Asking, Denied, Compressing, Answered,
       Handshaking, Deserted, Refusal, Over
  <2>3. ~Accepted' /\ ~Compressing'
    BY <2>1 DEF Accepted, Compressing, Answered
  <2>4. ~cl.err /\ cl'.pc \in {"write", "done"} => Earns(cl.verb)
    BY <1>3, <2>1, <2>2
  <2> QED
    BY <1>10, <1>12, <2>1, <2>3, <2>4
<1>13. CASE s2c[1].mode = ClientMode /\ Inflates
  <2>1. /\ cl.verb = "COMP" /\ s2c[1].code = 320 /\ exit' = "none"
        /\ cl'.pc = "read" /\ cl'.err = cl.err /\ cl'.capa = cl.capa
    BY <1>4, <1>13 DEF Inflates
  <2>2. Compressing
    <3>1. ~Positive(s2c[1]) /\ s2c[1].code # 200
      BY <2>1 DEF Positive
    <3> QED
      BY <1>1, <1>6, <1>13, <2>1, <3>1 DEF Lockstep, Phases, Greeting, Writing, Asking, Denied, Accepted, Answered,
         Handshaking, Deserted, Refusal, Over
  <2> QED
    BY <1>10, <1>13, <2>1, <2>2
<1>14. CASE s2c[1].mode = ClientMode /\ Gathers
  <2>1. /\ cl.verb # "none" /\ exit' = "none" /\ cl'.err /\ cl'.capa = cl.capa /\ cl'.pc = "write"
    BY <1>4, <1>14 DEF Gathers, Request
  <2> QED
    BY <1>1, <1>2, <1>3, <1>7, <2>1 DEF Earned
<1> QED
  BY <1>1, <1>8, <1>9, <1>11, <1>12, <1>13, <1>14

LEMMA TlsEarns ==
  ASSUME IInv, Lockstep, Program, Earned, Tls, faults = 0, faults' = 0
  PROVE  Earned'
<1>1. Types
  BY DEF IInv
<1>2. CASE HandshakeAlone
  BY <1>2, EndsEarn
<1>3. ASSUME Handshake \/ HandshakeFails
      PROVE  /\ Handshaking /\ UNCHANGED <<setup, conf, kfiles>>
             /\ cl'.err = cl.err /\ cl'.i = cl.i /\ cl'.verb = cl.verb /\ cl'.capa = cl.capa
             /\ sv'.authorized = sv.authorized /\ sv'.pc \in {"lookup", "loop"}
             /\ cl'.pc \in {"write", "done"}
             /\ Handshake => sv'.tls /\ ClientContent /\ ServerContent
             /\ Handshake => \/ setup.sname /\ cl'.pc = "write" /\ exit' = exit
                             \/ exit' = "2"
             /\ HandshakeFails => sv'.tls = sv.tls /\ (Misled' \/ exit' = "2") /\ exit' # "0"
  <2>1. cl.pc = "shake" /\ sv.pc = "shake"
    BY <1>1, <1>3, HandshakeIs, FailsIs
  <2>2. Handshaking
    BY <2>1 DEF Lockstep, Phases, Greeting, Writing, Asking, Denied, Accepted, Compressing, Deserted,
       Misled, Over, Answered
  <2>3. CASE Handshake
    <3>1. ~HandshakeFails
      BY <2>1, <2>3, <1>1, HandshakeIs, FailsIs
    <3> QED
      BY <1>1, <2>2, <2>3, <3>1, HandshakeIs
  <2>4. CASE HandshakeFails
    <3>1. Lockstep' /\ exit = "none"
      BY <2>1, <2>4, TlsStays DEF Tls, Lockstep
    <3>2. ~Handshake
      BY <2>4, <1>1, HandshakeIs, FailsIs
    <3>3. ASSUME cl'.pc = "write"
          PROVE  Misled'
      <4>1. s2c' # <<>> /\ sv'.pc = "loop"
        <5>1. Tells /\ sv'.pc = "loop" /\ s2c = <<>>
          BY <1>1, <2>2, <2>4, FailsIs DEF Handshaking
        <5>2. Len(s2c') = 1
          BY <5>1 DEF Tells
        <5> QED
          BY <5>1, <5>2
      <4> QED
        BY <3>1, <3>3, <4>1 DEF Lockstep, Phases, Greeting, Writing, Asking, Denied, Accepted, Compressing, Deserted,
           Handshaking, Over, Answered
    <3> QED
      BY <1>1, <2>2, <2>4, <3>1, <3>2, <3>3, FailsIs
  <2> QED
    BY <1>3, <2>3, <2>4
<1>4. CASE Handshake \/ HandshakeFails
  <2>1. /\ Handshaking /\ UNCHANGED <<setup, conf, kfiles>>
        /\ cl'.err = cl.err /\ cl'.i = cl.i /\ cl'.verb = cl.verb /\ cl'.capa = cl.capa
        /\ sv'.authorized = sv.authorized /\ sv'.pc \in {"lookup", "loop"}
        /\ cl'.pc \in {"write", "done"}
    BY <1>3, <1>4
  <2>2. /\ ShownCapa' = ShownCapa /\ Plan' = Plan
        /\ \A v : Earns(v)' = Earns(v)
    BY <2>1, SetUpKept DEF Plan, PlanOf
  <2>3. /\ cl.pc = "shake" /\ cl.verb = "STARTTLS" /\ ~cl.err /\ exit = "none" /\ cl.i \in Nat
        /\ cl.verb # "none" /\ sv.pc = "shake"
    BY <1>1, <2>1 DEF Handshaking, Lockstep, Types, ClientState
  <2>4. cl.i \in 1..Len(Plan) /\ Plan[cl.i] = "STARTTLS"
    BY <2>3 DEF IInv, OnPlan
  <2>5. setup.cauth # 0
    BY <1>1, <2>4, PlanIs
  <2>6. ~Accepted' /\ ~Compressing'
    BY <2>1 DEF Accepted, Compressing, Answered
  <2>7. ASSUME ~Misled', exit' # "2", NEW j \in 1..Len(Plan), Passed(j)'
        PROVE  Earns(Plan[j])
    <3>1. Handshake /\ ClientContent /\ ServerContent /\ setup.sname
      BY <1>3, <1>4, <2>7
    <3>2. j < cl.i \/ j = cl.i
      BY <2>1, <2>7 DEF Passed
    <3>3. CASE j < cl.i
      <4>1. ~Misled
        BY <2>3 DEF Misled
      <4> QED
        BY <2>3, <3>3, <4>1 DEF Earned, Passed
    <3>4. CASE j = cl.i
      BY <2>4, <3>1, <3>4 DEF Earns, Request
    <3> QED
      BY <3>2, <3>3, <3>4
  <2>8. exit' # "0"
    BY <1>3, <1>4, <2>3
  <2>9. /\ ~setup.busy /\ cl.capa = ShownCapa
        /\ sv.authorized => setup.script[1] = "LOGIN"
        /\ \A j \in 1..Len(Plan) : j <= cl.i /\ Plan[j] = "REPO" => setup.rap
    BY <2>3 DEF Earned
  <2> QED
    BY <2>1, <2>2, <2>3, <2>5, <2>6, <2>7, <2>8, <2>9 DEF Earned
<1> QED
  BY <1>2, <1>4 DEF Tls

(* A client that succeeds is welcome                                        *)
LEMMA OnlyWelcome ==
  ASSUME Types, Lockstep, Program, Earned, exit = "0"
  PROVE  Welcome
<1>1. cl.pc = "done" /\ ~cl.err /\ cl.verb = "QUIT"
  <2>1. cl.pc = "done"
    BY DEF Lockstep
  <2>2. Over
    BY <2>1 DEF Lockstep, Phases, Greeting, Writing, Asking, Denied, Accepted, Compressing, Handshaking,
       Answered, Deserted, Misled
  <2> QED
    BY <2>1, <2>2 DEF Over
<1>2. ~setup.busy /\ cl.i = Len(Plan) /\ ~Misled
  BY <1>1 DEF Earned, Misled
<1>3. \A j \in 1..Len(Plan) : Earns(Plan[j])
  <2>1. \A j \in 1..Len(Plan) : Passed(j)
    BY <1>1, <1>2, PlanIs DEF Passed
  <2> QED
    BY <1>1, <1>2, <2>1 DEF Earned
<1>4. \A k \in DOMAIN setup.script : Earns(setup.script[k])
  BY <1>3, PlanIs
<1>5. \A k \in DOMAIN setup.script : setup.script[k] \in Request \cup {"LOGIN", "COMP"}
  BY DEF Program
<1>6. Listed /\ (setup.authlevel # 0 => setup.cauth # 0)
  <2>1. 1 \in DOMAIN setup.script
    BY PlanIs
  <2> QED
    BY <1>4, <1>5, <2>1 DEF Earns
<1>7. setup.cauth # 0 => ClientContent /\ ServerContent /\ setup.sname
  <2>1. ASSUME setup.cauth # 0
        PROVE  1 \in 1..Len(Plan) /\ Plan[1] = "STARTTLS"
    <3>1. 1 \in 1..Len(Plan)
      BY PlanIs
    <3> QED
      BY <2>1, <3>1, PlanIs
  <2> QED
    BY <1>3, <2>1 DEF Earns
<1>8. setup.authlevel = 0 <=> setup.cauth = 0
  BY <1>6, <1>7 DEF ClientContent
<1>9. /\ Position("REPO") # {} => setup.rap
      /\ Position("LOGIN") # {} => setup.checkuser /\ setup.pass
  BY <1>4 DEF Position, Earns
<1>10. ASSUME setup.checkuser, NEW k \in Position("STOR")
       PROVE  \E m \in Position("LOGIN") : m < k
  <2>1. k \in DOMAIN setup.script /\ setup.script[k] = "STOR"
    BY DEF Position
  <2>2. setup.script[1] = "LOGIN"
    BY <1>4, <1>10, <2>1 DEF Earns
  <2>3. 1 \in Position("LOGIN")
    BY <2>2, PlanIs DEF Position
  <2>4. k \in Nat \ {0} /\ k # 1
    <3>1. k # 1
      BY <2>1, <2>2
    <3>2. setup.script \in Seq(Verb)
      BY DEF Types, Setup
    <3> QED
      BY <2>1, <3>1, <3>2
  <2>5. 1 < k
    BY <2>4
  <2> QED
    BY <2>3, <2>5
<1> QED
  BY <1>2, <1>6, <1>7, <1>8, <1>9, <1>10 DEF Welcome, Listed
-----------------------------------------------------------------------------
(* A client that is welcome meets no error                                  *)

(* What does not change but with a command                                  *)
LEMMA SmoothKept ==
  ASSUME Smooth, Lockstep', ~Denied', ~Deserted', ~Misled', ~cl'.err, exit' # "2",
         setup' = setup, cl'.capa = cl.capa,
         sv'.n = sv.n, sv'.zlib = sv.zlib, sv'.freed = sv.freed, sv'.authorized = sv.authorized,
         sv'.pc # "start",
         sv'.pc \in {"banner", "loop", "shake"} =>
           sv'.table = IF setup.authlevel # 0 /\ ~sv'.tls THEN "notls" ELSE "auth",
         setup.cauth # 0 /\ cl'.i >= 1 /\ (cl'.i > 1 \/ cl'.pc = "write") => cl'.tls
  PROVE  Smooth'
<1>1. \A v : Among(v)' = Among(v)
  BY DEF Among, Plan, PlanOf
<1>2. (Greeting \/ Writing \/ Asking \/ Accepted \/ Compressing \/ Handshaking \/ Over)'
  BY DEF Lockstep, Phases
<1>3. /\ (sv.zlib => Among("COMP"))'
      /\ (sv.freed => Among("LOGIN"))'
      /\ (Among("LOGIN") => sv.authorized)'
  BY <1>1 DEF Smooth
<1> QED
  BY <1>2, <1>3 DEF Smooth

LEMMA SmoothIs ==
  ASSUME Smooth, Welcome
  PROVE  /\ Certified /\ ~Misled /\ ~cl.err /\ exit # "2"
         /\ Listed /\ ~setup.busy
         /\ cl.pc = "done" => sv.pc = "done"
         /\ cl.pc = "write" => Writing
<1>1. Certified
  BY DEF Welcome, Certified
<1>2. Listed /\ ~setup.busy
  BY DEF Welcome, Listed
<1>3. cl.pc = "done" => sv.pc = "done"
  BY DEF Smooth, Greeting, Writing, Asking, Accepted, Compressing, Handshaking, Over, Answered
<1>4. cl.pc = "write" => Writing
  BY DEF Smooth, Greeting, Asking, Accepted, Compressing, Handshaking, Over, Answered
<1> QED
  BY <1>1, <1>2, <1>3, <1>4 DEF Smooth, Misled

LEMMA PreludeSmooth ==
  ASSUME IInv, LookupInv, Lockstep, Smooth, Welcome, faults = 0,
         ServerStart \/ Lookup \/ LookupDone \/ Banner, Lockstep'
  PROVE  Smooth'
<1>1. Types /\ Certified /\ ~Misled /\ ~cl.err /\ exit # "2" /\ Listed /\ ~setup.busy
  BY SmoothIs DEF IInv
<1>2. sv.pc = "start" \/ sv.pc = "banner" => Greeting
  BY DEF Smooth, Writing, Asking, Accepted, Compressing, Handshaking, Over, AtWork, After1
<1>3. sv.pc = "lookup" => Greeting \/ Writing \/ Asking
  BY DEF Smooth, Accepted, Compressing, Handshaking, Over, After1
<1>4. /\ Steady /\ sv'.pc # "done" /\ sv'.pc # "start"
      /\ sv'.pc = "loop" => cl.verb = "none" \/ s2c' = <<>>
      /\ sv'.pc \in {"banner", "loop", "shake"} =>
           sv'.table = IF setup.authlevel # 0 /\ ~sv.tls THEN "notls" ELSE "auth"
  <2>1. CASE ServerStart
    <3>1. sv.pc = "start" /\ Steady /\ sv'.table = sv.table /\ s2c' = s2c
          /\ sv'.pc = IF setup.authlevel = 0 THEN "lookup" ELSE "banner"
      BY <1>1, <2>1, StartIs
    <3>2. ~sv.tls
      BY <1>1, <1>2, <3>1, Modes DEF Greeting
    <3> QED
      BY <3>1, <3>2 DEF Smooth
  <2>2. CASE Lookup
    BY <2>2, LookupIs
  <2>3. CASE LookupDone
    <3>1. finding \notin {"none", "failed"}
      BY <1>1, ListedIs
    <3>2. /\ sv.pc = "lookup" /\ Steady /\ s2c' = s2c
          /\ sv'.table = "auth" /\ sv'.pc = IF sv.tls THEN "loop" ELSE "banner"
      BY <1>1, <2>3, <3>1, LookupDoneIs
    <3>3. setup.authlevel # 0 => sv.tls
      BY <3>2 DEF IInv, Tables
    <3>4. s2c = <<>>
      BY <1>3, <3>2 DEF Greeting, Writing, Asking
    <3> QED
      BY <3>2, <3>3, <3>4
  <2>4. CASE Banner
    <3>1. sv.pc = "banner" /\ Steady /\ sv'.table = sv.table /\ sv'.pc = "loop"
      BY <1>1, <2>4 DEF Banner, ServerAt, ServerGoes, configFiles, Types, ServerState, Steady
    <3>2. cl.verb = "none"
      BY <1>2, <3>1 DEF Greeting
    <3> QED
      BY <3>1, <3>2 DEF Smooth
  <2> QED
    BY <2>1, <2>2, <2>3, <2>4
<1>5. /\ UNCHANGED <<setup, cl, c2s, exit, conf, kfiles>>
      /\ sv'.n = sv.n /\ sv'.tls = sv.tls /\ sv'.zlib = sv.zlib
      /\ sv'.authorized = sv.authorized /\ sv'.freed = sv.freed
  BY <1>4 DEF Steady
<1>6. ~Denied' /\ ~Deserted' /\ ~Misled'
  <2>1. Certified'
    BY <1>1, <1>5, SetUpKept
  <2>2. ~Denied'
    <3>1. Denied' => sv'.pc = "loop" /\ cl'.verb # "none" /\ Len(s2c') = 1
      BY DEF Denied, Answered, Refusal
    <3>2. s2c' = <<>> => Len(s2c') # 1
      OBVIOUS
    <3> QED
      BY <1>4, <1>5, <3>1, <3>2
  <2> QED
    BY <1>4, <2>1, <2>2 DEF Deserted, Misled
<1>7. setup.cauth # 0 /\ cl.i >= 1 /\ (cl.i > 1 \/ cl.pc = "write") => cl.tls
  BY DEF Smooth
<1> QED
  BY <1>1, <1>4, <1>5, <1>6, <1>7, SmoothKept

LEMMA TlsSmooth ==
  ASSUME IInv, Lockstep, Program, Smooth, Welcome, Tls, faults = 0, faults' = 0, Lockstep'
  PROVE  Smooth'
<1>1. Types /\ Certified /\ ~Misled /\ ~cl.err /\ exit # "2"
      /\ (cl.pc = "done" => sv.pc = "done")
  BY SmoothIs DEF IInv
<1>2. cl.pc = "shake" => Handshaking
  BY DEF Smooth, Greeting, Writing, Asking, Accepted, Compressing, Over, Answered
<1>3. ~HandshakeAlone
  <2>1. cl.pc = "shake" => sv.pc = "shake"
    BY <1>2 DEF Handshaking
  <2> QED
    BY <1>1, <2>1, AloneIs
<1>4. ASSUME cl.pc = "shake"
      PROVE  setup.authlevel # 0 /\ ClientContent /\ ServerContent /\ setup.sname
  <2>1. cl.i \in 1..Len(Plan) /\ Plan[cl.i] = "STARTTLS"
    BY <1>1, <1>2, <1>4 DEF Handshaking, IInv, OnPlan
  <2>2. setup.cauth # 0
    BY <1>1, <2>1, PlanIs
  <2> QED
    BY <2>2 DEF Welcome
<1>5. Handshake
  BY <1>1, <1>3, <1>4, FailsIs DEF Tls
<1>6. /\ cl.pc = "shake" /\ UNCHANGED <<setup, conf, kfiles>>
      /\ cl'.tls /\ cl'.err = cl.err /\ cl'.capa = cl.capa
      /\ setup.sname => cl'.pc = "write" /\ exit' = exit
      /\ sv'.pc = "lookup" /\ sv'.n = sv.n /\ sv'.zlib = sv.zlib
      /\ sv'.authorized = sv.authorized /\ sv'.freed = sv.freed
  BY <1>1, <1>5, HandshakeIs
<1>7. cl'.pc = "write" /\ exit' = exit
  BY <1>4, <1>6
<1>8. ~Denied' /\ ~Deserted' /\ ~Misled'
  <2>1. Certified'
    BY <1>1, <1>6, SetUpKept
  <2> QED
    BY <1>6, <2>1 DEF Denied, Answered, Deserted, Misled
<1> QED
  BY <1>1, <1>6, <1>7, <1>8, SmoothKept

LEMMA EndsSmooth ==
  ASSUME IInv, Smooth, Welcome
  PROVE  ~ServerHangsUp /\ ~ClientGivesUp
<1>1. Types /\ (cl.pc = "done" => sv.pc = "done")
  BY SmoothIs DEF IInv
<1>2. ~ServerHangsUp
  BY <1>1, HangsUpIs
<1>3. ASSUME cl.pc = "read", s2c = <<>>
      PROVE  sv.pc # "done"
  <2>1. Greeting \/ Asking
    <3>1. Len(s2c) = 0
      BY <1>3
    <3> QED
      BY <1>3, <3>1 DEF Smooth, Writing, Accepted, Compressing, Handshaking, Over, Answered
  <2> QED
    BY <2>1 DEF Greeting, Asking, AtWork
<1> QED
  BY <1>1, <1>2, <1>3, GivesUpIs

LEMMA WritesSmooth ==
  ASSUME IInv, Lockstep, Program, Earned, Smooth, Welcome, ClientWrites, faults = 0, Lockstep'
  PROVE  Smooth'
<1>1. Types /\ Certified /\ ~Misled /\ ~cl.err /\ exit # "2"
  BY SmoothIs DEF IInv
<1>2. /\ cl.pc = "write" /\ UNCHANGED <<setup, sv, s2c, conf, kfiles>>
      /\ cl'.tls = cl.tls /\ cl'.capa = cl.capa /\ cl'.err = cl.err
      /\ cl.i + 1 \in 1..Len(Plan)
      /\ GivesUpRepo \/ Writes
  BY <1>1, WritesIs
<1>3. Writing /\ cl.i \in Nat
  BY <1>1, <1>2, SmoothIs DEF Types, ClientState
<1>4. ~GivesUpRepo
  <2>1. cl.capa = ShownCapa
    BY <1>2 DEF Earned
  <2>2. Plan[cl.i + 1] = "REPO" => setup.rap
    BY <1>1, <1>2, PlanIs DEF Welcome
  <2>3. setup.rap => "REPO" \in ShownCapa
    BY DEF ShownCapa, Capabilities
  <2> QED
    BY <2>1, <2>2, <2>3 DEF GivesUpRepo
<1>5. cl'.pc = "read" /\ exit' = exit /\ cl'.i = cl.i + 1
  BY <1>2, <1>4 DEF Writes
<1>6. s2c' = <<>> /\ sv'.pc \in {"loop", "lookup"} /\ Len(s2c') # 1
  <2>1. s2c = <<>> /\ sv.pc \in {"loop", "lookup"}
    BY <1>3 DEF Writing, AtWork
  <2> QED
    BY <1>2, <2>1
<1>7. ~Denied' /\ ~Deserted' /\ ~Misled'
  <2>1. Certified'
    BY <1>1, <1>2, SetUpKept
  <2> QED
    BY <1>6, <2>1 DEF Denied, Refusal, Deserted, Misled
<1>8. setup.cauth # 0 /\ cl'.i >= 1 /\ (cl'.i > 1 \/ cl'.pc = "write") => cl'.tls
  <2>1. cl'.i > 1 => cl.i >= 1
    BY <1>3, <1>5
  <2> QED
    BY <1>2, <1>5, <2>1 DEF Smooth
<1>9. sv.pc \in {"banner", "loop", "shake"} =>
        sv.table = IF setup.authlevel # 0 /\ ~sv.tls THEN "notls" ELSE "auth"
  BY DEF Smooth
<1> QED
  BY <1>1, <1>2, <1>5, <1>6, <1>7, <1>8, <1>9, SmoothKept

LEMMA ReadsSmooth ==
  ASSUME IInv, Lockstep, Program, Smooth, Welcome, ClientReads, faults = 0, Lockstep'
  PROVE  Smooth'
<1>1. Types /\ Certified /\ ~Misled /\ ~cl.err /\ exit # "2"
  BY SmoothIs DEF IInv
<1>2. /\ cl.pc = "read" /\ s2c # <<>> /\ s2c' = Tail(s2c)
      /\ UNCHANGED <<setup, sv, c2s, conf, kfiles, faults>>
      /\ cl'.i = cl.i /\ cl'.verb = cl.verb /\ cl'.tls = cl.tls
      /\ \/ Fails1
         \/ /\ s2c[1].mode = ClientMode
            /\ Welcomed \/ Quits \/ Proceeds \/ Inflates \/ Gathers
  BY ReadsIs
<1>3. Certified' /\ cl.i \in Nat /\ Len(s2c) \in Nat
  BY <1>1, <1>2, SetUpKept, Queues DEF Types, ClientState
<1>4. (Greeting /\ BannerLeft) \/ Accepted \/ Compressing
  BY <1>2 DEF Smooth, Writing, Asking, Handshaking, Over, Greeting
<1>5. sv.pc \in {"banner", "loop", "shake"} =>
        sv.table = IF setup.authlevel # 0 /\ ~sv.tls THEN "notls" ELSE "auth"
  BY DEF Smooth
<1>6. setup.cauth # 0 /\ cl.i > 1 => cl.tls
  BY <1>3 DEF Smooth
<1>7. CASE Greeting /\ BannerLeft
  <2>1. /\ cl.verb = "none" /\ cl.i = 0 /\ sv.n = 0 /\ sv.pc = "loop"
        /\ s2c[1].code = 200 /\ s2c[1].mode = ClientMode
    <3>1. 1 \in 1..Len(s2c)
      BY <1>7 DEF BannerLeft
    <3>2. s2c[1].code = 200 /\ s2c[1].mode = ClientMode
      BY <1>7, <3>1 DEF BannerLeft
    <3> QED
      BY <1>2, <1>7, <3>2 DEF Greeting
  <2>2. cl'.pc \in {"read", "write"} /\ exit' = exit /\ cl'.err = cl.err
    BY <1>2, <2>1 DEF Fails1, Welcomed, Quits, Proceeds, Inflates, Gathers, Request
  <2>3. (Greeting \/ Writing \/ Asking \/ Accepted \/ Compressing \/ Handshaking \/ Over)'
    BY <1>2, <1>3, <2>1 DEF Lockstep, Phases, Denied, Answered, Deserted, Misled
  <2>4. \A v : ~Among(v) /\ ~Among(v)'
    <3>1. \A v : ~Among(v)
      BY <2>1 DEF Among
    <3>2. \A v : ~Among(v)'
      BY <1>2, <2>1 DEF Among
    <3> QED
      BY <3>1, <3>2
  <2>5. ~sv.zlib /\ ~sv.freed
    BY <2>4 DEF Smooth
  <2> QED
    BY <1>1, <1>2, <1>5, <2>1, <2>2, <2>3, <2>4, <2>5 DEF Smooth
<1>8. CASE Accepted \/ Compressing
  <2>1. /\ cl.verb # "none" /\ s2c[1].mode = ClientMode /\ c2s = <<>> /\ sv.pc # "start"
        /\ Positive(s2c[1]) \/ (cl.verb = "COMP" /\ s2c[1].code = 320 /\ ~cl.zlib)
    BY <1>8 DEF Accepted, Compressing, Answered, After1
  <2>2. Quits \/ Proceeds \/ Inflates
    BY <1>2, <2>1 DEF Fails1, Welcomed, Gathers, Request, Positive
  <2>3. /\ exit' # "2" /\ cl'.err = cl.err /\ cl'.capa = cl.capa
        /\ Quits => cl'.pc = "done"
        /\ Proceeds => cl'.pc = (IF cl.verb = "STARTTLS" THEN "shake" ELSE "write")
        /\ Inflates => cl'.pc = "read"
    BY <1>1, <2>2 DEF Quits, Proceeds, Inflates
  <2>4. Proceeds => Accepted
    <3>1. Positive(s2c[1]) => s2c[1].code # 320
      BY DEF Positive
    <3> QED
      BY <1>8, <3>1 DEF Proceeds, Compressing
  <2>5. Inflates => Compressing
    <3>1. s2c[1].code = 320 => ~Positive(s2c[1])
      BY DEF Positive
    <3> QED
      BY <1>8, <3>1 DEF Inflates, Accepted
  <2>6. ~Deserted' /\ ~Misled'
    <3>1. cl'.pc \in {"read", "write"} => sv'.pc = "loop"
      BY <1>2, <2>2, <2>3, <2>4, <2>5 DEF Accepted, Compressing, After1, Proceeds
    <3> QED
      BY <1>3, <3>1 DEF Deserted, Misled
  <2>7. ~Denied'
    <3>1. CASE Inflates
      <4>1. Len(s2c) = 2 /\ Positive(s2c[2])
        BY <2>5, <3>1 DEF Compressing
      <4>2. s2c'[1] = s2c[2]
        BY <1>1, <1>2, <4>1, TailIs
      <4>3. Positive(s2c[1])' <=> Positive(s2c'[1])
        BY DEF Positive
      <4> HIDE DEF Positive
      <4> QED
        BY <4>1, <4>2, <4>3 DEF Denied, Refusal
    <3>2. CASE ~Inflates
      <4>1. cl'.pc # "read"
        BY <2>2, <2>3, <3>2
      <4> QED
        BY <4>1 DEF Denied, Answered
    <3> QED
      BY <3>1, <3>2
  <2>8. setup.cauth # 0 /\ cl'.i >= 1 /\ (cl'.i > 1 \/ cl'.pc = "write") => cl'.tls
    <3>1. ASSUME setup.cauth # 0, cl'.i >= 1, cl'.pc = "write"
          PROVE  cl.i > 1
      <4>1. cl.verb # "STARTTLS"
        BY <2>2, <2>3, <3>1
      <4>2. cl.i \in 1..Len(Plan) /\ Plan[cl.i] = cl.verb
        BY <1>1, <1>2, <2>1 DEF IInv, OnPlan
      <4>3. cl.i # 1
        BY <1>1, <3>1, <4>1, <4>2, PlanIs
      <4> QED
        BY <1>3, <4>2, <4>3
    <3> QED
      BY <1>2, <1>6, <3>1
  <2> QED
    BY <1>1, <1>2, <1>5, <2>1, <2>3, <2>6, <2>7, <2>8, SmoothKept
<1> QED
  BY <1>4, <1>7, <1>8

(* The server has no reason to refuse what a client that is welcome asks    *)
(* for                                                                      *)
LEMMA NoRefusal ==
  ASSUME IInv, Program, Earned, Smooth, Welcome, Asking, sv.pc = "loop"
  PROVE  ~Refuses
<1>1. Types /\ ~cl.err
  BY SmoothIs DEF IInv
<1>2. /\ cl.pc = "read" /\ cl.verb # "none" /\ cl.i \in Nat /\ sv.n = cl.i - 1
      /\ sv.tls = cl.tls
  BY <1>1, Modes DEF Asking, Types, ClientState
<1>3. cl.i \in 1..Len(Plan) /\ Plan[cl.i] = cl.verb
  BY <1>1, <1>2 DEF IInv, OnPlan
<1>4. sv.table = IF setup.authlevel # 0 /\ ~sv.tls THEN "notls" ELSE "auth"
  BY DEF Smooth
<1>5. cl.verb # "STARTTLS" => sv.table = "auth"
  <2>1. ASSUME setup.authlevel # 0, cl.verb # "STARTTLS"
        PROVE  cl.tls
    <3>1. setup.cauth # 0
      BY <2>1 DEF Welcome
    <3>2. cl.i # 1
      BY <1>1, <1>3, <2>1, <3>1, PlanIs
    <3>3. cl.i >= 1 /\ cl.i > 1
      BY <1>2, <1>3, <3>2
    <3> QED
      BY <3>1, <3>3 DEF Smooth
  <2> QED
    BY <1>2, <1>4, <2>1
<1>6. ASSUME NEW j \in 1..Len(Plan), j < cl.i
      PROVE  Among(Plan[j])
  <2>1. j <= sv.n
    BY <1>2, <1>6
  <2> QED
    BY <2>1 DEF Among
<1>7. ASSUME NEW v \in {"LOGIN", "COMP"}, cl.verb = v
      PROVE  ~Among(v)
  <2> SUFFICES ASSUME NEW j \in 1..Len(Plan), j <= sv.n, Plan[j] = v
               PROVE  FALSE
    BY DEF Among
  <2>1. j = cl.i
    BY <1>1, <1>3, <1>7, PlanIs
  <2> QED
    BY <1>2, <2>1
<1>8. ~(cl.verb \in Privileged /\ sv.table # "auth")
  BY <1>5 DEF Privileged, Request
<1>9. ~(cl.verb = "STARTTLS" /\ sv.table = "noauth")
  BY <1>4
<1>10. ~(cl.verb = "STOR" /\ setup.checkuser /\ ~sv.authorized)
  <2> SUFFICES ASSUME cl.verb = "STOR", setup.checkuser
               PROVE  sv.authorized
    OBVIOUS
  <2>1. \E k \in 1..Len(Plan) : k < cl.i /\ Plan[k] = "LOGIN"
    BY <1>1, <1>3, PlanIs
  <2>2. Among("LOGIN")
    BY <1>6, <2>1
  <2> QED
    BY <2>2 DEF Smooth
<1>11. ~(cl.verb = "LOGIN" /\ (~setup.checkuser \/ ~setup.pass \/ sv.freed))
  <2>1. cl.verb = "LOGIN" => setup.checkuser /\ setup.pass
    <3>1. cl.verb = "LOGIN" => Position("LOGIN") # {}
      BY <1>1, <1>3, PlanIs
    <3> QED
      BY <3>1 DEF Welcome
  <2>2. cl.verb = "LOGIN" => ~sv.freed
    BY <1>7 DEF Smooth
  <2> QED
    BY <2>1, <2>2
<1>12. ~(cl.verb = "COMP" /\ (~setup.zlib \/ sv.zlib))
  <2>1. cl.verb = "COMP" => setup.zlib
    <3>1. cl.verb = "COMP" => "ZLIB" \in cl.capa
      BY <1>1, <1>3, PlanIs
    <3>2. cl.capa = ShownCapa
      BY <1>2 DEF Earned
    <3> QED
      BY <3>1, <3>2 DEF ShownCapa, Capabilities
  <2>2. cl.verb = "COMP" => ~sv.zlib
    BY <1>7 DEF Smooth
  <2> QED
    BY <2>1, <2>2
<1> QED
  BY <1>8, <1>9, <1>10, <1>11, <1>12 DEF Refuses

LEMMA CommandSmooth ==
  ASSUME IInv, Lockstep, Program, Earned, Smooth, Welcome, Command, faults = 0, faults' = 0, Lockstep'
  PROVE  Smooth'
<1>1. Types /\ Certified /\ ~Misled /\ ~cl.err /\ exit # "2" /\ (cl.pc = "done" => sv.pc = "done")
  BY SmoothIs DEF IInv
<1>2. /\ sv.pc = "loop" /\ c2s # <<>>
      /\ UNCHANGED <<setup, cl, exit, conf, kfiles>>
  BY <1>1, CommandEffect DEF Effect, Command, Unaffected, configFiles
<1>3. Asking
  BY <1>1, <1>2 DEF Smooth, Greeting, Writing, Accepted, Compressing, Handshaking, Over, Answered
<1>4. Outcome /\ ~Refuses
  BY <1>1, <1>2, <1>3, CommandIs, NoRefusal
<1>5. /\ cl.pc = "read" /\ cl.verb # "none" /\ cl.i \in Nat /\ sv.n = cl.i - 1 /\ sv'.n = cl.i
      /\ sv'.tls = sv.tls /\ sv'.table = sv.table
      /\ Accepts1 \/ Switches
  BY <1>1, <1>3, <1>4 DEF Asking, Outcome, Types, ClientState
<1>6. cl.i \in 1..Len(Plan) /\ Plan[cl.i] = cl.verb /\ Plan' = Plan
  BY <1>1, <1>2, <1>5 DEF IInv, OnPlan, Plan, PlanOf
<1>7. \A v : Among(v)' <=> Among(v) \/ cl.verb = v
  <2> SUFFICES ASSUME NEW v
               PROVE  Among(v)' <=> Among(v) \/ cl.verb = v
    OBVIOUS
  <2>1. Among(v)' <=> \E j \in 1..Len(Plan) : j <= cl.i /\ Plan[j] = v
    BY <1>5, <1>6 DEF Among
  <2>2. Among(v) <=> \E j \in 1..Len(Plan) : j <= cl.i - 1 /\ Plan[j] = v
    BY <1>5 DEF Among
  <2>3. \A j \in 1..Len(Plan) : j <= cl.i <=> j <= cl.i - 1 \/ j = cl.i
    BY <1>5
  <2> QED
    BY <1>6, <2>1, <2>2, <2>3
<1>8. (Greeting \/ Writing \/ Asking \/ Accepted \/ Compressing \/ Handshaking \/ Over)'
  <2>1. Certified'
    BY <1>1, <1>2, SetUpKept
  <2>2. s2c' # <<>> /\ (Positive(s2c'[1]) \/ s2c'[1].code = 320)
    <3>1. Len(s2c') = 1 \/ Len(s2c') = 2
      BY <1>5 DEF Accepts1, Switches
    <3>2. s2c' # <<>>
      BY <3>1
    <3> QED
      BY <1>5, <3>2 DEF Accepts1, Switches
  <2>3. ~Refusal'
    <3>1. Positive(s2c[1])' <=> Positive(s2c'[1])
      BY DEF Positive
    <3> HIDE DEF Positive
    <3> QED
      BY <2>2, <3>1 DEF Refusal
  <2> QED
    BY <2>1, <2>2, <2>3 DEF Lockstep, Phases, Denied, Deserted, Misled
<1>9. sv'.pc # "start" /\ sv'.pc # "banner"
  BY <1>5 DEF Accepts1, Switches, After1
<1>10. sv.table = IF setup.authlevel # 0 /\ ~sv.tls THEN "notls" ELSE "auth"
  BY <1>2 DEF Smooth
<1>11. (sv'.zlib => Among("COMP")') /\ (sv'.freed => Among("LOGIN")')
  BY <1>5, <1>7 DEF Smooth, Accepts1, Switches
<1>12. Among("LOGIN")' => sv'.authorized
  BY <1>5, <1>7 DEF Smooth, Accepts1, Switches
<1> QED
  BY <1>1, <1>2, <1>5, <1>8, <1>9, <1>10, <1>11, <1>12 DEF Smooth
-----------------------------------------------------------------------------
LEMMA InitCourse == Init => Course
<1> SUFFICES ASSUME NEW b \in Setups, setup = b.setup,
               cl = [pc |-> "read", i |-> 0, verb |-> "none", tls |-> FALSE, zlib |-> FALSE,
                     capa |-> {}, err |-> FALSE],
               sv = [pc |-> "start", table |-> IF b.setup.authlevel = 0 THEN "noauth" ELSE "notls",
                     tls |-> FALSE, zlib |-> FALSE, authorized |-> FALSE, freed |-> FALSE, n |-> 0],
               c2s = <<>>, s2c = <<>>, exit = "none", faults = 0
             PROVE  Course
  BY DEF Init
<1>1. /\ cl.pc = "read" /\ cl.i = 0 /\ cl.verb = "none" /\ ~cl.tls /\ ~cl.zlib /\ ~cl.err
      /\ sv.pc = "start" /\ ~sv.tls /\ ~sv.zlib /\ ~sv.authorized /\ ~sv.freed /\ sv.n = 0
      /\ setup.authlevel # 0 => sv.table = "notls"
      /\ cl.tls = FALSE /\ cl.zlib = FALSE /\ sv.tls = FALSE /\ sv.zlib = FALSE
  OBVIOUS
<1>2. Greeting
  BY <1>1 DEF Greeting, Agreed, ClientMode, ServerMode
<1>3. Lockstep
  BY <1>1, <1>2 DEF Lockstep, Phases
<1>4. \A j \in 1..Len(Plan) : ~(j <= cl.i) /\ ~Passed(j) /\ ~(j <= sv.n)
  BY <1>1 DEF Passed
<1>5. ~Accepted /\ ~Compressing /\ \A v : ~Among(v)
  BY <1>1, <1>4 DEF Accepted, Compressing, Answered, Among
<1>6. Earned
  BY <1>1, <1>4, <1>5 DEF Earned
<1>7. Smooth
  BY <1>1, <1>2, <1>5 DEF Smooth
<1> QED
  BY <1>3, <1>6, <1>7 DEF Course

(* A step of a session in which no call fails                               *)
LEMMA CourseKept ==
  ASSUME IInv, LookupInv, Course, Next, faults = 0, faults' = 0
  PROVE  Course'
<1>1. Types /\ Lockstep /\ (Program => Earned) /\ (Program /\ Welcome => Smooth)
  BY DEF IInv, Course
<1>2. ~Fault
  BY DEF Fault
<1>3. ~ServerTimesOut /\ ~ClientTimesOut /\ ~Killed
  BY <1>2 DEF ServerTimesOut, ClientTimesOut, Killed
<1>4. /\ ServerStart \/ Lookup \/ LookupDone \/ Banner \/ Command \/ ServerHangsUp
      \/ ClientWrites \/ ClientReads \/ ClientGivesUp \/ Tls
  BY <1>3 DEF Next, Server, Client
<1>5. Lockstep'
  BY <1>1, <1>4, PreludeStays, CommandStays, EndsStay, WritesStays, ReadsStays, TlsStays
<1>6. UNCHANGED <<setup, conf, kfiles>>
  BY <1>1, <1>4 DEF ServerStart, Lookup, LookupDone, Banner, Command, Unaffected, ServerHangsUp,
     ClientWrites, ClientReads, ClientGivesUp, Tls, Handshake, HandshakeFails, HandshakeAlone,
     configFiles, sessionOwn
<1>7. Program' = Program /\ Welcome' = Welcome
  BY <1>6, SetUpKept
<1>8. Program => Earned'
  BY <1>1, <1>4, PreludeEarns, CommandEarns, EndsEarn, WritesEarns, ReadsEarns, TlsEarns
<1>9. Program /\ Welcome => Smooth'
  BY <1>1, <1>4, <1>5, PreludeSmooth, CommandSmooth, EndsSmooth, WritesSmooth, ReadsSmooth, TlsSmooth
<1> QED
  BY <1>5, <1>7, <1>8, <1>9 DEF Course

(* Nothing happens                                                          *)
LEMMA CourseRests ==
  ASSUME Types, Course, UNCHANGED vars
  PROVE  Course'
<1>1. UNCHANGED <<setup, cl, sv, c2s, s2c, exit, faults, conf, kfiles>>
  BY DEF vars, sessionOwn, configFiles
<1>2. /\ Certified' = Certified /\ ShownCapa' = ShownCapa
      /\ ClientContent' = ClientContent /\ ServerContent' = ServerContent
      /\ Program' = Program /\ Welcome' = Welcome
      /\ ClientMode' = ClientMode /\ ServerMode' = ServerMode
  BY <1>1, SetUpKept, Modes
<1>3. Agreed' = Agreed /\ Refusal' = Refusal /\ BannerLeft' = BannerLeft /\ Plan' = Plan
  BY <1>1, <1>2 DEF Agreed, Refusal, BannerLeft, Positive, Plan, PlanOf
<1>4. /\ Greeting' = Greeting /\ Writing' = Writing /\ Asking' = Asking /\ Handshaking' = Handshaking
      /\ Accepted' = Accepted /\ Compressing' = Compressing
  BY <1>1, <1>2, <1>3 DEF Greeting, Writing, Asking, Handshaking, Accepted, Compressing, Answered, After1,
     AtWork, Positive
<1>5. /\ Denied' = Denied /\ Deserted' = Deserted /\ Misled' = Misled /\ Over' = Over
  BY <1>1, <1>2, <1>3 DEF Denied, Deserted, Misled, Over, Answered
<1>6. Lockstep => Lockstep'
  BY <1>1, <1>2, <1>4, <1>5 DEF Lockstep, Phases
<1>7. Earned => Earned'
  <2> SUFFICES ASSUME Earned PROVE Earned'
    OBVIOUS
  <2>1. /\ sv.pc \notin {"start", "done"} => ~setup.busy
        /\ sv.authorized => setup.script[1] = "LOGIN"
        /\ ~cl.err /\ (Accepted \/ Compressing) /\ cl.verb # "STARTTLS" => Earns(cl.verb)
    BY DEF Earned
  <2> QED
    BY <1>1, <1>4, <1>5, <2>1, ServerEarns
<1>8. Smooth => Smooth'
  <2>1. \A v : Among(v)' = Among(v)
    BY <1>1, <1>3 DEF Among
  <2> QED
    BY <1>1, <1>4, <1>5, <2>1 DEF Smooth
<1> QED
  BY <1>1, <1>2, <1>6, <1>7, <1>8 DEF Course

(* A step has at most one call fail.                                        *)
LEMMA Counted ==
  ASSUME Next
  PROVE  faults' = faults \/ faults' = faults + 1
<1>1. CASE Server
  <2>1. CASE ServerStart
    BY <2>1 DEF ServerStart
  <2>2. CASE Banner
    BY <2>2 DEF Banner
  <2>3. CASE Lookup
    BY <2>3 DEF Lookup, sessionOwn
  <2>4. CASE LookupDone
    BY <2>4 DEF LookupDone
  <2>5. CASE (Simple \/ NotAllowed \/ StartTls \/ Garbled) /\ Unaffected /\ UNCHANGED faults
    BY <2>5
  <2>6. CASE Serve
    BY <2>6 DEF Serve, Fault
  <2>7. CASE Stor
    BY <2>7 DEF Stor, Fault
  <2>8. CASE Login
    BY <2>8 DEF Login, Fault
  <2>9. CASE Compress
    BY <2>9 DEF Compress, Fault
  <2>10. CASE ServerHangsUp
    BY <2>10 DEF ServerHangsUp
  <2> QED
    BY <1>1, <2>1, <2>2, <2>3, <2>4, <2>5, <2>6, <2>7, <2>8, <2>9, <2>10 DEF Server, Command
<1>2. CASE Client
  BY <1>2 DEF Client, ClientWrites, ClientReads, ClientGivesUp
<1>3. CASE Tls
  BY <1>3 DEF Tls, Handshake, HandshakeFails, HandshakeAlone, Fault
<1>4. CASE ServerTimesOut \/ ClientTimesOut \/ Killed
  BY <1>4 DEF ServerTimesOut, ClientTimesOut, Killed, Fault
<1> QED
  BY <1>1, <1>2, <1>3, <1>4 DEF Next

LEMMA CourseStays ==
  ASSUME IInv, LookupInv, Course, [Next]_vars
  PROVE  Course'
<1>1. Types /\ faults \in Nat
  BY DEF IInv, Course
<1>2. CASE UNCHANGED vars
  BY <1>1, <1>2, CourseRests
<1>3. CASE Next
  <2>1. faults' = faults \/ faults' = faults + 1
    BY <1>3, Counted
  <2>2. faults' \in Nat /\ (faults' = 0 => faults = 0)
    BY <1>1, <2>1
  <2>3. CASE faults' = 0
    BY <1>3, <2>2, <2>3, CourseKept
  <2>4. CASE faults' # 0
    BY <2>2, <2>4 DEF Course
  <2> QED
    BY <2>3, <2>4
<1> QED
  BY <1>2, <1>3

LEMMA OutcomeIs ==
  ASSUME IInv, Course
  PROVE  SessionExact
<1>1. Readable
  BY ReadableIs DEF IInv, Course
<1>2. OutcomeExact
  <2> SUFFICES ASSUME Program, exit # "none", faults = 0
               PROVE  /\ exit = IF Welcome THEN "0" ELSE "2"
                      /\ exit = "0" => sv.pc = "done" /\ s2c = <<>> /\ c2s = <<>> /\ sv.n = Len(Plan)
    BY DEF OutcomeExact
  <2>1. Types /\ Lockstep /\ Earned /\ (Welcome => Smooth)
    BY DEF IInv, Course
  <2>2. cl.pc = "done"
    BY <2>1 DEF Lockstep
  <2>3. Over
    BY <2>1, <2>2 DEF Lockstep, Phases, Greeting, Writing, Asking, Denied, Accepted, Compressing,
       Handshaking, Answered, Deserted, Misled
  <2>4. Welcome => exit # "2"
    BY <2>1 DEF Smooth
  <2>5. ~Welcome => exit # "0"
    BY <2>1, OnlyWelcome
  <2>6. exit = "0" => cl.i = Len(Plan)
    BY <2>1 DEF Earned
  <2> QED
    BY <2>3, <2>4, <2>5, <2>6 DEF Over
<1> QED
  BY <1>1, <1>2 DEF SessionExact

(* If no call fails, a session goes as its set-up says: neither side reads  *)
(* what has been sent in another mode, and a client of the project succeeds *)
(* exactly if the server is not busy, its files list the client, both sides *)
(* ask for the same of TLS and get it, and everything that is asked for may *)
(* be had; then all has been answered, and the server has gone (cmdloop(),  *)
(* f_starttls(), f_login(), f_compress(), and what the clients say).        *)
THEOREM GoesAsSet == Spec => []SessionExact
<1>1. Init => IInv /\ LookupInv /\ Course
  BY InitKeeps, InitLooks, InitCourse
<1>2. IInv /\ LookupInv /\ Course /\ [Next]_vars => (IInv /\ LookupInv /\ Course)'
  BY StepKeeps, LooksOn, CourseStays
<1>3. IInv /\ LookupInv /\ Course => SessionExact
  BY OutcomeIs
<1> QED
  BY <1>1, <1>2, <1>3, PTL DEF Spec
=============================================================================
