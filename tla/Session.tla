------------------------------ MODULE Session -------------------------------
(****************************************************************************)
(* A session of a client with the child of radmind that serves it: the      *)
(* banner, STARTTLS, compression, LOGIN, requests, QUIT (command.c,         *)
(* connect.c, tls.c, and the clients' main functions).                      *)
(*                                                                          *)
(* A message is sent as text, in TLS, compressed, or both ("mode"), and     *)
(* can only be read in the mode that the reader is in.  Replies carry the   *)
(* number of the command that they answer, which is not on the wire.        *)
(****************************************************************************)
EXTENDS ServerConfig

CONSTANTS
  Setups,   \* how client and server are set up: set of records, see Setup
  MaxFaults \* bound on calls that fail, timeouts, and peers that are killed

Request == {"STAT", "RETR", "STOR", "REPO"}
Verb    == Request \cup {"QUIT", "NOOP", "HELP", "STARTTLS", "LOGIN", "COMP"}

(* The server: -w, -U, whether it announces capabilities, -Z, too many      *)
(* connections.  The client: -w, -Z, its requests.  TLS: whether one side   *)
(* accepts the certificate of the other, and finds in it the name that it   *)
(* expects.  PAM: whether the password is right.                            *)
Setup ==
  [authlevel : 0..2, checkuser : BOOLEAN, rap : BOOLEAN, zlib : BOOLEAN, busy : BOOLEAN,
   cauth : 0..2, czlib : BOOLEAN, script : Seq(Verb),
   scert : BOOLEAN, sname : BOOLEAN, ccert : BOOLEAN, pass : BOOLEAN]

(* daemon.c refuses to check users without TLS                              *)
ASSUME SessionAssumption ==
  /\ MaxFaults \in Nat
  /\ \A b \in Setups : b.setup \in Setup /\ (b.setup.checkuser => b.setup.authlevel >= 1)
  /\ \A b \in Setups : \A f \in DOMAIN b.conf : b.conf[f] \in Seq(ConfLine)
  /\ \A b \in Setups : /\ DOMAIN b.kfiles \subseteq KFile
                       /\ \A f \in DOMAIN b.kfiles : b.kfiles[f] \in Seq(KLine)

(* What is sent: a command with its number, a reply with the number of the  *)
(* command that it answers, or 0                                            *)
Mode       == [tls : BOOLEAN, zlib : BOOLEAN]
CommandMsg == [verb : Verb, n : Nat, mode : Mode]
ReplyMsg   == [code : Nat, more : BOOLEAN, capa : SUBSET {"ZLIB", "REPO"}, re : Nat, mode : Mode]

VARIABLES
  setup,
  cl,    \* client: pc, i: how many commands it has sent, the last one, tls, zlib, capa, err
  sv,    \* server: pc, table, tls, zlib, authorized, freed, n: the command it serves
  c2s, s2c, \* what is on the way to the server, and to the client
  exit,  \* of the client
  faults

sessionOwn == <<setup, cl, sv, c2s, s2c, exit, faults>>
vars       == <<configFiles, lookup, sessionOwn>>

ClientMode == [tls |-> cl.tls, zlib |-> cl.zlib]
ServerMode == [tls |-> sv.tls, zlib |-> sv.zlib]

ServerAt(pc) == sv.pc = pc
ClientAt(pc) == cl.pc = pc

Reply(code)        == [code |-> code, more |-> FALSE, capa |-> {}, re |-> sv.n, mode |-> ServerMode]
Answers(code)      == s2c' = Append(s2c, Reply(code))
ServerGoes(pc)     == sv' = [sv EXCEPT !.pc = pc]
Positive(m)        == m.code \in {200, 201, 202, 203, 205, 215, 220, 230, 240, 250}
-----------------------------------------------------------------------------
(* The server: the head of cmdloop()                                        *)
ServerStart ==
  /\ ServerAt("start")
  /\ IF setup.busy
     THEN Answers(420) /\ ServerGoes("done") /\ UNCHANGED lookup
     ELSE IF setup.authlevel = 0
     THEN ServerGoes("lookup") /\ s2c' = s2c /\ ConfigOpen(FALSE)
     ELSE ServerGoes("banner") /\ UNCHANGED <<s2c, lookup>>
  /\ UNCHANGED <<configFiles, setup, cl, c2s, exit, faults>>

Capabilities == (IF setup.zlib THEN {"ZLIB"} ELSE {}) \cup {"REPO"}

Banner ==
  /\ ServerAt("banner")
  /\ ServerGoes("loop")
  /\ s2c' = s2c \o (IF setup.rap
                    THEN <<[Reply(200) EXCEPT !.more = TRUE], [Reply(200) EXCEPT !.capa = Capabilities]>>
                    ELSE <<Reply(200)>>)
  /\ UNCHANGED <<configFiles, lookup, setup, cl, c2s, exit, faults>>

(* command_k() and read_kfile(), called before the banner or by             *)
(* f_starttls()                                                             *)
Lookup ==
  /\ ServerAt("lookup")
  /\ ConfigLine \/ KFileLine \/ KOpen
  /\ UNCHANGED <<configFiles, sessionOwn>>

(* Mutant: the client is served as before if it is not in the config file   *)
TableKept == IF sv.table = "notls" THEN "auth" ELSE sv.table

Unlisted == "noauth"

(* What becomes of the result                                               *)
LookupDone ==
  /\ ServerAt("lookup") /\ finding \in {"none", "ready", "failed"}
  /\ \/ /\ finding = "ready"
        /\ sv' = [sv EXCEPT !.table = "auth", !.pc = IF sv.tls THEN "loop" ELSE "banner"]
        /\ s2c' = s2c
     \/ /\ finding = "none" /\ sv.tls
        /\ sv' = [sv EXCEPT !.table = Unlisted, !.pc = "loop"]
        /\ s2c' = s2c
     \/ finding = "none" /\ ~sv.tls /\ Answers(500) /\ ServerGoes("done")
     \/ finding = "failed" /\ Answers(421) /\ ServerGoes("done")
  /\ UNCHANGED <<configFiles, lookup, setup, cl, c2s, exit, faults>>
-----------------------------------------------------------------------------
(* The loop of cmdloop(): one command                                       *)
Fault == faults < MaxFaults /\ faults' = faults + 1

Reads(verb) ==
  /\ ServerAt("loop") /\ c2s # <<>>
  /\ Head(c2s).mode = ServerMode /\ Head(c2s).verb = verb
  /\ c2s' = Tail(c2s)

(* The reply to the command that has just been read                         *)
Now(code)       == [Reply(code) EXCEPT !.re = Head(c2s).n]
Says(code)      == s2c' = Append(s2c, Now(code))
SaysBoth(a, b)  == s2c' = s2c \o <<Now(a), Now(b)>>
Read1           == [sv EXCEPT !.n = Head(c2s).n]
Continues       == sv' = Read1
Leaves          == sv' = [Read1 EXCEPT !.pc = "done"]
Unaffected      == UNCHANGED <<configFiles, lookup, setup, cl, exit>>

(* f_quit(), f_noop(), f_help() are in all tables                           *)
Simple ==
  \/ Reads("QUIT") /\ Says(201) /\ Leaves
  \/ Reads("NOOP") /\ Says(202) /\ Continues
  \/ Reads("HELP") /\ Says(203) /\ Continues

(* f_notls() and f_noauth(): the session is over; STARTTLS is not in        *)
(* noauth[] and is not recognized                                           *)
NotAllowed ==
  \/ \E v \in Request \cup {"LOGIN", "COMP"} :
       /\ Reads(v) /\ sv.table # "auth"
       /\ Says(IF sv.table = "notls" THEN 530 ELSE 500) /\ Leaves
  \/ Reads("STARTTLS") /\ sv.table = "noauth" /\ Says(500) /\ Continues

(* f_stat(), f_retr() and f_repo() as far as the session goes: an answer,   *)
(* an error that is told, one that ends the session                         *)
Serve ==
  \E v \in {"STAT", "RETR", "REPO"} :
    /\ Reads(v) /\ sv.table = "auth"
    /\ \/ Says(CASE v = "STAT" -> 230 [] v = "RETR" -> 240 [] OTHER -> 215)
          /\ Continues /\ faults' = faults
       \/ Fault /\ Says(540) /\ Continues
       \/ Fault /\ v = "RETR" /\ SaysBoth(240, 444) /\ Leaves

MayStore == setup.checkuser => sv.authorized

Stor ==
  /\ Reads("STOR") /\ sv.table = "auth"
  /\ IF MayStore
     THEN \/ Says(250) /\ Continues /\ faults' = faults
          \/ Fault /\ Says(540) /\ Continues
          \/ Fault /\ Says(444) /\ Leaves
     ELSE Says(551) /\ Leaves /\ faults' = faults

(* f_login().  After pam_authenticate() has succeeded the password has      *)
(* been freed but not forgotten, so the next LOGIN frees it again.          *)
Login ==
  /\ Reads("LOGIN") /\ sv.table = "auth"
  /\ IF ~setup.checkuser THEN Says(502) /\ Continues /\ faults' = faults
     ELSE \/ /\ setup.pass
             /\ Says(205)
             /\ sv' = [Read1 EXCEPT !.authorized = TRUE, !.freed = TRUE]
             /\ faults' = faults
          \/ /\ ~setup.pass
             /\ Says(535) /\ sv' = [Read1 EXCEPT !.freed = FALSE] /\ faults' = faults
          \/ /\ setup.pass /\ Fault
             /\ Says(535)
             /\ \E freed \in BOOLEAN : sv' = [Read1 EXCEPT !.freed = freed]
          \/ sv.freed /\ s2c' = s2c /\ Leaves /\ faults' = faults

(* f_compress()                                                             *)
Compress ==
  /\ Reads("COMP") /\ sv.table = "auth"
  /\ IF ~setup.zlib \/ sv.zlib THEN Says(501) /\ Continues /\ faults' = faults
     ELSE \/ /\ sv' = [Read1 EXCEPT !.zlib = TRUE]
             /\ s2c' = s2c \o <<Now(320), [Now(220) EXCEPT !.mode.zlib = TRUE]>>
             /\ faults' = faults
          \/ Fault /\ SaysBoth(320, 444) /\ Leaves

(* f_starttls(): what follows is the handshake                              *)
StartTls ==
  /\ Reads("STARTTLS") /\ sv.table # "noauth"
  /\ Says(220)
  /\ sv' = [Read1 EXCEPT !.pc = "shake"]

(* Bytes that were sent in another mode are no command                      *)
Garbled ==
  /\ ServerAt("loop") /\ c2s # <<>> /\ Head(c2s).mode # ServerMode
  /\ c2s' = Tail(c2s)
  /\ s2c' = s2c \/ Says(500)
  /\ Continues

Command ==
  \/ (Simple \/ NotAllowed \/ StartTls \/ Garbled) /\ Unaffected /\ UNCHANGED faults
  \/ (Serve \/ Stor \/ Login \/ Compress) /\ Unaffected

(* snet_getline() fails: the client is gone ...                             *)
ServerHangsUp ==
  /\ ServerAt("loop") /\ c2s = <<>> /\ ClientAt("done")
  /\ Answers(444) /\ ServerGoes("done")
  /\ UNCHANGED <<configFiles, lookup, setup, cl, c2s, exit, faults>>

(* ... or has been silent for 60 minutes                                    *)
ServerTimesOut ==
  /\ ServerAt("loop") /\ c2s = <<>> /\ Fault
  /\ Answers(444) /\ ServerGoes("done")
  /\ UNCHANGED <<configFiles, lookup, setup, cl, c2s, exit>>
-----------------------------------------------------------------------------
(* The client                                                               *)

(* The commands in their order, as they follow from the options and the     *)
(* capabilities.  repo does not report to a server that does not take it.   *)
PlanOf(s, capa) ==
  (IF s.cauth # 0 THEN <<"STARTTLS">> ELSE <<>>)
    \o (IF s.czlib /\ "ZLIB" \in capa THEN <<"COMP">> ELSE <<>>)
    \o s.script \o <<"QUIT">>
Plan == PlanOf(setup, cl.capa)

ClientGoes(pc)  == cl' = [cl EXCEPT !.pc = pc]
ClientExits(st) == cl' = [cl EXCEPT !.pc = "done"] /\ exit' = st

ClientWrites ==
  /\ ClientAt("write")
  /\ LET v == IF cl.err THEN "QUIT" ELSE Plan[cl.i + 1]
     IN  IF v = "REPO" /\ "REPO" \notin cl.capa THEN ClientExits("2") /\ c2s' = c2s
         ELSE /\ c2s' = Append(c2s, [verb |-> v, n |-> cl.i + 1, mode |-> ClientMode])
              /\ cl' = [cl EXCEPT !.pc = "read", !.i = @ + 1, !.verb = v]
              /\ exit' = exit
  /\ UNCHANGED <<configFiles, lookup, setup, sv, s2c, faults>>

(* Mutant: only the first line of the banner is read                        *)
BannerOnce(m) ==
  /\ cl.verb = "none"
  /\ IF m.code # 200 THEN ClientExits("2")
     ELSE cl' = [cl EXCEPT !.pc = "write", !.capa = m.capa] /\ exit' = exit

(* get_capabilities()                                                       *)
ReadsBanner(m) ==
  /\ cl.verb = "none"
  /\ IF m.code # 200 THEN ClientExits("2")
     ELSE cl' = [cl EXCEPT !.pc = IF m.more THEN "read" ELSE "write", !.capa = m.capa] /\ exit' = exit

Accepts(m) == cl.verb # "none" /\ Positive(m)

ReadsReply(m) ==
  \/ Accepts(m) /\ cl.verb = "QUIT" /\ ClientExits(IF cl.err THEN "2" ELSE "0")
  \/ Accepts(m) /\ cl.verb = "STARTTLS" /\ ClientGoes("shake") /\ exit' = exit
  \/ Accepts(m) /\ cl.verb \notin {"QUIT", "STARTTLS"} /\ ClientGoes("write") /\ exit' = exit

(* negotiate_compression()                                                  *)
ReadsCompress(m) ==
  /\ cl.verb = "COMP" /\ m.code = 320 /\ ~cl.zlib
  /\ cl' = [cl EXCEPT !.zlib = TRUE] /\ exit' = exit

(* Mutant: after an error, an answer is waited for                          *)
ErrorWaits(m) ==
  /\ cl.verb # "none" /\ ~Positive(m) /\ ~(cl.verb = "COMP" /\ m.code = 320 /\ ~cl.zlib)
  /\ UNCHANGED <<cl, exit>>

(* Anything else is an error, after which some clients still say QUIT       *)
ReadsError(m) ==
  /\ cl.verb # "none" /\ ~Positive(m) /\ ~(cl.verb = "COMP" /\ m.code = 320 /\ ~cl.zlib)
  /\ \/ ClientExits("2")
     \/ cl.verb \in Request /\ cl' = [cl EXCEPT !.pc = "write", !.err = TRUE] /\ exit' = exit

ClientReads ==
  /\ ClientAt("read") /\ s2c # <<>>
  /\ s2c' = Tail(s2c)
  /\ LET m == Head(s2c)
     IN  \/ m.mode # ClientMode /\ ClientExits("2")
         \/ m.mode = ClientMode /\ (ReadsBanner(m) \/ ReadsReply(m) \/ ReadsCompress(m) \/ ReadsError(m))
  /\ UNCHANGED <<configFiles, lookup, setup, sv, c2s, faults>>

(* The server is gone ...                                                   *)
ClientGivesUp ==
  /\ ClientAt("read") /\ s2c = <<>> /\ ServerAt("done")
  /\ ClientExits("2")
  /\ UNCHANGED <<configFiles, lookup, setup, sv, c2s, s2c, faults>>

(* ... or has been silent for 60 seconds                                    *)
ClientTimesOut ==
  /\ ClientAt("read") /\ s2c = <<>> /\ Fault
  /\ ClientExits("2")
  /\ UNCHANGED <<configFiles, lookup, setup, sv, c2s, s2c>>
-----------------------------------------------------------------------------
(* snet_starttls() on both sides.  A server with -w0 has no context.        *)
ClientContent == setup.authlevel # 0 /\ setup.scert
ServerContent == setup.authlevel # 0 /\ (setup.authlevel = 2 => setup.cauth = 2 /\ setup.ccert)

Shaking == ClientAt("shake") /\ ServerAt("shake")

(* Mutant: the certificate is fine, but not for that host                   *)
AnyName == TRUE

NameAsExpected == setup.sname

(* Then the client compares the names, and the server looks for the client  *)
Handshake ==
  /\ Shaking /\ ClientContent /\ ServerContent
  /\ IF NameAsExpected
     THEN cl' = [cl EXCEPT !.tls = TRUE, !.pc = "write"] /\ exit' = exit
     ELSE cl' = [cl EXCEPT !.tls = TRUE, !.pc = "done"] /\ exit' = "2"
  /\ sv' = [sv EXCEPT !.tls = TRUE, !.pc = "lookup"]
  /\ ConfigOpen(setup.authlevel = 2)
  /\ UNCHANGED <<configFiles, setup, c2s, s2c, faults>>

(* It fails.  The server says so in clear and goes on; the client may not   *)
(* know yet that its certificate has not been accepted.                     *)
HandshakeFails ==
  /\ Shaking
  /\ \/ ~(ClientContent /\ ServerContent) /\ faults' = faults
     \/ ClientContent /\ ServerContent /\ Fault
  /\ \/ ClientExits("2")
     \/ ClientContent /\ cl' = [cl EXCEPT !.tls = TRUE, !.pc = "write"] /\ exit' = exit
  /\ Answers(501) /\ ServerGoes("loop")
  /\ UNCHANGED <<configFiles, lookup, setup, c2s>>

(* One of them is gone before it begins                                     *)
HandshakeAlone ==
  \/ /\ ClientAt("shake") /\ ServerAt("done")
     /\ ClientExits("2")
     /\ UNCHANGED <<configFiles, lookup, setup, sv, c2s, s2c, faults>>
  \/ /\ ServerAt("shake") /\ ClientAt("done")
     /\ Answers(501) /\ ServerGoes("loop")
     /\ UNCHANGED <<configFiles, lookup, setup, cl, c2s, exit, faults>>

(* One of the processes is killed                                           *)
Killed ==
  /\ Fault
  /\ \/ ~ClientAt("done") /\ ClientExits("killed") /\ sv' = sv
     \/ ~ServerAt("done") /\ ServerGoes("done") /\ UNCHANGED <<cl, exit>>
  /\ UNCHANGED <<configFiles, lookup, setup, c2s, s2c>>
-----------------------------------------------------------------------------
Init ==
  \E b \in Setups :
    /\ setup = b.setup /\ conf = b.conf /\ kfiles = b.kfiles
    /\ ConfigIdle
    /\ cl = [pc |-> "read", i |-> 0, verb |-> "none", tls |-> FALSE, zlib |-> FALSE,
             capa |-> {}, err |-> FALSE]
    /\ sv = [pc |-> "start", table |-> IF b.setup.authlevel = 0 THEN "noauth" ELSE "notls",
             tls |-> FALSE, zlib |-> FALSE, authorized |-> FALSE, freed |-> FALSE, n |-> 0]
    /\ c2s = <<>> /\ s2c = <<>> /\ exit = "none" /\ faults = 0

Server == ServerStart \/ Banner \/ Lookup \/ LookupDone \/ Command \/ ServerHangsUp
Client == ClientWrites \/ ClientReads \/ ClientGivesUp
Tls    == Handshake \/ HandshakeFails \/ HandshakeAlone

Next == Server \/ Client \/ Tls \/ ServerTimesOut \/ ClientTimesOut \/ Killed

(* The processes are scheduled, and what TLS has begun comes to an end      *)
Spec ==
  /\ Init /\ [][Next]_vars
  /\ WF_vars(Server) /\ WF_vars(Client) /\ WF_vars(Tls)

ClientState ==
  [pc : {"read", "write", "shake", "done"}, i : Nat, verb : Verb \cup {"none"},
   tls : BOOLEAN, zlib : BOOLEAN, capa : SUBSET {"ZLIB", "REPO"}, err : BOOLEAN]
ServerState ==
  [pc : {"start", "banner", "lookup", "loop", "shake", "done"},
   table : {"notls", "noauth", "auth"}, tls : BOOLEAN, zlib : BOOLEAN,
   authorized : BOOLEAN, freed : BOOLEAN, n : Nat]

TypeOK ==
  /\ ConfigTypeOK
  /\ setup \in Setup /\ faults \in 0..MaxFaults
  /\ cl \in ClientState /\ sv \in ServerState
  /\ c2s \in Seq(CommandMsg) /\ s2c \in Seq(ReplyMsg)
  /\ sv.n <= cl.i /\ (cl.pc = "write" /\ ~cl.err => cl.i < Len(Plan))
  /\ exit \in {"none", "0", "2", "killed"} /\ (exit = "none" <=> cl.pc # "done")
-----------------------------------------------------------------------------
(* The server serves requests only for a client that it has found in its    *)
(* config files, after TLS if -w says so, and stores only for a user that   *)
(* has logged in if -U says so                                              *)
ServedAsSet ==
  [][ Len(s2c') > Len(s2c) /\ s2c'[Len(s2c) + 1].code \in {215, 230, 240, 250} =>
        /\ finding = "ready"
        /\ setup.authlevel # 0 => sv.tls
        /\ s2c'[Len(s2c) + 1].code = 250 /\ setup.checkuser => sv.authorized ]_vars

(* What a client takes for success is the answer to its last command, or    *)
(* the banner; what the server says unasked it takes for an error           *)
InStep ==
  [][ ClientAt("read") /\ cl'.pc \in {"write", "shake"} /\ ~cl'.err => Head(s2c).re = cl.i ]_vars

(* Whoever reads is in the mode of what is to be read, unless the TLS       *)
(* handshake or a call fails                                                *)
Readable ==
  faults = 0 /\ (setup.authlevel = 2 => ServerContent) =>
    /\ ClientAt("read") /\ s2c # <<>> => Head(s2c).mode = ClientMode
    /\ ServerAt("loop") /\ c2s # <<>> => Head(c2s).mode = ServerMode

(* How client and server have to be set up for each other, and the client   *)
(* be listed, for a session to succeed                                      *)
Position(v) == { k \in DOMAIN setup.script : setup.script[k] = v }

Welcome ==
  LET d == Decision(setup.authlevel = 2)
  IN  /\ ~setup.busy
      /\ d # NoEntry /\ KReadable(d.file)
      /\ setup.authlevel = 0 <=> setup.cauth = 0
      /\ setup.authlevel # 0 => ClientContent /\ ServerContent /\ setup.sname
      /\ Position("REPO") # {} => setup.rap
      /\ Position("LOGIN") # {} => setup.checkuser /\ setup.pass
      /\ setup.checkuser => \A k \in Position("STOR") : \E m \in Position("LOGIN") : m < k

(* The clients of the project: at most one LOGIN, and requests              *)
Program == setup.script # <<>> /\ \A k \in DOMAIN setup.script :
             setup.script[k] \in Request \/ (k = 1 /\ setup.script[k] = "LOGIN")

(* If nothing fails, a session succeeds exactly if it should, and if it     *)
(* succeeds everything has been answered and the server has gone            *)
OutcomeExact ==
  Program /\ exit # "none" /\ faults = 0 =>
    /\ exit = IF Welcome THEN "0" ELSE "2"
    /\ exit = "0" => sv.pc = "done" /\ s2c = <<>> /\ c2s = <<>> /\ sv.n = Len(Plan)

(* A session goes as its set-up says: neither side misreads the other, and  *)
(* it succeeds exactly if it should                                         *)
SessionExact == Readable /\ OutcomeExact

(* Every session ends, on both sides                                        *)
SessionEnds == <>(ClientAt("done") /\ ServerAt("done"))
=============================================================================
