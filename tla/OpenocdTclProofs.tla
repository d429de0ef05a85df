-------------------------- MODULE OpenocdTclProofs --------------------------
(***************************************************************************)
(* Proofs about the client of OpenOCD's TCL port, for every memory         *)
(* contents, every length of a "targets" reply that fits temp_buf, and any *)
(* number of calls, timeouts and connections.                              *)
(***************************************************************************)
EXTENDS OpenocdTcl, SequenceTheorems, FiniteSetTheorems, TLAPS

-----------------------------------------------------------------------------
(* Sequences on the wire.                                                  *)

(* A function on 1 .. n is a sequence.                                     *)
LEMMA SequenceOf ==
    ASSUME NEW S, NEW n \in Nat, NEW f \in [1 .. n -> S]
    PROVE  f \in Seq(S) /\ Len(f) = n
  <1>1. f \in Seq(S)
    BY SeqDef
  <1>2. QED BY <1>1, LenProperties

LEMMA CommandRecord ==
    ASSUME NEW c \in CommandType
    PROVE  LET d == [c EXCEPT !.mine = FALSE]
           IN  d \in CommandType /\ ~d.mine /\ d.dead = c.dead /\ d.c = c.c
  BY DEF CommandType

LEMMA TokenRecord ==
    ASSUME NEW t \in TokenType
    PROVE  LET d == [t EXCEPT !.mine = FALSE] IN d \in TokenType /\ ~d.mine /\ d.t = t.t
  BY DEF TokenType

LEMMA NotMineCommands ==
    ASSUME NEW q \in Seq(CommandType)
    PROVE  /\ NotMine(q) \in Seq(CommandType) /\ Len(NotMine(q)) = Len(q)
           /\ \A i \in 1 .. Len(q) :
                 /\ ~NotMine(q)[i].mine
                 /\ NotMine(q)[i].dead = q[i].dead /\ NotMine(q)[i].c = q[i].c
  <1> DEFINE d(i) == [q[i] EXCEPT !.mine = FALSE]
  <1>1. \A i \in 1 .. Len(q) : q[i] \in CommandType
    BY ElementOfSeq
  <1>2. \A i \in 1 .. Len(q) :
            d(i) \in CommandType /\ ~d(i).mine /\ d(i).dead = q[i].dead /\ d(i).c = q[i].c
    BY <1>1, CommandRecord
  <1>3. NotMine(q) = [i \in 1 .. Len(q) |-> d(i)]
    BY DEF NotMine
  <1> HIDE DEF d
  <1>4. NotMine(q) \in [1 .. Len(q) -> CommandType] /\ Len(q) \in Nat
    BY <1>2, <1>3, LenProperties
  <1>5. QED BY <1>2, <1>3, <1>4, SequenceOf

LEMMA NotMineTokens ==
    ASSUME NEW s \in Seq(TokenType)
    PROVE  /\ NotMine(s) \in Seq(TokenType) /\ Len(NotMine(s)) = Len(s)
           /\ \A i \in 1 .. Len(s) : NotMine(s)[i].t = s[i].t
  <1> DEFINE d(i) == [s[i] EXCEPT !.mine = FALSE]
  <1>1. \A i \in 1 .. Len(s) : s[i] \in TokenType
    BY ElementOfSeq
  <1>2. \A i \in 1 .. Len(s) : d(i) \in TokenType /\ d(i).t = s[i].t
    BY <1>1, TokenRecord
  <1>3. NotMine(s) = [i \in 1 .. Len(s) |-> d(i)]
    BY DEF NotMine
  <1> HIDE DEF d
  <1>4. NotMine(s) \in [1 .. Len(s) -> TokenType] /\ Len(s) \in Nat
    BY <1>2, <1>3, LenProperties
  <1>5. QED BY <1>2, <1>3, <1>4, SequenceOf

LEMMA DeadRecord ==
    ASSUME NEW c \in CommandType
    PROVE  LET d == [c EXCEPT !.mine = FALSE, !.dead = TRUE]
           IN  d \in CommandType /\ d.dead /\ ~d.mine
  BY DEF CommandType

LEMMA DeadCommands ==
    ASSUME NEW q \in Seq(CommandType)
    PROVE  /\ Dead(q) \in Seq(CommandType) /\ Len(Dead(q)) = Len(q)
           /\ AllDead(Dead(q))
  <1> DEFINE d(i) == [q[i] EXCEPT !.mine = FALSE, !.dead = TRUE]
  <1>1. \A i \in 1 .. Len(q) : q[i] \in CommandType
    BY ElementOfSeq
  <1>2. \A i \in 1 .. Len(q) : d(i) \in CommandType /\ d(i).dead /\ ~d(i).mine
    BY <1>1, DeadRecord
  <1>3. Dead(q) = [i \in 1 .. Len(q) |-> d(i)]
    BY DEF Dead
  <1> HIDE DEF d
  <1>4. Dead(q) \in [1 .. Len(q) -> CommandType] /\ Len(q) \in Nat
    BY <1>2, <1>3, LenProperties
  <1>5. QED BY <1>2, <1>3, <1>4, SequenceOf DEF AllDead

LEMMA EmptySequence ==
    ASSUME NEW S, NEW s \in Seq(S)
    PROVE  s = << >> <=> Len(s) = 0
  OBVIOUS

(* A recv() takes a prefix; nothing is lost or reordered.                  *)
LEMMA RecvSplits ==
    ASSUME NEW b \in Seq(TokenType), NEW s \in Seq(TokenType), NEW n \in 1 .. Len(s)
    PROVE  /\ b \o SubSeq(s, 1, n) \in Seq(TokenType)
           /\ SubSeq(s, n + 1, Len(s)) \in Seq(TokenType)
           /\ Len(b \o SubSeq(s, 1, n)) = Len(b) + n
           /\ Len(SubSeq(s, n + 1, Len(s))) = Len(s) - n
           /\ Len(b \o s) = Len(b) + Len(s)
           /\ (b \o SubSeq(s, 1, n)) \o SubSeq(s, n + 1, Len(s)) = b \o s
           /\ \A i \in 1 .. Len(b \o SubSeq(s, 1, n)) :
                 (b \o SubSeq(s, 1, n))[i] = (b \o s)[i]
  <1>1. ASSUME NEW p \in Seq(TokenType), NEW r \in Seq(TokenType), p \o r = s,
               Len(p) = n, Len(r) = Len(s) - n
        PROVE  /\ b \o p \in Seq(TokenType) /\ r \in Seq(TokenType)
               /\ Len(b \o p) = Len(b) + n /\ Len(r) = Len(s) - n
               /\ Len(b \o s) = Len(b) + Len(s)
               /\ (b \o p) \o r = b \o s
               /\ \A i \in 1 .. Len(b \o p) : (b \o p)[i] = (b \o s)[i]
    <2>1. /\ b \o p \in Seq(TokenType) /\ Len(b \o p) = Len(b) + Len(p)
          /\ Len(b \o (p \o r)) = Len(b) + (Len(p) + Len(r))
          /\ (b \o p) \o r = b \o (p \o r)
          /\ \A i \in 1 .. Len(b \o p) : (b \o p)[i] = (b \o (p \o r))[i]
      <3>1. (b \o p) \o r = b \o (p \o r)
        OBVIOUS
      <3>2. /\ b \o p \in Seq(TokenType) /\ Len(b \o p) = Len(b) + Len(p)
            /\ p \o r \in Seq(TokenType) /\ Len(p \o r) = Len(p) + Len(r)
        BY ConcatProperties
      <3>3. Len(b \o (p \o r)) = Len(b) + (Len(p) + Len(r))
        BY <3>2, ConcatProperties
      <3>4. \A i \in 1 .. Len(b \o p) : (b \o p)[i] = ((b \o p) \o r)[i]
        OBVIOUS
      <3>5. QED BY <3>1, <3>2, <3>3, <3>4, Zenon
    <2>2. Len(s) \in Nat /\ Len(b) \in Nat /\ n \in Nat
      BY LenProperties
    <2>3. Len(b) + (n + (Len(s) - n)) = Len(b) + Len(s)
      BY <2>2
    <2>4. QED BY <1>1, <2>1, <2>3, Zenon
  <1> DEFINE p == SubSeq(s, 1, n)
             ss == SubSeq(s, n + 1, Len(s))
  <1>2. p \in Seq(TokenType) /\ Len(p) = n
    OBVIOUS
  <1>3. ss \in Seq(TokenType) /\ Len(ss) = Len(s) - n
    OBVIOUS
  <1>4. p \o ss = s
    <2>1. 1 \in 1 .. Len(s) + 1 /\ n \in (1 - 1) .. Len(s) /\ Len(s) \in n .. Len(s)
      OBVIOUS
    <2>2. p \o ss = SubSeq(s, 1, Len(s))
      BY <2>1, ConcatAdjacentSubSeq, Zenon
    <2> HIDE DEF p, ss
    <2>3. QED BY <2>2, SubSeqFull
  <1> HIDE DEF p, ss
  <1>5. /\ b \o p \in Seq(TokenType) /\ ss \in Seq(TokenType)
        /\ Len(b \o p) = Len(b) + n /\ Len(ss) = Len(s) - n
        /\ Len(b \o s) = Len(b) + Len(s)
        /\ (b \o p) \o ss = b \o s
        /\ \A i \in 1 .. Len(b \o p) : (b \o p)[i] = (b \o s)[i]
    BY <1>1, <1>2, <1>3, <1>4, Zenon
  <1>6. QED BY <1>5, Zenon DEF p, ss

LEMMA HeadTail ==
    ASSUME NEW S, NEW q \in Seq(S), q # << >>
    PROVE  /\ Len(q) \in Nat \ {0} /\ Head(q) = q[1] /\ Head(q) \in S
           /\ Tail(q) \in Seq(S) /\ Len(Tail(q)) = Len(q) - 1
           /\ \A i \in 1 .. Len(q) - 1 : Tail(q)[i] = q[i + 1]
  BY HeadTailProperties, EmptySeq

-----------------------------------------------------------------------------
(* The client's actions come in five shapes.                               *)

(* The commands a call can begin with, and the ones that follow.           *)
Opening == {"resume", "mrw", "mww", "targets", "halt", "reset", "flash", "banks", "sectors"}
Following == {"targets", "get", "set", "sectors"}

Dials ==
    /\ sock = "closed" /\ ~gone /\ Start("connect", "main", "halt", 0)
    /\ sock' = "open" /\ late' = 0

Begins(c, v) ==
    \E name, ph :
        /\ Begin(name, ph, c, v)
        /\ name = "read" => c = "mrw" /\ ph = "main"

Continues(c) ==
    /\ Over /\ op # "read"
    /\ c \in {"get", "set"} => pc = "failed" \/ Mentions("halted")
    /\ \E ph : Continue(ph, c)

Returns == Over /\ Keep /\ \E r, v : Return(r, v)

HangsUp == Over /\ CloseSocket /\ \E r, v : Return(r, v)

LEMMA ClientShapes ==
    ASSUME ChannelInv, Client
    PROVE  \/ Dials
           \/ \E c \in Opening, v \in Nat : Begins(c, v)
           \/ \E c \in Following : Continues(c)
           \/ Returns
           \/ HangsUp
  <1> DEFINE Shape == \/ Dials
                      \/ \E c \in Opening, v \in Nat : Begins(c, v)
                      \/ \E c \in Following : Continues(c)
                      \/ Returns
                      \/ HangsUp
  <1> USE DEF Opening, Following
  <1>0. op = "read" => phase = "main"
    BY DEF ChannelInv
  <1>1. ASSUME openocd_impl_connect PROVE Shape
    BY <1>1 DEF openocd_impl_connect, Dials, Returns, HangsUp, Over
  <1>2. ASSUME openocd_impl_close PROVE Shape
    BY <1>2 DEF openocd_impl_close, Begins, HangsUp
  <1>3. ASSUME openocd_impl_read32 PROVE Shape
    BY <1>3 DEF openocd_impl_read32, Begins, Returns
  <1>4. ASSUME openocd_impl_write32 PROVE Shape
    BY <1>4, TclAssumption DEF openocd_impl_write32, Begins, Returns
  <1>5. ASSUME openocd_impl_board_run \/ openocd_impl_board_halted PROVE Shape
    BY <1>5 DEF openocd_impl_board_run, openocd_impl_board_halted, Begins, Returns
  <1>6. ASSUME NEW name \in {"read_reg", "write_reg"}, NEW c \in {"get", "set"},
               RegisterAccess(name, c)
        PROVE  \E d \in Following : Continues(d)
    <2>1. CASE op = name /\ phase = "pre" /\ Over /\ Continue("poll", "targets")
      BY <1>6, <2>1 DEF Continues
    <2>2. CASE op = name /\ phase = "poll" /\ Over /\ ~PollAgain /\ Continue("main", c)
      <3>1. pc = "failed" \/ Mentions("halted")
        BY <2>2 DEF PollAgain, Over
      <3>2. QED BY <1>6, <2>2, <3>1 DEF Continues
    <2>3. QED BY <1>6, <2>1, <2>2 DEF RegisterAccess
  <1>7. ASSUME openocd_impl_read_reg PROVE Shape
    BY <1>6, <1>7 DEF openocd_impl_read_reg, Begins, Returns
  <1>8. ASSUME openocd_impl_write_reg PROVE Shape
    BY <1>6, <1>8, TclAssumption DEF openocd_impl_write_reg, Begins, Returns
  <1>9. ASSUME openocd_impl_board_reset PROVE Shape
    BY <1>9 DEF openocd_impl_board_reset, Begins, Continues, Returns, Over
  <1>10. ASSUME block_until_halted PROVE Shape
    BY <1>0, <1>10 DEF block_until_halted, Continues
  <1>11. ASSUME openocd_impl_flash_erase PROVE Shape
    BY <1>11 DEF openocd_impl_flash_erase, Begins, Returns
  <1>12. ASSUME openocd_flash_bank PROVE Shape
    BY <1>12 DEF openocd_flash_bank, Begins, Continues, Returns, Over
  <1>13. ASSUME openocd_impl_flash_sector PROVE Shape
    BY <1>13 DEF openocd_impl_flash_sector, Begins, Returns
  <1>14. QED
    BY <1>1, <1>2, <1>3, <1>4, <1>5, <1>7, <1>8, <1>9, <1>10, <1>11, <1>12, <1>13 DEF Client

-----------------------------------------------------------------------------
(* Types.                                                                  *)

LEMMA SendType ==
    ASSUME TypeOK, NEW c \in Opening \cup Following, NEW v \in Nat, Send(c, v)
    PROVE  /\ queue' \in Seq(CommandType) /\ stream' \in Seq(TokenType)
           /\ buf' \in Seq(TokenType) /\ ran' \in BOOLEAN
           /\ pc' \in {"recv", "failed"}
  <1>1. Command(c, v) \in CommandType
    BY DEF Command, CommandType, Opening, Following, FlashCommands
  <1>2. NotMine(queue) \in Seq(CommandType) /\ NotMine(stream) \in Seq(TokenType)
    BY NotMineCommands, NotMineTokens DEF TypeOK
  <1>3. Append(NotMine(queue), Command(c, v)) \in Seq(CommandType)
    BY <1>1, <1>2, AppendProperties
  <1>4. queue' \in Seq(CommandType)
    BY <1>3 DEF Send, TypeOK
  <1>5. pc' \in {"recv", "failed"}
    BY DEF Send
  <1>6. QED BY <1>2, <1>4, <1>5, EmptySeq DEF Send

LEMMA ClientType ==
    ASSUME TypeOK, ChannelInv, Client
    PROVE  TypeOK'
  <1>1. CASE Dials
    <2>1. Send("halt", 0) /\ "halt" \in Opening \cup Following
      BY <1>1 DEF Dials, Start, Opening
    <2>2. QED BY <1>1, <2>1, SendType DEF Dials, Start, TypeOK, server
  <1>2. ASSUME NEW c \in Opening, NEW v \in Nat, Begins(c, v) PROVE TypeOK'
    <2>1. Send(c, v) /\ UNCHANGED <<server, gone, sock, late>> /\ arg' = v
      BY <1>2 DEF Begins, Begin, Start
    <2>2. QED BY <2>1, SendType DEF TypeOK, server
  <1>3. ASSUME NEW c \in Following, Continues(c) PROVE TypeOK'
    <2>1. Send(c, arg) /\ UNCHANGED <<server, gone, sock, late, arg>>
      BY <1>3 DEF Continues, Continue
    <2>2. QED BY <2>1, SendType DEF TypeOK, server
  <1>4. CASE Returns
    BY <1>4, EmptySeq DEF Returns, Return, Keep, TypeOK, server, wire, call
  <1>5. CASE HangsUp
    <2>1. Dead(queue) \in Seq(CommandType)
      BY DeadCommands DEF TypeOK
    <2>2. QED BY <1>5, <2>1, EmptySeq DEF HangsUp, CloseSocket, Return, TypeOK, server, call
  <1>6. QED BY <1>1, <1>2, <1>3, <1>4, <1>5, ClientShapes

LEMMA ReceiveType ==
    ASSUME TypeOK, Receive
    PROVE  TypeOK'
  <1>1. ASSUME NEW n \in 1 .. Len(stream), Recv(n) PROVE TypeOK'
    <2>1. buf' \in Seq(TokenType) /\ stream' \in Seq(TokenType)
      BY <1>1, RecvSplits DEF Recv, TypeOK
    <2>2. QED BY <1>1, <2>1 DEF Recv, TypeOK, server, call
  <1>2. CASE RecvFailed
    BY <1>2 DEF RecvFailed, TypeOK, server, wire, call
  <1>3. QED BY <1>1, <1>2 DEF Receive

(* What the server puts into the stream for a command.                     *)
Body(c, t, v) ==
    CASE t = "empty" -> << >>
      [] t = "table" -> Table(c.mine)
      [] OTHER -> <<Token(t, v, c.mine)>>

LEMMA TableTokens ==
    ASSUME NEW m \in BOOLEAN, tgt \in {"running", "halting", "halted"}, rows \in 1 .. TableLen
    PROVE  /\ Table(m) \in Seq(TokenType) /\ Len(Table(m)) = rows
           /\ \A i \in 1 .. rows :
                 /\ Table(m)[i].mine = m /\ Table(m)[i].t # "end"
                 /\ Table(m)[i].t = "halted" => tgt = "halted"
  <1> DEFINE w(i) == IF i < rows THEN "header"
                     ELSE IF tgt = "halted" THEN tgt ELSE "running"
             e(i) == Token(w(i), 0, m)
  <1>1. \A i \in 1 .. rows :
            /\ e(i) \in TokenType /\ e(i).mine = m /\ e(i).t # "end"
            /\ e(i).t = "halted" => tgt = "halted"
    BY DEF Token, TokenType
  <1>2. Table(m) = [i \in 1 .. rows |-> e(i)]
    BY DEF Table
  <1> HIDE DEF e
  <1>3. Table(m) \in [1 .. rows -> TokenType] /\ rows \in Nat
    BY <1>1, <1>2, TclAssumption
  <1>4. QED BY <1>1, <1>2, <1>3, SequenceOf

(* The body of a reply: as long as the table at most, without terminator,  *)
(* and "halted" is said of a halted core only.                             *)
IsBody(b, m, state) ==
    /\ b \in Seq(TokenType) /\ Len(b) <= TableLen
    /\ \A i \in 1 .. Len(b) :
          b[i].mine = m /\ b[i].t # "end" /\ (b[i].t = "halted" => state = "halted")

Texts == {"num", "reg", "error"} \cup FlashCommands

LEMMA OneToken ==
    ASSUME NEW t \in Texts, NEW v \in Nat, NEW m \in BOOLEAN
    PROVE  /\ IsBody(<<Token(t, v, m)>>, m, tgt) /\ Len(<<Token(t, v, m)>>) = 1
           /\ <<Token(t, v, m)>>[1].t = t /\ <<Token(t, v, m)>>[1].v = v
  <1>1. /\ Token(t, v, m) \in TokenType
        /\ Token(t, v, m).t = t /\ Token(t, v, m).v = v /\ Token(t, v, m).mine = m
    BY DEF Token, TokenType, Texts, FlashCommands
  <1> DEFINE e == Token(t, v, m)
  <1>2. e \in TokenType /\ e.t = t /\ e.v = v /\ e.mine = m
    BY <1>1
  <1> HIDE DEF e
  <1>3. <<e>> \in Seq(TokenType) /\ Len(<<e>>) = 1 /\ <<e>>[1] = e
    BY <1>2
  <1>4. t # "end" /\ t # "halted"
    BY DEF Texts, FlashCommands
  <1>5. IsBody(<<e>>, m, tgt)
    BY <1>2, <1>3, <1>4, TclAssumption DEF IsBody
  <1>6. QED BY <1>2, <1>3, <1>5 DEF e

LEMMA BodyShape ==
    ASSUME TypeOK, NEW c \in CommandType, NEW t \in Texts \cup {"empty", "table"}, NEW v \in Nat
    PROVE  /\ IsBody(Body(c, t, v), c.mine, tgt)
           /\ t \in Texts => /\ Len(Body(c, t, v)) = 1
                             /\ Body(c, t, v)[1].t = t /\ Body(c, t, v)[1].v = v
  <1>1. c.mine \in BOOLEAN
    BY DEF CommandType
  <1>2. CASE t = "empty"
    <2>1. Body(c, t, v) = << >>
      BY <1>2 DEF Body
    <2>2. IsBody(<< >>, c.mine, tgt)
      BY EmptySeq, TclAssumption DEF IsBody
    <2>3. QED BY <1>2, <2>1, <2>2 DEF Texts, FlashCommands
  <1>3. CASE t = "table"
    <2>1. Body(c, t, v) = Table(c.mine)
      BY <1>3 DEF Body
    <2>2. IsBody(Table(c.mine), c.mine, tgt)
      BY <1>1, TableTokens, TclAssumption DEF IsBody, TypeOK
    <2>3. QED BY <1>3, <2>1, <2>2 DEF Texts, FlashCommands
  <1>4. CASE t \in Texts
    <2>1. t # "empty" /\ t # "table"
      BY <1>4 DEF Texts, FlashCommands
    <2>2. Body(c, t, v) = <<Token(t, v, c.mine)>>
      BY <2>1 DEF Body
    <2>3. QED BY <1>1, <1>4, <2>2, OneToken
  <1>5. QED BY <1>2, <1>3, <1>4

(* One command of the server: what it does to the target, and its answer.  *)
LEMMA ExecuteShape ==
    ASSUME TypeOK, NEW c \in CommandType, Execute(c)
    PROVE  /\ mem' \in Nat /\ reg' \in Nat /\ tgt' \in {"running", "halting", "halted"}
           /\ rows' = rows
           /\ \E t \in Texts \cup {"empty", "table"}, v \in Nat :
                 /\ Answers(c, t, v)
                 /\ t = "table" => tgt' = tgt
                 /\ c.c = "mrw" => \/ t = "error"
                                   \/ t = "num" /\ v = mem /\ mem' = mem
  <1> USE DEF Texts, FlashCommands
  <1>0. c.v \in Nat
    BY DEF CommandType
  <1>1. /\ mem' \in Nat /\ reg' \in Nat /\ tgt' \in {"running", "halting", "halted"}
        /\ rows' = rows
    BY <1>0 DEF Execute, TypeOK, server, Halting
  <1>2. \E t \in Texts \cup {"empty", "table"}, v \in Nat :
            /\ Answers(c, t, v)
            /\ t = "table" => tgt' = tgt
            /\ c.c = "mrw" => \/ t = "error"
                              \/ t = "num" /\ v = mem /\ mem' = mem
    BY <1>0 DEF Execute, TypeOK, server
  <1>3. QED BY <1>1, <1>2

LEMMA EndToken ==
    ASSUME NEW m \in BOOLEAN
    PROVE  /\ Token("end", 0, m) \in TokenType
           /\ Token("end", 0, m).t = "end" /\ Token("end", 0, m).mine = m
  BY DEF Token, TokenType

LEMMA AnswerShape ==
    ASSUME NEW c, NEW t, NEW v, Answers(c, t, v)
    PROVE  stream' = IF c.dead THEN stream
                     ELSE (stream \o Body(c, t, v)) \o <<Token("end", 0, c.mine)>>
  BY DEF Answers, Body

LEMMA ServeType ==
    ASSUME TypeOK, Serve
    PROVE  TypeOK'
  <1>1. /\ Head(queue) \in CommandType /\ Tail(queue) \in Seq(CommandType)
    BY HeadTail DEF Serve, TypeOK
  <1>2. Execute(Head(queue))
    BY DEF Serve
  <1>3. PICK t \in Texts \cup {"empty", "table"}, v \in Nat : Answers(Head(queue), t, v)
    BY <1>1, <1>2, ExecuteShape
  <1>4. /\ mem' \in Nat /\ reg' \in Nat /\ tgt' \in {"running", "halting", "halted"}
        /\ rows' = rows
    BY <1>1, <1>2, ExecuteShape
  <1>5. Head(queue).mine \in BOOLEAN
    BY <1>1 DEF CommandType
  <1> DEFINE b == Body(Head(queue), t, v)
             e == Token("end", 0, Head(queue).mine)
  <1>6. b \in Seq(TokenType) /\ e \in TokenType
    BY <1>1, <1>3, <1>5, BodyShape, EndToken DEF IsBody
  <1>7. stream' = stream \/ stream' = (stream \o b) \o <<e>>
    BY <1>3, AnswerShape
  <1> HIDE DEF b, e
  <1>8. stream' \in Seq(TokenType)
    <2>1. stream \in Seq(TokenType)
      BY DEF TypeOK
    <2>2. stream \o b \in Seq(TokenType)
      BY <1>6, <2>1, ConcatProperties
    <2>3. (stream \o b) \o <<e>> \in Seq(TokenType)
      BY <1>6, <2>2
    <2>4. QED BY <1>7, <2>1, <2>3
  <1>9. ran' \in BOOLEAN
    BY <1>5 DEF Serve, TypeOK
  <1>10. QED BY <1>1, <1>4, <1>8, <1>9 DEF Serve, TypeOK, call

LEMMA TypeStep ==
    ASSUME TypeOK, ChannelInv, [Next]_vars
    PROVE  TypeOK'
  <1>1. CASE TargetHalts
    BY <1>1 DEF TargetHalts, TypeOK, wire, call
  <1>2. CASE TargetStores
    BY <1>2, TclAssumption DEF TargetStores, TypeOK, wire, call
  <1>3. CASE ServerExits
    BY <1>3, EmptySeq DEF ServerExits, TypeOK, server, call
  <1>4. CASE UNCHANGED vars
    BY <1>4 DEF vars, TypeOK, server, wire, call
  <1>5. QED BY <1>1, <1>2, <1>3, <1>4, ClientType, ReceiveType, ServeType DEF Next

-----------------------------------------------------------------------------
(* The channel stays in step.                                              *)

(* An exec sends its command into an empty channel, or into one in which   *)
(* only the commands of closed connections are left.                       *)
LEMMA SendAwaited ==
    ASSUME TypeOK, stream = << >>, AllDead(queue), gone => queue = << >>,
           NEW c \in Opening \cup Following, NEW v \in Nat, Send(c, v),
           c \in {"get", "set"} => gone \/ (queue = << >> /\ tgt = "halted"),
           NEW name, name = "read" => c = "mrw"
    PROVE  /\ stream' = << >> /\ buf' = << >> /\ ~ran'
           /\ gone => queue' = << >>
           /\ ~gone => pc' = "recv" /\ Awaited(queue', tgt, name)
  <1>1. stream' = << >>
    <2>1. NotMine(stream) \in Seq(TokenType) /\ Len(NotMine(stream)) = 0
      BY NotMineTokens, EmptySeq DEF TypeOK
    <2>2. QED BY <2>1, EmptySequence DEF Send
  <1>2. ASSUME ~gone PROVE pc' = "recv" /\ Awaited(queue', tgt, name)
    <2> DEFINE q == NotMine(queue)
               e == Command(c, v)
    <2>1. /\ q \in Seq(CommandType) /\ Len(q) = Len(queue)
          /\ \A i \in 1 .. Len(q) : q[i].dead /\ ~q[i].mine
      BY NotMineCommands DEF TypeOK, AllDead
    <2>2. e \in CommandType /\ e.c = c /\ e.mine /\ ~e.dead
      BY DEF Command, CommandType, Opening, Following, FlashCommands
    <2>3. queue' = Append(q, e) /\ pc' = "recv"
      BY <1>2 DEF Send
    <2>4. c \in {"get", "set"} => Len(q) = 0 /\ tgt = "halted"
      BY <1>2, <2>1, EmptySeq
    <2> HIDE DEF q, e
    <2>5. /\ queue' # << >> /\ Len(queue') = Len(q) + 1 /\ Len(q) \in Nat
          /\ \A i \in 1 .. Len(q) : queue'[i] = q[i]
          /\ queue'[Len(q) + 1] = e
      BY <2>1, <2>2, <2>3, AppendProperties, LenProperties
    <2>6. ASSUME NEW i \in 1 .. Len(queue')
          PROVE  /\ i < Len(queue') => queue'[i].dead /\ ~queue'[i].mine
                 /\ i = Len(queue') =>
                       /\ ~queue'[i].dead /\ queue'[i].mine
                       /\ queue'[i].c \in {"get", "set"} => i = 1 /\ tgt = "halted"
                       /\ name = "read" => queue'[i].c = "mrw"
      BY <2>1, <2>2, <2>4, <2>5, <2>6
    <2>7. QED BY <2>3, <2>5, <2>6 DEF Awaited
  <1>3. QED BY <1>1, <1>2 DEF Send

LEMMA ClientChannel ==
    ASSUME TypeOK, ChannelInv, Client
    PROVE  ChannelInv'
  <1>1. CASE Dials
    <2>1. /\ sock = "closed" /\ ~gone /\ Send("halt", 0) /\ op' = "connect"
          /\ UNCHANGED <<mem, tgt, gone>> /\ seen' = {mem} /\ sock' = "open"
      BY <1>1 DEF Dials, Start, server
    <2>2. stream = << >> /\ AllDead(queue)
      BY <2>1 DEF ChannelInv
    <2>3. "halt" \in Opening \cup Following /\ "connect" # "read"
      BY DEF Opening
    <2>4. /\ stream' = << >> /\ buf' = << >> /\ ~ran' /\ pc' = "recv"
          /\ Awaited(queue', tgt, "connect")
      BY <2>1, <2>2, <2>3, SendAwaited
    <2>5. InStep'
      BY <2>1, <2>4 DEF InStep
    <2>6. QED BY <2>1, <2>5 DEF ChannelInv
  <1>2. ASSUME NEW c \in Opening, NEW v \in Nat, Begins(c, v) PROVE ChannelInv'
    <2>1. /\ sock = "open" /\ pc = "idle" /\ Send(c, v)
          /\ op' = "read" => c = "mrw" /\ phase' = "main"
          /\ UNCHANGED <<mem, tgt, gone, sock, late>> /\ seen' = {mem}
      BY <1>2 DEF Begins, Begin, Start, server
    <2>2. gone' => queue' = << >>
      BY <2>1 DEF Send, ChannelInv
    <2>3. ASSUME late = 0 PROVE InStep'
      <3>1. stream = << >> /\ queue = << >>
        BY <2>1, <2>3 DEF ChannelInv, InStep
      <3>2. AllDead(queue)
        BY <3>1 DEF AllDead
      <3>3. c \notin {"get", "set"}
        BY DEF Opening
      <3>4. /\ stream' = << >> /\ buf' = << >> /\ ~ran' /\ (gone => queue' = << >>)
            /\ ~gone => pc' = "recv" /\ Awaited(queue', tgt, op')
        BY <2>1, <3>1, <3>2, <3>3, SendAwaited
      <3>5. pc' \in {"recv", "failed"}
        BY <2>1, SendType
      <3>6. QED BY <2>1, <3>4, <3>5 DEF InStep
    <2>4. QED BY <2>1, <2>2, <2>3 DEF ChannelInv
  <1>3. ASSUME NEW c \in Following, Continues(c) PROVE ChannelInv'
    <2>1. /\ Over /\ op # "read" /\ Send(c, arg)
          /\ c \in {"get", "set"} => pc = "failed" \/ Mentions("halted")
          /\ UNCHANGED <<mem, tgt, gone, sock, late, op, seen>>
      BY <1>3 DEF Continues, Continue, server
    <2>2. gone' => queue' = << >>
      BY <2>1 DEF Send, ChannelInv
    <2>3. sock # "closed"
      BY <2>1 DEF ChannelInv, Over
    <2>4. ASSUME late = 0 PROVE InStep'
      <3>0. InStep
        BY <2>3, <2>4 DEF ChannelInv, TypeOK
      <3>1. stream = << >> /\ queue = << >>
        BY <2>1, <3>0 DEF InStep, Over
      <3>2. AllDead(queue)
        BY <3>1 DEF AllDead
      <3>3. c \in {"get", "set"} => gone \/ tgt = "halted"
        <4>1. CASE pc = "failed"
          BY <4>1, <3>0 DEF InStep
        <4>2. CASE pc = "done" /\ Mentions("halted")
          BY <4>2, <3>0 DEF InStep, Reply, Mentions
        <4>3. QED BY <2>1, <4>1, <4>2 DEF Over
      <3>4. arg \in Nat
        BY DEF TypeOK
      <3>5. /\ stream' = << >> /\ buf' = << >> /\ ~ran' /\ (gone => queue' = << >>)
            /\ ~gone => pc' = "recv" /\ Awaited(queue', tgt, op)
        BY <2>1, <3>1, <3>2, <3>3, <3>4, SendAwaited
      <3>6. pc' \in {"recv", "failed"}
        BY <2>1, <3>4, SendType
      <3>7. QED BY <2>1, <3>5, <3>6 DEF InStep
    <2>5. mem' \in seen' /\ op' # "read"
      BY <2>1 DEF ChannelInv
    <2>6. QED BY <2>1, <2>2, <2>3, <2>4, <2>5 DEF ChannelInv
  <1>4. CASE Returns
    <2>1. /\ Over /\ pc' = "idle" /\ UNCHANGED <<queue, stream, mem, gone, sock, late, op, phase, seen>>
      BY <1>4 DEF Returns, Return, Keep, server, wire, call
    <2>2. sock # "closed"
      BY <2>1 DEF ChannelInv, Over
    <2>3. late = 0 => InStep'
      BY <2>1, <2>2 DEF ChannelInv, InStep, TypeOK, Over
    <2>4. QED BY <2>1, <2>2, <2>3 DEF ChannelInv
  <1>5. CASE HangsUp
    <2>1. /\ pc' = "idle" /\ sock' = "closed" /\ queue' = Dead(queue) /\ stream' = << >>
          /\ UNCHANGED <<mem, gone, op, phase, seen>>
      BY <1>5 DEF HangsUp, CloseSocket, Return, server, call
    <2>2. AllDead(Dead(queue)) /\ Dead(queue) \in Seq(CommandType) /\ Len(Dead(queue)) = Len(queue)
      BY DeadCommands DEF TypeOK
    <2>3. gone => Dead(queue) = << >>
      BY <2>2, EmptySequence, EmptySeq DEF ChannelInv
    <2>4. QED BY <2>1, <2>2, <2>3 DEF ChannelInv
  <1>6. QED BY <1>1, <1>2, <1>3, <1>4, <1>5, ClientShapes

(* A "targets" reply fits temp_buf with its terminator: 1023 bytes         *)
(* (hw_openocd.c:120-122).                                                 *)
TableFits == TableLen < Cap

(* The prefix of a reply that has its terminator is the reply, and a reply *)
(* does not fill the buffer before its terminator is in it.                *)
LEMMA ReplyComplete ==
    ASSUME TableFits, NEW S, NEW b \in Seq(S), NEW s \in Seq(S), NEW r \in Seq(S), b \o s = r,
           \A i \in 1 .. Len(b) : b[i] = r[i],
           NEW state, NEW name, NEW values, Reply(r, state, name, values),
           HasEnd(b) \/ Len(b) = Cap
    PROVE  s = << >> /\ b = r
  <1>1. Len(b) \in Nat /\ Len(s) \in Nat /\ Len(r) = Len(b) + Len(s)
    BY ConcatProperties, LenProperties
  <1>2. Len(r) <= Cap /\ Cap \in Nat
    BY <1>1, TclAssumption DEF Reply, TableFits
  <1>3. Len(b) = Len(r)
    <2>1. CASE HasEnd(b)
      <3>1. PICK i \in 1 .. Len(b) : b[i].t = "end"
        BY <2>1 DEF HasEnd, IsEnd
      <3>2. i \in 1 .. Len(r) /\ r[i].t = "end"
        BY <1>1, <3>1
      <3>3. i = Len(r)
        BY <3>2 DEF Reply, IsEnd
      <3>4. QED BY <1>1, <3>1, <3>3
    <2>2. CASE Len(b) = Cap
      BY <1>1, <1>2, <2>2
    <2>3. QED BY <2>1, <2>2
  <1>4. s = << >>
    BY <1>1, <1>3, EmptySequence
  <1>5. b = r
    BY <1>3, SeqEqual
  <1>6. QED BY <1>4, <1>5

LEMMA RecvChannel ==
    ASSUME TableFits, TypeOK, ChannelInv, NEW n \in 1 .. Len(stream), Recv(n)
    PROVE  ChannelInv'
  <1>1. /\ pc = "recv" /\ pc' = (IF Complete(buf') THEN "done" ELSE "recv")
        /\ UNCHANGED <<mem, tgt, queue, ran, gone, sock, op, phase, late, seen>>
    BY DEF Recv, server, call
  <1>2. /\ buf \in Seq(TokenType) /\ stream \in Seq(TokenType)
        /\ buf' = buf \o SubSeq(stream, 1, n) /\ stream' = SubSeq(stream, n + 1, Len(stream))
    BY DEF Recv, TypeOK
  <1>3. /\ buf' \in Seq(TokenType) /\ stream' \in Seq(TokenType)
        /\ buf' \o stream' = buf \o stream
        /\ \A i \in 1 .. Len(buf') : buf'[i] = (buf \o stream)[i]
    <2> DEFINE bb == buf \o SubSeq(stream, 1, n)
               ss == SubSeq(stream, n + 1, Len(stream))
    <2>1. /\ bb \in Seq(TokenType) /\ ss \in Seq(TokenType)
          /\ bb \o ss = buf \o stream
          /\ \A i \in 1 .. Len(bb) : bb[i] = (buf \o stream)[i]
      BY <1>2, RecvSplits, Zenon
    <2>2. buf' = bb /\ stream' = ss
      BY <1>2, Zenon
    <2> HIDE DEF bb, ss
    <2>3. QED BY <2>1, <2>2, Zenon
  <1>4. sock # "closed"
    BY <1>1 DEF ChannelInv
  <1>5. ASSUME late = 0 PROVE InStep'
    <2>1. stream # << >>
      BY <1>2, EmptySeq
    <2>2. /\ ran /\ queue = << >> /\ ~HasEnd(buf) /\ Reply(buf \o stream, tgt, op, seen)
      BY <1>1, <1>4, <1>5, <2>1 DEF ChannelInv, InStep, TypeOK
    <2>3. CASE HasEnd(buf') \/ Len(buf') = Cap
      <3>1. buf \o stream \in Seq(TokenType)
        BY <1>2, ConcatProperties
      <3>2. stream' = << >> /\ buf' = buf \o stream
        BY <1>3, <2>2, <2>3, <3>1, ReplyComplete
      <3>3. HasEnd(buf')
        <4>1. Reply(buf', tgt, op, seen)
          BY <2>2, <3>2
        <4>2. Len(buf') \in 1 .. Len(buf') /\ IsEnd(buf', Len(buf'))
          BY <4>1 DEF Reply
        <4>3. QED BY <4>2 DEF HasEnd
      <3>4. pc' = "done"
        BY <1>1, <3>3 DEF Complete
      <3>5. QED BY <1>1, <2>2, <3>2, <3>4 DEF InStep
    <2>4. CASE ~HasEnd(buf') /\ Len(buf') # Cap
      <3>1. pc' = "recv"
        BY <1>1, <2>4 DEF Complete
      <3>2. Reply((buf \o stream)', tgt', op', seen')
        BY <1>1, <1>3, <2>2
      <3>3. HasEnd(buf)' <=> HasEnd(buf')
        BY DEF HasEnd, IsEnd
      <3>4. QED BY <1>1, <2>2, <2>4, <3>1, <3>2, <3>3 DEF InStep
    <2>5. QED BY <2>3, <2>4
  <1>6. QED BY <1>1, <1>4, <1>5 DEF ChannelInv

LEMMA RecvFailedChannel ==
    ASSUME TypeOK, ChannelInv, RecvFailed
    PROVE  ChannelInv'
  <1>1. /\ pc = "recv" /\ pc' = "failed"
        /\ UNCHANGED <<mem, queue, stream, gone, sock, op, phase, seen, buf>>
        /\ late' = late + 1 \/ (gone /\ stream = << >> /\ late' = late)
    BY DEF RecvFailed, server, wire, call
  <1>2. sock # "closed"
    BY <1>1 DEF ChannelInv
  <1>3. ASSUME late' = 0 PROVE InStep'
    <2>1. gone /\ stream = << >>
      BY <1>1, <1>3 DEF TypeOK
    <2>2. QED BY <1>1, <2>1 DEF InStep, ChannelInv
  <1>4. QED BY <1>1, <1>2, <1>3 DEF ChannelInv

(* Behind a command of a closed connection, the command stays awaited.     *)
LEMMA AwaitedTail ==
    ASSUME NEW q \in Seq(CommandType), NEW state, NEW name, Awaited(q, state, name),
           Len(q) > 1
    PROVE  /\ Head(q).dead /\ ~Head(q).mine
           /\ \A other : Awaited(Tail(q), other, name)
  <1>1. /\ q # << >> /\ Len(q) \in Nat
    BY EmptySeq, LenProperties DEF Awaited
  <1>2. /\ Head(q) = q[1]
        /\ Tail(q) \in Seq(CommandType) /\ Len(Tail(q)) = Len(q) - 1
        /\ \A i \in 1 .. Len(q) - 1 : Tail(q)[i] = q[i + 1]
    BY <1>1, HeadTail
  <1>3. Head(q).dead /\ ~Head(q).mine
    <2>1. 1 \in 1 .. Len(q) /\ 1 < Len(q)
      BY <1>1
    <2>2. q[1].dead /\ ~q[1].mine
      BY <2>1 DEF Awaited
    <2>3. QED BY <1>2, <2>2
  <1>4. Tail(q) # << >>
    <2>1. Len(Tail(q)) # 0
      <3>1. ASSUME NEW m \in Nat, NEW n, m > 1, n = m - 1 PROVE n # 0
        BY <3>1
      <3>2. QED BY <1>1, <1>2, <3>1, Zenon
    <2>2. QED BY <2>1, EmptySeq
  <1>5. ASSUME NEW other, NEW i \in 1 .. Len(Tail(q))
        PROVE  /\ i < Len(Tail(q)) => Tail(q)[i].dead /\ ~Tail(q)[i].mine
               /\ i = Len(Tail(q)) =>
                     /\ ~Tail(q)[i].dead /\ Tail(q)[i].mine
                     /\ Tail(q)[i].c \in {"get", "set"} => i = 1 /\ other = "halted"
                     /\ name = "read" => Tail(q)[i].c = "mrw"
    <2>1. /\ i + 1 \in 1 .. Len(q) /\ Tail(q)[i] = q[i + 1] /\ i + 1 # 1
          /\ i < Len(Tail(q)) <=> i + 1 < Len(q)
          /\ i = Len(Tail(q)) <=> i + 1 = Len(q)
      BY <1>1, <1>2
    <2>2. QED BY <2>1 DEF Awaited
  <1>6. QED BY <1>3, <1>4, <1>5 DEF Awaited

(* The reply to our command is whole.                                      *)
LEMMA ReplyWhole ==
    ASSUME NEW b, NEW state, IsBody(b, TRUE, state), NEW name, NEW values,
           name = "read" =>
               Len(b) = 1 /\ (b[1].t = "error" \/ (b[1].t = "num" /\ b[1].v \in values))
    PROVE  Reply(b \o <<Token("end", 0, TRUE)>>, state, name, values)
  <1> DEFINE e == Token("end", 0, TRUE)
             r == b \o <<e>>
  <1>1. e \in TokenType /\ e.t = "end" /\ e.mine
    BY EndToken
  <1> HIDE DEF e
  <1>2. b \in Seq(TokenType) /\ Len(b) \in 0 .. TableLen
    BY LenProperties, TclAssumption DEF IsBody
  <1>3. /\ Len(r) = Len(b) + 1 /\ r[Len(b) + 1] = e
        /\ \A i \in 1 .. Len(b) : r[i] = b[i]
    BY <1>1, <1>2
  <1> HIDE DEF r
  <1>4. Len(r) \in 1 .. (TableLen + 1)
    BY <1>2, <1>3, TclAssumption
  <1>5. ASSUME NEW i \in 1 .. Len(r)
        PROVE  r[i].mine /\ (IsEnd(r, i) <=> i = Len(r)) /\ (r[i].t = "halted" => state = "halted")
    <2>1. CASE i = Len(r)
      BY <1>1, <1>3, <2>1 DEF IsEnd
    <2>2. CASE i # Len(r)
      <3>1. i \in 1 .. Len(b) /\ r[i] = b[i]
        BY <1>2, <1>3, <2>2
      <3>2. QED BY <2>2, <3>1 DEF IsBody, IsEnd
    <2>3. QED BY <2>1, <2>2
  <1>6. name = "read" => Len(r) = 2 /\ (r[1].t = "error" \/ (r[1].t = "num" /\ r[1].v \in values))
    <2>1. ASSUME name = "read" PROVE Len(r) = 2 /\ r[1] = b[1]
      <3>1. Len(b) = 1
        BY <2>1
      <3>2. 1 \in 1 .. Len(b)
        BY <3>1
      <3>3. Len(r) = 1 + 1
        BY <1>3, <3>1, Zenon
      <3>4. r[1] = b[1]
        BY <1>3, <3>2, Zenon
      <3>5. Len(r) = 2
        <4>1. 1 + 1 = 2
          OBVIOUS
        <4>2. QED BY <3>3, <4>1, Zenon
      <3>6. QED BY <3>4, <3>5, Zenon
    <2>2. QED BY <2>1
  <1>7. Reply(r, state, name, values)
    BY <1>4, <1>5, <1>6 DEF Reply
  <1>8. QED BY <1>7 DEF r, e

LEMMA AllDeadTail ==
    ASSUME NEW q \in Seq(CommandType), q # << >>, AllDead(q)
    PROVE  Head(q).dead /\ ~Head(q).mine /\ AllDead(Tail(q))
  <1>1. /\ Len(q) \in Nat \ {0} /\ Head(q) = q[1]
        /\ Len(Tail(q)) = Len(q) - 1
        /\ \A i \in 1 .. Len(q) - 1 : Tail(q)[i] = q[i + 1]
    BY HeadTail
  <1>2. QED BY <1>1 DEF AllDead

(* What the core does later keeps a command awaited and a reply true: a    *)
(* core that halted stays so while the server has nothing to execute.      *)
LEMMA AwaitedLater ==
    ASSUME NEW q, NEW state, NEW other, NEW name, Awaited(q, state, name),
           state = "halted" => other = "halted"
    PROVE  Awaited(q, other, name)
  BY DEF Awaited

LEMMA ReplyLater ==
    ASSUME NEW s, NEW state, NEW other, NEW name, NEW values, NEW more,
           Reply(s, state, name, values), state = "halted" => other = "halted",
           values \subseteq more
    PROVE  Reply(s, other, name, more)
  BY DEF Reply

(* The server answers the command of the running exec, the only one in the *)
(* queue.                                                                  *)
LEMMA ServeOwn ==
    ASSUME TypeOK, ChannelInv, NEW c \in CommandType, Execute(c), c.mine = TRUE, c.dead = FALSE,
           stream = << >>, op = "read" => c.c = "mrw", seen' = seen \cup {mem'}
    PROVE  Reply(stream', tgt', op, seen')
  <1>1. PICK t \in Texts \cup {"empty", "table"}, v \in Nat :
            /\ Answers(c, t, v)
            /\ t = "table" => tgt' = tgt
            /\ c.c = "mrw" => \/ t = "error"
                              \/ t = "num" /\ v = mem /\ mem' = mem
    BY ExecuteShape
  <1> DEFINE b == Body(c, t, v)
  <1>2. /\ IsBody(b, TRUE, tgt)
        /\ t \in Texts => Len(b) = 1 /\ b[1].t = t /\ b[1].v = v
    <2>1. /\ IsBody(b, c.mine, tgt)
          /\ t \in Texts => Len(b) = 1 /\ b[1].t = t /\ b[1].v = v
      BY <1>1, BodyShape
    <2> HIDE DEF b
    <2>2. QED BY <2>1, Zenon
  <1>3. stream' = (<< >> \o b) \o <<Token("end", 0, TRUE)>>
    BY <1>1, AnswerShape
  <1>4. << >> \o b = b
    BY <1>2, ConcatEmptySeq DEF IsBody
  <1>5. t = "empty" => b = << >>
    BY DEF Body
  <1> HIDE DEF b
  <1>6. IsBody(b, TRUE, tgt')
    <2>1. CASE t = "table"
      BY <1>1, <1>2, <2>1
    <2>2. CASE t = "empty"
      BY <1>2, <1>5, <2>2, EmptySeq DEF IsBody
    <2>3. CASE t \in Texts
      <3>1. Len(b) = 1 /\ b[1].t # "halted"
        BY <1>2, <2>3 DEF Texts, FlashCommands
      <3>2. \A i \in 1 .. Len(b) : i = 1
        BY <3>1
      <3>3. QED BY <1>2, <3>1, <3>2 DEF IsBody
    <2>4. QED BY <1>1, <2>1, <2>2, <2>3
  <1>7. op = "read" =>
            Len(b) = 1 /\ (b[1].t = "error" \/ (b[1].t = "num" /\ b[1].v \in seen'))
    BY <1>1, <1>2 DEF Texts
  <1>8. QED
    <2>1. Reply(b \o <<Token("end", 0, TRUE)>>, tgt', op, seen')
      BY <1>6, <1>7, ReplyWhole
    <2>2. QED BY <1>3, <1>4, <2>1, Zenon

LEMMA ServeChannel ==
    ASSUME TypeOK, ChannelInv, Serve
    PROVE  ChannelInv'
  <1> DEFINE c == Head(queue)
  <1>1. /\ queue \in Seq(CommandType) /\ queue # << >> /\ ~gone
        /\ Execute(c) /\ queue' = Tail(queue) /\ ran' = (ran \/ c.mine)
        /\ seen' = seen \cup {mem'}
        /\ UNCHANGED <<gone, sock, pc, op, phase, buf, late>>
    BY DEF Serve, TypeOK, call
  <1>2. c \in CommandType /\ c.mine \in BOOLEAN /\ c.dead \in BOOLEAN
    BY <1>1, HeadTail DEF CommandType
  <1>3. c.dead => stream' = stream
    <2>1. PICK t \in Texts \cup {"empty", "table"}, v \in Nat : Answers(c, t, v)
      BY <1>1, <1>2, ExecuteShape
    <2>2. QED BY <2>1, AnswerShape
  <1> HIDE DEF c
  <1>4. ASSUME sock = "closed" PROVE stream' = << >> /\ AllDead(queue')
    <2>1. c.dead /\ AllDead(Tail(queue))
      BY <1>1, <1>4, AllDeadTail DEF ChannelInv, c
    <2>2. QED BY <1>1, <1>3, <1>4, <2>1 DEF ChannelInv
  <1>5. ASSUME late = 0, sock = "open" PROVE InStep'
    <2>1. /\ pc = "recv" /\ ~ran /\ stream = << >> /\ buf = << >>
          /\ Awaited(queue, tgt, op)
      BY <1>1, <1>5 DEF ChannelInv, InStep
    <2>2. Len(queue) \in Nat \ {0}
      BY <1>1, EmptySeq
    <2>3. CASE Len(queue) > 1
      <3>1. c.dead /\ ~c.mine /\ Awaited(Tail(queue), tgt', op)
        BY <1>1, <2>1, <2>3, AwaitedTail DEF c
      <3>2. QED BY <1>1, <1>3, <2>1, <3>1 DEF InStep
    <2>4. CASE Len(queue) = 1
      <3>1. c = queue[1] /\ Tail(queue) = << >>
        BY <1>1, <2>4, HeadTail, EmptySequence DEF c
      <3>2. ~c.dead /\ c.mine /\ (op = "read" => c.c = "mrw")
        BY <2>1, <2>4, <3>1 DEF Awaited
      <3>3. Reply(stream', tgt', op, seen')
        BY <1>1, <1>2, <2>1, <3>2, ServeOwn
      <3>4. stream' \in Seq(TokenType)
        BY ServeType DEF TypeOK
      <3>5. buf' \o stream' = stream'
        BY <1>1, <2>1, <3>4, ConcatEmptySeq
      <3>6. Reply((buf \o stream)', tgt', op', seen')
        BY <1>1, <3>3, <3>5, Zenon
      <3>7. ~HasEnd(buf)'
        BY <1>1, <2>1 DEF HasEnd
      <3>8. ran' /\ queue' = << >> /\ pc' = "recv"
        BY <1>1, <2>1, <3>1, <3>2
      <3>9. QED BY <3>6, <3>7, <3>8 DEF InStep
    <2>5. QED BY <2>2, <2>3, <2>4
  <1>6. mem' \in seen' /\ (op' = "read" => phase' = "main") /\ ~gone'
    BY <1>1 DEF ChannelInv
  <1>7. QED BY <1>1, <1>4, <1>5, <1>6 DEF ChannelInv

(* Steps that only move the target.                                        *)
LEMMA TargetChannel ==
    ASSUME ChannelInv, tgt = "halted" => tgt' = "halted", seen \subseteq seen', mem' \in seen',
           UNCHANGED <<wire, gone, sock, pc, call, buf, late>>
    PROVE  ChannelInv'
  <1>1. UNCHANGED <<queue, stream, ran, gone, sock, pc, op, phase, buf, late>>
    BY DEF wire, call
  <1>2. ASSUME InStep PROVE InStep'
    <2>1. pc = "done" => Reply(buf', tgt', op', seen')
      BY <1>1, <1>2, ReplyLater DEF InStep
    <2>2. Reply(buf \o stream, tgt, op, seen) => Reply((buf \o stream)', tgt', op', seen')
      BY <1>1, ReplyLater
    <2>3. Awaited(queue, tgt, op) => Awaited(queue', tgt', op')
      BY <1>1, AwaitedLater
    <2>4. HasEnd(buf)' <=> HasEnd(buf)
      BY <1>1 DEF HasEnd, IsEnd
    <2>5. QED BY <1>1, <1>2, <2>1, <2>2, <2>3, <2>4 DEF InStep
  <1>3. QED BY <1>1, <1>2 DEF ChannelInv

LEMMA ChannelStep ==
    ASSUME TableFits, TypeOK, ChannelInv, [Next]_vars
    PROVE  ChannelInv'
  <1>1. CASE Receive
    BY <1>1, RecvChannel, RecvFailedChannel DEF Receive
  <1>2. CASE TargetHalts
    BY <1>2, TargetChannel DEF TargetHalts, ChannelInv
  <1>3. CASE TargetStores
    BY <1>3, TargetChannel DEF TargetStores, ChannelInv
  <1>4. CASE ServerExits
    <2>1. /\ gone' = TRUE /\ queue' = << >>
          /\ UNCHANGED <<mem, tgt, stream, ran, sock, pc, op, phase, buf, late, seen>>
      BY <1>4 DEF ServerExits, server, call
    <2>2. AllDead(queue')
      BY <2>1 DEF AllDead
    <2>3. ASSUME InStep PROVE InStep'
      <3>1. Reply(buf, tgt, op, seen) <=> Reply(buf, tgt, op, seen)'
        BY <2>1 DEF Reply, IsEnd
      <3>2. Reply(buf \o stream, tgt, op, seen) <=> Reply(buf \o stream, tgt, op, seen)'
        BY <2>1 DEF Reply, IsEnd
      <3>3. HasEnd(buf)' <=> HasEnd(buf)
        BY <2>1 DEF HasEnd, IsEnd
      <3>4. QED BY <2>1, <2>3, <3>1, <3>2, <3>3 DEF InStep
    <2>4. QED BY <2>1, <2>2, <2>3 DEF ChannelInv
  <1>5. CASE UNCHANGED vars
    BY <1>5, TargetChannel DEF vars, server, ChannelInv
  <1>6. QED BY <1>1, <1>2, <1>3, <1>4, <1>5, ClientChannel, ServeChannel DEF Next

LEMMA ChannelStart ==
    ASSUME Init
    PROVE  TypeOK /\ ChannelInv
  <1>1. TypeOK
    BY TclAssumption, EmptySeq DEF Init, TypeOK
  <1>2. ChannelInv
    BY DEF Init, ChannelInv, AllDead
  <1>3. QED BY <1>1, <1>2

LEMMA ChannelInvariant ==
    ASSUME TableFits
    PROVE  Spec => [](TypeOK /\ ChannelInv)
  <1>1. TableFits /\ TypeOK /\ ChannelInv /\ [Next]_vars => TypeOK' /\ ChannelInv'
    BY TypeStep, ChannelStep
  <1>2. QED BY <1>1, ChannelStart, PTL DEF Spec

-----------------------------------------------------------------------------
(* The properties.                                                         *)

(* On a connection without a timeout, every openocd_tcl_exec that returns  *)
(* 0 (hw_openocd.c:109-148) had its command executed and hands out the     *)
(* whole reply to it and nothing else.                                     *)
THEOREM ChannelInStep ==
    ASSUME TableFits
    PROVE  Spec => []InStepUnlessLate
  <1>1. TypeOK /\ ChannelInv => InStepUnlessLate
    <2> SUFFICES ASSUME TypeOK, ChannelInv, late = 0, pc = "done" PROVE ExecReadsItsOwnReply
      BY DEF InStepUnlessLate, ExecReadsItsOwnReply
    <2>1. ran /\ Reply(buf, tgt, op, seen)
      BY DEF ChannelInv, InStep, TypeOK
    <2>2. Len(buf) \in 1 .. Len(buf) /\ IsEnd(buf, Len(buf))
      BY <2>1 DEF Reply
    <2>3. QED BY <2>1, <2>2 DEF Reply, HasEnd, ExecReadsItsOwnReply
  <1>2. QED BY <1>1, ChannelInvariant, PTL

(* On such a connection openocd_impl_read32 (hw_openocd.c:228-245) returns *)
(* a word that memory held during the call, or the 0 of an error text.     *)
THEOREM ReadsReturnMemory ==
    ASSUME TableFits
    PROVE  Spec => ReadReturnsMemory
  <1>1. ASSUME TypeOK, ChannelInv, [Next]_vars, op = "read", pc # "idle", pc' = "idle",
               rc' = 0, late = 0
        PROVE  val' \in seen \/ (val' = 0 /\ openocd_reply_failed)
    <2>1. Client
      BY <1>1 DEF Next, Receive, Recv, RecvFailed, Serve, TargetHalts, TargetStores,
                  ServerExits, vars
    <2>2. pc = "done" /\ val' = Number
      <3>0. phase = "main"
        BY <1>1 DEF ChannelInv
      <3>1. ~openocd_impl_connect /\ ~openocd_impl_close
        BY <1>1 DEF openocd_impl_connect, openocd_impl_close, Begin, Start
      <3>2. ~openocd_impl_write32 /\ ~openocd_impl_board_run /\ ~openocd_impl_board_halted
        BY <1>1 DEF openocd_impl_write32, openocd_impl_board_run, openocd_impl_board_halted,
                    Begin, Start
      <3>3. ~openocd_impl_read_reg /\ ~openocd_impl_write_reg
        BY <1>1 DEF openocd_impl_read_reg, openocd_impl_write_reg, RegisterAccess, Begin, Start
      <3>4. ~openocd_impl_board_reset /\ ~block_until_halted /\ ~openocd_impl_flash_erase
        BY <1>1, <3>0 DEF openocd_impl_board_reset, block_until_halted,
                          openocd_impl_flash_erase, Begin, Start
      <3>5. ~openocd_flash_bank /\ ~openocd_impl_flash_sector
        BY <1>1 DEF openocd_flash_bank, openocd_impl_flash_sector, Begin, Start
      <3>6. openocd_impl_read32
        BY <2>1, <3>1, <3>2, <3>3, <3>4, <3>5 DEF Client
      <3>7. QED BY <1>1, <3>6 DEF openocd_impl_read32, Begin, Start, Return, Over
    <2>3. Reply(buf, tgt, op, seen)
      BY <1>1, <2>2 DEF ChannelInv, InStep, TypeOK
    <2>4. /\ Len(buf) = 2 /\ ~IsEnd(buf, 1)
          /\ buf[1].t = "error" \/ (buf[1].t = "num" /\ buf[1].v \in seen)
      BY <1>1, <2>3 DEF Reply
    <2>5. Within(1)
      BY <2>4, TclAssumption DEF Within
    <2>6. QED BY <2>2, <2>4, <2>5 DEF Number, openocd_reply_failed, Mentions
  <1>2. QED BY <1>1, ChannelInvariant, PTL DEF Spec, ReadReturnsMemory

(* On such a connection read_reg and write_reg reach the server when the   *)
(* core is halted, also when it refused the halt.                          *)
THEOREM RegistersOfHaltedCore ==
    ASSUME TableFits
    PROVE  Spec => RegisterAccessHalted
  <1>1. ASSUME TypeOK, ChannelInv, Serve, late = 0, Head(queue).c \in {"get", "set"},
               ~Head(queue).dead
        PROVE  tgt = "halted"
    <2>1. /\ queue \in Seq(CommandType) /\ queue # << >> /\ ~gone
      BY <1>1 DEF Serve, TypeOK
    <2>2. Len(queue) \in Nat \ {0} /\ Head(queue) = queue[1]
      BY <2>1, HeadTail
    <2>3. 1 \in 1 .. Len(queue)
      BY <2>2
    <2>4. sock # "closed"
      BY <1>1, <2>2, <2>3 DEF ChannelInv, AllDead
    <2>5. Awaited(queue, tgt, op)
      BY <1>1, <2>1, <2>4 DEF ChannelInv, InStep, TypeOK
    <2>6. 1 = Len(queue)
      <3>1. ~(1 < Len(queue))
        <4>1. 1 < Len(queue) => queue[1].dead
          BY <2>3, <2>5 DEF Awaited
        <4>2. QED BY <1>1, <2>2, <4>1, Zenon
      <3>2. ASSUME NEW n \in Nat \ {0}, ~(1 < n) PROVE 1 = n
        BY <3>2
      <3>3. QED BY <2>2, <3>1, <3>2, Zenon
    <2>7. QED BY <1>1, <2>2, <2>3, <2>5, <2>6 DEF Awaited
  <1>2. QED BY <1>1, ChannelInvariant, PTL DEF Spec, RegisterAccessHalted

-----------------------------------------------------------------------------
(* What the channel owes: positions of terminators and of live commands.   *)

Ends(s) == {i \in 1 .. Len(s) : IsEnd(s, i)}
Live(q) == {i \in 1 .. Len(q) : ~q[i].dead}

LEMMA PositionsFinite ==
    ASSUME NEW n \in Nat, NEW T \in SUBSET (1 .. n)
    PROVE  IsFiniteSet(T) /\ Cardinality(T) \in Nat
  <1>1. IsFiniteSet(1 .. n)
    BY FS_Interval
  <1>2. IsFiniteSet(T)
    BY <1>1, FS_Subset
  <1>3. QED BY <1>2, FS_CardinalityType

(* A sequence that is shorter by its first k elements has no more of them. *)
LEMMA ShiftCounts ==
    ASSUME NEW n \in Nat, NEW T \in SUBSET (1 .. n), NEW k \in Nat,
           NEW S \in SUBSET Nat, \A i \in S : i + k \in T
    PROVE  Cardinality(S) <= Cardinality(T)
  <1> DEFINE f == [i \in S |-> i + k]
  <1>1. f \in [S -> T]
    OBVIOUS
  <1>2. \A i, j \in S : f[i] = f[j] => i = j
    OBVIOUS
  <1>3. f \in Injection(S, T)
    BY <1>1, <1>2 DEF Injection, IsInjective
  <1>4. IsFiniteSet(T)
    BY PositionsFinite
  <1> HIDE DEF f
  <1>5. QED BY <1>3, <1>4, FS_Injection

LEMMA ShiftFinite ==
    ASSUME NEW n \in Nat, NEW T \in SUBSET (1 .. n), NEW k \in Nat,
           NEW S \in SUBSET Nat, \A i \in S : i + k \in T
    PROVE  Cardinality(S) \in Nat
  <1>1. S \subseteq 0 .. n
    OBVIOUS
  <1>2. IsFiniteSet(0 .. n)
    BY FS_Interval
  <1>3. IsFiniteSet(S)
    BY <1>1, <1>2, FS_Subset
  <1>4. QED BY <1>3, FS_CardinalityType

(* ... and fewer if one of the first k is one of them.                     *)
LEMMA ShiftDrops ==
    ASSUME NEW n \in Nat, NEW T \in SUBSET (1 .. n), NEW k \in Nat,
           NEW S \in SUBSET (Nat \ {0}), \A i \in S : i + k \in T,
           NEW x \in T, x <= k
    PROVE  Cardinality(S) + 1 <= Cardinality(T)
  <1>1. \A i \in S : i + k \in T \ {x}
    OBVIOUS
  <1>2. Cardinality(S) <= Cardinality(T \ {x})
    BY <1>1, ShiftCounts
  <1>3. IsFiniteSet(T) /\ Cardinality(T) \in Nat
    BY PositionsFinite
  <1>4. Cardinality(T \ {x}) = Cardinality(T) - 1
    BY <1>3, FS_RemoveElement
  <1>5. IsFiniteSet(T \ {x}) /\ Cardinality(T \ {x}) \in Nat
    BY <1>3, FS_RemoveElement, FS_CardinalityType
  <1>6. T \ {x} \in SUBSET (1 .. n)
    OBVIOUS
  <1>7. Cardinality(S) \in Nat
    BY <1>1, <1>6, ShiftFinite
  <1>8. QED BY <1>2, <1>3, <1>4, <1>7

LEMMA OneMoreCounts ==
    ASSUME NEW n \in Nat, NEW T \in SUBSET (1 .. n), NEW S, NEW x, S \subseteq T \cup {x}
    PROVE  IsFiniteSet(S) /\ Cardinality(S) <= Cardinality(T) + 1
  <1>1. IsFiniteSet(T) /\ Cardinality(T) \in Nat
    BY PositionsFinite
  <1>2. /\ IsFiniteSet(T \cup {x})
        /\ Cardinality(T \cup {x}) = Cardinality(T) \/ Cardinality(T \cup {x}) = Cardinality(T) + 1
    BY <1>1, FS_AddElement
  <1>3. IsFiniteSet(S) /\ Cardinality(S) <= Cardinality(T \cup {x})
    BY <1>2, FS_Subset
  <1>4. Cardinality(S) \in Nat
    BY <1>3, FS_CardinalityType
  <1>5. QED BY <1>1, <1>2, <1>3, <1>4

LEMMA Counts ==
    ASSUME NEW s \in Seq(TokenType), NEW q \in Seq(CommandType)
    PROVE  /\ Len(s) \in Nat /\ Len(q) \in Nat
           /\ Ends(s) \in SUBSET (1 .. Len(s)) /\ Live(q) \in SUBSET (1 .. Len(q))
           /\ Cardinality(Ends(s)) \in Nat /\ Cardinality(Live(q)) \in Nat
  <1>1. Len(s) \in Nat /\ Len(q) \in Nat
    BY LenProperties
  <1>2. Ends(s) \in SUBSET (1 .. Len(s)) /\ Live(q) \in SUBSET (1 .. Len(q))
    BY DEF Ends, Live
  <1>3. QED BY <1>1, <1>2, PositionsFinite

(* A Send marks what is under way, and adds one command.                   *)
LEMMA MarkedOwes ==
    ASSUME NEW s \in Seq(TokenType), EndsSoon(s)
    PROVE  Ends(NotMine(s)) = Ends(s) /\ EndsSoon(NotMine(s))
  <1>1. /\ NotMine(s) \in Seq(TokenType) /\ Len(NotMine(s)) = Len(s)
        /\ \A i \in 1 .. Len(s) : NotMine(s)[i].t = s[i].t
    BY NotMineTokens
  <1>2. Len(s) \in Nat
    BY LenProperties
  <1>3. \A i \in 1 .. Len(s) : IsEnd(NotMine(s), i) <=> IsEnd(s, i)
    BY <1>1 DEF IsEnd
  <1>4. Ends(NotMine(s)) = Ends(s)
    BY <1>1, <1>3 DEF Ends
  <1>5. ASSUME NEW i \in 1 .. Len(s)
        PROVE  \E j \in i .. Len(s) : IsEnd(NotMine(s), j) /\ j <= i + TableLen
    <2>1. PICK j \in i .. Len(s) : IsEnd(s, j) /\ j <= i + TableLen
      BY DEF EndsSoon
    <2>2. j \in 1 .. Len(s)
      BY <1>2
    <2>3. QED BY <1>3, <2>1, <2>2
  <1>6. QED BY <1>1, <1>4, <1>5 DEF EndsSoon

LEMMA QueuedOwes ==
    ASSUME NEW q \in Seq(CommandType), NEW e \in CommandType
    PROVE  /\ Append(NotMine(q), e) \in Seq(CommandType)
           /\ Cardinality(Live(Append(NotMine(q), e))) <= Cardinality(Live(q)) + 1
  <1> DEFINE m == NotMine(q)
             r == Append(m, e)
  <1>1. /\ m \in Seq(CommandType) /\ Len(m) = Len(q) /\ Len(q) \in Nat
        /\ \A i \in 1 .. Len(q) : m[i].dead = q[i].dead
    BY NotMineCommands, LenProperties
  <1> HIDE DEF m
  <1>2. /\ r \in Seq(CommandType) /\ Len(r) = Len(q) + 1
        /\ \A i \in 1 .. Len(q) : r[i] = m[i]
    BY <1>1, AppendProperties
  <1> HIDE DEF r
  <1>3. Live(r) \subseteq Live(q) \cup {Len(q) + 1}
    <2>1. ASSUME NEW i \in Live(r) PROVE i \in Live(q) \cup {Len(q) + 1}
      <3>1. i \in 1 .. (Len(q) + 1) /\ ~r[i].dead
        BY <1>2 DEF Live
      <3>2. CASE i \in 1 .. Len(q)
        BY <1>1, <1>2, <3>1, <3>2 DEF Live
      <3>3. QED BY <1>1, <3>1, <3>2
    <2>2. QED BY <2>1
  <1>4. Live(q) \in SUBSET (1 .. Len(q))
    BY DEF Live
  <1>5. Cardinality(Live(r)) <= Cardinality(Live(q)) + 1
    BY <1>1, <1>3, <1>4, OneMoreCounts
  <1>6. QED BY <1>2, <1>5 DEF r, m

(* A recv() takes the first n tokens.                                      *)
LEMMA SuffixOwes ==
    ASSUME NEW s \in Seq(TokenType), NEW r \in Seq(TokenType), NEW n \in 1 .. Len(s),
           Len(r) = Len(s) - n, \A i \in 1 .. Len(r) : r[i] = s[i + n], EndsSoon(s)
    PROVE  /\ EndsSoon(r)
           /\ Cardinality(Ends(r)) <= Cardinality(Ends(s))
           /\ (\E x \in 1 .. n : IsEnd(s, x)) => Cardinality(Ends(r)) + 1 <= Cardinality(Ends(s))
  <1>1. Len(s) \in Nat /\ Len(r) \in Nat /\ n \in Nat
    BY LenProperties
  <1>2. Ends(s) \in SUBSET (1 .. Len(s)) /\ Ends(r) \in SUBSET (Nat \ {0})
    BY <1>1 DEF Ends
  <1>3. \A i \in 1 .. Len(r) : i + n \in 1 .. Len(s) /\ (IsEnd(r, i) <=> IsEnd(s, i + n))
    BY <1>1 DEF IsEnd
  <1>4. \A i \in Ends(r) : i + n \in Ends(s)
    BY <1>3 DEF Ends
  <1>5. Cardinality(Ends(r)) <= Cardinality(Ends(s))
    BY <1>1, <1>2, <1>4, ShiftCounts
  <1>6. ASSUME NEW x \in 1 .. n, IsEnd(s, x)
        PROVE  Cardinality(Ends(r)) + 1 <= Cardinality(Ends(s))
    <2>1. x \in Ends(s) /\ x <= n
      BY <1>1, <1>6 DEF Ends
    <2>2. QED BY <1>1, <1>2, <1>4, <2>1, ShiftDrops
  <1>7. EndsSoon(r)
    <2>1. ASSUME NEW i \in 1 .. Len(r)
          PROVE  \E j \in i .. Len(r) : IsEnd(r, j) /\ j <= i + TableLen
      <3>1. PICK k \in (i + n) .. Len(s) : IsEnd(s, k) /\ k <= i + n + TableLen
        BY <1>3 DEF EndsSoon
      <3>2. /\ k - n \in i .. Len(r) /\ k - n \in 1 .. Len(r) /\ (k - n) + n = k
            /\ k - n <= i + TableLen
        BY <1>1, <3>1, TclAssumption
      <3>3. IsEnd(r, k - n)
        BY <1>3, <3>1, <3>2
      <3>4. QED BY <3>2, <3>3
    <2>2. QED BY <2>1 DEF EndsSoon
  <1>8. QED BY <1>5, <1>6, <1>7

(* A reply adds one terminator.                                            *)
LEMMA ReplyOwes ==
    ASSUME NEW s \in Seq(TokenType), NEW r \in Seq(TokenType), NEW k \in 0 .. TableLen,
           Len(r) = Len(s) + k + 1, \A i \in 1 .. Len(s) : r[i] = s[i],
           \A i \in 1 .. k : r[Len(s) + i].t # "end", r[Len(r)].t = "end", EndsSoon(s)
    PROVE  /\ EndsSoon(r)
           /\ Cardinality(Ends(r)) <= Cardinality(Ends(s)) + 1
  <1>1. Len(s) \in Nat /\ Len(r) \in Nat /\ k \in Nat /\ TableLen \in Nat
    BY LenProperties, TclAssumption
  <1>2. Ends(r) \subseteq Ends(s) \cup {Len(r)}
    <2>1. ASSUME NEW i \in Ends(r), i # Len(r) PROVE i \in Ends(s)
      <3>1. i \in 1 .. Len(r) /\ r[i].t = "end"
        BY DEF Ends, IsEnd
      <3>2. CASE i \in 1 .. Len(s)
        BY <3>1, <3>2 DEF Ends, IsEnd
      <3>3. CASE i \notin 1 .. Len(s)
        <4>1. i - Len(s) \in 1 .. k /\ Len(s) + (i - Len(s)) = i
          BY <1>1, <2>1, <3>1, <3>3
        <4>2. r[Len(s) + (i - Len(s))].t # "end"
          BY <4>1
        <4>3. QED BY <3>1, <4>1, <4>2
      <3>4. QED BY <3>2, <3>3
    <2>2. QED BY <2>1
  <1>3. Ends(s) \in SUBSET (1 .. Len(s))
    BY DEF Ends
  <1>4. Cardinality(Ends(r)) <= Cardinality(Ends(s)) + 1
    BY <1>1, <1>2, <1>3, OneMoreCounts
  <1>5. ASSUME NEW i \in 1 .. Len(r)
        PROVE  \E j \in i .. Len(r) : IsEnd(r, j) /\ j <= i + TableLen
    <2>1. CASE i \in 1 .. Len(s)
      <3>1. PICK j \in i .. Len(s) : IsEnd(s, j) /\ j <= i + TableLen
        BY <2>1 DEF EndsSoon
      <3>2. j \in 1 .. Len(s) /\ j \in i .. Len(r)
        BY <1>1, <2>1
      <3>3. QED BY <3>1, <3>2 DEF IsEnd
    <2>2. CASE i \notin 1 .. Len(s)
      <3>1. Len(r) \in i .. Len(r) /\ Len(r) <= i + TableLen
        BY <1>1, <2>2
      <3>2. QED BY <3>1 DEF IsEnd
    <2>3. QED BY <2>1, <2>2
  <1>6. QED BY <1>4, <1>5 DEF EndsSoon

LEMMA TailOwes ==
    ASSUME NEW q \in Seq(CommandType), q # << >>
    PROVE  /\ Cardinality(Live(Tail(q))) <= Cardinality(Live(q))
           /\ ~Head(q).dead => Cardinality(Live(Tail(q))) + 1 <= Cardinality(Live(q))
  <1> DEFINE r == Tail(q)
  <1>1. /\ Len(q) \in Nat \ {0} /\ Head(q) = q[1] /\ r \in Seq(CommandType)
        /\ Len(r) = Len(q) - 1 /\ \A i \in 1 .. Len(q) - 1 : r[i] = q[i + 1]
    BY HeadTail
  <1> HIDE DEF r
  <1>2. /\ Live(q) \in SUBSET (1 .. Len(q)) /\ Live(r) \in SUBSET (Nat \ {0})
        /\ Live(r) \in SUBSET Nat
    BY <1>1 DEF Live
  <1>3. \A i \in Live(r) : i + 1 \in Live(q)
    BY <1>1 DEF Live
  <1>4. Cardinality(Live(r)) <= Cardinality(Live(q))
    BY <1>1, <1>2, <1>3, ShiftCounts
  <1>5. ASSUME ~Head(q).dead PROVE Cardinality(Live(r)) + 1 <= Cardinality(Live(q))
    <2>1. 1 \in Live(q) /\ 1 <= 1
      BY <1>1, <1>5 DEF Live
    <2>2. QED BY <1>1, <1>2, <1>3, <2>1, ShiftDrops
  <1>6. QED BY <1>4, <1>5 DEF r

LEMMA OwedCounts ==
    /\ Owed = Cardinality(Ends(stream)) + Cardinality(Live(queue))
    /\ Owed' = Cardinality(Ends(stream')) + Cardinality(Live(queue'))
  BY DEF Owed, Replies, Ends, Live, IsEnd

LEMMA NothingOwed == Cardinality(Ends(<< >>)) = 0 /\ Cardinality(Live(<< >>)) = 0
  <1>1. Ends(<< >>) = {} /\ Live(<< >>) = {}
    BY DEF Ends, Live
  <1>2. QED BY <1>1, FS_EmptySet

LEMMA SendLag ==
    ASSUME TypeOK, EndsSoon(stream), NEW c \in Opening \cup Following, NEW v \in Nat, Send(c, v)
    PROVE  /\ EndsSoon(stream') /\ buf' = << >>
           /\ Owed' <= Owed + (IF pc' = "recv" THEN 1 ELSE 0)
  <1>1. stream \in Seq(TokenType) /\ queue \in Seq(CommandType)
    BY DEF TypeOK
  <1>2. stream' = NotMine(stream) /\ buf' = << >>
    BY DEF Send
  <1>3. Ends(stream') = Ends(stream) /\ EndsSoon(stream')
    BY <1>1, <1>2, MarkedOwes
  <1>4. Cardinality(Ends(stream)) \in Nat /\ Cardinality(Live(queue)) \in Nat
    BY <1>1, Counts
  <1>5. CASE gone
    BY <1>2, <1>3, <1>4, <1>5, OwedCounts DEF Send
  <1>6. CASE ~gone
    <2> DEFINE e == Command(c, v)
    <2>1. e \in CommandType
      BY DEF Command, CommandType, Opening, Following, FlashCommands
    <2>2. queue' = Append(NotMine(queue), e) /\ pc' = "recv"
      BY <1>6 DEF Send
    <2> HIDE DEF e
    <2>3. queue' \in Seq(CommandType) /\ Cardinality(Live(queue')) <= Cardinality(Live(queue)) + 1
      BY <1>1, <2>1, <2>2, QueuedOwes
    <2>4. Cardinality(Live(queue')) \in Nat
      BY <1>1, <2>3, Counts
    <2>5. QED BY <1>2, <1>3, <1>4, <2>2, <2>3, <2>4, OwedCounts
  <1>7. QED BY <1>5, <1>6 DEF TypeOK

LEMMA ClientLag ==
    ASSUME TypeOK, ChannelInv, LagInv, Client
    PROVE  LagInv'
  <1>0. /\ EndsSoon(stream) /\ late \in Nat
        /\ sock = "open" /\ pc # "recv" => Owed <= late
        /\ Cardinality(Ends(stream)) \in Nat /\ Cardinality(Live(queue)) \in Nat
        /\ Owed \in Nat
    BY Counts, OwedCounts DEF LagInv, TypeOK
  <1>1. ASSUME NEW c \in Opening \cup Following, NEW v \in Nat, Send(c, v),
               Owed <= late', late' \in Nat
        PROVE  LagInv'
    <2>1. /\ EndsSoon(stream') /\ buf' = << >>
          /\ Owed' <= Owed + (IF pc' = "recv" THEN 1 ELSE 0)
      BY <1>0, <1>1, SendLag
    <2>2. stream' \in Seq(TokenType) /\ queue' \in Seq(CommandType)
      BY <1>1, SendType
    <2>3. Owed' \in Nat
      BY <2>2, Counts, OwedCounts
    <2>4. Owed' <= late' + (IF pc' = "recv" THEN 1 ELSE 0)
      <3>1. ASSUME NEW x \in Nat, NEW y \in Nat, NEW l \in Nat, NEW k \in {0, 1},
                   y <= l, x <= y + k
            PROVE  x <= l + k
        BY <3>1
      <3>2. CASE pc' = "recv"
        BY <1>0, <1>1, <2>1, <2>3, <3>1, <3>2
      <3>3. CASE pc' # "recv"
        BY <1>0, <1>1, <2>1, <2>3, <3>1, <3>3
      <3>4. QED BY <3>2, <3>3
    <2>5. EndsSoon(stream)' <=> EndsSoon(stream')
      BY DEF EndsSoon, IsEnd
    <2>6. ~HasEnd(buf)'
      BY <2>1 DEF HasEnd
    <2>7. QED BY <2>1, <2>4, <2>5, <2>6 DEF LagInv
  <1>2. CASE Dials
    <2>1. /\ sock = "closed" /\ Send("halt", 0) /\ late' = 0
      BY <1>2 DEF Dials, Start
    <2>2. stream = << >> /\ AllDead(queue)
      BY <2>1 DEF ChannelInv
    <2>3. Live(queue) = {}
      BY <2>2 DEF Live, AllDead
    <2>4. Owed = 0
      BY <2>2, <2>3, NothingOwed, FS_EmptySet, OwedCounts
    <2>5. "halt" \in Opening \cup Following
      BY DEF Opening
    <2>6. QED BY <1>1, <2>1, <2>4, <2>5
  <1>3. ASSUME NEW c \in Opening, NEW v \in Nat, Begins(c, v) PROVE LagInv'
    <2>1. sock = "open" /\ pc = "idle" /\ Send(c, v) /\ late' = late
      BY <1>3 DEF Begins, Begin, Start
    <2>2. QED BY <1>0, <1>1, <2>1
  <1>4. ASSUME NEW c \in Following, Continues(c) PROVE LagInv'
    <2>1. Over /\ Send(c, arg) /\ late' = late
      BY <1>4 DEF Continues, Continue
    <2>2. sock = "open" /\ pc # "recv" /\ arg \in Nat
      BY <2>1 DEF ChannelInv, Over, TypeOK
    <2>3. QED BY <1>0, <1>1, <2>1, <2>2
  <1>5. CASE Returns
    <2>1. Over /\ pc' = "idle" /\ UNCHANGED <<queue, stream, sock, late>>
      BY <1>5 DEF Returns, Return, Keep, wire
    <2>2. sock = "open" /\ pc # "recv"
      BY <2>1 DEF ChannelInv, Over, TypeOK
    <2>3. Owed' = Owed
      BY <2>1, OwedCounts
    <2>4. EndsSoon(stream)'
      BY <1>0, <2>1 DEF EndsSoon, IsEnd
    <2>5. QED BY <1>0, <2>1, <2>2, <2>3, <2>4 DEF LagInv
  <1>6. CASE HangsUp
    <2>1. pc' = "idle" /\ sock' = "closed" /\ stream' = << >>
      BY <1>6 DEF HangsUp, CloseSocket, Return
    <2>2. EndsSoon(stream)'
      BY <2>1 DEF EndsSoon
    <2>3. QED BY <2>1, <2>2 DEF LagInv
  <1>7. QED BY <1>2, <1>3, <1>4, <1>5, <1>6, ClientShapes

LEMMA RecvPositions ==
    ASSUME NEW b \in Seq(TokenType), NEW s \in Seq(TokenType), NEW n \in 1 .. Len(s)
    PROVE  /\ \A i \in 1 .. Len(b) : (b \o SubSeq(s, 1, n))[i] = b[i]
           /\ \A i \in 1 .. n : (b \o SubSeq(s, 1, n))[Len(b) + i] = s[i]
           /\ \A i \in 1 .. (Len(s) - n) : SubSeq(s, n + 1, Len(s))[i] = s[i + n]
  OBVIOUS

LEMMA RecvLag ==
    ASSUME TableFits, TypeOK, LagInv, ChannelInv, NEW n \in 1 .. Len(stream), Recv(n)
    PROVE  LagInv'
  <1>1. /\ pc = "recv" /\ pc' = (IF Complete(buf') THEN "done" ELSE "recv")
        /\ stream \in Seq(TokenType) /\ queue \in Seq(CommandType) /\ buf \in Seq(TokenType)
        /\ UNCHANGED <<queue, sock, late, phase>> /\ late \in Nat
    BY DEF Recv, TypeOK, call
  <1>2. /\ buf' \in Seq(TokenType) /\ stream' \in Seq(TokenType)
        /\ Len(buf') = Len(buf) + n /\ Len(stream') = Len(stream) - n
    BY <1>1, RecvSplits DEF Recv
  <1>3. /\ \A i \in 1 .. Len(buf) : buf'[i] = buf[i]
        /\ \A i \in 1 .. n : buf'[Len(buf) + i] = stream[i]
        /\ \A i \in 1 .. (Len(stream) - n) : stream'[i] = stream[i + n]
    BY <1>1, RecvPositions DEF Recv
  <1>4. Len(buf) \in Nat /\ Len(stream) \in Nat /\ n \in Nat /\ Len(buf') \in Nat
    BY <1>1, <1>2, LenProperties
  <1>5. /\ EndsSoon(stream)
        /\ Cardinality(Ends(stream)) \in Nat /\ Cardinality(Live(queue)) \in Nat
        /\ Cardinality(Ends(stream')) \in Nat
    BY <1>1, <1>2, Counts DEF LagInv
  <1>6. /\ EndsSoon(stream')
        /\ Cardinality(Ends(stream')) <= Cardinality(Ends(stream))
        /\ (\E x \in 1 .. n : IsEnd(stream, x)) =>
              Cardinality(Ends(stream')) + 1 <= Cardinality(Ends(stream))
    BY <1>1, <1>2, <1>3, <1>5, SuffixOwes
  <1>7. EndsSoon(stream)'
    BY <1>6 DEF EndsSoon, IsEnd
  <1>8. sock = "open" => Owed <= late + 1
    BY <1>1 DEF LagInv
  <1>9. CASE \E x \in 1 .. n : IsEnd(stream, x)
    <2>1. PICK x \in 1 .. n : IsEnd(stream, x)
      BY <1>9
    <2>2. Len(buf) + x \in 1 .. Len(buf') /\ buf'[Len(buf) + x] = stream[x]
      BY <1>2, <1>3, <1>4
    <2>3. HasEnd(buf')
      BY <2>1, <2>2 DEF HasEnd, IsEnd
    <2>4. pc' = "done"
      BY <1>1, <2>3 DEF Complete
    <2>5. sock = "open" => Owed' <= late
      BY <1>1, <1>5, <1>6, <1>8, <1>9, OwedCounts
    <2>6. Owed' \in Nat
      BY <1>1, <1>5, OwedCounts
    <2>7. QED BY <1>1, <1>7, <2>4, <2>5, <2>6 DEF LagInv
  <1>10. CASE ~\E x \in 1 .. n : IsEnd(stream, x)
    <2>1. PICK j \in 1 .. Len(stream) : IsEnd(stream, j) /\ Len(buf) + j <= TableLen + 1
      <3>1. CASE buf # << >>
        BY <1>1, <3>1 DEF LagInv
      <3>2. CASE buf = << >>
        <4>1. 1 \in 1 .. Len(stream) /\ Len(buf) = 0
          BY <1>4, <3>2
        <4>2. PICK j \in 1 .. Len(stream) : IsEnd(stream, j) /\ j <= 1 + TableLen
          BY <1>5, <4>1 DEF EndsSoon
        <4>3. Len(buf) + j <= TableLen + 1
          BY <4>1, <4>2, TclAssumption
        <4>4. QED BY <4>2, <4>3
      <3>3. QED BY <3>1, <3>2
    <2>2. j > n
      BY <1>4, <1>10, <2>1
    <2>3. /\ j - n \in 1 .. Len(stream') /\ Len(buf') + (j - n) <= TableLen + 1
          /\ j - n \in 1 .. (Len(stream) - n) /\ (j - n) + n = j
      BY <1>2, <1>4, <2>1, <2>2, TclAssumption
    <2>4. IsEnd(stream', j - n)
      BY <1>3, <2>1, <2>3 DEF IsEnd
    <2>5. ~HasEnd(buf')
      <3>1. ~HasEnd(buf)
        BY <1>1 DEF LagInv
      <3>2. ASSUME NEW i \in 1 .. Len(buf') PROVE buf'[i].t # "end"
        <4>1. CASE i \in 1 .. Len(buf)
          BY <1>3, <3>1, <4>1 DEF HasEnd, IsEnd
        <4>2. CASE i \notin 1 .. Len(buf)
          <5>1. i - Len(buf) \in 1 .. n /\ Len(buf) + (i - Len(buf)) = i
            BY <1>2, <1>4, <4>2
          <5>2. buf'[i] = stream[i - Len(buf)]
            BY <1>3, <5>1
          <5>3. QED BY <1>10, <5>1, <5>2 DEF IsEnd
        <4>3. QED BY <4>1, <4>2
      <3>3. QED BY <3>2 DEF HasEnd, IsEnd
    <2>6. Len(buf') # Cap
      BY <1>4, <2>3, TclAssumption DEF TableFits
    <2>7. pc' = "recv"
      BY <1>1, <2>5, <2>6 DEF Complete
    <2>8. sock = "open" => Owed' <= late + 1
      BY <1>1, <1>5, <1>6, <1>8, OwedCounts
    <2>9. ~HasEnd(buf)'
      BY <2>5 DEF HasEnd, IsEnd
    <2>10. (\E k \in 1 .. Len(stream) : IsEnd(stream, k) /\ Len(buf) + k <= TableLen + 1)'
      BY <2>3, <2>4 DEF IsEnd
    <2>11. QED BY <1>1, <1>7, <2>7, <2>8, <2>9, <2>10 DEF LagInv
  <1>11. QED BY <1>9, <1>10

LEMMA RecvFailedLag ==
    ASSUME TypeOK, ChannelInv, LagInv, RecvFailed
    PROVE  LagInv'
  <1>1. /\ pc = "recv" /\ pc' = "failed" /\ UNCHANGED <<queue, stream, sock>>
        /\ late' = late + 1 \/ (gone /\ stream = << >> /\ late' = late)
    BY DEF RecvFailed, wire
  <1>2. Owed' = Owed /\ late \in Nat
    BY <1>1, OwedCounts DEF TypeOK
  <1>3. EndsSoon(stream)'
    BY <1>1 DEF LagInv, EndsSoon, IsEnd
  <1>4. ASSUME sock = "open" PROVE Owed' <= late'
    <2>1. CASE late' = late + 1
      BY <1>1, <1>2, <1>4, <2>1 DEF LagInv
    <2>2. CASE gone /\ stream = << >> /\ late' = late
      <3>1. queue = << >>
        BY <2>2 DEF ChannelInv
      <3>2. Owed = 0
        BY <2>2, <3>1, NothingOwed, OwedCounts
      <3>3. QED BY <1>2, <2>2, <3>2
    <2>3. QED BY <1>1, <2>1, <2>2
  <1>5. stream \in Seq(TokenType) /\ queue \in Seq(CommandType)
    BY DEF TypeOK
  <1>6. Owed \in Nat
    BY <1>5, Counts, OwedCounts
  <1>7. late' \in Nat
    BY <1>1, <1>2
  <1>8. sock' = "open" => Owed' <= late' + 0
    <2>1. ASSUME NEW x \in Nat, NEW l \in Nat, x <= l PROVE x <= l + 0
      BY <2>1
    <2>2. Owed' \in Nat
      BY <1>2, <1>6, Zenon
    <2>3. sock' = "open" => Owed' <= late'
      BY <1>1, <1>4
    <2>4. QED BY <1>7, <2>1, <2>2, <2>3, Zenon
  <1>9. QED BY <1>1, <1>3, <1>8 DEF LagInv

LEMMA ReplyPositions ==
    ASSUME NEW s \in Seq(TokenType), NEW b \in Seq(TokenType), NEW e \in TokenType
    PROVE  /\ (s \o b) \o <<e>> \in Seq(TokenType)
           /\ Len((s \o b) \o <<e>>) = Len(s) + Len(b) + 1
           /\ \A i \in 1 .. Len(s) : ((s \o b) \o <<e>>)[i] = s[i]
           /\ \A i \in 1 .. Len(b) : ((s \o b) \o <<e>>)[Len(s) + i] = b[i]
           /\ ((s \o b) \o <<e>>)[Len(s) + Len(b) + 1] = e
  OBVIOUS

LEMMA ServeLag ==
    ASSUME TypeOK, LagInv, Serve
    PROVE  LagInv'
  <1> DEFINE c == Head(queue)
  <1>1. /\ stream \in Seq(TokenType) /\ queue \in Seq(CommandType) /\ queue # << >>
        /\ Execute(c) /\ queue' = Tail(queue) /\ UNCHANGED <<sock, pc, buf, late>>
        /\ late \in Nat
    BY DEF Serve, TypeOK
  <1>2. c \in CommandType /\ c.mine \in BOOLEAN /\ c.dead \in BOOLEAN
    BY <1>1, HeadTail DEF CommandType
  <1>3. stream' \in Seq(TokenType) /\ queue' \in Seq(CommandType)
    BY ServeType DEF TypeOK
  <1>4. /\ Cardinality(Live(queue')) <= Cardinality(Live(queue))
        /\ ~c.dead => Cardinality(Live(queue')) + 1 <= Cardinality(Live(queue))
    BY <1>1, TailOwes
  <1>5. /\ Cardinality(Ends(stream)) \in Nat /\ Cardinality(Live(queue)) \in Nat
        /\ Cardinality(Ends(stream')) \in Nat /\ Cardinality(Live(queue')) \in Nat
    BY <1>1, <1>3, Counts
  <1>6. PICK t \in Texts \cup {"empty", "table"}, v \in Nat : Answers(c, t, v)
    BY <1>1, <1>2, ExecuteShape
  <1> DEFINE b == Body(c, t, v)
             e == Token("end", 0, c.mine)
  <1>7. IsBody(b, c.mine, tgt) /\ e \in TokenType /\ e.t = "end"
    BY <1>2, <1>6, BodyShape, EndToken
  <1>8. stream' = IF c.dead THEN stream ELSE (stream \o b) \o <<e>>
    BY <1>6, AnswerShape
  <1> HIDE DEF b, c, e
  <1>9. /\ EndsSoon(stream') /\ Owed' <= Owed
        /\ Len(stream) \in Nat /\ Len(stream') \in Nat /\ Len(stream) <= Len(stream')
        /\ \A i \in 1 .. Len(stream) : stream'[i] = stream[i]
    <2>1. Len(stream) \in Nat /\ Len(stream') \in Nat /\ EndsSoon(stream)
      BY <1>1, <1>3, LenProperties DEF LagInv
    <2>2. CASE c.dead
      BY <1>4, <1>5, <1>8, <2>1, <2>2, OwedCounts
    <2>3. CASE ~c.dead
      <3>1. b \in Seq(TokenType) /\ Len(b) \in 0 .. TableLen
        BY <1>7, LenProperties, TclAssumption DEF IsBody
      <3>2. /\ Len(stream') = Len(stream) + Len(b) + 1
            /\ \A i \in 1 .. Len(stream) : stream'[i] = stream[i]
            /\ \A i \in 1 .. Len(b) : stream'[Len(stream) + i] = b[i]
            /\ stream'[Len(stream) + Len(b) + 1] = e
        BY <1>1, <1>7, <1>8, <2>3, <3>1, ReplyPositions
      <3>3. /\ \A i \in 1 .. Len(b) : stream'[Len(stream) + i].t # "end"
            /\ stream'[Len(stream')].t = "end"
        BY <1>7, <3>2 DEF IsBody
      <3>4. EndsSoon(stream') /\ Cardinality(Ends(stream')) <= Cardinality(Ends(stream)) + 1
        BY <1>1, <1>3, <2>1, <3>1, <3>2, <3>3, ReplyOwes
      <3>5. Owed' <= Owed
        BY <1>4, <1>5, <2>3, <3>4, OwedCounts
      <3>6. Len(stream) <= Len(stream')
        BY <2>1, <3>1, <3>2
      <3>7. QED BY <2>1, <3>2, <3>4, <3>5, <3>6
    <2>4. QED BY <2>2, <2>3
  <1>10. EndsSoon(stream)' /\ Owed \in Nat /\ Owed' \in Nat
    BY <1>5, <1>9, OwedCounts DEF EndsSoon, IsEnd
  <1>11. pc = "recv" /\ buf # << >> =>
            (\E j \in 1 .. Len(stream) : IsEnd(stream, j) /\ Len(buf) + j <= TableLen + 1)'
    <2>1. ASSUME pc = "recv", buf # << >>
          PROVE  \E j \in 1 .. Len(stream') : stream'[j].t = "end" /\ Len(buf') + j <= TableLen + 1
      <3>1. PICK j \in 1 .. Len(stream) : IsEnd(stream, j) /\ Len(buf) + j <= TableLen + 1
        BY <2>1 DEF LagInv
      <3>2. j \in 1 .. Len(stream') /\ stream'[j] = stream[j]
        BY <1>9
      <3>3. QED BY <1>1, <3>1, <3>2 DEF IsEnd
    <2>2. QED BY <2>1 DEF IsEnd
  <1>12. pc = "recv" => ~HasEnd(buf)'
    BY <1>1 DEF LagInv, HasEnd, IsEnd
  <1>13. sock = "open" => Owed' <= late + (IF pc = "recv" THEN 1 ELSE 0)
    <2>1. ASSUME NEW x \in Nat, NEW y \in Nat, NEW z \in Nat, x <= y, y <= z PROVE x <= z
      BY <2>1
    <2>2. late + (IF pc = "recv" THEN 1 ELSE 0) \in Nat
      BY <1>1
    <2>3. sock = "open" => Owed <= late + (IF pc = "recv" THEN 1 ELSE 0)
      BY DEF LagInv
    <2>4. QED BY <1>9, <1>10, <2>1, <2>2, <2>3, Zenon
  <1>14. QED BY <1>1, <1>10, <1>11, <1>12, <1>13 DEF LagInv

(* Steps that at most lose what is queued.                                 *)
LEMMA QuietLag ==
    ASSUME TypeOK, LagInv, queue' = queue \/ queue' = << >>,
           UNCHANGED <<stream, sock, pc, buf, late>>
    PROVE  LagInv'
  <1>1. /\ Cardinality(Ends(stream)) \in Nat /\ Cardinality(Live(queue)) \in Nat
        /\ late \in Nat
    BY Counts DEF TypeOK
  <1>2. Owed' \in Nat /\ Owed \in Nat /\ Owed' <= Owed
    BY <1>1, NothingOwed, OwedCounts
  <1>3. sock = "open" => Owed' <= late + (IF pc = "recv" THEN 1 ELSE 0)
    <2>1. ASSUME NEW x \in Nat, NEW y \in Nat, NEW z \in Nat, x <= y, y <= z PROVE x <= z
      BY <2>1
    <2>2. late + (IF pc = "recv" THEN 1 ELSE 0) \in Nat
      BY <1>1
    <2>3. sock = "open" => Owed <= late + (IF pc = "recv" THEN 1 ELSE 0)
      BY DEF LagInv
    <2>4. QED BY <1>2, <2>1, <2>2, <2>3, Zenon
  <1>4. EndsSoon(stream)' /\ (HasEnd(buf)' <=> HasEnd(buf))
    BY DEF LagInv, EndsSoon, HasEnd, IsEnd
  <1>5. QED BY <1>3, <1>4 DEF LagInv, IsEnd

LEMMA LagStep ==
    ASSUME TableFits, TypeOK, ChannelInv, LagInv, [Next]_vars
    PROVE  LagInv'
  <1>1. CASE Receive
    BY <1>1, RecvLag, RecvFailedLag DEF Receive
  <1>2. CASE TargetHalts
    BY <1>2, QuietLag DEF TargetHalts, wire
  <1>3. CASE TargetStores
    BY <1>3, QuietLag DEF TargetStores, wire
  <1>4. CASE ServerExits
    BY <1>4, QuietLag DEF ServerExits
  <1>5. CASE UNCHANGED vars
    BY <1>5, QuietLag DEF vars, wire
  <1>6. QED BY <1>1, <1>2, <1>3, <1>4, <1>5, ClientLag, ServeLag DEF Next

(* Between calls the server owes at most one reply for every receive that  *)
(* timed out on this connection: whatever else happens, an exec that sends *)
(* a command takes at least one whole reply out of the channel             *)
(* (hw_openocd.c:120-137).                                                 *)
THEOREM LagIsBounded ==
    ASSUME TableFits
    PROVE  Spec => []LagBounded
  <1>1. ASSUME Init PROVE LagInv
    BY <1>1, NothingOwed, OwedCounts DEF Init, LagInv, EndsSoon
  <1>2. TableFits /\ TypeOK /\ ChannelInv /\ LagInv /\ [Next]_vars => LagInv'
    BY LagStep
  <1>3. TypeOK /\ LagInv => LagBounded
    <2> SUFFICES ASSUME TypeOK, LagInv, pc = "idle", sock = "open" PROVE Owed <= late
      BY DEF LagBounded, Owed
    <2>1. Owed \in Nat /\ late \in Nat
      BY Counts, OwedCounts DEF TypeOK
    <2>2. Owed <= late + 0
      BY DEF LagInv
    <2>3. ASSUME NEW x \in Nat, NEW l \in Nat, x <= l + 0 PROVE x <= l
      BY <2>3
    <2>4. QED BY <2>1, <2>2, <2>3, Zenon
  <1>4. QED BY <1>1, <1>2, <1>3, ChannelInvariant, PTL DEF Spec

=============================================================================
