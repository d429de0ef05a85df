----------------------------- MODULE OpenocdTcl -----------------------------
(***************************************************************************)
(* The OpenOCD backend (backends/openocd/hw_openocd.c) as a client of      *)
(* OpenOCD's TCL port.  A command and its reply carry no sequence number   *)
(* and no status: the client sends text, waits at most 200 ms at a time    *)
(* for data, and takes whatever it receives up to the first 0x1a as the    *)
(* answer.                                                                 *)
(*                                                                         *)
(* The server executes commands in order and answers each; its answers are *)
(* tokens in the byte stream: body tokens and one "end" (0x1a).  recv()    *)
(* takes any non-empty prefix of what is on the way.  A reply that is not  *)
(* read before the timeout stays in the stream.  Commands and tokens carry *)
(* a history mark, mine: they belong to the exec that is running; the next *)
(* Send takes it away.                                                     *)
(***************************************************************************)
EXTENDS Integers, Sequences, FiniteSets

CONSTANTS
    Value,         \* words of target memory; 0, what strtoul makes of text, is not one
    TableLen,      \* bound: tokens in the body of a "targets" reply
    Cap,           \* tokens that fit temp_buf of openocd_tcl_exec
    Room,          \* ... and that fit the response_buf of its caller
    ServerErrors,  \* the server may refuse a command with an error text
    CanExit,       \* the server may close the connection
    MaxTimeouts,   \* bound: how many recv() calls time out
    MaxCalls       \* bound: how many calls the client makes

ASSUME TclAssumption ==
    /\ Value \subseteq Nat \ {0}
    /\ TableLen \in Nat \ {0} /\ Cap \in Nat \ {0} /\ Room \in Nat \ {0}
    /\ ServerErrors \in BOOLEAN /\ CanExit \in BOOLEAN
    /\ MaxTimeouts \in Nat /\ MaxCalls \in Nat

VARIABLES
    mem,          \* the target: one word of memory ...
    reg,          \* ... one core register ...
    tgt,          \* ... and whether the core runs
    rows,         \* tokens of the server's "targets" table: it has other targets too
    queue,        \* commands the server has not executed yet
    stream,       \* reply tokens on their way to the client
    gone,         \* the server has closed the connection
    sock,         \* pvt->sockfd: "closed" or "open"
    flash_known,  \* pvt->flash_known
    pc,           \* "idle", "recv" inside an exec, "done" or "failed" after it
    op,           \* the backend operation of the running or last call
    phase,        \* which of its commands
    arg,          \* its argument
    buf,          \* tokens received by the running exec
    rc,           \* result of the last call ...
    val,          \* ... and the value it returned
    timeouts,
    late,         \* history: the timeouts on this connection
    calls,
    ran,          \* history: the server has executed the exec's command
    seen          \* history: what mem held since the call was made

server == <<mem, reg, tgt, rows>>
wire == <<queue, stream, ran>>
call == <<op, phase, arg, calls>>
vars == <<server, wire, gone, sock, flash_known, pc, call, buf, rc, val,
          timeouts, late, seen>>

-----------------------------------------------------------------------------
(* The wire.                                                               *)

Command(c, v) == [c |-> c, v |-> v, mine |-> TRUE, dead |-> FALSE]
Token(t, v, m) == [t |-> t, v |-> v, mine |-> m]

NotMine(s) == [i \in 1 .. Len(s) |-> [s[i] EXCEPT !.mine = FALSE]]
Dead(s) == [i \in 1 .. Len(s) |-> [s[i] EXCEPT !.mine = FALSE, !.dead = TRUE]]

IsEnd(s, i) == s[i].t = "end"
HasEnd(s) == \E i \in 1 .. Len(s) : IsEnd(s, i)

(* The two send() calls of an exec.  On a dead connection they either fail *)
(* or lose the command.                                                    *)
Send(c, v) ==
    /\ stream' = NotMine(stream)
    /\ queue' = IF gone THEN queue ELSE Append(NotMine(queue), Command(c, v))
    /\ pc' \in {"recv"} \cup (IF gone THEN {"failed"} ELSE {})
    /\ buf' = << >>
    /\ ran' = FALSE

(* Mutant: the loop that waits for the terminator is gone.                 *)
CompleteAtOnce(b) == Len(b) > 0

(* openocd_tcl_exec_alloc grows its buffer; openocd_tcl_exec has temp_buf. *)
Growing == phase \in {"banks", "sectors"}
Fits(n) == Growing \/ Len(buf) + n <= Cap

(* The loop of an exec ends at a terminator or when temp_buf is full.      *)
Complete(b) == HasEnd(b) \/ (~Growing /\ Len(b) = Cap)

(* One recv() that returns the next n tokens.  Tokens behind the           *)
(* terminator are in the buffer, and are lost with it.                     *)
Recv(n) ==
    /\ pc = "recv"
    /\ n \in 1 .. Len(stream) /\ Fits(n)
    /\ buf' = buf \o SubSeq(stream, 1, n)
    /\ stream' = SubSeq(stream, n + 1, Len(stream))
    /\ pc' = IF Complete(buf') THEN "done" ELSE "recv"
    /\ UNCHANGED <<server, queue, ran, gone, sock, flash_known, call, rc, val,
                   timeouts, late, seen>>

(* recv() fails: nothing came for 200 ms, or the connection is closed.     *)
RecvFailed ==
    /\ pc = "recv"
    /\ \/ timeouts < MaxTimeouts /\ timeouts' = timeouts + 1 /\ late' = late + 1
       \/ gone /\ stream = << >> /\ UNCHANGED <<timeouts, late>>
    /\ pc' = "failed"
    /\ UNCHANGED <<server, wire, gone, sock, flash_known, call, buf, rc, val, seen>>

(* What strings the code finds in a response: the tokens of buf up to the  *)
(* terminator, of which openocd_tcl_exec copies no more than its caller    *)
(* has room for.                                                           *)
Within(i) ==
    /\ i \in 1 .. Len(buf) /\ \A j \in 1 .. i : ~IsEnd(buf, j)
    /\ Growing \/ i <= Room
Mentions(t) == \E i \in 1 .. Len(buf) : Within(i) /\ buf[i].t = t

(* strtoul reads the number the response starts with, 0 if there is none.  *)
Number == IF Within(1) /\ buf[1].t = "num" THEN buf[1].v ELSE 0

(* The number behind the first colon, which only "reg" replies have.       *)
AfterColon ==
    IF Mentions("reg")
    THEN LET i == CHOOSE i \in 1 .. Len(buf) :
                     /\ Within(i) /\ buf[i].t = "reg"
                     /\ \A j \in 1 .. (i - 1) : buf[j].t # "reg"
         IN  buf[i].v
    ELSE 0

openocd_reply_failed == Mentions("error")

-----------------------------------------------------------------------------
(* OpenOCD and the target.  A halt takes effect at once or later.          *)

Table(m) ==
    [i \in 1 .. rows |->
        Token(IF i < rows THEN "header" ELSE IF tgt = "halted" THEN tgt ELSE "running",
              0, m)]

(* The server answers command c; nobody reads the answer to a command of a *)
(* closed connection.                                                      *)
Answers(c, t, v) ==
    stream' = IF c.dead THEN stream
              ELSE stream \o (CASE t = "empty" -> << >>
                                [] t = "table" -> Table(c.mine)
                                [] OTHER -> <<Token(t, v, c.mine)>>)
                          \o <<Token("end", 0, c.mine)>>

Halting == IF tgt = "running" THEN {"halting", "halted"} ELSE {tgt}

(* "targets" only lists what the server knows, and is never refused.       *)
Execute(c) ==
    \/ c.c = "halt" /\ tgt' \in Halting /\ Answers(c, "empty", 0) /\ UNCHANGED <<mem, reg, rows>>
    \/ c.c = "reset" /\ tgt' \in {"halting", "halted"} /\ Answers(c, "empty", 0)
       /\ UNCHANGED <<mem, reg, rows>>
    \/ c.c = "resume" /\ tgt' = "running" /\ Answers(c, "empty", 0) /\ UNCHANGED <<mem, reg, rows>>
    \/ c.c = "targets" /\ Answers(c, "table", 0) /\ UNCHANGED server
    \/ c.c = "mrw" /\ Answers(c, "num", mem) /\ UNCHANGED server
    \/ c.c = "mww" /\ mem' = c.v /\ Answers(c, "empty", 0) /\ UNCHANGED <<reg, tgt, rows>>
    \/ c.c = "get" /\ tgt = "halted" /\ Answers(c, "reg", reg) /\ UNCHANGED server
    \/ c.c = "set" /\ tgt = "halted" /\ reg' = c.v /\ Answers(c, "reg", c.v)
       /\ UNCHANGED <<mem, tgt, rows>>
    \/ c.c \in {"get", "set"} /\ tgt # "halted" /\ Answers(c, "error", 0) /\ UNCHANGED server
    \/ c.c \in {"banks", "sectors", "flash"} /\ Answers(c, c.c, 0) /\ UNCHANGED server
    \/ ServerErrors /\ c.c # "targets" /\ Answers(c, "error", 0) /\ UNCHANGED server

Serve ==
    /\ queue # << >> /\ ~gone
    /\ Execute(Head(queue))
    /\ queue' = Tail(queue)
    /\ ran' = (ran \/ Head(queue).mine)
    /\ seen' = seen \cup {mem'}
    /\ UNCHANGED <<gone, sock, flash_known, pc, call, buf, rc, val,
                   timeouts, late>>

TargetHalts ==
    /\ tgt = "halting" /\ tgt' = "halted"
    /\ UNCHANGED <<mem, reg, rows, wire, gone, sock, flash_known, pc, call, buf, rc,
                   val, timeouts, late, seen>>

(* A running program stores to memory.                                     *)
TargetStores ==
    /\ tgt = "running" /\ mem' \in Value \ {mem}
    /\ seen' = seen \cup {mem'}
    /\ UNCHANGED <<reg, tgt, rows, wire, gone, sock, flash_known, pc, call, buf, rc,
                   val, timeouts, late>>

ServerExits ==
    /\ CanExit /\ ~gone
    /\ gone' = TRUE /\ queue' = << >>
    /\ UNCHANGED <<server, stream, ran, sock, flash_known, pc, call, buf, rc, val,
                   timeouts, late, seen>>
-----------------------------------------------------------------------------
(* The client: one call at a time, each a sequence of execs.               *)

Start(name, ph, c, v) ==
    /\ pc = "idle"
    /\ calls < MaxCalls /\ calls' = calls + 1
    /\ op' = name /\ phase' = ph /\ arg' = v
    /\ seen' = {mem}
    /\ Send(c, v)
    /\ UNCHANGED <<server, gone, flash_known, rc, val, timeouts>>

(* A call on the open connection.                                          *)
Begin(name, ph, c, v) == sock = "open" /\ Start(name, ph, c, v) /\ UNCHANGED <<sock, late>>

(* The next exec of the same call.                                         *)
Continue(ph, c) ==
    /\ phase' = ph
    /\ Send(c, arg)
    /\ UNCHANGED <<server, gone, sock, op, arg, calls, rc, val, timeouts, late, seen>>

Return(r, v) ==
    /\ pc' = "idle"
    /\ rc' = r /\ val' = v
    /\ buf' = << >>
    /\ UNCHANGED <<server, gone, call, timeouts, late, seen>>

Over == pc \in {"done", "failed"}

(* Mutant: the old connection is used again.                               *)
CloseSocketNot ==
    /\ sock' = "closed" /\ flash_known' = FALSE
    /\ UNCHANGED wire

CloseSocket ==
    /\ sock' = "closed" /\ flash_known' = FALSE
    /\ queue' = Dead(queue) /\ stream' = << >>
    /\ UNCHANGED ran

Keep == UNCHANGED <<wire, sock, flash_known>>

(* connect halts the target, or gives the connection up.                   *)
openocd_impl_connect ==
    \/ /\ sock = "closed" /\ ~gone
       /\ Start("connect", "main", "halt", 0)
       /\ sock' = "open" /\ late' = 0
    \/ /\ op = "connect" /\ pc = "done"
       /\ Return(0, 0) /\ Keep
    \/ /\ op = "connect" /\ pc = "failed"
       /\ CloseSocket /\ Return(-1, 0)

openocd_impl_close ==
    \/ Begin("close", "main", "resume", 0)
    \/ /\ op = "close" /\ Over
       /\ CloseSocket /\ Return(0, 0)

(* Mutant: the result of the exec is not looked at.                        *)
ReadUnchecked ==
    \/ Begin("read", "main", "mrw", 0)
    \/ op = "read" /\ Over /\ Return(0, Number) /\ Keep

(* read32 and read8: the width of the access is left out.                  *)
openocd_impl_read32 ==
    \/ Begin("read", "main", "mrw", 0)
    \/ /\ op = "read" /\ Over
       /\ IF pc = "done" THEN Return(0, Number) ELSE Return(-1, 0)
       /\ Keep

(* write32, write8 and board_run look at no reply.                         *)
openocd_impl_write32 ==
    \/ \E v \in Value : Begin("write", "main", "mww", v)
    \/ /\ op = "write" /\ Over
       /\ Return(IF pc = "done" THEN 0 ELSE -1, 0)
       /\ Keep

openocd_impl_board_run ==
    \/ Begin("run", "main", "resume", 0)
    \/ /\ op = "run" /\ Over
       /\ Return(IF pc = "done" THEN 0 ELSE -1, 0)
       /\ Keep

openocd_impl_board_halted ==
    \/ Begin("halted", "main", "targets", 0)
    \/ /\ op = "halted" /\ Over
       /\ Return(0, IF pc = "done" /\ Mentions("halted") THEN 1 ELSE 0)
       /\ Keep

(* Mutants: one poll is enough; a poll that failed is repeated.            *)
PollAgainNever == FALSE
PollAgainAlways == pc = "failed" \/ ~Mentions("halted")

(* block_until_halted: another poll after 10 ms while the reply does not   *)
(* say "halted"; a failed poll ends the waiting.                           *)
PollAgain == pc = "done" /\ ~Mentions("halted")

block_until_halted ==
    /\ phase = "poll" /\ Over
    /\ PollAgain
    /\ Continue("poll", "targets") /\ UNCHANGED flash_known

(* read_reg and write_reg: halt, wait, then the access.  Only the last     *)
(* exec can fail the call, and the API has no way to say so.               *)
RegisterAccess(name, c) ==
    \/ /\ op = name /\ phase = "pre" /\ Over
       /\ Continue("poll", "targets") /\ UNCHANGED flash_known
    \/ /\ op = name /\ phase = "poll" /\ Over /\ ~PollAgain
       /\ Continue("main", c) /\ UNCHANGED flash_known

openocd_impl_read_reg ==
    \/ Begin("read_reg", "pre", "halt", 0)
    \/ RegisterAccess("read_reg", "get")
    \/ /\ op = "read_reg" /\ phase = "main" /\ Over
       /\ Return(0, IF pc = "done" THEN AfterColon ELSE 0)
       /\ Keep

openocd_impl_write_reg ==
    \/ \E v \in Value : Begin("write_reg", "pre", "halt", v)
    \/ RegisterAccess("write_reg", "set")
    \/ /\ op = "write_reg" /\ phase = "main" /\ Over
       /\ Return(0, 0)
       /\ Keep

(* "reset halt", then wait; a wait that failed is not noticed.             *)
openocd_impl_board_reset ==
    \/ Begin("reset", "pre", "reset", 0)
    \/ /\ op = "reset" /\ phase = "pre" /\ Over
       /\ pc = "failed" \/ openocd_reply_failed
       /\ Return(-1, 0) /\ Keep
    \/ /\ op = "reset" /\ phase = "pre" /\ pc = "done" /\ ~openocd_reply_failed
       /\ Continue("poll", "targets") /\ UNCHANGED flash_known
    \/ /\ op = "reset" /\ phase = "poll" /\ Over /\ ~PollAgain
       /\ Return(0, 0) /\ Keep

(* flash_write, flash_erase and flash_mass_erase: failure is a word in the *)
(* reply.                                                                  *)
openocd_impl_flash_erase ==
    \/ Begin("flash", "main", "flash", 0)
    \/ /\ op = "flash" /\ Over
       /\ Return(IF pc = "failed" \/ openocd_reply_failed THEN -1 ELSE 0, 0)
       /\ Keep

(* flash_info and flash_sector: "flash banks" unless cached, then          *)
(* "flash info 0".                                                         *)
openocd_flash_bank ==
    \/ ~flash_known /\ Begin("sector", "banks", "banks", 0)
    \/ /\ op = "sector" /\ phase = "banks" /\ Over
       /\ pc = "failed" \/ ~Mentions("banks")
       /\ Return(-1, 0) /\ Keep
    \/ /\ op = "sector" /\ phase = "banks" /\ pc = "done" /\ Mentions("banks")
       /\ flash_known' = TRUE
       /\ Continue("sectors", "sectors")

openocd_impl_flash_sector ==
    \/ flash_known /\ Begin("sector", "sectors", "sectors", 0)
    \/ /\ op = "sector" /\ phase = "sectors" /\ Over
       /\ Return(IF pc = "done" /\ Mentions("sectors") THEN 0 ELSE -1, 0)
       /\ Keep

-----------------------------------------------------------------------------
Init ==
    /\ mem \in Value /\ reg \in Value
    /\ tgt \in {"running", "halted"} /\ rows \in 1 .. TableLen
    /\ queue = << >> /\ stream = << >> /\ ran = FALSE
    /\ gone = FALSE /\ sock = "closed" /\ flash_known = FALSE
    /\ pc = "idle" /\ op = "none" /\ phase = "main" /\ arg = 0 /\ calls = 0
    /\ buf = << >> /\ rc = 0 /\ val = 0
    /\ timeouts = 0 /\ late = 0
    /\ seen = {mem}

Client ==
    \/ openocd_impl_connect \/ openocd_impl_close
    \/ openocd_impl_read32 \/ openocd_impl_write32
    \/ openocd_impl_board_run \/ openocd_impl_board_halted
    \/ openocd_impl_read_reg \/ openocd_impl_write_reg
    \/ openocd_impl_board_reset \/ block_until_halted
    \/ openocd_impl_flash_erase
    \/ openocd_flash_bank \/ openocd_impl_flash_sector

Receive == RecvFailed \/ \E n \in 1 .. Len(stream) : Recv(n)

Next == Client \/ Receive \/ Serve \/ TargetHalts \/ TargetStores \/ ServerExits

Spec == Init /\ [][Next]_vars

(* A call that was made runs on, data that is there is received, the       *)
(* server works, and a core that was told to halt halts.                   *)
FairSpec ==
    /\ Spec
    /\ WF_vars(pc # "idle" /\ (Client \/ Receive))
    /\ WF_vars(Serve)
    /\ WF_vars(TargetHalts)

-----------------------------------------------------------------------------
(* "Executes a TCL command and reads the response" (hw_openocd.c:103): an  *)
(* exec that returns 0 has had its command executed, and what it hands to  *)
(* the caller is the reply to that command, whole, and not part of another *)
(* one.                                                                    *)
ExecReadsItsOwnReply ==
    pc = "done" =>
        /\ ran
        /\ HasEnd(buf)
        /\ \A i \in 1 .. Len(buf) : buf[i].mine

(* On a connection where no receive has timed out, a new one after any     *)
(* number of bad ones included, every exec reads its own reply: closing    *)
(* the socket is what puts commands and replies back into step.            *)
InStepUnlessLate == late = 0 => ExecReadsItsOwnReply

(* "The response is now a clean string containing the value"               *)
(* (hw_openocd.c:239): on such a connection a read that reports success    *)
(* gives a value the memory held at some moment of the call; the one       *)
(* exception is the 0 that strtoul makes of an error text.                 *)
ReadReturnsMemory ==
    [][op = "read" /\ pc # "idle" /\ pc' = "idle" /\ rc' = 0 /\ late = 0 =>
          val' \in seen \/ (val' = 0 /\ openocd_reply_failed)]_vars

(* The halt and the wait before a register access do their work: on such a *)
(* connection the server gets a "reg" command only when the core is        *)
(* halted, also when the server refuses the halt.                          *)
RegisterAccessHalted ==
    [][(Serve /\ late = 0 /\ Head(queue).c \in {"get", "set"} /\ ~Head(queue).dead)
          => tgt = "halted"]_vars

Replies(s) == Cardinality({i \in 1 .. Len(s) : IsEnd(s, i)})

(* Between calls the channel owes at most one reply for every receive that *)
(* timed out on this connection: nothing else puts commands and replies    *)
(* out of step, and a new connection puts them back into step.             *)
LagBounded ==
    pc = "idle" /\ sock = "open" =>
        Replies(stream) + Cardinality({i \in 1 .. Len(queue) : ~queue[i].dead}) <= late

(* Every call returns, also when the server exits or refuses a command,    *)
(* with one exception: block_until_halted polls for as long as what it has *)
(* room for does not say "halted", so it waits for ever for a core whose   *)
(* halt was refused and for one whose line of the table is cut off, and    *)
(* after a timeout it may go on reading the replies of earlier polls.      *)
CallsReturn ==
    \/ []<>(pc = "idle")
    \/ <>[](phase = "poll" /\ (late > 0 \/ tgt = "running" \/ rows > Room))

-----------------------------------------------------------------------------
(* What the proofs need beside the properties.                             *)

FlashCommands == {"banks", "sectors", "flash"}
CommandType ==
    [c : {"halt", "reset", "resume", "targets", "mrw", "mww", "get", "set"} \cup FlashCommands,
     v : Nat, mine : BOOLEAN, dead : BOOLEAN]
TokenType ==
    [t : {"end", "header", "running", "halted", "num", "reg", "error"} \cup FlashCommands,
     v : Nat, mine : BOOLEAN]

TypeOK ==
    /\ mem \in Nat /\ reg \in Nat /\ tgt \in {"running", "halting", "halted"}
    /\ rows \in 1 .. TableLen
    /\ queue \in Seq(CommandType) /\ stream \in Seq(TokenType) /\ buf \in Seq(TokenType)
    /\ gone \in BOOLEAN /\ ran \in BOOLEAN /\ sock \in {"open", "closed"}
    /\ pc \in {"idle", "recv", "done", "failed"}
    /\ arg \in Nat /\ late \in Nat

(* Commands of closed connections only.                                    *)
AllDead(q) == \A i \in 1 .. Len(q) : q[i].dead /\ ~q[i].mine

(* The command of the running exec is the last one; in front of it are     *)
(* commands of closed connections, and none if it is a register access,    *)
(* which then finds the core halted.                                       *)
Awaited(q, state, name) ==
    /\ q # << >>
    /\ \A i \in 1 .. Len(q) :
          /\ i < Len(q) => q[i].dead /\ ~q[i].mine
          /\ i = Len(q) =>
                /\ ~q[i].dead /\ q[i].mine
                /\ q[i].c \in {"get", "set"} => i = 1 /\ state = "halted"
                /\ name = "read" => q[i].c = "mrw"

(* s is the whole reply to the command of the running exec.  It says       *)
(* "halted" only if the core is halted still, and the reply to a read is   *)
(* an error or a value that memory held.                                   *)
Reply(s, state, name, values) ==
    /\ Len(s) \in 1 .. (TableLen + 1)
    /\ \A i \in 1 .. Len(s) :
          /\ s[i].mine
          /\ IsEnd(s, i) <=> i = Len(s)
          /\ s[i].t = "halted" => state = "halted"
    /\ name = "read" =>
          Len(s) = 2 /\ (s[1].t = "error" \/ (s[1].t = "num" /\ s[1].v \in values))

(* The channel, as long as no receive timed out: between two execs it is   *)
(* empty; inside one, the command is queued, or lost because the server is *)
(* gone, or it ran and what was and what is to be received is its reply.   *)
InStep ==
    /\ pc # "recv" => stream = << >> /\ queue = << >>
    /\ pc = "failed" => gone
    /\ pc = "done" => ran /\ Reply(buf, tgt, op, seen)
    /\ pc = "recv" =>
          \/ /\ ~ran /\ stream = << >> /\ buf = << >>
             /\ Awaited(queue, tgt, op) \/ gone
          \/ /\ ran /\ queue = << >>
             /\ ~HasEnd(buf) /\ Reply(buf \o stream, tgt, op, seen)

ChannelInv ==
    /\ mem \in seen
    /\ op = "read" => phase = "main"
    /\ gone => queue = << >>
    /\ sock = "closed" => pc = "idle" /\ stream = << >> /\ AllDead(queue)
    /\ late = 0 /\ sock = "open" => InStep

(* Whatever was lost: behind every token on the way there is a terminator, *)
(* no further than a table is long.                                        *)
EndsSoon(s) ==
    \A i \in 1 .. Len(s) : \E j \in i .. Len(s) : IsEnd(s, j) /\ j <= i + TableLen

Owed == Replies(stream) + Cardinality({i \in 1 .. Len(queue) : ~queue[i].dead})

(* ... so that an exec that has received something has a terminator to     *)
(* come before its buffer is full, and takes one reply or is late.         *)
LagInv ==
    /\ EndsSoon(stream)
    /\ pc = "recv" =>
          /\ ~HasEnd(buf)
          /\ buf # << >> =>
                \E j \in 1 .. Len(stream) : IsEnd(stream, j) /\ Len(buf) + j <= TableLen + 1
    /\ sock = "open" => Owed <= late + (IF pc = "recv" THEN 1 ELSE 0)

=============================================================================
