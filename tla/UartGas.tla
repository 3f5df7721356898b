------------------------------- MODULE UartGas -------------------------------
(* The serial transport of the GAS: lib/platform/linux-uart.c.  The driver     *)
(* types gasrd and gaswr commands at the console of the switch and parses what *)
(* comes back up to the prompt.  Answers carry no identity: a read answer has  *)
(* the address it read, a write answer the 8-bit CRC of what it wrote, which   *)
(* other writes may have too.  An answer that takes longer than VTIME is given *)
(* up, and is the first thing the next command finds in the tty.  The console  *)
(* is external: it carries commands out in the order they were typed, and the  *)
(* line may lose or spoil any of them.  A command or a write answer that is    *)
(* spoilt is noticed: the model has no noise that leaves its CRC right.        *)
EXTENDS Naturals, Sequences

CONSTANTS Addrs,         \* addresses inside the GAS
          Far,           \* addresses beyond it
          Swap(_),       \* htobe32 of an address
          Crc(_, _),     \* crc8 of an address and a value
          ReadOnly,      \* addresses the console refuses to write (case 4)
          Values,        \* what callers write
          RetryNum,      \* RETRY_NUM
          Faults,        \* what may go wrong beside loss and delay, see below
          MaxCalls       \* bound on the calls of a run

\* data: the line may spoil the digits of an answer; stack: a buffer that was not
\* filled may hold the answer the same function read last; refuse: the console
\* refuses to write ReadOnly addresses (without it nobody writes them).
ASSUME UartAssumption ==
  /\ ReadOnly \subseteq Addrs /\ Addrs \cap Far = {}
  /\ \A a \in Addrs \cup Far : Swap(a) \in Addrs \cup Far /\ Swap(Swap(a)) = a
  /\ Addrs # {} /\ "spoilt" \notin Values /\ MaxCalls \in Nat
  /\ RetryNum \in Nat \ {0} /\ Faults \subseteq {"data", "stack", "refuse"}

Init0 == "init"          \* what every address holds at first
Ones == "0xff"           \* memset(dest, 0xff, n)
Spoilt == "spoilt"
Held == Values \cup {Init0}

\* Answers of the console (cases 1 to 4 of the comment in the source).
WriteAns(a, v) == [k |-> "w", c |-> Crc(a, v)]      \* "gas_reg_write() success", CRC
ReadAns(a, v)  == [k |-> "r", a |-> a, v |-> v]
Beyond  == [k |-> "beyond"]                         \* "No access beyond ..."
Refused == [k |-> "refused"]                        \* "Error with gas_reg_write()"
Junk    == [k |-> "junk"]                           \* what sscanf or the CRC rejects

VARIABLES pc,        \* idle, send, wait, sigbus
          call,      \* the call: kind, address, value
          i,         \* the attempt, of RETRY_NUM
          addr,      \* addr of uart_gas_read: as it will be typed
          overrun,   \* ptr of uart_gas_read is past the end of dest
          result,    \* what dest holds when a read returns
          cmds,      \* typed, not yet carried out
          rx,        \* answers in the tty
          stack,     \* what gas_rd_rtn and gas_wr_rtn held last
          mem,       \* the GAS
          want,      \* what the callers wrote (history)
          landed,    \* times the current call was carried out (history)
          last,      \* the last write: address and value (history)
          mixed,     \* a write has begun that another's answer may end (history)
          calls,     \* calls started (history)
          faults     \* those of this run

line == <<cmds, rx>>
history == <<want, landed, last, mixed, calls>>
vars == <<pc, call, i, addr, overrun, result, line, stack, mem, history, faults>>

IsWrite == call.kind \in {"write", "once"}

Init ==
  /\ pc = "idle" /\ call = [kind |-> "none", a |-> CHOOSE a \in Addrs : TRUE, v |-> Init0, n |-> 0]
  /\ i = 0 /\ addr = call.a /\ overrun = FALSE /\ result = Init0
  /\ cmds = <<>> /\ rx = <<>> /\ stack = [r |-> Junk, w |-> Junk]
  /\ mem = [a \in Addrs |-> Init0] /\ want = mem /\ landed = 0 /\ calls = 0
  /\ last = [a |-> call.a, v |-> Init0] /\ mixed = FALSE
  /\ faults \in SUBSET Faults

-----------------------------------------------------------------------------
\* A write whose CRC is that of the write before it, which is another one, while
\* copies or answers of that are still under way.
Late == (\E m \in 1..Len(cmds) : cmds[m].k = "w") \/ (\E m \in 1..Len(rx) : rx[m].k = "w")
Mistakable(a, v) == Late /\ [a |-> a, v |-> v] # last /\ Crc(a, v) = Crc(last.a, last.v)

\* uart_gas_write (gas_write32_no_retry is the same function) and uart_gas_read.
Start(kind, a, v) ==
  /\ pc = "idle" /\ calls < MaxCalls
  /\ (kind # "read" /\ a \in ReadOnly) => "refuse" \in faults
  /\ calls' = calls + 1
  /\ call' = [kind |-> kind, a |-> a, v |-> v, n |-> calls']
  /\ pc' = "send" /\ i' = 0 /\ addr' = a /\ overrun' = FALSE /\ landed' = 0
  /\ want' = IF kind # "read" /\ a \notin ReadOnly THEN [want EXCEPT ![a] = v] ELSE want
  /\ last' = IF kind # "read" THEN [a |-> a, v |-> v] ELSE last
  /\ mixed' = (mixed \/ (kind # "read" /\ Mistakable(a, v)))
  /\ UNCHANGED <<result, line, stack, mem, faults>>

\* Mutant of Again: the loop never counts.
AgainForever == i' = i /\ pc' = "send"

\* The next attempt, or SIGBUS.
Again ==
  /\ i' = i + 1
  /\ pc' = IF i' = RetryNum THEN "sigbus" ELSE "send"

\* send_cmd; its failure is an attempt that failed.
Send ==
  /\ pc = "send"
  /\ \/ /\ cmds' = Append(cmds, [k |-> IF IsWrite THEN "w" ELSE "r", a |-> addr,
                                 v |-> call.v, n |-> call.n])
        /\ pc' = "wait" /\ i' = i
     \/ Again /\ cmds' = cmds
  /\ UNCHANGED <<call, addr, overrun, result, rx, stack, mem, history, faults>>

\* Mutant of WriteAnswer: exp == cal is tested, cal == crc is not.
WriteAnswerAnyCrc(ans) ==
  /\ IF ans.k \in {"refused", "w"} THEN pc' = "idle" /\ i' = i ELSE Again
  /\ UNCHANGED <<addr, overrun, result>>

\* The answer has the CRC of the write that waits: (exp == cal) && (cal == crc).
Answers(ans) == ans.k = "w" /\ ans.c = Crc(call.a, call.v)

\* What uart_gas_write does with the buffer ans.
WriteAnswer(ans) ==
  /\ \/ /\ ans.k = "refused" \/ Answers(ans)
        /\ pc' = "idle" /\ i' = i
     \/ /\ ans.k # "refused" /\ ~Answers(ans)
        /\ Again
  /\ UNCHANGED <<addr, overrun, result>>

\* Mutant of ReadAnswer: raddr is parsed but not compared.
ReadAnswerAnyAddr(ans) ==
  /\ IF ans.k = "r" THEN result' = ans.v /\ pc' = "idle" /\ i' = i ELSE Again /\ UNCHANGED result
  /\ UNCHANGED <<addr, overrun>>

\* What uart_gas_read does with it.  A CRC that does not match leaves addr as
\* htobe32 left it, and ptr where the loop left it.  The CRC of digits that are
\* spoilt, or were read for another address, matches by chance.
ReadAnswer(ans) ==
  \/ /\ ans.k = "beyond"
     /\ result' = Ones /\ pc' = "idle" /\ UNCHANGED <<i, addr, overrun>>
  \/ /\ ans.k = "r" /\ ans.a = addr
     /\ result' = IF overrun THEN result ELSE ans.v
     /\ addr' = Swap(addr) /\ overrun' = TRUE
     /\ \/ pc' = "idle" /\ i' = i
        \/ (ans.v = Spoilt \/ overrun) /\ Again
  \/ /\ ~(ans.k = "beyond" \/ (ans.k = "r" /\ ans.a = addr))
     /\ Again /\ UNCHANGED <<addr, overrun, result>>

Answer(ans) == IF IsWrite THEN WriteAnswer(ans) ELSE ReadAnswer(ans)

\* read_resp_line returns at a prompt: it has read one answer, or several that
\* were there together, and the parsers see the first.
Receive ==
  /\ pc = "wait" /\ rx # <<>>
  /\ \E m \in 1..Len(rx) : rx' = SubSeq(rx, m + 1, Len(rx))
  /\ Answer(Head(rx))
  /\ stack' = IF IsWrite THEN [stack EXCEPT !.w = Head(rx)] ELSE [stack EXCEPT !.r = Head(rx)]
  /\ UNCHANGED <<call, cmds, mem, history, faults>>

\* VTIME passes: read() and read_resp_line return 0, as they do at a prompt, and
\* the buffer is parsed, filled or not.
Timeout ==
  /\ pc = "wait"
  /\ \/ Answer(Junk)
     \/ "stack" \in faults /\ Answer(IF IsWrite THEN stack.w ELSE stack.r)
  /\ UNCHANGED <<call, line, stack, mem, history, faults>>

-----------------------------------------------------------------------------
(* The console.                                                                *)

Carry(c) ==
  IF c.k = "w" THEN IF c.a \in ReadOnly THEN Refused ELSE WriteAns(c.a, c.v)
  ELSE IF c.a \in Far THEN Beyond ELSE ReadAns(c.a, mem[c.a])

Console ==
  /\ cmds # <<>> /\ cmds' = Tail(cmds)
  /\ LET c == Head(cmds) ans == Carry(c) IN
     /\ IF ans.k = "w"
        THEN /\ mem' = [mem EXCEPT ![c.a] = c.v]
             /\ landed' = IF c.n = call.n THEN landed + 1 ELSE landed
        ELSE UNCHANGED <<mem, landed>>
     /\ \E got \in {ans, Junk} \cup
                   (IF "data" \in faults /\ ans.k = "r" THEN {ReadAns(c.a, Spoilt)} ELSE {}) :
          rx' = Append(rx, got)
  /\ UNCHANGED <<pc, call, i, addr, overrun, result, stack, want, last, mixed, calls, faults>>

\* The command was lost, or came with a CRC error (case 3).
Lost ==
  /\ cmds # <<>> /\ cmds' = Tail(cmds)
  /\ rx' \in {rx, Append(rx, Junk)}
  /\ UNCHANGED <<pc, call, i, addr, overrun, result, stack, mem, history, faults>>

Driver == Send \/ Receive \/ Timeout

Next ==
  \/ \E a \in Addrs : Start("read", a, Init0) \/ \E v \in Values, k \in {"write", "once"} : Start(k, a, v)
  \/ Driver \/ Console \/ Lost

Spec == Init /\ [][Next]_vars
FairSpec == Spec /\ WF_vars(Driver)

-----------------------------------------------------------------------------
Typed == [k : {"w", "r"}, a : Addrs \cup Far, v : Held, n : 0..MaxCalls]
Ans == {WriteAns(a, v) : a \in Addrs \cup Far, v \in Held}
         \cup {ReadAns(a, v) : a \in Addrs \cup Far, v \in Held \cup {Spoilt}}
         \cup {Beyond, Refused, Junk}
TypeOK ==
  /\ pc \in {"idle", "send", "wait", "sigbus"} /\ i \in 0..RetryNum
  /\ pc \in {"send", "wait"} => i < RetryNum
  /\ call \in [kind : {"none", "read", "write", "once"}, a : Addrs, v : Held, n : 0..MaxCalls]
  /\ addr \in Addrs \cup Far /\ overrun \in BOOLEAN
  /\ cmds \in Seq(Typed) /\ rx \in Seq(Ans) /\ stack \in [r : Ans, w : Ans]
  /\ result \in Held \cup {Ones, Spoilt} /\ mem \in [Addrs -> Held] /\ want \in [Addrs -> Held]
  /\ last \in [a : Addrs, v : Held] /\ mixed \in BOOLEAN
  /\ landed \in Nat /\ calls \in 0..MaxCalls /\ faults \subseteq Faults

\* Nothing but loss, delay and spoilt digits, and no write whose CRC is that of
\* another under way.
Clean == faults \subseteq {"data"} /\ ~mixed

(* When a write returns, the GAS holds what the caller wrote, although the     *)
(* answer that ended it may have been meant for an earlier attempt: the        *)
(* console and the tty keep the order.  Three things can end a write that was  *)
(* lost: a late answer of the write before it if that has the same CRC by      *)
(* chance (linux-uart.c:388), a reused buffer, and a refusal that comes late.  *)
Coherent == (pc = "idle" /\ IsWrite /\ Clean) => mem = want

(* Copies of a write that arrive after the call has returned change nothing.   *)
QuietAfterReturn == [][(pc = "idle" /\ Clean) => mem' = mem]_vars

(* A read returns what the callers wrote last, although the answer it took may *)
(* have been meant for an earlier read of that address.  After spoilt digits   *)
(* the retry asks for the address with its bytes swapped (addr = htobe32(addr) *)
(* is not undone), whose answer may be taken.                                  *)
ReadYourWrites ==
  (pc = "idle" /\ call.kind = "read" /\ faults = {} /\ ~mixed) => result = want[call.a]

(* The invariant that gives these.  Between writes, what is on the line are      *)
(* copies of the last write, whose value the GAS holds, and reads of what it     *)
(* holds.  During a write the copies of the one before it come first, and their  *)
(* CRC is another: once a copy of this one is answered, nothing older is left.   *)
Copy(c, w) == c.k = "w" => c.a = w.a /\ c.v = w.v
AnswerTo(e, w) == e.k = "w" => e.c = Crc(w.a, w.v)
TrueRead(e) == (e.k = "r" /\ faults = {}) => e.v = want[e.a]
Match(c) == c.k = "w" /\ c.a = call.a /\ c.v = call.v
Settled ==
  /\ mem = want /\ want[last.a] = last.v
  /\ \A m \in 1..Len(cmds) : Copy(cmds[m], last)
  /\ \A m \in 1..Len(rx) : AnswerTo(rx[m], last) /\ TrueRead(rx[m])
Writing ==
  /\ last = [a |-> call.a, v |-> call.v]
  /\ want[call.a] = call.v /\ \A a \in Addrs \ {call.a} : mem[a] = want[a]
  /\ \A m \in 1..Len(cmds) : cmds[m].k = "w" /\ ~Match(cmds[m]) =>
       /\ cmds[m].a # call.a => cmds[m].v = want[cmds[m].a]
       /\ Crc(cmds[m].a, cmds[m].v) # Crc(call.a, call.v)
  /\ \A m, l \in 1..Len(cmds) : m < l /\ Match(cmds[m]) => Copy(cmds[l], call)
  /\ \A m \in 1..Len(rx) : Answers(rx[m]) =>
       /\ mem = want
       /\ \A l \in 1..Len(cmds) : Copy(cmds[l], call)
       /\ \A l \in m..Len(rx) : AnswerTo(rx[l], call) /\ TrueRead(rx[l])
Known ==
  /\ \A m \in 1..Len(cmds) : /\ cmds[m].k = "w" => cmds[m].a \in Addrs \ ReadOnly
                             /\ faults = {} => cmds[m].a \in Addrs
  /\ \A m \in 1..Len(rx) : rx[m].k # "refused" /\ (faults = {} => rx[m].k # "beyond")
Here ==
  /\ Known
  /\ pc \in {"send", "wait"} /\ (IsWrite \/ faults = {}) => addr = call.a /\ ~overrun
  /\ IsWrite => call.a \notin ReadOnly
  /\ pc # "sigbus" => IF IsWrite /\ pc # "idle" THEN Writing ELSE Settled
Inv == TypeOK /\ (Clean => Here /\ ReadYourWrites)

(* Every call returns or raises SIGBUS, whatever line and console do.          *)
CallEnds == pc \in {"send", "wait"} ~> pc \in {"idle", "sigbus"}

(* gasops.c:132-135: a command that is "critical and is expected to be sent    *)
(* only once" goes through gas_write32_no_retry, and is carried out once.      *)
SentOnce == call.kind = "once" => landed <= 1
=============================================================================
