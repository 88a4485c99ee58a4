------------------------------- MODULE Console -------------------------------
(***************************************************************************)
(* lib/console.c and lib/stdio.c: printing to the console from several     *)
(* cores, and from a core that crashes, perhaps in the middle of printing. *)
(*                                                                         *)
(* A core's stack has a frame per call in progress, the newest first: the  *)
(* thread's vprintf, the handler of a trap that interrupted it (BUG, a     *)
(* recursive lock, the error interrupt of mpic.c: set_crashing(1), a       *)
(* message, set_crashing(0)), the handler's vprintf, and so on.  A trap    *)
(* comes between any two steps.  The bytes of a message are all the same:  *)
(* its core, whether it is a thread's or a crash report, and its number.   *)
(* The console is a character device: the queue console of qconsole_init   *)
(* is not modelled.                                                        *)
(***************************************************************************)
EXTENDS Integers, Sequences, FiniteSets

CONSTANTS
    Cpu,        \* the cores
    Size,       \* consolebuf.size
    MsgLen,     \* the bytes of a message
    MaxEvents   \* bound: the messages threads print and the traps taken, in all

CRASH_IN_PRINT == 10000
Free == "free"

ASSUME CpuAssumption == Free \notin Cpu
ASSUME SizeAssumption == Size \in Nat \ {0, 1}
ASSUME MsgLenAssumption == MsgLen \in Nat \ {0}
ASSUME MaxEventsAssumption == MaxEvents \in Nat

VARIABLES
    stack,          \* per core: its frames, the newest first
    halted,         \* the cores that a fatal trap stopped
    crashing,       \* per core: cpu->crashing
    console_ok,     \* per core: cpu->console_ok
    console_lock,   \* the core that holds it, or Free
    crash_lock,     \* the core that holds it, or Free
    vbuf,           \* vprintf's static buffer: the message it holds
    ring,           \* consolebuf.buf
    head, tail,     \* consolebuf.head, consolebuf.tail
    out,            \* history: what the device sent until a core trapped
    events,         \* the messages and traps so far, which number the messages
    trapped,        \* history: a trap was taken
    nested          \* history: a trap was taken by a core in a trap's handler

buffer == <<ring, head, tail>>
locks == <<console_lock, crash_lock>>
counts == <<events, trapped, nested>>
vars == <<stack, halted, crashing, console_ok, locks, vbuf, buffer, out, counts>>

NoMsg == <<"none", "none", 0>>

Init ==
    /\ stack = [c \in Cpu |-> <<>>]
    /\ halted = {}
    /\ crashing = [c \in Cpu |-> 0]
    /\ console_ok = [c \in Cpu |-> FALSE]
    /\ console_lock = Free /\ crash_lock = Free
    /\ vbuf = NoMsg
    /\ ring = [i \in 0..(Size - 1) |-> NoMsg] /\ head = 0 /\ tail = 0
    /\ out = <<>>
    /\ events = 0 /\ trapped = FALSE /\ nested = FALSE

-----------------------------------------------------------------------------
(* Frames                                                                  *)

(* A vprintf: its message, whether it took console_lock, the bytes left,   *)
(* and the part of consolebuf that it drains.                              *)
PrintFrame(c, kind) ==
    [fn |-> "vprintf", pc |-> "check", msg |-> <<c, kind, events>>, lock |-> TRUE,
     left |-> MsgLen, from |-> 0, to |-> 0]

CrashFrame == [fn |-> "crash", pc |-> "set_crashing", from |-> 0, to |-> 0]

top(c) == Head(stack[c])
At(c, fn, label) == stack[c] # <<>> /\ top(c).fn = fn /\ top(c).pc = label

Push(c, f) == stack' = [stack EXCEPT ![c] = <<f>> \o @]
Pop(c) == stack' = [stack EXCEPT ![c] = Tail(@)]
Become(c, f) == stack' = [stack EXCEPT ![c][1] = f]
Goto(c, label) == Become(c, [top(c) EXCEPT !.pc = label])

(* The handlers that core c is in.                                         *)
CrashFrames(c) == {i \in DOMAIN stack[c] : stack[c][i].fn = "crash"}

(* A thread prints.                                                        *)
ThreadPrints(c) ==
    /\ stack[c] = <<>> /\ c \notin halted /\ events < MaxEvents
    /\ Push(c, PrintFrame(c, "thread"))
    /\ events' = events + 1
    /\ UNCHANGED <<halted, crashing, console_ok, locks, vbuf, buffer, out, trapped, nested>>

(* A trap: no mask keeps it out.                                           *)
Trap(c) ==
    /\ c \notin halted /\ events < MaxEvents
    /\ Push(c, CrashFrame)
    /\ events' = events + 1 /\ trapped' = TRUE
    /\ nested' = (nested \/ CrashFrames(c) # {})
    /\ out' = <<>>
    /\ UNCHANGED <<halted, crashing, console_ok, locks, vbuf, buffer>>

(* The client, on the core itself, lets it use the console.                *)
ConsoleOk(c) ==
    /\ ~console_ok[c] /\ stack[c] = <<>> /\ c \notin halted
    /\ console_ok' = [console_ok EXCEPT ![c] = TRUE]
    /\ UNCHANGED <<stack, halted, crashing, locks, vbuf, buffer, out, counts>>

-----------------------------------------------------------------------------
(* vprintf                                                                 *)

(* Mutant: a crashing core waits for console_lock.                         *)
PrintCheckLocked(c) ==
    /\ At(c, "vprintf", "check")
    /\ Goto(c, "lock")
    /\ UNCHANGED <<halted, crashing, console_ok, locks, vbuf, buffer, out, counts>>

(* A crashing core takes no lock, and prints nothing when the trap came in *)
(* the middle of its printing.                                             *)
PrintCheck(c) ==
    /\ At(c, "vprintf", "check")
    /\ \/ /\ crashing[c] = 0
          /\ Goto(c, "lock") /\ UNCHANGED crashing
       \/ /\ crashing[c] > CRASH_IN_PRINT
          /\ Pop(c) /\ UNCHANGED crashing
       \/ /\ crashing[c] \in 1..CRASH_IN_PRINT
          /\ crashing' = [crashing EXCEPT ![c] = @ + CRASH_IN_PRINT]
          /\ Become(c, [top(c) EXCEPT !.pc = "format", !.lock = FALSE])
    /\ UNCHANGED <<halted, console_ok, locks, vbuf, buffer, out, counts>>

(* Mutant: the lock is not waited for.                                     *)
PrintLockAlways(c) ==
    /\ At(c, "vprintf", "lock")
    /\ console_lock' = c
    /\ Goto(c, "format")
    /\ UNCHANGED <<halted, crashing, console_ok, crash_lock, vbuf, buffer, out, counts>>

PrintLock(c) ==
    /\ At(c, "vprintf", "lock") /\ console_lock = Free
    /\ console_lock' = c
    /\ Goto(c, "format")
    /\ UNCHANGED <<halted, crashing, console_ok, crash_lock, vbuf, buffer, out, counts>>

(* vsnprintf, into the one buffer.                                         *)
Format(c) ==
    /\ At(c, "vprintf", "format")
    /\ vbuf' = top(c).msg
    /\ Goto(c, "write")
    /\ UNCHANGED <<halted, crashing, console_ok, locks, buffer, out, counts>>

wrap(i) == i % Size
full == wrap(tail + 1) = head
Stored(x) == IF full THEN UNCHANGED buffer
             ELSE /\ ring' = [ring EXCEPT ![tail] = x]
                  /\ tail' = wrap(tail + 1) /\ UNCHANGED head

Send(x) == out' = IF trapped THEN out ELSE Append(out, x)

(* putchar_nolock: to the device when crashing, else to the queue, where a *)
(* byte that finds no space is dropped.  After the last byte comes         *)
(* queue_notify_consumer, whose callback drains the queue; the drain of a  *)
(* queue that is half full finds nothing more to do.                       *)
PutChar(c) ==
    /\ At(c, "vprintf", "write")
    /\ IF crashing[c] > 0 /\ console_ok[c]
       THEN Send(vbuf) /\ UNCHANGED buffer
       ELSE Stored(vbuf) /\ UNCHANGED out
    /\ Become(c, [top(c) EXCEPT !.left = @ - 1, !.pc = IF top(c).left = 1 THEN "drain" ELSE @])
    /\ UNCHANGED <<halted, crashing, console_ok, locks, vbuf, counts>>

(* Mutant: the mark of a crash in print stays.                             *)
PrintUnlockKeepsMark(c) ==
    /\ At(c, "vprintf", "unlock")
    /\ Pop(c)
    /\ IF top(c).lock THEN console_lock' = Free ELSE UNCHANGED console_lock
    /\ UNCHANGED <<halted, crashing, console_ok, crash_lock, vbuf, buffer, out, counts>>

PrintUnlock(c) ==
    /\ At(c, "vprintf", "unlock")
    /\ Pop(c)
    /\ IF top(c).lock
       THEN console_lock' = Free /\ UNCHANGED crashing
       ELSE crashing' = [crashing EXCEPT ![c] = @ - CRASH_IN_PRINT] /\ UNCHANGED console_lock
    /\ UNCHANGED <<halted, console_ok, crash_lock, vbuf, buffer, out, counts>>

-----------------------------------------------------------------------------
(* drain_consolebuf, of both kinds of frames: queue_to_chardev             *)

AfterDrain(f) == IF f.fn = "vprintf" THEN "unlock" ELSE "message"

Draining(c) == stack[c] # <<>> /\ top(c).pc = "drain"
Sending(c) == stack[c] # <<>> /\ top(c).pc = "send"

(* head and tail are read; a core whose console is not ok drains nothing.  *)
DrainStart(c) ==
    /\ Draining(c)
    /\ IF console_ok[c] /\ head # tail
       THEN Become(c, [top(c) EXCEPT !.pc = "send", !.from = head, !.to = tail])
       ELSE Goto(c, AfterDrain(top(c)))
    /\ UNCHANGED <<halted, crashing, console_ok, locks, vbuf, buffer, out, counts>>

(* The end of the chunk that starts at from.                               *)
ChunkEnd(f) == IF f.to < f.from THEN Size ELSE f.to

DrainByte(c) ==
    /\ Sending(c) /\ top(c).from < ChunkEnd(top(c))
    /\ Send(ring[top(c).from])
    /\ Become(c, [top(c) EXCEPT !.from = @ + 1])
    /\ UNCHANGED <<halted, crashing, console_ok, locks, vbuf, buffer, counts>>

(* The head is stored; a second chunk may follow the first.                *)
DrainHead(c) ==
    LET f == top(c) IN
    /\ Sending(c) /\ f.from = ChunkEnd(f)
    /\ head' = wrap(f.from)
    /\ Become(c, IF wrap(f.from) = f.to THEN [f EXCEPT !.pc = AfterDrain(f), !.from = 0, !.to = 0]
                 ELSE [f EXCEPT !.from = 0])
    /\ UNCHANGED <<halted, crashing, console_ok, locks, vbuf, ring, tail, out, counts>>

-----------------------------------------------------------------------------
(* set_crashing and the handlers that call it                              *)

SetCrashing(c) ==
    /\ At(c, "crash", "set_crashing")
    /\ crashing' = [crashing EXCEPT ![c] = @ + 1]
    /\ Goto(c, IF crashing[c] = 0 THEN "crash_lock" ELSE "message")
    /\ UNCHANGED <<halted, console_ok, locks, vbuf, buffer, out, counts>>

(* Mutant: the first crash of a core does not wait for the lock.           *)
CrashLockAlways(c) ==
    /\ At(c, "crash", "crash_lock")
    /\ crash_lock' = c
    /\ crashing' = [crashing EXCEPT ![c] = 1]
    /\ Goto(c, "drain")
    /\ UNCHANGED <<halted, console_ok, console_lock, vbuf, buffer, out, counts>>

(* raw_spin_lock: it waits for itself as for another core.                 *)
CrashLock(c) ==
    /\ At(c, "crash", "crash_lock") /\ crash_lock = Free
    /\ crash_lock' = c
    /\ crashing' = [crashing EXCEPT ![c] = 1]
    /\ Goto(c, "drain")
    /\ UNCHANGED <<halted, console_ok, console_lock, vbuf, buffer, out, counts>>

(* Mutant: the lock is given up before the report is printed.              *)
CrashMessageUnlocked(c) ==
    /\ At(c, "crash", "message")
    /\ stack' = [stack EXCEPT ![c] =
          <<PrintFrame(c, "report"), [top(c) EXCEPT !.pc = "clear"]>> \o Tail(@)]
    /\ crash_lock' = IF crash_lock = c THEN Free ELSE crash_lock
    /\ UNCHANGED <<halted, crashing, console_ok, console_lock, vbuf, buffer, out, counts>>

CrashMessage(c) ==
    /\ At(c, "crash", "message")
    /\ stack' = [stack EXCEPT ![c] =
          <<PrintFrame(c, "report"), [top(c) EXCEPT !.pc = "clear"]>> \o Tail(@)]
    /\ UNCHANGED <<halted, crashing, console_ok, locks, vbuf, buffer, out, counts>>

(* set_crashing(0): the count, then, in a step of its own, the lock.       *)
ClearCrashing(c) ==
    /\ At(c, "crash", "clear")
    /\ crashing' = [crashing EXCEPT ![c] = @ - 1]
    /\ Goto(c, IF crashing[c] = 1 THEN "crash_unlock" ELSE "end")
    /\ UNCHANGED <<halted, console_ok, locks, vbuf, buffer, out, counts>>

CrashUnlock(c) ==
    /\ At(c, "crash", "crash_unlock")
    /\ crash_lock' = Free
    /\ Goto(c, "end")
    /\ UNCHANGED <<halted, crashing, console_ok, console_lock, vbuf, buffer, out, counts>>

(* The handler returns, or stops the core with what it holds.              *)
CrashEnd(c) ==
    /\ At(c, "crash", "end")
    /\ \/ Pop(c) /\ UNCHANGED halted
       \/ /\ halted' = halted \cup {c}
          /\ stack' = [stack EXCEPT ![c] = <<>>]
    /\ UNCHANGED <<crashing, console_ok, locks, vbuf, buffer, out, counts>>

Step(c) ==
    \/ PrintCheck(c) \/ PrintLock(c) \/ Format(c) \/ PutChar(c) \/ PrintUnlock(c)
    \/ DrainStart(c) \/ DrainByte(c) \/ DrainHead(c)
    \/ SetCrashing(c) \/ CrashLock(c) \/ CrashMessage(c)
    \/ ClearCrashing(c) \/ CrashUnlock(c) \/ CrashEnd(c)

Next == \E c \in Cpu : ThreadPrints(c) \/ Trap(c) \/ ConsoleOk(c) \/ Step(c)

Spec == Init /\ [][Next]_vars /\ \A c \in Cpu : WF_vars(Step(c))

-----------------------------------------------------------------------------
(* Properties                                                              *)

Message == (Cpu \X {"thread", "report"} \X (0..MaxEvents)) \cup {NoMsg}

(* The queue's indices stay in its buffer, and a lock has one holder.      *)
TypeOK ==
    /\ halted \subseteq Cpu
    /\ console_ok \in [Cpu -> BOOLEAN]
    /\ console_lock \in Cpu \cup {Free} /\ crash_lock \in Cpu \cup {Free}
    /\ vbuf \in Message
    /\ ring \in [0..(Size - 1) -> Message]
    /\ head \in 0..(Size - 1) /\ tail \in 0..(Size - 1)
    /\ \A i \in DOMAIN out : out[i] \in Message

(* While no core crashes a message comes out in one piece and once,        *)
(* whichever core drains it: console_lock covers the producer and the      *)
(* consumer of consolebuf and vprintf's buffer.                            *)
MessagesWhole ==
    ~trapped =>
       /\ \A i, k \in DOMAIN out : out[i] = out[k] => \A j \in i..k : out[j] = out[i]
       /\ \A m \in Message : Cardinality({i \in DOMAIN out : out[i] = m}) <= MsgLen
       /\ NoMsg \notin {out[i] : i \in DOMAIN out}

Reports(c) == {i \in DOMAIN stack[c] : stack[c][i].fn = "vprintf" /\ ~stack[c][i].lock}
Counted(c) == {i \in CrashFrames(c) :
                  stack[c][i].pc \in {"crash_lock", "drain", "send", "message", "clear"}}

(* cpu->crashing counts the handlers a core is in, and says whether one of *)
(* them is printing; two never are.  It holds for traps within traps, even *)
(* for one that comes while set_crashing waits for crash_lock and whose    *)
(* count "crashing = 1" could overwrite.                                   *)
CountExact ==
    \A c \in Cpu \ halted :
       /\ crashing[c] = Cardinality(Counted(c)) + CRASH_IN_PRINT * Cardinality(Reports(c))
       /\ Cardinality(Reports(c)) <= 1

(* No two cores report a crash at the same time.                           *)
CrashesApart == \A c, d \in Cpu : Reports(c) # {} /\ Reports(d) # {} => c = d

(* That is so as long as no trap comes in a handler.                       *)
CrashesApartAlone == nested \/ CrashesApart

(* While a core prints its report, the buffer holds that report, or the    *)
(* message of a thread of another core, which console_lock cannot keep     *)
(* out: no other report overwrites it, nor the message it interrupted.     *)
ReportLostOnlyToThreads ==
    nested \/ \A c \in Cpu : At(c, "vprintf", "write") /\ ~top(c).lock =>
                 vbuf = top(c).msg \/ (vbuf[1] # c /\ vbuf[2] = "thread")

(* A core that traps finishes its report and leaves the handler or stops,  *)
(* whatever locks it or a core that stopped holds, if no trap comes in a   *)
(* handler.                                                                *)
CrashEnds == \A c \in Cpu : CrashFrames(c) # {} ~> (CrashFrames(c) = {} \/ nested)

(* The console queue's indices stay in its buffer, a lock has one holder,   *)
(* and the count of crashes is exact (console.c:186-199).                   *)
CountsSound == TypeOK /\ CountExact
=============================================================================
