------------------------------ MODULE Readline ------------------------------
(***************************************************************************)
(* How lib/readline.c shares a terminal with the console: the thread that  *)
(* reads input, the printers whose output goes to the console buffer and   *)
(* runs drain_callback, and the UART that takes the output and brings the  *)
(* input.  The editor itself is module LineEdit: here what it sends for    *)
(* one character is one item, and so are a line hidden and a line shown    *)
(* again.                                                                  *)
(*                                                                         *)
(* While the action of an entered line runs, printers put console output   *)
(* into the output queue themselves, under rl->lock; at other times they   *)
(* wake the thread, which does it.                                         *)
(***************************************************************************)
LOCAL INSTANCE Integers
LOCAL INSTANCE Sequences

CONSTANTS
    OutSize,      \* items the output queue holds
    ConsoleSize,  \* bytes the console buffer holds
    MaxInput,     \* bound: the characters that come in
    MaxMessages   \* bound: the messages printed

ASSUME OutputAssumption == OutSize \in Nat \ {0} /\ ConsoleSize \in Nat

VARIABLES
    inq,          \* rl->in: characters, "c" or "return"
    out,          \* rl->out: the number of items in it
    last,         \* the item last put into rl->out
    txOn,         \* the UART has been told that there is something to send
    consolebuf,   \* console output not yet drained: "x" a byte, "n" a newline
    action,       \* rl->state is st_action
    suspended,    \* rl->suspended
    wasSuspended, \* the thread's copy of it at the end of an action
    lock,         \* the holder of rl->lock, or "free"
    rpc,          \* where the thread and the printer are
    rsched,       \* the thread: "running", "preparing" to block or "asleep"
    mixed,        \* history: an item was put where it does not belong
    dropped,      \* history: an item the editor sent found the queue full
    entered,      \* history: characters that came in
    printed       \* history: messages printed

readVars == <<inq, out, last, txOn, consolebuf, action, suspended, wasSuspended,
              lock, rpc, rsched, mixed, dropped, entered, printed>>

Context == {"thread", "printer"}

IsAt(c, l) == rpc[c] = l
GoesTo(c, l) == rpc' = [rpc EXCEPT ![c] = l]

-----------------------------------------------------------------------------
(* The output queue                                                        *)

Console == {"x", "n"}

(* What may come next: a console line is not broken into, and it begins    *)
(* where the edited line is out of the way.                                *)
Follows(a, b) ==
    /\ a = "x" => b \in Console
    /\ b \in Console => a \in {"x", "n", "hidden", "crlf"}

Mixes(items) ==
    LET all == <<last>> \o items
    IN  \E i \in 1..Len(items) : ~Follows(all[i], all[i + 1])

PutItems(items) ==
    /\ out' = out + Len(items)
    /\ last' = IF items = <<>> THEN last ELSE items[Len(items)]
    /\ mixed' = (mixed \/ Mixes(items))

(* queue_writestr and queue_writechar: what does not fit is lost.          *)
Editor(item) ==
    IF out < OutSize THEN PutItems(<<item>>) /\ UNCHANGED dropped
    ELSE dropped' = TRUE /\ UNCHANGED <<out, last, mixed>>

NoOutput == UNCHANGED <<out, last, mixed, dropped>>

(* queue_notify_consumer: the UART's transmit interrupt is enabled.        *)
NotifyOut == txOn' = TRUE

Wake == rsched' = "running"

-----------------------------------------------------------------------------
(* do_drain, under the lock: readline_suspend, the console output, and     *)
(* readline_resume unless a line is left unfinished                        *)

Release == lock' = "free"

Suspend(c) ==
    /\ IsAt(c, "suspend")
    /\ IF suspended \/ action THEN NoOutput /\ UNCHANGED txOn
       ELSE Editor("hidden") /\ NotifyOut
    /\ suspended' = TRUE
    /\ GoesTo(c, "move")
    /\ UNCHANGED <<inq, consolebuf, action, wasSuspended, lock, rsched, entered, printed>>

(* With input pending, up to the first newline.  Once the buffer has       *)
(* wrapped around, queue_memchr may find a later one, or none.             *)
Limits ==
    LET newlines == {i \in 1..Len(consolebuf) : consolebuf[i] = "n"}
    IN  IF inq = <<>> THEN {Len(consolebuf)} ELSE newlines \cup {Len(consolebuf)}

(* queue_to_queue: as much as fits.  Its reader is not told.               *)
Move(c) ==
    /\ IsAt(c, "move")
    /\ \E max \in Limits :
         LET n == IF max < OutSize - out THEN max ELSE OutSize - out
         IN  /\ PutItems(SubSeq(consolebuf, 1, n))
             /\ consolebuf' = SubSeq(consolebuf, n + 1, Len(consolebuf))
    /\ GoesTo(c, "resume")
    /\ UNCHANGED <<inq, txOn, action, suspended, wasSuspended, lock, rsched, dropped,
                   entered, printed>>

AfterDrain == [thread |-> IF action THEN "action" ELSE "input", printer |-> "idle"]

(* Mutant: the line is shown again wherever the console output stands.     *)
ResumeAlways(c) ==
    /\ IsAt(c, "resume")
    /\ IF action THEN NoOutput /\ UNCHANGED txOn ELSE Editor("shown") /\ NotifyOut
    /\ suspended' = FALSE
    /\ Wake
    /\ Release
    /\ GoesTo(c, AfterDrain[c])
    /\ UNCHANGED <<inq, consolebuf, action, wasSuspended, entered, printed>>

Resume(c) ==
    /\ IsAt(c, "resume")
    /\ IF last \in {"n", "crlf"}
       THEN /\ IF action THEN NoOutput /\ UNCHANGED txOn ELSE Editor("shown") /\ NotifyOut
            /\ suspended' = FALSE
            /\ Wake
       ELSE NoOutput /\ UNCHANGED <<txOn, suspended, rsched>>
    /\ Release
    /\ GoesTo(c, AfterDrain[c])
    /\ UNCHANGED <<inq, consolebuf, action, wasSuspended, entered, printed>>

-----------------------------------------------------------------------------
(* drain_callback, after a message went into the console buffer.  Console  *)
(* writes are one at a time; what does not fit the buffer is lost.         *)

Messages == {<<"x", "n">>, <<"x">>}

PrintMessage(c) ==
    /\ IsAt(c, IF c = "thread" THEN "action" ELSE "idle")
    /\ printed < MaxMessages
    /\ \E m \in Messages :
         LET room == ConsoleSize - Len(consolebuf)
         IN  consolebuf' = consolebuf \o (IF Len(m) > room THEN SubSeq(m, 1, room) ELSE m)
    /\ printed' = printed + 1
    /\ GoesTo(c, "callback")
    /\ UNCHANGED <<inq, out, last, txOn, action, suspended, wasSuspended, lock, rsched,
                   mixed, dropped, entered>>

(* While the action runs it drains, otherwise it wakes the thread.  The   *)
(* early return for a lock that its own core holds (readline.c:641) is a   *)
(* crash report in the middle of a drain, which is not modelled.           *)
Callback(c) ==
    /\ IsAt(c, "callback") /\ lock = "free"
    /\ IF action THEN lock' = c /\ GoesTo(c, "suspend") /\ UNCHANGED rsched
       ELSE UNCHANGED lock /\ GoesTo(c, AfterDrain[c]) /\ Wake
    /\ UNCHANGED <<inq, out, last, txOn, consolebuf, action, suspended, wasSuspended,
                   mixed, dropped, entered, printed>>

-----------------------------------------------------------------------------
(* The thread: readline_rx                                                 *)

LoopStep(from, to) == IsAt("thread", from) /\ GoesTo("thread", to) /\ rsched # "asleep"

(* The rest of the state, for steps that only look or schedule.            *)
StateKept == UNCHANGED <<inq, out, last, consolebuf, action, suspended, wasSuspended,
                         lock, mixed, dropped, entered, printed>>

RlPrepare ==
    /\ IsAt("thread", "notify") \/ IsAt("thread", "prepare")
    /\ LoopStep(rpc["thread"], "check")
    /\ txOn' = (txOn \/ IsAt("thread", "notify"))
    /\ rsched' = "preparing"
    /\ StateKept

need_to_drain == consolebuf # <<>>

Check ==
    /\ LoopStep("check", IF (suspended \/ inq = <<>>) /\ ~need_to_drain
                         THEN "block" ELSE "drain")
    /\ StateKept /\ UNCHANGED <<txOn, rsched>>

RlBlock ==
    /\ LoopStep("block", "prepare")
    /\ rsched' = IF rsched = "preparing" THEN "asleep" ELSE rsched
    /\ StateKept /\ UNCHANGED txOn

(* It is no longer about to block; console output first.                   *)
Drain ==
    /\ IsAt("thread", "drain") /\ lock = "free"
    /\ Wake
    /\ IF need_to_drain THEN lock' = "thread" /\ GoesTo("thread", "suspend")
       ELSE UNCHANGED lock /\ GoesTo("thread", "input")
    /\ UNCHANGED <<inq, out, last, txOn, consolebuf, action, suspended, wasSuspended,
                   mixed, dropped, entered, printed>>

(* One character, unless the console has the terminal.                     *)
Input ==
    /\ IsAt("thread", "input")
    /\ IF suspended \/ inq = <<>> THEN NoOutput /\ GoesTo("thread", "notify") /\ UNCHANGED inq
       ELSE /\ inq' = Tail(inq)
            /\ IF Head(inq) = "return" THEN Editor("crlf") /\ GoesTo("thread", "enter")
               ELSE Editor("echo") /\ GoesTo("thread", "notify")
    /\ UNCHANGED <<txOn, consolebuf, action, suspended, wasSuspended, lock, rsched,
                   entered, printed>>

(* The line was entered: its end is on its way, and from now on printers   *)
(* serve themselves.                                                       *)
StartAction ==
    /\ LoopStep("enter", "action") /\ lock = "free"
    /\ NotifyOut
    /\ action' = TRUE
    /\ UNCHANGED <<inq, out, last, consolebuf, suspended, wasSuspended, lock, rsched,
                   mixed, dropped, entered, printed>>

(* The action asks for more lines, or ends the session.                    *)
EndAction ==
    /\ LoopStep("action", "prompt") /\ lock = "free"
    /\ wasSuspended' = suspended
    /\ action' = FALSE
    /\ UNCHANGED <<inq, out, last, txOn, consolebuf, suspended, lock, rsched, mixed,
                   dropped, entered, printed>>

EndSession == LoopStep("action", "over") /\ StateKept /\ UNCHANGED <<txOn, rsched>>

ShowPrompt ==
    /\ LoopStep("prompt", "notify")
    /\ IF wasSuspended THEN NoOutput ELSE Editor("shown")
    /\ UNCHANGED <<inq, txOn, consolebuf, action, suspended, wasSuspended, lock, rsched,
                   entered, printed>>

-----------------------------------------------------------------------------
(* The UART (external): it sends while there is something to send, tells   *)
(* the thread of the space (tx_callback), and brings input (rx_callback).  *)

Transmit ==
    /\ txOn
    /\ IF out = 0 THEN txOn' = FALSE /\ UNCHANGED <<out, rsched>>
       ELSE out' = out - 1 /\ Wake /\ UNCHANGED txOn
    /\ UNCHANGED <<inq, last, consolebuf, action, suspended, wasSuspended, lock, rpc,
                   mixed, dropped, entered, printed>>

Arrive ==
    /\ entered < MaxInput
    /\ \E c \in {"c", "return"} : inq' = Append(inq, c)
    /\ entered' = entered + 1
    /\ Wake
    /\ UNCHANGED <<out, last, txOn, consolebuf, action, suspended, wasSuspended, lock, rpc,
                   mixed, dropped, printed>>

(* The prompt has been shown.                                              *)
ReadlineInit ==
    /\ inq = <<>> /\ out = 1 /\ last = "shown" /\ txOn = FALSE
    /\ consolebuf = <<>>
    /\ action = FALSE /\ suspended = FALSE /\ wasSuspended = FALSE
    /\ lock = "free" /\ rsched = "running"
    /\ rpc = [thread |-> "notify", printer |-> "idle"]
    /\ mixed = FALSE /\ dropped = FALSE /\ entered = 0 /\ printed = 0

DoDrain(c) == Suspend(c) \/ Move(c) \/ Resume(c) \/ Callback(c)

RlThread == \/ RlPrepare \/ Check \/ RlBlock \/ Drain \/ Input
          \/ StartAction \/ EndAction \/ EndSession \/ ShowPrompt
          \/ DoDrain("thread")

ReadlineNext == \/ RlThread \/ DoDrain("printer") \/ Transmit \/ Arrive
                \/ \E c \in Context : PrintMessage(c)

-----------------------------------------------------------------------------

ReadlineTypeOK ==
    /\ out \in 0..OutSize /\ Len(consolebuf) <= ConsoleSize
    /\ last \in Console \cup {"shown", "hidden", "echo", "crlf"}
    /\ lock \in Context \cup {"free"}

(* No prompt and no echo gets into a line of console output, and console   *)
(* output never into the line being edited (readline.c:317-324, 436-440),  *)
(* as long as everything the editor sent fitted the queue.                 *)
ConsoleLinesWhole == ReadlineTypeOK /\ (mixed => dropped)

SessionOver == rpc["thread"] = "over"

(* Console output is drained, what was drained is sent, and input is read  *)
(* unless the console stands in the middle of a line or something the      *)
(* editor sent was lost.  All of it until an action ends the session.      *)
DrainServed ==
    /\ consolebuf # <<>> ~> consolebuf = <<>> \/ SessionOver
    /\ out > 0 ~> out = 0 \/ SessionOver
    /\ inq # <<>> ~> inq = <<>> \/ (suspended /\ last = "x") \/ SessionOver \/ dropped
=============================================================================
