------------------------------- MODULE Terminal -------------------------------
(* Input, output and text: threads that block on a queue (QueueBlocking),   *)
(* the line editor (LineEdit) and how it shares the terminal with the       *)
(* console (Readline), the byte channel (ByteChan), formatted output        *)
(* (Printf) and strings (Strings).  The parts share no state: a behaviour   *)
(* explores one of them, under the fairness of that one.                    *)
EXTENDS QueueBlocking, LineEdit, Readline, ByteChan, Printf, Strings

VARIABLE part

rest == <<editVars, readVars, chanVars, printfVars, stringVars>>
terminalVars == <<vars, rest, part>>

TerminalInit ==
    /\ Init /\ EditInit /\ ReadlineInit /\ ChanInit /\ PrintfInit /\ StringInit
    /\ part \in {"queue", "edit", "readline", "channel", "printf", "strings"}
    /\ part # "edit" => ~term.defers

QueuePart == part = "queue" /\ Next /\ UNCHANGED <<rest, part>>
EditPart ==
    /\ part = "edit" /\ EditNext
    /\ UNCHANGED <<vars, readVars, chanVars, printfVars, stringVars, part>>
ReadlinePart ==
    /\ part = "readline" /\ ReadlineNext
    /\ UNCHANGED <<vars, editVars, chanVars, printfVars, stringVars, part>>
ChannelPart ==
    /\ part = "channel" /\ ChanNext
    /\ UNCHANGED <<vars, editVars, readVars, printfVars, stringVars, part>>
PrintfPart ==
    /\ part = "printf" /\ PrintfNext
    /\ UNCHANGED <<vars, editVars, readVars, chanVars, stringVars, part>>
StringsPart ==
    /\ part = "strings" /\ StringNext
    /\ UNCHANGED <<vars, editVars, readVars, chanVars, printfVars, part>>

TerminalNext ==
    QueuePart \/ EditPart \/ ReadlinePart \/ ChannelPart \/ PrintfPart \/ StringsPart

(* A thread that is awake runs and the reader's client reads on; readline's *)
(* thread runs, a printer's callback ends, the UART sends.                  *)
TerminalFairness ==
    /\ WF_vars(part = "queue" /\ Writer)
    /\ WF_vars(part = "queue" /\ Reader)
    /\ WF_vars(part = "queue" /\ ReadCall)
    /\ WF_readVars(part = "readline" /\ RlThread)
    /\ WF_readVars(part = "readline" /\ DoDrain("printer"))
    /\ WF_readVars(part = "readline" /\ Transmit)

TerminalSpec == TerminalInit /\ [][TerminalNext]_terminalVars /\ TerminalFairness

(* What a thread that blocks on a queue may rely on: no notification comes  *)
(* between its try and its sleep unseen, and bytes get there whole, once    *)
(* and in order (lib/queue.c:87-232).                                       *)
QueueSound == TypeOK /\ NoLostWakeup /\ BytesConserved /\ WholeWritesInOrder

(* Every blocking write returns and every byte is delivered (lib/queue.c);  *)
(* console output is drained and sent, input is read (lib/readline.c).      *)
Served ==
    /\ WriteReturns /\ AllDelivered
    /\ part = "readline" => DrainServed

(* Text is formatted, copied, searched and read as the callers mean it.     *)
TextExact == PrintExact /\ StringsExact
=============================================================================
