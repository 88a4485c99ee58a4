---------------------------- MODULE ConsoleProofs ----------------------------
(***************************************************************************)
(* Proofs about Console, for any cores, size of the queue and length of    *)
(* the messages: set_crashing keeps crash reports apart, and vprintf's one *)
(* buffer intact for them, as long as no trap comes in a trap's handler;   *)
(* its count is exact for traps within traps; and as long as no trap comes *)
(* at all, messages come out whole.                                        *)
(***************************************************************************)
EXTENDS Console, SequenceTheorems, FiniteSetTheorems, TLAPS

PrintFrames == [fn : {"vprintf"}, pc : {"check", "lock", "format", "write", "drain", "send", "unlock"},
                msg : Cpu \X {"thread", "report"} \X Nat, lock : BOOLEAN,
                left : Int, from : Int, to : Int]
HandlerFrames == [fn : {"crash"},
                  pc : {"set_crashing", "crash_lock", "drain", "send", "message", "clear",
                        "crash_unlock", "end"},
                  from : Int, to : Int]
Frames == PrintFrames \cup HandlerFrames

(* A thread's vprintf takes the lock; a report's does not.                  *)
ThreadFrames(c) == {f \in PrintFrames : f.lock = TRUE /\ f.msg[1] = c /\ f.msg[2] = "thread"}
ReportFrames(c) == {f \in PrintFrames :
    /\ f.msg[1] = c /\ f.msg[2] = "report"
    /\ \/ f.pc = "check" /\ f.lock = TRUE
       \/ f.pc \in {"format", "write", "drain", "send", "unlock"} /\ f.lock = FALSE}

(* What a trap interrupts: nothing, or a thread's vprintf.                  *)
Thread(c) == {<<>>} \cup {<<t>> : t \in ThreadFrames(c)}

(* A handler at each of its steps: cpu->crashing, and who holds crash_lock. *)
Handling(c, pc, k, l) ==
    \/ pc = "set_crashing" /\ k = 0 /\ l # c
    \/ pc = "crash_lock" /\ k = 1 /\ l # c
    \/ pc \in {"drain", "send", "message", "clear"} /\ k = 1 /\ l = c
    \/ pc = "crash_unlock" /\ k = 0 /\ l = c
    \/ pc = "end" /\ k = 0 /\ l # c

(* A core without nested traps: in a thread, in a handler over a thread, or *)
(* in the report of a handler, with vprintf's buffer its own from the time  *)
(* it is formatted unless a thread of another core took it.                 *)
Quiet(c, s, k, l) == s \in Thread(c) /\ k = 0 /\ l # c
Handles(c, s, k, l) ==
    \E h \in HandlerFrames, u \in Thread(c) : s = <<h>> \o u /\ Handling(c, h.pc, k, l)
Buffered(c, r, v) == r.pc = "write" => v = r.msg \/ (v[1] # c /\ v[2] = "thread")
Reporting(c, s, k, l, v) ==
    \E r \in ReportFrames(c), h \in HandlerFrames, u \in Thread(c) :
        /\ s = <<r>> \o (<<h>> \o u) /\ h.pc = "clear" /\ l = c
        /\ k = (IF r.pc = "check" THEN 1 ELSE 1 + CRASH_IN_PRINT)
        /\ Buffered(c, r, v)

Shape(c, s, k, l, v) == Quiet(c, s, k, l) \/ Handles(c, s, k, l) \/ Reporting(c, s, k, l, v)

Orderly ==
    /\ stack = [c \in Cpu |-> stack[c]] /\ crashing \in [Cpu -> Int]
    /\ head \in Int /\ tail \in Int /\ events \in Nat
    /\ \A c \in Cpu : Shape(c, stack[c], crashing[c], crash_lock, vbuf)

ConsoleInv == nested \/ Orderly

-----------------------------------------------------------------------------
(* Stacks                                                                  *)

LEMMA Cons ==
    ASSUME NEW S, NEW a \in S, NEW b \in S, NEW s \in Seq(S)
    PROVE  /\ <<a>> \o s \in Seq(S) /\ <<a>> \o s # <<>>
           /\ (<<a>> \o s)[1] = a /\ Head(<<a>> \o s) = a /\ Tail(<<a>> \o s) = s
           /\ <<a, b>> \o s = <<a>> \o (<<b>> \o s)
           /\ 1 \in DOMAIN (<<a>> \o s)
           /\ s # <<>> => 2 \in DOMAIN (<<a>> \o s) /\ (<<a>> \o s)[2] = s[1]
<1> DEFINE l == <<a>> \o s
           m == <<b>> \o s
<1>1. /\ l \in Seq(S) /\ Len(l) = Len(s) + 1 /\ l[1] = a /\ Len(s) \in Nat
      /\ \A i \in 1 .. Len(s) : l[i + 1] = s[i]
  OBVIOUS
<1>2. /\ m \in Seq(S) /\ Len(m) = Len(s) + 1 /\ m[1] = b
      /\ \A i \in 1 .. Len(s) : m[i + 1] = s[i]
  OBVIOUS
<1>3. <<a, b>> \o s = <<a>> \o m
  <2>1. /\ <<a, b>> \o s \in Seq(S) /\ Len(<<a, b>> \o s) = Len(s) + 2
        /\ (<<a, b>> \o s)[1] = a /\ (<<a, b>> \o s)[2] = b
        /\ \A i \in 1 .. Len(s) : (<<a, b>> \o s)[i + 2] = s[i]
    OBVIOUS
  <2>2. /\ <<a>> \o m \in Seq(S) /\ Len(<<a>> \o m) = Len(m) + 1 /\ (<<a>> \o m)[1] = a
        /\ \A i \in 1 .. Len(m) : (<<a>> \o m)[i + 1] = m[i]
    BY <1>2
  <2>3. \A i \in 1 .. Len(s) + 2 : (<<a, b>> \o s)[i] = (<<a>> \o m)[i]
    <3> TAKE i \in 1 .. Len(s) + 2
    <3>1. CASE i = 1
      BY <2>1, <2>2, <3>1
    <3>2. CASE i = 2
      BY <2>1, <2>2, <3>2, <1>1, <1>2
    <3>3. CASE i > 2
      <4> DEFINE k == i - 2
      <4>1. k \in 1 .. Len(s) /\ i = k + 2 /\ k + 1 \in 1 .. Len(m) /\ i = (k + 1) + 1
        BY <3>3, <1>1, <1>2
      <4> HIDE DEF k, m
      <4> QED BY <4>1, <2>1, <2>2, <1>2
    <3> QED BY <3>1, <3>2, <3>3, <1>1
  <2> HIDE DEF m
  <2> QED BY <2>1, <2>2, <2>3, <1>2, <1>1, SeqEqual
<1> HIDE DEF l, m
<1>4. Tail(l) = s
  <2>1. l # <<>>
    BY <1>1
  <2>2. Tail(l) \in Seq(S) /\ Len(Tail(l)) = Len(s) /\ \A i \in 1 .. Len(Tail(l)) : Tail(l)[i] = l[i + 1]
    BY <1>1, <2>1, HeadTailProperties
  <2> QED BY <1>1, <2>2, SeqEqual
<1>6. l # <<>> /\ Head(l) = l[1] /\ 1 \in DOMAIN l
  BY <1>1
<1>7. s # <<>> => 2 \in DOMAIN l /\ l[2] = s[1]
  <2> SUFFICES ASSUME s # <<>> PROVE 2 \in DOMAIN l /\ l[2] = s[1]
    OBVIOUS
  <2>1. 1 \in 1 .. Len(s) /\ 2 = 1 + 1 /\ 2 \in 1 .. Len(l)
    BY <1>1, EmptySeq
  <2> QED BY <2>1, <1>1
<1> QED BY <1>1, <1>3, <1>4, <1>6, <1>7 DEF l, m

LEMMA OnTop ==
    ASSUME NEW S, NEW a \in S, NEW b \in S, NEW s \in Seq(S)
    PROVE  [(<<a>> \o s) EXCEPT ![1] = b] = <<b>> \o s
<1> DEFINE l == <<a>> \o s
           m == <<b>> \o s
<1>1. /\ l \in Seq(S) /\ Len(l) = Len(s) + 1 /\ l[1] = a /\ Len(s) \in Nat
      /\ \A i \in 1 .. Len(s) : l[i + 1] = s[i]
  OBVIOUS
<1>2. /\ m \in Seq(S) /\ Len(m) = Len(s) + 1 /\ m[1] = b
      /\ \A i \in 1 .. Len(s) : m[i + 1] = s[i]
  OBVIOUS
<1> HIDE DEF l, m
<1>3. /\ [l EXCEPT ![1] = b] \in Seq(S) /\ Len([l EXCEPT ![1] = b]) = Len(l)
      /\ \A j \in 1 .. Len(l) : [l EXCEPT ![1] = b][j] = IF j = 1 THEN b ELSE l[j]
  BY <1>1, ExceptSeq
<1>4. \A j \in 1 .. Len(m) : [l EXCEPT ![1] = b][j] = m[j]
  <2> TAKE j \in 1 .. Len(m)
  <2>1. CASE j = 1
    BY <2>1, <1>1, <1>2, <1>3
  <2>2. CASE j # 1
    <3>1. j - 1 \in 1 .. Len(s) /\ j = (j - 1) + 1 /\ j \in 1 .. Len(l)
      BY <2>2, <1>1, <1>2
    <3>2. l[j] = s[j - 1] /\ m[j] = s[j - 1]
      BY <3>1, <1>1, <1>2
    <3> QED BY <2>2, <3>1, <3>2, <1>3
  <2> QED BY <2>1, <2>2
<1>5. [l EXCEPT ![1] = b] = m
  BY <1>1, <1>2, <1>3, <1>4, SeqEqual
<1> QED BY <1>5 DEF l, m

LEMMA Threads ==
    ASSUME NEW c, NEW u \in Thread(c)
    PROVE  /\ u \in Seq(Frames)
           /\ u # <<>> => Head(u) \in ThreadFrames(c) /\ u = <<Head(u)>> /\ Tail(u) = <<>>
<1>1. CASE u = <<>>
  BY <1>1
<1>2. ASSUME NEW t \in ThreadFrames(c), u = <<t>> PROVE u \in Seq(Frames) /\ Head(u) = t /\ Tail(u) = <<>>
  BY <1>2 DEF ThreadFrames, Frames
<1> QED BY <1>1, <1>2 DEF Thread

-----------------------------------------------------------------------------
(* Steps of one core                                                       *)

StaysTyped ==
    head' \in Int /\ tail' \in Int /\ events' \in Nat

(* The other cores see the lock, and the buffer of a report, unchanged.     *)
Apart(c) ==
    \A d \in Cpu \ {c} :
        /\ crash_lock' = d <=> crash_lock = d
        /\ vbuf' = vbuf \/ \A r \in ReportFrames(d) : crash_lock = d => Buffered(d, r, vbuf')

LEMMA LocalStep ==
    ASSUME Orderly, NEW c \in Cpu, NEW s, NEW k \in Int, StaysTyped, Apart(c),
           stack' = [stack EXCEPT ![c] = s], crashing' = [crashing EXCEPT ![c] = k],
           Shape(c, s, k, crash_lock', vbuf')
    PROVE  Orderly'
<1>1. DOMAIN stack = Cpu /\ crashing \in [Cpu -> Int]
  BY DEF Orderly
<1>2. /\ stack'[c] = s /\ crashing'[c] = k
      /\ \A d \in Cpu \ {c} : stack'[d] = stack[d] /\ crashing'[d] = crashing[d]
      /\ stack' = [d \in Cpu |-> stack'[d]] /\ crashing' \in [Cpu -> Int]
  BY <1>1
<1>3. ASSUME NEW d \in Cpu \ {c}
      PROVE  Shape(d, stack'[d], crashing'[d], crash_lock', vbuf')
  <2>1. Shape(d, stack[d], crashing[d], crash_lock, vbuf)
    BY DEF Orderly
  <2>2. crash_lock' = d <=> crash_lock = d
    BY DEF Apart
  <2>3. CASE Quiet(d, stack[d], crashing[d], crash_lock)
    BY <1>2, <2>2, <2>3 DEF Shape, Quiet
  <2>4. CASE Handles(d, stack[d], crashing[d], crash_lock)
    BY <1>2, <2>2, <2>4 DEF Shape, Handles, Handling
  <2>5. CASE Reporting(d, stack[d], crashing[d], crash_lock, vbuf)
    <3>1. \A r \in ReportFrames(d) : crash_lock = d /\ Buffered(d, r, vbuf) => Buffered(d, r, vbuf')
      BY DEF Apart
    <3> QED BY <1>2, <2>2, <2>5, <3>1 DEF Shape, Reporting
  <2> QED BY <2>1, <2>3, <2>4, <2>5 DEF Shape
<1> QED BY <1>2, <1>3 DEF Orderly, StaysTyped

(* What a frame says of its core.                                           *)
LEMMA PrintTop ==
    ASSUME Orderly, NEW c \in Cpu, stack[c] # <<>>, top(c).fn = "vprintf"
    PROVE  \/ /\ top(c) \in ThreadFrames(c) /\ stack[c] = <<top(c)>>
              /\ crashing[c] = 0 /\ crash_lock # c
           \/ /\ top(c) \in ReportFrames(c) /\ crash_lock = c
              /\ \E h \in HandlerFrames, u \in Thread(c) : stack[c] = <<top(c)>> \o (<<h>> \o u) /\ h.pc = "clear"
              /\ crashing[c] = (IF top(c).pc = "check" THEN 1 ELSE 1 + CRASH_IN_PRINT)
              /\ Buffered(c, top(c), vbuf)
<1>1. Shape(c, stack[c], crashing[c], crash_lock, vbuf)
  BY DEF Orderly
<1>2. CASE Quiet(c, stack[c], crashing[c], crash_lock)
  BY <1>2, Threads DEF Quiet, top
<1>3. CASE Handles(c, stack[c], crashing[c], crash_lock)
  <2>1. PICK h \in HandlerFrames, u \in Thread(c) : stack[c] = <<h>> \o u
    BY <1>3 DEF Handles
  <2>2. top(c) = h
    BY <2>1, Threads, Cons DEF Frames, top
  <2> QED BY <2>2 DEF HandlerFrames
<1>4. CASE Reporting(c, stack[c], crashing[c], crash_lock, vbuf)
  <2>1. PICK r \in ReportFrames(c), h \in HandlerFrames, u \in Thread(c) :
          /\ stack[c] = <<r>> \o (<<h>> \o u) /\ h.pc = "clear" /\ crash_lock = c
          /\ crashing[c] = (IF r.pc = "check" THEN 1 ELSE 1 + CRASH_IN_PRINT)
          /\ Buffered(c, r, vbuf)
    BY <1>4 DEF Reporting
  <2>2. r \in Frames /\ h \in Frames /\ u \in Seq(Frames)
    BY Threads DEF Frames, ReportFrames
  <2>3. <<h>> \o u \in Seq(Frames)
    BY <2>2, Cons
  <2>4. top(c) = r
    BY <2>1, <2>2, <2>3, Cons DEF top
  <2> QED BY <2>1, <2>4
<1> QED BY <1>1, <1>2, <1>3, <1>4 DEF Shape

LEMMA CrashTop ==
    ASSUME Orderly, NEW c \in Cpu, stack[c] # <<>>, top(c).fn = "crash"
    PROVE  /\ top(c) \in HandlerFrames
           /\ \E u \in Thread(c) : stack[c] = <<top(c)>> \o u
           /\ Handling(c, top(c).pc, crashing[c], crash_lock)
<1>1. Shape(c, stack[c], crashing[c], crash_lock, vbuf)
  BY DEF Orderly
<1>2. CASE Quiet(c, stack[c], crashing[c], crash_lock)
  BY <1>2, Threads DEF Quiet, top, ThreadFrames, PrintFrames
<1>3. CASE Handles(c, stack[c], crashing[c], crash_lock)
  <2>1. PICK h \in HandlerFrames, u \in Thread(c) :
          stack[c] = <<h>> \o u /\ Handling(c, h.pc, crashing[c], crash_lock)
    BY <1>3 DEF Handles
  <2>2. top(c) = h
    BY <2>1, Threads, Cons DEF Frames, top
  <2> QED BY <2>1, <2>2
<1>4. CASE Reporting(c, stack[c], crashing[c], crash_lock, vbuf)
  <2>1. PICK r \in ReportFrames(c), h \in HandlerFrames, u \in Thread(c) : stack[c] = <<r>> \o (<<h>> \o u)
    BY <1>4 DEF Reporting
  <2>2. r \in Frames /\ h \in Frames /\ u \in Seq(Frames)
    BY Threads DEF Frames, ReportFrames
  <2>3. top(c) = r
    BY <2>1, <2>2, Cons DEF top
  <2> QED BY <2>3 DEF ReportFrames, PrintFrames
<1> QED BY <1>1, <1>2, <1>3, <1>4 DEF Shape

(* The frame on top changes.                                                *)
LEMMA ThreadStep ==
    ASSUME Orderly, NEW c \in Cpu, stack[c] # <<>>, top(c) \in ThreadFrames(c), StaysTyped, Apart(c),
           NEW g \in ThreadFrames(c), Become(c, g), crashing' = crashing, crash_lock' = crash_lock
    PROVE  Orderly'
<1>1. stack[c] = <<top(c)>> /\ crashing[c] = 0 /\ crash_lock # c
  <2>1. top(c).fn = "vprintf" /\ ~(top(c) \in ReportFrames(c))
    BY DEF ThreadFrames, ReportFrames, PrintFrames
  <2> QED BY <2>1, PrintTop
<1>2. stack' = [stack EXCEPT ![c] = <<g>>]
  <2>1. PICK t : stack[c] = <<t>>
    BY <1>1
  <2>2. [stack[c] EXCEPT ![1] = g] = <<g>>
    BY <2>1
  <2> QED BY <2>2 DEF Become
<1>3. crashing' = [crashing EXCEPT ![c] = 0]
  BY <1>1 DEF Orderly
<1>4. Shape(c, <<g>>, 0, crash_lock', vbuf')
  BY <1>1 DEF Shape, Quiet, Thread
<1> DEFINE s == <<g>>
           k == 0
<1>5. k \in Int
  OBVIOUS
<1>6. stack' = [stack EXCEPT ![c] = s] /\ crashing' = [crashing EXCEPT ![c] = k]
  BY <1>2, <1>3, Zenon
<1>7. Shape(c, s, k, crash_lock', vbuf')
  BY <1>4, Zenon
<1> HIDE DEF s, k
<1> QED BY <1>5, <1>6, <1>7, LocalStep

LEMMA ReportStep ==
    ASSUME Orderly, NEW c \in Cpu, stack[c] # <<>>, top(c) \in ReportFrames(c), StaysTyped, Apart(c),
           NEW g \in ReportFrames(c), Become(c, g), crash_lock' = crash_lock,
           NEW k \in Int, crashing' = [crashing EXCEPT ![c] = k],
           k = (IF g.pc = "check" THEN 1 ELSE 1 + CRASH_IN_PRINT), Buffered(c, g, vbuf')
    PROVE  Orderly'
<1>1. top(c).fn = "vprintf" /\ ~(top(c) \in ThreadFrames(c))
  BY DEF ThreadFrames, ReportFrames, PrintFrames
<1>2. crash_lock = c
  BY <1>1, PrintTop
<1>3. PICK h \in HandlerFrames, u \in Thread(c) : stack[c] = <<top(c)>> \o (<<h>> \o u) /\ h.pc = "clear"
  BY <1>1, PrintTop
<1>4. top(c) \in Frames /\ g \in Frames /\ <<h>> \o u \in Seq(Frames)
  BY Threads, Cons DEF Frames, ReportFrames
<1>5. [stack[c] EXCEPT ![1] = g] = <<g>> \o (<<h>> \o u)
  <2>1. PICK f \in Frames : stack[c] = <<f>> \o (<<h>> \o u)
    BY <1>3, <1>4
  <2> DEFINE w == <<h>> \o u
  <2>2. w \in Seq(Frames) /\ stack[c] = <<f>> \o w
    BY <1>4, <2>1
  <2> HIDE DEF w
  <2>3. [(<<f>> \o w) EXCEPT ![1] = g] = <<g>> \o w
    BY <1>4, <2>2, OnTop
  <2>4. [stack[c] EXCEPT ![1] = g] = <<g>> \o w
    BY <2>2, <2>3, Zenon
  <2> QED BY <2>4 DEF w
<1>6. stack' = [stack EXCEPT ![c] = <<g>> \o (<<h>> \o u)]
  BY <1>5 DEF Become
<1>7. Shape(c, <<g>> \o (<<h>> \o u), k, crash_lock', vbuf')
  BY <1>2, <1>3 DEF Shape, Reporting
<1> QED BY <1>6, <1>7, LocalStep

LEMMA HandlerStep ==
    ASSUME Orderly, NEW c \in Cpu, stack[c] # <<>>, top(c).fn = "crash", StaysTyped, Apart(c),
           NEW g \in HandlerFrames, Become(c, g),
           NEW k \in Int, crashing' = [crashing EXCEPT ![c] = k],
           Handling(c, g.pc, k, crash_lock')
    PROVE  Orderly'
<1>1. PICK u \in Thread(c) : top(c) \in HandlerFrames /\ stack[c] = <<top(c)>> \o u
  BY CrashTop
<1>2. [stack[c] EXCEPT ![1] = g] = <<g>> \o u
  <2>1. PICK f \in Frames : stack[c] = <<f>> \o u
    BY <1>1 DEF Frames
  <2>2. g \in Frames /\ u \in Seq(Frames)
    BY Threads DEF Frames
  <2>3. [(<<f>> \o u) EXCEPT ![1] = g] = <<g>> \o u
    BY <2>2, OnTop
  <2> QED BY <2>1, <2>3, Zenon
<1>3. stack' = [stack EXCEPT ![c] = <<g>> \o u]
  BY <1>2 DEF Become
<1>4. Shape(c, <<g>> \o u, k, crash_lock', vbuf')
  BY DEF Shape, Handles
<1> QED BY <1>3, <1>4, LocalStep

(* A frame is left.                                                         *)
LEMMA PopStep ==
    ASSUME Orderly, NEW c \in Cpu, stack[c] # <<>>, Pop(c), StaysTyped, Apart(c), vbuf' = vbuf,
           NEW k \in Int, crashing' = [crashing EXCEPT ![c] = k],
           \/ top(c).fn = "crash" /\ k = 0 /\ crash_lock' # c
           \/ top(c) \in ThreadFrames(c) /\ k = 0 /\ crash_lock' # c
           \/ top(c) \in ReportFrames(c) /\ k = 1 /\ crash_lock' = c
    PROVE  Orderly'
<1> DEFINE s == Tail(stack[c])
<1>1. stack' = [stack EXCEPT ![c] = s]
  BY DEF Pop
<1>2. ASSUME top(c).fn = "crash", k = 0, crash_lock' # c PROVE Shape(c, s, k, crash_lock', vbuf')
  <2>1. PICK u \in Thread(c) : top(c) \in HandlerFrames /\ stack[c] = <<top(c)>> \o u
    BY <1>2, CrashTop
  <2>2. PICK f \in Frames : stack[c] = <<f>> \o u
    BY <2>1 DEF Frames
  <2>3. s = u
    BY <2>2, Threads, Cons
  <2> QED BY <2>3, <1>2 DEF Shape, Quiet
<1>3. ASSUME top(c) \in ThreadFrames(c), k = 0, crash_lock' # c PROVE Shape(c, s, k, crash_lock', vbuf')
  <2>1. top(c).fn = "vprintf" /\ ~(top(c) \in ReportFrames(c))
    BY <1>3 DEF ThreadFrames, ReportFrames, PrintFrames
  <2>2. PICK t : stack[c] = <<t>>
    BY <2>1, PrintTop
  <2>3. s = <<>>
    BY <2>2
  <2> QED BY <2>3, <1>3 DEF Shape, Quiet, Thread
<1>4. ASSUME top(c) \in ReportFrames(c), k = 1, crash_lock' = c PROVE Shape(c, s, k, crash_lock', vbuf')
  <2>1. top(c).fn = "vprintf" /\ ~(top(c) \in ThreadFrames(c))
    BY <1>4 DEF ThreadFrames, ReportFrames, PrintFrames
  <2>2. PICK h \in HandlerFrames, u \in Thread(c) : stack[c] = <<top(c)>> \o (<<h>> \o u) /\ h.pc = "clear"
    BY <2>1, PrintTop
  <2>3. PICK f \in Frames : stack[c] = <<f>> \o (<<h>> \o u)
    BY <2>2, <1>4 DEF Frames, ReportFrames
  <2>4. <<h>> \o u \in Seq(Frames)
    BY Threads, Cons DEF Frames
  <2>5. s = <<h>> \o u
    <3> DEFINE w == <<h>> \o u
    <3>1. w \in Seq(Frames) /\ stack[c] = <<f>> \o w
      BY <2>3, <2>4
    <3> HIDE DEF w
    <3>2. Tail(<<f>> \o w) = w
      BY <3>1, Cons
    <3> QED BY <3>1, <3>2 DEF w
  <2> QED BY <2>2, <2>5, <1>4 DEF Shape, Handles, Handling
<1> HIDE DEF s
<1> QED BY <1>1, <1>2, <1>3, <1>4, LocalStep

LEMMA Still ==
    ASSUME Orderly, NEW c \in Cpu
    PROVE  /\ UNCHANGED <<head, tail, events>> => StaysTyped
           /\ UNCHANGED <<crash_lock, vbuf>> => Apart(c)
           /\ crashing' = crashing => crashing' = [crashing EXCEPT ![c] = crashing[c]]
           /\ crashing[c] \in Int
  BY DEF Orderly, StaysTyped, Apart

-----------------------------------------------------------------------------
(* vprintf                                                                 *)

LEMMA PrintCheck_Orderly ==
    ASSUME Orderly, NEW c \in Cpu, PrintCheck(c) PROVE Orderly'
<1>1. /\ stack[c] # <<>> /\ top(c).fn = "vprintf" /\ top(c).pc = "check"
      /\ UNCHANGED <<crash_lock, vbuf, head, tail, events>>
  BY DEF PrintCheck, At, buffer, locks, counts
<1>2. StaysTyped /\ Apart(c)
  BY <1>1, Still
<1>3. CASE top(c) \in ThreadFrames(c)
  <2>1. crashing[c] = 0
    BY <1>1, <1>3, PrintTop DEF ThreadFrames, ReportFrames
  <2>2. Become(c, [top(c) EXCEPT !.pc = "lock"]) /\ crashing' = crashing
    BY <2>1 DEF PrintCheck, Goto, CRASH_IN_PRINT
  <2>3. [top(c) EXCEPT !.pc = "lock"] \in ThreadFrames(c)
    BY <1>3 DEF ThreadFrames, PrintFrames
  <2> QED BY <1>1, <1>2, <1>3, <2>2, <2>3, ThreadStep
<1>4. CASE top(c) \in ReportFrames(c)
  <2>1. crashing[c] = 1
    BY <1>1, <1>4, PrintTop DEF ThreadFrames, ReportFrames
  <2> DEFINE g == [top(c) EXCEPT !.pc = "format", !.lock = FALSE]
  <2>2. Become(c, g) /\ crashing' = [crashing EXCEPT ![c] = 1 + CRASH_IN_PRINT]
    BY <2>1 DEF PrintCheck, CRASH_IN_PRINT
  <2>3. g \in ReportFrames(c) /\ g.pc = "format"
    BY <1>4 DEF ReportFrames, PrintFrames
  <2>4. 1 + CRASH_IN_PRINT \in Int /\ Buffered(c, g, vbuf')
    BY <2>3 DEF CRASH_IN_PRINT, Buffered
  <2> HIDE DEF g
  <2> QED BY <1>1, <1>2, <1>4, <2>2, <2>3, <2>4, ReportStep
<1> QED BY <1>1, <1>3, <1>4, PrintTop

LEMMA PrintLock_Orderly ==
    ASSUME Orderly, NEW c \in Cpu, PrintLock(c) PROVE Orderly'
<1>1. /\ stack[c] # <<>> /\ top(c).fn = "vprintf" /\ top(c).pc = "lock"
      /\ UNCHANGED <<crash_lock, vbuf, head, tail, events, crashing>>
      /\ Become(c, [top(c) EXCEPT !.pc = "format"])
  BY DEF PrintLock, At, buffer, locks, counts, Goto
<1>2. StaysTyped /\ Apart(c)
  BY <1>1, Still
<1>3. top(c) \in ThreadFrames(c)
  BY <1>1, PrintTop DEF ReportFrames
<1>4. [top(c) EXCEPT !.pc = "format"] \in ThreadFrames(c)
  BY <1>3 DEF ThreadFrames, PrintFrames
<1> QED BY <1>1, <1>2, <1>3, <1>4, ThreadStep

(* The report's message enters the buffer; or a thread's does, perhaps over *)
(* the report of another core.                                              *)
LEMMA Format_Orderly ==
    ASSUME Orderly, NEW c \in Cpu, Format(c) PROVE Orderly'
<1> DEFINE g == [top(c) EXCEPT !.pc = "write"]
<1>1. /\ stack[c] # <<>> /\ top(c).fn = "vprintf" /\ top(c).pc = "format"
      /\ UNCHANGED <<crash_lock, head, tail, events, crashing>>
      /\ Become(c, g) /\ vbuf' = top(c).msg
  BY DEF Format, At, buffer, locks, counts, Goto
<1>2. StaysTyped
  BY <1>1, Still
<1>3. CASE top(c) \in ThreadFrames(c)
  <2>1. g \in ThreadFrames(c)
    BY <1>3 DEF ThreadFrames, PrintFrames
  <2>2. vbuf'[1] = c /\ vbuf'[2] = "thread"
    BY <1>1, <1>3 DEF ThreadFrames
  <2>3. Apart(c)
    BY <1>1, <2>2 DEF Apart, Buffered
  <2> HIDE DEF g
  <2> QED BY <1>1, <1>2, <1>3, <2>1, <2>3, ThreadStep
<1>4. CASE top(c) \in ReportFrames(c)
  <2>1. crash_lock = c /\ crashing[c] = 1 + CRASH_IN_PRINT
    BY <1>1, <1>4, PrintTop DEF ThreadFrames, ReportFrames
  <2>2. g \in ReportFrames(c) /\ g.pc = "write" /\ g.msg = top(c).msg
    BY <1>1, <1>4 DEF ReportFrames, PrintFrames
  <2>3. Apart(c)
    BY <1>1, <2>1 DEF Apart
  <2>4. Buffered(c, g, vbuf')
    BY <1>1, <2>2 DEF Buffered
  <2>5. crashing' = [crashing EXCEPT ![c] = crashing[c]] /\ crashing[c] \in Int
    BY <1>1, Still
  <2> HIDE DEF g
  <2> QED BY <1>1, <1>2, <1>4, <2>1, <2>2, <2>3, <2>4, <2>5, ReportStep
<1> QED BY <1>1, <1>3, <1>4, PrintTop

LEMMA Written ==
    ASSUME NEW f \in PrintFrames, f.pc = "write"
    PROVE  LET g == [f EXCEPT !.left = @ - 1, !.pc = IF f.left = 1 THEN "drain" ELSE @]
           IN g \in PrintFrames /\ g.pc \in {"write", "drain"} /\ g.msg = f.msg /\ g.lock = f.lock
<1> DEFINE e == [f EXCEPT !.left = @ - 1]
           p == IF f.left = 1 THEN "drain" ELSE e.pc
<1>1. e \in PrintFrames /\ e.pc = "write" /\ e.msg = f.msg /\ e.lock = f.lock
  BY DEF PrintFrames
<1>2. p \in {"write", "drain"}
  BY <1>1
<1>3. [e EXCEPT !.pc = p] = [f EXCEPT !.left = @ - 1, !.pc = IF f.left = 1 THEN "drain" ELSE @]
  OBVIOUS
<1> HIDE DEF e, p
<1>4. LET g == [e EXCEPT !.pc = p]
      IN g \in PrintFrames /\ g.pc \in {"write", "drain"} /\ g.msg = f.msg /\ g.lock = f.lock
  BY <1>1, <1>2 DEF PrintFrames
<1> QED BY <1>3, <1>4, Zenon

LEMMA PutChar_Orderly ==
    ASSUME Orderly, NEW c \in Cpu, PutChar(c) PROVE Orderly'
<1> DEFINE g == [top(c) EXCEPT !.left = @ - 1, !.pc = IF top(c).left = 1 THEN "drain" ELSE @]
<1>1. /\ stack[c] # <<>> /\ top(c).fn = "vprintf" /\ top(c).pc = "write"
      /\ UNCHANGED <<crash_lock, vbuf, events, crashing>>
      /\ Become(c, g) /\ (UNCHANGED buffer \/ Stored(vbuf))
  BY DEF PutChar, At, locks, counts
<1>2. StaysTyped /\ Apart(c)
  <2>1. wrap(tail + 1) \in Int
    BY SizeAssumption DEF Orderly, wrap
  <2> QED BY <1>1, <2>1 DEF Orderly, StaysTyped, Apart, Stored, buffer
<1>3. CASE top(c) \in ThreadFrames(c)
  <2>1. g \in ThreadFrames(c)
    BY <1>1, <1>3, Written DEF ThreadFrames
  <2> HIDE DEF g
  <2> QED BY <1>1, <1>2, <1>3, <2>1, ThreadStep
<1>4. CASE top(c) \in ReportFrames(c)
  <2>1. crashing[c] = 1 + CRASH_IN_PRINT /\ Buffered(c, top(c), vbuf)
    BY <1>1, <1>4, PrintTop DEF ThreadFrames, ReportFrames
  <2>2. g \in ReportFrames(c) /\ g.pc # "check" /\ g.msg = top(c).msg
    BY <1>1, <1>4, Written DEF ReportFrames
  <2>3. Buffered(c, g, vbuf')
    BY <1>1, <2>1, <2>2 DEF Buffered
  <2>4. crashing' = [crashing EXCEPT ![c] = crashing[c]] /\ crashing[c] \in Int
    BY <1>1, Still
  <2> HIDE DEF g
  <2> QED BY <1>1, <1>2, <1>4, <2>1, <2>2, <2>3, <2>4, ReportStep
<1> QED BY <1>1, <1>3, <1>4, PrintTop

LEMMA PrintUnlock_Orderly ==
    ASSUME Orderly, NEW c \in Cpu, PrintUnlock(c) PROVE Orderly'
<1>1. /\ stack[c] # <<>> /\ top(c).fn = "vprintf" /\ top(c).pc = "unlock"
      /\ UNCHANGED <<crash_lock, vbuf, head, tail, events>>
      /\ Pop(c)
  BY DEF PrintUnlock, At, buffer, counts
<1>2. StaysTyped /\ Apart(c) /\ crashing[c] \in Int
  BY <1>1, Still
<1>3. CASE top(c) \in ThreadFrames(c)
  <2>1. crashing[c] = 0 /\ crash_lock # c
    BY <1>1, <1>3, PrintTop DEF ThreadFrames, ReportFrames
  <2>2. crashing' = [crashing EXCEPT ![c] = crashing[c]]
    BY <1>3, Still DEF PrintUnlock, ThreadFrames
  <2> QED BY <1>1, <1>2, <1>3, <2>1, <2>2, PopStep
<1>4. CASE top(c) \in ReportFrames(c)
  <2>1. crashing[c] = 1 + CRASH_IN_PRINT /\ crash_lock = c
    BY <1>1, <1>4, PrintTop DEF ThreadFrames, ReportFrames
  <2>2. crashing' = [crashing EXCEPT ![c] = crashing[c] - CRASH_IN_PRINT]
    BY <1>1, <1>4 DEF PrintUnlock, ReportFrames
  <2> DEFINE k == crashing[c] - CRASH_IN_PRINT
  <2>3. k = 1 /\ k \in Int
    BY <2>1 DEF CRASH_IN_PRINT
  <2> HIDE DEF k
  <2>4. crashing' = [crashing EXCEPT ![c] = k]
    BY <2>2 DEF k
  <2> QED BY <1>1, <1>2, <1>4, <2>1, <2>3, <2>4, PopStep
<1> QED BY <1>1, <1>3, <1>4, PrintTop

-----------------------------------------------------------------------------
(* drain_consolebuf                                                        *)

LEMMA TopKinds ==
    ASSUME Orderly, NEW c \in Cpu, stack[c] # <<>>
    PROVE  \/ top(c) \in ThreadFrames(c) /\ top(c).fn = "vprintf"
           \/ top(c) \in ReportFrames(c) /\ top(c).fn = "vprintf"
           \/ top(c) \in HandlerFrames /\ top(c).fn = "crash"
<1>1. top(c).fn = "vprintf" \/ top(c).fn = "crash"
  <2>1. Shape(c, stack[c], crashing[c], crash_lock, vbuf)
    BY DEF Orderly
  <2>2. CASE Quiet(c, stack[c], crashing[c], crash_lock)
    BY <2>2, Threads DEF Quiet, top, ThreadFrames, PrintFrames
  <2>3. CASE Handles(c, stack[c], crashing[c], crash_lock)
    <3>1. PICK h \in HandlerFrames, u \in Thread(c) : stack[c] = <<h>> \o u
      BY <2>3 DEF Handles
    <3>2. top(c) = h
      BY <3>1, Threads, Cons DEF Frames, top
    <3> QED BY <3>2 DEF HandlerFrames
  <2>4. CASE Reporting(c, stack[c], crashing[c], crash_lock, vbuf)
    <3>1. PICK r \in ReportFrames(c), h \in HandlerFrames, u \in Thread(c) : stack[c] = <<r>> \o (<<h>> \o u)
      BY <2>4 DEF Reporting
    <3>2. r \in Frames /\ h \in Frames /\ u \in Seq(Frames)
      BY Threads DEF Frames, ReportFrames
    <3>3. top(c) = r
      BY <3>1, <3>2, Cons DEF top
    <3> QED BY <3>3 DEF ReportFrames, PrintFrames
  <2> QED BY <2>1, <2>2, <2>3, <2>4 DEF Shape
<1>2. CASE top(c).fn = "vprintf"
  BY <1>2, PrintTop
<1>3. CASE top(c).fn = "crash"
  BY <1>3, CrashTop
<1> QED BY <1>1, <1>2, <1>3

LEMMA DrainStep ==
    ASSUME Orderly, NEW c \in Cpu, stack[c] # <<>>, top(c).pc \in {"drain", "send"}, StaysTyped,
           UNCHANGED <<crash_lock, vbuf, crashing>>, NEW g, Become(c, g),
           top(c) \in ThreadFrames(c) => g \in ThreadFrames(c),
           top(c) \in ReportFrames(c) => g \in ReportFrames(c) /\ g.pc \in {"drain", "send", "unlock"},
           top(c) \in HandlerFrames => g \in HandlerFrames /\ g.pc \in {"drain", "send", "message"}
    PROVE  Orderly'
<1>1. Apart(c) /\ crashing[c] \in Int /\ crashing' = [crashing EXCEPT ![c] = crashing[c]]
  BY Still
<1>2. CASE top(c) \in ThreadFrames(c)
  BY <1>1, <1>2, ThreadStep
<1>3. CASE top(c) \in ReportFrames(c)
  <2>1. crashing[c] = 1 + CRASH_IN_PRINT
    BY <1>3, PrintTop DEF ThreadFrames, ReportFrames, PrintFrames
  <2>2. Buffered(c, g, vbuf')
    BY <1>3 DEF Buffered
  <2> QED BY <1>1, <1>3, <2>1, <2>2, ReportStep
<1>4. CASE top(c) \in HandlerFrames /\ top(c).fn = "crash"
  <2>1. Handling(c, top(c).pc, crashing[c], crash_lock)
    BY <1>4, CrashTop
  <2>2. Handling(c, g.pc, crashing[c], crash_lock')
    BY <1>4, <2>1 DEF Handling
  <2> QED BY <1>1, <1>4, <2>2, HandlerStep
<1> QED BY <1>2, <1>3, <1>4, TopKinds

LEMMA DrainStart_Orderly ==
    ASSUME Orderly, NEW c \in Cpu, DrainStart(c) PROVE Orderly'
<1>1. /\ stack[c] # <<>> /\ top(c).pc = "drain"
      /\ UNCHANGED <<crash_lock, vbuf, head, tail, events, crashing>>
  BY DEF DrainStart, Draining, buffer, locks, counts
<1>2. StaysTyped /\ head \in Int /\ tail \in Int
  BY <1>1, Still DEF Orderly
<1>3. ASSUME Become(c, [top(c) EXCEPT !.pc = "send", !.from = head, !.to = tail]) PROVE Orderly'
  <2> DEFINE g == [top(c) EXCEPT !.pc = "send", !.from = head, !.to = tail]
  <2>1. top(c) \in ThreadFrames(c) => g \in ThreadFrames(c)
    BY <1>2 DEF ThreadFrames, PrintFrames
  <2>2. top(c) \in ReportFrames(c) => g \in ReportFrames(c) /\ g.pc \in {"drain", "send", "unlock"}
    BY <1>1, <1>2 DEF ReportFrames, PrintFrames
  <2>3. top(c) \in HandlerFrames => g \in HandlerFrames /\ g.pc \in {"drain", "send", "message"}
    BY <1>2 DEF HandlerFrames
  <2>4. Become(c, g)
    BY <1>3
  <2> HIDE DEF g
  <2> QED BY <1>1, <1>2, <2>1, <2>2, <2>3, <2>4, DrainStep
<1>4. ASSUME Goto(c, AfterDrain(top(c))) PROVE Orderly'
  <2> DEFINE g == [top(c) EXCEPT !.pc = AfterDrain(top(c))]
  <2>1. top(c) \in ThreadFrames(c) => g \in ThreadFrames(c)
    BY DEF ThreadFrames, PrintFrames, AfterDrain
  <2>2. top(c) \in ReportFrames(c) => g \in ReportFrames(c) /\ g.pc \in {"drain", "send", "unlock"}
    BY <1>1 DEF ReportFrames, PrintFrames, AfterDrain
  <2>3. top(c) \in HandlerFrames => g \in HandlerFrames /\ g.pc \in {"drain", "send", "message"}
    BY DEF HandlerFrames, AfterDrain
  <2>4. Become(c, g)
    BY <1>4 DEF Goto
  <2> HIDE DEF g
  <2> QED BY <1>1, <1>2, <2>1, <2>2, <2>3, <2>4, DrainStep
<1> QED BY <1>3, <1>4 DEF DrainStart

LEMMA DrainByte_Orderly ==
    ASSUME Orderly, NEW c \in Cpu, DrainByte(c) PROVE Orderly'
<1> DEFINE g == [top(c) EXCEPT !.from = @ + 1]
<1>1. /\ stack[c] # <<>> /\ top(c).pc = "send" /\ Become(c, g)
      /\ UNCHANGED <<crash_lock, vbuf, head, tail, events, crashing>>
  BY DEF DrainByte, Sending, buffer, locks, counts
<1>2. StaysTyped
  BY <1>1, Still
<1>3. top(c) \in ThreadFrames(c) => g \in ThreadFrames(c)
  BY DEF ThreadFrames, PrintFrames
<1>4. top(c) \in ReportFrames(c) => g \in ReportFrames(c) /\ g.pc \in {"drain", "send", "unlock"}
  BY <1>1 DEF ReportFrames, PrintFrames
<1>5. top(c) \in HandlerFrames => g \in HandlerFrames /\ g.pc \in {"drain", "send", "message"}
  BY <1>1 DEF HandlerFrames
<1> HIDE DEF g
<1> QED BY <1>1, <1>2, <1>3, <1>4, <1>5, DrainStep

LEMMA DrainHead_Orderly ==
    ASSUME Orderly, NEW c \in Cpu, DrainHead(c) PROVE Orderly'
<1> DEFINE f == top(c)
           g == IF wrap(f.from) = f.to THEN [f EXCEPT !.pc = AfterDrain(f), !.from = 0, !.to = 0]
                ELSE [f EXCEPT !.from = 0]
<1>1. /\ stack[c] # <<>> /\ top(c).pc = "send" /\ Become(c, g) /\ head' = wrap(f.from)
      /\ UNCHANGED <<crash_lock, vbuf, tail, events, crashing>>
  BY DEF DrainHead, Sending, locks, counts
<1>2. StaysTyped
  <2>1. f.from \in Int
    BY <1>1, TopKinds DEF ThreadFrames, ReportFrames, PrintFrames, HandlerFrames
  <2>2. wrap(f.from) \in Int
    BY <2>1, SizeAssumption DEF wrap
  <2> QED BY <1>1, <2>2 DEF StaysTyped, Orderly
<1>3. CASE wrap(f.from) = f.to
  <2> DEFINE p == AfterDrain(f)
  <2>1. PICK z \in Int : z = 0
    OBVIOUS
  <2>2. g = [f EXCEPT !.pc = p, !.from = z, !.to = z]
    BY <1>3, <2>1
  <2>3. p = IF f.fn = "vprintf" THEN "unlock" ELSE "message"
    BY DEF AfterDrain
  <2> HIDE DEF g, p
  <2>4. top(c) \in ThreadFrames(c) => g \in ThreadFrames(c)
    BY <2>1, <2>2, <2>3 DEF ThreadFrames, PrintFrames
  <2>5. top(c) \in ReportFrames(c) => g \in ReportFrames(c) /\ g.pc \in {"drain", "send", "unlock"}
    BY <1>1, <2>1, <2>2, <2>3 DEF ReportFrames, PrintFrames
  <2>6. top(c) \in HandlerFrames => g \in HandlerFrames /\ g.pc \in {"drain", "send", "message"}
    BY <2>1, <2>2, <2>3 DEF HandlerFrames
  <2> QED BY <1>1, <1>2, <2>4, <2>5, <2>6, DrainStep
<1>4. CASE wrap(f.from) # f.to
  <2>1. g = [f EXCEPT !.from = 0]
    BY <1>4
  <2> HIDE DEF g
  <2>2. top(c) \in ThreadFrames(c) => g \in ThreadFrames(c)
    BY <2>1 DEF ThreadFrames, PrintFrames
  <2>3. top(c) \in ReportFrames(c) => g \in ReportFrames(c) /\ g.pc \in {"drain", "send", "unlock"}
    BY <1>1, <2>1 DEF ReportFrames, PrintFrames
  <2>4. top(c) \in HandlerFrames => g \in HandlerFrames /\ g.pc \in {"drain", "send", "message"}
    BY <1>1, <2>1 DEF HandlerFrames
  <2> QED BY <1>1, <1>2, <2>2, <2>3, <2>4, DrainStep
<1> QED BY <1>3, <1>4

-----------------------------------------------------------------------------
(* set_crashing                                                            *)

LEMMA SetCrashing_Orderly ==
    ASSUME Orderly, NEW c \in Cpu, SetCrashing(c) PROVE Orderly'
<1> DEFINE g == [top(c) EXCEPT !.pc = "crash_lock"]
<1>1. /\ stack[c] # <<>> /\ top(c).fn = "crash" /\ top(c).pc = "set_crashing"
      /\ UNCHANGED <<crash_lock, vbuf, head, tail, events>>
  BY DEF SetCrashing, At, buffer, locks, counts
<1>2. top(c) \in HandlerFrames /\ crashing[c] = 0 /\ crash_lock # c
  BY <1>1, CrashTop DEF Handling
<1>3. Become(c, g) /\ crashing' = [crashing EXCEPT ![c] = 1]
  BY <1>2 DEF SetCrashing, Goto
<1>4. g \in HandlerFrames /\ Handling(c, g.pc, 1, crash_lock')
  BY <1>1, <1>2 DEF HandlerFrames, Handling
<1>5. StaysTyped /\ Apart(c)
  BY <1>1, Still
<1>6. PICK k \in Int : k = 1
  OBVIOUS
<1>7. crashing' = [crashing EXCEPT ![c] = k] /\ Handling(c, g.pc, k, crash_lock')
  BY <1>1, <1>3, <1>4, <1>6
<1> HIDE DEF g
<1> QED BY <1>1, <1>3, <1>4, <1>5, <1>7, HandlerStep

(* The lock is taken when no other core reports.                            *)
LEMMA CrashLock_Orderly ==
    ASSUME Orderly, NEW c \in Cpu, CrashLock(c) PROVE Orderly'
<1> DEFINE g == [top(c) EXCEPT !.pc = "drain"]
<1>1. /\ stack[c] # <<>> /\ top(c).fn = "crash" /\ top(c).pc = "crash_lock" /\ crash_lock = Free
      /\ UNCHANGED <<vbuf, head, tail, events>> /\ crash_lock' = c
      /\ Become(c, g) /\ crashing' = [crashing EXCEPT ![c] = 1]
  BY DEF CrashLock, At, buffer, counts, Goto
<1>2. top(c) \in HandlerFrames
  BY <1>1, CrashTop
<1>3. g \in HandlerFrames /\ Handling(c, g.pc, 1, crash_lock')
  BY <1>1, <1>2 DEF HandlerFrames, Handling
<1>4. StaysTyped
  BY <1>1, Still
<1>5. Apart(c)
  BY <1>1, CpuAssumption DEF Apart
<1>6. PICK k \in Int : k = 1
  OBVIOUS
<1>7. crashing' = [crashing EXCEPT ![c] = k] /\ Handling(c, g.pc, k, crash_lock')
  BY <1>1, <1>3, <1>4, <1>6
<1> HIDE DEF g
<1> QED BY <1>1, <1>3, <1>4, <1>5, <1>7, HandlerStep

LEMMA ClearCrashing_Orderly ==
    ASSUME Orderly, NEW c \in Cpu, ClearCrashing(c) PROVE Orderly'
<1> DEFINE g == [top(c) EXCEPT !.pc = "crash_unlock"]
<1>1. /\ stack[c] # <<>> /\ top(c).fn = "crash" /\ top(c).pc = "clear"
      /\ UNCHANGED <<crash_lock, vbuf, head, tail, events>>
  BY DEF ClearCrashing, At, buffer, locks, counts
<1>2. top(c) \in HandlerFrames /\ crashing[c] = 1 /\ crash_lock = c
  BY <1>1, CrashTop DEF Handling
<1>3. Become(c, g) /\ crashing' = [crashing EXCEPT ![c] = 0]
  BY <1>2 DEF ClearCrashing, Goto
<1>4. g \in HandlerFrames /\ Handling(c, g.pc, 0, crash_lock')
  BY <1>1, <1>2 DEF HandlerFrames, Handling
<1>5. StaysTyped /\ Apart(c)
  BY <1>1, Still
<1>6. PICK k \in Int : k = 0
  OBVIOUS
<1>7. crashing' = [crashing EXCEPT ![c] = k] /\ Handling(c, g.pc, k, crash_lock')
  BY <1>1, <1>3, <1>4, <1>6
<1> HIDE DEF g
<1> QED BY <1>1, <1>3, <1>4, <1>5, <1>7, HandlerStep

LEMMA CrashUnlock_Orderly ==
    ASSUME Orderly, NEW c \in Cpu, CrashUnlock(c) PROVE Orderly'
<1> DEFINE g == [top(c) EXCEPT !.pc = "end"]
<1>1. /\ stack[c] # <<>> /\ top(c).fn = "crash" /\ top(c).pc = "crash_unlock"
      /\ UNCHANGED <<vbuf, head, tail, events, crashing>> /\ crash_lock' = Free /\ Become(c, g)
  BY DEF CrashUnlock, At, buffer, counts, Goto
<1>2. top(c) \in HandlerFrames /\ crashing[c] = 0 /\ crash_lock = c
  BY <1>1, CrashTop DEF Handling
<1>3. g \in HandlerFrames /\ Handling(c, g.pc, 0, crash_lock')
  BY <1>1, <1>2, CpuAssumption DEF HandlerFrames, Handling
<1>4. StaysTyped /\ crashing' = [crashing EXCEPT ![c] = 0]
  BY <1>1, <1>2, Still
<1>5. Apart(c)
  BY <1>1, <1>2, CpuAssumption DEF Apart
<1>6. PICK k \in Int : k = 0
  OBVIOUS
<1>7. crashing' = [crashing EXCEPT ![c] = k] /\ Handling(c, g.pc, k, crash_lock')
  BY <1>1, <1>3, <1>4, <1>6
<1> HIDE DEF g
<1> QED BY <1>1, <1>3, <1>4, <1>5, <1>7, HandlerStep

(* The handler prints its report.                                           *)
LEMMA CrashMessage_Orderly ==
    ASSUME Orderly, NEW c \in Cpu, CrashMessage(c) PROVE Orderly'
<1> DEFINE r == PrintFrame(c, "report")
           g == [top(c) EXCEPT !.pc = "clear"]
           s == <<r, g>> \o Tail(stack[c])
<1>1. /\ stack[c] # <<>> /\ top(c).fn = "crash" /\ top(c).pc = "message"
      /\ UNCHANGED <<crash_lock, vbuf, head, tail, events, crashing>> /\ stack' = [stack EXCEPT ![c] = s]
  BY DEF CrashMessage, At, buffer, locks, counts
<1>2. top(c) \in HandlerFrames /\ crashing[c] = 1 /\ crash_lock = c
  BY <1>1, CrashTop DEF Handling
<1>3. PICK u \in Thread(c) : stack[c] = <<top(c)>> \o u
  BY <1>1, CrashTop
<1>4. Tail(stack[c]) = u
  <2>1. PICK f \in Frames : stack[c] = <<f>> \o u
    BY <1>2, <1>3 DEF Frames
  <2> QED BY <2>1, Threads, Cons
<1>5. r \in ReportFrames(c) /\ r.pc = "check"
  BY MsgLenAssumption DEF PrintFrame, ReportFrames, PrintFrames, Orderly
<1>6. g \in HandlerFrames /\ g.pc = "clear"
  BY <1>2 DEF HandlerFrames
<1> HIDE DEF r, g
<1>7. s = <<r>> \o (<<g>> \o u)
  <2>1. r \in Frames /\ g \in Frames /\ u \in Seq(Frames)
    BY <1>5, <1>6, Threads DEF Frames, ReportFrames
  <2>2. <<r, g>> \o u = <<r>> \o (<<g>> \o u)
    BY <2>1, Cons
  <2> QED BY <1>4, <2>2
<1> HIDE DEF s
<1>8. Buffered(c, r, vbuf')
  BY <1>5 DEF Buffered
<1>9. PICK k \in Int : k = 1
  OBVIOUS
<1>10. Shape(c, s, k, crash_lock', vbuf')
  BY <1>1, <1>2, <1>5, <1>6, <1>7, <1>8, <1>9 DEF Shape, Reporting
<1>11. crashing' = [crashing EXCEPT ![c] = k] /\ StaysTyped /\ Apart(c)
  BY <1>1, <1>2, <1>9, Still
<1> QED BY <1>1, <1>10, <1>11, LocalStep

LEMMA CrashEnd_Orderly ==
    ASSUME Orderly, NEW c \in Cpu, CrashEnd(c) PROVE Orderly'
<1>1. /\ stack[c] # <<>> /\ top(c).fn = "crash" /\ top(c).pc = "end"
      /\ UNCHANGED <<crash_lock, vbuf, head, tail, events, crashing>>
  BY DEF CrashEnd, At, buffer, locks, counts
<1>2. crashing[c] = 0 /\ crash_lock # c
  BY <1>1, CrashTop DEF Handling
<1>3. /\ StaysTyped /\ Apart(c) /\ crashing[c] \in Int
      /\ crashing' = [crashing EXCEPT ![c] = crashing[c]]
  BY <1>1, Still
<1>4. CASE Pop(c)
  BY <1>1, <1>2, <1>3, <1>4, PopStep
<1>5. CASE stack' = [stack EXCEPT ![c] = <<>>]
  <2>1. PICK s : s = <<>>
    OBVIOUS
  <2>2. Shape(c, s, crashing[c], crash_lock', vbuf') /\ stack' = [stack EXCEPT ![c] = s]
    BY <1>1, <1>2, <1>5, <2>1 DEF Shape, Quiet, Thread
  <2> QED BY <1>3, <2>2, LocalStep
<1> QED BY <1>4, <1>5 DEF CrashEnd

-----------------------------------------------------------------------------
(* What starts                                                             *)

LEMMA ThreadPrints_Orderly ==
    ASSUME Orderly, NEW c \in Cpu, ThreadPrints(c) PROVE Orderly'
<1> DEFINE t == PrintFrame(c, "thread")
<1>1. /\ stack[c] = <<>> /\ UNCHANGED <<crash_lock, vbuf, head, tail, crashing>>
      /\ stack' = [stack EXCEPT ![c] = <<t>> \o stack[c]] /\ events' = events + 1
  BY DEF ThreadPrints, buffer, locks, Push
<1>2. t \in ThreadFrames(c)
  BY MsgLenAssumption DEF PrintFrame, ThreadFrames, PrintFrames, Orderly
<1> HIDE DEF t
<1>3. PICK s : s = <<t>>
  OBVIOUS
<1>4. stack' = [stack EXCEPT ![c] = s]
  <2>1. <<t>> \o <<>> = <<t>>
    OBVIOUS
  <2> QED BY <1>1, <1>3, <2>1
<1>5. crashing[c] = 0 /\ crash_lock # c
  <2>1. Shape(c, stack[c], crashing[c], crash_lock, vbuf)
    BY DEF Orderly
  <2>2. ~Handles(c, stack[c], crashing[c], crash_lock)
    <3> SUFFICES ASSUME NEW h \in HandlerFrames, NEW u \in Thread(c), stack[c] = <<h>> \o u
                 PROVE  FALSE
      BY DEF Handles
    <3>1. h \in Frames /\ u \in Seq(Frames)
      BY Threads DEF Frames
    <3> QED BY <1>1, <3>1, Cons
  <2>3. ~Reporting(c, stack[c], crashing[c], crash_lock, vbuf)
    <3> SUFFICES ASSUME NEW r \in ReportFrames(c), NEW h \in HandlerFrames, NEW u \in Thread(c),
                        stack[c] = <<r>> \o (<<h>> \o u)
                 PROVE  FALSE
      BY DEF Reporting
    <3>1. r \in Frames /\ <<h>> \o u \in Seq(Frames)
      BY Threads, Cons DEF Frames, ReportFrames
    <3> QED BY <1>1, <3>1, Cons
  <2> QED BY <2>1, <2>2, <2>3 DEF Shape, Quiet
<1>6. Shape(c, s, crashing[c], crash_lock', vbuf')
  BY <1>1, <1>2, <1>3, <1>5 DEF Shape, Quiet, Thread
<1>7. StaysTyped
  BY <1>1 DEF StaysTyped, Orderly
<1>8. Apart(c) /\ crashing[c] \in Int /\ crashing' = [crashing EXCEPT ![c] = crashing[c]]
  BY <1>1, Still
<1> QED BY <1>4, <1>6, <1>7, <1>8, LocalStep

(* A trap that is not nested finds a core in its thread.                    *)
LEMMA Trap_Orderly ==
    ASSUME Orderly, NEW c \in Cpu, Trap(c), ~nested' PROVE Orderly'
<1>1. /\ UNCHANGED <<crash_lock, vbuf, head, tail, crashing>> /\ events' = events + 1
      /\ stack' = [stack EXCEPT ![c] = <<CrashFrame>> \o stack[c]]
      /\ CrashFrames(c) = {}
  BY DEF Trap, buffer, locks, Push
<1>2. Quiet(c, stack[c], crashing[c], crash_lock)
  <2>1. Shape(c, stack[c], crashing[c], crash_lock, vbuf)
    BY DEF Orderly
  <2>2. ~Handles(c, stack[c], crashing[c], crash_lock)
    <3> SUFFICES ASSUME NEW h \in HandlerFrames, NEW u \in Thread(c), stack[c] = <<h>> \o u
                 PROVE  FALSE
      BY DEF Handles
    <3>1. 1 \in DOMAIN stack[c] /\ stack[c][1] = h
      BY Threads, Cons DEF Frames
    <3>2. h.fn = "crash"
      BY DEF HandlerFrames
    <3> QED BY <1>1, <3>1, <3>2 DEF CrashFrames
  <2>3. ~Reporting(c, stack[c], crashing[c], crash_lock, vbuf)
    <3> SUFFICES ASSUME NEW r \in ReportFrames(c), NEW h \in HandlerFrames, NEW u \in Thread(c),
                        stack[c] = <<r>> \o (<<h>> \o u)
                 PROVE  FALSE
      BY DEF Reporting
    <3> DEFINE w == <<h>> \o u
    <3>1. r \in Frames /\ h \in Frames /\ u \in Seq(Frames)
      BY Threads DEF Frames, ReportFrames
    <3>2. w \in Seq(Frames) /\ w # <<>> /\ w[1] = h
      BY <3>1, Cons
    <3> HIDE DEF w
    <3>3. 2 \in DOMAIN (<<r>> \o w) /\ (<<r>> \o w)[2] = w[1]
      BY <3>1, <3>2, Cons
    <3>4. 2 \in DOMAIN stack[c] /\ stack[c][2] = h
      BY <3>2, <3>3 DEF w
    <3>5. h.fn = "crash"
      BY DEF HandlerFrames
    <3> QED BY <1>1, <3>4, <3>5 DEF CrashFrames
  <2> QED BY <2>1, <2>2, <2>3 DEF Shape
<1>3. CrashFrame \in HandlerFrames /\ CrashFrame.pc = "set_crashing"
  BY DEF CrashFrame, HandlerFrames
<1>4. PICK s : s = <<CrashFrame>> \o stack[c]
  OBVIOUS
<1>5. Shape(c, s, crashing[c], crash_lock', vbuf')
  BY <1>1, <1>2, <1>3, <1>4 DEF Shape, Quiet, Handles, Handling
<1>6. StaysTyped
  BY <1>1 DEF StaysTyped, Orderly
<1>7. Apart(c) /\ crashing[c] \in Int /\ crashing' = [crashing EXCEPT ![c] = crashing[c]]
  BY <1>1, Still
<1> QED BY <1>1, <1>4, <1>5, <1>6, <1>7, LocalStep

LEMMA ConsoleOk_Orderly ==
    ASSUME Orderly, NEW c \in Cpu, ConsoleOk(c) PROVE Orderly'
<1>1. UNCHANGED <<stack, crashing, crash_lock, vbuf, head, tail, events>>
  BY DEF ConsoleOk, locks, buffer, counts
<1> QED BY <1>1 DEF Orderly

-----------------------------------------------------------------------------
(* The invariant                                                           *)

LEMMA Init_Orderly == Init => Orderly
<1> SUFFICES ASSUME Init PROVE Orderly
  OBVIOUS
<1>1. \A c \in Cpu : stack[c] = <<>> /\ crashing[c] = 0 /\ crash_lock # c
  BY CpuAssumption DEF Init
<1>2. \A c \in Cpu : Shape(c, stack[c], crashing[c], crash_lock, vbuf)
  BY <1>1 DEF Shape, Quiet, Thread
<1> QED BY <1>2 DEF Init, Orderly

LEMMA Next_ConsoleInv == ConsoleInv /\ [Next]_vars => ConsoleInv'
<1> SUFFICES ASSUME ConsoleInv, [Next]_vars, ~nested' PROVE Orderly'
  BY DEF ConsoleInv
<1>1. CASE UNCHANGED vars
  BY <1>1 DEF vars, locks, buffer, counts, ConsoleInv, Orderly
<1>2. ASSUME NEW c \in Cpu, ThreadPrints(c) \/ Trap(c) \/ ConsoleOk(c) \/ Step(c) PROVE Orderly'
  <2>1. ~nested
    BY <1>2 DEF ThreadPrints, Trap, ConsoleOk, Step, PrintCheck, PrintLock, Format, PutChar, PrintUnlock,
                DrainStart, DrainByte, DrainHead, SetCrashing, CrashLock, CrashMessage, ClearCrashing,
                CrashUnlock, CrashEnd, counts
  <2>2. Orderly
    BY <2>1 DEF ConsoleInv
  <2>3. CASE ThreadPrints(c) \/ Trap(c) \/ ConsoleOk(c)
    BY <2>2, <2>3, ThreadPrints_Orderly, Trap_Orderly, ConsoleOk_Orderly
  <2>4. CASE PrintCheck(c) \/ PrintLock(c) \/ Format(c) \/ PutChar(c) \/ PrintUnlock(c)
    BY <2>2, <2>4, PrintCheck_Orderly, PrintLock_Orderly, Format_Orderly, PutChar_Orderly, PrintUnlock_Orderly
  <2>5. CASE DrainStart(c) \/ DrainByte(c) \/ DrainHead(c)
    BY <2>2, <2>5, DrainStart_Orderly, DrainByte_Orderly, DrainHead_Orderly
  <2>6. CASE SetCrashing(c) \/ CrashLock(c) \/ CrashMessage(c) \/ ClearCrashing(c) \/ CrashUnlock(c) \/ CrashEnd(c)
    BY <2>2, <2>6, SetCrashing_Orderly, CrashLock_Orderly, CrashMessage_Orderly, ClearCrashing_Orderly,
       CrashUnlock_Orderly, CrashEnd_Orderly
  <2> QED BY <1>2, <2>3, <2>4, <2>5, <2>6 DEF Step
<1> QED BY <1>1, <1>2 DEF Next

THEOREM ConsoleInvariance == Spec => []ConsoleInv
<1>1. Init => ConsoleInv
  BY Init_Orderly DEF ConsoleInv
<1> QED BY <1>1, Next_ConsoleInv, PTL DEF Spec

LEMMA Elements ==
    ASSUME NEW S, NEW a \in S, NEW s \in Seq(S), NEW i \in DOMAIN (<<a>> \o s)
    PROVE  (<<a>> \o s)[i] = a \/ \E j \in DOMAIN s : (<<a>> \o s)[i] = s[j]
<1>1. /\ Len(<<a>> \o s) = Len(s) + 1 /\ <<a>> \o s \in Seq(S) /\ (<<a>> \o s)[1] = a
      /\ \A j \in 1 .. Len(s) : (<<a>> \o s)[j + 1] = s[j]
  OBVIOUS
<1>2. i \in 1 .. Len(s) + 1 /\ Len(s) \in Nat /\ DOMAIN s = 1 .. Len(s)
  BY <1>1
<1>3. CASE i = 1
  BY <1>1, <1>3
<1>4. CASE i # 1
  <2>1. i - 1 \in 1 .. Len(s) /\ i = (i - 1) + 1
    BY <1>2, <1>4
  <2> QED BY <1>1, <1>2, <2>1
<1> QED BY <1>3, <1>4

(* Who prints a report holds crash_lock.                                    *)
LEMMA ReporterHolds ==
    ASSUME Orderly, NEW c \in Cpu, Reports(c) # {} PROVE crash_lock = c
<1>1. PICK i \in DOMAIN stack[c] : stack[c][i].fn = "vprintf" /\ ~stack[c][i].lock
  BY DEF Reports
<1>2. ASSUME NEW u \in Thread(c), NEW j \in DOMAIN u PROVE u[j].lock = TRUE
  <2>1. PICK t \in ThreadFrames(c) : u = <<t>>
    BY <1>2 DEF Thread
  <2>2. u[j] = t
    BY <2>1
  <2> QED BY <2>2 DEF ThreadFrames
<1>3. Shape(c, stack[c], crashing[c], crash_lock, vbuf)
  BY DEF Orderly
<1>4. ~Quiet(c, stack[c], crashing[c], crash_lock)
  BY <1>1, <1>2 DEF Quiet
<1>5. ~Handles(c, stack[c], crashing[c], crash_lock)
  <2> SUFFICES ASSUME NEW h \in HandlerFrames, NEW u \in Thread(c), stack[c] = <<h>> \o u
               PROVE  FALSE
    BY DEF Handles
  <2>1. h \in Frames /\ u \in Seq(Frames) /\ h.fn = "crash"
    BY Threads DEF Frames, HandlerFrames
  <2>2. stack[c][i] = h \/ \E j \in DOMAIN u : stack[c][i] = u[j]
    BY <1>1, <2>1, Elements
  <2> QED BY <1>1, <1>2, <2>1, <2>2
<1> QED BY <1>3, <1>4, <1>5 DEF Shape, Reporting

(* console.c:186-199: no two cores report a crash at the same time, as long *)
(* as no trap comes in a handler.                                           *)
THEOREM OneReportAtATime == Spec => []CrashesApartAlone
<1>1. ConsoleInv => CrashesApartAlone
  BY ReporterHolds DEF ConsoleInv, CrashesApartAlone, CrashesApart
<1> QED BY <1>1, ConsoleInvariance, PTL

(* stdio.c: a report that takes no console_lock finds in vprintf's buffer   *)
(* what it put there, or what a thread of another core did.                 *)
THEOREM ReportsKeptFromReports == Spec => []ReportLostOnlyToThreads
<1>1. ConsoleInv => ReportLostOnlyToThreads
  <2> SUFFICES ASSUME Orderly, NEW c \in Cpu, At(c, "vprintf", "write"), ~top(c).lock
               PROVE  vbuf = top(c).msg \/ (vbuf[1] # c /\ vbuf[2] = "thread")
    BY DEF ConsoleInv, ReportLostOnlyToThreads
  <2>1. stack[c] # <<>> /\ top(c).fn = "vprintf" /\ top(c).pc = "write" /\ ~(top(c) \in ThreadFrames(c))
    BY DEF At, ThreadFrames
  <2> QED BY <2>1, PrintTop DEF Buffered
<1> QED BY <1>1, ConsoleInvariance, PTL

-----------------------------------------------------------------------------
(* Traps within traps: what the frames of a stack count, and what lies      *)
(* under each of them.                                                      *)

NestFrames ==
    [fn : {"vprintf"}, pc : {"check", "lock", "format", "write", "drain", "send", "unlock"},
     msg : Cpu \X {"thread", "report"} \X (0 .. MaxEvents), lock : BOOLEAN,
     left : Int, from : 0 .. Size, to : 0 .. Size - 1]
    \cup [fn : {"crash"},
          pc : {"set_crashing", "crash_lock", "drain", "send", "message", "clear", "crash_unlock", "end"},
          from : 0 .. Size, to : 0 .. Size - 1]

Reporters == {f \in NestFrames : f.fn = "vprintf" /\ ~f.lock}
Counters == {f \in NestFrames : f.fn = "crash" /\
                f.pc \in {"crash_lock", "drain", "send", "message", "clear"}}

Hits(s, S) == {i \in DOMAIN s : s[i] \in S}
Weight(s) == Cardinality(Hits(s, Counters)) + CRASH_IN_PRINT * Cardinality(Hits(s, Reporters))
Share(f) == IF f \in Counters THEN 1 ELSE IF f \in Reporters THEN CRASH_IN_PRINT ELSE 0

(* A frame over the others: a print is a thread's, at the bottom, or the    *)
(* report of a handler; a handler that waits for crash_lock was the first.  *)
Over(f, s) ==
    /\ f.fn = "vprintf" =>
          /\ f.pc \in {"check", "lock"} => f.lock
          /\ IF s = <<>> THEN f.lock ELSE Head(s).fn = "crash" /\ Head(s).pc = "clear"
    /\ f.fn = "crash" /\ f.pc = "crash_lock" => Hits(s, Counters) = {} /\ Hits(s, Reporters) = {}

Beneath(s, i) == SubSeq(s, i + 1, Len(s))
Nest(s) == \A i \in 1 .. Len(s) : Over(s[i], Beneath(s, i))

Stacks ==
    /\ stack \in [Cpu -> Seq(NestFrames)] /\ crashing \in [Cpu -> Int]
    /\ \A c \in Cpu :
          /\ Nest(stack[c]) /\ Cardinality(Hits(stack[c], Reporters)) <= 1
          /\ IF c \in halted THEN stack[c] = <<>> ELSE crashing[c] = Weight(stack[c])

Contents == TypeOK /\ events \in 0 .. MaxEvents /\ out \in Seq(Message)

NestInv == Contents /\ Stacks

LEMMA PushHits ==
    ASSUME NEW F, NEW f \in F, NEW s \in Seq(F), NEW S
    PROVE  /\ IsFiniteSet(Hits(s, S)) /\ Cardinality(Hits(s, S)) \in Nat
           /\ Cardinality(Hits(<<f>> \o s, S)) = Cardinality(Hits(s, S)) + (IF f \in S THEN 1 ELSE 0)
<1> DEFINE t == <<f>> \o s
           Up == {i + 1 : i \in Hits(s, S)}
<1>1. /\ Len(t) = Len(s) + 1 /\ t[1] = f /\ Len(s) \in Nat
      /\ DOMAIN t = 1 .. Len(s) + 1 /\ DOMAIN s = 1 .. Len(s)
      /\ \A i \in 1 .. Len(s) : t[i + 1] = s[i]
  OBVIOUS
<1> HIDE DEF t
<1>2. IsFiniteSet(Hits(s, S)) /\ Cardinality(Hits(s, S)) \in Nat /\ Hits(s, S) \subseteq 1 .. Len(s)
  <2>1. IsFiniteSet(1 .. Len(s)) /\ Hits(s, S) \subseteq 1 .. Len(s)
    BY <1>1, FS_Interval DEF Hits
  <2> QED BY <2>1, FS_Subset, FS_CardinalityType
<1>3. IsFiniteSet(Up) /\ Cardinality(Up) = Cardinality(Hits(s, S)) /\ 1 \notin Up
  <2> DEFINE g == [i \in Hits(s, S) |-> i + 1]
  <2>1. g \in [Hits(s, S) -> Up] /\ 1 \notin Up
    BY <1>2
  <2>2. \A i, j \in Hits(s, S) : g[i] = g[j] => i = j
    BY <1>2
  <2>3. \A u \in Up : \E i \in Hits(s, S) : g[i] = u
    OBVIOUS
  <2> HIDE DEF g
  <2>4. ExistsBijection(Hits(s, S), Up)
    BY <2>1, <2>2, <2>3 DEF ExistsBijection, Bijection, Injection, Surjection, IsInjective
  <2> QED BY <1>2, <2>1, <2>4, FS_Bijection
<1>4. Hits(t, S) = IF f \in S THEN Up \cup {1} ELSE Up
  <2>1. ASSUME NEW i \in Hits(t, S), i # 1 PROVE i \in Up
    <3>1. i - 1 \in 1 .. Len(s) /\ i = (i - 1) + 1 /\ t[i] \in S
      BY <1>1, <2>1 DEF Hits
    <3>2. i - 1 \in Hits(s, S)
      BY <1>1, <3>1 DEF Hits
    <3> QED BY <3>1, <3>2
  <2>2. ASSUME NEW i \in Hits(s, S) PROVE i + 1 \in Hits(t, S)
    <3>1. i \in 1 .. Len(s) /\ s[i] \in S /\ i + 1 \in 1 .. Len(s) + 1
      BY <1>1 DEF Hits
    <3> QED BY <1>1, <3>1 DEF Hits
  <2>3. 1 \in Hits(t, S) <=> f \in S
    BY <1>1 DEF Hits
  <2> QED BY <2>1, <2>2, <2>3
<1>5. Cardinality(Hits(t, S)) = Cardinality(Hits(s, S)) + (IF f \in S THEN 1 ELSE 0)
  <2>1. CASE f \in S
    <3>1. Cardinality(Up \cup {1}) = Cardinality(Up) + 1
      BY <1>3, FS_AddElement
    <3> HIDE DEF Up
    <3> QED BY <1>3, <1>4, <2>1, <3>1
  <2>2. CASE f \notin S
    <3> HIDE DEF Up
    <3> QED BY <1>2, <1>3, <1>4, <2>2
  <2> QED BY <2>1, <2>2
<1> QED BY <1>2, <1>5 DEF t

LEMMA NoHits == \A S : Hits(<<>>, S) = {} /\ Cardinality(Hits(<<>>, S)) = 0
  BY FS_EmptySet DEF Hits

LEMMA PushWeight ==
    ASSUME NEW f \in NestFrames, NEW s \in Seq(NestFrames)
    PROVE  /\ Weight(<<f>> \o s) = Weight(s) + Share(f) /\ Weight(s) \in Nat
           /\ Cardinality(Hits(s, Reporters)) \in Nat /\ Cardinality(Hits(s, Counters)) \in Nat
           /\ Cardinality(Hits(<<f>> \o s, Reporters))
                = Cardinality(Hits(s, Reporters)) + (IF f \in Reporters THEN 1 ELSE 0)
<1>1. /\ Cardinality(Hits(s, Counters)) \in Nat
      /\ Cardinality(Hits(<<f>> \o s, Counters))
           = Cardinality(Hits(s, Counters)) + (IF f \in Counters THEN 1 ELSE 0)
  BY PushHits
<1>2. /\ Cardinality(Hits(s, Reporters)) \in Nat
      /\ Cardinality(Hits(<<f>> \o s, Reporters))
           = Cardinality(Hits(s, Reporters)) + (IF f \in Reporters THEN 1 ELSE 0)
  BY PushHits
<1>3. ~(f \in Counters /\ f \in Reporters)
  BY DEF Counters, Reporters
<1> QED BY <1>1, <1>2, <1>3 DEF Weight, Share, CRASH_IN_PRINT

LEMMA Suffix ==
    ASSUME NEW F, NEW s \in Seq(F), NEW m \in 1 .. Len(s) + 1
    PROVE  /\ SubSeq(s, m, Len(s)) \in Seq(F) /\ Len(SubSeq(s, m, Len(s))) = Len(s) + 1 - m
           /\ \A i \in 1 .. Len(s) + 1 - m : SubSeq(s, m, Len(s))[i] = s[m + i - 1]
<1> DEFINE k == Len(s)
           u == SubSeq(s, m, k)
<1>1. k \in Nat /\ m \in Int /\ m <= k + 1 /\ \A i \in m .. k : s[i] \in F
  <2>1. k \in Nat /\ m \in 1 .. k + 1
    BY LenProperties
  <2>2. \A i \in 1 .. k : s[i] \in F
    BY ElementOfSeq
  <2> HIDE DEF k
  <2> QED BY <2>1, <2>2
<1> HIDE DEF k
<1>2. /\ u \in Seq(F) /\ Len(u) = (IF m <= k THEN k - m + 1 ELSE 0)
      /\ \A i \in 1 .. k - m + 1 : u[i] = s[m + i - 1]
  BY <1>1, SubSeqProperties
<1> HIDE DEF u
<1>3. k - m + 1 = k + 1 - m /\ Len(u) = k + 1 - m
  BY <1>1, <1>2
<1> QED BY <1>2, <1>3 DEF u, k

LEMMA PushNest ==
    ASSUME NEW F, NEW f \in F, NEW s \in Seq(F)
    PROVE  Nest(<<f>> \o s) <=> Over(f, s) /\ Nest(s)
<1> DEFINE t == <<f>> \o s
<1>1. /\ t \in Seq(F) /\ Len(t) = Len(s) + 1 /\ t[1] = f /\ Len(s) \in Nat
      /\ \A i \in 1 .. Len(s) : t[i + 1] = s[i]
  OBVIOUS
<1> HIDE DEF t
<1>2. ASSUME NEW i \in 0 .. Len(s) PROVE Beneath(t, i + 1) = SubSeq(s, i + 1, Len(s))
  <2> DEFINE b == SubSeq(t, i + 2, Len(s) + 1)
             d == SubSeq(s, i + 1, Len(s))
  <2>1. /\ b \in Seq(F) /\ Len(b) = Len(s) - i
        /\ \A j \in 1 .. Len(s) - i : b[j] = t[i + 2 + j - 1]
    <3>1. i + 2 \in 1 .. Len(t) + 1 /\ Len(t) + 1 - (i + 2) = Len(s) - i
      BY <1>1
    <3> DEFINE m == i + 2
    <3>2. b = SubSeq(t, m, Len(t)) /\ m \in 1 .. Len(t) + 1 /\ t \in Seq(F)
      BY <1>1, <3>1
    <3> HIDE DEF b, m
    <3>3. /\ b \in Seq(F) /\ Len(b) = Len(t) + 1 - m
          /\ \A j \in 1 .. Len(t) + 1 - m : b[j] = t[m + j - 1]
      BY <3>2, Suffix
    <3> QED BY <3>1, <3>3 DEF m
  <2>2. /\ d \in Seq(F) /\ Len(d) = Len(s) - i
        /\ \A j \in 1 .. Len(s) - i : d[j] = s[i + 1 + j - 1]
    <3>1. i + 1 \in 1 .. Len(s) + 1 /\ Len(s) + 1 - (i + 1) = Len(s) - i
      BY <1>1
    <3>2. /\ d \in Seq(F) /\ Len(d) = Len(s) + 1 - (i + 1)
          /\ \A j \in 1 .. Len(s) + 1 - (i + 1) : d[j] = s[i + 1 + j - 1]
      BY <3>1, Suffix
    <3> HIDE DEF d
    <3> QED BY <3>1, <3>2
  <2>3. i + 1 + 1 = i + 2 /\ Beneath(t, i + 1) = b
    BY <1>1 DEF Beneath
  <2> HIDE DEF b, d
  <2>4. Len(b) = Len(d) /\ Len(d) \in Nat /\ Len(d) = Len(s) - i
    BY <1>1, <2>1, <2>2
  <2>5. ASSUME NEW j \in 1 .. Len(d) PROVE b[j] = d[j]
    <3>1. j \in 1 .. Len(s) - i /\ i + j \in 1 .. Len(s)
          /\ i + 2 + j - 1 = (i + j) + 1 /\ i + 1 + j - 1 = i + j
      BY <1>1, <2>4
    <3> QED BY <1>1, <2>1, <2>2, <3>1
  <2>6. b = d
    BY <2>1, <2>2, <2>4, <2>5, SeqEqual
  <2> QED BY <2>3, <2>6 DEF d
<1>3. Beneath(t, 1) = s
  <2>1. Beneath(t, 0 + 1) = SubSeq(s, 0 + 1, Len(s)) /\ 0 + 1 = 1
    BY <1>1, <1>2
  <2> QED BY <2>1, SubSeqFull
<1>4. \A i \in 1 .. Len(s) : Beneath(t, i + 1) = Beneath(s, i)
  BY <1>1, <1>2 DEF Beneath
<1>5. ASSUME Nest(t) PROVE Over(f, s) /\ Nest(s)
  <2>1. 1 \in 1 .. Len(t) /\ \A i \in 1 .. Len(s) : i + 1 \in 1 .. Len(t)
    BY <1>1
  <2>2. Over(t[1], Beneath(t, 1))
    BY <1>5, <2>1 DEF Nest
  <2>3. ASSUME NEW i \in 1 .. Len(s) PROVE Over(s[i], Beneath(s, i))
    <3>1. Over(t[i + 1], Beneath(t, i + 1))
      BY <1>5, <2>1 DEF Nest
    <3> QED BY <1>1, <1>4, <3>1
  <2> QED BY <1>1, <1>3, <2>2, <2>3 DEF Nest
<1>6. ASSUME Over(f, s), Nest(s) PROVE Nest(t)
  <2> SUFFICES ASSUME NEW i \in 1 .. Len(t) PROVE Over(t[i], Beneath(t, i))
    BY DEF Nest
  <2>1. CASE i = 1
    BY <1>1, <1>3, <1>6, <2>1
  <2>2. CASE i # 1
    <3> DEFINE k == i - 1
    <3>1. k \in 1 .. Len(s) /\ i = k + 1
      BY <1>1, <2>2
    <3>2. Over(s[k], Beneath(s, k))
      BY <1>6, <3>1 DEF Nest
    <3> HIDE DEF k
    <3> QED BY <1>1, <1>4, <3>1, <3>2
  <2> QED BY <2>1, <2>2
<1> QED BY <1>5, <1>6 DEF t

LEMMA EmptyNest == Nest(<<>>) /\ Weight(<<>>) = 0 /\ Cardinality(Hits(<<>>, Reporters)) = 0
  BY NoHits DEF Nest, Weight, CRASH_IN_PRINT

(* A stack that is not empty, opened, and after its top became b.           *)
LEMMA Opened ==
    ASSUME Stacks, NEW c \in Cpu, stack[c] # <<>>
    PROVE  /\ top(c) \in NestFrames /\ Tail(stack[c]) \in Seq(NestFrames)
           /\ stack[c] = <<top(c)>> \o Tail(stack[c])
           /\ Over(top(c), Tail(stack[c])) /\ Nest(Tail(stack[c])) /\ c \notin halted
           /\ crashing[c] = Weight(Tail(stack[c])) + Share(top(c)) /\ crashing[c] \in Int
           /\ Weight(Tail(stack[c])) \in Nat /\ Cardinality(Hits(Tail(stack[c]), Reporters)) \in Nat
           /\ Cardinality(Hits(Tail(stack[c]), Reporters)) + (IF top(c) \in Reporters THEN 1 ELSE 0) <= 1
           /\ \A b \in NestFrames : Become(c, b) => stack' = [stack EXCEPT ![c] = <<b>> \o Tail(stack[c])]
<1> DEFINE s == stack[c]
           a == top(c)
           r == Tail(s)
<1>1. /\ s \in Seq(NestFrames) /\ Nest(s) /\ Cardinality(Hits(s, Reporters)) <= 1 /\ c \notin halted
      /\ crashing[c] = Weight(s) /\ stack \in [Cpu -> Seq(NestFrames)] /\ crashing[c] \in Int
  BY DEF Stacks
<1>2. a = Head(s) /\ s # <<>>
  BY DEF top
<1> HIDE DEF s, a
<1>3. a \in NestFrames /\ r \in Seq(NestFrames) /\ s = <<a>> \o r
  <2>1. a \in NestFrames /\ r \in Seq(NestFrames) /\ Len(r) = Len(s) - 1 /\ Len(s) \in Nat /\ Len(s) # 0
        /\ \A i \in 1 .. Len(r) : r[i] = s[i + 1]
    BY <1>1, <1>2, HeadTailProperties, LenProperties, EmptySeq
  <2>2. <<a>> \o r \in Seq(NestFrames) /\ Len(<<a>> \o r) = Len(r) + 1 /\ (<<a>> \o r)[1] = a
        /\ \A i \in 1 .. Len(r) : (<<a>> \o r)[i + 1] = r[i]
    BY <2>1
  <2>3. \A i \in 1 .. Len(s) : (<<a>> \o r)[i] = s[i]
    <3> TAKE i \in 1 .. Len(s)
    <3>1. CASE i = 1
      BY <1>1, <1>2, <2>2, <3>1
    <3>2. CASE i # 1
      <4>1. i - 1 \in 1 .. Len(r) /\ i = (i - 1) + 1
        BY <2>1, <3>2
      <4> QED BY <2>1, <2>2, <4>1
    <3> QED BY <3>1, <3>2
  <2>4. Len(<<a>> \o r) = Len(s)
    BY <2>1, <2>2
  <2> QED BY <1>1, <2>1, <2>2, <2>3, <2>4, SeqEqual
<1> HIDE DEF r
<1>4. /\ Over(a, r) /\ Nest(r)
  BY <1>1, <1>3, PushNest
<1>5. /\ Weight(s) = Weight(r) + Share(a) /\ Weight(r) \in Nat
      /\ Cardinality(Hits(r, Reporters)) \in Nat
      /\ Cardinality(Hits(r, Reporters)) + (IF a \in Reporters THEN 1 ELSE 0) <= 1
  BY <1>1, <1>3, PushWeight
<1>6. ASSUME NEW b \in NestFrames, Become(c, b) PROVE stack' = [stack EXCEPT ![c] = <<b>> \o r]
  <2>1. stack' = [stack EXCEPT ![c] = [s EXCEPT ![1] = b]]
    BY <1>6 DEF Become, s
  <2>2. [s EXCEPT ![1] = b] = <<b>> \o r
    BY <1>3, OnTop
  <2> QED BY <2>1, <2>2
<1> QED BY <1>1, <1>3, <1>4, <1>5, <1>6 DEF r, s, a

LEMMA NewStack ==
    ASSUME Stacks, NEW c \in Cpu, c \notin halted, NEW t \in Seq(NestFrames), Nest(t),
           Cardinality(Hits(t, Reporters)) <= 1, stack' = [stack EXCEPT ![c] = t], halted' = halted,
           crashing' \in [Cpu -> Int], crashing'[c] = Weight(t),
           \A d \in Cpu : d # c => crashing'[d] = crashing[d]
    PROVE  Stacks'
<1>1. stack' \in [Cpu -> Seq(NestFrames)] /\ stack'[c] = t /\ \A d \in Cpu : d # c => stack'[d] = stack[d]
  BY DEF Stacks
<1> SUFFICES ASSUME NEW d \in Cpu
             PROVE  /\ Nest(stack'[d]) /\ Cardinality(Hits(stack'[d], Reporters)) <= 1
                    /\ IF d \in halted THEN stack'[d] = <<>> ELSE crashing'[d] = Weight(stack'[d])
  BY <1>1 DEF Stacks
<1>2. CASE d = c
  BY <1>1, <1>2
<1>3. CASE d # c
  BY <1>1, <1>3 DEF Stacks
<1> QED BY <1>2, <1>3

LEMMA Becomes ==
    ASSUME Stacks, NEW c \in Cpu, stack[c] # <<>>, NEW b \in NestFrames, Become(c, b),
           Over(b, Tail(stack[c])), halted' = halted,
           b \in Reporters => top(c) \in Reporters \/ Cardinality(Hits(Tail(stack[c]), Reporters)) = 0,
           crashing' = [crashing EXCEPT ![c] = @ + Share(b) - Share(top(c))]
    PROVE  Stacks'
<1> DEFINE r == Tail(stack[c])
           t == <<b>> \o r
<1>1. /\ top(c) \in NestFrames /\ r \in Seq(NestFrames) /\ Nest(r) /\ c \notin halted
      /\ crashing[c] = Weight(r) + Share(top(c)) /\ Weight(r) \in Nat
      /\ Cardinality(Hits(r, Reporters)) \in Nat
      /\ Cardinality(Hits(r, Reporters)) + (IF top(c) \in Reporters THEN 1 ELSE 0) <= 1
      /\ stack' = [stack EXCEPT ![c] = t]
  BY Opened
<1> HIDE DEF r
<1>2. Nest(t) /\ t \in Seq(NestFrames)
  <2>1. Nest(t)
    BY <1>1, PushNest DEF r
  <2> QED BY <1>1, <2>1
<1>3. Weight(t) = Weight(r) + Share(b)
      /\ Cardinality(Hits(t, Reporters)) = Cardinality(Hits(r, Reporters)) + (IF b \in Reporters THEN 1 ELSE 0)
  BY <1>1, PushWeight
<1> HIDE DEF t
<1>4. Cardinality(Hits(t, Reporters)) <= 1
  BY <1>1, <1>3 DEF r
<1>5. crashing' \in [Cpu -> Int] /\ crashing'[c] = Weight(t) /\ \A d \in Cpu : d # c => crashing'[d] = crashing[d]
  <2>1. Share(b) \in Int /\ Share(top(c)) \in Int
    BY DEF Share, CRASH_IN_PRINT
  <2> QED BY <1>1, <1>3, <2>1 DEF Stacks
<1> QED BY <1>1, <1>2, <1>4, <1>5, NewStack

LEMMA Pops ==
    ASSUME Stacks, NEW c \in Cpu, stack[c] # <<>>, Pop(c), halted' = halted,
           crashing' = [crashing EXCEPT ![c] = @ - Share(top(c))]
    PROVE  Stacks'
<1> DEFINE r == Tail(stack[c])
<1>1. /\ r \in Seq(NestFrames) /\ Nest(r) /\ c \notin halted
      /\ crashing[c] = Weight(r) + Share(top(c)) /\ Weight(r) \in Nat
      /\ Cardinality(Hits(r, Reporters)) \in Nat
      /\ Cardinality(Hits(r, Reporters)) + (IF top(c) \in Reporters THEN 1 ELSE 0) <= 1
  BY Opened
<1>2. stack' = [stack EXCEPT ![c] = r]
  BY DEF Pop
<1> HIDE DEF r
<1>3. crashing' \in [Cpu -> Int] /\ crashing'[c] = Weight(r) /\ \A d \in Cpu : d # c => crashing'[d] = crashing[d]
  <2>1. Share(top(c)) \in Int
    BY DEF Share, CRASH_IN_PRINT
  <2> QED BY <1>1, <2>1 DEF Stacks
<1>4. Cardinality(Hits(r, Reporters)) <= 1
  BY <1>1
<1> QED BY <1>1, <1>2, <1>3, <1>4, NewStack

LEMMA Pushes ==
    ASSUME Stacks, NEW c \in Cpu, c \notin halted, NEW b \in NestFrames, Over(b, stack[c]), Share(b) = 0,
           Push(c, b), UNCHANGED <<halted, crashing>>
    PROVE  Stacks'
<1> DEFINE s == stack[c]
           t == <<b>> \o s
<1>1. /\ s \in Seq(NestFrames) /\ Nest(s) /\ crashing[c] = Weight(s) /\ crashing \in [Cpu -> Int]
      /\ Cardinality(Hits(s, Reporters)) <= 1
  BY DEF Stacks
<1>2. stack' = [stack EXCEPT ![c] = t]
  BY DEF Push
<1> HIDE DEF s
<1>3. Nest(t) /\ t \in Seq(NestFrames)
  <2>1. Nest(t)
    BY <1>1, PushNest DEF s
  <2> QED BY <1>1, <2>1
<1>4. Weight(t) = Weight(s) + 0 /\ Weight(s) \in Nat /\ Cardinality(Hits(s, Reporters)) \in Nat
      /\ Cardinality(Hits(t, Reporters)) = Cardinality(Hits(s, Reporters)) + (IF b \in Reporters THEN 1 ELSE 0)
  BY <1>1, PushWeight
<1>5. b \notin Reporters
  BY DEF Share, CRASH_IN_PRINT
<1> HIDE DEF t
<1>6. Weight(t) = Weight(s) /\ Cardinality(Hits(t, Reporters)) <= 1
  BY <1>1, <1>4, <1>5
<1> QED BY <1>1, <1>2, <1>3, <1>6, NewStack

(* What a frame counts, by its kind and its place.                          *)
LEMMA Shares ==
    ASSUME NEW f \in NestFrames
    PROVE  /\ f.fn = "vprintf" \/ f.fn = "crash"
           /\ f.fn = "vprintf" => /\ f.lock \in BOOLEAN /\ f \notin Counters /\ (f \in Reporters <=> f.lock = FALSE)
                                  /\ Share(f) = IF f.lock THEN 0 ELSE CRASH_IN_PRINT
           /\ f.fn = "crash" => /\ f \notin Reporters
                                /\ Share(f) = IF f.pc \in {"crash_lock", "drain", "send", "message", "clear"}
                                              THEN 1 ELSE 0
           /\ f.from \in 0 .. Size /\ f.to \in 0 .. Size - 1
  BY DEF NestFrames, Counters, Reporters, Share

(* A print at its next place.                                               *)
LEMMA PrintAt ==
    ASSUME NEW f \in NestFrames, f.fn = "vprintf",
           NEW p \in {"check", "lock", "format", "write", "drain", "send", "unlock"},
           NEW r, Over(f, r)
    PROVE  LET g == [f EXCEPT !.pc = p]
           IN  /\ g \in NestFrames /\ g.fn = "vprintf" /\ g.pc = p /\ g.lock = f.lock /\ Share(g) = Share(f)
               /\ (p \in {"check", "lock"} => f.lock) => Over(g, r)
<1> DEFINE g == [f EXCEPT !.pc = p]
<1>1. g \in NestFrames /\ g.fn = "vprintf" /\ g.pc = p /\ g.lock = f.lock
  BY DEF NestFrames
<1>2. Share(g) = Share(f)
  BY <1>1, Shares
<1> HIDE DEF g
<1> QED BY <1>1, <1>2 DEF g, Over

(* A move of the top of a stack that counts as much after it as before.     *)
LEMMA Moves ==
    ASSUME Stacks, NEW c \in Cpu, stack[c] # <<>>, NEW b \in NestFrames, Become(c, b),
           b.fn = top(c).fn, Share(b) = Share(top(c)), Over(b, Tail(stack[c])), UNCHANGED <<halted, crashing>>
    PROVE  Stacks'
<1>1. top(c) \in NestFrames /\ crashing \in [Cpu -> Int]
  BY Opened DEF Stacks
<1>2. Share(b) \in Int /\ (b \in Reporters => top(c) \in Reporters)
  <2>1. Share(b) \in Int
    BY DEF Share, CRASH_IN_PRINT
  <2>2. ASSUME b \in Reporters PROVE top(c) \in Reporters
    <3>1. b.fn = "vprintf" /\ Share(b) = CRASH_IN_PRINT
      BY <2>2, Shares
    <3>2. top(c).fn = "vprintf" /\ Share(top(c)) # 0
      BY <3>1 DEF CRASH_IN_PRINT
    <3> QED BY <1>1, <3>2, Shares
  <2> QED BY <2>1, <2>2
<1>3. crashing' = [crashing EXCEPT ![c] = @ + Share(b) - Share(top(c))]
  <2>1. crashing[c] + Share(b) - Share(top(c)) = crashing[c]
    BY <1>1, <1>2
  <2> QED BY <1>1, <2>1
<1>4. halted' = halted
  OBVIOUS
<1> QED BY <1>2, <1>3, <1>4, Becomes

-----------------------------------------------------------------------------
(* Each step keeps the count.                                               *)

LEMMA PrintCheckKeeps == NestInv => \A c \in Cpu : PrintCheck(c) => Stacks'
<1> SUFFICES ASSUME NestInv, NEW c \in Cpu, PrintCheck(c) PROVE Stacks'
  OBVIOUS
<1> DEFINE f == top(c)
           r == Tail(stack[c])
<1>1. Stacks /\ stack[c] # <<>> /\ f.fn = "vprintf" /\ f.pc = "check" /\ halted' = halted
  BY DEF NestInv, PrintCheck, At
<1>2. /\ f \in NestFrames /\ r \in Seq(NestFrames) /\ Over(f, r)
      /\ crashing[c] = Weight(r) + Share(f) /\ Weight(r) \in Nat /\ crashing \in [Cpu -> Int]
      /\ Cardinality(Hits(r, Reporters)) \in Nat
      /\ Cardinality(Hits(r, Reporters)) + (IF f \in Reporters THEN 1 ELSE 0) <= 1
  BY <1>1, Opened DEF Stacks
<1>3. f.lock = TRUE /\ Share(f) = 0 /\ f \notin Reporters /\ (r = <<>> \/ (Head(r).fn = "crash" /\ Head(r).pc = "clear"))
  <2>1. f.lock = TRUE
    BY <1>1, <1>2, Shares DEF Over
  <2> QED BY <1>1, <1>2, <2>1, Shares DEF Over
<1> HIDE DEF f, r
<1>4. CASE Goto(c, "lock") /\ UNCHANGED crashing
  <2> DEFINE b == [f EXCEPT !.pc = "lock"]
  <2>1. b \in NestFrames /\ b.fn = f.fn /\ Share(b) = Share(f) /\ Over(b, r)
    BY <1>1, <1>2, <1>3, PrintAt
  <2>2. Become(c, b)
    BY <1>4 DEF Goto, f
  <2> HIDE DEF b
  <2> QED BY <1>1, <1>4, <2>1, <2>2, Moves DEF f, r
<1>5. CASE Pop(c) /\ UNCHANGED crashing
  <2>1. crashing' = [crashing EXCEPT ![c] = @ - Share(f)]
    BY <1>2, <1>3, <1>5
  <2> QED BY <1>1, <1>5, <2>1, Pops DEF f
<1>6. CASE /\ crashing[c] \in 1..CRASH_IN_PRINT
           /\ crashing' = [crashing EXCEPT ![c] = @ + CRASH_IN_PRINT]
           /\ Become(c, [f EXCEPT !.pc = "format", !.lock = FALSE])
  <2> DEFINE b == [f EXCEPT !.pc = "format", !.lock = FALSE]
  <2>1. r # <<>>
    BY <1>2, <1>3, <1>6, EmptyNest
  <2>2. b \in NestFrames /\ b.fn = "vprintf" /\ b.pc = "format" /\ b.lock = FALSE
    BY <1>1, <1>2 DEF NestFrames
  <2> HIDE DEF b
  <2>3. Over(b, r) /\ b \in Reporters /\ Share(b) = CRASH_IN_PRINT
    BY <1>3, <2>1, <2>2, Shares DEF Over
  <2>4. Cardinality(Hits(r, Counters)) \in Nat /\ Cardinality(Hits(r, Counters)) # 0
    <3>1. Head(r) \in NestFrames /\ Head(r) = r[1] /\ 1 \in DOMAIN r
      BY <1>2, <2>1, HeadTailProperties, EmptySeq, LenProperties
    <3>2. Head(r) \in Counters
      BY <1>3, <2>1, <3>1 DEF Counters
    <3>3. Hits(r, Counters) # {}
      BY <3>1, <3>2 DEF Hits
    <3>4. IsFiniteSet(Hits(r, Counters)) /\ Cardinality(Hits(r, Counters)) \in Nat
      BY <1>2, <3>1, PushHits
    <3> QED BY <3>3, <3>4, FS_EmptySet
  <2>5. Cardinality(Hits(r, Reporters)) = 0
    <3> DEFINE k == Cardinality(Hits(r, Counters))
               m == Cardinality(Hits(r, Reporters))
    <3>1. k + CRASH_IN_PRINT * m + 0 <= CRASH_IN_PRINT /\ k \in Nat /\ k # 0 /\ m \in Nat
      BY <1>2, <1>3, <1>6, <2>4 DEF Weight
    <3> HIDE DEF k, m
    <3>2. m = 0
      BY <3>1 DEF CRASH_IN_PRINT
    <3> QED BY <3>2 DEF m
  <2>6. crashing' = [crashing EXCEPT ![c] = @ + Share(b) - Share(f)]
    BY <1>2, <1>3, <1>6, <2>3 DEF CRASH_IN_PRINT
  <2>7. Become(c, b)
    BY <1>6 DEF b
  <2> QED BY <1>1, <2>2, <2>3, <2>5, <2>6, <2>7, Becomes DEF f, r
<1> QED BY <1>4, <1>5, <1>6 DEF PrintCheck, f

(* The other steps of a print, but for its last.                            *)
LEMMA PrintKeeps ==
    NestInv => \A c \in Cpu : PrintLock(c) \/ Format(c) \/ PutChar(c) => Stacks'
<1> SUFFICES ASSUME NestInv, NEW c \in Cpu, PrintLock(c) \/ Format(c) \/ PutChar(c) PROVE Stacks'
  OBVIOUS
<1> DEFINE f == top(c)
           r == Tail(stack[c])
<1>1. /\ Stacks /\ stack[c] # <<>> /\ f.fn = "vprintf" /\ UNCHANGED <<halted, crashing>>
      /\ f.pc = "lock" \/ f.pc = "format" \/ f.pc = "write"
  BY DEF NestInv, PrintLock, Format, PutChar, At
<1>2. f \in NestFrames /\ r \in Seq(NestFrames) /\ Over(f, r)
  BY <1>1, Opened
<1> HIDE DEF f, r
<1>3. ASSUME NEW p \in {"format", "write"}, Goto(c, p) PROVE Stacks'
  <2> DEFINE b == [f EXCEPT !.pc = p]
  <2>0. /\ p \in {"check", "lock", "format", "write", "drain", "send", "unlock"} /\ p \notin {"check", "lock"}
        /\ f.fn = "vprintf" /\ Over(f, r) /\ f \in NestFrames
    BY <1>1, <1>2, <1>3
  <2>1. b \in NestFrames /\ b.fn = "vprintf" /\ b.lock = f.lock /\ b.pc \in {"format", "write"}
    <3> HIDE DEF r
    <3> QED BY <2>0 DEF NestFrames
  <2>2. Become(c, b)
    BY <1>3 DEF Goto, f
  <2> HIDE DEF b
  <2>3. Share(b) = Share(f) /\ Over(b, r)
    BY <2>0, <2>1, Shares DEF Over
  <2> QED BY <1>1, <2>1, <2>2, <2>3, Moves DEF f, r
<1>4. ASSUME PutChar(c) PROVE Stacks'
  <2> DEFINE p == IF f.left = 1 THEN "drain" ELSE f.pc
             b == [f EXCEPT !.left = @ - 1, !.pc = p]
  <2>0. p \in {"drain", "write"} /\ f.left - 1 \in Int
    BY <1>1, <1>2, <1>4 DEF NestFrames, PutChar, At, f
  <2>1. b \in NestFrames /\ b.fn = "vprintf" /\ b.lock = f.lock /\ b.pc \in {"drain", "write"}
    <3> HIDE DEF p
    <3> QED BY <1>1, <1>2, <2>0 DEF NestFrames
  <2>2. Become(c, b)
    BY <1>4 DEF PutChar, f
  <2> HIDE DEF b
  <2>3. Share(b) = Share(f) /\ Over(b, r)
    BY <1>1, <1>2, <2>1, Shares DEF Over
  <2> QED BY <1>1, <2>1, <2>2, <2>3, Moves DEF f, r
<1> QED BY <1>3, <1>4 DEF PrintLock, Format

LEMMA PrintUnlockKeeps == NestInv => \A c \in Cpu : PrintUnlock(c) => Stacks'
<1> SUFFICES ASSUME NestInv, NEW c \in Cpu, PrintUnlock(c) PROVE Stacks'
  OBVIOUS
<1> DEFINE f == top(c)
<1>1. Stacks /\ stack[c] # <<>> /\ f.fn = "vprintf" /\ Pop(c) /\ halted' = halted
  BY DEF NestInv, PrintUnlock, At
<1>2. f \in NestFrames /\ crashing \in [Cpu -> Int]
  BY <1>1, Opened DEF Stacks
<1>3. Share(f) = IF f.lock THEN 0 ELSE CRASH_IN_PRINT
  BY <1>1, <1>2, Shares
<1>4. crashing' = [crashing EXCEPT ![c] = @ - Share(f)]
  BY <1>2, <1>3 DEF PrintUnlock, f
<1> QED BY <1>1, <1>4, Pops

(* drain_consolebuf                                                         *)
LEMMA DrainKeeps ==
    NestInv => \A c \in Cpu : DrainStart(c) \/ DrainByte(c) \/ DrainHead(c) => Stacks'
<1> SUFFICES ASSUME NestInv, NEW c \in Cpu, DrainStart(c) \/ DrainByte(c) \/ DrainHead(c) PROVE Stacks'
  OBVIOUS
<1> DEFINE f == top(c)
           r == Tail(stack[c])
<1>1. /\ Stacks /\ stack[c] # <<>> /\ UNCHANGED <<halted, crashing>> /\ f.pc \in {"drain", "send"}
      /\ head \in 0 .. Size - 1 /\ tail \in 0 .. Size - 1 /\ Size \in Nat /\ Size > 0
  BY SizeAssumption DEF NestInv, Contents, TypeOK, DrainStart, DrainByte, DrainHead, Draining, Sending
<1>2. f \in NestFrames /\ r \in Seq(NestFrames) /\ Over(f, r) /\ f.from \in 0 .. Size /\ f.to \in 0 .. Size - 1
  BY <1>1, Opened, Shares
<1> HIDE DEF f, r
<1>3. ASSUME NEW b, Become(c, b), b \in NestFrames, b.fn = f.fn, "lock" \in DOMAIN f => b.lock = f.lock,
             f.fn = "vprintf" => b.pc \in {"drain", "send", "unlock"},
             f.fn = "crash" => b.pc \in {"drain", "send", "message"}
      PROVE  Stacks'
  <2>1. CASE f.fn = "vprintf"
    <3>1. b.lock = f.lock
      BY <1>2, <1>3, <2>1 DEF NestFrames
    <3>2. Share(b) = Share(f)
      BY <1>2, <1>3, <2>1, <3>1, Shares
    <3>3. Over(b, r)
      BY <1>2, <1>3, <2>1, <3>1 DEF Over
    <3> QED BY <1>1, <1>3, <3>2, <3>3, Moves DEF f, r
  <2>2. CASE f.fn = "crash"
    <3>1. Share(b) = Share(f)
      BY <1>1, <1>2, <1>3, <2>2, Shares
    <3>2. Over(b, r)
      BY <1>3, <2>2 DEF Over
    <3> QED BY <1>1, <1>3, <3>1, <3>2, Moves DEF f, r
  <2> QED BY <1>2, <2>1, <2>2, Shares
<1>4. CASE DrainStart(c)
  <2>1. CASE Become(c, [f EXCEPT !.pc = "send", !.from = head, !.to = tail])
    <3> DEFINE b == [f EXCEPT !.pc = "send", !.from = head, !.to = tail]
    <3>1. /\ b \in NestFrames /\ b.fn = f.fn /\ ("lock" \in DOMAIN f => b.lock = f.lock)
          /\ b.pc = "send"
      <4>1. head \in 0 .. Size
        BY <1>1
      <4> QED BY <1>1, <1>2, <4>1 DEF NestFrames
    <3>2. Become(c, b)
      BY <2>1
    <3> HIDE DEF b
    <3> QED BY <1>3, <3>1, <3>2
  <2>2. CASE Goto(c, AfterDrain(f))
    <3> DEFINE b == [f EXCEPT !.pc = AfterDrain(f)]
    <3>1. /\ b \in NestFrames /\ b.fn = f.fn /\ ("lock" \in DOMAIN f => b.lock = f.lock)
          /\ f.fn = "vprintf" => b.pc = "unlock"
          /\ f.fn = "crash" => b.pc = "message"
      BY <1>2 DEF NestFrames, AfterDrain
    <3>2. Become(c, b)
      BY <2>2 DEF Goto, f
    <3> HIDE DEF b
    <3> QED BY <1>3, <3>1, <3>2
  <2> QED BY <1>4, <2>1, <2>2 DEF DrainStart, f
<1>5. CASE DrainByte(c)
  <2> DEFINE b == [f EXCEPT !.from = @ + 1]
  <2>1. f.from + 1 \in 0 .. Size /\ f.pc = "send"
    <3>1. f.from < (IF f.to < f.from THEN Size ELSE f.to) /\ f.pc = "send"
      BY <1>5 DEF DrainByte, Sending, ChunkEnd, f
    <3> DEFINE x == f.from
               y == f.to
    <3>2. x < (IF y < x THEN Size ELSE y) /\ x \in 0 .. Size /\ y \in 0 .. Size - 1
      BY <1>2, <3>1
    <3> HIDE DEF x, y
    <3>3. x + 1 \in 0 .. Size
      BY <1>1, <3>2
    <3> QED BY <3>1, <3>3 DEF x
  <2>2. b \in NestFrames /\ b.fn = f.fn /\ ("lock" \in DOMAIN f => b.lock = f.lock) /\ b.pc = "send"
    BY <1>2, <2>1 DEF NestFrames
  <2>3. Become(c, b)
    BY <1>5 DEF DrainByte, f
  <2> HIDE DEF b
  <2> QED BY <1>3, <2>2, <2>3
<1>6. CASE DrainHead(c)
  <2>1. f.pc = "send" /\ 0 \in 0 .. Size /\ 0 \in 0 .. Size - 1
    BY <1>1, <1>6 DEF DrainHead, Sending, f
  <2>2. CASE Become(c, [f EXCEPT !.pc = AfterDrain(f), !.from = 0, !.to = 0])
    <3> DEFINE b == [f EXCEPT !.pc = AfterDrain(f), !.from = 0, !.to = 0]
    <3>1. /\ b \in NestFrames /\ b.fn = f.fn /\ ("lock" \in DOMAIN f => b.lock = f.lock)
          /\ f.fn = "vprintf" => b.pc = "unlock"
          /\ f.fn = "crash" => b.pc = "message"
      BY <1>2, <2>1 DEF NestFrames, AfterDrain
    <3>2. Become(c, b)
      BY <2>2
    <3> HIDE DEF b
    <3> QED BY <1>3, <3>1, <3>2
  <2>3. CASE Become(c, [f EXCEPT !.from = 0])
    <3> DEFINE b == [f EXCEPT !.from = 0]
    <3>1. b \in NestFrames /\ b.fn = f.fn /\ ("lock" \in DOMAIN f => b.lock = f.lock) /\ b.pc = "send"
      BY <1>2, <2>1 DEF NestFrames
    <3>2. Become(c, b)
      BY <2>3
    <3> HIDE DEF b
    <3> QED BY <1>3, <3>1, <3>2
  <2> QED BY <1>6, <2>2, <2>3 DEF DrainHead, f
<1> QED BY <1>4, <1>5, <1>6

(* set_crashing(1): a handler that found no other core's crash waits.       *)
LEMMA SetCrashingKeeps == NestInv => \A c \in Cpu : SetCrashing(c) => Stacks'
<1> SUFFICES ASSUME NestInv, NEW c \in Cpu, SetCrashing(c) PROVE Stacks'
  OBVIOUS
<1> DEFINE f == top(c)
           r == Tail(stack[c])
           p == IF crashing[c] = 0 THEN "crash_lock" ELSE "message"
           b == [f EXCEPT !.pc = p]
<1>1. /\ Stacks /\ stack[c] # <<>> /\ f.fn = "crash" /\ f.pc = "set_crashing" /\ halted' = halted
      /\ crashing' = [crashing EXCEPT ![c] = @ + 1] /\ Become(c, b)
  BY DEF NestInv, SetCrashing, At, Goto
<1>2. /\ f \in NestFrames /\ r \in Seq(NestFrames) /\ Over(f, r) /\ crashing \in [Cpu -> Int]
      /\ crashing[c] = Weight(r) + Share(f)
  BY <1>1, Opened DEF Stacks
<1> HIDE DEF f, r
<1>3. p \in {"crash_lock", "message"} /\ (p = "crash_lock" => crashing[c] = 0)
  OBVIOUS
<1> HIDE DEF p
<1>4. b \in NestFrames /\ b.fn = "crash" /\ b.pc = p
  BY <1>1, <1>2, <1>3 DEF NestFrames
<1> HIDE DEF b
<1>5. Share(f) = 0 /\ Share(b) = 1 /\ b \notin Reporters
  BY <1>1, <1>2, <1>3, <1>4, Shares
<1>6. p = "crash_lock" => Hits(r, Counters) = {} /\ Hits(r, Reporters) = {}
  <2> SUFFICES ASSUME p = "crash_lock" PROVE Hits(r, Counters) = {} /\ Hits(r, Reporters) = {}
    OBVIOUS
  <2> DEFINE k == Cardinality(Hits(r, Counters))
             m == Cardinality(Hits(r, Reporters))
  <2>1. /\ IsFiniteSet(Hits(r, Counters)) /\ IsFiniteSet(Hits(r, Reporters)) /\ k \in Nat /\ m \in Nat
    BY <1>2, PushHits
  <2>2. k + CRASH_IN_PRINT * m = 0
    <3>1. Weight(r) = k + CRASH_IN_PRINT * m
      BY DEF Weight
    <3> HIDE DEF k, m
    <3> QED BY <1>2, <1>3, <1>5, <2>1, <3>1 DEF CRASH_IN_PRINT
  <2>3. k = 0 /\ m = 0
    <3> HIDE DEF k, m
    <3> QED BY <2>1, <2>2 DEF CRASH_IN_PRINT
  <2> QED BY <2>1, <2>3, FS_EmptySet
<1>7. Over(b, r)
  BY <1>4, <1>6 DEF Over
<1>8. crashing' = [crashing EXCEPT ![c] = @ + Share(b) - Share(f)]
  <2>1. crashing[c] + 1 = crashing[c] + Share(b) - Share(f)
    BY <1>2, <1>5
  <2> QED BY <1>1, <2>1
<1> QED BY <1>1, <1>4, <1>5, <1>7, <1>8, Becomes DEF f, r

(* crash_lock taken, "crashing = 1": it was 1, for a handler that waits is  *)
(* the only one of its core that counts.                                    *)
LEMMA CrashLockKeeps == NestInv => \A c \in Cpu : CrashLock(c) => Stacks'
<1> SUFFICES ASSUME NestInv, NEW c \in Cpu, CrashLock(c) PROVE Stacks'
  OBVIOUS
<1> DEFINE f == top(c)
           r == Tail(stack[c])
           b == [f EXCEPT !.pc = "drain"]
<1>1. /\ Stacks /\ stack[c] # <<>> /\ f.fn = "crash" /\ f.pc = "crash_lock" /\ halted' = halted
      /\ crashing' = [crashing EXCEPT ![c] = 1] /\ Become(c, b)
  BY DEF NestInv, CrashLock, At, Goto
<1>2. /\ f \in NestFrames /\ r \in Seq(NestFrames) /\ Over(f, r) /\ crashing \in [Cpu -> Int]
      /\ crashing[c] = Weight(r) + Share(f)
  BY <1>1, Opened DEF Stacks
<1> HIDE DEF f, r
<1>3. b \in NestFrames /\ b.fn = "crash" /\ b.pc = "drain"
  BY <1>1, <1>2 DEF NestFrames
<1> HIDE DEF b
<1>4. Share(f) = 1 /\ Share(b) = 1 /\ b \notin Reporters
  BY <1>1, <1>2, <1>3, Shares
<1>5. Weight(r) = 0
  <2>1. Hits(r, Counters) = {} /\ Hits(r, Reporters) = {}
    BY <1>1, <1>2 DEF Over
  <2>2. Cardinality({}) = 0
    BY FS_EmptySet
  <2> QED BY <2>1, <2>2 DEF Weight, CRASH_IN_PRINT
<1>6. Over(b, r)
  BY <1>3 DEF Over
<1>7. crashing' = [crashing EXCEPT ![c] = @ + Share(b) - Share(f)]
  BY <1>1, <1>2, <1>4, <1>5
<1> QED BY <1>1, <1>3, <1>4, <1>6, <1>7, Becomes DEF f, r

LEMMA ClearCrashingKeeps == NestInv => \A c \in Cpu : ClearCrashing(c) => Stacks'
<1> SUFFICES ASSUME NestInv, NEW c \in Cpu, ClearCrashing(c) PROVE Stacks'
  OBVIOUS
<1> DEFINE f == top(c)
           r == Tail(stack[c])
           p == IF crashing[c] = 1 THEN "crash_unlock" ELSE "end"
           b == [f EXCEPT !.pc = p]
<1>1. /\ Stacks /\ stack[c] # <<>> /\ f.fn = "crash" /\ f.pc = "clear" /\ halted' = halted
      /\ crashing' = [crashing EXCEPT ![c] = @ - 1] /\ Become(c, b)
  BY DEF NestInv, ClearCrashing, At, Goto
<1>2. f \in NestFrames /\ r \in Seq(NestFrames) /\ Over(f, r) /\ crashing \in [Cpu -> Int]
  BY <1>1, Opened DEF Stacks
<1> HIDE DEF f, r
<1>3. p \in {"crash_unlock", "end"}
  OBVIOUS
<1> HIDE DEF p
<1>4. b \in NestFrames /\ b.fn = "crash" /\ b.pc = p
  BY <1>1, <1>2, <1>3 DEF NestFrames
<1> HIDE DEF b
<1>5. Share(f) = 1 /\ Share(b) = 0 /\ b \notin Reporters
  BY <1>1, <1>2, <1>3, <1>4, Shares
<1>6. Over(b, r)
  BY <1>3, <1>4 DEF Over
<1>7. crashing' = [crashing EXCEPT ![c] = @ + Share(b) - Share(f)]
  <2>1. crashing[c] - 1 = crashing[c] + Share(b) - Share(f)
    BY <1>2, <1>5
  <2> QED BY <1>1, <2>1
<1> QED BY <1>1, <1>4, <1>5, <1>6, <1>7, Becomes DEF f, r

LEMMA CrashUnlockKeeps == NestInv => \A c \in Cpu : CrashUnlock(c) => Stacks'
<1> SUFFICES ASSUME NestInv, NEW c \in Cpu, CrashUnlock(c) PROVE Stacks'
  OBVIOUS
<1> DEFINE f == top(c)
           r == Tail(stack[c])
           b == [f EXCEPT !.pc = "end"]
<1>1. /\ Stacks /\ stack[c] # <<>> /\ f.fn = "crash" /\ f.pc = "crash_unlock"
      /\ UNCHANGED <<halted, crashing>> /\ Become(c, b)
  BY DEF NestInv, CrashUnlock, At, Goto
<1>2. f \in NestFrames /\ r \in Seq(NestFrames) /\ Over(f, r)
  BY <1>1, Opened
<1> HIDE DEF f, r
<1>3. b \in NestFrames /\ b.fn = "crash" /\ b.pc = "end"
  BY <1>1, <1>2 DEF NestFrames
<1> HIDE DEF b
<1>4. Share(f) = Share(b) /\ Over(b, r)
  BY <1>1, <1>2, <1>3, Shares DEF Over
<1> QED BY <1>1, <1>3, <1>4, Moves DEF f, r

(* The handler returns, or stops the core and its whole stack with it.      *)
LEMMA CrashEndKeeps == NestInv => \A c \in Cpu : CrashEnd(c) => Stacks'
<1> SUFFICES ASSUME NestInv, NEW c \in Cpu, CrashEnd(c) PROVE Stacks'
  OBVIOUS
<1> DEFINE f == top(c)
<1>1. /\ Stacks /\ stack[c] # <<>> /\ f.fn = "crash" /\ f.pc = "end" /\ crashing' = crashing
  BY DEF NestInv, CrashEnd, At
<1>2. CASE Pop(c) /\ UNCHANGED halted
  <2>1. f \in NestFrames /\ crashing \in [Cpu -> Int]
    BY <1>1, Opened DEF Stacks
  <2> HIDE DEF f
  <2>2. Share(f) = 0
    BY <1>1, <2>1, Shares
  <2>3. crashing' = [crashing EXCEPT ![c] = @ - Share(f)]
    BY <1>1, <2>1, <2>2
  <2> QED BY <1>1, <1>2, <2>3, Pops DEF f
<1>3. CASE halted' = halted \cup {c} /\ stack' = [stack EXCEPT ![c] = <<>>]
  <2>1. stack \in [Cpu -> Seq(NestFrames)] /\ <<>> \in Seq(NestFrames)
    BY <1>1 DEF Stacks
  <2>2. stack' \in [Cpu -> Seq(NestFrames)] /\ stack'[c] = <<>> /\ \A d \in Cpu : d # c => stack'[d] = stack[d]
    BY <1>3, <2>1
  <2> SUFFICES ASSUME NEW d \in Cpu
               PROVE  /\ Nest(stack'[d]) /\ Cardinality(Hits(stack'[d], Reporters)) <= 1
                      /\ IF d \in halted' THEN stack'[d] = <<>> ELSE crashing'[d] = Weight(stack'[d])
    BY <1>1, <2>2 DEF Stacks
  <2>3. CASE d = c
    BY <1>3, <2>2, <2>3, EmptyNest
  <2>4. CASE d # c
    BY <1>1, <1>3, <2>2, <2>4 DEF Stacks
  <2> QED BY <2>3, <2>4
<1> QED BY <1>2, <1>3 DEF CrashEnd

(* The handler prints its report: two frames for one.                       *)
LEMMA CrashMessageKeeps == NestInv => \A c \in Cpu : CrashMessage(c) => Stacks'
<1> SUFFICES ASSUME NestInv, NEW c \in Cpu, CrashMessage(c) PROVE Stacks'
  OBVIOUS
<1> DEFINE f == top(c)
           r == Tail(stack[c])
           b == [f EXCEPT !.pc = "clear"]
           g == PrintFrame(c, "report")
           u == <<b>> \o r
           t == <<g>> \o u
<1>1. /\ Stacks /\ stack[c] # <<>> /\ f.fn = "crash" /\ f.pc = "message" /\ halted' = halted
      /\ crashing' = crashing /\ stack' = [stack EXCEPT ![c] = <<g, b>> \o Tail(@)] /\ events \in 0 .. MaxEvents
  BY DEF NestInv, Contents, CrashMessage, At
<1>2. /\ f \in NestFrames /\ r \in Seq(NestFrames) /\ Over(f, r) /\ Nest(r) /\ c \notin halted
      /\ crashing[c] = Weight(r) + Share(f) /\ Weight(r) \in Nat /\ crashing \in [Cpu -> Int]
      /\ Cardinality(Hits(r, Reporters)) \in Nat
      /\ Cardinality(Hits(r, Reporters)) + (IF f \in Reporters THEN 1 ELSE 0) <= 1
  BY <1>1, Opened DEF Stacks
<1>3. stack' = [stack EXCEPT ![c] = <<g, b>> \o r]
  BY <1>1
<1> HIDE DEF f, r
<1>4. b \in NestFrames /\ b.fn = "crash" /\ b.pc = "clear"
  BY <1>1, <1>2 DEF NestFrames
<1>5. g \in NestFrames /\ g.fn = "vprintf" /\ g.pc = "check" /\ g.lock = TRUE
  BY <1>1, SizeAssumption, MsgLenAssumption DEF PrintFrame, NestFrames
<1> HIDE DEF b, g
<1>6. /\ Share(f) = 1 /\ Share(b) = 1 /\ Share(g) = 0
      /\ f \notin Reporters /\ b \notin Reporters /\ g \notin Reporters
  BY <1>1, <1>2, <1>4, <1>5, Shares
<1>7. u \in Seq(NestFrames) /\ u # <<>> /\ Head(u) = b /\ t \in Seq(NestFrames) /\ <<g, b>> \o r = t
  <2> DEFINE F == NestFrames
  <2>1. b \in F /\ g \in F /\ r \in Seq(F)
    BY <1>2, <1>4, <1>5
  <2> HIDE DEF F
  <2>2. u \in Seq(F) /\ u # <<>> /\ Head(u) = b /\ t \in Seq(F)
    BY <2>1
  <2>3. <<g, b>> \o r = t
    BY <2>1
  <2> QED BY <2>2, <2>3 DEF F
<1>8. Over(b, r) /\ Over(g, u)
  BY <1>4, <1>5, <1>7 DEF Over
<1>9. Nest(u)
  BY <1>2, <1>4, <1>8, PushNest
<1>10. /\ Weight(u) = Weight(r) + Share(b)
       /\ Cardinality(Hits(u, Reporters)) = Cardinality(Hits(r, Reporters)) + (IF b \in Reporters THEN 1 ELSE 0)
  BY <1>2, <1>4, PushWeight
<1> HIDE DEF u
<1>11. Nest(t)
  BY <1>5, <1>7, <1>8, <1>9, PushNest
<1>12. /\ Weight(t) = Weight(u) + Share(g)
       /\ Cardinality(Hits(t, Reporters)) = Cardinality(Hits(u, Reporters)) + (IF g \in Reporters THEN 1 ELSE 0)
  BY <1>5, <1>7, PushWeight
<1> HIDE DEF t
<1>13. crashing'[c] = Weight(t) /\ Cardinality(Hits(t, Reporters)) <= 1
  BY <1>1, <1>2, <1>6, <1>10, <1>12
<1>14. stack' = [stack EXCEPT ![c] = t] /\ crashing' \in [Cpu -> Int] /\ \A d \in Cpu : d # c => crashing'[d] = crashing[d]
  BY <1>1, <1>2, <1>3, <1>7
<1> QED BY <1>1, <1>2, <1>7, <1>11, <1>13, <1>14, NewStack

(* The steps that start a print or a handler.                               *)
LEMMA StartKeeps == NestInv => \A c \in Cpu : ThreadPrints(c) \/ Trap(c) => Stacks'
<1> SUFFICES ASSUME NestInv, NEW c \in Cpu, ThreadPrints(c) \/ Trap(c) PROVE Stacks'
  OBVIOUS
<1>1. /\ Stacks /\ c \notin halted /\ UNCHANGED <<halted, crashing>> /\ events \in 0 .. MaxEvents
  BY DEF NestInv, Contents, ThreadPrints, Trap
<1>2. CASE ThreadPrints(c)
  <2> DEFINE g == PrintFrame(c, "thread")
  <2>1. g \in NestFrames /\ g.fn = "vprintf" /\ g.lock = TRUE
    BY <1>1, SizeAssumption, MsgLenAssumption DEF PrintFrame, NestFrames
  <2>2. Push(c, g) /\ stack[c] = <<>>
    BY <1>2 DEF ThreadPrints
  <2> HIDE DEF g
  <2>3. Share(g) = 0 /\ Over(g, stack[c])
    BY <2>1, <2>2, Shares DEF Over
  <2> QED BY <1>1, <2>1, <2>2, <2>3, Pushes
<1>3. CASE Trap(c)
  <2> DEFINE g == CrashFrame
  <2>1. g \in NestFrames /\ g.fn = "crash" /\ g.pc = "set_crashing"
    BY SizeAssumption DEF CrashFrame, NestFrames
  <2>2. Push(c, g)
    BY <1>3 DEF Trap
  <2> HIDE DEF g
  <2>3. Share(g) = 0 /\ Over(g, stack[c])
    BY <2>1, Shares DEF Over
  <2> QED BY <1>1, <2>1, <2>2, <2>3, Pushes
<1> QED BY <1>2, <1>3

(* The bytes sent are of messages, and the queue's indices in its buffer.   *)
LEMMA Sent ==
    ASSUME NEW x \in Message, out \in Seq(Message), Send(x) PROVE out' \in Seq(Message)
<1>1. Append(out, x) \in Seq(Message)
  <2> DEFINE M == Message
  <2>1. x \in M /\ out \in Seq(M)
    OBVIOUS
  <2> HIDE DEF M
  <2>2. Append(out, x) \in Seq(M)
    BY <2>1
  <2> QED BY <2>2 DEF M
<1> QED BY <1>1 DEF Send

LEMMA Typed ==
    ASSUME Contents, halted' \subseteq Cpu, console_ok' \in [Cpu -> BOOLEAN],
           console_lock' \in Cpu \cup {Free}, crash_lock' \in Cpu \cup {Free}, vbuf' \in Message,
           ring' \in [0 .. Size - 1 -> Message], head' \in 0 .. Size - 1, tail' \in 0 .. Size - 1,
           events' \in 0 .. MaxEvents, out' \in Seq(Message)
    PROVE  Contents'
<1>1. \A i \in DOMAIN out' : out'[i] \in Message
  BY ElementOfSeq, LenProperties
<1> QED BY <1>1 DEF Contents, TypeOK

LEMMA Contents_Next == NestInv /\ [Next]_vars => Contents'
<1> SUFFICES ASSUME NestInv, [Next]_vars PROVE Contents'
  OBVIOUS
<1> USE DEF buffer, locks, counts
<1>1. /\ Contents /\ Stacks /\ halted \subseteq Cpu /\ console_ok \in [Cpu -> BOOLEAN]
      /\ console_lock \in Cpu \cup {Free} /\ crash_lock \in Cpu \cup {Free} /\ vbuf \in Message
      /\ ring \in [0 .. Size - 1 -> Message] /\ head \in 0 .. Size - 1 /\ tail \in 0 .. Size - 1
      /\ events \in 0 .. MaxEvents /\ out \in Seq(Message) /\ Size \in Nat \ {0, 1} /\ MaxEvents \in Nat
  BY SizeAssumption, MaxEventsAssumption DEF NestInv, Contents, TypeOK
<1>2. \A i \in Int : wrap(i) \in 0 .. Size - 1
  BY <1>1 DEF wrap
<1>3. CASE UNCHANGED vars
  BY <1>1, <1>3, Typed DEF vars
<1>4. ASSUME NEW c \in Cpu, ThreadPrints(c) \/ Trap(c) PROVE Contents'
  <2>1. events + 1 \in 0 .. MaxEvents /\ <<>> \in Seq(Message)
    BY <1>1, <1>4 DEF ThreadPrints, Trap
  <2> QED BY <1>1, <1>4, <2>1, Typed DEF ThreadPrints, Trap
<1>5. ASSUME NEW c \in Cpu,
             \/ ConsoleOk(c) \/ PrintCheck(c) \/ PrintLock(c) \/ PrintUnlock(c) \/ DrainStart(c)
             \/ SetCrashing(c) \/ CrashLock(c) \/ CrashMessage(c)
             \/ ClearCrashing(c) \/ CrashUnlock(c) \/ CrashEnd(c)
      PROVE  Contents'
  <2>1. /\ UNCHANGED <<vbuf, ring, head, tail, out, events>>
        /\ halted' = halted \/ halted' = halted \cup {c}
        /\ console_ok' = console_ok \/ console_ok' = [console_ok EXCEPT ![c] = TRUE]
        /\ console_lock' \in {console_lock, c, Free} /\ crash_lock' \in {crash_lock, c, Free}
    BY <1>5 DEF ConsoleOk, PrintCheck, PrintLock, PrintUnlock, DrainStart, SetCrashing, CrashLock,
                CrashMessage, ClearCrashing, CrashUnlock, CrashEnd
  <2> QED BY <1>1, <1>5, <2>1, Typed
<1>6. ASSUME NEW c \in Cpu, Format(c) PROVE Contents'
  <2>1. stack[c] # <<>> /\ top(c).fn = "vprintf"
    BY <1>6 DEF Format, At
  <2>2. top(c) \in NestFrames
    BY <1>1, <2>1, Opened
  <2>3. top(c).msg \in Message
    BY <2>1, <2>2 DEF NestFrames, Message
  <2> QED BY <1>1, <1>6, <2>3, Typed DEF Format
<1>7. ASSUME NEW c \in Cpu, PutChar(c) PROVE Contents'
  <2>1. UNCHANGED <<halted, console_ok, console_lock, crash_lock, vbuf, events>>
    BY <1>7 DEF PutChar
  <2>2. CASE Send(vbuf) /\ UNCHANGED <<ring, head, tail>>
    BY <1>1, <2>1, <2>2, Sent, Typed
  <2>3. CASE Stored(vbuf) /\ UNCHANGED out
    <3>1. tail + 1 \in Int
      BY <1>1
    <3>2. ring' \in [0 .. Size - 1 -> Message] /\ head' \in 0 .. Size - 1 /\ tail' \in 0 .. Size - 1
      BY <1>1, <1>2, <2>3, <3>1 DEF Stored
    <3> QED BY <1>1, <2>1, <2>3, <3>2, Typed
  <2> QED BY <1>7, <2>2, <2>3 DEF PutChar
<1>8. ASSUME NEW c \in Cpu, DrainByte(c) PROVE Contents'
  <2> DEFINE x == top(c).from
             y == top(c).to
  <2>1. stack[c] # <<>> /\ x < (IF y < x THEN Size ELSE y) /\ Send(ring[x])
        /\ UNCHANGED <<halted, console_ok, console_lock, crash_lock, vbuf, ring, head, tail, events>>
    BY <1>8 DEF DrainByte, Sending, ChunkEnd
  <2>2. x \in 0 .. Size /\ y \in 0 .. Size - 1
    BY <1>1, <2>1, Opened, Shares
  <2> HIDE DEF x, y
  <2>3. x \in 0 .. Size - 1
    BY <1>1, <2>1, <2>2
  <2>4. ring[x] \in Message
    BY <1>1, <2>3
  <2> QED BY <1>1, <2>1, <2>4, Sent, Typed
<1>9. ASSUME NEW c \in Cpu, DrainHead(c) PROVE Contents'
  <2>1. stack[c] # <<>> /\ head' = wrap(top(c).from)
        /\ UNCHANGED <<halted, console_ok, console_lock, crash_lock, vbuf, ring, tail, events, out>>
    BY <1>9 DEF DrainHead, Sending
  <2>2. top(c).from \in 0 .. Size
    BY <1>1, <2>1, Opened, Shares
  <2>3. head' \in 0 .. Size - 1
    <3>1. top(c).from \in Int
      BY <1>1, <2>2
    <3> QED BY <1>2, <2>1, <3>1
  <2> QED BY <1>1, <2>1, <2>3, Typed
<1> QED BY <1>3, <1>4, <1>5, <1>6, <1>7, <1>8, <1>9 DEF Next, Step

LEMMA Stacks_Next == NestInv /\ [Next]_vars => Stacks'
<1> SUFFICES ASSUME NestInv, [Next]_vars PROVE Stacks'
  OBVIOUS
<1>1. ASSUME UNCHANGED <<stack, crashing, halted>> PROVE Stacks'
  <2>1. stack' = stack /\ crashing' = crashing /\ halted' = halted
    BY <1>1
  <2> QED BY <2>1 DEF NestInv, Stacks
<1>2. CASE UNCHANGED vars
  BY <1>1, <1>2 DEF vars
<1>3. ASSUME NEW c \in Cpu, ConsoleOk(c) PROVE Stacks'
  BY <1>1, <1>3 DEF ConsoleOk
<1>4. ASSUME NEW c \in Cpu, ThreadPrints(c) \/ Trap(c) PROVE Stacks'
  BY <1>4, StartKeeps
<1>5. ASSUME NEW c \in Cpu, Step(c) PROVE Stacks'
  <2>1. CASE PrintCheck(c) \/ PrintLock(c) \/ Format(c) \/ PutChar(c) \/ PrintUnlock(c)
    BY <2>1, PrintCheckKeeps, PrintKeeps, PrintUnlockKeeps
  <2>2. CASE DrainStart(c) \/ DrainByte(c) \/ DrainHead(c)
    BY <2>2, DrainKeeps
  <2>3. CASE SetCrashing(c) \/ CrashLock(c) \/ CrashMessage(c)
    BY <2>3, SetCrashingKeeps, CrashLockKeeps, CrashMessageKeeps
  <2>4. CASE ClearCrashing(c) \/ CrashUnlock(c) \/ CrashEnd(c)
    BY <2>4, ClearCrashingKeeps, CrashUnlockKeeps, CrashEndKeeps
  <2> QED BY <1>5, <2>1, <2>2, <2>3, <2>4 DEF Step
<1> QED BY <1>2, <1>3, <1>4, <1>5 DEF Next

LEMMA Init_NestInv == Init => NestInv
<1> SUFFICES ASSUME Init PROVE NestInv
  OBVIOUS
<1>1. Contents
  <2>1. out \in Seq(Message) /\ (\A i \in DOMAIN out : out[i] \in Message) /\ NoMsg \in Message
        /\ events \in 0 .. MaxEvents /\ 0 \in 0 .. Size - 1
    BY SizeAssumption, MaxEventsAssumption DEF Init, Message
  <2> QED BY <2>1 DEF Init, Contents, TypeOK
<1>2. Stacks
  <2>1. /\ stack \in [Cpu -> Seq(NestFrames)] /\ crashing \in [Cpu -> Int]
        /\ \A c \in Cpu : stack[c] = <<>> /\ crashing[c] = 0 /\ c \notin halted
    BY DEF Init
  <2>2. Nest(<<>>) /\ Weight(<<>>) = 0 /\ Cardinality(Hits(<<>>, Reporters)) <= 1
    BY EmptyNest
  <2> QED BY <2>1, <2>2 DEF Stacks
<1> QED BY <1>1, <1>2 DEF NestInv

(* Nested traps: on every core's stack a print is a thread's or its         *)
(* handler's report, a handler that waits for crash_lock is the only one    *)
(* that counts, and cpu->crashing is what the frames add up to.             *)
THEOREM NestInvariance == Spec => []NestInv
<1>1. NestInv /\ [Next]_vars => NestInv'
  BY Contents_Next, Stacks_Next DEF NestInv
<1> QED BY <1>1, Init_NestInv, PTL DEF Spec

(* console.c:186-199: the count of crashes is exact for traps within traps, *)
(* even when one comes while set_crashing waits for crash_lock, whose       *)
(* "crashing = 1" then overwrites the count; no two reports of a core are   *)
(* printed at once; a lock has one holder and consolebuf's indices stay in. *)
THEOREM CountsAreSound == Spec => []CountsSound
<1>1. ASSUME NestInv PROVE CountsSound
  <2>1. TypeOK
    BY <1>1 DEF NestInv, Contents
  <2>2. ASSUME NEW c \in Cpu \ halted
        PROVE  Reports(c) = Hits(stack[c], Reporters) /\ Counted(c) = Hits(stack[c], Counters)
    <3>1. \A i \in DOMAIN stack[c] : stack[c][i] \in NestFrames
      <4>1. stack[c] \in Seq(NestFrames)
        BY <1>1 DEF NestInv, Stacks
      <4> QED BY <4>1, ElementOfSeq, LenProperties
    <3> QED BY <3>1 DEF Reports, Counted, CrashFrames, Hits, Reporters, Counters
  <2>3. CountExact
    BY <1>1, <2>2 DEF NestInv, Stacks, Weight, CountExact
  <2> QED BY <2>1, <2>3 DEF CountsSound
<1> QED BY <1>1, NestInvariance, PTL

-----------------------------------------------------------------------------
(* Messages in one piece: what the device was sent and what is still in     *)
(* consolebuf, from the place the drain is at, is one stream.               *)

Slot(p, i) == IF p + i - 1 < Size THEN p + i - 1 ELSE p + i - 1 - Size
Length(p, t) == IF p <= t THEN t - p ELSE t - p + Size
Pending(r, p, t) == [i \in 1 .. Length(p, t) |-> r[Slot(p, i)]]
DrainAt == IF console_lock # Free /\ Sending(console_lock) THEN top(console_lock).from ELSE head
Stream == out \o Pending(ring, DrainAt, tail)

(* Messages of threads, in one piece each.                                  *)
Said(n) == Cpu \X {"thread"} \X (0 .. n - 1)
Spots(s, m) == {i \in 1 .. Len(s) : s[i] = m}
InPieces(s) ==
    /\ \A i, k \in 1 .. Len(s) : s[i] = s[k] => \A j \in i .. k : s[j] = s[i]
    /\ \A m \in Message : Cardinality(Spots(s, m)) <= MsgLen

(* A thread's print and the bytes of its message in the stream.             *)
Before == {"check", "lock", "format"}
Inside == {"format", "write", "drain", "send", "unlock"}
Printing(f, s, v, t) ==
    /\ f.pc \in Before => Spots(s, f.msg) = {} /\ f.left = MsgLen
    /\ f.pc = "write" => /\ v = f.msg /\ f.left \in 1 .. MsgLen
                         /\ Cardinality(Spots(s, f.msg)) + f.left <= MsgLen
                         /\ Spots(s, f.msg) # {} => s[Len(s)] = f.msg
    /\ f.pc = "send" => f.to = t
One(c) ==
    stack[c] # <<>> =>
       /\ Len(stack[c]) = 1 /\ top(c).fn = "vprintf" /\ top(c).lock
       /\ top(c).msg \in Said(events) /\ top(c).msg[1] = c
       /\ Printing(top(c), Stream, vbuf, tail)
Untouched ==
    /\ Stream \in Seq(Said(events)) /\ InPieces(Stream)
    /\ \A c \in Cpu : /\ One(c) /\ crashing[c] = 0
                      /\ console_lock = c <=> stack[c] # <<>> /\ top(c).pc \in Inside

WholeInv == trapped \/ Untouched
LEMMA Queued ==
    ASSUME NEW r \in [0 .. Size - 1 -> Message], NEW p \in 0 .. Size, NEW t \in 0 .. Size - 1
    PROVE  /\ Length(p, t) \in Nat /\ Pending(r, p, t) \in Seq(Message) /\ Len(Pending(r, p, t)) = Length(p, t)
           /\ \A i \in 1 .. Length(p, t) : Pending(r, p, t)[i] = r[Slot(p, i)] /\ Slot(p, i) \in 0 .. Size - 1
<1>1. Size \in Nat \ {0, 1}
  BY SizeAssumption
<1>2. Length(p, t) \in Nat
  BY <1>1 DEF Length
<1>3. \A i \in 1 .. Length(p, t) : Slot(p, i) \in 0 .. Size - 1
  BY <1>1 DEF Slot, Length
<1>4. \A i \in 1 .. Length(p, t) : r[Slot(p, i)] \in Message
  BY <1>3
<1> QED BY <1>2, <1>3, <1>4 DEF Pending

LEMMA Joined ==
    ASSUME NEW S, NEW s \in Seq(S), NEW u \in Seq(S)
    PROVE  /\ s \o u \in Seq(S) /\ Len(s \o u) = Len(s) + Len(u) /\ Len(s) \in Nat /\ Len(u) \in Nat
           /\ \A i \in 1 .. Len(s) + Len(u) : (s \o u)[i] = IF i <= Len(s) THEN s[i] ELSE u[i - Len(s)]
  BY ConcatProperties, LenProperties

LEMMA Appended ==
    ASSUME NEW S, NEW s \in Seq(S), NEW x \in S
    PROVE  /\ Append(s, x) \in Seq(S) /\ Len(Append(s, x)) = Len(s) + 1 /\ Len(s) \in Nat
           /\ Append(s, x)[Len(s) + 1] = x
           /\ \A i \in 1 .. Len(s) : Append(s, x)[i] = s[i]
  BY AppendProperties, LenProperties

(* A byte goes from the queue to the device.                                *)
LEMMA OneOut ==
    ASSUME NEW o \in Seq(Message), NEW r \in [0 .. Size - 1 -> Message],
           NEW p \in 0 .. Size - 1, NEW t \in 0 .. Size - 1, p # t
    PROVE  Append(o, r[p]) \o Pending(r, p + 1, t) = o \o Pending(r, p, t)
<1>1. Size \in Nat \ {0, 1} /\ p + 1 \in 0 .. Size /\ p \in 0 .. Size /\ r[p] \in Message
  BY SizeAssumption
<1>2. Length(p, t) = Length(p + 1, t) + 1
  BY <1>1 DEF Length
<1>3. Slot(p, 1) = p /\ \A i \in 1 .. Length(p + 1, t) : Slot(p, i + 1) = Slot(p + 1, i)
  BY <1>1 DEF Slot, Length
<1> DEFINE a == Append(o, r[p])
           u == Pending(r, p + 1, t)
           w == Pending(r, p, t)
           M == Message
<1>4. /\ u \in Seq(M) /\ w \in Seq(M) /\ Len(u) \in Nat /\ Len(w) = Len(u) + 1
      /\ w[1] = r[p] /\ \A i \in 1 .. Len(u) : w[i + 1] = u[i]
  <2>1. /\ u \in Seq(M) /\ Len(u) = Length(p + 1, t) /\ Length(p + 1, t) \in Nat
        /\ \A i \in 1 .. Length(p + 1, t) : u[i] = r[Slot(p + 1, i)]
    BY <1>1, Queued
  <2>2. /\ w \in Seq(M) /\ Len(w) = Length(p, t)
        /\ \A i \in 1 .. Length(p, t) : w[i] = r[Slot(p, i)]
    BY <1>1, Queued
  <2> HIDE DEF u, w, M
  <2>3. 1 \in 1 .. Length(p, t) /\ \A i \in 1 .. Length(p + 1, t) : i + 1 \in 1 .. Length(p, t)
    BY <1>2, <2>1
  <2> QED BY <1>2, <1>3, <2>1, <2>2, <2>3
<1>5. o \in Seq(M) /\ r[p] \in M
  BY <1>1
<1> HIDE DEF u, w, M
<1>6. /\ a \in Seq(M) /\ Len(a) = Len(o) + 1 /\ Len(o) \in Nat /\ a[Len(o) + 1] = r[p]
      /\ \A i \in 1 .. Len(o) : a[i] = o[i]
  BY <1>5, Appended
<1> HIDE DEF a
<1>7. /\ a \o u \in Seq(M) /\ Len(a \o u) = Len(a) + Len(u)
      /\ \A i \in 1 .. Len(a) + Len(u) : (a \o u)[i] = IF i <= Len(a) THEN a[i] ELSE u[i - Len(a)]
  BY <1>4, <1>6, Joined
<1>8. /\ o \o w \in Seq(M) /\ Len(o \o w) = Len(o) + Len(w)
      /\ \A i \in 1 .. Len(o) + Len(w) : (o \o w)[i] = IF i <= Len(o) THEN o[i] ELSE w[i - Len(o)]
  BY <1>4, <1>5, Joined
<1>9. \A i \in 1 .. Len(a) + Len(u) : (a \o u)[i] = (o \o w)[i]
  <2> TAKE i \in 1 .. Len(a) + Len(u)
  <2>1. CASE i <= Len(o)
    BY <1>4, <1>6, <1>7, <1>8, <2>1
  <2>2. CASE i = Len(o) + 1
    BY <1>4, <1>6, <1>7, <1>8, <2>2
  <2>3. CASE i > Len(o) + 1
    <3>1. /\ i - Len(a) \in 1 .. Len(u) /\ i - Len(o) = (i - Len(a)) + 1 /\ ~(i <= Len(a)) /\ ~(i <= Len(o))
          /\ i \in 1 .. Len(o) + Len(w)
      BY <1>4, <1>6, <2>3
    <3> QED BY <1>4, <1>7, <1>8, <3>1
  <2> QED BY <1>4, <1>6, <2>1, <2>2, <2>3
<1>10. a \o u = o \o w
  <2>1. Len(a \o u) = Len(o \o w) /\ \A i \in 1 .. Len(a \o u) : (a \o u)[i] = (o \o w)[i]
    BY <1>4, <1>6, <1>7, <1>8, <1>9
  <2> QED BY <1>7, <1>8, <2>1, SeqEqual
<1> QED BY <1>10 DEF a, u, w

(* A byte is stored in the queue.                                           *)
LEMMA OneIn ==
    ASSUME NEW o \in Seq(Message), NEW r \in [0 .. Size - 1 -> Message], NEW x \in Message,
           NEW p \in 0 .. Size - 1, NEW t \in 0 .. Size - 1, wrap(t + 1) # p
    PROVE  o \o Pending([r EXCEPT ![t] = x], p, wrap(t + 1)) = Append(o \o Pending(r, p, t), x)
<1> DEFINE q == [r EXCEPT ![t] = x]
           v == wrap(t + 1)
<1>1. Size \in Nat \ {0, 1} /\ p \in 0 .. Size /\ q \in [0 .. Size - 1 -> Message]
  BY SizeAssumption
<1>2. v \in 0 .. Size - 1 /\ v = IF t + 1 = Size THEN 0 ELSE t + 1
  BY <1>1 DEF wrap
<1> HIDE DEF v
<1>3. v # p
  BY DEF v
<1>4. Length(p, v) = Length(p, t) + 1
  BY <1>1, <1>2, <1>3 DEF Length
<1>5. Slot(p, Length(p, t) + 1) = t /\ \A i \in 1 .. Length(p, t) : Slot(p, i) # t
  BY <1>1 DEF Slot, Length
<1> DEFINE u == Pending(q, p, v)
           w == Pending(r, p, t)
           M == Message
<1>6. /\ u \in Seq(M) /\ w \in Seq(M) /\ Len(w) \in Nat /\ Len(u) = Len(w) + 1
      /\ u[Len(w) + 1] = x /\ \A i \in 1 .. Len(w) : u[i] = w[i]
  <2>1. /\ u \in Seq(M) /\ Len(u) = Length(p, v)
        /\ \A i \in 1 .. Length(p, v) : u[i] = q[Slot(p, i)] /\ Slot(p, i) \in 0 .. Size - 1
    <3> HIDE DEF q
    <3> QED BY <1>1, <1>2, Queued
  <2>2. /\ w \in Seq(M) /\ Len(w) = Length(p, t) /\ Length(p, t) \in Nat
        /\ \A i \in 1 .. Length(p, t) : w[i] = r[Slot(p, i)]
    <3> HIDE DEF q, v, u
    <3> QED BY <1>1, Queued
  <2>3. q[t] = x /\ \A i \in 0 .. Size - 1 : i # t => q[i] = r[i]
    OBVIOUS
  <2> HIDE DEF u, w, M, q
  <2>4. Length(p, t) + 1 \in 1 .. Length(p, v) /\ \A i \in 1 .. Length(p, t) : i \in 1 .. Length(p, v)
    BY <1>4, <2>2
  <2> QED BY <1>4, <1>5, <2>1, <2>2, <2>3, <2>4
<1>7. o \in Seq(M) /\ x \in M
  OBVIOUS
<1> HIDE DEF u, w, M, q
<1>8. /\ o \o u \in Seq(M) /\ Len(o \o u) = Len(o) + Len(u) /\ Len(o) \in Nat
      /\ \A i \in 1 .. Len(o) + Len(u) : (o \o u)[i] = IF i <= Len(o) THEN o[i] ELSE u[i - Len(o)]
  BY <1>6, <1>7, Joined
<1>9. /\ o \o w \in Seq(M) /\ Len(o \o w) = Len(o) + Len(w)
      /\ \A i \in 1 .. Len(o) + Len(w) : (o \o w)[i] = IF i <= Len(o) THEN o[i] ELSE w[i - Len(o)]
  BY <1>6, <1>7, Joined
<1>10. /\ Append(o \o w, x) \in Seq(M) /\ Len(Append(o \o w, x)) = Len(o) + Len(w) + 1
       /\ Append(o \o w, x)[Len(o) + Len(w) + 1] = x
       /\ \A i \in 1 .. Len(o) + Len(w) : Append(o \o w, x)[i] = (o \o w)[i]
  BY <1>7, <1>9, Appended
<1>11. \A i \in 1 .. Len(o) + Len(u) : (o \o u)[i] = Append(o \o w, x)[i]
  <2> TAKE i \in 1 .. Len(o) + Len(u)
  <2>1. CASE i <= Len(o)
    BY <1>6, <1>8, <1>9, <1>10, <2>1
  <2>2. CASE i > Len(o) /\ i <= Len(o) + Len(w)
    <3>1. i - Len(o) \in 1 .. Len(w) /\ i \in 1 .. Len(o) + Len(w) /\ ~(i <= Len(o))
      BY <1>6, <1>8, <2>2
    <3> QED BY <1>6, <1>8, <1>9, <1>10, <3>1
  <2>3. CASE i = Len(o) + Len(w) + 1
    <3>1. ~(i <= Len(o)) /\ i - Len(o) = Len(w) + 1
      BY <1>6, <1>8, <2>3
    <3> QED BY <1>6, <1>8, <1>10, <2>3, <3>1
  <2> QED BY <1>6, <1>8, <2>1, <2>2, <2>3
<1>12. o \o u = Append(o \o w, x)
  BY <1>6, <1>8, <1>10, <1>11, SeqEqual
<1> QED BY <1>12 DEF u, w, q, v

LEMMA RoundTheEnd ==
    ASSUME NEW r, NEW t \in 0 .. Size - 1
    PROVE  Pending(r, Size, t) = Pending(r, 0, t)
<1>1. Size \in Nat \ {0, 1}
  BY SizeAssumption
<1>2. Length(Size, t) = t /\ Length(0, t) = t
  BY <1>1 DEF Length
<1>3. \A i \in 1 .. t : Slot(Size, i) = Slot(0, i)
  BY <1>1 DEF Slot
<1> QED BY <1>2, <1>3 DEF Pending

LEMMA FewSpots ==
    ASSUME NEW S, NEW s \in Seq(S), NEW m
    PROVE  IsFiniteSet(Spots(s, m)) /\ Cardinality(Spots(s, m)) \in Nat
<1>1. IsFiniteSet(1 .. Len(s)) /\ Spots(s, m) \subseteq 1 .. Len(s)
  BY FS_Interval, LenProperties DEF Spots
<1> QED BY <1>1, FS_Subset, FS_CardinalityType

LEMMA OneMoreSpot ==
    ASSUME NEW S, NEW s \in Seq(S), NEW x \in S, NEW m
    PROVE  /\ m # x => Spots(Append(s, x), m) = Spots(s, m)
           /\ m = x => /\ Spots(Append(s, x), m) # {}
                       /\ Cardinality(Spots(Append(s, x), m)) = Cardinality(Spots(s, m)) + 1
<1> DEFINE a == Append(s, x)
           n == Len(s)
<1>1. /\ a \in Seq(S) /\ Len(a) = n + 1 /\ n \in Nat /\ a[n + 1] = x
      /\ \A i \in 1 .. n : a[i] = s[i]
  BY Appended
<1> HIDE DEF a
<1>2. m # x => Spots(a, m) = Spots(s, m)
  BY <1>1 DEF Spots
<1>3. ASSUME m = x PROVE Spots(a, m) = Spots(s, m) \cup {n + 1} /\ n + 1 \notin Spots(s, m)
  BY <1>1, <1>3 DEF Spots
<1>4. m = x => Cardinality(Spots(a, m)) = Cardinality(Spots(s, m)) + 1
  BY <1>3, FewSpots, FS_AddElement
<1> QED BY <1>2, <1>3, <1>4 DEF a

(* The stream stays in pieces when its last message goes on, or a new one   *)
(* begins.                                                                  *)
LEMMA AnotherPiece ==
    ASSUME NEW s \in Seq(Message), InPieces(s), NEW x \in Message,
           Cardinality(Spots(s, x)) < MsgLen, Spots(s, x) # {} => s[Len(s)] = x
    PROVE  InPieces(Append(s, x))
<1> DEFINE a == Append(s, x)
           n == Len(s)
<1>1. /\ a \in Seq(Message) /\ Len(a) = n + 1 /\ n \in Nat /\ a[n + 1] = x
      /\ \A i \in 1 .. n : a[i] = s[i]
  BY Appended
<1>2. \A m \in Message : Cardinality(Spots(a, m)) <= MsgLen
  <2> TAKE m \in Message
  <2>1. Cardinality(Spots(s, m)) \in Nat /\ Cardinality(Spots(s, m)) <= MsgLen /\ MsgLen \in Nat
    BY FewSpots, MsgLenAssumption DEF InPieces
  <2> QED BY <2>1, OneMoreSpot
<1> HIDE DEF a
<1>3. ASSUME NEW i \in 1 .. n + 1, NEW k \in 1 .. n + 1, a[i] = a[k], NEW j \in i .. k PROVE a[j] = a[i]
  <2>1. CASE k <= n
    <3>1. i \in 1 .. n /\ k \in 1 .. n /\ j \in 1 .. n
      BY <1>1, <2>1
    <3> QED BY <1>1, <1>3, <3>1 DEF InPieces
  <2>2. CASE k = n + 1 /\ i <= n
    <3>1. i \in 1 .. n /\ s[i] = x /\ i \in Spots(s, x) /\ n \in 1 .. n
      BY <1>1, <1>3, <2>2 DEF Spots
    <3>2. s[n] = x
      BY <3>1
    <3>3. CASE j = n + 1
      BY <1>3, <2>2, <3>3
    <3>4. CASE j # n + 1
      <4>1. j \in 1 .. n /\ j \in i .. n
        BY <1>1, <2>2, <3>4
      <4> QED BY <1>1, <3>1, <3>2, <4>1 DEF InPieces
    <3> QED BY <3>3, <3>4
  <2>3. CASE k = n + 1 /\ i = n + 1
    <3>1. j = i
      BY <1>1, <2>3
    <3> QED BY <3>1
  <2> QED BY <1>1, <2>1, <2>2, <2>3
<1>4. \A i, k \in 1 .. Len(a) : a[i] = a[k] => \A j \in i .. k : a[j] = a[i]
  BY <1>1, <1>3
<1> QED BY <1>2, <1>4 DEF InPieces, a

LEMMA FirstPieces ==
    ASSUME NEW s \in Seq(Message), NEW u \in Seq(Message), InPieces(s \o u)
    PROVE  InPieces(s)
<1> DEFINE a == s \o u
<1>1. /\ a \in Seq(Message) /\ Len(a) = Len(s) + Len(u) /\ Len(s) \in Nat /\ Len(u) \in Nat
      /\ \A i \in 1 .. Len(s) : i \in 1 .. Len(a) /\ a[i] = s[i]
  BY Joined
<1> HIDE DEF a
<1>2. \A i, k \in 1 .. Len(s) : s[i] = s[k] => \A j \in i .. k : s[j] = s[i]
  <2> SUFFICES ASSUME NEW i \in 1 .. Len(s), NEW k \in 1 .. Len(s), s[i] = s[k], NEW j \in i .. k PROVE s[j] = s[i]
    OBVIOUS
  <2>1. j \in 1 .. Len(s)
    BY <1>1
  <2> QED BY <1>1, <2>1 DEF InPieces, a
<1>3. ASSUME NEW m \in Message PROVE Cardinality(Spots(s, m)) <= MsgLen
  <2>1. Spots(s, m) \subseteq Spots(a, m)
    BY <1>1 DEF Spots
  <2>2. /\ IsFiniteSet(Spots(a, m)) /\ Cardinality(Spots(a, m)) \in Nat /\ Cardinality(Spots(s, m)) \in Nat
        /\ Cardinality(Spots(a, m)) <= MsgLen /\ MsgLen \in Nat
    BY <1>1, FewSpots, MsgLenAssumption DEF InPieces, a
  <2>3. Cardinality(Spots(s, m)) <= Cardinality(Spots(a, m))
    BY <2>1, <2>2, FS_Subset
  <2> QED BY <2>2, <2>3
<1> QED BY <1>2, <1>3 DEF InPieces

(* The stream is of the queue's and the device's messages.                  *)
LEMMA StreamOf ==
    ASSUME NestInv
    PROVE  /\ DrainAt \in 0 .. Size /\ Stream \in Seq(Message) /\ out \in Seq(Message)
           /\ Pending(ring, DrainAt, tail) \in Seq(Message)
<1>1. /\ Size \in Nat \ {0, 1} /\ head \in 0 .. Size - 1 /\ tail \in 0 .. Size - 1
      /\ ring \in [0 .. Size - 1 -> Message] /\ out \in Seq(Message) /\ console_lock \in Cpu \cup {Free}
  BY SizeAssumption DEF NestInv, Contents, TypeOK
<1>2. DrainAt \in 0 .. Size
  <2>1. CASE console_lock # Free /\ Sending(console_lock)
    <3>1. stack[console_lock] # <<>> /\ console_lock \in Cpu
      BY <1>1, <2>1 DEF Sending
    <3>2. top(console_lock).from \in 0 .. Size
      BY <3>1, Opened, Shares DEF NestInv
    <3> QED BY <2>1, <3>2 DEF DrainAt
  <2>2. CASE ~(console_lock # Free /\ Sending(console_lock))
    BY <1>1, <2>2 DEF DrainAt
  <2> QED BY <2>1, <2>2
<1>3. Pending(ring, DrainAt, tail) \in Seq(Message)
  BY <1>1, <1>2, Queued
<1>4. Stream \in Seq(Message)
  BY <1>1, <1>3, Joined DEF Stream
<1> QED BY <1>1, <1>2, <1>3, <1>4

LEMMA WholeMessages == NestInv /\ WholeInv => MessagesWhole
<1> SUFFICES ASSUME NestInv, Untouched PROVE MessagesWhole
  BY DEF WholeInv, MessagesWhole
<1> DEFINE u == Pending(ring, DrainAt, tail)
<1>1. out \in Seq(Message) /\ u \in Seq(Message) /\ Stream = out \o u
  BY StreamOf DEF Stream
<1> HIDE DEF u
<1>2. DOMAIN out = 1 .. Len(out) /\ Len(out) \in Nat /\ \A i \in 1 .. Len(out) : i \in 1 .. Len(Stream) /\ Stream[i] = out[i]
  BY <1>1, Joined, LenProperties
<1>3. InPieces(out)
  BY <1>1, FirstPieces DEF Untouched
<1>4. \A i \in 1 .. Len(out) : out[i] # NoMsg
  <2> TAKE i \in 1 .. Len(out)
  <2>1. Stream[i] \in Said(events)
    BY <1>2, ElementOfSeq DEF Untouched
  <2> QED BY <1>2, <2>1 DEF Said, NoMsg
<1>5. \A m \in Message : Cardinality({i \in DOMAIN out : out[i] = m}) <= MsgLen
  BY <1>2, <1>3 DEF InPieces, Spots
<1>6. NoMsg \notin {out[i] : i \in DOMAIN out}
  BY <1>2, <1>4
<1> QED BY <1>2, <1>3, <1>5, <1>6 DEF MessagesWhole, InPieces


-----------------------------------------------------------------------------
(* Steps of a core whose stack is one print.                                *)
LEMMA OneBecomes ==
    ASSUME Stacks, NEW c \in Cpu, stack[c] # <<>>, Len(stack[c]) = 1, NEW b \in NestFrames, Become(c, b)
    PROVE  /\ stack'[c] # <<>> /\ Len(stack'[c]) = 1 /\ Head(stack'[c]) = b
           /\ \A d \in Cpu : d # c => stack'[d] = stack[d]
<1> DEFINE r == Tail(stack[c])
           t == <<b>> \o r
<1>1. r \in Seq(NestFrames) /\ stack' = [stack EXCEPT ![c] = t]
  BY Opened
<1>2. stack \in [Cpu -> Seq(NestFrames)] /\ stack[c] \in Seq(NestFrames)
  BY DEF Stacks
<1>3. Len(r) = 0
  BY <1>2, HeadTailProperties
<1> HIDE DEF r
<1>4. t # <<>> /\ Len(t) = 1 /\ Head(t) = b
  BY <1>1, <1>3
<1> HIDE DEF t
<1> QED BY <1>1, <1>2, <1>4

LEMMA OnePops ==
    ASSUME Stacks, NEW c \in Cpu, stack[c] # <<>>, Len(stack[c]) = 1, Pop(c)
    PROVE  stack'[c] = <<>> /\ \A d \in Cpu : d # c => stack'[d] = stack[d]
<1>1. stack \in [Cpu -> Seq(NestFrames)] /\ stack[c] \in Seq(NestFrames)
  BY DEF Stacks
<1>2. Tail(stack[c]) \in Seq(NestFrames) /\ Len(Tail(stack[c])) = 0
  BY <1>1, HeadTailProperties
<1>3. Tail(stack[c]) = <<>>
  BY <1>2, EmptySeq
<1> QED BY <1>1, <1>3 DEF Pop

LEMMA NoOtherSpot ==
    ASSUME NEW S, NEW s \in Seq(S), NEW x \in S, NEW m, m # x
    PROVE  Spots(Append(s, x), m) = Spots(s, m)
  BY OneMoreSpot

(* What a step of c does to the prints of the other cores: they are out of  *)
(* console_lock when c holds it.                                            *)
LEMMA Elsewhere ==
    ASSUME NestInv, Untouched, NEW c \in Cpu, NEW d \in Cpu, d # c, stack'[d] = stack[d], crashing'[d] = crashing[d],
           events' = events \/ events' = events + 1, console_lock' = d <=> console_lock = d,
           vbuf' = vbuf \/ console_lock = c, tail' = tail \/ console_lock = c,
           \/ Stream' = Stream
           \/ console_lock = c /\ \E x \in Said(events) : x[1] = c /\ Stream' = Append(Stream, x)
    PROVE  /\ One(d)' /\ crashing'[d] = 0
           /\ console_lock' = d <=> stack'[d] # <<>> /\ Head(stack'[d]).pc \in Inside
<1>1. /\ One(d) /\ crashing[d] = 0 /\ Stream \in Seq(Said(events))
      /\ console_lock = d <=> stack[d] # <<>> /\ top(d).pc \in Inside
  BY DEF Untouched
<1>2. crashing'[d] = 0 /\ (console_lock' = d <=> stack'[d] # <<>> /\ Head(stack'[d]).pc \in Inside)
  BY <1>1 DEF top
<1>3. One(d)'
  <2> SUFFICES ASSUME stack[d] # <<>>
               PROVE  /\ Len(stack'[d]) = 1 /\ top(d)'.fn = "vprintf" /\ top(d)'.lock
                      /\ top(d)'.msg \in Said(events') /\ top(d)'.msg[1] = d
                      /\ Printing(top(d)', Stream', vbuf', tail')
    BY DEF One
  <2> DEFINE f == top(d)
  <2>1. top(d)' = f
    BY DEF top
  <2>2. Len(stack[d]) = 1 /\ f.fn = "vprintf" /\ f.lock /\ f.msg \in Said(events) /\ f.msg[1] = d
        /\ Printing(f, Stream, vbuf, tail)
    BY <1>1 DEF One
  <2>3. f.msg \in Said(events')
    <3>1. events \in Nat
      BY MaxEventsAssumption DEF NestInv, Contents
    <3> QED BY <2>2, <3>1 DEF Said
  <2>4. Printing(f, Stream', vbuf', tail')
    <3>1. CASE console_lock = c
      <4>1. f.pc \notin Inside
        BY <1>1, <3>1
      <4> HIDE DEF f
      <4>2. Spots(Stream', f.msg) = Spots(Stream, f.msg)
        <5>1. ASSUME NEW x \in Said(events), x[1] = c, Stream' = Append(Stream, x)
              PROVE  Spots(Stream', f.msg) = Spots(Stream, f.msg)
          BY <1>1, <2>2, <5>1, NoOtherSpot
        <5> QED BY <5>1
      <4> QED BY <2>2, <4>1, <4>2 DEF Printing, Inside
    <3>2. CASE console_lock # c
      BY <2>2, <3>2
    <3> QED BY <3>1, <3>2
  <2> HIDE DEF f
  <2> QED BY <2>1, <2>2, <2>3, <2>4
<1> QED BY <1>2, <1>3

(* Steps that leave the stream as it was.                                   *)
LEMMA PrintStep ==
    ASSUME NestInv, Untouched, NEW c \in Cpu, stack[c] # <<>>, NEW b \in NestFrames, Become(c, b),
           b.fn = "vprintf", b.lock = top(c).lock, b.msg = top(c).msg, UNCHANGED <<crashing, events>>,
           vbuf' = vbuf \/ console_lock = c, tail' = tail, Stream' = Stream,
           console_lock' = c <=> b.pc \in Inside,
           \A d \in Cpu : d # c => (console_lock' = d <=> console_lock = d),
           Printing(b, Stream, vbuf', tail)
    PROVE  Untouched'
<1>1. /\ Len(stack[c]) = 1 /\ top(c).lock /\ top(c).msg \in Said(events) /\ top(c).msg[1] = c
      /\ Stream \in Seq(Said(events)) /\ InPieces(Stream) /\ \A d \in Cpu : crashing[d] = 0
  BY DEF Untouched, One
<1>2. /\ stack'[c] # <<>> /\ Len(stack'[c]) = 1 /\ top(c)' = b
      /\ \A d \in Cpu : d # c => stack'[d] = stack[d]
  BY <1>1, OneBecomes DEF top, NestInv
<1>3. One(c)' /\ crashing'[c] = 0 /\ (console_lock' = c <=> stack'[c] # <<>> /\ top(c)'.pc \in Inside)
  <2>1. Printing(top(c)', Stream', vbuf', tail')
    BY <1>2
  <2> QED BY <1>1, <1>2, <2>1 DEF One
<1>4. ASSUME NEW d \in Cpu, d # c
      PROVE  One(d)' /\ crashing'[d] = 0 /\ (console_lock' = d <=> stack'[d] # <<>> /\ top(d)'.pc \in Inside)
  <2>1. stack'[d] = stack[d] /\ crashing'[d] = crashing[d] /\ events' = events /\ (console_lock' = d <=> console_lock = d)
    BY <1>2, <1>4
  <2> QED BY <1>4, <2>1, Elsewhere DEF top
<1>5. Stream' \in Seq(Said(events')) /\ InPieces(Stream)'
  <2>1. Stream' \in Seq(Said(events'))
    BY <1>1
  <2>2. InPieces(Stream')
    BY <1>1
  <2> QED BY <2>1, <2>2
<1> QED BY <1>3, <1>4, <1>5 DEF Untouched

(* A core that prints, and the others while it may.                         *)
LEMMA OnePrints ==
    ASSUME NestInv, Untouched, NEW c \in Cpu, stack[c] # <<>>
    PROVE  /\ top(c) \in NestFrames /\ top(c).fn = "vprintf" /\ top(c).lock = TRUE
           /\ top(c).pc \in {"check", "lock", "format", "write", "drain", "send", "unlock"}
           /\ top(c).msg \in Message /\ top(c).msg \in Said(events) /\ top(c).msg[1] = c
           /\ top(c).from \in 0 .. Size /\ top(c).to \in 0 .. Size - 1 /\ top(c).left \in Int
           /\ Len(stack[c]) = 1 /\ crashing[c] = 0
           /\ console_lock = c <=> top(c).pc \in Inside
           /\ Printing(top(c), Stream, vbuf, tail)
<1>1. top(c) \in NestFrames /\ Stacks
  BY Opened DEF NestInv
<1>2. /\ top(c).fn = "vprintf" /\ top(c).lock /\ Len(stack[c]) = 1 /\ crashing[c] = 0
      /\ console_lock = c <=> top(c).pc \in Inside
      /\ Printing(top(c), Stream, vbuf, tail) /\ top(c).msg \in Said(events) /\ top(c).msg[1] = c
  BY DEF Untouched, One
<1> QED BY <1>1, <1>2 DEF NestFrames, Message

LEMMA AtHead ==
    ASSUME NEW c \in Cpu, stack[c] # <<>>, top(c).pc # "send", console_lock \in {c, Free}
    PROVE  DrainAt = head
  BY DEF DrainAt, Sending

(* The stream stays with the queue and the place of the drain.              *)
LEMMA StreamStays ==
    ASSUME UNCHANGED <<out, ring, tail>>, DrainAt' = DrainAt
    PROVE  Stream' = Stream
  BY DEF Stream, Pending, Length

LEMMA PrintCheckWhole ==
    ASSUME NestInv, Untouched, NEW c \in Cpu, PrintCheck(c)
    PROVE  Untouched'
<1> USE DEF buffer, locks, counts
<1> DEFINE f == top(c)
           b == [f EXCEPT !.pc = "lock"]
<1>1. stack[c] # <<>> /\ f.pc = "check" /\ UNCHANGED <<crashing, events, vbuf, tail, console_lock, out, ring, head>>
      /\ Become(c, b)
  <2>1. stack[c] # <<>>
    BY DEF PrintCheck, At
  <2>2. crashing[c] = 0
    BY <2>1, OnePrints
  <2> QED BY <2>1, <2>2 DEF PrintCheck, At, Goto, CRASH_IN_PRINT
<1>2. /\ f \in NestFrames /\ f.fn = "vprintf" /\ Len(stack[c]) = 1 /\ console_lock # c /\ Printing(f, Stream, vbuf, tail)
  BY <1>1, OnePrints DEF Inside
<1> HIDE DEF f
<1>3. /\ b \in NestFrames /\ b.fn = "vprintf" /\ b.lock = f.lock /\ b.msg = f.msg /\ b.pc = "lock" /\ b.left = f.left
  BY <1>2 DEF NestFrames
<1> HIDE DEF b
<1>4. DrainAt' = DrainAt
  <2>1. Stacks /\ console_lock \in Cpu \cup {Free}
    BY DEF NestInv, Contents, TypeOK
  <2>2. \A d \in Cpu : d # c => stack'[d] = stack[d]
    BY <1>1, <1>2, <1>3, <2>1, OneBecomes
  <2> QED BY <1>1, <1>2, <2>1, <2>2 DEF DrainAt, Sending, top
<1>5. Stream' = Stream
  BY <1>1, <1>4, StreamStays
<1>6. Printing(b, Stream, vbuf', tail)
  BY <1>1, <1>2, <1>3 DEF Printing, Before
<1>7. b.pc \notin Inside
  BY <1>3 DEF Inside
<1> QED BY <1>1, <1>2, <1>3, <1>5, <1>6, <1>7, PrintStep DEF f

LEMMA PrintLockWhole ==
    ASSUME NestInv, Untouched, NEW c \in Cpu, PrintLock(c)
    PROVE  Untouched'
<1> USE DEF buffer, locks, counts
<1> DEFINE f == top(c)
           b == [f EXCEPT !.pc = "format"]
<1>1. stack[c] # <<>> /\ f.pc = "lock" /\ UNCHANGED <<crashing, events, vbuf, tail, out, ring, head>>
      /\ Become(c, b) /\ console_lock = Free /\ console_lock' = c
  BY DEF PrintLock, At, Goto
<1>2. /\ f \in NestFrames /\ f.fn = "vprintf" /\ Len(stack[c]) = 1 /\ Printing(f, Stream, vbuf, tail)
  BY <1>1, OnePrints
<1>3. DrainAt = head
  BY <1>1, AtHead DEF f
<1> HIDE DEF f
<1>4. /\ b \in NestFrames /\ b.fn = "vprintf" /\ b.lock = f.lock /\ b.msg = f.msg /\ b.pc = "format" /\ b.left = f.left
  BY <1>2 DEF NestFrames
<1> HIDE DEF b
<1>5. DrainAt' = DrainAt
  <2>1. Stacks /\ Free \notin Cpu
    BY CpuAssumption DEF NestInv
  <2>2. top(c)' = b
    BY <1>1, <1>2, <1>4, <2>1, OneBecomes DEF top
  <2> QED BY <1>1, <1>3, <1>4, <2>2 DEF DrainAt, Sending
<1>6. Stream' = Stream
  BY <1>1, <1>5, StreamStays
<1>7. Printing(b, Stream, vbuf', tail)
  BY <1>1, <1>2, <1>4 DEF Printing, Before
<1>8. b.pc \in Inside /\ \A d \in Cpu : d # c => (console_lock' = d <=> console_lock = d)
  BY <1>1, <1>4, CpuAssumption DEF Inside
<1> QED BY <1>1, <1>2, <1>4, <1>6, <1>7, <1>8, PrintStep DEF f

(* The steps of the holder of the lock that move the drain by nothing.      *)
LEMMA HolderStep ==
    ASSUME NestInv, Untouched, NEW c \in Cpu, stack[c] # <<>>, top(c).pc \in Inside,
           NEW b \in NestFrames, Become(c, b), b.pc \in Inside,
           b.fn = "vprintf", b.lock = top(c).lock, b.msg = top(c).msg,
           UNCHANGED <<crashing, events, tail, console_lock, ring>>,
           IF b.pc = "send" THEN b.from = DrainAt ELSE head' = DrainAt,
           out' = out, Printing(b, Stream, vbuf', tail)
    PROVE  Untouched'
<1>1. console_lock = c /\ Len(stack[c]) = 1
  BY OnePrints
<1>2. DrainAt' = DrainAt
  <2>1. Stacks /\ c # Free
    BY CpuAssumption DEF NestInv
  <2>2. top(c)' = b /\ stack'[c] # <<>>
    BY <1>1, <2>1, OneBecomes DEF top
  <2> QED BY <1>1, <2>1, <2>2 DEF DrainAt, Sending
<1>3. Stream' = Stream
  BY <1>2, StreamStays
<1> QED BY <1>1, <1>3, PrintStep

LEMMA FormatWhole ==
    ASSUME NestInv, Untouched, NEW c \in Cpu, Format(c)
    PROVE  Untouched'
<1> USE DEF buffer, locks, counts
<1> DEFINE f == top(c)
           b == [f EXCEPT !.pc = "write"]
<1>1. stack[c] # <<>> /\ f.pc = "format" /\ UNCHANGED <<crashing, events, tail, out, ring, head, console_lock>>
      /\ Become(c, b) /\ vbuf' = f.msg
  BY DEF Format, At, Goto
<1>2. /\ f \in NestFrames /\ f.fn = "vprintf" /\ Printing(f, Stream, vbuf, tail) /\ console_lock = c
  BY <1>1, OnePrints DEF Inside
<1>3. DrainAt = head
  BY <1>1, <1>2, AtHead DEF f
<1> HIDE DEF f
<1>4. /\ b \in NestFrames /\ b.fn = "vprintf" /\ b.lock = f.lock /\ b.msg = f.msg /\ b.pc = "write" /\ b.left = f.left
  BY <1>2 DEF NestFrames
<1> HIDE DEF b
<1>5. Printing(b, Stream, vbuf', tail)
  <2>1. Spots(Stream, b.msg) = {} /\ b.left = MsgLen
    BY <1>1, <1>2, <1>4 DEF Printing, Before
  <2>2. Cardinality(Spots(Stream, b.msg)) = 0
    BY <2>1, FS_EmptySet
  <2> QED BY <1>1, <1>4, <2>1, <2>2, MsgLenAssumption DEF Printing, Before
<1>6. f.pc \in Inside /\ b.pc \in Inside
  BY <1>1, <1>4 DEF Inside
<1> QED BY <1>1, <1>3, <1>4, <1>5, <1>6, HolderStep DEF f

LEMMA DrainStartWhole ==
    ASSUME NestInv, Untouched, NEW c \in Cpu, DrainStart(c)
    PROVE  Untouched'
<1> USE DEF buffer, locks, counts
<1> DEFINE f == top(c)
<1>1. stack[c] # <<>> /\ f.pc = "drain" /\ UNCHANGED <<crashing, events, vbuf, tail, out, ring, head, console_lock>>
      /\ \/ Become(c, [f EXCEPT !.pc = "send", !.from = head, !.to = tail])
         \/ Become(c, [f EXCEPT !.pc = AfterDrain(f)])
  BY DEF DrainStart, Draining, Goto
<1>2. /\ f \in NestFrames /\ f.fn = "vprintf" /\ Printing(f, Stream, vbuf, tail) /\ console_lock = c
      /\ head \in 0 .. Size /\ tail \in 0 .. Size - 1
  <2>1. head \in 0 .. Size - 1 /\ tail \in 0 .. Size - 1 /\ Size \in Nat
    BY SizeAssumption DEF NestInv, Contents, TypeOK
  <2>2. head \in 0 .. Size
    BY <2>1
  <2>3. f \in NestFrames /\ f.fn = "vprintf" /\ Printing(f, Stream, vbuf, tail) /\ console_lock = c
    BY <1>1, OnePrints DEF Inside
  <2> QED BY <2>1, <2>2, <2>3
<1>3. DrainAt = head /\ f.pc \in Inside
  BY <1>1, <1>2, AtHead DEF f, Inside
<1>4. CASE Become(c, [f EXCEPT !.pc = "send", !.from = head, !.to = tail])
  <2> DEFINE b == [f EXCEPT !.pc = "send", !.from = head, !.to = tail]
  <2> HIDE DEF f
  <2>1. /\ b \in NestFrames /\ b.fn = "vprintf" /\ b.lock = f.lock /\ b.msg = f.msg /\ b.pc = "send"
        /\ b.from = head /\ b.to = tail
    BY <1>2 DEF NestFrames
  <2>2. Become(c, b)
    BY <1>4
  <2> HIDE DEF b
  <2>3. Printing(b, Stream, vbuf', tail) /\ b.pc \in Inside
    BY <2>1 DEF Printing, Before, Inside
  <2> QED BY <1>1, <1>3, <2>1, <2>2, <2>3, HolderStep DEF f
<1>5. CASE Become(c, [f EXCEPT !.pc = AfterDrain(f)])
  <2> DEFINE b == [f EXCEPT !.pc = AfterDrain(f)]
  <2> HIDE DEF f
  <2>1. b \in NestFrames /\ b.fn = "vprintf" /\ b.lock = f.lock /\ b.msg = f.msg /\ b.pc = "unlock"
    BY <1>2 DEF NestFrames, AfterDrain
  <2>2. Become(c, b)
    BY <1>5
  <2> HIDE DEF b
  <2>3. Printing(b, Stream, vbuf', tail) /\ b.pc \in Inside
    BY <2>1 DEF Printing, Before, Inside
  <2> QED BY <1>1, <1>3, <2>1, <2>2, <2>3, HolderStep DEF f
<1> QED BY <1>1, <1>4, <1>5

LEMMA DrainByteWhole ==
    ASSUME NestInv, Untouched, NEW c \in Cpu, DrainByte(c), ~trapped
    PROVE  Untouched'
<1> USE DEF buffer, locks, counts
<1> DEFINE f == top(c)
           b == [f EXCEPT !.from = @ + 1]
           p == f.from
<1>1. /\ stack[c] # <<>> /\ f.pc = "send" /\ UNCHANGED <<crashing, events, vbuf, tail, ring, head, console_lock>>
      /\ Become(c, b) /\ p < ChunkEnd(f) /\ Send(ring[p]) /\ trapped' = trapped
  BY DEF DrainByte, Sending
<1>2. /\ f \in NestFrames /\ f.fn = "vprintf" /\ Printing(f, Stream, vbuf, tail) /\ console_lock = c
      /\ p \in 0 .. Size /\ Len(stack[c]) = 1
  BY <1>1, OnePrints DEF Inside
<1>3. /\ tail \in 0 .. Size - 1 /\ Size \in Nat \ {0, 1} /\ ring \in [0 .. Size - 1 -> Message] /\ out \in Seq(Message)
      /\ Stacks /\ c # Free
  BY SizeAssumption, CpuAssumption DEF NestInv, Contents, TypeOK
<1>4. DrainAt = p
  BY <1>1, <1>2, <1>3 DEF DrainAt, Sending
<1>5. f.to = tail
  BY <1>1, <1>2 DEF Printing
<1>6. p \in 0 .. Size - 1 /\ p # tail
  <2>1. p < (IF tail < p THEN Size ELSE tail)
    BY <1>1, <1>5 DEF ChunkEnd
  <2> HIDE DEF p
  <2> QED BY <1>2, <1>3, <2>1
<1>7. p + 1 \in 0 .. Size
  <2> HIDE DEF p
  <2> QED BY <1>3, <1>6
<1>8. /\ b \in NestFrames /\ b.fn = "vprintf" /\ b.lock = f.lock /\ b.msg = f.msg /\ b.pc = "send"
      /\ b.from = p + 1 /\ b.to = tail
  <2> HIDE DEF f
  <2> QED BY <1>1, <1>2, <1>5, <1>7 DEF NestFrames, f
<1> HIDE DEF b, p
<1>9. DrainAt' = p + 1
  <2>1. top(c)' = b /\ stack'[c] # <<>>
    BY <1>1, <1>2, <1>3, <1>8, OneBecomes DEF top
  <2> QED BY <1>1, <1>2, <1>3, <1>8, <2>1 DEF DrainAt, Sending
<1>10. out' = Append(out, ring[p])
  BY <1>1 DEF Send
<1>11. Stream' = out' \o Pending(ring, p + 1, tail)
  BY <1>1, <1>9 DEF Stream, Pending, Length
<1>12. Stream' = Stream
  BY <1>3, <1>4, <1>6, <1>10, <1>11, OneOut DEF Stream
<1>13. Printing(b, Stream, vbuf', tail) /\ b.pc \in Inside
  BY <1>8 DEF Printing, Before, Inside
<1>14. /\ console_lock' = c <=> b.pc \in Inside
       /\ \A d \in Cpu : d # c => (console_lock' = d <=> console_lock = d)
  BY <1>1, <1>2, <1>13
<1> QED BY <1>1, <1>8, <1>12, <1>13, <1>14, PrintStep DEF f

LEMMA DrainHeadWhole ==
    ASSUME NestInv, Untouched, NEW c \in Cpu, DrainHead(c)
    PROVE  Untouched'
<1> USE DEF buffer, locks, counts
<1> DEFINE f == top(c)
           p == f.from
<1>1. /\ stack[c] # <<>> /\ f.pc = "send" /\ UNCHANGED <<crashing, events, vbuf, tail, ring, out, console_lock>>
      /\ p = ChunkEnd(f) /\ head' = wrap(p)
      /\ Become(c, IF wrap(p) = f.to THEN [f EXCEPT !.pc = AfterDrain(f), !.from = 0, !.to = 0]
                   ELSE [f EXCEPT !.from = 0])
  BY DEF DrainHead, Sending
<1>2. /\ f \in NestFrames /\ f.fn = "vprintf" /\ Printing(f, Stream, vbuf, tail) /\ console_lock = c
      /\ p \in 0 .. Size /\ Len(stack[c]) = 1
  BY <1>1, OnePrints DEF Inside
<1>3. tail \in 0 .. Size - 1 /\ Size \in Nat \ {0, 1} /\ Stacks /\ c # Free
  BY SizeAssumption, CpuAssumption DEF NestInv, Contents, TypeOK
<1>4. DrainAt = p
  BY <1>1, <1>2, <1>3 DEF DrainAt, Sending
<1>5. f.to = tail
  BY <1>1, <1>2 DEF Printing
<1> DEFINE h == wrap(p)
<1>6. \/ tail < p /\ p = Size /\ h = 0
      \/ p = tail /\ h = p
  <2>1. p = (IF tail < p THEN Size ELSE tail)
    BY <1>1, <1>5 DEF ChunkEnd
  <2> HIDE DEF p
  <2> QED BY <1>2, <1>3, <2>1 DEF wrap
<1> HIDE DEF h
<1>7. Pending(ring, h, tail) = Pending(ring, p, tail)
  BY <1>3, <1>6, RoundTheEnd
<1>8. PICK b \in NestFrames : /\ Become(c, b) /\ b.fn = "vprintf" /\ b.lock = f.lock /\ b.msg = f.msg
                              /\ \/ b.pc = "unlock"
                                 \/ b.pc = "send" /\ b.from = h /\ b.to = tail
  <2>1. CASE h = f.to
    <3> DEFINE b == [f EXCEPT !.pc = AfterDrain(f), !.from = 0, !.to = 0]
    <3>1. Become(c, b)
      BY <1>1, <2>1 DEF h
    <3> HIDE DEF f
    <3>2. b \in NestFrames /\ b.fn = "vprintf" /\ b.lock = f.lock /\ b.msg = f.msg /\ b.pc = "unlock"
      <4>1. 0 \in 0 .. Size /\ 0 \in 0 .. Size - 1
        BY <1>3
      <4> QED BY <1>2, <4>1 DEF NestFrames, AfterDrain
    <3> HIDE DEF b
    <3> QED BY <3>1, <3>2
  <2>2. CASE h # f.to
    <3> DEFINE b == [f EXCEPT !.from = 0]
    <3>0. h = 0
      BY <1>5, <1>6, <2>2
    <3>1. Become(c, b)
      BY <1>1, <2>2 DEF h
    <3>2. b \in NestFrames /\ b.fn = "vprintf" /\ b.lock = f.lock /\ b.msg = f.msg /\ b.pc = "send" /\ b.from = 0 /\ b.to = tail
      <4>1. 0 \in 0 .. Size /\ f.pc = "send" /\ f.to = tail
        BY <1>1, <1>3, <1>5
      <4> HIDE DEF f
      <4> QED BY <1>2, <4>1 DEF NestFrames
    <3> HIDE DEF b, f
    <3> QED BY <3>0, <3>1, <3>2
  <2> QED BY <2>1, <2>2
<1>9. DrainAt' = h
  <2>1. top(c)' = b /\ stack'[c] # <<>>
    BY <1>1, <1>2, <1>3, <1>8, OneBecomes DEF top
  <2>2. head' = h
    BY <1>1 DEF h
  <2> QED BY <1>1, <1>2, <1>3, <1>8, <2>1, <2>2 DEF DrainAt, Sending
<1>10. Stream' = out' \o Pending(ring, h, tail)
  BY <1>1, <1>9 DEF Stream, Pending, Length
<1>11. Stream' = Stream
  BY <1>1, <1>4, <1>7, <1>10 DEF Stream
<1>12. Printing(b, Stream, vbuf', tail) /\ b.pc \in Inside
  BY <1>8 DEF Printing, Before, Inside
<1>13. /\ console_lock' = c <=> b.pc \in Inside
       /\ \A d \in Cpu : d # c => (console_lock' = d <=> console_lock = d)
  BY <1>1, <1>2, <1>12
<1> QED BY <1>1, <1>8, <1>11, <1>12, <1>13, PrintStep DEF f

(* The print ends: its core holds the lock no more.                         *)
LEMMA PrintUnlockWhole ==
    ASSUME NestInv, Untouched, NEW c \in Cpu, PrintUnlock(c)
    PROVE  Untouched'
<1> USE DEF buffer, locks, counts
<1>1. /\ stack[c] # <<>> /\ top(c).pc = "unlock" /\ Pop(c)
      /\ UNCHANGED <<events, vbuf, tail, ring, out, head>>
  BY DEF PrintUnlock, At
<1>2. Len(stack[c]) = 1 /\ top(c).lock = TRUE /\ console_lock = c /\ Stacks
  BY <1>1, OnePrints DEF Inside, NestInv
<1>3. console_lock' = Free /\ crashing' = crashing /\ c # Free
  BY <1>2, CpuAssumption DEF PrintUnlock
<1>4. stack'[c] = <<>> /\ \A d \in Cpu : d # c => stack'[d] = stack[d]
  BY <1>1, <1>2, OnePops
<1>5. DrainAt = head
  BY <1>1, <1>2, AtHead
<1>6. DrainAt' = head
  BY <1>1, <1>3 DEF DrainAt
<1>7. Stream' = Stream
  BY <1>1, <1>5, <1>6, StreamStays
<1>8. ASSUME NEW d \in Cpu, d # c
      PROVE  One(d)' /\ crashing'[d] = 0 /\ (console_lock' = d <=> stack'[d] # <<>> /\ top(d)'.pc \in Inside)
  <2>1. console_lock' = d <=> console_lock = d
    BY <1>2, <1>3, <1>8, CpuAssumption
  <2>2. stack'[d] = stack[d] /\ crashing'[d] = crashing[d]
    BY <1>3, <1>4, <1>8
  <2> QED BY <1>1, <1>7, <1>8, <2>1, <2>2, Elsewhere DEF top
<1>9. One(c)' /\ crashing'[c] = 0 /\ ~(console_lock' = c)
  BY <1>3, <1>4 DEF One, Untouched
<1>10. Stream' \in Seq(Said(events')) /\ InPieces(Stream)'
  <2>1. Stream' \in Seq(Said(events')) /\ InPieces(Stream')
    BY <1>1, <1>7 DEF Untouched
  <2> QED BY <2>1
<1> QED BY <1>4, <1>8, <1>9, <1>10 DEF Untouched

(* A byte is queued, or dropped when it finds no space.                     *)
LEMMA PutCharWhole ==
    ASSUME NestInv, Untouched, NEW c \in Cpu, PutChar(c)
    PROVE  Untouched'
<1> USE DEF buffer, locks, counts
<1> DEFINE f == top(c)
           p == IF f.left = 1 THEN "drain" ELSE f.pc
           b == [f EXCEPT !.left = @ - 1, !.pc = p]
<1>1. /\ stack[c] # <<>> /\ f.pc = "write" /\ UNCHANGED <<crashing, events, vbuf, console_lock>>
      /\ Become(c, b)
  BY DEF PutChar, At
<1>2. /\ f \in NestFrames /\ f.fn = "vprintf" /\ Printing(f, Stream, vbuf, tail) /\ console_lock = c
      /\ Len(stack[c]) = 1 /\ crashing[c] = 0 /\ f.lock = TRUE
      /\ f.msg \in Message /\ f.msg \in Said(events) /\ f.msg[1] = c
  BY <1>1, OnePrints DEF Inside
<1>3. Stored(vbuf) /\ out' = out
  BY <1>2 DEF PutChar
<1>4. /\ tail \in 0 .. Size - 1 /\ head \in 0 .. Size - 1 /\ Size \in Nat \ {0, 1}
      /\ ring \in [0 .. Size - 1 -> Message] /\ out \in Seq(Message) /\ Stacks /\ c # Free
  BY SizeAssumption, CpuAssumption DEF NestInv, Contents, TypeOK
<1>5. /\ vbuf = f.msg /\ f.left \in 1 .. MsgLen /\ MsgLen \in Nat
      /\ Cardinality(Spots(Stream, vbuf)) + f.left <= MsgLen
      /\ Spots(Stream, vbuf) # {} => Stream[Len(Stream)] = vbuf
  BY <1>1, <1>2, MsgLenAssumption DEF Printing
<1>6. DrainAt = head
  BY <1>1, <1>2, AtHead DEF f
<1>7. /\ b \in NestFrames /\ b.fn = "vprintf" /\ b.lock = TRUE /\ b.msg = f.msg /\ b.left = f.left - 1
      /\ b.pc = IF f.left = 1 THEN "drain" ELSE "write"
  <2>1. p = (IF f.left = 1 THEN "drain" ELSE "write") /\ f.left - 1 \in Int
    BY <1>1, <1>5
  <2> HIDE DEF f, p
  <2>2. b \in NestFrames /\ b.fn = "vprintf" /\ b.lock = f.lock /\ b.msg = f.msg /\ b.left = f.left - 1 /\ b.pc = p
    BY <1>2, <2>1 DEF NestFrames
  <2> QED BY <1>2, <2>1, <2>2
<1> HIDE DEF b, p
<1>8. b.pc \in Inside /\ b.pc # "send" /\ f.pc \in Inside
  BY <1>1, <1>7 DEF Inside
<1>9. stack'[c] # <<>> /\ Len(stack'[c]) = 1 /\ top(c)' = b /\ \A d \in Cpu : d # c => stack'[d] = stack[d]
  BY <1>1, <1>2, <1>4, <1>7, OneBecomes DEF top
<1>10. head' = head
  BY <1>3 DEF Stored
<1>11. DrainAt' = head
  BY <1>1, <1>2, <1>4, <1>8, <1>9, <1>10 DEF DrainAt, Sending
<1>12. CASE full
  <2>1. UNCHANGED <<ring, tail>>
    BY <1>3, <1>12 DEF Stored
  <2>2. Printing(b, Stream, vbuf', tail)
    <3>1. Cardinality(Spots(Stream, vbuf)) \in Nat
      <4>1. Stream \in Seq(Message)
        BY StreamOf
      <4> QED BY <4>1, FewSpots
    <3>2. b.pc \notin Before
      BY <1>7 DEF Before
    <3>3. b.pc = "write" => b.left \in 1 .. MsgLen
      <4> HIDE DEF f
      <4> QED BY <1>5, <1>7
    <3>4. Cardinality(Spots(Stream, vbuf)) + b.left <= MsgLen
      <4> HIDE DEF f
      <4> QED BY <1>5, <1>7, <3>1
    <3> QED BY <1>1, <1>5, <1>7, <1>8, <3>2, <3>3, <3>4 DEF Printing
  <2>3. IF b.pc = "send" THEN b.from = DrainAt ELSE head' = DrainAt
    BY <1>6, <1>8, <1>10
  <2>4. b.lock = f.lock
    BY <1>2, <1>7
  <2> QED BY <1>1, <1>3, <1>7, <1>8, <2>1, <2>2, <2>3, <2>4, HolderStep DEF f
<1>13. CASE ~full
  <2> DEFINE S == Stream
  <2>1. ring' = [ring EXCEPT ![tail] = vbuf] /\ tail' = wrap(tail + 1) /\ wrap(tail + 1) # head
    BY <1>3, <1>13 DEF Stored, full
  <2>2. Stream' = out \o Pending([ring EXCEPT ![tail] = vbuf], head, wrap(tail + 1))
    BY <1>3, <1>11, <2>1 DEF Stream, Pending, Length
  <2>3. Stream' = Append(Stream, vbuf)
    <3>1. Stream = out \o Pending(ring, head, tail)
      BY <1>6 DEF Stream
    <3>2. vbuf \in Message
      BY <1>2, <1>5
    <3> HIDE DEF f, S
    <3>3. out \o Pending([ring EXCEPT ![tail] = vbuf], head, wrap(tail + 1)) = Append(out \o Pending(ring, head, tail), vbuf)
      BY <1>4, <2>1, <3>2, OneIn
    <3> QED BY <2>2, <3>1, <3>3
  <2>4. /\ S \in Seq(Message) /\ S \in Seq(Said(events)) /\ InPieces(S) /\ vbuf \in Message /\ vbuf \in Said(events)
    BY <1>2, <1>5, StreamOf DEF Untouched
  <2>5. Cardinality(Spots(S, vbuf)) \in Nat
    BY <2>4, FewSpots
  <2>6. Cardinality(Spots(S, vbuf)) < MsgLen
    <3> HIDE DEF f
    <3> QED BY <1>5, <2>5
  <2>7. InPieces(Append(S, vbuf))
    BY <1>5, <2>4, <2>6, AnotherPiece
  <2>8. /\ Append(S, vbuf) \in Seq(Said(events)) /\ Append(S, vbuf)[Len(Append(S, vbuf))] = vbuf
        /\ Cardinality(Spots(Append(S, vbuf), vbuf)) = Cardinality(Spots(S, vbuf)) + 1
    <3>1. Append(S, vbuf) \in Seq(Said(events)) /\ Append(S, vbuf)[Len(S) + 1] = vbuf /\ Len(Append(S, vbuf)) = Len(S) + 1
      BY <2>4, Appended
    <3>2. Cardinality(Spots(Append(S, vbuf), vbuf)) = Cardinality(Spots(S, vbuf)) + 1
      BY <2>4, OneMoreSpot
    <3> QED BY <3>1, <3>2
  <2>9. Stream' \in Seq(Said(events')) /\ InPieces(Stream)'
    <3>1. InPieces(Stream')
      BY <2>3, <2>7
    <3>2. Stream' \in Seq(Said(events'))
      BY <1>1, <2>3, <2>8
    <3> QED BY <3>1, <3>2
  <2>10. Printing(b, Stream', vbuf', tail')
    <3>1. b.pc \notin Before
      BY <1>7 DEF Before
    <3>2. b.pc = "write" => b.left \in 1 .. MsgLen
      <4> HIDE DEF f
      <4> QED BY <1>5, <1>7
    <3>3. Cardinality(Spots(Stream', vbuf')) + b.left <= MsgLen
      <4>1. Cardinality(Spots(Stream', vbuf')) = Cardinality(Spots(S, vbuf)) + 1
        BY <1>1, <2>3, <2>8
      <4> HIDE DEF f, S
      <4> QED BY <1>5, <1>7, <2>5, <4>1 DEF S
    <3>4. Stream'[Len(Stream')] = vbuf'
      BY <1>1, <2>3, <2>8
    <3> QED BY <1>1, <1>5, <1>7, <1>8, <3>1, <3>2, <3>3, <3>4 DEF Printing
  <2>11. One(c)' /\ crashing'[c] = 0 /\ console_lock' = c
    <3>1. top(c)'.msg \in Said(events') /\ top(c)'.msg[1] = c /\ top(c)'.fn = "vprintf" /\ top(c)'.lock
      BY <1>1, <1>2, <1>7, <1>9
    <3>2. Printing(top(c)', Stream', vbuf', tail')
      BY <1>9, <2>10
    <3> QED BY <1>1, <1>2, <1>9, <3>1, <3>2 DEF One
  <2>12. ASSUME NEW d \in Cpu, d # c
         PROVE  One(d)' /\ crashing'[d] = 0 /\ (console_lock' = d <=> stack'[d] # <<>> /\ top(d)'.pc \in Inside)
    <3>1. stack'[d] = stack[d] /\ crashing'[d] = crashing[d] /\ events' = events /\ vbuf' = vbuf
          /\ (console_lock' = d <=> console_lock = d)
      BY <1>1, <1>9, <2>12
    <3>2. console_lock = c /\ \E x \in Said(events) : x[1] = c /\ Stream' = Append(Stream, x)
      BY <1>2, <1>5, <2>3
    <3> QED BY <2>12, <3>1, <3>2, Elsewhere DEF top
  <2> QED BY <1>8, <1>9, <2>9, <2>11, <2>12 DEF Untouched
<1> QED BY <1>12, <1>13

(* A new message is of a number that no byte has.                           *)
LEMMA ThreadPrintsWhole ==
    ASSUME NestInv, Untouched, NEW c \in Cpu, ThreadPrints(c)
    PROVE  Untouched'
<1> USE DEF buffer, locks, counts
<1> DEFINE b == PrintFrame(c, "thread")
<1>1. /\ stack[c] = <<>> /\ Push(c, b) /\ events' = events + 1 /\ events \in Nat /\ Stacks
      /\ UNCHANGED <<crashing, console_lock, vbuf, ring, head, tail, out>>
  BY MaxEventsAssumption DEF ThreadPrints, NestInv, Contents
<1>2. /\ b.fn = "vprintf" /\ b.pc = "check" /\ b.lock /\ b.left = MsgLen /\ b.msg = <<c, "thread", events>>
  BY DEF PrintFrame
<1> HIDE DEF b
<1>3. stack'[c] # <<>> /\ Len(stack'[c]) = 1 /\ top(c)' = b /\ \A d \in Cpu : d # c => stack'[d] = stack[d]
  <2>1. stack' = [stack EXCEPT ![c] = <<b>> \o <<>>] /\ stack \in [Cpu -> Seq(NestFrames)]
    BY <1>1 DEF Push, Stacks
  <2>2. stack'[c] = <<b>> \o <<>> /\ \A d \in Cpu : d # c => stack'[d] = stack[d]
    BY <2>1
  <2>3. <<b>> \o <<>> = <<b>>
    OBVIOUS
  <2> QED BY <2>2, <2>3 DEF top
<1>4. console_lock # c
  BY <1>1 DEF Untouched
<1>5. DrainAt' = DrainAt
  BY <1>1, <1>3, <1>4 DEF DrainAt, Sending, top, NestInv, Contents, TypeOK
<1>6. Stream' = Stream
  BY <1>1, <1>5, StreamStays
<1>7. Stream \in Seq(Said(events)) /\ InPieces(Stream)
  BY DEF Untouched
<1>8. Said(events) \subseteq Said(events')
  BY <1>1 DEF Said
<1>9. Stream' \in Seq(Said(events')) /\ InPieces(Stream)'
  <2>1. Stream \in Seq(Said(events'))
    BY <1>7, <1>8
  <2>2. InPieces(Stream')
    BY <1>6, <1>7
  <2> QED BY <1>6, <2>1, <2>2
<1>10. Spots(Stream, b.msg) = {}
  <2>1. b.msg \notin Said(events)
    BY <1>1, <1>2 DEF Said
  <2>2. \A i \in 1 .. Len(Stream) : Stream[i] \in Said(events)
    BY <1>7, ElementOfSeq
  <2> QED BY <2>1, <2>2 DEF Spots
<1>11. One(c)' /\ crashing'[c] = 0 /\ ~(console_lock' = c) /\ ~(top(c)'.pc \in Inside)
  <2>1. b.msg \in Said(events') /\ b.msg[1] = c
    BY <1>1, <1>2 DEF Said
  <2>2. Printing(b, Stream', vbuf', tail')
    BY <1>2, <1>6, <1>10 DEF Printing
  <2>3. Printing(top(c)', Stream', vbuf', tail')
    BY <1>3, <2>2
  <2>4. One(c)'
    BY <1>2, <1>3, <2>1, <2>3 DEF One
  <2> QED BY <1>1, <1>2, <1>3, <1>4, <2>4 DEF Untouched, Inside
<1>12. ASSUME NEW d \in Cpu, d # c
       PROVE  One(d)' /\ crashing'[d] = 0 /\ (console_lock' = d <=> stack'[d] # <<>> /\ top(d)'.pc \in Inside)
  <2>1. stack'[d] = stack[d] /\ crashing'[d] = crashing[d]
    BY <1>1, <1>3, <1>12
  <2> QED BY <1>1, <1>6, <1>12, <2>1, Elsewhere DEF top
<1> QED BY <1>9, <1>11, <1>12 DEF Untouched

LEMMA StillWhole ==
    ASSUME Untouched, UNCHANGED <<stack, crashing, events, console_lock, vbuf, ring, head, tail, out>>
    PROVE  Untouched'
<1>1. DrainAt' = DrainAt
  BY DEF DrainAt, Sending, top
<1>2. Stream' = Stream
  BY <1>1, StreamStays
<1>3. Stream' \in Seq(Said(events')) /\ InPieces(Stream)'
  <2>1. Stream' \in Seq(Said(events')) /\ InPieces(Stream')
    BY <1>2 DEF Untouched
  <2> QED BY <2>1
<1>4. ASSUME NEW d \in Cpu
      PROVE  One(d)' /\ crashing'[d] = 0 /\ (console_lock' = d <=> stack'[d] # <<>> /\ top(d)'.pc \in Inside)
  <2>1. top(d)' = top(d)
    BY DEF top
  <2>2. Printing(top(d), Stream, vbuf, tail) => Printing(top(d)', Stream', vbuf', tail')
    BY <1>2, <2>1
  <2>3. One(d) /\ crashing[d] = 0 /\ (console_lock = d <=> stack[d] # <<>> /\ top(d).pc \in Inside)
    BY DEF Untouched
  <2>4. One(d)'
    <3> SUFFICES ASSUME stack[d] # <<>>
                 PROVE  /\ Len(stack'[d]) = 1 /\ top(d)'.fn = "vprintf" /\ top(d)'.lock
                        /\ top(d)'.msg \in Said(events') /\ top(d)'.msg[1] = d
                        /\ Printing(top(d)', Stream', vbuf', tail')
      BY DEF One
    <3> QED BY <2>1, <2>2, <2>3 DEF One
  <2> QED BY <2>1, <2>3, <2>4
<1> QED BY <1>3, <1>4 DEF Untouched

LEMMA Init_Whole == Init => WholeInv
<1> SUFFICES ASSUME Init PROVE Untouched
  BY DEF WholeInv
<1>1. /\ Stream = <<>> /\ \A c \in Cpu : stack[c] = <<>> /\ crashing[c] = 0 /\ console_lock # c
  <2>1. out = <<>> /\ console_lock = Free /\ head = 0 /\ tail = 0
    BY DEF Init
  <2>2. DrainAt = 0
    BY <2>1 DEF DrainAt
  <2>3. Pending(ring, 0, 0) = <<>>
    <3>1. Length(0, 0) = 0
      BY DEF Length
    <3> QED BY <3>1 DEF Pending
  <2>4. Stream = <<>>
    BY <2>1, <2>2, <2>3 DEF Stream
  <2> QED BY <2>1, <2>4, CpuAssumption DEF Init
<1>2. <<>> \in Seq(Said(events)) /\ InPieces(<<>>)
  <2>1. \A m : Spots(<<>>, m) = {}
    BY DEF Spots
  <2>2. \A m : Cardinality(Spots(<<>>, m)) <= MsgLen
    BY <2>1, FS_EmptySet, MsgLenAssumption
  <2> QED BY <2>2 DEF InPieces
<1> QED BY <1>1, <1>2 DEF Untouched, One

LEMMA Next_Whole == NestInv /\ WholeInv /\ [Next]_vars => WholeInv'
<1> SUFFICES ASSUME NestInv, WholeInv, [Next]_vars PROVE WholeInv'
  OBVIOUS
<1> USE DEF buffer, locks, counts
<1>1. CASE trapped
  <2>1. trapped' = TRUE \/ trapped' = trapped
    <3>1. CASE UNCHANGED vars
      BY <3>1 DEF vars
    <3>2. ASSUME NEW c \in Cpu, ThreadPrints(c) \/ Trap(c) \/ ConsoleOk(c) PROVE trapped' = TRUE \/ trapped' = trapped
      BY <3>2 DEF ThreadPrints, Trap, ConsoleOk
    <3>3. ASSUME NEW c \in Cpu, Step(c) PROVE trapped' = trapped
      BY <3>3 DEF Step, PrintCheck, PrintLock, Format, PutChar, PrintUnlock, DrainStart, DrainByte, DrainHead,
                  SetCrashing, CrashLock, CrashMessage, ClearCrashing, CrashUnlock, CrashEnd
    <3> QED BY <3>1, <3>2, <3>3 DEF Next
  <2> QED BY <1>1, <2>1 DEF WholeInv
<1>2. CASE ~trapped
  <2>0. Untouched
    BY <1>2 DEF WholeInv
  <2>1. CASE UNCHANGED vars
    BY <2>0, <2>1, StillWhole DEF vars, WholeInv
  <2>2. ASSUME NEW c \in Cpu, ThreadPrints(c) PROVE WholeInv'
    BY <2>0, <2>2, ThreadPrintsWhole DEF WholeInv
  <2>3. ASSUME NEW c \in Cpu, Trap(c) PROVE WholeInv'
    BY <2>3 DEF Trap, WholeInv
  <2>4. ASSUME NEW c \in Cpu, ConsoleOk(c) PROVE WholeInv'
    BY <2>0, <2>4, StillWhole DEF ConsoleOk, WholeInv
  <2>5. ASSUME NEW c \in Cpu, PrintCheck(c) \/ PrintLock(c) \/ Format(c) \/ PutChar(c) \/ PrintUnlock(c) PROVE WholeInv'
    BY <2>0, <2>5, PrintCheckWhole, PrintLockWhole, FormatWhole, PutCharWhole, PrintUnlockWhole DEF WholeInv
  <2>6. ASSUME NEW c \in Cpu, DrainStart(c) \/ DrainByte(c) \/ DrainHead(c) PROVE WholeInv'
    BY <1>2, <2>0, <2>6, DrainStartWhole, DrainByteWhole, DrainHeadWhole DEF WholeInv
  <2>7. ASSUME NEW c \in Cpu,
               SetCrashing(c) \/ CrashLock(c) \/ CrashMessage(c) \/ ClearCrashing(c) \/ CrashUnlock(c) \/ CrashEnd(c)
        PROVE  WholeInv'
    <3>1. stack[c] # <<>> /\ top(c).fn = "crash"
      BY <2>7 DEF SetCrashing, CrashLock, CrashMessage, ClearCrashing, CrashUnlock, CrashEnd, At
    <3> QED BY <2>0, <3>1, OnePrints
  <2> QED BY <2>1, <2>2, <2>3, <2>4, <2>5, <2>6, <2>7 DEF Next, Step
<1> QED BY <1>1, <1>2

(* stdio.c's vprintf and console.c: while no core crashes, what the device  *)
(* sends are messages in one piece and no byte twice, whichever core drains *)
(* the queue and wherever it wraps.                                         *)
THEOREM MessagesInOnePiece == Spec => []MessagesWhole
<1>1. NestInv /\ WholeInv /\ [Next]_vars => WholeInv'
  BY Next_Whole
<1> QED BY <1>1, Init_Whole, NestInvariance, WholeMessages, PTL DEF Spec
=============================================================================
