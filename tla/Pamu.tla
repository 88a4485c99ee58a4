-------------------------------- MODULE Pamu ---------------------------------
(***************************************************************************)
(* lib/pamu.c: the tables that tell the PAMU, the I/O MMU, which pages a   *)
(* device may reach, as cores change them and the PAMU reads them.         *)
(*                                                                         *)
(* A core's stores to the tables wait in its store buffer and reach memory *)
(* in any order, except two stores to one word, and stores on the two      *)
(* sides of an lwsync; a sync waits until the buffer is empty.  A core     *)
(* sees its own stores at once.  The PAMU reads an entry, which is one     *)
(* cache line, from memory.  set_bf is a load of the word and a store, so  *)
(* another core's store between the two is lost.                           *)
(*                                                                         *)
(* Of an entry the model keeps the word addr_bitfields (V, AP, MW, WSE),   *)
(* the page number, stored in two halves, and the index of the first       *)
(* secondary entry.  A page number's halves are equal: an entry whose      *)
(* halves differ is torn.                                                  *)
(***************************************************************************)
EXTENDS Integers, Sequences, FiniteSets

CONSTANTS
    Cpu,        \* the cores that call
    Liodn,      \* the devices
    Page,       \* the page numbers granted
    NoPage,     \* the page number of an entry never set
    Counts,     \* the subwindow counts configured: 0, or 2 or more
    NSpaace,    \* SPAACE_NUMBER_ENTRIES
    MaxCalls    \* bound: the calls made, in all

ASSUME NSpaaceAssumption == NSpaace \in Nat
ASSUME CountsAssumption ==
    Counts \subseteq Nat \ {1} /\ \E n \in Counts : \A m \in Counts : m <= n
ASSUME NoPageAssumption == NoPage \notin Page
ASSUME CpuAssumption == "free" \notin Cpu
ASSUME MaxCallsAssumption == MaxCalls \in Nat

MaxCount == CHOOSE n \in Counts : \A m \in Counts : m <= n
Window == 0 .. (IF MaxCount = 0 THEN 0 ELSE MaxCount - 1)

Primary == {"p"} \X Liodn
Secondary == {"s"} \X (0 .. NSpaace - 1)
Entry == Primary \cup Secondary

VARIABLES
    mem,        \* the tables in memory, which the PAMU reads
    buf,        \* per core: the stores that have not reached memory
    lock,       \* pamu_lock: the core that holds it, or "free"
    pamu_fspi,  \* the next free secondary entry
    pc,         \* per core: where it is in its call
    req,        \* per core: the call it makes
    tmp,        \* per core: pamu_get_fspi_and_allocate's tmp
    calls,      \* the calls made so far
    configured, \* per device: the subwindow counts of the configurations that succeeded
    granted,    \* history, per device and window: the pages asked for
    asked,      \* history, per device: the state its finished calls asked for
    raced       \* history: the devices on which two calls overlapped

client == <<calls, granted, raced>>
outcome == <<configured, asked>>
vars == <<mem, buf, lock, pamu_fspi, pc, req, tmp, client, outcome>>

-----------------------------------------------------------------------------
(* Memory                                                                  *)

Empty == [af |-> [v |-> FALSE, ap |-> FALSE, mw |-> FALSE, wse |-> FALSE],
          twbah |-> NoPage, twbal |-> NoPage, fspi |-> 0]

Store(e, f, x) == [e |-> e, f |-> f, x |-> x]
lwsync == [f |-> "lwsync"]

To(s, e, f) == s.f = f /\ f # "lwsync" /\ s.e = e

(* What core c loads: its own last store, or memory.                       *)
Load(c, e, f) ==
    LET own == {i \in DOMAIN buf[c] : To(buf[c][i], e, f)} IN
    IF own = {} THEN mem[e][f]
    ELSE buf[c][CHOOSE i \in own : \A j \in own : j <= i].x

Issue(c, stores) == buf' = [buf EXCEPT ![c] = @ \o stores]

synced(c) == buf[c] = <<>>

Without(s, i) == SubSeq(s, 1, i - 1) \o SubSeq(s, i + 1, Len(s))
Stripped(s) == IF s # <<>> /\ s[1] = lwsync THEN Tail(s) ELSE s

(* A store reaches memory: of those before the first barrier, the first to *)
(* its word.                                                               *)
Drain(c) ==
    \E i \in DOMAIN buf[c] :
       LET s == buf[c][i] IN
       /\ \A j \in 1..i : buf[c][j] # lwsync
       /\ \A j \in 1..(i - 1) : ~To(buf[c][j], s.e, s.f)
       /\ mem' = [mem EXCEPT ![s.e][s.f] = s.x]
       /\ buf' = [buf EXCEPT ![c] = Stripped(Without(@, i))]
       /\ UNCHANGED <<lock, pamu_fspi, pc, req, tmp, client, outcome>>

-----------------------------------------------------------------------------
(* Calls                                                                   *)

Init ==
    /\ mem = [e \in Entry |-> Empty]
    /\ buf = [c \in Cpu |-> <<>>]
    /\ lock = "free" /\ pamu_fspi = 0
    /\ pc = [c \in Cpu |-> "idle"]
    /\ req = [c \in Cpu |-> [fn |-> "none"]]
    /\ tmp = [c \in Cpu |-> 0]
    /\ calls = 0
    /\ configured = [l \in Liodn |-> <<>>]
    /\ granted = [l \in Liodn |-> [w \in Window |-> {}]]
    /\ asked = [l \in Liodn |-> [v |-> FALSE, page |-> [w \in Window |-> NoPage]]]
    /\ raced = {}

Goto(c, l) == pc' = [pc EXCEPT ![c] = l]

HasWindow(l, w) == configured[l] # <<>> /\ w < configured[l][1]
Single(l) == configured[l] # <<>> /\ configured[l][1] = 0

(* The calls a client makes.  A subwindow is configured once, after the    *)
(* configuration of the device succeeded, and subwindow 0, which is the    *)
(* primary entry, while that is invalid: pamu_config_spaace does not deny  *)
(* access first.  A window is moved once it is configured.                 *)
Requests(l) ==
    [fn : {"config_ppaace"}, l : {l}, cnt : Counts \cap {0}, omiOk : BOOLEAN, w : {0}, rpn : Page]
    \cup [fn : {"config_ppaace"}, l : {l}, cnt : Counts \ {0}, omiOk : BOOLEAN]
    \cup [fn : {"enable", "disable"}, l : {l}]
    \cup {r \in [fn : {"config_spaace"}, l : {l}, w : Window, rpn : Page] :
             /\ HasWindow(l, r.w) /\ asked[l].page[r.w] = NoPage
             /\ r.w = 0 => ~asked[l].v}
    \cup {r \in [fn : {"reconfig_subwin"}, l : {l}, w : Window, rpn : Page] :
             HasWindow(l, r.w) /\ asked[l].page[r.w] # NoPage}
    \cup {r \in [fn : {"reconfig_liodn"}, l : {l}, w : {0}, rpn : Page] : Single(l)}

BusyWith(l) == {c \in Cpu : pc[c] # "idle" /\ req[c].l = l}

Entered(c, r, label) ==
    /\ pc[c] = "idle" /\ calls < MaxCalls
    /\ calls' = calls + 1
    /\ req' = [req EXCEPT ![c] = r]
    /\ granted' = IF "rpn" \in DOMAIN r
                  THEN [granted EXCEPT ![r.l][r.w] = @ \cup {r.rpn}] ELSE granted
    /\ raced' = IF \E d \in BusyWith(r.l) :
                      {r.fn, req[d].fn} # {"config_ppaace"}
                THEN raced \cup {r.l} ELSE raced
    /\ Goto(c, label)
    /\ UNCHANGED <<mem, buf, lock, pamu_fspi, tmp, outcome>>

(* Bound: once two calls on a device overlapped, no new one is made on it. *)
Call(c) == \E l \in Liodn \ raced : \E r \in Requests(l) : Entered(c, r, r.fn)

-----------------------------------------------------------------------------
(* pamu_config_ppaace                                                      *)

ppaace(c) == <<"p", req[c].l>>
af(c, e) == Load(c, e, "af")
SetAF(e, word) == <<Store(e, "af", word)>>
SetPage(e, p) == <<Store(e, "twbah", p), Store(e, "twbal", p)>>

(* Mutant: the lock is not waited for.                                     *)
ConfigLockAlways(c) ==
    /\ pc[c] = "config_ppaace"
    /\ lock' = c
    /\ Goto(c, "reserve")
    /\ UNCHANGED <<mem, buf, pamu_fspi, req, tmp, client, outcome>>

ConfigLock(c) ==
    /\ pc[c] = "config_ppaace" /\ lock = "free"
    /\ lock' = c
    /\ Goto(c, "reserve")
    /\ UNCHANGED <<mem, buf, pamu_fspi, req, tmp, client, outcome>>

(* Under the lock: an entry that has a window size is taken.               *)
ConfigReserve(c) ==
    /\ pc[c] = "reserve"
    /\ IF af(c, ppaace(c)).wse
       THEN /\ Goto(c, "busy") /\ UNCHANGED buf
       ELSE /\ Issue(c, SetAF(ppaace(c), [af(c, ppaace(c)) EXCEPT !.wse = TRUE]))
            /\ Goto(c, "reserved")
    /\ UNCHANGED <<mem, lock, pamu_fspi, req, tmp, client, outcome>>

(* The barrier of spin_unlock: the stores made under the lock are in       *)
(* memory when another core finds it free.                                 *)
ConfigUnlock(c) ==
    /\ pc[c] \in {"busy", "reserved"} /\ synced(c)
    /\ lock' = "free"
    /\ Goto(c, IF pc[c] = "busy" THEN "idle" ELSE "fill")
    /\ UNCHANGED <<mem, buf, pamu_fspi, req, tmp, client, outcome>>

(* The page type and the window's address are written to the same word.    *)
Retyped(c) == SetAF(ppaace(c), af(c, ppaace(c)))

(* A bad operation mapping index is found once the entry is reserved.      *)
ConfigBadOmi(c) ==
    /\ pc[c] = "fill" /\ ~req[c].omiOk
    /\ Issue(c, Retyped(c))
    /\ Goto(c, "idle")
    /\ UNCHANGED <<mem, lock, pamu_fspi, req, tmp, client, outcome>>

ConfigWindow(c) ==
    /\ pc[c] = "fill" /\ req[c].omiOk /\ req[c].cnt = 0
    /\ Issue(c, Retyped(c) \o SetPage(ppaace(c), req[c].rpn)
                \o SetAF(ppaace(c), [af(c, ppaace(c)) EXCEPT !.ap = TRUE]))
    /\ Goto(c, "sync")
    /\ UNCHANGED <<mem, lock, pamu_fspi, req, tmp, client, outcome>>

ConfigSubwindows(c) ==
    /\ pc[c] = "fill" /\ req[c].omiOk /\ req[c].cnt > 0
    /\ Issue(c, Retyped(c))
    /\ Goto(c, "get_fspi")
    /\ UNCHANGED <<mem, lock, pamu_fspi, req, tmp, client, outcome>>

(* Mutant: the end of the table is not looked at.                          *)
GetFspiUnbounded(c) ==
    /\ pc[c] = "get_fspi"
    /\ tmp' = [tmp EXCEPT ![c] = pamu_fspi]
    /\ Goto(c, IF pamu_fspi > NSpaace THEN "idle" ELSE "allocate")
    /\ UNCHANGED <<mem, buf, lock, pamu_fspi, req, client, outcome>>

(* pamu_get_fspi_and_allocate(subwin_cnt - 1): the read, the check...      *)
GetFspi(c) ==
    /\ pc[c] = "get_fspi"
    /\ tmp' = [tmp EXCEPT ![c] = pamu_fspi]
    /\ Goto(c, IF pamu_fspi + req[c].cnt - 1 > NSpaace THEN "idle" ELSE "allocate")
    /\ UNCHANGED <<mem, buf, lock, pamu_fspi, req, client, outcome>>

(* ... the compare_and_swap, and what config_ppaace does with the index.   *)
Allocate(c) ==
    /\ pc[c] = "allocate"
    /\ IF pamu_fspi = tmp[c]
       THEN /\ pamu_fspi' = tmp[c] + req[c].cnt - 1
            /\ Issue(c, SetAF(ppaace(c), [af(c, ppaace(c)) EXCEPT !.mw = TRUE])
                        \o <<Store(ppaace(c), "fspi", tmp[c])>>)
            /\ Goto(c, "sync")
       ELSE /\ Goto(c, "get_fspi") /\ UNCHANGED <<pamu_fspi, buf>>
    /\ UNCHANGED <<mem, lock, req, tmp, client, outcome>>

-----------------------------------------------------------------------------
(* pamu_config_spaace: subwindow 0 is the primary entry itself.            *)

paace(c) == IF req[c].w = 0 THEN ppaace(c)
            ELSE <<"s", Load(c, ppaace(c), "fspi") + req[c].w - 1>>

SpaaceFill(c) ==
    /\ pc[c] = "config_spaace"
    /\ Issue(c, SetPage(paace(c), req[c].rpn)
                \o SetAF(paace(c), [af(c, paace(c)) EXCEPT !.ap = TRUE])
                \o <<lwsync>>)
    /\ Goto(c, "spaace_valid")
    /\ UNCHANGED <<mem, lock, pamu_fspi, req, tmp, client, outcome>>

SpaaceValid(c) ==
    /\ pc[c] = "spaace_valid"
    /\ Issue(c, SetAF(paace(c), [af(c, paace(c)) EXCEPT !.v = TRUE]))
    /\ Goto(c, "sync")
    /\ UNCHANGED <<mem, lock, pamu_fspi, req, tmp, client, outcome>>

-----------------------------------------------------------------------------
(* pamu_enable_liodn, pamu_disable_liodn                                   *)

Enable(c) ==
    /\ pc[c] = "enable"
    /\ Goto(c, IF af(c, ppaace(c)).wse THEN "enable_sync" ELSE "idle")
    /\ UNCHANGED <<mem, buf, lock, pamu_fspi, req, tmp, client, outcome>>

EnableValid(c) ==
    /\ pc[c] = "enable_sync" /\ synced(c)
    /\ Issue(c, SetAF(ppaace(c), [af(c, ppaace(c)) EXCEPT !.v = TRUE]))
    /\ Goto(c, "sync")
    /\ UNCHANGED <<mem, lock, pamu_fspi, req, tmp, client, outcome>>

Disable(c) ==
    /\ pc[c] = "disable"
    /\ Issue(c, SetAF(ppaace(c), [af(c, ppaace(c)) EXCEPT !.v = FALSE]))
    /\ Goto(c, "sync")
    /\ UNCHANGED <<mem, lock, pamu_fspi, req, tmp, client, outcome>>

-----------------------------------------------------------------------------
(* pamu_reconfig_liodn, pamu_reconfig_subwin: deny, move, allow            *)

SamePage(c) == \A f \in {"twbah", "twbal"} : Load(c, paace(c), f) = req[c].rpn

Reconfig(c) ==
    /\ pc[c] \in {"reconfig_liodn", "reconfig_subwin"}
    /\ IF SamePage(c)
       THEN /\ Goto(c, "sync") /\ UNCHANGED buf
       ELSE /\ Issue(c, SetAF(paace(c), [af(c, paace(c)) EXCEPT !.ap = FALSE]) \o <<lwsync>>)
            /\ Goto(c, "move")
    /\ UNCHANGED <<mem, lock, pamu_fspi, req, tmp, client, outcome>>

(* Mutant: no barrier between the move and the grant.                      *)
MoveNoBarrier(c) ==
    /\ pc[c] = "move"
    /\ Issue(c, SetPage(paace(c), req[c].rpn))
    /\ Goto(c, "allow")
    /\ UNCHANGED <<mem, lock, pamu_fspi, req, tmp, client, outcome>>

Move(c) ==
    /\ pc[c] = "move"
    /\ Issue(c, SetPage(paace(c), req[c].rpn) \o <<lwsync>>)
    /\ Goto(c, "allow")
    /\ UNCHANGED <<mem, lock, pamu_fspi, req, tmp, client, outcome>>

Allow(c) ==
    /\ pc[c] = "allow"
    /\ Issue(c, SetAF(paace(c), [af(c, paace(c)) EXCEPT !.ap = TRUE]))
    /\ Goto(c, "sync")
    /\ UNCHANGED <<mem, lock, pamu_fspi, req, tmp, client, outcome>>

-----------------------------------------------------------------------------
(* The sync and the return 0 that end every call that succeeds.            *)

Succeeded(r) ==
    /\ configured' = IF r.fn = "config_ppaace"
                     THEN [configured EXCEPT ![r.l] = Append(@, r.cnt)] ELSE configured
    /\ asked' = [asked EXCEPT
          ![r.l].v = CASE r.fn = "enable" -> TRUE
                       [] r.fn = "config_spaace" /\ r.w = 0 -> TRUE
                       [] r.fn = "disable" -> FALSE
                       [] OTHER -> @,
          ![r.l].page = IF "rpn" \in DOMAIN r THEN [@ EXCEPT ![r.w] = r.rpn] ELSE @]

(* Mutant: a call returns before its stores have reached memory.           *)
ReturnUnsynced(c) ==
    /\ pc[c] = "sync"
    /\ Succeeded(req[c])
    /\ Goto(c, "idle")
    /\ UNCHANGED <<mem, buf, lock, pamu_fspi, req, tmp, client>>

Return(c) ==
    /\ pc[c] = "sync" /\ synced(c)
    /\ Succeeded(req[c])
    /\ Goto(c, "idle")
    /\ UNCHANGED <<mem, buf, lock, pamu_fspi, req, tmp, client>>

Step(c) ==
    \/ Call(c) \/ Drain(c)
    \/ ConfigLock(c) \/ ConfigReserve(c) \/ ConfigUnlock(c)
    \/ ConfigBadOmi(c) \/ ConfigWindow(c) \/ ConfigSubwindows(c)
    \/ GetFspi(c) \/ Allocate(c)
    \/ SpaaceFill(c) \/ SpaaceValid(c)
    \/ Enable(c) \/ EnableValid(c) \/ Disable(c)
    \/ Reconfig(c) \/ Move(c) \/ Allow(c)
    \/ Return(c)

Next == \E c \in Cpu : Step(c)

Spec == Init /\ [][Next]_vars

-----------------------------------------------------------------------------
(* What the PAMU does with an access of device l to window w: it reads the *)
(* entries in memory.                                                      *)

Usable(e) == mem[e].af.v /\ mem[e].af.ap
Translation(e) == <<mem[e].twbah, mem[e].twbal>>

(* The page reached, in halves: a set of one, or none when it is refused.  *)
Reached(l, w) ==
    LET p == <<"p", l>>
        s == <<"s", mem[p].fspi + w - 1>> IN
    CASE ~mem[p].af.v -> {}
      [] mem[p].af.v /\ w > 0 /\ mem[p].af.mw ->
            IF Usable(s) THEN {Translation(s)} ELSE {}
      [] OTHER -> IF mem[p].af.ap THEN {Translation(p)} ELSE {}

(* The windows the device has: one, or its subwindows.                     *)
Windows(l) == {w \in Window : w = 0 \/ HasWindow(l, w)}

-----------------------------------------------------------------------------
(* Properties                                                              *)

Word == [v : BOOLEAN, ap : BOOLEAN, mw : BOOLEAN, wse : BOOLEAN]

(* The secondary entries handed out never pass the end of the table.       *)
TypeOK ==
    /\ \A e \in Entry : /\ mem[e].af \in Word
                        /\ {mem[e].twbah, mem[e].twbal} \subseteq Page \cup {NoPage}
                        /\ mem[e].fspi \in 0..NSpaace
    /\ pamu_fspi \in 0..NSpaace
    /\ lock \in Cpu \cup {"free"}
    /\ tmp \in [Cpu -> 0..NSpaace]
    /\ calls \in 0..MaxCalls
    /\ configured \in [Liodn -> Seq(Counts)]
    /\ granted \in [Liodn -> [Window -> SUBSET Page]]

(* However many cores configure a device at once, one of them succeeds at  *)
(* most: the check of WSE and its store are one step under pamu_lock.  A   *)
(* disable or an enable meanwhile, which takes no lock, may write back the *)
(* word without the reservation.                                           *)
ConfiguredOnce == \A l \in Liodn \ raced : Len(configured[l]) <= 1

Subentries(l) ==
    IF configured[l] = <<>> \/ Single(l) THEN {}
    ELSE LET f == mem[<<"p", l>>].fspi IN f .. (f + configured[l][1] - 2)

(* The secondary entries of two devices are disjoint parts of the table:   *)
(* the compare_and_swap of pamu_get_fspi_and_allocate takes each once.     *)
SubwindowsDisjoint ==
    \A l \in Liodn \ raced :
       /\ Subentries(l) \subseteq 0..(NSpaace - 1)
       /\ \A k \in Liodn \ (raced \cup {l}) : Subentries(l) \cap Subentries(k) = {}

(* At no moment of a configuration, a move or an enable does a device      *)
(* reach a page that was not granted to that window: not a torn page       *)
(* number, nor another device's subwindow.  Two calls on one device must   *)
(* not overlap; calls on other devices may, whatever they do.              *)
OnlyGrantedPages ==
    \A l \in Liodn \ raced : \A w \in Windows(l) : \A t \in Reached(l, w) :
       t[1] = t[2] /\ t[1] \in granted[l][w]

(* Once its calls have returned a device reaches exactly the pages they    *)
(* asked for, and none when the last of them disabled it: a disable that   *)
(* returned is in force.                                                   *)
ReturnedIsInForce ==
    \A l \in Liodn \ raced :
       BusyWith(l) = {} /\ configured[l] # <<>> =>
          \A w \in Windows(l) :
             LET p == asked[l].page[w] IN
             Reached(l, w) = IF asked[l].v /\ p # NoPage THEN {<<p, p>>} ELSE {}

(* A device that is valid has been configured: pamu_enable_liodn refuses   *)
(* one that is "not configured".  Its check is the reservation, which a    *)
(* configuration that failed leaves behind.                                *)
ValidIsConfigured ==
    \A l \in Liodn \ raced : mem[<<"p", l>>].af.v => configured[l] # <<>>

(* The secondary entries handed out are inside the table, and each device's *)
(* are its own (pamu.c:364-378, 567-577).                                   *)
EntriesSound == TypeOK /\ SubwindowsDisjoint
=============================================================================
