------------------------------ MODULE PamuProofs ------------------------------
(***************************************************************************)
(* Proofs about Pamu, for any cores, devices, pages, subwindow counts and  *)
(* size of the secondary table: whatever the order in which stores reach   *)
(* memory, the PAMU never lets a device reach a page that was not granted  *)
(* to it, as long as no two calls on that device overlap, and what a call  *)
(* asked for is in force when it returns.                                  *)
(***************************************************************************)
EXTENDS Pamu, SequenceTheorems, FiniteSetTheorems, TLAPS

(* Calls                                                                    *)

Configs ==
    [fn : {"config_ppaace"}, l : Liodn, cnt : Counts \cap {0}, omiOk : BOOLEAN, w : {0}, rpn : Page]
    \cup [fn : {"config_ppaace"}, l : Liodn, cnt : Counts \ {0}, omiOk : BOOLEAN]
Switches == [fn : {"enable", "disable"}, l : Liodn]
Windowed ==
    [fn : {"config_spaace", "reconfig_subwin"}, l : Liodn, w : Window, rpn : Page]
    \cup [fn : {"reconfig_liodn"}, l : Liodn, w : {0}, rpn : Page]

(* Where a core can be in each kind of call.                                *)
Waiting == {"config_ppaace", "reserve", "busy"}
Locked == {"reserve", "busy", "reserved"}
CallOk(c) ==
    \/ pc[c] = "idle"
    \/ /\ req[c] \in Configs
       /\ pc[c] \in Waiting \cup {"reserved", "fill", "get_fspi", "allocate", "sync"}
       /\ pc[c] \in {"get_fspi", "allocate"} => req[c].cnt > 0
       /\ pc[c] = "allocate" => tmp[c] + req[c].cnt - 1 <= NSpaace
    \/ /\ req[c] \in Switches
       /\ pc[c] \in {req[c].fn, "sync"} \/ (req[c].fn = "enable" /\ pc[c] = "enable_sync")
    \/ /\ req[c] \in Windowed
       /\ \/ pc[c] \in {req[c].fn, "sync"}
          \/ req[c].fn = "config_spaace" /\ pc[c] = "spaace_valid"
          \/ req[c].fn # "config_spaace" /\ pc[c] \in {"move", "allow"}

Works(c, l) == pc[c] # "idle" /\ req[c].l = l
Owner(c) ==
    \/ pc[c] \in {"reserved", "fill", "get_fspi", "allocate"}
    \/ pc[c] = "sync" /\ req[c].fn = "config_ppaace"
InWindow(c) == pc[c] # "idle" /\ req[c].fn \in {"config_spaace", "reconfig_subwin", "reconfig_liodn"}

(* Two calls on a device whose calls did not race are configurations.       *)
Solo ==
    \A c, d \in Cpu : c # d /\ pc[c] # "idle" /\ pc[d] # "idle" /\ req[c].l = req[d].l /\ req[c].l \notin raced =>
       req[c].fn = "config_ppaace" /\ req[d].fn = "config_ppaace"

NothingAsked == [v |-> FALSE, page |-> [w \in Window |-> NoPage]]

Control ==
    /\ pc = [c \in Cpu |-> pc[c]] /\ req = [c \in Cpu |-> req[c]] /\ tmp \in [Cpu -> 0 .. NSpaace]
    /\ \A c \in Cpu : CallOk(c)
    /\ \A c \in Cpu : lock = c <=> pc[c] \in Locked
    /\ lock \in Cpu \cup {"free"} /\ pamu_fspi \in 0 .. NSpaace /\ calls \in 0 .. MaxCalls
    /\ raced \subseteq Liodn
    /\ configured \in [Liodn -> Seq(Counts)]
    /\ granted \in [Liodn -> [Window -> SUBSET Page]]
    /\ asked \in [Liodn -> [v : BOOLEAN, page : [Window -> Page \cup {NoPage}]]]
    /\ \A l \in Liodn, w \in Window : asked[l].page[w] \in granted[l][w] \cup {NoPage}
    /\ \A c \in Cpu : pc[c] # "idle" /\ "rpn" \in DOMAIN req[c] => req[c].rpn \in granted[req[c].l][req[c].w]
    /\ Solo

-----------------------------------------------------------------------------
(* Stores                                                                   *)

EntryType == [af : Word, twbah : Page \cup {NoPage}, twbal : Page \cup {NoPage}, fspi : 0 .. NSpaace]
StoreType ==
    [e : Entry, f : {"af"}, x : Word]
    \cup [e : Entry, f : {"twbah", "twbal"}, x : Page]
    \cup [e : Primary, f : {"fspi"}, x : 0 .. NSpaace]
    \cup {lwsync}

Prim(l) == <<"p", l>>
Sec(i) == <<"s", i>>
Multi(l) == configured[l][1] > 0
First(l) == mem[Prim(l)].fspi
EntryOf(l, w) == IF w = 0 THEN Prim(l) ELSE Sec(First(l) + w - 1)

IsTo(t, e) == t # lwsync /\ t.e = e
Pending(c, e) == \E i \in DOMAIN buf[c] : IsTo(buf[c][i], e)

(* A device whose table entries are settled: nobody reserves them again, or *)
(* moves its secondary entries.                                             *)
Live(l) == (l \notin raced /\ configured[l] # <<>>) \/ \E c \in Cpu : InWindow(c) /\ req[c].l = l
Settled(l) ==
    /\ configured[l] # <<>> /\ mem[Prim(l)].af.wse
    /\ \A c \in Cpu : /\ Works(c, l) => ~Owner(c)
                      /\ \A i \in DOMAIN buf[c] : IsTo(buf[c][i], Prim(l)) =>
                            buf[c][i].f # "fspi" /\ (buf[c][i].f = "af" => buf[c][i].x.wse)

(* The secondary entries handed out: to devices, and to cores about to      *)
(* return them.                                                             *)
Holds(c) == pc[c] = "sync" /\ req[c].fn = "config_ppaace" /\ req[c].cnt > 0
LiveMulti(l) == Live(l) /\ Multi(l)
Apart(a, n, b, m) == a + n - 1 <= b \/ b + m - 1 <= a

Claims ==
    /\ \A c \in Cpu : Holds(c) => tmp[c] + req[c].cnt - 1 <= pamu_fspi
    /\ \A l \in Liodn : LiveMulti(l) => First(l) + configured[l][1] - 1 <= pamu_fspi
    /\ \A c, d \in Cpu : Holds(c) /\ Holds(d) /\ c # d => Apart(tmp[c], req[c].cnt, tmp[d], req[d].cnt)
    /\ \A l, k \in Liodn : LiveMulti(l) /\ LiveMulti(k) /\ l # k =>
          Apart(First(l), configured[l][1], First(k), configured[k][1])
    /\ \A l \in Liodn, c \in Cpu : LiveMulti(l) /\ Holds(c) =>
          Apart(First(l), configured[l][1], tmp[c], req[c].cnt)

Fresh ==
    /\ \A i \in 0 .. NSpaace - 1 : i >= pamu_fspi => mem[Sec(i)] = Empty
    /\ \A c \in Cpu : Holds(c) => \A i \in tmp[c] .. tmp[c] + req[c].cnt - 2 : mem[Sec(i)] = Empty

(* Who stores to a secondary entry is in a call for a window it is of.      *)
Active == {"spaace_valid", "move", "allow", "sync"}
Origins ==
    \A c \in Cpu, i \in 0 .. NSpaace - 1 : Pending(c, Sec(i)) =>
       InWindow(c) /\ pc[c] \in Active /\ req[c].w > 0 /\ Sec(i) = EntryOf(req[c].l, req[c].w)

Tables ==
    /\ mem \in [Entry -> EntryType] /\ buf \in [Cpu -> Seq(StoreType)]
    /\ \A l \in Liodn : Live(l) => Settled(l)
    /\ \A c \in Cpu : InWindow(c) => req[c].w = 0 \/ req[c].w < configured[req[c].l][1]
    /\ Claims /\ Fresh /\ Origins

-----------------------------------------------------------------------------
(* Devices whose calls did not race                                         *)

Blank == [v |-> FALSE, ap |-> FALSE, mw |-> FALSE, wse |-> FALSE]
Taken == [Blank EXCEPT !.wse = TRUE]

(* Not configured: no reservation, nor a store but of a disable.            *)
Unset(l) ==
    /\ mem[Prim(l)] = Empty /\ asked[l] = NothingAsked
    /\ \A c \in Cpu : /\ Works(c, l) => /\ ~Owner(c) /\ pc[c] # "enable_sync"
                                       /\ (pc[c] = "sync" => req[c].fn = "disable")
                      /\ \A i \in DOMAIN buf[c] : IsTo(buf[c][i], Prim(l)) =>
                            /\ buf[c][i].f = "af" /\ buf[c][i].x = Blank
                            /\ Works(c, l) /\ pc[c] = "sync" /\ req[c].fn = "disable"

(* Reserved by a configuration that failed.                                 *)
Dead == {Taken, [Taken EXCEPT !.v = TRUE]}
Failed(l) ==
    /\ mem[Prim(l)].af \in Dead
    /\ \A c \in Cpu : /\ Works(c, l) => ~Owner(c)
                      /\ \A i \in DOMAIN buf[c] : IsTo(buf[c][i], Prim(l)) =>
                            buf[c][i].f = "af" /\ buf[c][i].x \in Dead

(* Reserved by a configuration under way.                                   *)
AFs(c, e, S) == \A i \in DOMAIN buf[c] : To(buf[c][i], e, "af") => buf[c][i].x \in S
Building(c, l) ==
    /\ mem[Prim(l)].af.v = FALSE /\ AFs(c, Prim(l), {x \in Word : ~x.v})
    /\ \/ /\ pc[c] = "reserved" /\ Load(c, Prim(l), "af") = Taken
          /\ mem[Prim(l)] \in {Empty, [Empty EXCEPT !.af = Taken]}
          /\ \A i \in DOMAIN buf[c] : IsTo(buf[c][i], Prim(l)) => buf[c][i].f = "af" /\ buf[c][i].x = Taken
       \/ /\ pc[c] = "fill" /\ mem[Prim(l)] = [Empty EXCEPT !.af = Taken] /\ ~Pending(c, Prim(l))
       \/ /\ pc[c] \in {"get_fspi", "allocate"} /\ mem[Prim(l)] = [Empty EXCEPT !.af = Taken]
          /\ \A i \in DOMAIN buf[c] : IsTo(buf[c][i], Prim(l)) => buf[c][i].f = "af" /\ buf[c][i].x = Taken
       \/ /\ pc[c] = "sync" /\ req[c].cnt = 0
          /\ Load(c, Prim(l), "af") = [Taken EXCEPT !.ap = TRUE]
          /\ mem[Prim(l)].af.wse /\ AFs(c, Prim(l), {x \in Word : x.wse})
          /\ Load(c, Prim(l), "twbah") = req[c].rpn /\ Load(c, Prim(l), "twbal") = req[c].rpn
       \/ /\ pc[c] = "sync" /\ req[c].cnt > 0
          /\ mem[Prim(l)].af.wse /\ AFs(c, Prim(l), {x \in Word : x.wse})
          /\ Load(c, Prim(l), "af") = [Taken EXCEPT !.mw = TRUE] /\ Load(c, Prim(l), "fspi") = tmp[c]

Owned(l) ==
    /\ asked[l] = NothingAsked
    /\ \E c \in Cpu :
          /\ Works(c, l) /\ Owner(c) /\ Building(c, l)
          /\ \A d \in Cpu \ {c} : ~Pending(d, Prim(l)) /\ (Works(d, l) => pc[d] \in Waiting)

(* Configured: the words of its entries, by what its calls asked for.       *)
WordOf(l, w, v, page) ==
    IF w = 0 THEN [v |-> v, ap |-> page # NoPage, mw |-> Multi(l), wse |-> TRUE]
    ELSE [v |-> page # NoPage, ap |-> page # NoPage, mw |-> FALSE, wse |-> FALSE]
FilledWord(l, w) ==
    IF w = 0 THEN [v |-> FALSE, ap |-> TRUE, mw |-> Multi(l), wse |-> TRUE]
    ELSE [v |-> FALSE, ap |-> TRUE, mw |-> FALSE, wse |-> FALSE]

RestAt(l, w, e) ==
    LET page == asked[l].page[w] IN
    /\ \A c \in Cpu : ~Pending(c, e)
    /\ mem[e].af = WordOf(l, w, asked[l].v, page)
    /\ page # NoPage => mem[e].twbah = page /\ mem[e].twbal = page
Rest(l, w) == RestAt(l, w, EntryOf(l, w))

Target(c) == IF InWindow(c) THEN req[c].w ELSE 0

(* The order of stores: one that denies, pages, one that grants.            *)
Denies(t, e) == To(t, e, "af") /\ ~t.x.ap
Pages(t, e) == To(t, e, "twbah") \/ To(t, e, "twbal")
Grants(t, e) == To(t, e, "af") /\ t.x.ap /\ t.x.v
Before(b, i, j) == i < j /\ \E k \in i .. j : b[k] = lwsync
Ordered(b, e) ==
    \A i, j \in DOMAIN b :
       /\ Denies(b[i], e) /\ Pages(b[j], e) => Before(b, i, j)
       /\ Pages(b[i], e) /\ Grants(b[j], e) => Before(b, i, j)
       /\ Denies(b[i], e) /\ Grants(b[j], e) => Before(b, i, j)
Fenced(b, e) == \A i \in DOMAIN b : IsTo(b[i], e) => \E k \in DOMAIN b : k > i /\ b[k] = lwsync
Denied(c, e) == \E i \in DOMAIN buf[c] : Denies(buf[c][i], e)
Paged(c, e) == \E i \in DOMAIN buf[c] : Pages(buf[c][i], e)
Granting(c, e) == \E i \in DOMAIN buf[c] : Grants(buf[c][i], e)

SeesPage(c, e, page) == Load(c, e, "twbah") = page /\ Load(c, e, "twbal") = page

(* What the core that works on a window has made of its entry so far.       *)
MadeAt(c, l, w, e) ==
    LET page == asked[l].page[w]
        page2 == IF InWindow(c) THEN req[c].rpn ELSE page
        v2 == CASE req[c].fn = "enable" -> TRUE [] req[c].fn = "disable" -> FALSE
                [] req[c].fn = "config_spaace" /\ w = 0 -> TRUE [] OTHER -> asked[l].v
        see == Load(c, e, "af") IN
    \/ /\ pc[c] = "sync" /\ see = WordOf(l, w, v2, page2) /\ (page2 # NoPage => SeesPage(c, e, page2))
    \/ /\ pc[c] = "spaace_valid" /\ see = FilledWord(l, w)
       /\ SeesPage(c, e, page2) /\ mem[e].af.v = FALSE /\ AFs(c, e, {x \in Word : ~x.v}) /\ Fenced(buf[c], e)
       /\ (w = 0 => ~asked[l].v) /\ page = NoPage
    \/ /\ pc[c] = "move" /\ see = [WordOf(l, w, asked[l].v, page) EXCEPT !.ap = FALSE] /\ page # NoPage
       /\ SeesPage(c, e, page) /\ ~Paged(c, e) /\ ~Granting(c, e) /\ Fenced(buf[c], e)
       /\ (mem[e].af.v /\ mem[e].af.ap => Denied(c, e))
    \/ /\ pc[c] = "allow" /\ see = [WordOf(l, w, asked[l].v, page) EXCEPT !.ap = FALSE] /\ page # NoPage
       /\ SeesPage(c, e, page2) /\ ~Granting(c, e) /\ Fenced(buf[c], e)

StageAt(c, l, w, e) ==
    /\ \A d \in Cpu \ {c} : ~Pending(d, e)
    /\ Ordered(buf[c], e)
    /\ (w = 0 => mem[e].af.mw = Multi(l) /\ AFs(c, e, {x \in Word : x.mw = Multi(l)}))
    /\ (mem[e].af.v /\ mem[e].af.ap =>
          /\ mem[e].twbah = mem[e].twbal /\ mem[e].twbah \in granted[l][w]
          /\ (Paged(c, e) => Denied(c, e)))
    /\ (Granting(c, e) => Load(c, e, "twbah") = Load(c, e, "twbal") /\ Load(c, e, "twbah") \in granted[l][w])
    /\ MadeAt(c, l, w, e)
Stage(c, l, w) == StageAt(c, l, w, EntryOf(l, w))

AtWork(c, l, w) == Works(c, l) /\ pc[c] \in Active /\ Target(c) = w
WindowOk(l, w) ==
    IF \E c \in Cpu : AtWork(c, l, w) THEN \A c \in Cpu : AtWork(c, l, w) => Stage(c, l, w) ELSE Rest(l, w)

Configured(l) ==
    /\ Len(configured[l]) = 1 /\ (Single(l) => asked[l].page[0] # NoPage)
    /\ \A c \in Cpu : Works(c, l) /\ pc[c] = "config_spaace" =>
          asked[l].page[req[c].w] = NoPage /\ (req[c].w = 0 => ~asked[l].v)
    /\ \A c \in Cpu : Works(c, l) /\ pc[c] \in {"reconfig_liodn", "reconfig_subwin"} =>
          asked[l].page[req[c].w] # NoPage
    /\ \A w \in Windows(l) : WindowOk(l, w)

Devices ==
    \A l \in Liodn \ raced :
       IF configured[l] = <<>> THEN Unset(l) \/ Failed(l) \/ Owned(l) ELSE Configured(l)

PamuInv == Control /\ Tables /\ Devices
-----------------------------------------------------------------------------
(* Store buffers                                                            *)

Seen(b, m, e, f) ==
    LET own == {i \in DOMAIN b : To(b[i], e, f)} IN
    IF own = {} THEN m[e][f]
    ELSE b[CHOOSE i \in own : \A j \in own : j <= i].x

LEMMA LoadSeen == \A c, e, f : Load(c, e, f) = Seen(buf[c], mem, e, f)
  BY DEF Load, Seen

LEMMA Greatest ==
    ASSUME NEW n \in Nat, NEW T \in SUBSET (1 .. n), T # {}
    PROVE  \E x \in T : \A y \in T : y <= x
<1> DEFINE Above(x) == {y \in T : y > x}
           U == {Above(x) : x \in T}
           R == StrictSubsetOrdering(T)
           FS == FiniteSubsetsOf(T)
<1>1. IsFiniteSet(1 .. n)
  BY FS_Interval
<1>2. U \subseteq FS /\ U # {}
  <2>1. \A x \in T : Above(x) \in SUBSET (1 .. n) /\ Above(x) \subseteq T
    OBVIOUS
  <2>2. \A x \in T : IsFiniteSet(Above(x))
    BY <1>1, <2>1, FS_Subset
  <2> QED BY <2>1, <2>2 DEF FiniteSubsetsOf
<1>3. IsWellFoundedOn(R, FS)
  BY FS_StrictSubsetOrderingWellFounded
<1>4. PICK V \in U : \A W \in U : <<W, V>> \notin R
  <2> HIDE DEF R, FS, U
  <2> QED BY <1>2, <1>3, WFMin
<1>5. PICK x \in T : V = Above(x)
  BY <1>4
<1>6. ASSUME NEW y \in T, ~(y <= x) PROVE FALSE
  <2>1. x \in Int /\ y \in Int /\ y > x /\ T \subseteq Int
    BY <1>6
  <2>2. y \in V /\ y \notin Above(y) /\ Above(y) \subseteq V /\ Above(y) \in U
    <3>1. V = {z \in T : z > x}
      BY <1>5
    <3>2. Above(y) \in U
      OBVIOUS
    <3>3. y \in V /\ y \notin {z \in T : z > y}
      BY <2>1, <3>1
    <3>4. {z \in T : z > y} \subseteq {z \in T : z > x}
      <4>1. \A z \in Int : z > y => z > x
        BY <2>1
      <4> QED BY <2>1, <4>1
    <3> QED BY <3>1, <3>2, <3>3, <3>4
  <2>3. <<Above(y), V>> \in R
    <3>1. V \in SUBSET T /\ Above(y) \in SUBSET T
      BY <1>5
    <3> DEFINE A == Above(y)
    <3>2. A \subseteq V /\ A # V /\ A \in SUBSET T
      BY <2>2, <3>1
    <3> HIDE DEF A
    <3>3. <<A, V>> \in StrictSubsetOrdering(T)
      BY <3>1, <3>2 DEF StrictSubsetOrdering
    <3> QED BY <3>3 DEF A
  <2> QED BY <1>4, <2>2, <2>3
<1> QED BY <1>6

LEMMA SeenLast ==
    ASSUME NEW S, NEW b \in Seq(S), NEW m, NEW e, NEW f, NEW k \in DOMAIN b,
           To(b[k], e, f), \A j \in DOMAIN b : To(b[j], e, f) => j <= k
    PROVE  Seen(b, m, e, f) = b[k].x
<1> DEFINE own == {i \in DOMAIN b : To(b[i], e, f)}
           g == CHOOSE i \in own : \A j \in own : j <= i
<1>1. k \in own /\ \A j \in own : j <= k
  OBVIOUS
<1>2. own \subseteq Int
  OBVIOUS
<1>3. g \in own /\ \A j \in own : j <= g
  BY <1>1
<1>4. g = k
  <2> HIDE DEF g, own
  <2> QED BY <1>1, <1>2, <1>3
<1> QED BY <1>1, <1>4 DEF Seen

LEMMA SeenNone ==
    ASSUME NEW b, NEW m, NEW e, NEW f, \A i \in DOMAIN b : ~To(b[i], e, f)
    PROVE  Seen(b, m, e, f) = m[e][f]
  BY DEF Seen

LEMMA SeenSome ==
    ASSUME NEW S, NEW b \in Seq(S), NEW m, NEW e, NEW f, NEW i \in DOMAIN b, To(b[i], e, f)
    PROVE  \E k \in DOMAIN b : /\ To(b[k], e, f) /\ Seen(b, m, e, f) = b[k].x
                               /\ \A j \in DOMAIN b : To(b[j], e, f) => j <= k
<1> DEFINE own == {j \in DOMAIN b : To(b[j], e, f)}
<1>1. DOMAIN b = 1 .. Len(b) /\ Len(b) \in Nat
  BY LenProperties
<1>2. own \in SUBSET (1 .. Len(b)) /\ own # {}
  BY <1>1
<1>3. PICK k \in own : \A j \in own : j <= k
  <2> HIDE DEF own
  <2> QED BY <1>1, <1>2, Greatest
<1> QED BY <1>3, SeenLast

(* What a core sees is one of its stores, or memory.                        *)
LEMMA SeenOneOf ==
    ASSUME NEW S, NEW b \in Seq(S), NEW m, NEW e, NEW f, NEW X, m[e][f] \in X,
           \A i \in DOMAIN b : To(b[i], e, f) => b[i].x \in X
    PROVE  Seen(b, m, e, f) \in X
<1>1. CASE \A i \in DOMAIN b : ~To(b[i], e, f)
  BY <1>1, SeenNone
<1>2. CASE \E i \in DOMAIN b : To(b[i], e, f)
  BY <1>2, SeenSome
<1> QED BY <1>1, <1>2

LEMMA SeenAppend ==
    ASSUME NEW S, NEW b \in Seq(S), NEW t \in S, NEW m, NEW e, NEW f
    PROVE  Seen(Append(b, t), m, e, f) = IF To(t, e, f) THEN t.x ELSE Seen(b, m, e, f)
<1> DEFINE a == Append(b, t)
           n == Len(b)
<1>1. /\ a \in Seq(S) /\ DOMAIN a = 1 .. n + 1 /\ a[n + 1] = t /\ n \in Nat /\ DOMAIN b = 1 .. n
      /\ \A i \in 1 .. n : a[i] = b[i]
  <2>1. /\ a \in Seq(S) /\ Len(a) = n + 1 /\ a[n + 1] = t /\ \A i \in 1 .. n : a[i] = b[i]
    BY AppendProperties
  <2> HIDE DEF a, n
  <2> QED BY <2>1, LenProperties DEF n
<1> HIDE DEF a, n
<1>2. CASE To(t, e, f)
  <2>1. n + 1 \in DOMAIN a /\ To(a[n + 1], e, f) /\ \A j \in DOMAIN a : To(a[j], e, f) => j <= n + 1
    BY <1>1, <1>2
  <2>2. Seen(a, m, e, f) = a[n + 1].x
    BY <1>1, <2>1, SeenLast
  <2> QED BY <1>1, <1>2, <2>2 DEF a
<1>3. CASE ~To(t, e, f) /\ \A i \in DOMAIN b : ~To(b[i], e, f)
  <2>1. \A i \in DOMAIN a : ~To(a[i], e, f)
    <3> TAKE i \in DOMAIN a
    <3>1. i = n + 1 \/ i \in 1 .. n
      BY <1>1
    <3> QED BY <1>1, <1>3, <3>1
  <2>2. Seen(a, m, e, f) = m[e][f] /\ Seen(b, m, e, f) = m[e][f]
    BY <1>3, <2>1, SeenNone
  <2> QED BY <1>3, <2>2 DEF a
<1>4. CASE ~To(t, e, f) /\ \E i \in DOMAIN b : To(b[i], e, f)
  <2>1. PICK k \in DOMAIN b : /\ To(b[k], e, f) /\ Seen(b, m, e, f) = b[k].x
                              /\ \A j \in DOMAIN b : To(b[j], e, f) => j <= k
    BY <1>4, SeenSome
  <2>2. k \in DOMAIN a /\ To(a[k], e, f) /\ a[k] = b[k]
    BY <1>1, <2>1
  <2>3. ASSUME NEW j \in DOMAIN a, To(a[j], e, f) PROVE j <= k
    <3>1. j = n + 1 \/ j \in 1 .. n
      BY <1>1
    <3> QED BY <1>1, <1>4, <2>1, <2>3, <3>1
  <2>4. Seen(a, m, e, f) = a[k].x
    BY <1>1, <2>2, <2>3, SeenLast
  <2> QED BY <1>4, <2>1, <2>2, <2>4 DEF a
<1> QED BY <1>2, <1>3, <1>4

(* A store leaves the buffer: what is left, and where it was.               *)
Leaves(b, i) == \A j \in 1 .. i : b[j] # lwsync
Drained(b, i) == Stripped(Without(b, i))

(* What is left is in its order, all of it but a barrier that came first.   *)
Kept(b, i, t, u) ==
    /\ \A j \in DOMAIN t : t[j] = b[u[j]] /\ u[j] # i
    /\ \A j, k \in DOMAIN t : j < k <=> u[j] < u[k]
    /\ \A k \in DOMAIN b : \/ k = i \/ (\E j \in DOMAIN t : u[j] = k)
                           \/ b[k] = lwsync /\ \A j \in DOMAIN t : k < u[j]

LEMMA Cut ==
    ASSUME NEW S, NEW b \in Seq(S), NEW i \in DOMAIN b
    PROVE  /\ Without(b, i) \in Seq(S) /\ Len(Without(b, i)) = Len(b) - 1
           /\ \A j \in 1 .. Len(b) - 1 : Without(b, i)[j] = IF j < i THEN b[j] ELSE b[j + 1]
<1> DEFINE n == Len(b)
           x == SubSeq(b, 1, i - 1)
           y == SubSeq(b, i + 1, n)
<1>1. n \in Nat /\ i \in 1 .. n /\ DOMAIN b = 1 .. n /\ \A j \in 1 .. n : b[j] \in S
  BY LenProperties, ElementOfSeq
<1> HIDE DEF n
<1>2. x \in Seq(S) /\ Len(x) = i - 1 /\ \A j \in 1 .. i - 1 : x[j] = b[j]
  <2>1. 1 \in Int /\ i - 1 \in Int /\ \A j \in 1 .. i - 1 : b[j] \in S
    BY <1>1
  <2>2. /\ x \in Seq(S) /\ Len(x) = (IF 1 <= i - 1 THEN (i - 1) - 1 + 1 ELSE 0)
        /\ \A j \in 1 .. (i - 1) - 1 + 1 : x[j] = b[1 + j - 1]
    BY <2>1, SubSeqProperties
  <2> HIDE DEF x
  <2> QED BY <1>1, <2>2
<1>3. y \in Seq(S) /\ Len(y) = n - i /\ \A j \in 1 .. n - i : y[j] = b[i + j]
  <2>1. i + 1 \in Int /\ n \in Int /\ \A j \in i + 1 .. n : b[j] \in S
    BY <1>1
  <2>2. /\ y \in Seq(S) /\ Len(y) = (IF i + 1 <= n THEN n - (i + 1) + 1 ELSE 0)
        /\ \A j \in 1 .. n - (i + 1) + 1 : y[j] = b[i + 1 + j - 1]
    BY <2>1, SubSeqProperties
  <2> HIDE DEF y
  <2>3. Len(y) = n - i
    BY <1>1, <2>2
  <2>4. ASSUME NEW j \in 1 .. n - i PROVE y[j] = b[i + j]
    <3>1. j \in 1 .. n - (i + 1) + 1 /\ i + 1 + j - 1 = i + j
      BY <1>1
    <3> QED BY <2>2, <3>1
  <2> QED BY <2>2, <2>3, <2>4
<1>4. Without(b, i) = x \o y
  BY DEF Without, n
<1> HIDE DEF x, y
<1>5. /\ x \o y \in Seq(S) /\ Len(x \o y) = n - 1
      /\ \A j \in 1 .. n - 1 : (x \o y)[j] = IF j <= i - 1 THEN x[j] ELSE y[j - (i - 1)]
  <2>1. /\ x \o y \in Seq(S) /\ Len(x \o y) = Len(x) + Len(y)
        /\ \A j \in 1 .. Len(x) + Len(y) : (x \o y)[j] = IF j <= Len(x) THEN x[j] ELSE y[j - Len(x)]
    BY <1>2, <1>3, ConcatProperties
  <2> DEFINE z == x \o y
  <2> HIDE DEF z
  <2>2. Len(x) + Len(y) = n - 1
    BY <1>1, <1>2, <1>3
  <2> QED BY <1>2, <2>1, <2>2 DEF z
<1> DEFINE z == x \o y
<1> HIDE DEF z
<1>6. ASSUME NEW j \in 1 .. n - 1 PROVE z[j] = IF j < i THEN b[j] ELSE b[j + 1]
  <2>1. z[j] = IF j <= i - 1 THEN x[j] ELSE y[j - (i - 1)]
    BY <1>5 DEF z
  <2>2. CASE j < i
    BY <1>1, <1>2, <2>1, <2>2
  <2>3. CASE ~(j < i)
    <3>1. j - (i - 1) \in 1 .. n - i /\ i + (j - (i - 1)) = j + 1 /\ ~(j <= i - 1)
      BY <1>1, <2>3
    <3> QED BY <1>3, <2>1, <2>3, <3>1
  <2> QED BY <2>2, <2>3
<1> QED BY <1>4, <1>5, <1>6 DEF z, n

LEMMA Removal ==
    ASSUME NEW S, NEW b \in Seq(S), NEW i \in DOMAIN b, Leaves(b, i)
    PROVE  /\ Drained(b, i) \in Seq(S)
           /\ \E u \in [DOMAIN Drained(b, i) -> DOMAIN b] : Kept(b, i, Drained(b, i), u)
<1> DEFINE n == Len(b)
           w == Without(b, i)
           t == Drained(b, i)
<1>1. n \in Nat /\ i \in 1 .. n /\ DOMAIN b = 1 .. n
  BY LenProperties
<1>2. w \in Seq(S) /\ Len(w) = n - 1 /\ \A j \in 1 .. n - 1 : w[j] = IF j < i THEN b[j] ELSE b[j + 1]
  BY Cut
<1>3. t = IF w # <<>> /\ w[1] = lwsync THEN Tail(w) ELSE w
  BY DEF Drained, Stripped
<1> HIDE DEF n, w, t
<1>4. CASE w # <<>> /\ w[1] = lwsync
  <2>1. t \in Seq(S) /\ Len(t) = n - 2 /\ (\A j \in 1 .. n - 2 : t[j] = w[j + 1]) /\ n >= 2 /\ n - 2 \in Nat
    <3>1. t = Tail(w)
      BY <1>3, <1>4
    <3>2. t \in Seq(S) /\ Len(t) = Len(w) - 1 /\ \A j \in 1 .. Len(t) : t[j] = w[j + 1]
      BY <1>2, <1>4, <3>1, HeadTailProperties
    <3>3. Len(w) \in Nat \ {0}
      BY <1>2, <1>4, EmptySeq
    <3> QED BY <1>1, <1>2, <3>2, <3>3
  <2>2. i = 1 /\ b[2] = lwsync
    <3>1. 1 \in 1 .. n - 1 /\ w[1] = IF 1 < i THEN b[1] ELSE b[1 + 1]
      BY <1>1, <1>2, <2>1
    <3>2. 1 \in 1 .. i /\ b[1] # lwsync
      BY <1>1 DEF Leaves
    <3>3. ~(1 < i) /\ b[1 + 1] = lwsync
      BY <1>4, <3>1, <3>2
    <3> QED BY <1>1, <3>3
  <2> DEFINE u == [j \in DOMAIN t |-> j + 2]
  <2>3. DOMAIN t = 1 .. n - 2
    BY <2>1, LenProperties
  <2>4. \A j \in DOMAIN t : u[j] = j + 2 /\ j \in Int /\ j + 2 \in 1 .. n /\ t[j] = b[j + 2]
    <3> TAKE j \in DOMAIN t
    <3>1. j \in Int /\ j \in 1 .. n - 2 /\ j + 1 \in 1 .. n - 1 /\ ~(j + 1 < 1) /\ j + 1 + 1 = j + 2 /\ j + 2 \in 1 .. n
      BY <1>1, <2>1, <2>3
    <3>2. t[j] = w[j + 1] /\ w[j + 1] = b[j + 1 + 1]
      BY <1>2, <2>1, <2>2, <3>1
    <3> QED BY <3>1, <3>2
  <2>5. u \in [DOMAIN t -> DOMAIN b]
    BY <1>1, <2>4
  <2> HIDE DEF u
  <2>6. \A j \in DOMAIN t : t[j] = b[u[j]] /\ u[j] # i
    <3> TAKE j \in DOMAIN t
    <3>1. u[j] = j + 2 /\ j \in 1 .. n - 2 /\ t[j] = b[j + 2]
      BY <2>3, <2>4
    <3> QED BY <2>1, <2>2, <3>1
  <2>7. \A j, k \in DOMAIN t : j < k <=> u[j] < u[k]
    BY <2>4
  <2>8. ASSUME NEW k \in DOMAIN b, k # i
        PROVE  \/ \E j \in DOMAIN t : u[j] = k
               \/ b[k] = lwsync /\ \A j \in DOMAIN t : k < u[j]
    <3>1. CASE k = 2
      <4>1. \A j \in DOMAIN t : 2 < u[j]
        BY <2>3, <2>4
      <4> QED BY <2>2, <3>1, <4>1
    <3>2. CASE k # 2
      <4>1. k - 2 \in DOMAIN t /\ (k - 2) + 2 = k
        BY <1>1, <2>1, <2>2, <2>3, <2>8, <3>2
      <4>2. u[k - 2] = k
        BY <2>4, <4>1
      <4> QED BY <4>1, <4>2
    <3> QED BY <3>1, <3>2
  <2>9. Kept(b, i, t, u)
    BY <2>6, <2>7, <2>8 DEF Kept
  <2> QED BY <2>1, <2>5, <2>9 DEF t
<1>5. CASE ~(w # <<>> /\ w[1] = lwsync)
  <2>1. t \in Seq(S) /\ Len(t) = n - 1 /\ DOMAIN t = 1 .. n - 1
        /\ \A j \in 1 .. n - 1 : t[j] = IF j < i THEN b[j] ELSE b[j + 1]
    <3>1. t = w
      BY <1>3, <1>5
    <3> QED BY <1>2, <3>1, LenProperties
  <2> DEFINE u == [j \in DOMAIN t |-> IF j < i THEN j ELSE j + 1]
  <2>2. \A j \in DOMAIN t : j \in 1 .. n - 1 /\ u[j] = (IF j < i THEN j ELSE j + 1) /\ t[j] = b[u[j]]
    BY <2>1
  <2>3. \A j \in DOMAIN t : u[j] \in 1 .. n /\ u[j] # i
    BY <1>1, <2>2
  <2>4. u \in [DOMAIN t -> DOMAIN b]
    BY <1>1, <2>3
  <2> HIDE DEF u
  <2>5. \A j, k \in DOMAIN t : j < k <=> u[j] < u[k]
    BY <1>1, <2>2
  <2>6. ASSUME NEW k \in DOMAIN b, k # i PROVE \E j \in DOMAIN t : u[j] = k
    <3>1. CASE k < i
      <4>1. k \in DOMAIN t
        BY <1>1, <2>1, <3>1
      <4> QED BY <2>2, <3>1, <4>1
    <3>2. CASE ~(k < i)
      <4>1. k - 1 \in DOMAIN t /\ ~(k - 1 < i) /\ (k - 1) + 1 = k
        BY <1>1, <2>1, <2>6, <3>2
      <4> QED BY <2>2, <4>1
    <3> QED BY <3>1, <3>2
  <2>7. Kept(b, i, t, u)
    BY <2>2, <2>3, <2>5, <2>6 DEF Kept
  <2> QED BY <2>1, <2>4, <2>7 DEF t
<1> QED BY <1>4, <1>5 DEF t

(* Draining changes nothing that the core sees, ...                         *)
LEMMA SeenDrained ==
    ASSUME NEW b \in Seq(StoreType), NEW i \in DOMAIN b, Leaves(b, i),
           NEW m \in [Entry -> EntryType], NEW e \in Entry, NEW f \in {"af", "twbah", "twbal", "fspi"},
           \A j \in 1 .. i - 1 : ~To(b[j], b[i].e, b[i].f)
    PROVE  Seen(Drained(b, i), [m EXCEPT ![b[i].e][b[i].f] = b[i].x], e, f) = Seen(b, m, e, f)
<1> DEFINE t == Drained(b, i)
           a == b[i]
           m2 == [m EXCEPT ![a.e][a.f] = a.x]
<1>1. DOMAIN b = 1 .. Len(b) /\ Len(b) \in Nat /\ a \in StoreType /\ a # lwsync /\ i \in 1 .. Len(b)
  <2>1. DOMAIN b = 1 .. Len(b) /\ Len(b) \in Nat
    BY LenProperties
  <2>2. i \in 1 .. i /\ a \in StoreType
    BY <2>1, ElementOfSeq
  <2> QED BY <2>1, <2>2 DEF Leaves
<1>2. /\ t \in Seq(StoreType)
      /\ \E u \in [DOMAIN t -> DOMAIN b] : Kept(b, i, t, u)
  BY Removal
<1>3. PICK u \in [DOMAIN t -> DOMAIN b] :
            /\ \A j \in DOMAIN t : t[j] = b[u[j]] /\ u[j] # i
            /\ \A j, k \in DOMAIN t : j < k <=> u[j] < u[k]
            /\ \A k \in DOMAIN b : \/ k = i \/ (\E j \in DOMAIN t : u[j] = k)
                                   \/ b[k] = lwsync /\ \A j \in DOMAIN t : k < u[j]
  BY <1>2 DEF Kept
<1>4. \A j \in DOMAIN t : j \in Int /\ u[j] \in Int
  <2>1. DOMAIN t = 1 .. Len(t)
    BY <1>2, LenProperties
  <2> QED BY <1>1, <1>3, <2>1
<1>5. a.e \in Entry /\ a.f \in {"af", "twbah", "twbal", "fspi"}
  BY <1>1 DEF StoreType, Entry
<1>6. m2[e][f] = IF e = a.e /\ f = a.f THEN a.x ELSE m[e][f]
  <2> HIDE DEF a
  <2> QED BY <1>5 DEF EntryType
<1> HIDE DEF t, m2
<1>7. \A k \in DOMAIN b : To(b[k], e, f) => b[k] # lwsync
  BY DEF To, lwsync
<1>8. CASE \A k \in DOMAIN b : ~To(b[k], e, f)
  <2>1. \A j \in DOMAIN t : ~To(t[j], e, f)
    BY <1>3, <1>8
  <2>2. ~(e = a.e /\ f = a.f)
    BY <1>5, <1>8 DEF To
  <2>3. Seen(t, m2, e, f) = m2[e][f] /\ Seen(b, m, e, f) = m[e][f]
    BY <1>8, <2>1, SeenNone
  <2> QED BY <1>6, <2>2, <2>3 DEF t, m2
<1>9. ASSUME NEW k \in DOMAIN b, To(b[k], e, f), \A j \in DOMAIN b : To(b[j], e, f) => j <= k
      PROVE  Seen(t, m2, e, f) = b[k].x
  <2>1. CASE k # i
    <3>1. PICK h \in DOMAIN t : u[h] = k
      BY <1>3, <1>7, <1>9, <2>1
    <3>2. To(t[h], e, f) /\ t[h] = b[k]
      BY <1>3, <1>9, <3>1
    <3>3. ASSUME NEW j \in DOMAIN t, To(t[j], e, f) PROVE j <= h
      <4>1. u[j] <= k /\ ~(u[h] < u[j])
        BY <1>3, <1>4, <1>9, <3>1, <3>3
      <4> QED BY <1>3, <1>4, <4>1
    <3> QED BY <1>2, <3>1, <3>2, <3>3, SeenLast DEF t
  <2>2. CASE k = i
    <3>1. e = a.e /\ f = a.f
      BY <1>9, <2>2 DEF To
    <3>2. ASSUME NEW j \in DOMAIN t, To(t[j], e, f) PROVE FALSE
      <4>1. u[j] \in DOMAIN b /\ To(b[u[j]], e, f) /\ u[j] # i
        BY <1>3, <3>2
      <4>2. u[j] <= i /\ u[j] \in 1 .. i - 1
        BY <1>1, <1>9, <2>2, <4>1
      <4> QED BY <3>1, <4>1, <4>2
    <3>3. Seen(t, m2, e, f) = m2[e][f]
      BY <3>2, SeenNone
    <3> QED BY <1>6, <2>2, <3>1, <3>3
  <2> QED BY <2>1, <2>2
<1>10. CASE \E k \in DOMAIN b : To(b[k], e, f)
  <2>1. PICK k \in DOMAIN b : /\ To(b[k], e, f) /\ Seen(b, m, e, f) = b[k].x
                              /\ \A j \in DOMAIN b : To(b[j], e, f) => j <= k
    BY <1>10, SeenSome
  <2> QED BY <1>9, <2>1 DEF t, m2
<1> QED BY <1>8, <1>10

(* ... and keeps the order of what is left.                                 *)
LEMMA OrderDrained ==
    ASSUME NEW b \in Seq(StoreType), NEW i \in DOMAIN b, Leaves(b, i)
    PROVE  /\ Drained(b, i) \in Seq(StoreType)
           /\ \A j \in DOMAIN Drained(b, i) : \E k \in DOMAIN b : k # i /\ Drained(b, i)[j] = b[k]
           /\ \A k \in DOMAIN b : \/ k = i \/ b[k] = lwsync
                                  \/ \E j \in DOMAIN Drained(b, i) : Drained(b, i)[j] = b[k]
           /\ \A e : Ordered(b, e) => Ordered(Drained(b, i), e)
           /\ \A e : Fenced(b, e) => Fenced(Drained(b, i), e)
<1> DEFINE t == Drained(b, i)
<1>1. /\ t \in Seq(StoreType)
      /\ \E u \in [DOMAIN t -> DOMAIN b] : Kept(b, i, t, u)
  BY Removal
<1>2. PICK u \in [DOMAIN t -> DOMAIN b] :
            /\ \A j \in DOMAIN t : t[j] = b[u[j]] /\ u[j] # i
            /\ \A j, k \in DOMAIN t : j < k <=> u[j] < u[k]
            /\ \A k \in DOMAIN b : \/ k = i \/ (\E j \in DOMAIN t : u[j] = k)
                                   \/ b[k] = lwsync /\ \A j \in DOMAIN t : k < u[j]
  BY <1>1 DEF Kept
<1>3. DOMAIN t = 1 .. Len(t) /\ DOMAIN b = 1 .. Len(b) /\ Len(t) \in Nat /\ Len(b) \in Nat /\ i \in 1 .. Len(b)
  BY <1>1, LenProperties
<1> HIDE DEF t
<1>4. \A j \in DOMAIN t : j \in Int /\ u[j] \in Int /\ u[j] \in DOMAIN b
  BY <1>2, <1>3
(* A barrier after an element that is left is left.                         *)
<1>5. ASSUME NEW j \in DOMAIN t, NEW k \in DOMAIN b, b[k] = lwsync, u[j] < k
      PROVE  \E h \in DOMAIN t : h > j /\ t[h] = lwsync /\ u[h] = k
  <2>1. k # i
    <3>1. i \in 1 .. i
      BY <1>3
    <3> QED BY <1>5, <3>1 DEF Leaves
  <2>2. k \in Int /\ u[j] \in Int
    BY <1>3, <1>4
  <2>3. PICK h \in DOMAIN t : u[h] = k
    BY <1>2, <1>5, <2>1, <2>2
  <2>4. j < h
    BY <1>2, <1>5, <2>3
  <2> QED BY <1>2, <1>4, <1>5, <2>3, <2>4
<1>6. ASSUME NEW j \in DOMAIN t, NEW k \in DOMAIN t, Before(b, u[j], u[k]) PROVE Before(t, j, k)
  <2>1. PICK h \in u[j] .. u[k] : b[h] = lwsync
    BY <1>6 DEF Before
  <2>2. u[j] < u[k] /\ j < k
    BY <1>2, <1>6 DEF Before
  <2>3. h \in DOMAIN b /\ u[j] <= h /\ h <= u[k] /\ h \in Int
    BY <1>3, <1>4, <2>1
  <2>4. CASE h = u[j]
    <3>1. t[j] = lwsync /\ j \in j .. k
      BY <1>2, <1>4, <2>1, <2>2, <2>4
    <3> QED BY <2>2, <3>1 DEF Before
  <2>5. CASE h # u[j]
    <3>1. u[j] < h
      BY <1>4, <2>3, <2>5
    <3>2. PICK g \in DOMAIN t : g > j /\ t[g] = lwsync /\ u[g] = h
      BY <1>5, <2>1, <2>3, <3>1
    <3>3. ~(k < g)
      <4>1. k < g => u[k] < u[g]
        BY <1>2, <3>2
      <4> QED BY <1>4, <2>3, <3>2, <4>1
    <3>4. g \in j .. k
      BY <1>4, <3>2, <3>3
    <3> QED BY <2>2, <3>2, <3>4 DEF Before
  <2> QED BY <2>4, <2>5
<1>7. ASSUME NEW e, Ordered(b, e) PROVE Ordered(t, e)
  <2> SUFFICES ASSUME NEW j \in DOMAIN t, NEW k \in DOMAIN t
               PROVE  /\ Denies(t[j], e) /\ Pages(t[k], e) => Before(t, j, k)
                      /\ Pages(t[j], e) /\ Grants(t[k], e) => Before(t, j, k)
                      /\ Denies(t[j], e) /\ Grants(t[k], e) => Before(t, j, k)
    BY DEF Ordered
  <2>1. t[j] = b[u[j]] /\ t[k] = b[u[k]] /\ u[j] \in DOMAIN b /\ u[k] \in DOMAIN b
    BY <1>2
  <2> QED BY <1>6, <1>7, <2>1 DEF Ordered
<1>8. ASSUME NEW e, Fenced(b, e) PROVE Fenced(t, e)
  <2> SUFFICES ASSUME NEW j \in DOMAIN t, IsTo(t[j], e)
               PROVE  \E k \in DOMAIN t : k > j /\ t[k] = lwsync
    BY DEF Fenced
  <2>1. t[j] = b[u[j]] /\ u[j] \in DOMAIN b
    BY <1>2
  <2>2. PICK k \in DOMAIN b : k > u[j] /\ b[k] = lwsync
    BY <1>8, <2>1 DEF Fenced
  <2> QED BY <1>3, <1>4, <1>5, <2>2
<1>9. \A j \in DOMAIN t : \E k \in DOMAIN b : k # i /\ t[j] = b[k]
  BY <1>2
<1>10. \A k \in DOMAIN b : k = i \/ b[k] = lwsync \/ \E j \in DOMAIN t : t[j] = b[k]
  BY <1>2
<1> QED BY <1>1, <1>7, <1>8, <1>9, <1>10 DEF t


-----------------------------------------------------------------------------
(* Calls                                                                    *)

LEMMA Zero == 0 \in Window /\ Window \subseteq Nat
<1>1. MaxCount \in Counts
  BY CountsAssumption DEF MaxCount
<1>2. MaxCount \in Nat
  BY <1>1, CountsAssumption
<1> QED BY <1>2 DEF Window

LEMMA CountWindow == \A n \in Counts : n \in Nat /\ n # 1 /\ \A w \in Nat : w < n => w \in Window
<1>1. MaxCount \in Counts /\ \A m \in Counts : m <= MaxCount
  BY CountsAssumption DEF MaxCount
<1>2. Counts \subseteq Nat \ {1}
  BY CountsAssumption
<1>3. ASSUME NEW n \in Counts, NEW w \in Nat, w < n PROVE w \in Window
  <2>1. n <= MaxCount /\ n \in Nat /\ MaxCount \in Nat
    BY <1>1, <1>2
  <2>2. MaxCount # 0 /\ w <= MaxCount - 1
    BY <1>3, <2>1
  <2> QED BY <2>1, <2>2 DEF Window
<1> QED BY <1>2, <1>3

LEMMA RequestKinds ==
    ASSUME NEW l \in Liodn, NEW r \in Requests(l)
    PROVE  /\ r.l = l
           /\ \/ r.fn = "config_ppaace" /\ r \in Configs
              \/ r.fn \in {"enable", "disable"} /\ r \in Switches
              \/ /\ r.fn = "config_spaace" /\ r \in Windowed /\ HasWindow(l, r.w)
                 /\ asked[l].page[r.w] = NoPage /\ (r.w = 0 => ~asked[l].v)
              \/ r.fn = "reconfig_subwin" /\ r \in Windowed /\ HasWindow(l, r.w) /\ asked[l].page[r.w] # NoPage
              \/ r.fn = "reconfig_liodn" /\ r \in Windowed /\ r.w = 0 /\ Single(l)
<1>1. CASE r \in [fn : {"config_ppaace"}, l : {l}, cnt : Counts \cap {0}, omiOk : BOOLEAN, w : {0}, rpn : Page]
  BY <1>1 DEF Configs
<1>2. CASE r \in [fn : {"config_ppaace"}, l : {l}, cnt : Counts \ {0}, omiOk : BOOLEAN]
  BY <1>2 DEF Configs
<1>3. CASE r \in [fn : {"enable", "disable"}, l : {l}]
  BY <1>3 DEF Switches
<1>4. CASE r \in {x \in [fn : {"config_spaace"}, l : {l}, w : Window, rpn : Page] :
             /\ HasWindow(l, x.w) /\ asked[l].page[x.w] = NoPage
             /\ x.w = 0 => ~asked[l].v}
  BY <1>4 DEF Windowed
<1>5. CASE r \in {x \in [fn : {"reconfig_subwin"}, l : {l}, w : Window, rpn : Page] :
             HasWindow(l, x.w) /\ asked[l].page[x.w] # NoPage}
  BY <1>5 DEF Windowed
<1>6. CASE r \in [fn : {"reconfig_liodn"}, l : {l}, w : {0}, rpn : Page] /\ Single(l)
  BY <1>6 DEF Windowed
<1> QED BY <1>1, <1>2, <1>3, <1>4, <1>5, <1>6 DEF Requests

(* What a request holds.                                                    *)
LEMMA Fields ==
    ASSUME NEW r
    PROVE  /\ r \in Configs => /\ r.fn = "config_ppaace" /\ r.l \in Liodn /\ r.cnt \in Counts /\ r.omiOk \in BOOLEAN
                               /\ "rpn" \in DOMAIN r => r.cnt = 0
                               /\ r.cnt = 0 => "rpn" \in DOMAIN r /\ r.w = 0 /\ r.rpn \in Page
           /\ r \in Switches => r.fn \in {"enable", "disable"} /\ r.l \in Liodn /\ "rpn" \notin DOMAIN r
           /\ r \in Windowed => /\ r.fn \in {"config_spaace", "reconfig_subwin", "reconfig_liodn"} /\ r.l \in Liodn
                                /\ "rpn" \in DOMAIN r /\ r.w \in Window /\ r.rpn \in Page
<1>1. r \in Configs => /\ r.fn = "config_ppaace" /\ r.l \in Liodn /\ r.cnt \in Counts /\ r.omiOk \in BOOLEAN
                       /\ "rpn" \in DOMAIN r => r.cnt = 0
                       /\ r.cnt = 0 => "rpn" \in DOMAIN r /\ r.w = 0 /\ r.rpn \in Page
  <2>1. CASE r \in [fn : {"config_ppaace"}, l : Liodn, cnt : Counts \cap {0}, omiOk : BOOLEAN, w : {0}, rpn : Page]
    BY <2>1
  <2>2. CASE r \in [fn : {"config_ppaace"}, l : Liodn, cnt : Counts \ {0}, omiOk : BOOLEAN]
    BY <2>2
  <2> QED BY <2>1, <2>2 DEF Configs
<1>2. r \in Switches => r.fn \in {"enable", "disable"} /\ r.l \in Liodn /\ "rpn" \notin DOMAIN r
  BY DEF Switches
<1>3. r \in Windowed => /\ r.fn \in {"config_spaace", "reconfig_subwin", "reconfig_liodn"} /\ r.l \in Liodn
                        /\ "rpn" \in DOMAIN r /\ r.w \in Window /\ r.rpn \in Page
  <2>1. CASE r \in [fn : {"config_spaace", "reconfig_subwin"}, l : Liodn, w : Window, rpn : Page]
    BY <2>1
  <2>2. CASE r \in [fn : {"reconfig_liodn"}, l : Liodn, w : {0}, rpn : Page]
    BY <2>2, Zero
  <2> QED BY <2>1, <2>2 DEF Windowed
<1> QED BY <1>1, <1>2, <1>3

(* Where a core is tells the call it makes.                                 *)
LEMMA WhereConfig ==
    ASSUME NEW c \in Cpu, CallOk(c), pc[c] \in {"config_ppaace", "reserve", "busy", "reserved", "fill", "get_fspi", "allocate"}
    PROVE  req[c] \in Configs
  BY Fields DEF CallOk

LEMMA WhereSwitch ==
    ASSUME NEW c \in Cpu, CallOk(c), pc[c] \in {"enable", "disable", "enable_sync"}
    PROVE  /\ req[c] \in Switches
           /\ pc[c] \in {"enable", "enable_sync"} => req[c].fn = "enable"
           /\ pc[c] = "disable" => req[c].fn = "disable"
  BY Fields DEF CallOk, Waiting

LEMMA WhereWindowed ==
    ASSUME NEW c \in Cpu, CallOk(c),
           pc[c] \in {"config_spaace", "spaace_valid", "reconfig_liodn", "reconfig_subwin", "move", "allow"}
    PROVE  /\ req[c] \in Windowed
           /\ pc[c] \in {"config_spaace", "spaace_valid"} => req[c].fn = "config_spaace"
           /\ pc[c] \in {"reconfig_liodn", "reconfig_subwin", "move", "allow"} => req[c].fn # "config_spaace"
           /\ pc[c] \in {"reconfig_liodn", "reconfig_subwin"} => pc[c] = req[c].fn
  BY Fields DEF CallOk, Waiting

LEMMA ControlInit == ASSUME Init PROVE Control
<1>1. /\ pc = [c \in Cpu |-> "idle"] /\ req = [c \in Cpu |-> [fn |-> "none"]] /\ tmp = [c \in Cpu |-> 0]
      /\ lock = "free" /\ pamu_fspi = 0 /\ calls = 0 /\ raced = {}
      /\ configured = [l \in Liodn |-> <<>>] /\ granted = [l \in Liodn |-> [w \in Window |-> {}]]
      /\ asked = [l \in Liodn |-> NothingAsked]
  BY DEF Init, NothingAsked
<1>2. 0 \in 0 .. NSpaace /\ 0 \in 0 .. MaxCalls
  BY NSpaaceAssumption, MaxCallsAssumption
<1>3. pc = [c \in Cpu |-> pc[c]] /\ tmp \in [Cpu -> 0 .. NSpaace] /\ \A c \in Cpu : pc[c] = "idle"
  BY <1>1, <1>2
<1>4. \A c \in Cpu : CallOk(c) /\ (lock = c <=> pc[c] \in Locked)
  BY <1>1, <1>3, CpuAssumption DEF CallOk, Locked
<1>5. configured \in [Liodn -> Seq(Counts)] /\ granted \in [Liodn -> [Window -> SUBSET Page]]
  BY <1>1
<1>6. /\ NothingAsked \in [v : BOOLEAN, page : [Window -> Page \cup {NoPage}]]
      /\ \A w \in Window : NothingAsked.page[w] = NoPage
  BY DEF NothingAsked
<1>7. /\ asked \in [Liodn -> [v : BOOLEAN, page : [Window -> Page \cup {NoPage}]]]
      /\ \A l \in Liodn, w \in Window : asked[l].page[w] \in granted[l][w] \cup {NoPage}
  BY <1>1, <1>6
<1>8. Solo
  BY <1>3 DEF Solo
<1>9. req = [c \in Cpu |-> req[c]]
  BY <1>1
<1> QED BY <1>1, <1>2, <1>3, <1>4, <1>5, <1>7, <1>8, <1>9 DEF Control

(* A step of a core in its call.                                            *)
Goes(c) ==
    /\ pc[c] # "idle" /\ pc' = [pc EXCEPT ![c] = pc'[c]] /\ req' = req
    /\ calls' = calls /\ granted' = granted /\ raced' = raced
Keeps(c) == tmp' = tmp /\ lock' = lock /\ pamu_fspi' = pamu_fspi /\ (pc'[c] \in Locked <=> pc[c] \in Locked)

LEMMA OthersCall ==
    ASSUME Control, NEW c \in Cpu, NEW d \in Cpu, pc'[d] = pc[d], req'[d] = req[d], tmp'[d] = tmp[d]
    PROVE  CallOk(d)'
<1>1. CallOk(d)
  BY DEF Control
<1> QED BY <1>1 DEF CallOk

LEMMA ControlGoes ==
    ASSUME Control, NEW c \in Cpu, Goes(c), CallOk(c)', configured' = configured, asked' = asked,
           tmp' \in [Cpu -> 0 .. NSpaace], \A d \in Cpu \ {c} : tmp'[d] = tmp[d],
           \A d \in Cpu : lock' = d <=> pc'[d] \in Locked,
           lock' \in Cpu \cup {"free"}, pamu_fspi' \in 0 .. NSpaace
    PROVE  Control'
<1>1. \A d \in Cpu : d # c => pc'[d] = pc[d] /\ req'[d] = req[d]
  BY DEF Control, Goes
<1>2. \A d \in Cpu : CallOk(d)'
  BY <1>1, OthersCall
<1>3. \A d \in Cpu : pc'[d] # "idle" => pc[d] # "idle"
  BY <1>1 DEF Goes
<1>4. Solo'
  BY <1>3 DEF Solo, Goes, Control
<1>5. pc' = [d \in Cpu |-> pc'[d]]
  BY DEF Control, Goes
<1>6. \A d \in Cpu : pc'[d] # "idle" /\ "rpn" \in DOMAIN req'[d] => req'[d].rpn \in granted'[req'[d].l][req'[d].w]
  BY <1>3 DEF Goes, Control
<1> QED BY <1>2, <1>4, <1>5, <1>6 DEF Control, Goes

LEMMA ControlKeeps ==
    ASSUME Control, NEW c \in Cpu, Goes(c), Keeps(c), CallOk(c)', configured' = configured, asked' = asked
    PROVE  Control'
<1>1. \A d \in Cpu : pc'[d] \in Locked <=> pc[d] \in Locked
  BY DEF Control, Goes, Keeps
<1>2. \A d \in Cpu : lock' = d <=> pc'[d] \in Locked
  BY <1>1 DEF Control, Keeps
<1>3. /\ tmp' \in [Cpu -> 0 .. NSpaace] /\ \A d \in Cpu \ {c} : tmp'[d] = tmp[d]
      /\ lock' \in Cpu \cup {"free"} /\ pamu_fspi' \in 0 .. NSpaace
  BY DEF Control, Keeps
<1> QED BY <1>2, <1>3, ControlGoes

LEMMA PcOf == ASSUME Control, NEW c \in Cpu, NEW x PROVE [pc EXCEPT ![c] = x][c] = x
  BY DEF Control

LEMMA ControlLock ==
    ASSUME Control, NEW c \in Cpu, ConfigLock(c) \/ ConfigUnlock(c) PROVE Control'
<1> DEFINE target == pc'[c]
<1>1. /\ Goes(c) /\ configured' = configured /\ asked' = asked /\ tmp' = tmp /\ pamu_fspi' = pamu_fspi
      /\ \A d \in Cpu \ {c} : pc'[d] = pc[d]
  BY PcOf DEF ConfigLock, ConfigUnlock, Goto, Goes, client, outcome, Control
<1>2. CallOk(c)
  BY DEF Control
<1>3. tmp' \in [Cpu -> 0 .. NSpaace] /\ \A d \in Cpu \ {c} : tmp'[d] = tmp[d]
  BY <1>1 DEF Control
<1>4. CASE ConfigLock(c)
  <2>1. pc[c] = "config_ppaace" /\ pc'[c] = "reserve" /\ lock = "free" /\ lock' = c
    BY <1>4, PcOf DEF ConfigLock, Goto
  <2>2. req[c] \in Configs
    BY <1>2, <2>1, WhereConfig
  <2>3. CallOk(c)'
    BY <1>1, <2>1, <2>2 DEF CallOk, Waiting, Goes
  <2>4. \A d \in Cpu : lock' = d <=> pc'[d] \in Locked
    <3>1. \A d \in Cpu : pc[d] \notin Locked
      BY <2>1, CpuAssumption DEF Control
    <3> QED BY <1>1, <2>1, <3>1 DEF Locked
  <2> QED BY <1>1, <1>3, <2>1, <2>3, <2>4, ControlGoes DEF Control
<1>5. CASE ConfigUnlock(c)
  <2>1. pc[c] \in {"busy", "reserved"} /\ pc'[c] = (IF pc[c] = "busy" THEN "idle" ELSE "fill") /\ lock' = "free"
    BY <1>5, PcOf DEF ConfigUnlock, Goto
  <2>2. req[c] \in Configs
    BY <1>2, <2>1, WhereConfig
  <2>3. CallOk(c)'
    BY <1>1, <2>1, <2>2 DEF CallOk, Waiting, Goes
  <2>4. \A d \in Cpu : lock' = d <=> pc'[d] \in Locked
    <3>1. \A d \in Cpu : pc[d] \in Locked => d = c
      BY <2>1 DEF Control, Locked
    <3> QED BY <1>1, <2>1, <3>1, CpuAssumption DEF Locked
  <2> QED BY <1>1, <1>3, <2>1, <2>3, <2>4, ControlGoes DEF Control
<1> QED BY <1>4, <1>5


LEMMA ControlConfig ==
    ASSUME Control, NEW c \in Cpu, ConfigReserve(c) \/ ConfigBadOmi(c) \/ ConfigWindow(c) \/ ConfigSubwindows(c) PROVE Control'
<1>1. /\ Goes(c) /\ configured' = configured /\ asked' = asked
      /\ lock' = lock
  BY PcOf DEF ConfigReserve, ConfigBadOmi, ConfigWindow, ConfigSubwindows, Goto, Goes, client, outcome
<1>2. CallOk(c)
  BY DEF Control
<1>3. CASE ConfigReserve(c)
  <2>1. pc[c] = "reserve" /\ pc'[c] \in {"busy", "reserved"} /\ tmp' = tmp /\ pamu_fspi' = pamu_fspi
    BY <1>3, PcOf DEF ConfigReserve, Goto
  <2>2. CallOk(c)'
    <3>1. req[c] \in Configs
      BY <1>2, <2>1, WhereConfig, Fields
    <3> QED BY <1>1, <1>2, <2>1, <3>1 DEF CallOk, Waiting, Goes
  <2>3. Keeps(c)
    BY <1>1, <2>1 DEF Keeps, Locked
  <2> QED BY <1>1, <2>2, <2>3, ControlKeeps
<1>4. CASE ConfigBadOmi(c)
  <2>1. pc[c] = "fill" /\ pc'[c] = "idle" /\ tmp' = tmp /\ pamu_fspi' = pamu_fspi
    BY <1>4, PcOf DEF ConfigBadOmi, Goto
  <2>2. CallOk(c)'
    <3>1. req[c] \in Configs
      BY <1>2, <2>1, WhereConfig, Fields
    <3> QED BY <1>1, <1>2, <2>1, <3>1 DEF CallOk, Waiting, Goes
  <2>3. Keeps(c)
    BY <1>1, <2>1 DEF Keeps, Locked
  <2> QED BY <1>1, <2>2, <2>3, ControlKeeps
<1>5. CASE ConfigWindow(c)
  <2>1. pc[c] = "fill" /\ pc'[c] = "sync" /\ tmp' = tmp /\ pamu_fspi' = pamu_fspi
    BY <1>5, PcOf DEF ConfigWindow, Goto
  <2>2. CallOk(c)'
    <3>1. req[c] \in Configs
      BY <1>2, <2>1, WhereConfig, Fields
    <3> QED BY <1>1, <1>2, <2>1, <3>1 DEF CallOk, Waiting, Goes
  <2>3. Keeps(c)
    BY <1>1, <2>1 DEF Keeps, Locked
  <2> QED BY <1>1, <2>2, <2>3, ControlKeeps
<1>6. CASE ConfigSubwindows(c)
  <2>1. pc[c] = "fill" /\ req[c].cnt > 0 /\ pc'[c] = "get_fspi" /\ tmp' = tmp /\ pamu_fspi' = pamu_fspi
    BY <1>6, PcOf DEF ConfigSubwindows, Goto
  <2>2. CallOk(c)'
    <3>1. req[c] \in Configs
      BY <1>2, <2>1, WhereConfig, Fields
    <3> QED BY <1>1, <1>2, <2>1, <3>1 DEF CallOk, Waiting, Goes
  <2>3. Keeps(c)
    BY <1>1, <2>1 DEF Keeps, Locked
  <2> QED BY <1>1, <2>2, <2>3, ControlKeeps
<1> QED BY <1>3, <1>4, <1>5, <1>6

LEMMA ControlFspi ==
    ASSUME Control, NEW c \in Cpu, GetFspi(c) \/ Allocate(c) PROVE Control'
<1>1. Goes(c) /\ configured' = configured /\ asked' = asked /\ lock' = lock
  BY PcOf DEF GetFspi, Allocate, Goto, Goes, client, outcome
<1>2. pc[c] \in {"get_fspi", "allocate"} /\ CallOk(c) /\ tmp \in [Cpu -> 0 .. NSpaace] /\ pamu_fspi \in 0 .. NSpaace
  BY DEF Control, GetFspi, Allocate
<1>3. /\ req[c] \in Configs /\ req[c].cnt > 0
      /\ pc[c] = "allocate" => tmp[c] + req[c].cnt - 1 <= NSpaace
  <2>1. req[c] \in Configs
    BY <1>2, WhereConfig
  <2>2. req[c].fn = "config_ppaace"
    BY <2>1, Fields
  <2> QED BY <1>2, <2>1, <2>2, Fields DEF CallOk
<1>4. req[c].cnt \in Nat /\ req[c].cnt # 1 /\ NSpaace \in Nat
  BY <1>3, Fields, CountsAssumption, NSpaaceAssumption
<1>5. pc'[c] \in {"idle", "allocate", "get_fspi", "sync"} /\ \A d \in Cpu : pc'[d] \in Locked <=> pc[d] \in Locked
  <2>1. pc' = [pc EXCEPT ![c] = pc'[c]] /\ pc'[c] \in {"idle", "allocate", "get_fspi", "sync"}
    BY <1>1, PcOf DEF GetFspi, Allocate, Goto, Goes
  <2> QED BY <1>2, <2>1 DEF Locked, Control
<1>6. \A d \in Cpu : lock' = d <=> pc'[d] \in Locked
  BY <1>1, <1>5 DEF Control
<1>7. lock' \in Cpu \cup {"free"}
  BY <1>1 DEF Control
<1>8. CASE GetFspi(c)
  <2>1. /\ tmp' = [tmp EXCEPT ![c] = pamu_fspi] /\ pamu_fspi' = pamu_fspi
        /\ pc'[c] = IF pamu_fspi + req[c].cnt - 1 > NSpaace THEN "idle" ELSE "allocate"
    BY <1>8, PcOf DEF GetFspi, Goto
  <2>2. tmp' \in [Cpu -> 0 .. NSpaace] /\ tmp'[c] = pamu_fspi /\ \A d \in Cpu \ {c} : tmp'[d] = tmp[d]
    BY <1>2, <2>1
  <2>3. pc'[c] = "allocate" => tmp'[c] + req[c].cnt - 1 <= NSpaace
    BY <1>2, <1>4, <2>1, <2>2
  <2>4. CallOk(c)'
    BY <1>1, <1>3, <2>1, <2>3 DEF CallOk, Waiting, Goes
  <2> QED BY <1>1, <1>2, <1>6, <1>7, <2>1, <2>2, <2>4, ControlGoes
<1>9. CASE Allocate(c)
  <2>1. /\ tmp' = tmp /\ pc[c] = "allocate"
        /\ \/ pamu_fspi' = tmp[c] + req[c].cnt - 1 /\ pc'[c] = "sync"
           \/ pamu_fspi' = pamu_fspi /\ pc'[c] = "get_fspi"
    BY <1>9, PcOf DEF Allocate, Goto
  <2>2. pamu_fspi' \in 0 .. NSpaace
    <3>1. tmp[c] \in 0 .. NSpaace
      BY <1>2
    <3> QED BY <1>2, <1>3, <1>4, <2>1, <3>1
  <2>3. CallOk(c)'
    BY <1>1, <1>3, <2>1 DEF CallOk, Waiting, Goes
  <2> QED BY <1>1, <1>2, <1>6, <1>7, <2>1, <2>2, <2>3, ControlGoes
<1> QED BY <1>8, <1>9


LEMMA ControlSwitch ==
    ASSUME Control, NEW c \in Cpu, Enable(c) \/ EnableValid(c) \/ Disable(c) PROVE Control'
<1>1. /\ Goes(c) /\ configured' = configured /\ asked' = asked
      /\ lock' = lock
  BY PcOf DEF Enable, EnableValid, Disable, Goto, Goes, client, outcome
<1>2. CallOk(c)
  BY DEF Control
<1>3. CASE Enable(c)
  <2>1. pc[c] = "enable" /\ pc'[c] \in {"enable_sync", "idle"} /\ tmp' = tmp /\ pamu_fspi' = pamu_fspi
    BY <1>3, PcOf DEF Enable, Goto
  <2>2. CallOk(c)'
    <3>1. req[c] \in Switches /\ req[c].fn = "enable"
      BY <1>2, <2>1, WhereSwitch, Fields
    <3> QED BY <1>1, <1>2, <2>1, <3>1 DEF CallOk, Waiting, Goes
  <2>3. Keeps(c)
    BY <1>1, <2>1 DEF Keeps, Locked
  <2> QED BY <1>1, <2>2, <2>3, ControlKeeps
<1>4. CASE EnableValid(c)
  <2>1. pc[c] = "enable_sync" /\ pc'[c] = "sync" /\ tmp' = tmp /\ pamu_fspi' = pamu_fspi
    BY <1>4, PcOf DEF EnableValid, Goto
  <2>2. CallOk(c)'
    <3>1. req[c] \in Switches /\ req[c].fn = "enable"
      BY <1>2, <2>1, WhereSwitch, Fields
    <3> QED BY <1>1, <1>2, <2>1, <3>1 DEF CallOk, Waiting, Goes
  <2>3. Keeps(c)
    BY <1>1, <2>1 DEF Keeps, Locked
  <2> QED BY <1>1, <2>2, <2>3, ControlKeeps
<1>5. CASE Disable(c)
  <2>1. pc[c] = "disable" /\ pc'[c] = "sync" /\ tmp' = tmp /\ pamu_fspi' = pamu_fspi
    BY <1>5, PcOf DEF Disable, Goto
  <2>2. CallOk(c)'
    <3>1. req[c] \in Switches /\ req[c].fn = "disable"
      BY <1>2, <2>1, WhereSwitch, Fields
    <3> QED BY <1>1, <1>2, <2>1, <3>1 DEF CallOk, Waiting, Goes
  <2>3. Keeps(c)
    BY <1>1, <2>1 DEF Keeps, Locked
  <2> QED BY <1>1, <2>2, <2>3, ControlKeeps
<1> QED BY <1>3, <1>4, <1>5

LEMMA ControlWindow ==
    ASSUME Control, NEW c \in Cpu, SpaaceFill(c) \/ SpaaceValid(c) \/ Reconfig(c) \/ Move(c) \/ Allow(c) PROVE Control'
<1>1. /\ Goes(c) /\ configured' = configured /\ asked' = asked
      /\ lock' = lock
  BY PcOf DEF SpaaceFill, SpaaceValid, Reconfig, Move, Allow, Goto, Goes, client, outcome
<1>2. CallOk(c)
  BY DEF Control
<1>3. CASE SpaaceFill(c)
  <2>1. pc[c] = "config_spaace" /\ pc'[c] = "spaace_valid" /\ tmp' = tmp /\ pamu_fspi' = pamu_fspi
    BY <1>3, PcOf DEF SpaaceFill, Goto
  <2>2. CallOk(c)'
    <3>1. req[c] \in Windowed /\ req[c].fn = "config_spaace"
      BY <1>2, <2>1, WhereWindowed, Fields
    <3> QED BY <1>1, <1>2, <2>1, <3>1 DEF CallOk, Waiting, Goes
  <2>3. Keeps(c)
    BY <1>1, <2>1 DEF Keeps, Locked
  <2> QED BY <1>1, <2>2, <2>3, ControlKeeps
<1>4. CASE SpaaceValid(c)
  <2>1. pc[c] = "spaace_valid" /\ pc'[c] = "sync" /\ tmp' = tmp /\ pamu_fspi' = pamu_fspi
    BY <1>4, PcOf DEF SpaaceValid, Goto
  <2>2. CallOk(c)'
    <3>1. req[c] \in Windowed /\ req[c].fn = "config_spaace"
      BY <1>2, <2>1, WhereWindowed, Fields
    <3> QED BY <1>1, <1>2, <2>1, <3>1 DEF CallOk, Waiting, Goes
  <2>3. Keeps(c)
    BY <1>1, <2>1 DEF Keeps, Locked
  <2> QED BY <1>1, <2>2, <2>3, ControlKeeps
<1>5. CASE Reconfig(c)
  <2>1. pc[c] \in {"reconfig_liodn", "reconfig_subwin"} /\ pc'[c] \in {"sync", "move"} /\ tmp' = tmp /\ pamu_fspi' = pamu_fspi
    BY <1>5, PcOf DEF Reconfig, Goto
  <2>2. CallOk(c)'
    <3>1. req[c] \in Windowed /\ req[c].fn # "config_spaace"
      BY <1>2, <2>1, WhereWindowed, Fields
    <3> QED BY <1>1, <1>2, <2>1, <3>1 DEF CallOk, Waiting, Goes
  <2>3. Keeps(c)
    BY <1>1, <2>1 DEF Keeps, Locked
  <2> QED BY <1>1, <2>2, <2>3, ControlKeeps
<1>6. CASE Move(c)
  <2>1. pc[c] = "move" /\ pc'[c] = "allow" /\ tmp' = tmp /\ pamu_fspi' = pamu_fspi
    BY <1>6, PcOf DEF Move, Goto
  <2>2. CallOk(c)'
    <3>1. req[c] \in Windowed /\ req[c].fn # "config_spaace"
      BY <1>2, <2>1, WhereWindowed, Fields
    <3> QED BY <1>1, <1>2, <2>1, <3>1 DEF CallOk, Waiting, Goes
  <2>3. Keeps(c)
    BY <1>1, <2>1 DEF Keeps, Locked
  <2> QED BY <1>1, <2>2, <2>3, ControlKeeps
<1>7. CASE Allow(c)
  <2>1. pc[c] = "allow" /\ pc'[c] = "sync" /\ tmp' = tmp /\ pamu_fspi' = pamu_fspi
    BY <1>7, PcOf DEF Allow, Goto
  <2>2. CallOk(c)'
    <3>1. req[c] \in Windowed /\ req[c].fn # "config_spaace"
      BY <1>2, <2>1, WhereWindowed, Fields
    <3> QED BY <1>1, <1>2, <2>1, <3>1 DEF CallOk, Waiting, Goes
  <2>3. Keeps(c)
    BY <1>1, <2>1 DEF Keeps, Locked
  <2> QED BY <1>1, <2>2, <2>3, ControlKeeps
<1> QED BY <1>3, <1>4, <1>5, <1>6, <1>7
(* A new call.                                                              *)
Enters(c, l, r) == r \in Requests(l) /\ l \in Liodn \ raced /\ Entered(c, r, r.fn)

LEMMA EntersFacts ==
    ASSUME Control, NEW c \in Cpu, NEW l, NEW r, Enters(c, l, r)
    PROVE  /\ l \in Liodn /\ l \notin raced /\ r.l = l /\ pc[c] = "idle" /\ calls < MaxCalls
           /\ calls' = calls + 1 /\ pc'[c] = r.fn /\ req'[c] = r
           /\ \A d \in Cpu \ {c} : pc'[d] = pc[d] /\ req'[d] = req[d]
           /\ pc' = [d \in Cpu |-> pc'[d]] /\ req' = [d \in Cpu |-> req'[d]]
           /\ raced \subseteq raced' /\ raced' \subseteq raced \cup {l}
           /\ UNCHANGED <<mem, buf, lock, pamu_fspi, tmp, configured, asked>>
           /\ r \in Configs \cup Switches \cup Windowed /\ r.fn # "idle"
<1>1. /\ l \in Liodn /\ l \notin raced /\ r.l = l
      /\ r \in Configs \cup Switches \cup Windowed
  BY RequestKinds DEF Enters
<1>2. r.fn # "idle"
  BY <1>1, Fields
<1>3. Entered(c, r, r.fn)
  BY DEF Enters
<1>4. pc' = [pc EXCEPT ![c] = r.fn] /\ req' = [req EXCEPT ![c] = r]
  BY <1>3 DEF Entered, Goto
<1>5. pc = [d \in Cpu |-> pc[d]] /\ req = [d \in Cpu |-> req[d]]
  BY DEF Control
<1>6. /\ pc'[c] = r.fn /\ req'[c] = r /\ \A d \in Cpu \ {c} : pc'[d] = pc[d] /\ req'[d] = req[d]
      /\ pc' = [d \in Cpu |-> pc'[d]] /\ req' = [d \in Cpu |-> req'[d]]
  BY <1>4, <1>5
<1>7. raced \subseteq raced' /\ raced' \subseteq raced \cup {l}
  BY <1>1, <1>3 DEF Entered
<1> QED BY <1>1, <1>2, <1>3, <1>6, <1>7 DEF Entered, outcome

LEMMA EntersGrants ==
    ASSUME Control, NEW c \in Cpu, NEW l, NEW r, Enters(c, l, r)
    PROVE  /\ granted' \in [Liodn -> [Window -> SUBSET Page]]
           /\ \A k \in Liodn, w \in Window : granted[k][w] \subseteq granted'[k][w]
           /\ "rpn" \in DOMAIN r => r.rpn \in granted'[l][r.w] /\ r.w \in Window /\ r.rpn \in Page
<1>1. r.l = l /\ l \in Liodn /\ r \in Configs \cup Switches \cup Windowed
  BY EntersFacts
<1>2. granted' = IF "rpn" \in DOMAIN r
                 THEN [granted EXCEPT ![r.l][r.w] = @ \cup {r.rpn}] ELSE granted
  BY DEF Enters, Entered
<1>3. granted \in [Liodn -> [Window -> SUBSET Page]]
  BY DEF Control
<1>4. "rpn" \in DOMAIN r => r.w \in Window /\ r.rpn \in Page
  BY <1>1, Fields, Zero
<1>5. CASE "rpn" \in DOMAIN r
  <2> DEFINE x == r.rpn
             w == r.w
             g == [granted EXCEPT ![l][w] = @ \cup {x}]
  <2>1. granted' = g
    BY <1>1, <1>2, <1>5
  <2>2. x \in Page /\ w \in Window
    BY <1>4, <1>5
  <2> HIDE DEF x, w
  <2>3. /\ g \in [Liodn -> [Window -> SUBSET Page]]
        /\ \A k \in Liodn, v \in Window : granted[k][v] \subseteq g[k][v]
        /\ x \in g[l][w]
    BY <1>1, <1>3, <2>2
  <2> QED BY <2>1, <2>2, <2>3 DEF x, w
<1>6. CASE "rpn" \notin DOMAIN r
  BY <1>2, <1>3, <1>6
<1> QED BY <1>5, <1>6

(* Who else works on the device of a new call.                              *)
LEMMA EntersAlone ==
    ASSUME Control, NEW c \in Cpu, NEW l, NEW r, Enters(c, l, r), l \notin raced',
           NEW d \in Cpu, d # c, Works(d, l)
    PROVE  r.fn = "config_ppaace" /\ req[d].fn = "config_ppaace"
<1>1. d \in BusyWith(r.l)
  BY EntersFacts DEF BusyWith, Works
<1>2. raced' = IF \E b \in BusyWith(r.l) :
                      {r.fn, req[b].fn} # {"config_ppaace"}
               THEN raced \cup {r.l} ELSE raced
  BY DEF Enters, Entered
<1>3. r.l = l
  BY EntersFacts
<1>4. {r.fn, req[d].fn} = {"config_ppaace"}
  BY <1>1, <1>2, <1>3
<1> QED BY <1>4

LEMMA ControlEnters ==
    ASSUME Control, NEW c \in Cpu, NEW l, NEW r, Enters(c, l, r)
    PROVE  Control'
<1>1. /\ l \in Liodn /\ l \notin raced /\ r.l = l /\ pc[c] = "idle" /\ calls < MaxCalls
      /\ calls' = calls + 1 /\ pc'[c] = r.fn /\ req'[c] = r
      /\ \A d \in Cpu \ {c} : pc'[d] = pc[d] /\ req'[d] = req[d]
      /\ pc' = [d \in Cpu |-> pc'[d]] /\ req' = [d \in Cpu |-> req'[d]]
      /\ raced \subseteq raced' /\ raced' \subseteq raced \cup {l}
      /\ UNCHANGED <<mem, buf, lock, pamu_fspi, tmp, configured, asked>>
      /\ r \in Configs \cup Switches \cup Windowed /\ r.fn # "idle"
  BY EntersFacts
<1>2. /\ granted' \in [Liodn -> [Window -> SUBSET Page]]
      /\ \A k \in Liodn, w \in Window : granted[k][w] \subseteq granted'[k][w]
      /\ "rpn" \in DOMAIN r => r.rpn \in granted'[l][r.w] /\ r.w \in Window /\ r.rpn \in Page
  BY EntersGrants
<1>3. r.fn \in {"config_ppaace", "enable", "disable", "config_spaace", "reconfig_subwin", "reconfig_liodn"}
  BY <1>1, Fields
<1>4. \A d \in Cpu : CallOk(d)'
  <2> TAKE d \in Cpu
  <2>1. CASE d = c
    BY <1>1, <1>3, <2>1, Fields DEF CallOk, Waiting
  <2>2. CASE d # c
    BY <1>1, <2>2, OthersCall
  <2> QED BY <2>1, <2>2
<1>5. \A d \in Cpu : lock' = d <=> pc'[d] \in Locked
  <2>1. \A d \in Cpu : lock = d <=> pc[d] \in Locked
    BY DEF Control
  <2>2. pc[c] \notin Locked /\ pc'[c] \notin Locked
    BY <1>1, <1>3 DEF Locked
  <2> QED BY <1>1, <2>1, <2>2
<1>6. calls' \in 0 .. MaxCalls /\ raced' \subseteq Liodn
  <2>1. calls \in 0 .. MaxCalls /\ raced \subseteq Liodn
    BY DEF Control
  <2> QED BY <1>1, <2>1, MaxCallsAssumption
<1>7. \A k \in Liodn, w \in Window : asked'[k].page[w] \in granted'[k][w] \cup {NoPage}
  <2>1. \A k \in Liodn, w \in Window : asked[k].page[w] \in granted[k][w] \cup {NoPage}
    BY DEF Control
  <2> QED BY <1>1, <1>2, <2>1
<1>8. ASSUME NEW d \in Cpu, pc'[d] # "idle", "rpn" \in DOMAIN req'[d]
      PROVE  req'[d].rpn \in granted'[req'[d].l][req'[d].w]
  <2>1. CASE d = c
    BY <1>1, <1>2, <1>8, <2>1
  <2>2. CASE d # c
    <3>1. CallOk(d) /\ pc[d] # "idle" /\ "rpn" \in DOMAIN req[d] /\ req'[d] = req[d]
      BY <1>1, <1>8, <2>2 DEF Control
    <3>2. req[d].l \in Liodn /\ req[d].w \in Window
      BY <3>1, Fields, Zero DEF CallOk
    <3>3. req[d].rpn \in granted[req[d].l][req[d].w]
      BY <3>1 DEF Control
    <3> QED BY <1>2, <3>1, <3>2, <3>3
  <2> QED BY <2>1, <2>2
<1>9. Solo'
  <2> SUFFICES ASSUME NEW b \in Cpu, NEW d \in Cpu, b # d, pc'[b] # "idle", pc'[d] # "idle",
                      req'[b].l = req'[d].l, req'[b].l \notin raced'
               PROVE  req'[b].fn = "config_ppaace" /\ req'[d].fn = "config_ppaace"
    BY DEF Solo
  <2>1. CASE b # c /\ d # c
    BY <1>1, <2>1 DEF Control, Solo
  <2>2. CASE b = c
    <3>1. Works(d, l) /\ l \notin raced'
      BY <1>1, <2>2 DEF Works
    <3> QED BY <1>1, <2>2, <3>1, EntersAlone
  <2>3. CASE d = c
    <3>1. Works(b, l) /\ l \notin raced'
      BY <1>1, <2>3 DEF Works
    <3> QED BY <1>1, <2>3, <3>1, EntersAlone
  <2> QED BY <2>1, <2>2, <2>3
<1> QED BY <1>1, <1>2, <1>4, <1>5, <1>6, <1>7, <1>8, <1>9 DEF Control

(* What a call that returns leaves recorded.                                *)
LEMMA Returns ==
    ASSUME Control, NEW c \in Cpu, Return(c)
    PROVE  LET r == req[c] IN
           /\ r.l \in Liodn /\ r \in Configs \cup Switches \cup Windowed
           /\ pc[c] = "sync" /\ buf[c] = <<>> /\ pc'[c] = "idle"
           /\ \A d \in Cpu \ {c} : pc'[d] = pc[d]
           /\ pc' = [d \in Cpu |-> pc'[d]]
           /\ UNCHANGED <<mem, buf, lock, pamu_fspi, req, tmp, calls, granted, raced>>
           /\ \A k \in Liodn \ {r.l} : configured'[k] = configured[k] /\ asked'[k] = asked[k]
           /\ configured' \in [Liodn -> Seq(Counts)]
           /\ configured'[r.l] = (IF r.fn = "config_ppaace" THEN Append(configured[r.l], r.cnt) ELSE configured[r.l])
           /\ asked' \in [Liodn -> [v : BOOLEAN, page : [Window -> Page \cup {NoPage}]]]
           /\ asked'[r.l].v = (CASE r.fn = "enable" -> TRUE [] r.fn = "config_spaace" /\ r.w = 0 -> TRUE
                                 [] r.fn = "disable" -> FALSE [] OTHER -> asked[r.l].v)
           /\ \A w \in Window :
                 asked'[r.l].page[w] = IF "rpn" \in DOMAIN r /\ w = r.w THEN r.rpn ELSE asked[r.l].page[w]
<1> DEFINE r == req[c]
           l == r.l
           p == asked[l].page
           v2 == CASE r.fn = "enable" -> TRUE [] r.fn = "config_spaace" /\ r.w = 0 -> TRUE
                   [] r.fn = "disable" -> FALSE [] OTHER -> asked[l].v
           p2 == IF "rpn" \in DOMAIN r THEN [p EXCEPT ![r.w] = r.rpn] ELSE p
           n == r.cnt
           x == r.rpn
           y == r.w
<1>1. CallOk(c) /\ pc[c] = "sync"
  BY DEF Control, Return
<1>2. r.l \in Liodn /\ r \in Configs \cup Switches \cup Windowed
  BY <1>1, Fields DEF CallOk
<1>3. /\ buf[c] = <<>> /\ pc' = [pc EXCEPT ![c] = "idle"]
      /\ UNCHANGED <<mem, buf, lock, pamu_fspi, req, tmp, calls, granted, raced>>
  BY DEF Return, synced, Goto, client
<1>4. pc'[c] = "idle" /\ (\A d \in Cpu \ {c} : pc'[d] = pc[d]) /\ pc' = [d \in Cpu |-> pc'[d]]
  BY <1>3 DEF Control
<1>5. /\ configured' = IF r.fn = "config_ppaace" THEN [configured EXCEPT ![l] = Append(@, n)] ELSE configured
      /\ asked' = [asked EXCEPT ![l].v = v2, ![l].page = p2]
  BY DEF Return, Succeeded
<1>6. /\ r.fn = "config_ppaace" => n \in Counts
      /\ "rpn" \in DOMAIN r => y \in Window /\ x \in Page
  BY <1>2, Fields, Zero
<1>7. /\ configured \in [Liodn -> Seq(Counts)]
      /\ asked \in [Liodn -> [v : BOOLEAN, page : [Window -> Page \cup {NoPage}]]]
  BY DEF Control
<1>8. p \in [Window -> Page \cup {NoPage}] /\ v2 \in BOOLEAN
  BY <1>2, <1>7
<1>9. /\ p2 \in [Window -> Page \cup {NoPage}]
      /\ \A w \in Window : p2[w] = IF "rpn" \in DOMAIN r /\ w = y THEN x ELSE p[w]
  BY <1>6, <1>8
<1> HIDE DEF v2, p2, n, x, y
<1>10. /\ asked' \in [Liodn -> [v : BOOLEAN, page : [Window -> Page \cup {NoPage}]]]
       /\ asked'[l].v = v2 /\ asked'[l].page = p2
       /\ \A k \in Liodn \ {l} : asked'[k] = asked[k]
  BY <1>2, <1>5, <1>7, <1>8, <1>9
<1>11. /\ configured' \in [Liodn -> Seq(Counts)]
       /\ configured'[l] = (IF r.fn = "config_ppaace" THEN Append(configured[l], n) ELSE configured[l])
       /\ \A k \in Liodn \ {l} : configured'[k] = configured[k]
  BY <1>2, <1>5, <1>6, <1>7
<1> QED BY <1>1, <1>2, <1>3, <1>4, <1>9, <1>10, <1>11 DEF v2, n, x, y

LEMMA ControlReturn ==
    ASSUME Control, NEW c \in Cpu, Return(c) PROVE Control'
<1> DEFINE r == req[c]
<1>1. /\ r.l \in Liodn /\ r \in Configs \cup Switches \cup Windowed
      /\ pc[c] = "sync" /\ pc'[c] = "idle"
      /\ \A d \in Cpu \ {c} : pc'[d] = pc[d]
      /\ pc' = [d \in Cpu |-> pc'[d]]
      /\ UNCHANGED <<mem, buf, lock, pamu_fspi, req, tmp, calls, granted, raced>>
      /\ \A k \in Liodn \ {r.l} : asked'[k] = asked[k]
      /\ configured' \in [Liodn -> Seq(Counts)]
      /\ asked' \in [Liodn -> [v : BOOLEAN, page : [Window -> Page \cup {NoPage}]]]
      /\ \A w \in Window :
            asked'[r.l].page[w] = IF "rpn" \in DOMAIN r /\ w = r.w THEN r.rpn ELSE asked[r.l].page[w]
  BY Returns
<1> HIDE DEF r
<1>2. \A d \in Cpu : CallOk(d)'
  <2> TAKE d \in Cpu
  <2>1. CASE d = c
    BY <1>1, <2>1 DEF CallOk
  <2>2. CASE d # c
    BY <1>1, <2>2, OthersCall
  <2> QED BY <2>1, <2>2
<1>3. \A d \in Cpu : pc'[d] # "idle" => d # c /\ pc[d] # "idle" /\ pc'[d] = pc[d]
  BY <1>1
<1>4. Solo'
  BY <1>1, <1>3 DEF Solo, Control
<1>5. \A d \in Cpu : lock' = d <=> pc'[d] \in Locked
  BY <1>1 DEF Control, Locked
<1>6. \A d \in Cpu : pc'[d] # "idle" /\ "rpn" \in DOMAIN req'[d] => req'[d].rpn \in granted'[req'[d].l][req'[d].w]
  BY <1>1, <1>3 DEF Control
<1>7. "rpn" \in DOMAIN r => r.rpn \in granted[r.l][r.w]
  BY <1>1 DEF Control, r
<1>8. \A k \in Liodn, w \in Window : asked'[k].page[w] \in granted'[k][w] \cup {NoPage}
  <2> TAKE k \in Liodn, w \in Window
  <2>1. asked[k].page[w] \in granted[k][w] \cup {NoPage}
    BY DEF Control
  <2> QED BY <1>1, <1>7, <2>1
<1> QED BY <1>1, <1>2, <1>4, <1>5, <1>6, <1>8 DEF Control

LEMMA ControlDrain ==
    ASSUME Control, NEW c \in Cpu, Drain(c) PROVE Control'
<1>1. UNCHANGED <<lock, pamu_fspi, pc, req, tmp, client, outcome>>
  BY DEF Drain
<1> QED BY <1>1 DEF Control, client, outcome, CallOk, Solo

LEMMA ControlStep ==
    ASSUME Control, NEW c \in Cpu, Step(c) PROVE Control'
<1>1. ASSUME Call(c) PROVE Control'
  <2>1. PICK l \in Liodn \ raced : \E r \in Requests(l) : Entered(c, r, r.fn)
    BY <1>1 DEF Call
  <2>2. PICK r \in Requests(l) : Entered(c, r, r.fn)
    BY <2>1
  <2>3. Enters(c, l, r)
    BY <2>2 DEF Enters
  <2> QED BY <2>3, ControlEnters
<1> QED BY <1>1, ControlDrain, ControlLock, ControlConfig, ControlFspi, ControlSwitch, ControlWindow, ControlReturn
      DEF Step

-----------------------------------------------------------------------------
(* Stores issued                                                            *)

Field == {"af", "twbah", "twbal", "fspi"}

LEMMA StoreKinds ==
    ASSUME NEW t \in StoreType, t # lwsync
    PROVE  /\ t.e \in Entry /\ t.f \in Field /\ t.f # "lwsync"
           /\ t.f = "af" => t.x \in Word
           /\ t.f \in {"twbah", "twbal"} => t.x \in Page
           /\ t.f = "fspi" => t.e \in Primary /\ t.x \in 0 .. NSpaace
<1>1. CASE t \in [e : Entry, f : {"af"}, x : Word]
  BY <1>1 DEF Field
<1>2. CASE t \in [e : Entry, f : {"twbah", "twbal"}, x : Page]
  BY <1>2 DEF Field
<1>3. CASE t \in [e : Primary, f : {"fspi"}, x : 0 .. NSpaace]
  BY <1>3 DEF Field, Entry
<1> QED BY <1>1, <1>2, <1>3 DEF StoreType

LEMMA ToIs ==
    ASSUME NEW t \in StoreType, NEW e, NEW f \in Field
    PROVE  /\ To(t, e, f) <=> IsTo(t, e) /\ t.f = f
           /\ To(t, e, f) => t # lwsync /\ t.f = f /\ t.e = e
<1>1. f # "lwsync" /\ lwsync.f = "lwsync"
  BY DEF Field, lwsync
<1> QED BY <1>1 DEF To, IsTo

LEMMA StoreTypes ==
    /\ lwsync \in StoreType
    /\ \A e \in Entry, x \in Word : Store(e, "af", x) \in StoreType
    /\ \A e \in Entry, x \in Page : Store(e, "twbah", x) \in StoreType /\ Store(e, "twbal", x) \in StoreType
    /\ \A e \in Primary, x \in 0 .. NSpaace : Store(e, "fspi", x) \in StoreType
    /\ \A e, f, x : /\ Store(e, f, x).e = e /\ Store(e, f, x).f = f /\ Store(e, f, x).x = x
                    /\ f # "lwsync" => Store(e, f, x) # lwsync
<1>1. \A e \in Entry, x \in Word : Store(e, "af", x) \in StoreType
  BY DEF Store, StoreType
<1>2. \A e \in Entry, x \in Page : Store(e, "twbah", x) \in StoreType /\ Store(e, "twbal", x) \in StoreType
  BY DEF Store, StoreType
<1>3. \A e \in Primary, x \in 0 .. NSpaace : Store(e, "fspi", x) \in StoreType
  BY DEF Store, StoreType
<1>4. \A e, f, x : Store(e, f, x).e = e /\ Store(e, f, x).f = f /\ Store(e, f, x).x = x
  BY DEF Store
<1>5. lwsync.f = "lwsync"
  BY DEF lwsync
<1>6. lwsync \in StoreType
  BY DEF StoreType
<1> QED BY <1>1, <1>2, <1>3, <1>4, <1>5, <1>6

LEMMA Entries ==
    /\ \A l \in Liodn : Prim(l) \in Primary /\ Prim(l) \in Entry
    /\ \A i \in 0 .. NSpaace - 1 : Sec(i) \in Entry /\ Sec(i) \notin Primary
    /\ \A l, i : Prim(l) # Sec(i)
    /\ \A l, k : Prim(l) = Prim(k) => l = k
    /\ \A i, j : Sec(i) = Sec(j) => i = j
    /\ \A e \in Entry : (\E l \in Liodn : e = Prim(l)) \/ \E i \in 0 .. NSpaace - 1 : e = Sec(i)
    /\ \A c : ppaace(c) = Prim(req[c].l)
  BY DEF Prim, Sec, Primary, Secondary, Entry, ppaace

LEMMA Loads == \A c, e, f : /\ Load(c, e, f) = Seen(buf[c], mem, e, f)
                            /\ af(c, e) = Seen(buf[c], mem, e, "af")
  BY DEF Load, Seen, af

LEMMA LoadsNext == \A c, e, f : Load(c, e, f)' = Seen(buf'[c], mem', e, f)
  BY DEF Load, Seen

(* Stores to other entries make no difference to an entry.                  *)
Same(b, b2, e) ==
    /\ \A j \in DOMAIN b2 : IsTo(b2[j], e) => \E k \in DOMAIN b : b2[j] = b[k]
    /\ \A k \in DOMAIN b : IsTo(b[k], e) => \E j \in DOMAIN b2 : b2[j] = b[k]
    /\ Ordered(b, e) => Ordered(b2, e)
    /\ Fenced(b, e) => Fenced(b2, e)

LEMMA Joined ==
    ASSUME NEW b \in Seq(StoreType), NEW s \in Seq(StoreType)
    PROVE  /\ b \o s \in Seq(StoreType)
           /\ DOMAIN b = 1 .. Len(b) /\ DOMAIN s = 1 .. Len(s) /\ DOMAIN (b \o s) = 1 .. Len(b) + Len(s)
           /\ Len(b) \in Nat /\ Len(s) \in Nat
           /\ \A i \in 1 .. Len(b) : (b \o s)[i] = b[i]
           /\ \A i \in 1 .. Len(s) : (b \o s)[Len(b) + i] = s[i]
           /\ \A i \in 1 .. Len(b) + Len(s) : i \in 1 .. Len(b) \/ \E j \in 1 .. Len(s) : i = Len(b) + j
<1>1. /\ b \o s \in Seq(StoreType) /\ Len(b \o s) = Len(b) + Len(s)
      /\ \A i \in 1 .. Len(b) + Len(s) : (b \o s)[i] = IF i <= Len(b) THEN b[i] ELSE s[i - Len(b)]
  BY ConcatProperties
<1>2. /\ DOMAIN b = 1 .. Len(b) /\ DOMAIN s = 1 .. Len(s) /\ DOMAIN (b \o s) = 1 .. Len(b \o s)
      /\ Len(b) \in Nat /\ Len(s) \in Nat
  BY <1>1, LenProperties
<1> DEFINE a == b \o s
           n == Len(b)
           p == Len(s)
<1>3. /\ n \in Nat /\ p \in Nat
      /\ \A i \in 1 .. n + p : a[i] = IF i <= n THEN b[i] ELSE s[i - n]
  BY <1>1, <1>2
<1> HIDE DEF a, n, p
<1>4. \A i \in 1 .. n : a[i] = b[i]
  BY <1>3
<1>5. ASSUME NEW i \in 1 .. p PROVE a[n + i] = s[i]
  <2>1. n + i \in 1 .. n + p /\ ~(n + i <= n) /\ (n + i) - n = i
    BY <1>3
  <2> QED BY <1>3, <2>1
<1>6. ASSUME NEW i \in 1 .. n + p PROVE i \in 1 .. n \/ \E j \in 1 .. p : i = n + j
  <2>1. CASE i > n
    <3>1. i - n \in 1 .. p /\ i = n + (i - n)
      BY <1>3, <2>1
    <3> QED BY <3>1
  <2> QED BY <1>3, <2>1
<1> QED BY <1>1, <1>2, <1>4, <1>5, <1>6 DEF a, n, p

LEMMA Elsewhere ==
    ASSUME NEW b \in Seq(StoreType), NEW s \in Seq(StoreType), NEW e, \A i \in DOMAIN s : ~IsTo(s[i], e)
    PROVE  /\ Same(b, b \o s, e)
           /\ \A m, f : f \in Field => Seen(b \o s, m, e, f) = Seen(b, m, e, f)
<1> DEFINE a == b \o s
           n == Len(b)
           p == Len(s)
<1>1. /\ a \in Seq(StoreType)
      /\ DOMAIN b = 1 .. n /\ DOMAIN s = 1 .. p /\ DOMAIN a = 1 .. n + p
      /\ n \in Nat /\ p \in Nat
      /\ \A i \in 1 .. n : a[i] = b[i]
      /\ \A i \in 1 .. p : a[n + i] = s[i]
      /\ \A i \in 1 .. n + p : i \in 1 .. n \/ \E j \in 1 .. p : i = n + j
  BY Joined
<1> HIDE DEF a, n, p
<1>2. \A i \in DOMAIN b : i \in DOMAIN a /\ a[i] = b[i] /\ i \in Int
  BY <1>1
<1>3. \A i \in DOMAIN a : IsTo(a[i], e) => i \in DOMAIN b /\ a[i] = b[i]
  <2> SUFFICES ASSUME NEW i \in DOMAIN a, IsTo(a[i], e) PROVE i \in DOMAIN b /\ a[i] = b[i]
    OBVIOUS
  <2>1. i \in 1 .. n \/ \E j \in 1 .. p : i = n + j
    BY <1>1
  <2>2. ASSUME NEW j \in 1 .. p, i = n + j PROVE FALSE
    <3>1. a[i] = s[j] /\ j \in DOMAIN s
      BY <1>1, <2>2
    <3> QED BY <3>1
  <2> QED BY <1>1, <2>1, <2>2
<1>4. \A i \in DOMAIN a : a[i] \in StoreType /\ i \in Int
  BY <1>1, ElementOfSeq, LenProperties
<1>5. \A i \in DOMAIN a : /\ Denies(a[i], e) => IsTo(a[i], e)
                          /\ Pages(a[i], e) => IsTo(a[i], e)
                          /\ Grants(a[i], e) => IsTo(a[i], e)
  <2> TAKE i \in DOMAIN a
  <2>1. a[i] \in StoreType
    BY <1>4
  <2> QED BY <2>1, ToIs DEF Denies, Pages, Grants, Field
<1>6. \A i, j \in DOMAIN b : Before(b, i, j) => Before(a, i, j)
  <2> TAKE i, j \in DOMAIN b
  <2> SUFFICES ASSUME Before(b, i, j) PROVE Before(a, i, j)
    OBVIOUS
  <2>1. PICK k \in i .. j : b[k] = lwsync
    BY DEF Before
  <2>2. k \in DOMAIN b
    BY <1>1, <2>1
  <2> QED BY <1>2, <2>1, <2>2 DEF Before
<1>7. Ordered(b, e) => Ordered(a, e)
  <2> SUFFICES ASSUME Ordered(b, e), NEW i \in DOMAIN a, NEW j \in DOMAIN a
               PROVE  /\ Denies(a[i], e) /\ Pages(a[j], e) => Before(a, i, j)
                      /\ Pages(a[i], e) /\ Grants(a[j], e) => Before(a, i, j)
                      /\ Denies(a[i], e) /\ Grants(a[j], e) => Before(a, i, j)
    BY DEF Ordered
  <2>1. CASE IsTo(a[i], e) /\ IsTo(a[j], e)
    <3>1. i \in DOMAIN b /\ a[i] = b[i] /\ j \in DOMAIN b /\ a[j] = b[j]
      BY <1>3, <2>1
    <3> QED BY <1>6, <3>1 DEF Ordered
  <2> QED BY <1>5, <2>1
<1>8. Fenced(b, e) => Fenced(a, e)
  <2> SUFFICES ASSUME Fenced(b, e), NEW i \in DOMAIN a, IsTo(a[i], e)
               PROVE  \E k \in DOMAIN a : k > i /\ a[k] = lwsync
    BY DEF Fenced
  <2>1. i \in DOMAIN b /\ a[i] = b[i]
    BY <1>3
  <2>2. PICK k \in DOMAIN b : k > i /\ b[k] = lwsync
    BY <2>1 DEF Fenced
  <2> QED BY <1>2, <2>2
<1>9. Same(b, a, e)
  BY <1>2, <1>3, <1>7, <1>8 DEF Same
<1>10. ASSUME NEW m, NEW f \in Field PROVE Seen(a, m, e, f) = Seen(b, m, e, f)
  <2>1. \A i \in DOMAIN a : To(a[i], e, f) => i \in DOMAIN b /\ a[i] = b[i]
    BY <1>3, <1>4, ToIs
  <2>2. CASE \A i \in DOMAIN b : ~To(b[i], e, f)
    <3>1. \A i \in DOMAIN a : ~To(a[i], e, f)
      BY <2>1, <2>2
    <3>2. Seen(a, m, e, f) = m[e][f] /\ Seen(b, m, e, f) = m[e][f]
      BY <2>2, <3>1, SeenNone
    <3> QED BY <3>2
  <2>3. CASE \E i \in DOMAIN b : To(b[i], e, f)
    <3>1. PICK k \in DOMAIN b : /\ To(b[k], e, f) /\ Seen(b, m, e, f) = b[k].x
                                /\ \A j \in DOMAIN b : To(b[j], e, f) => j <= k
      BY <2>3, SeenSome
    <3>2. k \in DOMAIN a /\ To(a[k], e, f) /\ a[k] = b[k] /\ \A j \in DOMAIN a : To(a[j], e, f) => j <= k
      BY <1>2, <2>1, <3>1
    <3>3. a \in Seq(StoreType)
      BY <1>1
    <3>4. Seen(a, m, e, f) = a[k].x
      BY <3>2, <3>3, SeenLast
    <3> QED BY <3>1, <3>2, <3>4
  <2> QED BY <2>2, <2>3
<1> QED BY <1>9, <1>10 DEF a

(* Stores listed one by one.                                                *)
LEMMA Tuple1 ==
    ASSUME NEW x \in StoreType
    PROVE  <<x>> \in Seq(StoreType) /\ Len(<<x>>) = 1 /\ <<x>>[1] = x /\ DOMAIN <<x>> = {1}
  OBVIOUS

LEMMA Tuple2 ==
    ASSUME NEW x \in StoreType, NEW y \in StoreType
    PROVE  /\ <<x, y>> \in Seq(StoreType) /\ Len(<<x, y>>) = 2 /\ <<x, y>>[1] = x /\ <<x, y>>[2] = y
           /\ DOMAIN <<x, y>> = {1, 2}
           /\ <<x>> \o <<y>> = <<x, y>>
<1> DEFINE a == <<x>>
           b == <<y>>
           v == <<x, y>>
           t == a \o b
<1>1. v \in Seq(StoreType) /\ Len(v) = 2 /\ v[1] = x /\ v[2] = y /\ DOMAIN v = {1, 2}
  OBVIOUS
<1>2. a \in Seq(StoreType) /\ b \in Seq(StoreType) /\ Len(a) = 1 /\ Len(b) = 1 /\ a[1] = x /\ b[1] = y
  BY Tuple1
<1> HIDE DEF a, b, v
<1>3. /\ t \in Seq(StoreType) /\ Len(t) = Len(a) + Len(b)
      /\ \A i \in 1 .. Len(a) + Len(b) : t[i] = IF i <= Len(a) THEN a[i] ELSE b[i - Len(a)]
  BY <1>2, ConcatProperties
<1> HIDE DEF t
<1>4. \A i \in 1 .. 2 : t[i] = IF i <= 1 THEN a[i] ELSE b[i - 1]
  BY <1>2, <1>3
<1>5. \A i \in 1 .. 2 : t[i] = v[i]
  BY <1>1, <1>2, <1>4
<1>6. t = v
  BY <1>1, <1>2, <1>3, <1>5, SeqEqual
<1> QED BY <1>1, <1>6 DEF v, t, a, b

LEMMA Tuple3 ==
    ASSUME NEW x \in StoreType, NEW y \in StoreType, NEW z \in StoreType
    PROVE  /\ <<x, y, z>> \in Seq(StoreType) /\ Len(<<x, y, z>>) = 3
           /\ <<x, y, z>>[1] = x /\ <<x, y, z>>[2] = y /\ <<x, y, z>>[3] = z
           /\ DOMAIN <<x, y, z>> = {1, 2, 3}
  OBVIOUS

LEMMA JoinLeft ==
    ASSUME NEW x \in StoreType, NEW y \in StoreType, NEW z \in StoreType
    PROVE  <<x, y>> \o <<z>> = <<x, y, z>>
<1> DEFINE a == <<x, y>>
           b == <<z>>
           v == <<x, y, z>>
           t == a \o b
<1>1. v \in Seq(StoreType) /\ Len(v) = 3 /\ v[1] = x /\ v[2] = y /\ v[3] = z
  BY Tuple3
<1>2. a \in Seq(StoreType) /\ b \in Seq(StoreType) /\ Len(a) = 2 /\ Len(b) = 1 /\ a[1] = x /\ a[2] = y /\ b[1] = z
  BY Tuple1, Tuple2
<1> HIDE DEF a, b, v
<1>3. /\ t \in Seq(StoreType) /\ Len(t) = Len(a) + Len(b)
      /\ \A i \in 1 .. Len(a) + Len(b) : t[i] = IF i <= Len(a) THEN a[i] ELSE b[i - Len(a)]
  BY <1>2, ConcatProperties
<1> HIDE DEF t
<1>4. \A i \in 1 .. 3 : t[i] = IF i <= 2 THEN a[i] ELSE b[i - 2]
  BY <1>2, <1>3
<1>5. \A i \in 1 .. 3 : t[i] = v[i]
  BY <1>1, <1>2, <1>4
<1>6. t = v
  BY <1>1, <1>2, <1>3, <1>5, SeqEqual
<1> QED BY <1>6 DEF v, t, a, b

LEMMA JoinRight ==
    ASSUME NEW x \in StoreType, NEW y \in StoreType, NEW z \in StoreType
    PROVE  <<x>> \o <<y, z>> = <<x, y, z>>
<1> DEFINE a == <<x>>
           b == <<y, z>>
           v == <<x, y, z>>
           t == a \o b
<1>1. v \in Seq(StoreType) /\ Len(v) = 3 /\ v[1] = x /\ v[2] = y /\ v[3] = z
  BY Tuple3
<1>2. a \in Seq(StoreType) /\ b \in Seq(StoreType) /\ Len(a) = 1 /\ Len(b) = 2 /\ a[1] = x /\ b[1] = y /\ b[2] = z
  BY Tuple1, Tuple2
<1> HIDE DEF a, b, v
<1>3. /\ t \in Seq(StoreType) /\ Len(t) = Len(a) + Len(b)
      /\ \A i \in 1 .. Len(a) + Len(b) : t[i] = IF i <= Len(a) THEN a[i] ELSE b[i - Len(a)]
  BY <1>2, ConcatProperties
<1> HIDE DEF t
<1>4. \A i \in 1 .. 3 : t[i] = IF i <= 1 THEN a[i] ELSE b[i - 1]
  BY <1>2, <1>3
<1>5. \A i \in 1 .. 3 : t[i] = v[i]
  BY <1>1, <1>2, <1>4
<1>6. t = v
  BY <1>1, <1>2, <1>3, <1>5, SeqEqual
<1> QED BY <1>6 DEF v, t, a, b

LEMMA Tuple4 ==
    ASSUME NEW x \in StoreType, NEW y \in StoreType, NEW z \in StoreType, NEW w \in StoreType
    PROVE  /\ <<x, y, z, w>> \in Seq(StoreType)
           /\ <<x, y, z, w>>[1] = x /\ <<x, y, z, w>>[2] = y /\ <<x, y, z, w>>[3] = z /\ <<x, y, z, w>>[4] = w
           /\ DOMAIN <<x, y, z, w>> = {1, 2, 3, 4}
           /\ <<x, y, z>> \o <<w>> = <<x, y, z, w>>
<1> DEFINE a == <<x, y, z>>
           b == <<w>>
           v == <<x, y, z, w>>
           t == a \o b
<1>1. /\ v \in Seq(StoreType) /\ Len(v) = 4 /\ v[1] = x /\ v[2] = y /\ v[3] = z /\ v[4] = w
      /\ DOMAIN v = {1, 2, 3, 4}
  OBVIOUS
<1>2. /\ a \in Seq(StoreType) /\ b \in Seq(StoreType) /\ Len(a) = 3 /\ Len(b) = 1
      /\ a[1] = x /\ a[2] = y /\ a[3] = z /\ b[1] = w
  BY Tuple1, Tuple3
<1> HIDE DEF a, b, v
<1>3. /\ t \in Seq(StoreType) /\ Len(t) = Len(a) + Len(b)
      /\ \A i \in 1 .. Len(a) + Len(b) : t[i] = IF i <= Len(a) THEN a[i] ELSE b[i - Len(a)]
  BY <1>2, ConcatProperties
<1> HIDE DEF t
<1>4. \A i \in 1 .. 4 : t[i] = IF i <= 3 THEN a[i] ELSE b[i - 3]
  BY <1>2, <1>3
<1>5. \A i \in 1 .. 4 : t[i] = v[i]
  BY <1>1, <1>2, <1>4
<1>6. t = v
  BY <1>1, <1>2, <1>3, <1>5, SeqEqual
<1> QED BY <1>1, <1>6 DEF v, t, a, b

LEMMA Append1 ==
    ASSUME NEW b \in Seq(StoreType), NEW x \in StoreType
    PROVE  b \o <<x>> = Append(b, x) /\ Append(b, x) \in Seq(StoreType)
  OBVIOUS

LEMMA Append2 ==
    ASSUME NEW b \in Seq(StoreType), NEW x \in StoreType, NEW y \in StoreType
    PROVE  b \o <<x, y>> = Append(Append(b, x), y) /\ Append(Append(b, x), y) \in Seq(StoreType)
<1>1. b \o (<<x>> \o <<y>>) = (b \o <<x>>) \o <<y>>
  BY Tuple1, ConcatAssociative
<1>2. b \o <<x>> = Append(b, x) /\ Append(b, x) \in Seq(StoreType)
  BY Append1
<1>3. Append(b, x) \o <<y>> = Append(Append(b, x), y) /\ Append(Append(b, x), y) \in Seq(StoreType)
  BY <1>2, Append1
<1> QED BY <1>1, <1>2, <1>3, Tuple2

LEMMA Append3 ==
    ASSUME NEW b \in Seq(StoreType), NEW x \in StoreType, NEW y \in StoreType, NEW z \in StoreType
    PROVE  b \o <<x, y, z>> = Append(Append(Append(b, x), y), z) /\ Append(Append(Append(b, x), y), z) \in Seq(StoreType)
<1>1. <<x, y>> \in Seq(StoreType) /\ <<z>> \in Seq(StoreType) /\ <<x, y>> \o <<z>> = <<x, y, z>>
  <2>1. <<x, y>> \in Seq(StoreType)
    BY Tuple2
  <2>2. <<z>> \in Seq(StoreType)
    BY Tuple1
  <2>3. <<x, y>> \o <<z>> = <<x, y, z>>
    BY JoinLeft
  <2> QED BY <2>1, <2>2, <2>3
<1>2. b \o (<<x, y>> \o <<z>>) = (b \o <<x, y>>) \o <<z>>
  BY <1>1, ConcatAssociative
<1> DEFINE a == Append(Append(b, x), y)
<1>3. b \o <<x, y>> = a /\ a \in Seq(StoreType)
  BY Append2
<1>4. a \o <<z>> = Append(a, z) /\ Append(a, z) \in Seq(StoreType)
  BY <1>3, Append1
<1> QED BY <1>1, <1>2, <1>3, <1>4

Four(x, y, z, w) == <<x, y, z, w>>

LEMMA Append4 ==
    \A b, x, y, z, w :
       b \in Seq(StoreType) /\ x \in StoreType /\ y \in StoreType /\ z \in StoreType /\ w \in StoreType =>
           /\ b \o Four(x, y, z, w) = Append(Append(Append(Append(b, x), y), z), w)
           /\ Append(Append(Append(Append(b, x), y), z), w) \in Seq(StoreType)
<1> SUFFICES ASSUME NEW b \in Seq(StoreType),
                    NEW x \in StoreType, NEW y \in StoreType, NEW z \in StoreType, NEW w \in StoreType
             PROVE  /\ b \o Four(x, y, z, w) = Append(Append(Append(Append(b, x), y), z), w)
                    /\ Append(Append(Append(Append(b, x), y), z), w) \in Seq(StoreType)
  OBVIOUS
<1>1. <<x, y, z>> \in Seq(StoreType) /\ <<w>> \in Seq(StoreType) /\ <<x, y, z>> \o <<w>> = <<x, y, z, w>>
  BY Tuple1, Tuple3, Tuple4
<1>2. b \o (<<x, y, z>> \o <<w>>) = (b \o <<x, y, z>>) \o <<w>>
  BY <1>1, ConcatAssociative
<1> DEFINE a == Append(Append(Append(b, x), y), z)
<1>3. b \o <<x, y, z>> = a /\ a \in Seq(StoreType)
  BY Append3
<1>4. a \o <<w>> = Append(a, w) /\ Append(a, w) \in Seq(StoreType)
  BY <1>3, Append1
<1> QED BY <1>1, <1>2, <1>3, <1>4 DEF Four


-----------------------------------------------------------------------------
(* What the tables hold                                                     *)

LEMMA Typed ==
    ASSUME Tables, NEW c \in Cpu
    PROVE  /\ buf[c] \in Seq(StoreType) /\ DOMAIN buf[c] = 1 .. Len(buf[c]) /\ Len(buf[c]) \in Nat
           /\ \A i \in DOMAIN buf[c] : buf[c][i] \in StoreType
           /\ \A e \in Entry : /\ mem[e] \in EntryType /\ mem[e].af \in Word /\ mem[e].fspi \in 0 .. NSpaace
                               /\ Load(c, e, "af") \in Word /\ af(c, e) = Load(c, e, "af")
<1>1. buf \in [Cpu -> Seq(StoreType)] /\ mem \in [Entry -> EntryType]
  BY DEF Tables
<1>2. buf[c] \in Seq(StoreType) /\ DOMAIN buf[c] = 1 .. Len(buf[c]) /\ Len(buf[c]) \in Nat
  BY <1>1, LenProperties
<1>3. \A i \in DOMAIN buf[c] : buf[c][i] \in StoreType
  BY <1>2, ElementOfSeq
<1>4. \A e \in Entry : mem[e] \in EntryType /\ mem[e].af \in Word /\ mem[e].fspi \in 0 .. NSpaace
  BY <1>1 DEF EntryType
<1>5. ASSUME NEW e \in Entry PROVE Load(c, e, "af") \in Word /\ af(c, e) = Load(c, e, "af")
  <2>1. "af" \in Field
    BY DEF Field
  <2>2. \A i \in DOMAIN buf[c] : To(buf[c][i], e, "af") => buf[c][i].x \in Word
    <3> TAKE i \in DOMAIN buf[c]
    <3>1. buf[c][i] \in StoreType
      BY <1>3
    <3> QED BY <2>1, <3>1, ToIs, StoreKinds
  <2>3. Seen(buf[c], mem, e, "af") \in Word
    BY <1>2, <1>4, <2>2, SeenOneOf
  <2> QED BY <2>3, Loads
<1> QED BY <1>2, <1>3, <1>4, <1>5

LEMMA Counted ==
    ASSUME Control, NEW l \in Liodn, configured[l] # <<>>
    PROVE  configured[l] \in Seq(Counts) /\ configured[l][1] \in Counts /\ configured[l][1] \in Nat /\ Len(configured[l]) \in Nat \ {0}
<1>1. configured[l] \in Seq(Counts)
  BY DEF Control
<1>2. Len(configured[l]) \in Nat \ {0}
  BY <1>1, EmptySeq
<1>3. 1 \in 1 .. Len(configured[l])
  BY <1>2
<1>4. configured[l][1] \in Counts
  BY <1>1, <1>3, ElementOfSeq
<1> QED BY <1>1, <1>2, <1>4, CountsAssumption

(* The entry of a device in use: nobody moves its secondary entries.        *)
LEMMA LiveSees ==
    ASSUME Tables, NEW l \in Liodn, Live(l), NEW c \in Cpu
    PROVE  /\ configured[l] # <<>>
           /\ Load(c, Prim(l), "fspi") = First(l) /\ Load(c, Prim(l), "af").wse = TRUE
           /\ mem[Prim(l)].af.wse = TRUE
           /\ Works(c, l) => ~Owner(c)
           /\ \A i \in DOMAIN buf[c] : IsTo(buf[c][i], Prim(l)) =>
                 buf[c][i].f # "fspi" /\ (buf[c][i].f = "af" => buf[c][i].x.wse = TRUE)
<1>1. Settled(l)
  BY DEF Tables
<1>2. /\ buf[c] \in Seq(StoreType) /\ \A i \in DOMAIN buf[c] : buf[c][i] \in StoreType
      /\ mem[Prim(l)].af \in Word /\ Prim(l) \in Entry
  BY Typed, Entries
<1>3. "fspi" \in Field /\ "af" \in Field
  BY DEF Field
<1>4. \A i \in DOMAIN buf[c] : ~To(buf[c][i], Prim(l), "fspi")
  BY <1>1, <1>2, <1>3, ToIs DEF Settled
<1>5. Load(c, Prim(l), "fspi") = First(l)
  BY <1>4, SeenNone, Loads DEF First
<1>6. \A i \in DOMAIN buf[c] : IsTo(buf[c][i], Prim(l)) =>
         buf[c][i].f # "fspi" /\ (buf[c][i].f = "af" => buf[c][i].x.wse = TRUE)
  <2> SUFFICES ASSUME NEW i \in DOMAIN buf[c], IsTo(buf[c][i], Prim(l))
               PROVE  buf[c][i].f # "fspi" /\ (buf[c][i].f = "af" => buf[c][i].x.wse = TRUE)
    OBVIOUS
  <2>1. buf[c][i].f # "fspi" /\ (buf[c][i].f = "af" => buf[c][i].x.wse)
    BY <1>1 DEF Settled
  <2>2. buf[c][i].f = "af" => buf[c][i].x \in Word
    BY <1>2, StoreKinds DEF IsTo
  <2> QED BY <2>1, <2>2 DEF Word
<1>7. mem[Prim(l)].af.wse = TRUE
  BY <1>1, <1>2 DEF Settled, Word
<1>8. \A i \in DOMAIN buf[c] : To(buf[c][i], Prim(l), "af") => buf[c][i].x \in {x \in Word : x.wse = TRUE}
  BY <1>2, <1>3, <1>6, ToIs, StoreKinds
<1>9. mem[Prim(l)]["af"] \in {x \in Word : x.wse = TRUE}
  BY <1>2, <1>7
<1>10. Seen(buf[c], mem, Prim(l), "af") \in {x \in Word : x.wse = TRUE}
  BY <1>2, <1>8, <1>9, SeenOneOf
<1> QED BY <1>1, <1>5, <1>6, <1>7, <1>10, Loads DEF Settled

(* The entry a call for a window is about.                                  *)
LEMMA WindowEntry ==
    ASSUME Control, Tables, NEW c \in Cpu, InWindow(c)
    PROVE  LET l == req[c].l
               w == req[c].w IN
           /\ req[c] \in Windowed /\ l \in Liodn /\ w \in Window /\ w \in Nat /\ req[c].rpn \in Page
           /\ Live(l) /\ configured[l] # <<>> /\ configured[l][1] \in Nat
           /\ req[c].rpn \in granted[l][w]
           /\ w \in Windows(l)
           /\ paace(c) = EntryOf(l, w) /\ EntryOf(l, w) \in Entry
           /\ w = 0 => EntryOf(l, w) = Prim(l)
           /\ w > 0 => /\ w < configured[l][1] /\ LiveMulti(l) /\ EntryOf(l, w) = Sec(First(l) + w - 1)
                       /\ First(l) + w - 1 \in 0 .. NSpaace - 1 /\ First(l) + w - 1 < First(l) + configured[l][1] - 1
<1> DEFINE l == req[c].l
           w == req[c].w
<1>1. req[c] \in Windowed
  BY Fields DEF Control, CallOk, InWindow
<1>2. l \in Liodn /\ w \in Window /\ w \in Nat /\ req[c].rpn \in Page /\ "rpn" \in DOMAIN req[c]
  BY <1>1, Fields, Zero
<1>3. Live(l)
  BY DEF Live
<1>4. configured[l] # <<>> /\ configured[l][1] \in Nat
  BY <1>2, <1>3, Counted DEF Tables, Settled
<1>5. w = 0 \/ w < configured[l][1]
  BY DEF Tables
<1>6. req[c].rpn \in granted[l][w]
  BY <1>2 DEF Control, InWindow
<1>7. w \in Windows(l)
  BY <1>2, <1>4, <1>5 DEF Windows, HasWindow
<1>8. Load(c, Prim(l), "fspi") = First(l)
  BY <1>2, <1>3, LiveSees
<1>9. paace(c) = EntryOf(l, w)
  BY <1>8, Entries DEF paace, EntryOf, Prim, Sec, ppaace
<1>10. CASE w = 0
  BY <1>1, <1>2, <1>3, <1>4, <1>6, <1>7, <1>9, <1>10, Entries DEF EntryOf
<1>11. CASE w # 0
  <2> HIDE DEF l, w
  <2>1. w < configured[l][1] /\ w > 0
    BY <1>2, <1>5, <1>11
  <2>2. LiveMulti(l)
    BY <1>2, <1>3, <1>4, <2>1 DEF LiveMulti, Multi
  <2>3. First(l) + configured[l][1] - 1 <= pamu_fspi
    BY <1>2, <2>2 DEF Tables, Claims
  <2>4. pamu_fspi \in 0 .. NSpaace /\ NSpaace \in Nat
    BY NSpaaceAssumption DEF Control
  <2>5. First(l) \in 0 .. NSpaace
    BY <1>2, Typed, Entries DEF First
  <2>6. First(l) + w - 1 \in 0 .. NSpaace - 1 /\ First(l) + w - 1 < First(l) + configured[l][1] - 1
    BY <1>2, <1>4, <2>1, <2>3, <2>4, <2>5
  <2>7. EntryOf(l, w) = Sec(First(l) + w - 1)
    BY <1>11 DEF EntryOf
  <2> QED BY <1>1, <1>2, <1>3, <1>4, <1>6, <1>7, <1>9, <2>1, <2>2, <2>6, <2>7, Entries DEF l, w
<1> QED BY <1>10, <1>11

(* A core that stores while it works.                                       *)
Issues(c, s) ==
    /\ s \in Seq(StoreType) /\ buf' = [buf EXCEPT ![c] = buf[c] \o s] /\ mem' = mem
Clean(c, s) == \A i \in DOMAIN s : IsTo(s[i], Prim(req[c].l)) => s[i].f # "fspi" /\ (s[i].f = "af" => s[i].x.wse)
Own(c, s) ==
    \A i \in DOMAIN s : s[i] # lwsync =>
       \/ s[i].e = Prim(req[c].l)
       \/ InWindow(c) /\ pc'[c] \in Active /\ req[c].w > 0 /\ s[i].e = EntryOf(req[c].l, req[c].w)
Works2(c) == Goes(c) /\ configured' = configured /\ asked' = asked

LEMMA Buffers ==
    ASSUME Tables, NEW c \in Cpu, NEW s, Issues(c, s)
    PROVE  /\ buf' \in [Cpu -> Seq(StoreType)] /\ buf'[c] = buf[c] \o s
           /\ \A d \in Cpu \ {c} : buf'[d] = buf[d]
           /\ \A i \in DOMAIN buf'[c] : (\E j \in DOMAIN buf[c] : buf'[c][i] = buf[c][j]) \/ (\E j \in DOMAIN s : buf'[c][i] = s[j])
<1> DEFINE b == buf[c]
           a == b \o s
<1>1. b \in Seq(StoreType) /\ s \in Seq(StoreType)
  BY DEF Tables, Issues
<1>2. buf \in [Cpu -> Seq(StoreType)] /\ buf' = [buf EXCEPT ![c] = a]
  BY DEF Tables, Issues
<1>3. /\ a \in Seq(StoreType)
      /\ DOMAIN b = 1 .. Len(b) /\ DOMAIN s = 1 .. Len(s) /\ DOMAIN a = 1 .. Len(b) + Len(s)
      /\ \A i \in 1 .. Len(b) : a[i] = b[i]
      /\ \A i \in 1 .. Len(s) : a[Len(b) + i] = s[i]
      /\ \A i \in 1 .. Len(b) + Len(s) : i \in 1 .. Len(b) \/ \E j \in 1 .. Len(s) : i = Len(b) + j
  BY <1>1, Joined
<1> HIDE DEF a, b
<1>4. buf' \in [Cpu -> Seq(StoreType)] /\ buf'[c] = a /\ \A d \in Cpu \ {c} : buf'[d] = buf[d]
  BY <1>2, <1>3
<1>5. ASSUME NEW i \in DOMAIN a PROVE (\E j \in DOMAIN b : a[i] = b[j]) \/ (\E j \in DOMAIN s : a[i] = s[j])
  <2>1. i \in 1 .. Len(b) \/ \E j \in 1 .. Len(s) : i = Len(b) + j
    BY <1>3
  <2>2. CASE i \in 1 .. Len(b)
    BY <1>3, <2>2
  <2>3. ASSUME NEW j \in 1 .. Len(s), i = Len(b) + j PROVE a[i] = s[j] /\ j \in DOMAIN s
    BY <1>3, <2>3
  <2> QED BY <2>1, <2>2, <2>3
<1> QED BY <1>4, <1>5 DEF a, b

LEMMA GoesFacts ==
    ASSUME Control, NEW c \in Cpu, Works2(c)
    PROVE  /\ \A d \in Cpu \ {c} : pc'[d] = pc[d]
           /\ \A d \in Cpu : req'[d] = req[d] /\ (pc'[d] # "idle" => pc[d] # "idle")
           /\ \A d \in Cpu : InWindow(d)' => InWindow(d)
           /\ \A d \in Cpu, l \in Liodn : Works(d, l)' => Works(d, l)
           /\ \A d \in Cpu \ {c} : /\ Owner(d)' <=> Owner(d)
                                   /\ Holds(d)' <=> Holds(d)
           /\ \A l \in Liodn : Live(l)' => Live(l)
<1>1. \A d \in Cpu \ {c} : pc'[d] = pc[d]
  BY DEF Control, Works2, Goes
<1>2. req' = req /\ raced' = raced /\ configured' = configured /\ pc[c] # "idle"
  BY DEF Works2, Goes
<1>3. \A d \in Cpu : InWindow(d)' => InWindow(d)
  BY <1>1, <1>2 DEF InWindow
<1>4. \A l \in Liodn : Live(l)' => Live(l)
  BY <1>2, <1>3 DEF Live
<1> QED BY <1>1, <1>2, <1>3, <1>4 DEF Works, Owner, Holds

LEMMA SettledKept ==
    ASSUME Control, Tables, NEW c \in Cpu, NEW s, Works2(c), Issues(c, s), Own(c, s),
           Live(req[c].l) => ~Owner(c)' /\ Clean(c, s),
           NEW l \in Liodn, Live(l)'
    PROVE  Settled(l)'
<1>1. Live(l) /\ Settled(l)
  BY GoesFacts DEF Tables
<1>2. /\ buf'[c] = buf[c] \o s /\ \A d \in Cpu \ {c} : buf'[d] = buf[d]
      /\ \A i \in DOMAIN buf'[c] : (\E j \in DOMAIN buf[c] : buf'[c][i] = buf[c][j]) \/ (\E j \in DOMAIN s : buf'[c][i] = s[j])
  BY Buffers
<1>3. configured'[l] # <<>> /\ mem'[Prim(l)].af.wse
  BY <1>1 DEF Settled, Issues, Works2
<1>4. ASSUME NEW d \in Cpu, Works(d, l)' PROVE ~Owner(d)'
  <2>1. Works(d, l)
    BY <1>4, GoesFacts
  <2>2. CASE d = c
    BY <1>1, <2>1, <2>2 DEF Works
  <2>3. CASE d # c
    BY <1>1, <2>1, <2>3, GoesFacts DEF Settled
  <2> QED BY <2>2, <2>3
<1>5. ASSUME NEW d \in Cpu, NEW i \in DOMAIN buf'[d], IsTo(buf'[d][i], Prim(l))
      PROVE  buf'[d][i].f # "fspi" /\ (buf'[d][i].f = "af" => buf'[d][i].x.wse)
  <2>1. CASE \E j \in DOMAIN buf[d] : buf'[d][i] = buf[d][j]
    BY <1>1, <1>5, <2>1 DEF Settled
  <2>2. CASE d = c /\ \E j \in DOMAIN s : buf'[c][i] = s[j]
    <3>1. PICK j \in DOMAIN s : buf'[c][i] = s[j]
      BY <2>2
    <3>2. s[j] # lwsync /\ s[j].e = Prim(l)
      BY <1>5, <2>2, <3>1 DEF IsTo
    <3>3. l = req[c].l
      <4>1. CASE s[j].e = Prim(req[c].l)
        BY <3>2, <4>1, Entries
      <4>2. CASE InWindow(c) /\ req[c].w > 0 /\ s[j].e = EntryOf(req[c].l, req[c].w)
        BY <3>2, <4>2, WindowEntry, Entries
      <4> QED BY <3>2, <4>1, <4>2 DEF Own
    <3> QED BY <1>1, <1>5, <2>2, <3>1, <3>3 DEF Clean
  <2> QED BY <1>2, <2>1, <2>2
<1> QED BY <1>3, <1>4, <1>5 DEF Settled, Prim

LEMMA OriginsKept ==
    ASSUME Control, Tables, NEW c \in Cpu, NEW s, Works2(c), Issues(c, s), Own(c, s),
           InWindow(c) /\ pc[c] \in Active => pc'[c] \in Active
    PROVE  Origins'
<1> SUFFICES ASSUME NEW d \in Cpu, NEW n \in 0 .. NSpaace - 1, Pending(d, Sec(n))'
             PROVE  /\ InWindow(d)' /\ pc'[d] \in Active /\ req'[d].w > 0
                    /\ Sec(n) = EntryOf(req[d].l, req[d].w)'
  BY DEF Origins, Sec
<1>1. /\ buf'[c] = buf[c] \o s /\ \A b \in Cpu \ {c} : buf'[b] = buf[b]
      /\ \A i \in DOMAIN buf'[c] : (\E j \in DOMAIN buf[c] : buf'[c][i] = buf[c][j]) \/ (\E j \in DOMAIN s : buf'[c][i] = s[j])
  <2>1. /\ buf'[c] = buf[c] \o s /\ \A b \in Cpu \ {c} : buf'[b] = buf[b]
    BY Buffers
  <2>2. \A x \in DOMAIN buf'[c] : (\E y \in DOMAIN buf[c] : buf'[c][x] = buf[c][y]) \/ (\E y \in DOMAIN s : buf'[c][x] = s[y])
    BY Buffers
  <2> QED BY <2>1, <2>2
<1>2. req' = req /\ mem' = mem /\ \A b \in Cpu \ {c} : pc'[b] = pc[b]
  BY GoesFacts DEF Works2, Goes, Issues
<1>3. \A l, w : EntryOf(l, w)' = EntryOf(l, w)
  BY <1>2 DEF EntryOf, First, Prim, Sec
<1>4. PICK i \in DOMAIN buf'[d] : IsTo(buf'[d][i], Sec(n))
  BY DEF Pending, Sec
<1>5. \A x \in Active : x # "idle"
  BY DEF Active
<1>6. CASE \E j \in DOMAIN buf[d] : buf'[d][i] = buf[d][j]
  <2>1. Pending(d, Sec(n))
    BY <1>4, <1>6 DEF Pending
  <2>2. InWindow(d) /\ pc[d] \in Active /\ req[d].w > 0 /\ Sec(n) = EntryOf(req[d].l, req[d].w)
    BY <2>1 DEF Tables, Origins
  <2>3. pc'[d] \in Active
    BY <1>2, <2>2
  <2>4. InWindow(d)'
    BY <1>2, <1>5, <2>2, <2>3 DEF InWindow
  <2> QED BY <1>2, <1>3, <2>2, <2>3, <2>4
<1>7. CASE d = c /\ \E j \in DOMAIN s : buf'[c][i] = s[j]
  <2>1. PICK j \in DOMAIN s : buf'[c][i] = s[j]
    BY <1>7
  <2>2. s[j] # lwsync /\ s[j].e = Sec(n)
    BY <1>4, <1>7, <2>1 DEF IsTo
  <2>3. InWindow(c) /\ pc'[c] \in Active /\ req[c].w > 0 /\ s[j].e = EntryOf(req[c].l, req[c].w)
    BY <2>2, Entries DEF Own
  <2>4. InWindow(c)'
    BY <1>2, <1>5, <2>3 DEF InWindow
  <2> QED BY <1>2, <1>3, <1>7, <2>2, <2>3, <2>4
<1> QED BY <1>1, <1>6, <1>7

(* A step that hands out no secondary entry.                                *)
LEMMA ClaimsKept ==
    ASSUME Control, Tables, NEW c \in Cpu, Works2(c), mem' = mem, pamu_fspi' = pamu_fspi,
           ~Holds(c)', \A d \in Cpu \ {c} : tmp'[d] = tmp[d]
    PROVE  Claims' /\ Fresh'
<1>1. req' = req /\ configured' = configured
  BY DEF Works2, Goes
<1>2. \A d \in Cpu : Holds(d)' => d # c /\ Holds(d) /\ tmp'[d] = tmp[d]
  BY GoesFacts
<1>3. \A l \in Liodn : LiveMulti(l)' => LiveMulti(l)
  BY <1>1, GoesFacts DEF LiveMulti, Multi
<1>4. \A l \in Liodn : First(l)' = First(l)
  BY DEF First, Prim
<1>5. Claims
  BY DEF Tables
<1>6. \A d \in Cpu : Holds(d)' => tmp'[d] + req'[d].cnt - 1 <= pamu_fspi'
  BY <1>1, <1>2, <1>5 DEF Claims
<1>7. \A l \in Liodn : LiveMulti(l)' => First(l)' + configured'[l][1] - 1 <= pamu_fspi'
  BY <1>1, <1>3, <1>4, <1>5 DEF Claims
<1>8. \A d, b \in Cpu : Holds(d)' /\ Holds(b)' /\ d # b => Apart(tmp'[d], req'[d].cnt, tmp'[b], req'[b].cnt)
  BY <1>1, <1>2, <1>5 DEF Claims
<1>9. \A l, k \in Liodn : LiveMulti(l)' /\ LiveMulti(k)' /\ l # k =>
         Apart(First(l)', configured'[l][1], First(k)', configured'[k][1])
  BY <1>1, <1>3, <1>4, <1>5 DEF Claims
<1>10. \A l \in Liodn, d \in Cpu : LiveMulti(l)' /\ Holds(d)' =>
          Apart(First(l)', configured'[l][1], tmp'[d], req'[d].cnt)
  BY <1>1, <1>2, <1>3, <1>4, <1>5 DEF Claims
<1>11. Claims'
  BY <1>6, <1>7, <1>8, <1>9, <1>10 DEF Claims, Apart
<1>12. Fresh'
  BY <1>1, <1>2 DEF Tables, Fresh, Sec
<1> QED BY <1>11, <1>12

LEMMA TablesKept ==
    ASSUME Control, Tables, NEW c \in Cpu, NEW s, Works2(c), Issues(c, s), Own(c, s),
           Live(req[c].l) => ~Owner(c)' /\ Clean(c, s),
           InWindow(c) /\ pc[c] \in Active => pc'[c] \in Active,
           pamu_fspi' = pamu_fspi, ~Holds(c)', \A d \in Cpu \ {c} : tmp'[d] = tmp[d]
    PROVE  Tables'
<1>1. mem' \in [Entry -> EntryType] /\ buf' \in [Cpu -> Seq(StoreType)]
  BY Buffers DEF Issues, Tables
<1>2. \A l \in Liodn : Live(l)' => Settled(l)'
  BY SettledKept
<1>3. \A d \in Cpu : InWindow(d)' => req'[d].w = 0 \/ req'[d].w < configured'[req'[d].l][1]
  BY GoesFacts DEF Tables, Works2, Goes
<1>4. Claims' /\ Fresh'
  BY ClaimsKept DEF Issues
<1>5. Origins'
  BY OriginsKept
<1> QED BY <1>1, <1>2, <1>3, <1>4, <1>5 DEF Tables

-----------------------------------------------------------------------------
(* The steps of a call, and the tables                                      *)

LEMMA WordEdits ==
    ASSUME NEW x \in Word
    PROVE  /\ [x EXCEPT !.v = TRUE] \in Word /\ [x EXCEPT !.v = FALSE] \in Word
           /\ [x EXCEPT !.ap = TRUE] \in Word /\ [x EXCEPT !.ap = FALSE] \in Word
           /\ [x EXCEPT !.mw = TRUE] \in Word /\ [x EXCEPT !.wse = TRUE] \in Word
           /\ [x EXCEPT !.v = TRUE].wse = x.wse /\ [x EXCEPT !.v = FALSE].wse = x.wse
           /\ [x EXCEPT !.ap = TRUE].wse = x.wse /\ [x EXCEPT !.ap = FALSE].wse = x.wse
  BY DEF Word

LEMMA OwnerNotLive ==
    ASSUME Control, Tables, NEW c \in Cpu, Owner(c)
    PROVE  req[c].l \in Liodn /\ ~Live(req[c].l) /\ req[c] \in Configs /\ ~InWindow(c)
<1>1. CallOk(c) /\ pc[c] # "idle"
  BY DEF Control, Owner
<1>2. req[c] \in Configs
  BY <1>1, Fields DEF CallOk, Owner
<1>3. req[c].l \in Liodn /\ ~InWindow(c)
  BY <1>2, Fields DEF InWindow
<1>4. Works(c, req[c].l)
  BY <1>1 DEF Works
<1> QED BY <1>2, <1>3, <1>4, LiveSees

(* A step of c in its call on l that issues the stores s.                   *)
Quietly(c, s) ==
    /\ Works2(c) /\ Issues(c, s) /\ Own(c, s)
    /\ (Live(req[c].l) => ~Owner(c)' /\ Clean(c, s))
    /\ (InWindow(c) /\ pc[c] \in Active => pc'[c] \in Active)

LEMMA NoStores ==
    ASSUME Control, Tables, NEW c \in Cpu, buf' = buf, mem' = mem
    PROVE  Issues(c, <<>>) /\ Own(c, <<>>) /\ Clean(c, <<>>)
<1>1. buf \in [Cpu -> Seq(StoreType)] /\ buf[c] \o <<>> = buf[c] /\ <<>> \in Seq(StoreType)
  BY ConcatEmptySeq DEF Tables
<1>2. DOMAIN <<>> = {}
  OBVIOUS
<1>3. buf' = [buf EXCEPT ![c] = buf[c] \o <<>>]
  BY <1>1
<1> QED BY <1>1, <1>2, <1>3 DEF Issues, Own, Clean

LEMMA OneStore ==
    ASSUME Control, Tables, NEW c \in Cpu, req[c].l \in Liodn, NEW x \in Word,
           Issue(c, SetAF(ppaace(c), x)), mem' = mem,
           Live(req[c].l) => x.wse
    PROVE  LET s == <<Store(Prim(req[c].l), "af", x)>> IN
           /\ Issues(c, s) /\ Own(c, s) /\ (Live(req[c].l) => Clean(c, s))
           /\ buf'[c] = Append(buf[c], Store(Prim(req[c].l), "af", x))
<1> DEFINE t == Store(Prim(req[c].l), "af", x)
           s == <<t>>
<1>1. t \in StoreType /\ t.e = Prim(req[c].l) /\ t.f = "af" /\ t.x = x
  BY StoreTypes, Entries
<1>2. Issue(c, <<t>>)
  BY Entries DEF SetAF
<1> HIDE DEF t
<1>3. s \in Seq(StoreType) /\ DOMAIN s = {1} /\ s[1] = t
  BY <1>1, Tuple1
<1>4. Issues(c, s)
  BY <1>2, <1>3 DEF Issue, Issues
<1>5. Own(c, s) /\ (Live(req[c].l) => Clean(c, s))
  BY <1>1, <1>3 DEF Own, Clean
<1>6. buf'[c] = buf[c] \o s
  BY <1>4, Buffers
<1>7. buf'[c] = Append(buf[c], t)
  BY <1>1, <1>6, Append1, Typed
<1> QED BY <1>4, <1>5, <1>7 DEF t

LEMMA ReserveStep ==
    ASSUME Control, Tables, NEW c \in Cpu, ConfigReserve(c)
    PROVE  LET l == req[c].l
               e == Prim(l) IN
           /\ Works2(c) /\ l \in Liodn /\ mem' = mem /\ req[c] \in Configs /\ pc[c] = "reserve"
           /\ pamu_fspi' = pamu_fspi /\ tmp' = tmp
           /\ \/ pc'[c] = "busy" /\ Load(c, e, "af").wse /\ buf' = buf /\ Quietly(c, <<>>)
              \/ /\ pc'[c] = "reserved" /\ ~Load(c, e, "af").wse
                 /\ Quietly(c, <<Store(e, "af", [Load(c, e, "af") EXCEPT !.wse = TRUE])>>)
                 /\ buf'[c] = Append(buf[c], Store(e, "af", [Load(c, e, "af") EXCEPT !.wse = TRUE]))
<1> DEFINE l == req[c].l
           e == Prim(l)
           x == [Load(c, e, "af") EXCEPT !.wse = TRUE]
<1>1. pc[c] = "reserve" /\ mem' = mem /\ tmp' = tmp /\ pamu_fspi' = pamu_fspi /\ CallOk(c)
  BY DEF ConfigReserve, Control
<1>2. req[c] \in Configs /\ l \in Liodn
  BY <1>1, WhereConfig, Fields
<1>3. Works2(c)
  BY <1>1, PcOf DEF ConfigReserve, Goto, Goes, Works2, client, outcome
<1>4. ~InWindow(c)
  BY <1>2, Fields DEF InWindow
<1>5. e = ppaace(c) /\ e \in Entry /\ af(c, ppaace(c)) = Load(c, e, "af") /\ Load(c, e, "af") \in Word
  BY <1>2, Entries, Typed
<1>6. CASE Load(c, e, "af").wse
  <2>1. pc'[c] = "busy" /\ buf' = buf
    BY <1>5, <1>6, PcOf DEF ConfigReserve, Goto
  <2>2. ~Owner(c)'
    BY <2>1 DEF Owner
  <2> QED BY <1>1, <1>2, <1>3, <1>4, <1>6, <2>1, <2>2, NoStores DEF Quietly
<1>7. CASE ~Load(c, e, "af").wse
  <2>1. pc'[c] = "reserved" /\ Issue(c, SetAF(ppaace(c), x))
    BY <1>5, <1>7, PcOf DEF ConfigReserve, Goto
  <2>2. ~Live(l)
    BY <1>2, <1>7, LiveSees
  <2>3. x \in Word
    BY <1>5, WordEdits
  <2> HIDE DEF x
  <2>4. LET s == <<Store(e, "af", x)>> IN
        /\ Issues(c, s) /\ Own(c, s)
        /\ buf'[c] = Append(buf[c], Store(e, "af", x))
    BY <1>1, <1>2, <2>1, <2>2, <2>3, OneStore
  <2> QED BY <1>1, <1>2, <1>3, <1>4, <1>7, <2>1, <2>2, <2>4 DEF Quietly, x
<1> QED BY <1>6, <1>7

LEMMA LockStep ==
    ASSUME Control, Tables, NEW c \in Cpu, ConfigLock(c) \/ ConfigUnlock(c) \/ GetFspi(c) \/ Enable(c)
    PROVE  /\ Works2(c) /\ req[c].l \in Liodn /\ mem' = mem /\ buf' = buf /\ Quietly(c, <<>>)
           /\ pamu_fspi' = pamu_fspi /\ \A d \in Cpu \ {c} : tmp'[d] = tmp[d]
           /\ \/ pc[c] = "config_ppaace" /\ pc'[c] = "reserve" /\ tmp' = tmp /\ req[c] \in Configs
              \/ pc[c] = "busy" /\ pc'[c] = "idle" /\ tmp' = tmp /\ req[c] \in Configs
              \/ pc[c] = "reserved" /\ pc'[c] = "fill" /\ tmp' = tmp /\ req[c] \in Configs /\ buf[c] = <<>>
              \/ pc[c] = "get_fspi" /\ pc'[c] \in {"idle", "allocate"} /\ req[c] \in Configs
              \/ /\ pc[c] = "enable" /\ req[c] \in Switches /\ req[c].fn = "enable" /\ tmp' = tmp
                 /\ pc'[c] = IF Load(c, Prim(req[c].l), "af").wse THEN "enable_sync" ELSE "idle"
<1> DEFINE l == req[c].l
<1>1. /\ mem' = mem /\ buf' = buf /\ pamu_fspi' = pamu_fspi /\ CallOk(c)
      /\ \A d \in Cpu \ {c} : tmp'[d] = tmp[d]
  BY DEF ConfigLock, ConfigUnlock, GetFspi, Enable, Control
<1>2. \/ pc[c] = "config_ppaace" /\ pc'[c] = "reserve" /\ tmp' = tmp
      \/ pc[c] = "busy" /\ pc'[c] = "idle" /\ tmp' = tmp
      \/ pc[c] = "reserved" /\ pc'[c] = "fill" /\ tmp' = tmp /\ buf[c] = <<>>
      \/ pc[c] = "get_fspi" /\ pc'[c] \in {"idle", "allocate"}
      \/ pc[c] = "enable" /\ tmp' = tmp /\ pc'[c] = IF af(c, ppaace(c)).wse THEN "enable_sync" ELSE "idle"
  <2>1. CASE ConfigLock(c)
    BY <2>1, PcOf DEF ConfigLock, Goto
  <2>2. CASE ConfigUnlock(c)
    BY <2>2, PcOf DEF ConfigUnlock, Goto, synced
  <2>3. CASE GetFspi(c)
    BY <2>3, PcOf DEF GetFspi, Goto
  <2>4. CASE Enable(c)
    BY <2>4, PcOf DEF Enable, Goto
  <2> QED BY <2>1, <2>2, <2>3, <2>4
<1>3. Works2(c)
  <2>1. \E x : Goto(c, x)
    BY DEF ConfigLock, ConfigUnlock, GetFspi, Enable
  <2>2. pc' = [pc EXCEPT ![c] = pc'[c]]
    BY <2>1, PcOf DEF Goto
  <2> QED BY <1>2, <2>2 DEF ConfigLock, ConfigUnlock, GetFspi, Enable, Goes, Works2, client, outcome
<1>4. \/ req[c] \in Configs /\ pc[c] # "enable"
      \/ req[c] \in Switches /\ req[c].fn = "enable" /\ pc[c] = "enable"
  BY <1>1, <1>2, WhereConfig, WhereSwitch
<1>5. l \in Liodn /\ ~InWindow(c)
  BY <1>4, Fields DEF InWindow
<1>6. af(c, ppaace(c)) = Load(c, Prim(l), "af")
  BY <1>5, Entries, Typed
<1>7. Owner(c)' => Owner(c)
  BY <1>2, <1>3, <1>4 DEF Owner
<1>8. Live(l) => ~Owner(c)'
  BY <1>5, <1>7, OwnerNotLive
<1>9. Quietly(c, <<>>)
  BY <1>1, <1>3, <1>5, <1>8, NoStores DEF Quietly
<1> QED BY <1>1, <1>2, <1>3, <1>4, <1>5, <1>6, <1>9

LEMMA SwitchStep ==
    ASSUME Control, Tables, NEW c \in Cpu, EnableValid(c) \/ Disable(c)
    PROVE  LET l == req[c].l
               e == Prim(l) IN
           /\ Works2(c) /\ l \in Liodn /\ mem' = mem /\ req[c] \in Switches /\ pc'[c] = "sync"
           /\ pamu_fspi' = pamu_fspi /\ tmp' = tmp
           /\ \/ /\ pc[c] = "enable_sync" /\ req[c].fn = "enable" /\ buf[c] = <<>>
                 /\ Quietly(c, <<Store(e, "af", [Load(c, e, "af") EXCEPT !.v = TRUE])>>)
                 /\ buf'[c] = Append(buf[c], Store(e, "af", [Load(c, e, "af") EXCEPT !.v = TRUE]))
              \/ /\ pc[c] = "disable" /\ req[c].fn = "disable"
                 /\ Quietly(c, <<Store(e, "af", [Load(c, e, "af") EXCEPT !.v = FALSE])>>)
                 /\ buf'[c] = Append(buf[c], Store(e, "af", [Load(c, e, "af") EXCEPT !.v = FALSE]))
<1> DEFINE l == req[c].l
           e == Prim(l)
           x == [Load(c, e, "af") EXCEPT !.v = TRUE]
           y == [Load(c, e, "af") EXCEPT !.v = FALSE]
<1>1. /\ mem' = mem /\ tmp' = tmp /\ pamu_fspi' = pamu_fspi /\ CallOk(c) /\ pc'[c] = "sync"
      /\ (pc[c] = "enable_sync" /\ buf[c] = <<>>) \/ pc[c] = "disable"
  BY PcOf DEF EnableValid, Disable, Control, Goto, synced
<1>2. /\ req[c] \in Switches /\ l \in Liodn
      /\ pc[c] = "enable_sync" => req[c].fn = "enable"
      /\ pc[c] = "disable" => req[c].fn = "disable"
  BY <1>1, WhereSwitch, Fields
<1>3. Works2(c)
  BY <1>1, PcOf DEF EnableValid, Disable, Goto, Goes, Works2, client, outcome
<1>4. ~InWindow(c) /\ ~Owner(c)'
  BY <1>1, <1>2, <1>3, Fields DEF InWindow, Owner, Works2, Goes
<1>5. e = ppaace(c) /\ e \in Entry /\ af(c, ppaace(c)) = Load(c, e, "af") /\ Load(c, e, "af") \in Word
  BY <1>2, Entries, Typed
<1>6. x \in Word /\ y \in Word /\ (Live(l) => x.wse /\ y.wse)
  <2> DEFINE z == Load(c, e, "af")
  <2>1. z \in Word /\ (Live(l) => z.wse = TRUE)
    BY <1>2, <1>5, LiveSees
  <2> HIDE DEF z
  <2>2. /\ [z EXCEPT !.v = TRUE] \in Word /\ [z EXCEPT !.v = FALSE] \in Word
        /\ [z EXCEPT !.v = TRUE].wse = z.wse /\ [z EXCEPT !.v = FALSE].wse = z.wse
    BY <2>1, WordEdits
  <2> QED BY <2>1, <2>2 DEF z
<1>7. CASE EnableValid(c)
  <2>1. pc[c] = "enable_sync" /\ Issue(c, SetAF(ppaace(c), x)) /\ buf[c] = <<>>
    BY <1>5, <1>7 DEF EnableValid, synced
  <2> HIDE DEF x, y
  <2>2. LET s == <<Store(e, "af", x)>> IN
        /\ Issues(c, s) /\ Own(c, s) /\ (Live(l) => Clean(c, s))
        /\ buf'[c] = Append(buf[c], Store(e, "af", x))
    BY <1>1, <1>2, <1>6, <2>1, OneStore
  <2>3. Quietly(c, <<Store(e, "af", x)>>)
    BY <1>3, <1>4, <2>2 DEF Quietly
  <2> QED BY <1>1, <1>2, <1>3, <2>1, <2>2, <2>3 DEF x
<1>8. CASE Disable(c)
  <2>1. pc[c] = "disable" /\ Issue(c, SetAF(ppaace(c), y))
    BY <1>5, <1>8 DEF Disable
  <2> HIDE DEF x, y
  <2>2. LET s == <<Store(e, "af", y)>> IN
        /\ Issues(c, s) /\ Own(c, s) /\ (Live(l) => Clean(c, s))
        /\ buf'[c] = Append(buf[c], Store(e, "af", y))
    BY <1>1, <1>2, <1>6, <2>1, OneStore
  <2>3. Quietly(c, <<Store(e, "af", y)>>)
    BY <1>3, <1>4, <2>2 DEF Quietly
  <2> QED BY <1>1, <1>2, <1>3, <2>1, <2>2, <2>3 DEF y
<1> QED BY <1>7, <1>8

LEMMA RetypeStep ==
    ASSUME Control, Tables, NEW c \in Cpu, ConfigBadOmi(c) \/ ConfigSubwindows(c)
    PROVE  LET l == req[c].l
               e == Prim(l) IN
           /\ Works2(c) /\ l \in Liodn /\ mem' = mem /\ req[c] \in Configs /\ pc[c] = "fill"
           /\ pc'[c] \in {"idle", "get_fspi"} /\ (pc'[c] = "get_fspi" => req[c].cnt > 0)
           /\ pamu_fspi' = pamu_fspi /\ tmp' = tmp
           /\ Quietly(c, <<Store(e, "af", Load(c, e, "af"))>>)
           /\ buf'[c] = Append(buf[c], Store(e, "af", Load(c, e, "af")))
<1> DEFINE l == req[c].l
           e == Prim(l)
           x == Load(c, e, "af")
<1>1. /\ mem' = mem /\ tmp' = tmp /\ pamu_fspi' = pamu_fspi /\ CallOk(c) /\ pc[c] = "fill"
      /\ pc'[c] \in {"idle", "get_fspi"} /\ (pc'[c] = "get_fspi" => req[c].cnt > 0)
  BY PcOf DEF ConfigBadOmi, ConfigSubwindows, Control, Goto
<1>2. req[c] \in Configs /\ l \in Liodn /\ ~Live(l) /\ ~InWindow(c)
  BY <1>1, OwnerNotLive DEF Owner
<1>3. Works2(c)
  BY <1>1, PcOf DEF ConfigBadOmi, ConfigSubwindows, Goto, Goes, Works2, client, outcome
<1>4. e = ppaace(c) /\ e \in Entry /\ af(c, ppaace(c)) = x /\ x \in Word
  BY <1>2, Entries, Typed
<1>5. Issue(c, SetAF(ppaace(c), x))
  BY <1>4 DEF ConfigBadOmi, ConfigSubwindows, Retyped
<1> HIDE DEF x
<1>6. LET s == <<Store(e, "af", x)>> IN
      /\ Issues(c, s) /\ Own(c, s)
      /\ buf'[c] = Append(buf[c], Store(e, "af", x))
  BY <1>1, <1>2, <1>4, <1>5, OneStore
<1>7. Quietly(c, <<Store(e, "af", x)>>)
  BY <1>2, <1>3, <1>6 DEF Quietly
<1> QED BY <1>1, <1>2, <1>3, <1>6, <1>7 DEF x

LEMMA PrimaryStores ==
    ASSUME Control, Tables, NEW c \in Cpu, req[c].l \in Liodn, ~Live(req[c].l), ~InWindow(c),
           NEW s \in Seq(StoreType), Issue(c, s), mem' = mem, Works2(c),
           \A i \in DOMAIN s : s[i].e = Prim(req[c].l)
    PROVE  Quietly(c, s)
  BY DEF Quietly, Issue, Issues, Own

LEMMA ConfigWindowStep ==
    ASSUME Control, Tables, NEW c \in Cpu, ConfigWindow(c)
    PROVE  LET l == req[c].l
               e == Prim(l)
               x == Load(c, e, "af")
               p == req[c].rpn
               s == <<Store(e, "af", x), Store(e, "twbah", p), Store(e, "twbal", p),
                      Store(e, "af", [x EXCEPT !.ap = TRUE])>> IN
           /\ Works2(c) /\ l \in Liodn /\ mem' = mem /\ req[c] \in Configs /\ pc[c] = "fill" /\ pc'[c] = "sync"
           /\ req[c].cnt = 0 /\ p \in Page
           /\ pamu_fspi' = pamu_fspi /\ tmp' = tmp /\ Quietly(c, s)
           /\ buf'[c] = Append(Append(Append(Append(buf[c], Store(e, "af", x)), Store(e, "twbah", p)),
                                      Store(e, "twbal", p)), Store(e, "af", [x EXCEPT !.ap = TRUE]))
<1> DEFINE l == req[c].l
           e == Prim(l)
           x == Load(c, e, "af")
           p == req[c].rpn
           t1 == Store(e, "af", x)
           t2 == Store(e, "twbah", p)
           t3 == Store(e, "twbal", p)
           t4 == Store(e, "af", [x EXCEPT !.ap = TRUE])
           s == <<t1, t2, t3, t4>>
<1>1. /\ mem' = mem /\ tmp' = tmp /\ pamu_fspi' = pamu_fspi /\ CallOk(c) /\ pc[c] = "fill" /\ pc'[c] = "sync"
      /\ req[c].cnt = 0
  BY PcOf DEF ConfigWindow, Control, Goto
<1>2. req[c] \in Configs /\ l \in Liodn /\ ~Live(l) /\ ~InWindow(c)
  BY <1>1, OwnerNotLive DEF Owner
<1>3. p \in Page
  BY <1>1, <1>2, Fields
<1>4. Works2(c)
  BY <1>1, PcOf DEF ConfigWindow, Goto, Goes, Works2, client, outcome
<1>5. e = ppaace(c) /\ e \in Entry /\ af(c, ppaace(c)) = x /\ x \in Word /\ [x EXCEPT !.ap = TRUE] \in Word
  BY <1>2, Entries, Typed, WordEdits
<1>6. /\ t1 \in StoreType /\ t2 \in StoreType /\ t3 \in StoreType /\ t4 \in StoreType
      /\ t1.e = e /\ t2.e = e /\ t3.e = e /\ t4.e = e
  BY <1>3, <1>5, StoreTypes
<1>7. Issue(c, (<<t1>> \o <<t2, t3>>) \o <<t4>>)
  BY <1>5 DEF ConfigWindow, Retyped, SetAF, SetPage
<1> HIDE DEF t1, t2, t3, t4
<1>8. s \in Seq(StoreType) /\ (\A i \in DOMAIN s : s[i].e = e)
  BY <1>6, Tuple4
<1>9. <<t1>> \o <<t2, t3>> = <<t1, t2, t3>>
  BY <1>6, JoinRight
<1>10. <<t1, t2, t3>> \o <<t4>> = s
  BY <1>6, Tuple4
<1>11. Issue(c, s)
  BY <1>7, <1>9, <1>10
<1>12. Quietly(c, s)
  BY <1>1, <1>2, <1>4, <1>8, <1>11, PrimaryStores
<1>13. buf'[c] = buf[c] \o s
  BY <1>12, Buffers DEF Quietly
<1>14. buf'[c] = Append(Append(Append(Append(buf[c], t1), t2), t3), t4)
  <2>1. buf[c] \in Seq(StoreType)
    BY Typed
  <2>2. buf[c] \o Four(t1, t2, t3, t4) = Append(Append(Append(Append(buf[c], t1), t2), t3), t4)
    BY <1>6, <2>1, Append4
  <2> QED BY <1>13, <2>2 DEF Four
<1> QED BY <1>1, <1>2, <1>3, <1>4, <1>12, <1>14 DEF t1, t2, t3, t4

LEMMA AllocateStep ==
    ASSUME Control, Tables, NEW c \in Cpu, Allocate(c)
    PROVE  LET l == req[c].l
               e == Prim(l)
               x == Load(c, e, "af")
               s == <<Store(e, "af", [x EXCEPT !.mw = TRUE]), Store(e, "fspi", tmp[c])>> IN
           /\ Works2(c) /\ l \in Liodn /\ mem' = mem /\ req[c] \in Configs /\ pc[c] = "allocate"
           /\ tmp' = tmp /\ req[c].cnt > 0 /\ req[c].cnt \in Nat /\ tmp[c] \in 0 .. NSpaace /\ tmp[c] + req[c].cnt - 1 <= NSpaace
           /\ \/ /\ pamu_fspi = tmp[c] /\ pamu_fspi' = tmp[c] + req[c].cnt - 1 /\ pc'[c] = "sync" /\ Quietly(c, s)
                 /\ buf'[c] = Append(Append(buf[c], Store(e, "af", [x EXCEPT !.mw = TRUE])), Store(e, "fspi", tmp[c]))
              \/ pamu_fspi' = pamu_fspi /\ pc'[c] = "get_fspi" /\ buf' = buf /\ Quietly(c, <<>>)
<1> DEFINE l == req[c].l
           e == Prim(l)
           x == Load(c, e, "af")
           t1 == Store(e, "af", [x EXCEPT !.mw = TRUE])
           t2 == Store(e, "fspi", tmp[c])
           s == <<t1, t2>>
<1>1. mem' = mem /\ tmp' = tmp /\ CallOk(c) /\ pc[c] = "allocate" /\ pc'[c] \in {"sync", "get_fspi"}
  BY PcOf DEF Allocate, Control, Goto
<1>2. req[c] \in Configs /\ l \in Liodn /\ ~Live(l) /\ ~InWindow(c)
  BY <1>1, OwnerNotLive DEF Owner
<1>3. req[c].cnt > 0 /\ req[c].cnt \in Nat /\ tmp[c] \in 0 .. NSpaace /\ tmp[c] + req[c].cnt - 1 <= NSpaace
  <2>1. req[c].cnt \in Counts /\ req[c].fn = "config_ppaace"
    BY <1>2, Fields
  <2>2. req[c].cnt > 0 /\ tmp[c] + req[c].cnt - 1 <= NSpaace
    BY <1>1, <1>2, <2>1, Fields DEF CallOk
  <2> QED BY <2>1, <2>2, CountsAssumption DEF Control
<1>4. Works2(c)
  BY <1>1, PcOf DEF Allocate, Goto, Goes, Works2, client, outcome
<1>5. e = ppaace(c) /\ e \in Entry /\ e \in Primary /\ af(c, ppaace(c)) = x /\ x \in Word /\ [x EXCEPT !.mw = TRUE] \in Word
  BY <1>2, Entries, Typed, WordEdits
<1>6. CASE pamu_fspi = tmp[c]
  <2>1. t1 \in StoreType /\ t2 \in StoreType /\ t1.e = e /\ t2.e = e
    BY <1>3, <1>5, StoreTypes
  <2>2. /\ Issue(c, <<t1>> \o <<t2>>) /\ pc'[c] = "sync" /\ pamu_fspi' = tmp[c] + req[c].cnt - 1
    BY <1>5, <1>6, PcOf DEF Allocate, SetAF, Goto
  <2> HIDE DEF t1, t2
  <2>3. s \in Seq(StoreType) /\ <<t1>> \o <<t2>> = s /\ DOMAIN s = {1, 2} /\ s[1] = t1 /\ s[2] = t2
    BY <2>1, Tuple2
  <2>4. Quietly(c, s)
    BY <1>1, <1>2, <1>4, <2>1, <2>2, <2>3, PrimaryStores
  <2>5. buf'[c] = buf[c] \o s
    BY <2>4, Buffers DEF Quietly
  <2>6. buf'[c] = Append(Append(buf[c], t1), t2)
    BY <2>1, <2>5, Append2, Typed
  <2> QED BY <1>1, <1>2, <1>3, <1>4, <1>6, <2>2, <2>4, <2>6 DEF t1, t2
<1>7. CASE pamu_fspi # tmp[c]
  <2>1. pamu_fspi' = pamu_fspi /\ pc'[c] = "get_fspi" /\ buf' = buf
    BY <1>7, PcOf DEF Allocate, Goto
  <2>2. Quietly(c, <<>>)
    BY <1>1, <1>2, <1>4, <2>1, NoStores DEF Quietly
  <2> QED BY <1>1, <1>2, <1>3, <1>4, <2>1, <2>2
<1> QED BY <1>6, <1>7

(* A call for a window stores to the entry of the window.                   *)
LEMMA WindowStores ==
    ASSUME Control, Tables, NEW c \in Cpu, InWindow(c), NEW s \in Seq(StoreType), Issue(c, s), mem' = mem,
           Works2(c), pc'[c] \in Active,
           \A i \in DOMAIN s : s[i] # lwsync =>
              /\ s[i].e = EntryOf(req[c].l, req[c].w) /\ s[i].f # "fspi"
              /\ s[i].f = "af" => (req[c].w = 0 => s[i].x.wse)
    PROVE  Quietly(c, s) /\ buf'[c] = buf[c] \o s
<1> DEFINE l == req[c].l
           w == req[c].w
<1>1. /\ l \in Liodn /\ w \in Nat /\ Live(l) /\ req[c] \in Windowed
      /\ w = 0 => EntryOf(l, w) = Prim(l)
      /\ w > 0 => \E i : EntryOf(l, w) = Sec(i)
  BY WindowEntry
<1>2. Issues(c, s)
  BY DEF Issue, Issues
<1>3. \A i \in DOMAIN s : s[i] # lwsync =>
         s[i].e = Prim(l) \/ (InWindow(c) /\ pc'[c] \in Active /\ w > 0 /\ s[i].e = EntryOf(l, w))
  BY <1>1
<1>4. Own(c, s)
  BY <1>3 DEF Own
<1>5. Clean(c, s)
  <2> SUFFICES ASSUME NEW i \in DOMAIN s, IsTo(s[i], Prim(l))
               PROVE  s[i].f # "fspi" /\ (s[i].f = "af" => s[i].x.wse)
    BY DEF Clean
  <2>1. s[i] # lwsync /\ s[i].e = Prim(l)
    BY DEF IsTo
  <2>2. w = 0
    BY <1>1, <2>1, Entries
  <2> QED BY <2>1, <2>2
<1>6. ~Owner(c)'
  <2>1. req'[c].fn # "config_ppaace" /\ pc'[c] \in Active
    BY <1>1, Fields DEF Works2, Goes
  <2> QED BY <2>1 DEF Owner, Active
<1>7. Quietly(c, s)
  BY <1>2, <1>4, <1>5, <1>6 DEF Quietly
<1> QED BY <1>2, <1>7, Buffers

(* What every step of a call for a window has in common.                    *)
WindowStep(c) ==
    /\ Works2(c) /\ InWindow(c) /\ req[c] \in Windowed /\ mem' = mem /\ pc'[c] \in Active
    /\ pamu_fspi' = pamu_fspi /\ tmp' = tmp

LEMMA WindowSteps ==
    ASSUME Control, Tables, NEW c \in Cpu, SpaaceFill(c) \/ SpaaceValid(c) \/ Reconfig(c) \/ Move(c) \/ Allow(c)
    PROVE  LET e == EntryOf(req[c].l, req[c].w)
               x == Load(c, e, "af") IN
           /\ WindowStep(c)
           /\ e \in Entry /\ paace(c) = e /\ x \in Word /\ af(c, paace(c)) = x
           /\ req[c].w = 0 => x.wse = TRUE
           /\ req[c].rpn \in Page
<1> DEFINE l == req[c].l
           w == req[c].w
           e == EntryOf(l, w)
           x == Load(c, e, "af")
<1>1. /\ mem' = mem /\ tmp' = tmp /\ pamu_fspi' = pamu_fspi /\ CallOk(c)
      /\ pc'[c] \in Active
      /\ pc[c] \in {"config_spaace", "spaace_valid", "reconfig_liodn", "reconfig_subwin", "move", "allow"}
  <2>1. mem' = mem /\ tmp' = tmp /\ pamu_fspi' = pamu_fspi /\ CallOk(c)
    BY DEF SpaaceFill, SpaaceValid, Reconfig, Move, Allow, Control
  <2>2. pc'[c] \in Active /\ pc[c] \in {"config_spaace", "spaace_valid", "reconfig_liodn", "reconfig_subwin", "move", "allow"}
    BY PcOf DEF SpaaceFill, SpaaceValid, Reconfig, Move, Allow, Goto, Active
  <2> QED BY <2>1, <2>2
<1>2. req[c] \in Windowed
  BY <1>1, WhereWindowed
<1>3. Works2(c)
  <2>1. \E y : Goto(c, y)
    BY DEF SpaaceFill, SpaaceValid, Reconfig, Move, Allow
  <2>2. pc' = [pc EXCEPT ![c] = pc'[c]]
    BY <2>1, PcOf DEF Goto
  <2> QED BY <1>1, <2>2 DEF SpaaceFill, SpaaceValid, Reconfig, Move, Allow, Goes, Works2, client, outcome
<1>4. InWindow(c)
  BY <1>1, <1>2, Fields DEF InWindow
<1>5. /\ l \in Liodn /\ w \in Nat /\ Live(l) /\ paace(c) = e /\ e \in Entry /\ req[c].rpn \in Page
      /\ w = 0 => e = Prim(l)
  BY <1>4, WindowEntry
<1>6. x \in Word /\ af(c, paace(c)) = x
  BY <1>5, Typed
<1>7. w = 0 => x.wse = TRUE
  BY <1>5, LiveSees
<1> QED BY <1>1, <1>2, <1>3, <1>4, <1>5, <1>6, <1>7 DEF WindowStep

LEMMA SpaaceFillStep ==
    ASSUME Control, Tables, NEW c \in Cpu, SpaaceFill(c)
    PROVE  LET e == EntryOf(req[c].l, req[c].w)
               p == req[c].rpn
               y == [Load(c, e, "af") EXCEPT !.ap = TRUE]
               s == <<Store(e, "twbah", p), Store(e, "twbal", p), Store(e, "af", y), lwsync>> IN
           /\ Quietly(c, s)
           /\ buf'[c] = Append(Append(Append(Append(buf[c], Store(e, "twbah", p)), Store(e, "twbal", p)),
                                      Store(e, "af", y)), lwsync)
           /\ pc[c] = "config_spaace" /\ pc'[c] = "spaace_valid"
<1> DEFINE e == EntryOf(req[c].l, req[c].w)
           p == req[c].rpn
           x == Load(c, e, "af")
           y == [x EXCEPT !.ap = TRUE]
           t1 == Store(e, "twbah", p)
           t2 == Store(e, "twbal", p)
           t3 == Store(e, "af", y)
           s == <<t1, t2, t3, lwsync>>
<1>1. /\ WindowStep(c) /\ e \in Entry /\ paace(c) = e /\ x \in Word /\ af(c, paace(c)) = x
      /\ (req[c].w = 0 => x.wse = TRUE) /\ p \in Page
  BY WindowSteps
<1>2. y \in Word /\ y.wse = x.wse
  BY <1>1, WordEdits
<1>3. pc[c] = "config_spaace" /\ pc'[c] = "spaace_valid" /\ Issue(c, (<<t1, t2>> \o <<t3>>) \o <<lwsync>>)
  BY <1>1, PcOf DEF SpaaceFill, SetPage, SetAF, Goto
<1> HIDE DEF x, y
<1>4. /\ t1 \in StoreType /\ t2 \in StoreType /\ t3 \in StoreType /\ lwsync \in StoreType
      /\ t1.e = e /\ t2.e = e /\ t3.e = e /\ t1.f = "twbah" /\ t2.f = "twbal" /\ t3.f = "af" /\ t3.x = y
  BY <1>1, <1>2, StoreTypes
<1> HIDE DEF t1, t2, t3
<1>5. <<t1, t2>> \o <<t3>> = <<t1, t2, t3>>
  BY <1>4, JoinLeft
<1>6. <<t1, t2, t3>> \o <<lwsync>> = s
  BY <1>4, Tuple4
<1>7. s \in Seq(StoreType) /\ DOMAIN s = {1, 2, 3, 4} /\ s[1] = t1 /\ s[2] = t2 /\ s[3] = t3 /\ s[4] = lwsync
  BY <1>4, Tuple4
<1>8. Issue(c, s)
  BY <1>3, <1>5, <1>6
<1> HIDE DEF s, e
<1>9. \A i \in DOMAIN s : s[i] # lwsync =>
         /\ s[i].e = e /\ s[i].f # "fspi" /\ (s[i].f = "af" => (req[c].w = 0 => s[i].x.wse))
  BY <1>1, <1>2, <1>4, <1>7
<1>10. Quietly(c, s) /\ buf'[c] = buf[c] \o s
  BY <1>1, <1>7, <1>8, <1>9, WindowStores DEF WindowStep, e
<1>11. buf'[c] = Append(Append(Append(Append(buf[c], t1), t2), t3), lwsync)
  <2>1. buf[c] \in Seq(StoreType)
    BY Typed
  <2>2. buf[c] \o Four(t1, t2, t3, lwsync) = Append(Append(Append(Append(buf[c], t1), t2), t3), lwsync)
    BY <1>4, <2>1, Append4
  <2> QED BY <1>10, <2>2 DEF s, Four
<1> QED BY <1>3, <1>10, <1>11 DEF s, t1, t2, t3, x, y, e

LEMMA ValidAllowStep ==
    ASSUME Control, Tables, NEW c \in Cpu, SpaaceValid(c) \/ Allow(c)
    PROVE  LET e == EntryOf(req[c].l, req[c].w)
               x == Load(c, e, "af")
               y == IF pc[c] = "spaace_valid" THEN [x EXCEPT !.v = TRUE] ELSE [x EXCEPT !.ap = TRUE] IN
           /\ Quietly(c, <<Store(e, "af", y)>>)
           /\ buf'[c] = Append(buf[c], Store(e, "af", y)) /\ y \in Word
           /\ pc[c] \in {"spaace_valid", "allow"} /\ pc'[c] = "sync"
<1> DEFINE e == EntryOf(req[c].l, req[c].w)
           x == Load(c, e, "af")
           y == IF pc[c] = "spaace_valid" THEN [x EXCEPT !.v = TRUE] ELSE [x EXCEPT !.ap = TRUE]
           t == Store(e, "af", y)
           s == <<t>>
<1>1. /\ WindowStep(c) /\ e \in Entry /\ paace(c) = e /\ x \in Word /\ af(c, paace(c)) = x
      /\ (req[c].w = 0 => x.wse = TRUE)
  BY WindowSteps
<1>2. y \in Word /\ y.wse = x.wse
  BY <1>1, WordEdits
<1>3. pc[c] \in {"spaace_valid", "allow"} /\ pc'[c] = "sync" /\ Issue(c, <<t>>)
  BY <1>1, PcOf DEF SpaaceValid, Allow, SetAF, Goto
<1> HIDE DEF x, y
<1>4. t \in StoreType /\ t.e = e /\ t.f = "af" /\ t.x = y
  BY <1>1, <1>2, StoreTypes
<1> HIDE DEF t, e
<1>5. s \in Seq(StoreType) /\ DOMAIN s = {1} /\ s[1] = t
  BY <1>4, Tuple1
<1>6. Quietly(c, s) /\ buf'[c] = buf[c] \o s
  BY <1>1, <1>2, <1>3, <1>4, <1>5, WindowStores DEF WindowStep, e
<1>7. buf'[c] = Append(buf[c], t)
  BY <1>4, <1>6, Append1, Typed
<1> QED BY <1>2, <1>3, <1>6, <1>7 DEF t, y, x, e

LEMMA ReconfigStep ==
    ASSUME Control, Tables, NEW c \in Cpu, Reconfig(c)
    PROVE  LET e == EntryOf(req[c].l, req[c].w)
               y == [Load(c, e, "af") EXCEPT !.ap = FALSE]
               p == req[c].rpn IN
           /\ pc[c] \in {"reconfig_liodn", "reconfig_subwin"}
           /\ \/ /\ Quietly(c, <<>>) /\ buf' = buf /\ pc'[c] = "sync"
                 /\ Load(c, e, "twbah") = p /\ Load(c, e, "twbal") = p
              \/ /\ Quietly(c, <<Store(e, "af", y), lwsync>>) /\ pc'[c] = "move" /\ y \in Word
                 /\ buf'[c] = Append(Append(buf[c], Store(e, "af", y)), lwsync)
<1> DEFINE e == EntryOf(req[c].l, req[c].w)
           x == Load(c, e, "af")
           y == [x EXCEPT !.ap = FALSE]
           p == req[c].rpn
           t == Store(e, "af", y)
           s == <<t, lwsync>>
<1>1. /\ WindowStep(c) /\ e \in Entry /\ paace(c) = e /\ x \in Word /\ af(c, paace(c)) = x
      /\ (req[c].w = 0 => x.wse = TRUE)
  BY WindowSteps
<1>2. y \in Word /\ y.wse = x.wse
  BY <1>1, WordEdits
<1>3. pc[c] \in {"reconfig_liodn", "reconfig_subwin"}
  BY DEF Reconfig
<1>4. CASE SamePage(c)
  <2>1. buf' = buf /\ pc'[c] = "sync"
    BY <1>4, PcOf DEF Reconfig, Goto
  <2>2. Load(c, e, "twbah") = p /\ Load(c, e, "twbal") = p
    BY <1>1, <1>4 DEF SamePage
  <2>3. ~Owner(c)'
    <3>1. req'[c].fn # "config_ppaace"
      BY <1>1, Fields DEF WindowStep, Works2, Goes
    <3> QED BY <2>1, <3>1 DEF Owner
  <2>4. Quietly(c, <<>>)
    BY <1>1, <2>1, <2>3, NoStores DEF Quietly, WindowStep
  <2> QED BY <1>3, <2>1, <2>2, <2>4
<1>5. CASE ~SamePage(c)
  <2>1. Issue(c, <<t>> \o <<lwsync>>) /\ pc'[c] = "move"
    BY <1>1, <1>5, PcOf DEF Reconfig, SetAF, Goto
  <2> HIDE DEF x, y
  <2>2. t \in StoreType /\ t.e = e /\ t.f = "af" /\ t.x = y /\ lwsync \in StoreType
    BY <1>1, <1>2, StoreTypes
  <2> HIDE DEF t, e
  <2>3. s \in Seq(StoreType) /\ DOMAIN s = {1, 2} /\ s[1] = t /\ s[2] = lwsync /\ <<t>> \o <<lwsync>> = s
    BY <2>2, Tuple2
  <2>4. Quietly(c, s) /\ buf'[c] = buf[c] \o s
    BY <1>1, <1>2, <2>1, <2>2, <2>3, WindowStores DEF WindowStep, e
  <2>5. buf'[c] = Append(Append(buf[c], t), lwsync)
    BY <2>2, <2>4, Append2, Typed
  <2> QED BY <1>2, <1>3, <2>1, <2>4, <2>5 DEF t, y, x, e
<1> QED BY <1>4, <1>5

LEMMA MoveStep ==
    ASSUME Control, Tables, NEW c \in Cpu, Move(c)
    PROVE  LET e == EntryOf(req[c].l, req[c].w)
               p == req[c].rpn IN
           /\ Quietly(c, <<Store(e, "twbah", p), Store(e, "twbal", p), lwsync>>)
           /\ buf'[c] = Append(Append(Append(buf[c], Store(e, "twbah", p)), Store(e, "twbal", p)), lwsync)
           /\ pc[c] = "move" /\ pc'[c] = "allow"
<1> DEFINE e == EntryOf(req[c].l, req[c].w)
           p == req[c].rpn
           t1 == Store(e, "twbah", p)
           t2 == Store(e, "twbal", p)
           s == <<t1, t2, lwsync>>
<1>1. WindowStep(c) /\ e \in Entry /\ paace(c) = e /\ p \in Page
  BY WindowSteps
<1>2. pc[c] = "move" /\ pc'[c] = "allow" /\ Issue(c, <<t1, t2>> \o <<lwsync>>)
  BY <1>1, PcOf DEF Move, SetPage, Goto
<1>3. /\ t1 \in StoreType /\ t2 \in StoreType /\ lwsync \in StoreType
      /\ t1.e = e /\ t2.e = e /\ t1.f = "twbah" /\ t2.f = "twbal"
  BY <1>1, StoreTypes
<1> HIDE DEF t1, t2
<1>4. <<t1, t2>> \o <<lwsync>> = s
  BY <1>3, JoinLeft
<1>5. s \in Seq(StoreType) /\ DOMAIN s = {1, 2, 3} /\ s[1] = t1 /\ s[2] = t2 /\ s[3] = lwsync
  BY <1>3, Tuple3
<1>6. Issue(c, s)
  BY <1>2, <1>4
<1> HIDE DEF s, e
<1>7. \A i \in DOMAIN s : s[i] # lwsync =>
         /\ s[i].e = e /\ s[i].f # "fspi" /\ (s[i].f = "af" => (req[c].w = 0 => s[i].x.wse))
  BY <1>3, <1>5
<1>8. Quietly(c, s) /\ buf'[c] = buf[c] \o s
  BY <1>1, <1>5, <1>6, <1>7, WindowStores DEF WindowStep, e
<1>9. buf'[c] = Append(Append(Append(buf[c], t1), t2), lwsync)
  BY <1>3, <1>8, Append3, Typed DEF s
<1> QED BY <1>2, <1>8, <1>9 DEF s, t1, t2, e

LEMMA QuietTables ==
    ASSUME Control, Tables, NEW c \in Cpu, NEW s, Quietly(c, s), pamu_fspi' = pamu_fspi, ~Holds(c)',
           \A d \in Cpu \ {c} : tmp'[d] = tmp[d]
    PROVE  Tables'
  BY TablesKept DEF Quietly

LEMMA HoldsFacts ==
    ASSUME Control, NEW c \in Cpu, Holds(c)
    PROVE  req[c] \in Configs /\ req[c].l \in Liodn /\ req[c].cnt \in Nat /\ req[c].cnt > 0 /\ tmp[c] \in 0 .. NSpaace /\ Owner(c)
<1>1. req[c] \in Configs
  BY Fields DEF Control, CallOk, Holds
<1> QED BY <1>1, Fields, CountsAssumption DEF Holds, Control, Owner

LEMMA LiveFacts ==
    ASSUME Control, Tables, NEW l \in Liodn, LiveMulti(l)
    PROVE  /\ Live(l) /\ configured[l] # <<>> /\ configured[l][1] \in Nat /\ configured[l][1] > 0 /\ First(l) \in 0 .. NSpaace
           /\ configured[l][1] \in Counts
<1>1. Live(l) /\ configured[l] # <<>>
  BY DEF LiveMulti, Tables, Settled
<1> QED BY <1>1, Counted, CountsAssumption, Typed, Entries DEF LiveMulti, Multi, First, Tables, EntryType

LEMMA AllocateTables ==
    ASSUME Control, Tables, NEW c \in Cpu, Allocate(c) PROVE Tables'
<1> DEFINE l == req[c].l
           e == Prim(l)
           x == Load(c, e, "af")
           s == <<Store(e, "af", [x EXCEPT !.mw = TRUE]), Store(e, "fspi", tmp[c])>>
<1>1. /\ Works2(c) /\ l \in Liodn /\ mem' = mem /\ req[c] \in Configs /\ pc[c] = "allocate"
      /\ tmp' = tmp /\ req[c].cnt > 0 /\ req[c].cnt \in Nat /\ tmp[c] \in 0 .. NSpaace /\ tmp[c] + req[c].cnt - 1 <= NSpaace
      /\ \/ pamu_fspi = tmp[c] /\ pamu_fspi' = tmp[c] + req[c].cnt - 1 /\ pc'[c] = "sync" /\ Quietly(c, s)
         \/ pamu_fspi' = pamu_fspi /\ pc'[c] = "get_fspi" /\ Quietly(c, <<>>)
  BY AllocateStep
<1> HIDE DEF s
<1>2. CASE pamu_fspi' = pamu_fspi /\ pc'[c] = "get_fspi" /\ Quietly(c, <<>>)
  <2>1. ~Holds(c)'
    BY <1>2 DEF Holds
  <2> QED BY <1>1, <1>2, <2>1, QuietTables
<1>3. CASE pamu_fspi = tmp[c] /\ pamu_fspi' = tmp[c] + req[c].cnt - 1 /\ pc'[c] = "sync" /\ Quietly(c, s)
  <2>1. \A k \in Liodn : Live(k)' => Settled(k)'
    BY <1>3, SettledKept DEF Quietly
  <2>2. Origins'
    BY <1>3, OriginsKept DEF Quietly
  <2>3. mem' \in [Entry -> EntryType] /\ buf' \in [Cpu -> Seq(StoreType)]
    BY <1>3, Buffers DEF Issues, Tables, Quietly
  <2>4. req' = req /\ configured' = configured /\ tmp' = tmp
    BY <1>1 DEF Works2, Goes
  <2>5. \A d \in Cpu : InWindow(d)' => req'[d].w = 0 \/ req'[d].w < configured'[req'[d].l][1]
    BY <1>1, <2>4, GoesFacts DEF Tables
  <2>6. \A d \in Cpu \ {c} : Holds(d)' => Holds(d)
    BY <1>1, GoesFacts
  <2>7. \A k \in Liodn : (LiveMulti(k)' => LiveMulti(k)) /\ First(k)' = First(k)
    BY <1>1, <2>4, GoesFacts DEF LiveMulti, Multi, First, Prim
  <2>8. Claims /\ Fresh
    BY DEF Tables
  <2>9. pamu_fspi \in Nat /\ pamu_fspi <= pamu_fspi' /\ pamu_fspi' <= NSpaace /\ NSpaace \in Nat /\ pamu_fspi' \in Nat
    <3>1. req[c].cnt - 1 \in Nat /\ pamu_fspi \in 0 .. NSpaace
      BY <1>1 DEF Control
    <3> QED BY <1>1, <1>3, <3>1, NSpaaceAssumption
  <2>10. \A d \in Cpu \ {c} : Holds(d) => /\ tmp[d] + req[d].cnt - 1 <= pamu_fspi /\ tmp[d] \in Nat /\ req[d].cnt \in Nat
    BY <2>8, <2>9, HoldsFacts DEF Claims
  <2>11. \A k \in Liodn : LiveMulti(k) => First(k) + configured[k][1] - 1 <= pamu_fspi /\ First(k) \in Nat /\ configured[k][1] \in Nat
    BY <2>8, <2>9, LiveFacts DEF Claims
  <2>12. \A d \in Cpu : Holds(d)' => tmp'[d] + req'[d].cnt - 1 <= pamu_fspi'
    <3> SUFFICES ASSUME NEW d \in Cpu, Holds(d)' PROVE tmp[d] + req[d].cnt - 1 <= pamu_fspi'
      BY <2>4
    <3>1. CASE d = c
      BY <1>1, <1>3, <3>1
    <3>2. CASE d # c
      BY <2>6, <2>9, <2>10, <3>2
    <3> QED BY <3>1, <3>2
  <2>13. \A k \in Liodn : LiveMulti(k)' => First(k)' + configured'[k][1] - 1 <= pamu_fspi'
    BY <2>4, <2>7, <2>9, <2>11
  <2>14. \A d \in Cpu \ {c} : Holds(d) => /\ Apart(tmp[d], req[d].cnt, tmp[c], req[c].cnt)
                                          /\ Apart(tmp[c], req[c].cnt, tmp[d], req[d].cnt)
    BY <1>3, <2>10 DEF Apart
  <2>15. \A k \in Liodn : LiveMulti(k) => Apart(First(k), configured[k][1], tmp[c], req[c].cnt)
    BY <1>3, <2>11 DEF Apart
  <2>16. \A d, b \in Cpu : Holds(d)' /\ Holds(b)' /\ d # b => Apart(tmp'[d], req'[d].cnt, tmp'[b], req'[b].cnt)
    BY <2>4, <2>6, <2>8, <2>14 DEF Claims
  <2>17. \A k, m \in Liodn : LiveMulti(k)' /\ LiveMulti(m)' /\ k # m =>
            Apart(First(k)', configured'[k][1], First(m)', configured'[m][1])
    BY <2>4, <2>7, <2>8 DEF Claims
  <2>18. \A k \in Liodn, d \in Cpu : LiveMulti(k)' /\ Holds(d)' => Apart(First(k)', configured'[k][1], tmp'[d], req'[d].cnt)
    BY <2>4, <2>6, <2>7, <2>8, <2>15 DEF Claims
  <2>19. Claims'
    BY <2>12, <2>13, <2>16, <2>17, <2>18 DEF Claims, Apart
  <2>20. \A i \in 0 .. NSpaace - 1 : i >= pamu_fspi' => mem[Sec(i)] = Empty
    BY <2>8, <2>9 DEF Fresh
  <2>21. \A d \in Cpu : Holds(d)' => \A i \in tmp[d] .. tmp[d] + req[d].cnt - 2 : mem[Sec(i)] = Empty
    <3> SUFFICES ASSUME NEW d \in Cpu, Holds(d)', NEW i \in tmp[d] .. tmp[d] + req[d].cnt - 2 PROVE mem[Sec(i)] = Empty
      OBVIOUS
    <3>1. CASE d = c
      <4>1. i \in 0 .. NSpaace - 1 /\ i >= pamu_fspi
        BY <1>1, <1>3, <2>9, <3>1
      <4> QED BY <2>8, <4>1 DEF Fresh
    <3>2. CASE d # c
      BY <2>6, <2>8, <3>2 DEF Fresh
    <3> QED BY <3>1, <3>2
  <2>22. Fresh'
    BY <1>1, <2>4, <2>20, <2>21 DEF Fresh, Sec
  <2> QED BY <2>1, <2>2, <2>3, <2>5, <2>19, <2>22 DEF Tables
<1> QED BY <1>1, <1>2, <1>3

LEMMA QuietSteps ==
    ASSUME Control, Tables, NEW c \in Cpu,
           \/ ConfigLock(c) \/ ConfigReserve(c) \/ ConfigUnlock(c) \/ ConfigBadOmi(c) \/ ConfigWindow(c)
           \/ ConfigSubwindows(c) \/ GetFspi(c) \/ Enable(c) \/ EnableValid(c) \/ Disable(c)
           \/ SpaaceFill(c) \/ SpaaceValid(c) \/ Reconfig(c) \/ Move(c) \/ Allow(c)
    PROVE  Tables'
<1>1. CASE ConfigLock(c) \/ ConfigUnlock(c) \/ GetFspi(c) \/ Enable(c)
  <2>1. /\ Quietly(c, <<>>) /\ pamu_fspi' = pamu_fspi /\ \A d \in Cpu \ {c} : tmp'[d] = tmp[d]
        /\ pc'[c] # "sync"
    BY <1>1, LockStep
  <2> QED BY <2>1, QuietTables DEF Holds
<1>2. CASE ConfigReserve(c)
  <2>1. /\ \E s : Quietly(c, s)
        /\ pamu_fspi' = pamu_fspi /\ tmp' = tmp /\ pc'[c] # "sync"
    BY <1>2, ReserveStep
  <2> QED BY <2>1, QuietTables DEF Holds
<1>3. CASE ConfigBadOmi(c) \/ ConfigSubwindows(c)
  <2>1. /\ \E s : Quietly(c, s)
        /\ pamu_fspi' = pamu_fspi /\ tmp' = tmp /\ pc'[c] # "sync"
    BY <1>3, RetypeStep
  <2> QED BY <2>1, QuietTables DEF Holds
<1>4. CASE ConfigWindow(c)
  <2>1. /\ \E s : Quietly(c, s)
        /\ pamu_fspi' = pamu_fspi /\ tmp' = tmp /\ req[c].cnt = 0 /\ Works2(c)
    BY <1>4, ConfigWindowStep
  <2>2. ~Holds(c)'
    BY <2>1 DEF Holds, Works2, Goes
  <2> QED BY <2>1, <2>2, QuietTables
<1>5. CASE EnableValid(c) \/ Disable(c)
  <2>1. /\ \E s : Quietly(c, s)
        /\ pamu_fspi' = pamu_fspi /\ tmp' = tmp /\ req[c] \in Switches /\ Works2(c)
    BY <1>5, SwitchStep
  <2>2. ~Holds(c)'
    BY <2>1, Fields DEF Holds, Works2, Goes
  <2> QED BY <2>1, <2>2, QuietTables
<1>6. CASE SpaaceFill(c) \/ SpaaceValid(c) \/ Reconfig(c) \/ Move(c) \/ Allow(c)
  <2>1. WindowStep(c)
    BY <1>6, WindowSteps
  <2>2. \E s : Quietly(c, s)
    BY <1>6, SpaaceFillStep, ValidAllowStep, ReconfigStep, MoveStep
  <2>3. ~Holds(c)'
    BY <2>1, Fields DEF Holds, Works2, Goes, WindowStep
  <2> QED BY <2>1, <2>2, <2>3, QuietTables DEF WindowStep
<1> QED BY <1>1, <1>2, <1>3, <1>4, <1>5, <1>6

-----------------------------------------------------------------------------
(* A store that reaches memory                                              *)

Out(c, i) ==
    LET t == buf[c][i] IN
    /\ t \in StoreType /\ t # lwsync /\ t.e \in Entry /\ t.f \in Field
    /\ Leaves(buf[c], i) /\ \A j \in 1 .. i - 1 : ~To(buf[c][j], t.e, t.f)
    /\ mem' \in [Entry -> EntryType] /\ mem' = [mem EXCEPT ![t.e][t.f] = t.x]
    /\ \A e \in Entry : e # t.e => mem'[e] = mem[e]
    /\ \A f \in Field : mem'[t.e][f] = IF f = t.f THEN t.x ELSE mem[t.e][f]
    /\ buf' \in [Cpu -> Seq(StoreType)] /\ buf'[c] = Drained(buf[c], i)
    /\ \A d \in Cpu : d # c => buf'[d] = buf[d]
    /\ \A d \in Cpu : \A j \in DOMAIN buf'[d] : \E k \in DOMAIN buf[d] : buf'[d][j] = buf[d][k]
    /\ UNCHANGED <<lock, pamu_fspi, pc, req, tmp, calls, granted, raced, configured, asked>>

LEMMA DrainStep ==
    ASSUME Tables, NEW c \in Cpu, Drain(c) PROVE \E i \in DOMAIN buf[c] : Out(c, i)
<1>1. PICK i \in DOMAIN buf[c] :
         LET t == buf[c][i] IN
         /\ \A j \in 1..i : buf[c][j] # lwsync
         /\ \A j \in 1..(i - 1) : ~To(buf[c][j], t.e, t.f)
         /\ mem' = [mem EXCEPT ![t.e][t.f] = t.x]
         /\ buf' = [buf EXCEPT ![c] = Stripped(Without(@, i))]
         /\ UNCHANGED <<lock, pamu_fspi, pc, req, tmp, client, outcome>>
  BY DEF Drain
<1> DEFINE t == buf[c][i]
           b == Drained(buf[c], i)
<1>2. /\ buf[c] \in Seq(StoreType) /\ DOMAIN buf[c] = 1 .. Len(buf[c]) /\ t \in StoreType
      /\ mem \in [Entry -> EntryType] /\ buf \in [Cpu -> Seq(StoreType)]
  BY Typed DEF Tables
<1>3. Leaves(buf[c], i)
  BY <1>1 DEF Leaves
<1>4. t # lwsync
  <2>1. i \in 1 .. i
    BY <1>2
  <2> QED BY <1>1, <2>1
<1>5. /\ t.e \in Entry /\ t.f \in Field /\ (t.f = "af" => t.x \in Word)
      /\ (t.f \in {"twbah", "twbal"} => t.x \in Page) /\ (t.f = "fspi" => t.x \in 0 .. NSpaace)
  BY <1>2, <1>4, StoreKinds
<1>6. /\ b \in Seq(StoreType)
      /\ \A j \in DOMAIN b : \E k \in DOMAIN buf[c] : b[j] = buf[c][k]
  BY <1>2, <1>3, OrderDrained
<1>7. buf' = [buf EXCEPT ![c] = b]
  BY <1>1 DEF Drained
<1> DEFINE e == t.e
           f == t.f
           x == t.x
<1>8. mem' = [mem EXCEPT ![e][f] = x]
  BY <1>1
<1> HIDE DEF t, b, e, f, x
<1>9. buf' \in [Cpu -> Seq(StoreType)] /\ buf'[c] = b /\ \A d \in Cpu : d # c => buf'[d] = buf[d]
  BY <1>2, <1>6, <1>7
<1>10. e \in Entry /\ f \in Field /\ mem[e] \in EntryType
  BY <1>2, <1>5 DEF e, f
<1>11. /\ \A k \in Entry : k # e => mem'[k] = mem[k]
       /\ mem'[e] = [mem[e] EXCEPT ![f] = x]
       /\ mem' = [k \in Entry |-> mem'[k]]
  BY <1>2, <1>8, <1>10
<1>12. \A g \in Field : mem'[e][g] = IF g = f THEN x ELSE mem[e][g]
  BY <1>10, <1>11 DEF EntryType, Field
<1>13. mem'[e] \in EntryType
  <2> DEFINE m == mem[e]
  <2>1. m \in EntryType
    BY <1>10
  <2> HIDE DEF m
  <2>2. [m EXCEPT ![f] = x] \in EntryType
    <3>1. CASE f = "af"
      BY <1>5, <2>1, <3>1 DEF EntryType, f, x
    <3>2. CASE f \in {"twbah", "twbal"}
      BY <1>5, <2>1, <3>2 DEF EntryType, f, x
    <3>3. CASE f = "fspi"
      BY <1>5, <2>1, <3>3 DEF EntryType, f, x
    <3> QED BY <1>10, <3>1, <3>2, <3>3 DEF Field
  <2> QED BY <1>11, <2>2 DEF m
<1>14. mem' \in [Entry -> EntryType]
  BY <1>2, <1>11, <1>13
<1>15. \A d \in Cpu : \A j \in DOMAIN buf'[d] : \E k \in DOMAIN buf[d] : buf'[d][j] = buf[d][k]
  BY <1>6, <1>9
<1>16. Out(c, i)
  BY <1>1, <1>2, <1>3, <1>4, <1>5, <1>9, <1>11, <1>12, <1>14, <1>15 DEF Out, client, outcome, t, b, e, f, x
<1> QED BY <1>16

LEMMA TablesInit == ASSUME Init PROVE Tables
<1>1. mem = [e \in Entry |-> Empty] /\ buf = [c \in Cpu |-> <<>>] /\ pc = [c \in Cpu |-> "idle"]
      /\ configured = [l \in Liodn |-> <<>>]
  BY DEF Init
<1>2. Empty \in EntryType
  BY NSpaaceAssumption DEF Empty, EntryType, Word
<1>3. mem \in [Entry -> EntryType] /\ buf \in [Cpu -> Seq(StoreType)]
  BY <1>1, <1>2
<1>4. \A c \in Cpu : ~InWindow(c) /\ ~Holds(c) /\ \A e : ~Pending(c, e)
  BY <1>1 DEF InWindow, Holds, Pending
<1>5. \A l \in Liodn : ~Live(l)
  BY <1>1, <1>4 DEF Live
<1>6. Claims /\ Fresh /\ Origins
  BY <1>1, <1>4, <1>5, Entries DEF Claims, Fresh, Origins, LiveMulti
<1> QED BY <1>3, <1>4, <1>5, <1>6 DEF Tables

LEMMA EntersLive ==
    ASSUME Control, Tables, NEW c \in Cpu, NEW l, NEW r, Enters(c, l, r)
    PROVE  /\ \A d \in Cpu \ {c} : (InWindow(d)' <=> InWindow(d)) /\ (Holds(d)' <=> Holds(d)) /\ (Owner(d)' <=> Owner(d))
           /\ ~Holds(c)' /\ ~Owner(c)' /\ ~InWindow(c)
           /\ InWindow(c)' => configured[l] # <<>> /\ (r.w = 0 \/ r.w < configured[l][1])
           /\ \A k \in Liodn : Live(k)' => Live(k)
<1>1. /\ l \in Liodn /\ l \notin raced /\ r.l = l /\ pc[c] = "idle" /\ pc'[c] = r.fn /\ req'[c] = r
      /\ \A d \in Cpu \ {c} : pc'[d] = pc[d] /\ req'[d] = req[d]
      /\ raced \subseteq raced' /\ configured' = configured
      /\ r \in Configs \cup Switches \cup Windowed
  BY EntersFacts
<1>2. r.fn \in {"config_ppaace", "enable", "disable", "config_spaace", "reconfig_subwin", "reconfig_liodn"}
  BY <1>1, Fields
<1>3. ~Holds(c)' /\ ~Owner(c)' /\ ~InWindow(c)
  BY <1>1, <1>2 DEF Holds, Owner, InWindow
<1>4. \A d \in Cpu \ {c} : (InWindow(d)' <=> InWindow(d)) /\ (Holds(d)' <=> Holds(d)) /\ (Owner(d)' <=> Owner(d))
  BY <1>1 DEF Holds, Owner, InWindow
<1>5. InWindow(c)' => configured[l] # <<>> /\ (r.w = 0 \/ r.w < configured[l][1])
  <2> SUFFICES ASSUME InWindow(c)' PROVE configured[l] # <<>> /\ (r.w = 0 \/ r.w < configured[l][1])
    OBVIOUS
  <2>1. r.fn \in {"config_spaace", "reconfig_subwin", "reconfig_liodn"}
    BY <1>1 DEF InWindow
  <2>2. HasWindow(l, r.w) \/ (r.w = 0 /\ Single(l))
    BY <1>1, <2>1, RequestKinds DEF Enters
  <2> QED BY <2>2 DEF HasWindow, Single
<1>6. ASSUME NEW k \in Liodn, Live(k)' PROVE Live(k)
  <2>1. CASE k \notin raced' /\ configured'[k] # <<>>
    BY <1>1, <2>1 DEF Live
  <2>2. ASSUME NEW d \in Cpu, InWindow(d)', req'[d].l = k PROVE Live(k)
    <3>1. CASE d = c
      BY <1>1, <1>5, <2>2, <3>1 DEF Live
    <3>2. CASE d # c
      BY <1>1, <1>4, <2>2, <3>2 DEF Live
    <3> QED BY <3>1, <3>2
  <2> QED BY <1>6, <2>1, <2>2 DEF Live
<1> QED BY <1>3, <1>4, <1>5, <1>6

LEMMA EntersTables ==
    ASSUME Control, Tables, NEW c \in Cpu, NEW l, NEW r, Enters(c, l, r) PROVE Tables'
<1>1. /\ l \in Liodn /\ r.l = l /\ pc[c] = "idle" /\ req'[c] = r
      /\ \A d \in Cpu \ {c} : pc'[d] = pc[d] /\ req'[d] = req[d]
      /\ UNCHANGED <<mem, buf, lock, pamu_fspi, tmp, configured, asked>>
  BY EntersFacts
<1>2. /\ \A d \in Cpu \ {c} : (InWindow(d)' <=> InWindow(d)) /\ (Holds(d)' <=> Holds(d)) /\ (Owner(d)' <=> Owner(d))
      /\ ~Holds(c)' /\ ~Owner(c)' /\ ~InWindow(c)
      /\ InWindow(c)' => configured[l] # <<>> /\ (r.w = 0 \/ r.w < configured[l][1])
      /\ \A k \in Liodn : Live(k)' => Live(k)
  BY EntersLive
<1>3. \A k \in Liodn : (LiveMulti(k)' => LiveMulti(k)) /\ First(k)' = First(k)
  BY <1>1, <1>2 DEF LiveMulti, Multi, First, Prim
<1>4. ASSUME NEW k \in Liodn, Live(k)' PROVE Settled(k)'
  <2>1. Settled(k)
    BY <1>2, <1>4 DEF Tables
  <2>2. \A d \in Cpu : Works(d, k)' => ~Owner(d)'
    BY <1>1, <1>2, <2>1 DEF Settled, Works
  <2> QED BY <1>1, <2>1, <2>2 DEF Settled, IsTo, Prim
<1>5. \A d \in Cpu : InWindow(d)' => req'[d].w = 0 \/ req'[d].w < configured'[req'[d].l][1]
  BY <1>1, <1>2 DEF Tables
<1>6. \A d \in Cpu : Holds(d)' => Holds(d) /\ req'[d] = req[d]
  BY <1>1, <1>2
<1>7. Claims'
  <2>1. Claims
    BY DEF Tables
  <2>2. \A d \in Cpu : Holds(d)' => tmp'[d] + req'[d].cnt - 1 <= pamu_fspi'
    BY <1>1, <1>6, <2>1 DEF Claims
  <2>3. \A k \in Liodn : LiveMulti(k)' => First(k)' + configured'[k][1] - 1 <= pamu_fspi'
    BY <1>1, <1>3, <2>1 DEF Claims
  <2>4. \A d, b \in Cpu : Holds(d)' /\ Holds(b)' /\ d # b => Apart(tmp'[d], req'[d].cnt, tmp'[b], req'[b].cnt)
    BY <1>1, <1>6, <2>1 DEF Claims
  <2>5. \A k, m \in Liodn : LiveMulti(k)' /\ LiveMulti(m)' /\ k # m =>
           Apart(First(k)', configured'[k][1], First(m)', configured'[m][1])
    BY <1>1, <1>3, <2>1 DEF Claims
  <2>6. \A k \in Liodn, d \in Cpu : LiveMulti(k)' /\ Holds(d)' =>
           Apart(First(k)', configured'[k][1], tmp'[d], req'[d].cnt)
    BY <1>1, <1>3, <1>6, <2>1 DEF Claims
  <2> QED BY <2>2, <2>3, <2>4, <2>5, <2>6 DEF Claims, Apart
<1>8. Fresh'
  BY <1>1, <1>6 DEF Tables, Fresh, Sec
<1>9. Origins'
  <2> SUFFICES ASSUME NEW d \in Cpu, NEW n \in 0 .. NSpaace - 1, Pending(d, Sec(n))'
               PROVE  /\ InWindow(d)' /\ pc'[d] \in Active /\ req'[d].w > 0
                      /\ Sec(n) = EntryOf(req[d].l, req[d].w)'
    BY DEF Origins, Sec
  <2>1. Pending(d, Sec(n))
    BY <1>1 DEF Pending, Sec
  <2>2. InWindow(d) /\ pc[d] \in Active /\ req[d].w > 0 /\ Sec(n) = EntryOf(req[d].l, req[d].w)
    BY <2>1 DEF Tables, Origins
  <2>3. d # c
    BY <1>2, <2>2
  <2>4. \A k, w : EntryOf(k, w)' = EntryOf(k, w)
    BY <1>1 DEF EntryOf, First, Prim, Sec
  <2> QED BY <1>1, <1>2, <2>2, <2>3, <2>4
<1> QED BY <1>1, <1>4, <1>5, <1>7, <1>8, <1>9 DEF Tables

(* A store that reaches the entry of a device in use.                       *)
LEMMA OutLive ==
    ASSUME Control, Tables, NEW c \in Cpu, NEW i \in DOMAIN buf[c], Out(c, i), NEW l \in Liodn, Live(l)
    PROVE  /\ First(l)' = First(l) /\ mem'[Prim(l)].af.wse = TRUE
           /\ \A w : EntryOf(l, w)' = EntryOf(l, w)
<1> DEFINE t == buf[c][i]
<1>1. /\ Prim(l) \in Entry /\ "fspi" \in Field /\ "af" \in Field
  BY Entries DEF Field
<1>2. /\ mem[Prim(l)].af.wse = TRUE
      /\ IsTo(t, Prim(l)) => t.f # "fspi" /\ (t.f = "af" => t.x.wse = TRUE)
  BY LiveSees
<1>3. CASE t.e = Prim(l)
  <2>1. /\ IsTo(t, Prim(l)) /\ \A f \in Field : mem'[Prim(l)][f] = IF f = t.f THEN t.x ELSE mem[Prim(l)][f]
    BY <1>3 DEF Out, IsTo
  <2>2. mem'[Prim(l)].fspi = mem[Prim(l)].fspi /\ mem'[Prim(l)].af.wse = TRUE
    BY <1>1, <1>2, <2>1
  <2> QED BY <2>2 DEF First, EntryOf, Prim, Sec
<1>4. CASE t.e # Prim(l)
  <2>1. mem'[Prim(l)] = mem[Prim(l)]
    BY <1>1, <1>4 DEF Out
  <2> QED BY <1>2, <2>1 DEF First, EntryOf, Prim, Sec
<1> QED BY <1>3, <1>4

(* A store to a secondary entry reaches an entry that was handed out.       *)
LEMMA OutHanded ==
    ASSUME Control, Tables, NEW c \in Cpu, NEW n \in 0 .. NSpaace - 1, Pending(c, Sec(n))
    PROVE  /\ n < pamu_fspi /\ InWindow(c) /\ pc[c] \in Active /\ req[c].w > 0 /\ Sec(n) = EntryOf(req[c].l, req[c].w)
           /\ \A d \in Cpu : Holds(d) => ~(n \in tmp[d] .. tmp[d] + req[d].cnt - 2)
           /\ LiveMulti(req[c].l) /\ req[c].l \in Liodn /\ req[c].w < configured[req[c].l][1]
<1> DEFINE l == req[c].l
           w == req[c].w
<1>1. InWindow(c) /\ pc[c] \in Active /\ w > 0 /\ Sec(n) = EntryOf(l, w)
  BY DEF Tables, Origins
<1>2. /\ l \in Liodn /\ w \in Nat /\ LiveMulti(l) /\ EntryOf(l, w) = Sec(First(l) + w - 1) /\ w < configured[l][1]
      /\ First(l) + w - 1 \in 0 .. NSpaace - 1 /\ First(l) + w - 1 < First(l) + configured[l][1] - 1
  BY <1>1, WindowEntry
<1>3. n = First(l) + w - 1
  BY <1>1, <1>2, Entries
<1>4. First(l) \in 0 .. NSpaace /\ configured[l][1] \in Nat
  BY <1>2, LiveFacts
<1>5. pamu_fspi \in Nat
  BY DEF Control
<1>6. First(l) + configured[l][1] - 1 <= pamu_fspi
  BY <1>2 DEF Tables, Claims
<1>7. n < pamu_fspi
  <2> DEFINE a == First(l)
             m == configured[l][1]
  <2>1. a \in Nat /\ m \in Nat /\ n = a + w - 1 /\ a + w - 1 < a + m - 1 /\ a + m - 1 <= pamu_fspi
    BY <1>2, <1>3, <1>4, <1>6
  <2> HIDE DEF a, m
  <2> QED BY <1>2, <1>5, <2>1
<1>8. ASSUME NEW d \in Cpu, Holds(d), n \in tmp[d] .. tmp[d] + req[d].cnt - 2 PROVE FALSE
  <2> DEFINE a == First(l)
             m == configured[l][1]
             x == tmp[d]
             y == req[d].cnt
  <2>1. Apart(a, m, x, y)
    BY <1>2, <1>8 DEF Tables, Claims
  <2>2. x \in Nat /\ y \in Nat
    BY <1>8, HoldsFacts
  <2>3. a \in Nat /\ m \in Nat /\ n = a + w - 1 /\ a + w - 1 < a + m - 1 /\ n \in x .. x + y - 2
    BY <1>2, <1>3, <1>4, <1>8
  <2> HIDE DEF a, m, x, y
  <2> QED BY <1>1, <1>2, <2>1, <2>2, <2>3 DEF Apart
<1> QED BY <1>1, <1>2, <1>7, <1>8

LEMMA DrainTables ==
    ASSUME Control, Tables, NEW c \in Cpu, Drain(c) PROVE Tables'
<1>1. PICK i \in DOMAIN buf[c] : Out(c, i)
  BY DrainStep
<1> DEFINE t == buf[c][i]
<1>2. /\ UNCHANGED <<lock, pamu_fspi, pc, req, tmp, calls, granted, raced, configured, asked>>
      /\ mem' \in [Entry -> EntryType] /\ buf' \in [Cpu -> Seq(StoreType)]
      /\ \A d \in Cpu : \A j \in DOMAIN buf'[d] : \E k \in DOMAIN buf[d] : buf'[d][j] = buf[d][k]
      /\ \A e \in Entry : e # t.e => mem'[e] = mem[e]
      /\ t # lwsync /\ t.e \in Entry
  BY <1>1 DEF Out
<1>3. /\ \A d \in Cpu : (InWindow(d)' <=> InWindow(d)) /\ (Holds(d)' <=> Holds(d)) /\ (Owner(d)' <=> Owner(d))
      /\ \A l \in Liodn : Live(l)' <=> Live(l)
      /\ \A d \in Cpu, l \in Liodn : Works(d, l)' <=> Works(d, l)
      /\ \A l \in Liodn : LiveMulti(l)' <=> LiveMulti(l)
  BY <1>2 DEF InWindow, Holds, Owner, Live, Works, LiveMulti, Multi
<1>4. \A l \in Liodn : Live(l) => /\ First(l)' = First(l) /\ mem'[Prim(l)].af.wse = TRUE
                                  /\ \A w : EntryOf(l, w)' = EntryOf(l, w)
  BY <1>1, OutLive
<1>5. ASSUME NEW l \in Liodn, Live(l)' PROVE Settled(l)'
  <2>1. Settled(l) /\ mem'[Prim(l)].af.wse
    BY <1>3, <1>4, <1>5 DEF Tables
  <2>2. \A d \in Cpu : \A j \in DOMAIN buf'[d] : IsTo(buf'[d][j], Prim(l)) =>
           buf'[d][j].f # "fspi" /\ (buf'[d][j].f = "af" => buf'[d][j].x.wse)
    BY <1>2, <2>1 DEF Settled
  <2> QED BY <1>2, <1>3, <2>1, <2>2 DEF Settled, IsTo, Prim
<1>6. Claims'
  <2>1. Claims
    BY DEF Tables
  <2>2. \A l \in Liodn : LiveMulti(l)' => LiveMulti(l) /\ First(l)' = First(l)
    BY <1>3, <1>4 DEF LiveMulti
  <2>3. \A d \in Cpu : Holds(d)' => tmp'[d] + req'[d].cnt - 1 <= pamu_fspi'
    BY <1>2, <1>3, <2>1 DEF Claims
  <2>4. \A k \in Liodn : LiveMulti(k)' => First(k)' + configured'[k][1] - 1 <= pamu_fspi'
    BY <1>2, <2>1, <2>2 DEF Claims
  <2>5. \A d, b \in Cpu : Holds(d)' /\ Holds(b)' /\ d # b => Apart(tmp'[d], req'[d].cnt, tmp'[b], req'[b].cnt)
    BY <1>2, <1>3, <2>1 DEF Claims
  <2>6. \A k, m \in Liodn : LiveMulti(k)' /\ LiveMulti(m)' /\ k # m =>
           Apart(First(k)', configured'[k][1], First(m)', configured'[m][1])
    BY <1>2, <2>1, <2>2 DEF Claims
  <2>7. \A k \in Liodn, d \in Cpu : LiveMulti(k)' /\ Holds(d)' =>
           Apart(First(k)', configured'[k][1], tmp'[d], req'[d].cnt)
    BY <1>2, <1>3, <2>1, <2>2 DEF Claims
  <2> QED BY <2>3, <2>4, <2>5, <2>6, <2>7 DEF Claims, Apart
<1>7. Fresh'
  <2>1. ASSUME NEW n \in 0 .. NSpaace - 1, n >= pamu_fspi \/ \E d \in Cpu : Holds(d) /\ n \in tmp[d] .. tmp[d] + req[d].cnt - 2
        PROVE  mem'[Sec(n)] = mem[Sec(n)]
    <3>1. Sec(n) \in Entry
      BY Entries
    <3>2. t.e # Sec(n)
      <4> SUFFICES ASSUME t.e = Sec(n) PROVE FALSE
        OBVIOUS
      <4>1. Pending(c, Sec(n))
        BY <1>2 DEF Pending, IsTo
      <4>2. pamu_fspi \in Nat /\ n \in Int
        BY DEF Control
      <4> QED BY <2>1, <4>1, <4>2, OutHanded
    <3> QED BY <1>2, <3>1, <3>2
  <2>2. Fresh
    BY DEF Tables
  <2>3. \A n \in 0 .. NSpaace - 1 : n >= pamu_fspi' => mem'[Sec(n)] = Empty
    BY <1>2, <2>1, <2>2 DEF Fresh
  <2>4. ASSUME NEW d \in Cpu, Holds(d)', NEW n \in tmp'[d] .. tmp'[d] + req'[d].cnt - 2 PROVE mem'[Sec(n)] = Empty
    <3>1. Holds(d) /\ n \in tmp[d] .. tmp[d] + req[d].cnt - 2
      BY <1>2, <1>3, <2>4
    <3>2. n \in 0 .. NSpaace - 1
      <4>1. tmp[d] \in 0 .. NSpaace /\ req[d].cnt \in Nat /\ tmp[d] + req[d].cnt - 1 <= pamu_fspi /\ pamu_fspi \in 0 .. NSpaace
        BY <3>1, HoldsFacts DEF Tables, Claims, Control
      <4> QED BY <3>1, <4>1, NSpaaceAssumption
    <3> QED BY <2>1, <2>2, <3>1, <3>2 DEF Fresh
  <2> QED BY <2>3, <2>4 DEF Fresh, Sec
<1>8. Origins'
  <2> SUFFICES ASSUME NEW d \in Cpu, NEW n \in 0 .. NSpaace - 1, Pending(d, Sec(n))'
               PROVE  /\ InWindow(d)' /\ pc'[d] \in Active /\ req'[d].w > 0
                      /\ Sec(n) = EntryOf(req[d].l, req[d].w)'
    BY DEF Origins, Sec
  <2>1. Pending(d, Sec(n))
    BY <1>2 DEF Pending, Sec, IsTo
  <2>2. InWindow(d) /\ pc[d] \in Active /\ req[d].w > 0 /\ Sec(n) = EntryOf(req[d].l, req[d].w)
    BY <2>1 DEF Tables, Origins
  <2>3. req[d].l \in Liodn /\ Live(req[d].l)
    BY <2>2, WindowEntry
  <2>5. \A l, w : l = req[d].l /\ l \in Liodn => EntryOf(l, w)' = EntryOf(l, w)
    BY <1>4, <2>3
  <2>6. EntryOf(req[d].l, req[d].w)' = EntryOf(req[d].l, req[d].w)
    <3> DEFINE l == req[d].l
               w == req[d].w
    <3>1. req' = req
      BY <1>2
    <3>2. \A k, v : k = l => EntryOf(k, v)' = EntryOf(k, v)
      BY <2>3, <2>5
    <3> QED BY <3>1, <3>2 DEF EntryOf, First, Prim, Sec
  <2> QED BY <1>2, <1>3, <2>2, <2>6
<1>9. \A d \in Cpu : InWindow(d)' => req'[d].w = 0 \/ req'[d].w < configured'[req'[d].l][1]
  BY <1>2, <1>3 DEF Tables
<1> QED BY <1>2, <1>5, <1>6, <1>7, <1>8, <1>9 DEF Tables

(* A device's reservation, while its owner is at work.                      *)
DeviceOk(l) == IF configured[l] = <<>> THEN Unset(l) \/ Failed(l) \/ Owned(l) ELSE Configured(l)

LEMMA OwnerOwned ==
    ASSUME Control, Tables, NEW c \in Cpu, Owner(c), DeviceOk(req[c].l), req[c].l \notin raced
    PROVE  LET l == req[c].l IN
           /\ l \in Liodn /\ configured[l] = <<>> /\ Building(c, l) /\ asked[l] = NothingAsked /\ Works(c, l)
           /\ req[c] \in Configs /\ ~InWindow(c)
           /\ \A d \in Cpu \ {c} : ~Pending(d, Prim(l)) /\ (Works(d, l) => pc[d] \in Waiting)
<1> DEFINE l == req[c].l
<1>1. l \in Liodn /\ ~Live(l) /\ req[c] \in Configs /\ ~InWindow(c)
  BY OwnerNotLive
<1>2. configured[l] = <<>>
  BY <1>1 DEF Live
<1>3. Works(c, l)
  BY DEF Works, Owner
<1>4. ~Unset(l) /\ ~Failed(l)
  BY <1>3 DEF Unset, Failed
<1>5. Owned(l)
  BY <1>2, <1>4 DEF DeviceOk
<1>6. PICK d \in Cpu : /\ Works(d, l) /\ Owner(d) /\ Building(d, l)
                       /\ \A b \in Cpu \ {d} : ~Pending(b, Prim(l)) /\ (Works(b, l) => pc[b] \in Waiting)
  BY <1>5 DEF Owned
<1>7. c = d
  BY <1>3, <1>6 DEF Owner, Waiting
<1> QED BY <1>1, <1>2, <1>3, <1>5, <1>6, <1>7 DEF Owned

LEMMA EmptySees ==
    ASSUME NEW c \in Cpu, buf[c] = <<>>
    PROVE  \A e, f : Load(c, e, f) = mem[e][f] /\ ~Pending(c, e)
<1>1. DOMAIN buf[c] = {}
  OBVIOUS
<1>2. \A e : ~Pending(c, e)
  BY <1>1 DEF Pending
<1>3. \A e, f : Seen(buf[c], mem, e, f) = mem[e][f]
  BY <1>1, SeenNone
<1> QED BY <1>2, <1>3, Loads

(* What becomes of a device's secondary entries when its owner returns.     *)
LEMMA ReturnsOwner ==
    ASSUME Control, Tables, NEW c \in Cpu, Return(c), req[c].fn = "config_ppaace",
           DeviceOk(req[c].l), req[c].l \notin raced
    PROVE  LET l == req[c].l IN
           /\ Owner(c) /\ configured[l] = <<>> /\ configured'[l] = Append(<<>>, req[c].cnt)
           /\ configured'[l] # <<>> /\ configured'[l][1] = req[c].cnt
           /\ req[c].cnt \in Nat /\ mem[Prim(l)].af.wse
           /\ req[c].cnt > 0 => Holds(c) /\ First(l) = tmp[c]
           /\ \A d \in Cpu : ~Pending(d, Prim(l)) /\ (d # c /\ Works(d, l) => pc[d] \in Waiting)
<1> DEFINE l == req[c].l
<1>1. pc[c] = "sync" /\ buf[c] = <<>>
  BY DEF Return, synced
<1>2. Owner(c)
  BY <1>1 DEF Owner
<1>3. /\ l \in Liodn /\ configured[l] = <<>> /\ Building(c, l) /\ req[c] \in Configs
      /\ \A d \in Cpu \ {c} : ~Pending(d, Prim(l)) /\ (Works(d, l) => pc[d] \in Waiting)
  BY <1>2, OwnerOwned
<1>4. configured'[l] = Append(configured[l], req[c].cnt)
  <2> DEFINE r == req[c]
  <2>1. configured'[r.l] = (IF r.fn = "config_ppaace" THEN Append(configured[r.l], r.cnt) ELSE configured[r.l])
    BY Returns
  <2> QED BY <2>1
<1>5. req[c].cnt \in Nat
  BY <1>3, Fields, CountsAssumption
<1>6. Append(<<>>, req[c].cnt) # <<>> /\ Append(<<>>, req[c].cnt)[1] = req[c].cnt
  OBVIOUS
<1>7. ~Pending(c, Prim(l)) /\ Load(c, Prim(l), "fspi") = First(l)
  BY <1>1, EmptySees DEF First
<1>8. mem[Prim(l)].af.wse /\ (req[c].cnt > 0 => First(l) = tmp[c])
  BY <1>1, <1>3, <1>7 DEF Building
<1>9. req[c].cnt > 0 => Holds(c)
  BY <1>1 DEF Holds
<1> QED BY <1>2, <1>3, <1>4, <1>5, <1>6, <1>7, <1>8, <1>9

LEMMA ReturnTables ==
    ASSUME Control, Tables, NEW c \in Cpu, Return(c), req[c].l \notin raced => DeviceOk(req[c].l)
    PROVE  Tables'
<1> DEFINE r == req[c]
           l == r.l
<1>1. /\ r.l \in Liodn /\ r \in Configs \cup Switches \cup Windowed
      /\ pc[c] = "sync" /\ buf[c] = <<>> /\ pc'[c] = "idle"
      /\ \A d \in Cpu \ {c} : pc'[d] = pc[d]
      /\ UNCHANGED <<mem, buf, lock, pamu_fspi, req, tmp, calls, granted, raced>>
      /\ \A k \in Liodn \ {r.l} : configured'[k] = configured[k] /\ asked'[k] = asked[k]
      /\ configured'[r.l] = (IF r.fn = "config_ppaace" THEN Append(configured[r.l], r.cnt) ELSE configured[r.l])
  BY Returns
<1>2. \A d \in Cpu : /\ InWindow(d)' => d # c /\ InWindow(d)
                     /\ Holds(d)' => d # c /\ Holds(d)
                     /\ Owner(d)' => d # c /\ Owner(d)
                     /\ \A k : Works(d, k)' => d # c /\ Works(d, k)
  BY <1>1 DEF InWindow, Holds, Owner, Works
<1>3. r.fn = "config_ppaace" => Owner(c) /\ ~Live(l)
  BY <1>1, OwnerNotLive DEF Owner
<1> DEFINE New(k) == k = l /\ r.fn = "config_ppaace" /\ l \notin raced
<1>4. \A k \in Liodn : Live(k)' => New(k) \/ (Live(k) /\ configured'[k] = configured[k])
  <2> SUFFICES ASSUME NEW k \in Liodn, Live(k)', ~New(k) PROVE Live(k) /\ configured'[k] = configured[k]
    OBVIOUS
  <2>1. CASE \E d \in Cpu : InWindow(d)' /\ req'[d].l = k
    <3>1. Live(k)
      BY <1>1, <1>2, <2>1 DEF Live
    <3> QED BY <1>1, <1>3, <3>1
  <2>2. CASE k \notin raced' /\ configured'[k] # <<>>
    <3>1. configured'[k] = configured[k]
      BY <1>1, <2>2
    <3> QED BY <1>1, <2>2, <3>1 DEF Live
  <2> QED BY <2>1, <2>2 DEF Live
<1>5. \A k \in Liodn : New(k) =>
         /\ configured'[k] # <<>> /\ configured'[k][1] = r.cnt
         /\ r.cnt \in Nat /\ mem[Prim(k)].af.wse
         /\ r.cnt > 0 => Holds(c) /\ First(k) = tmp[c]
         /\ \A d \in Cpu : ~Pending(d, Prim(k)) /\ (d # c /\ Works(d, k) => pc[d] \in Waiting)
  <2> SUFFICES ASSUME New(l)
               PROVE  /\ configured'[l] # <<>> /\ configured'[l][1] = r.cnt
                      /\ r.cnt \in Nat /\ mem[Prim(l)].af.wse
                      /\ r.cnt > 0 => Holds(c) /\ First(l) = tmp[c]
                      /\ \A d \in Cpu : ~Pending(d, Prim(l)) /\ (d # c /\ Works(d, l) => pc[d] \in Waiting)
    OBVIOUS
  <2> QED BY ReturnsOwner
<1>6. \A k \in Liodn : LiveMulti(k)' =>
         /\ First(k)' = First(k)
         /\ \/ LiveMulti(k) /\ configured'[k] = configured[k]
            \/ New(k) /\ Holds(c) /\ First(k) = tmp[c] /\ configured'[k][1] = r.cnt
  <2> SUFFICES ASSUME NEW k \in Liodn, LiveMulti(k)'
               PROVE  /\ First(k)' = First(k)
                      /\ \/ LiveMulti(k) /\ configured'[k] = configured[k]
                         \/ New(k) /\ Holds(c) /\ First(k) = tmp[c] /\ configured'[k][1] = r.cnt
    OBVIOUS
  <2>1. First(k)' = First(k)
    BY <1>1 DEF First, Prim
  <2>2. Live(k)' /\ configured'[k][1] > 0
    BY DEF LiveMulti, Multi
  <2>3. CASE New(k)
    <3>1. /\ configured'[k][1] = r.cnt /\ (r.cnt > 0 => Holds(c) /\ First(k) = tmp[c])
      BY <1>5, <2>3
    <3> HIDE DEF New
    <3> QED BY <2>1, <2>2, <2>3, <3>1
  <2>4. CASE ~New(k)
    <3>1. Live(k) /\ configured'[k] = configured[k]
      BY <1>4, <2>2, <2>4
    <3> QED BY <2>1, <2>2, <3>1 DEF LiveMulti, Multi
  <2> QED BY <2>3, <2>4
<1>7. ASSUME NEW k \in Liodn, Live(k)' PROVE Settled(k)'
  <2>1. CASE New(k)
    <3>1. /\ configured'[k] # <<>> /\ mem[Prim(k)].af.wse
          /\ \A d \in Cpu : ~Pending(d, Prim(k)) /\ (d # c /\ Works(d, k) => pc[d] \in Waiting)
      BY <1>5, <2>1
    <3> HIDE DEF New, r, l
    <3>2. \A d \in Cpu : Works(d, k)' => ~Owner(d)'
      <4> SUFFICES ASSUME NEW d \in Cpu, Works(d, k)' PROVE ~Owner(d)'
        OBVIOUS
      <4>1. pc[d] \in Waiting
        BY <1>2, <3>1
      <4> QED BY <1>2, <4>1 DEF Owner, Waiting
    <3> QED BY <1>1, <3>1, <3>2 DEF Settled, Pending, IsTo, Prim
  <2>2. CASE ~New(k)
    <3>1. Live(k) /\ configured'[k] = configured[k]
      BY <1>4, <1>7, <2>2
    <3> HIDE DEF New, r, l
    <3>2. Settled(k)
      BY <3>1 DEF Tables
    <3>3. \A d \in Cpu : Works(d, k)' => ~Owner(d)'
      BY <1>2, <3>2 DEF Settled
    <3> QED BY <1>1, <3>1, <3>2, <3>3 DEF Settled, IsTo, Prim
  <2> QED BY <2>1, <2>2
<1>8. ASSUME NEW d \in Cpu, InWindow(d)' PROVE req'[d].w = 0 \/ req'[d].w < configured'[req'[d].l][1]
  <2>1. InWindow(d) /\ d # c
    BY <1>2, <1>8
  <2>2. req[d].l \in Liodn /\ Live(req[d].l) /\ (req[d].w = 0 \/ req[d].w < configured[req[d].l][1])
    BY <2>1, WindowEntry DEF Tables
  <2>3. configured'[req[d].l] = configured[req[d].l]
    BY <1>1, <1>3, <2>2
  <2> QED BY <1>1, <2>2, <2>3
<1>9. Claims /\ Fresh
  BY DEF Tables
<1>10. \A d \in Cpu : Holds(d)' => tmp'[d] + req'[d].cnt - 1 <= pamu_fspi'
  BY <1>1, <1>2, <1>9 DEF Claims
<1> HIDE DEF New
<1>11. \A k \in Liodn : LiveMulti(k)' => First(k)' + configured'[k][1] - 1 <= pamu_fspi'
  BY <1>1, <1>6, <1>9 DEF Claims
<1>12. \A d, b \in Cpu : Holds(d)' /\ Holds(b)' /\ d # b => Apart(tmp'[d], req'[d].cnt, tmp'[b], req'[b].cnt)
  BY <1>1, <1>2, <1>9 DEF Claims
<1>13. \A k \in Liodn, d \in Cpu : LiveMulti(k)' /\ Holds(d)' =>
          Apart(First(k)', configured'[k][1], tmp'[d], req'[d].cnt)
  BY <1>1, <1>2, <1>6, <1>9 DEF Claims
<1>14. \A k, m \in Liodn : LiveMulti(k)' /\ LiveMulti(m)' /\ k # m =>
          Apart(First(k)', configured'[k][1], First(m)', configured'[m][1])
  <2> SUFFICES ASSUME NEW k \in Liodn, NEW m \in Liodn, LiveMulti(k)', LiveMulti(m)', k # m
               PROVE  Apart(First(k), configured'[k][1], First(m), configured'[m][1])
    BY <1>6
  <2>1. ~(New(k) /\ New(m))
    BY DEF New
  <2>2. CASE ~New(k) /\ ~New(m)
    BY <1>6, <1>9, <2>2 DEF Claims
  <2>3. CASE New(k)
    <3>1. /\ LiveMulti(m) /\ configured'[m] = configured[m]
          /\ Apart(First(m), configured[m][1], tmp[c], r.cnt) \/ (LiveMulti(k) /\ configured'[k] = configured[k])
          /\ (First(k) = tmp[c] /\ configured'[k][1] = r.cnt) \/ (LiveMulti(k) /\ configured'[k] = configured[k])
      BY <1>6, <1>9, <2>1, <2>3 DEF Claims
    <3>2. CASE LiveMulti(k) /\ configured'[k] = configured[k]
      BY <1>9, <3>1, <3>2 DEF Claims
    <3>3. CASE ~(LiveMulti(k) /\ configured'[k] = configured[k])
      BY <3>1, <3>3 DEF Apart
    <3> QED BY <3>2, <3>3
  <2>4. CASE New(m)
    <3>1. /\ LiveMulti(k) /\ configured'[k] = configured[k]
          /\ Apart(First(k), configured[k][1], tmp[c], r.cnt) \/ (LiveMulti(m) /\ configured'[m] = configured[m])
          /\ (First(m) = tmp[c] /\ configured'[m][1] = r.cnt) \/ (LiveMulti(m) /\ configured'[m] = configured[m])
      BY <1>6, <1>9, <2>1, <2>4 DEF Claims
    <3>2. CASE LiveMulti(m) /\ configured'[m] = configured[m]
      BY <1>9, <3>1, <3>2 DEF Claims
    <3>3. CASE ~(LiveMulti(m) /\ configured'[m] = configured[m])
      BY <3>1, <3>3 DEF Apart
    <3> QED BY <3>2, <3>3
  <2> QED BY <2>2, <2>3, <2>4
<1>15. Claims'
  BY <1>10, <1>11, <1>12, <1>13, <1>14 DEF Claims, Apart
<1>16. Fresh'
  BY <1>1, <1>2, <1>9 DEF Fresh, Sec
<1>17. Origins'
  <2> SUFFICES ASSUME NEW d \in Cpu, NEW n \in 0 .. NSpaace - 1, Pending(d, Sec(n))'
               PROVE  /\ InWindow(d)' /\ pc'[d] \in Active /\ req'[d].w > 0
                      /\ Sec(n) = EntryOf(req[d].l, req[d].w)'
    BY DEF Origins, Sec
  <2>1. Pending(d, Sec(n))
    BY <1>1 DEF Pending, Sec
  <2>2. InWindow(d) /\ pc[d] \in Active /\ req[d].w > 0 /\ Sec(n) = EntryOf(req[d].l, req[d].w)
    BY <2>1 DEF Tables, Origins
  <2>3. d # c
    BY <1>1, <2>1, EmptySees
  <2>4. InWindow(d)' /\ pc'[d] = pc[d]
    BY <1>1, <2>2, <2>3 DEF InWindow
  <2>5. EntryOf(req[d].l, req[d].w)' = EntryOf(req[d].l, req[d].w)
    BY <1>1 DEF EntryOf, First, Prim, Sec
  <2> QED BY <1>1, <2>2, <2>4, <2>5
<1>18. mem' \in [Entry -> EntryType] /\ buf' \in [Cpu -> Seq(StoreType)]
  BY <1>1 DEF Tables
<1> QED BY <1>7, <1>8, <1>15, <1>16, <1>17, <1>18 DEF Tables

LEMMA TablesStep ==
    ASSUME Control, Tables, Devices, NEW c \in Cpu, Step(c) PROVE Tables'
<1>1. ASSUME Call(c) PROVE Tables'
  <2>1. PICK l \in Liodn \ raced : \E r \in Requests(l) : Entered(c, r, r.fn)
    BY <1>1 DEF Call
  <2>2. PICK r \in Requests(l) : Entered(c, r, r.fn)
    BY <2>1
  <2>3. Enters(c, l, r)
    BY <2>2 DEF Enters
  <2> QED BY <2>3, EntersTables
<1>2. ASSUME Return(c) PROVE Tables'
  <2> DEFINE r == req[c]
  <2>1. r.l \in Liodn
    BY <1>2, Returns
  <2>2. req[c].l \notin raced => DeviceOk(req[c].l)
    BY <2>1 DEF Devices, DeviceOk
  <2> QED BY <1>2, <2>2, ReturnTables
<1> QED BY <1>1, <1>2, DrainTables, QuietSteps, AllocateTables DEF Step

-----------------------------------------------------------------------------
(* Devices: what a step that does not store to an entry leaves alone        *)

LEMMA Kinds ==
    ASSUME NEW t \in StoreType, NEW e
    PROVE  /\ Denies(t, e) => IsTo(t, e) /\ t.f = "af" /\ t.x \in Word /\ ~t.x.ap
           /\ Pages(t, e) => IsTo(t, e) /\ t.f \in {"twbah", "twbal"} /\ t.x \in Page
           /\ Grants(t, e) => IsTo(t, e) /\ t.f = "af" /\ t.x \in Word /\ t.x.ap /\ t.x.v
           /\ To(t, e, "af") <=> IsTo(t, e) /\ t.f = "af"
           /\ IsTo(t, e) => t # lwsync /\ t.e = e /\ t.f \in Field
           /\ IsTo(t, e) /\ t.f = "af" => t.x \in Word
<1>1. "af" \in Field /\ "twbah" \in Field /\ "twbal" \in Field
  BY DEF Field
<1>2. IsTo(t, e) => t # lwsync /\ t.e = e /\ t.f \in Field
  BY StoreKinds DEF IsTo
<1>3. \A f \in Field : (To(t, e, f) <=> IsTo(t, e) /\ t.f = f)
  BY ToIs
<1>4. /\ IsTo(t, e) /\ t.f = "af" => t.x \in Word
      /\ IsTo(t, e) /\ t.f \in {"twbah", "twbal"} => t.x \in Page
  BY StoreKinds DEF IsTo
<1> QED BY <1>1, <1>2, <1>3, <1>4 DEF Denies, Pages, Grants

Untouched(e) ==
    /\ mem'[e] = mem[e]
    /\ \A d \in Cpu : /\ Same(buf[d], buf'[d], e)
                      /\ \A f \in Field : Seen(buf'[d], mem', e, f) = Seen(buf[d], mem, e, f)

LEMMA UntouchedFacts ==
    ASSUME Tables, buf' \in [Cpu -> Seq(StoreType)], NEW e, Untouched(e), NEW d \in Cpu
    PROVE  /\ mem'[e] = mem[e]
           /\ Pending(d, e)' <=> Pending(d, e)
           /\ Denied(d, e)' <=> Denied(d, e)
           /\ Paged(d, e)' <=> Paged(d, e)
           /\ Granting(d, e)' <=> Granting(d, e)
           /\ \A S : AFs(d, e, S) => AFs(d, e, S)'
           /\ Ordered(buf[d], e) => Ordered(buf'[d], e)
           /\ Fenced(buf[d], e) => Fenced(buf'[d], e)
           /\ \A f \in Field : Load(d, e, f)' = Load(d, e, f)
           /\ \A i \in DOMAIN buf'[d] : IsTo(buf'[d][i], e) => \E j \in DOMAIN buf[d] : buf'[d][i] = buf[d][j]
<1> DEFINE b == buf[d]
           b2 == buf'[d]
<1>1. /\ \A i \in DOMAIN b : b[i] \in StoreType
      /\ \A i \in DOMAIN b2 : b2[i] \in StoreType
  BY Typed, ElementOfSeq
<1>2. /\ \A j \in DOMAIN b2 : IsTo(b2[j], e) => \E k \in DOMAIN b : b2[j] = b[k]
      /\ \A k \in DOMAIN b : IsTo(b[k], e) => \E j \in DOMAIN b2 : b2[j] = b[k]
      /\ Ordered(b, e) => Ordered(b2, e)
      /\ Fenced(b, e) => Fenced(b2, e)
      /\ mem'[e] = mem[e]
      /\ \A f \in Field : Seen(b2, mem', e, f) = Seen(b, mem, e, f)
  BY DEF Untouched, Same
<1>3. Pending(d, e)' <=> Pending(d, e)
  BY <1>2 DEF Pending
<1>4. Denied(d, e)' <=> Denied(d, e)
  <2>1. \A i \in DOMAIN b : Denies(b[i], e) => IsTo(b[i], e)
    BY <1>1, Kinds
  <2>2. \A i \in DOMAIN b2 : Denies(b2[i], e) => IsTo(b2[i], e)
    BY <1>1, Kinds
  <2> QED BY <1>2, <2>1, <2>2 DEF Denied
<1>5. Paged(d, e)' <=> Paged(d, e)
  <2>1. \A i \in DOMAIN b : Pages(b[i], e) => IsTo(b[i], e)
    BY <1>1, Kinds
  <2>2. \A i \in DOMAIN b2 : Pages(b2[i], e) => IsTo(b2[i], e)
    BY <1>1, Kinds
  <2> QED BY <1>2, <2>1, <2>2 DEF Paged
<1>6. Granting(d, e)' <=> Granting(d, e)
  <2>1. \A i \in DOMAIN b : Grants(b[i], e) => IsTo(b[i], e)
    BY <1>1, Kinds
  <2>2. \A i \in DOMAIN b2 : Grants(b2[i], e) => IsTo(b2[i], e)
    BY <1>1, Kinds
  <2> QED BY <1>2, <2>1, <2>2 DEF Granting
<1>7. ASSUME NEW S, AFs(d, e, S) PROVE AFs(d, e, S)'
  <2>1. \A i \in DOMAIN b2 : To(b2[i], e, "af") => IsTo(b2[i], e)
    BY <1>1, Kinds
  <2> QED BY <1>2, <1>7, <2>1 DEF AFs
<1>8. \A f \in Field : Load(d, e, f)' = Load(d, e, f)
  BY <1>2, Loads, LoadsNext
<1> QED BY <1>2, <1>3, <1>4, <1>5, <1>6, <1>7, <1>8

LEMMA AtEntry ==
    ASSUME NEW c, NEW l, NEW w, NEW e, EntryOf(l, w)' = e
    PROVE  /\ StageAt(c, l, w, e)' => Stage(c, l, w)'
           /\ RestAt(l, w, e)' => Rest(l, w)'
  BY DEF Stage, Rest

LEMMA WordSame ==
    ASSUME NEW l, NEW w, configured'[l] = configured[l]
    PROVE  /\ \A v, page : WordOf(l, w, v, page)' = WordOf(l, w, v, page)
           /\ Multi(l)' = Multi(l)
  BY DEF WordOf, Multi

LEMMA RestKept ==
    ASSUME Tables, buf' \in [Cpu -> Seq(StoreType)], NEW l, NEW w, NEW e, Untouched(e), RestAt(l, w, e),
           configured'[l] = configured[l], asked'[l].page[w] = asked[l].page[w],
           w = 0 => asked'[l].v = asked[l].v
    PROVE  RestAt(l, w, e)'
<1>1. \A d \in Cpu : Pending(d, e)' <=> Pending(d, e)
  BY UntouchedFacts
<1>2. mem'[e] = mem[e]
  BY DEF Untouched
<1>3. WordOf(l, w, asked[l].v, asked[l].page[w])' = WordOf(l, w, asked[l].v, asked[l].page[w])
  BY DEF WordOf, Multi
<1> QED BY <1>1, <1>2, <1>3 DEF RestAt

LEMMA StageKept ==
    ASSUME Tables, buf' \in [Cpu -> Seq(StoreType)], NEW c \in Cpu, NEW l, NEW w, NEW e, Untouched(e),
           StageAt(c, l, w, e), pc'[c] = pc[c], req'[c] = req[c],
           configured'[l] = configured[l], asked'[l] = asked[l], granted[l][w] \subseteq granted'[l][w]
    PROVE  StageAt(c, l, w, e)'
<1>1. \A d \in Cpu : Pending(d, e)' <=> Pending(d, e)
  BY UntouchedFacts
<1>2. /\ mem'[e] = mem[e]
      /\ Denied(c, e)' <=> Denied(c, e)
      /\ Paged(c, e)' <=> Paged(c, e)
      /\ Granting(c, e)' <=> Granting(c, e)
      /\ \A S : AFs(c, e, S) => AFs(c, e, S)'
      /\ Ordered(buf[c], e) => Ordered(buf'[c], e)
      /\ Fenced(buf[c], e) => Fenced(buf'[c], e)
      /\ \A f \in Field : Load(c, e, f)' = Load(c, e, f)
  BY UntouchedFacts
<1>3. /\ Load(c, e, "af")' = Load(c, e, "af") /\ Load(c, e, "twbah")' = Load(c, e, "twbah")
      /\ Load(c, e, "twbal")' = Load(c, e, "twbal")
  BY <1>2 DEF Field
<1>4. InWindow(c)' <=> InWindow(c)
  BY DEF InWindow
<1>5. \A page : SeesPage(c, e, page)' <=> SeesPage(c, e, page)
  BY <1>3 DEF SeesPage
<1>6. AFs(c, e, {x \in Word : ~x.v}) => AFs(c, e, {x \in Word : ~x.v})'
  BY <1>2
<1>7. MadeAt(c, l, w, e)'
  <2>1. MadeAt(c, l, w, e)
    BY DEF StageAt
  <2> DEFINE page == asked[l].page[w]
             page2 == IF InWindow(c) THEN req[c].rpn ELSE page
             v2 == CASE req[c].fn = "enable" -> TRUE [] req[c].fn = "disable" -> FALSE
                     [] req[c].fn = "config_spaace" /\ w = 0 -> TRUE [] OTHER -> asked[l].v
  <2>2. /\ WordOf(l, w, v2, page2)' = WordOf(l, w, v2, page2)
        /\ FilledWord(l, w)' = FilledWord(l, w)
        /\ WordOf(l, w, asked[l].v, page)' = WordOf(l, w, asked[l].v, page)
        /\ page2' = page2 /\ page' = page
    BY <1>4 DEF WordOf, FilledWord, Multi
  <2>3. SeesPage(c, e, page)' = SeesPage(c, e, page) /\ SeesPage(c, e, page2)' = SeesPage(c, e, page2)
    BY <1>3, <2>2 DEF SeesPage
  <2>4. CASE pc[c] = "sync"
    BY <1>3, <2>1, <2>2, <2>3, <2>4 DEF MadeAt
  <2>5. CASE pc[c] = "spaace_valid"
    BY <1>2, <1>3, <1>6, <2>1, <2>2, <2>3, <2>5 DEF MadeAt
  <2>6. CASE pc[c] = "move"
    BY <1>2, <1>3, <2>1, <2>2, <2>3, <2>6 DEF MadeAt
  <2>7. CASE pc[c] = "allow"
    BY <1>2, <1>3, <2>1, <2>2, <2>3, <2>7 DEF MadeAt
  <2> QED BY <2>1, <2>4, <2>5, <2>6, <2>7 DEF MadeAt
<1>8. (w = 0 => mem[e].af.mw = Multi(l) /\ AFs(c, e, {x \in Word : x.mw = Multi(l)}))'
  <2>1. Multi(l)' = Multi(l)
    BY WordSame
  <2>2. AFs(c, e, {x \in Word : x.mw = Multi(l)}) => AFs(c, e, {x \in Word : x.mw = Multi(l)})'
    BY <1>2, <2>1 DEF AFs
  <2> QED BY <1>2, <2>1, <2>2 DEF StageAt
<1> QED BY <1>1, <1>2, <1>3, <1>7, <1>8 DEF StageAt

SameCalls(l) ==
    \A d \in Cpu : /\ Works(d, l)' <=> Works(d, l)
                   /\ Works(d, l) => pc'[d] = pc[d] /\ req'[d] = req[d] /\ tmp'[d] = tmp[d]

(* A step that does not concern a device that is not configured.            *)
LEMMA UnconfiguredKept ==
    ASSUME Control, Tables, buf' \in [Cpu -> Seq(StoreType)], NEW l \in Liodn, SameCalls(l), Untouched(Prim(l)),
           asked'[l] = asked[l], Unset(l) \/ Failed(l) \/ Owned(l)
    PROVE  (Unset(l) \/ Failed(l) \/ Owned(l))'
<1> DEFINE e == Prim(l)
<1>1. /\ mem'[e] = mem[e]
      /\ \A d \in Cpu : \A i \in DOMAIN buf'[d] : IsTo(buf'[d][i], e) => \E j \in DOMAIN buf[d] : buf'[d][i] = buf[d][j]
      /\ \A d \in Cpu : Pending(d, e)' => Pending(d, e)
      /\ \A d \in Cpu : \A S : AFs(d, e, S) => AFs(d, e, S)'
      /\ \A d \in Cpu, f \in Field : Load(d, e, f)' = Load(d, e, f)
  <2>1. ASSUME NEW d \in Cpu
        PROVE  /\ Pending(d, e)' => Pending(d, e)
               /\ \A S : AFs(d, e, S) => AFs(d, e, S)'
               /\ \A f \in Field : Load(d, e, f)' = Load(d, e, f)
               /\ \A i \in DOMAIN buf'[d] : IsTo(buf'[d][i], e) => \E j \in DOMAIN buf[d] : buf'[d][i] = buf[d][j]
    BY UntouchedFacts DEF Prim
  <2>2. mem'[e] = mem[e]
    BY DEF Untouched
  <2> QED BY <2>1, <2>2
<1>2. Prim(l)' = Prim(l)
  BY DEF Prim
<1>3. \A d \in Cpu : Works(d, l)' => /\ Works(d, l) /\ pc'[d] = pc[d] /\ req'[d] = req[d] /\ tmp'[d] = tmp[d]
                                     /\ Owner(d)' <=> Owner(d)
  BY DEF SameCalls, Owner
<1>4. \A d \in Cpu : Works(d, l) => /\ Works(d, l)' /\ pc'[d] = pc[d] /\ req'[d] = req[d] /\ tmp'[d] = tmp[d]
                                    /\ Owner(d)' <=> Owner(d)
  BY DEF SameCalls, Owner
<1> HIDE DEF e
<1>5. CASE Unset(l)
  <2>1. \A d \in Cpu : /\ Works(d, l)' => /\ ~Owner(d)' /\ pc'[d] # "enable_sync"
                                          /\ (pc'[d] = "sync" => req'[d].fn = "disable")
                       /\ \A i \in DOMAIN buf'[d] : IsTo(buf'[d][i], e) =>
                             /\ buf'[d][i].f = "af" /\ buf'[d][i].x = Blank
                             /\ Works(d, l)' /\ pc'[d] = "sync" /\ req'[d].fn = "disable"
    BY <1>1, <1>3, <1>4, <1>5 DEF Unset, e
  <2> QED BY <1>1, <1>5, <2>1 DEF Unset, e, IsTo, Prim
<1>6. CASE Failed(l)
  <2>1. \A d \in Cpu : /\ Works(d, l)' => ~Owner(d)'
                       /\ \A i \in DOMAIN buf'[d] : IsTo(buf'[d][i], e) =>
                             buf'[d][i].f = "af" /\ buf'[d][i].x \in Dead
    BY <1>1, <1>3, <1>6 DEF Failed, e
  <2> QED BY <1>1, <1>6, <2>1 DEF Failed, e, IsTo, Prim
<1>7. CASE Owned(l)
  <2>1. PICK c \in Cpu : /\ Works(c, l) /\ Owner(c) /\ Building(c, l)
                         /\ \A d \in Cpu \ {c} : ~Pending(d, e) /\ (Works(d, l) => pc[d] \in Waiting)
    BY <1>7 DEF Owned, e
  <2>2. Works(c, l)' /\ Owner(c)' /\ pc'[c] = pc[c] /\ req'[c] = req[c] /\ tmp'[c] = tmp[c]
    BY <1>4, <2>1
  <2>3. \A d \in Cpu \ {c} : ~Pending(d, e)' /\ (Works(d, l)' => pc'[d] \in Waiting)
    BY <1>1, <1>3, <2>1
  <2>4. /\ Load(c, e, "af")' = Load(c, e, "af") /\ Load(c, e, "twbah")' = Load(c, e, "twbah")
        /\ Load(c, e, "twbal")' = Load(c, e, "twbal") /\ Load(c, e, "fspi")' = Load(c, e, "fspi")
    BY <1>1 DEF Field
  <2>5. /\ AFs(c, e, {x \in Word : ~x.v}) => AFs(c, e, {x \in Word : ~x.v})'
        /\ AFs(c, e, {x \in Word : x.wse}) => AFs(c, e, {x \in Word : x.wse})'
        /\ Pending(c, e)' => Pending(c, e)
    BY <1>1
  <2>6. \A i \in DOMAIN buf'[c] : IsTo(buf'[c][i], e) => \E j \in DOMAIN buf[c] : buf'[c][i] = buf[c][j]
    BY <1>1
  <2>7. /\ mem[e].af.v = FALSE /\ AFs(c, e, {x \in Word : ~x.v})
        /\ \/ /\ pc[c] = "reserved" /\ Load(c, e, "af") = Taken
              /\ mem[e] \in {Empty, [Empty EXCEPT !.af = Taken]}
              /\ \A i \in DOMAIN buf[c] : IsTo(buf[c][i], e) => buf[c][i].f = "af" /\ buf[c][i].x = Taken
           \/ /\ pc[c] = "fill" /\ mem[e] = [Empty EXCEPT !.af = Taken] /\ ~Pending(c, e)
           \/ /\ pc[c] \in {"get_fspi", "allocate"} /\ mem[e] = [Empty EXCEPT !.af = Taken]
              /\ \A i \in DOMAIN buf[c] : IsTo(buf[c][i], e) => buf[c][i].f = "af" /\ buf[c][i].x = Taken
           \/ /\ pc[c] = "sync" /\ req[c].cnt = 0
              /\ Load(c, e, "af") = [Taken EXCEPT !.ap = TRUE]
              /\ mem[e].af.wse /\ AFs(c, e, {x \in Word : x.wse})
              /\ Load(c, e, "twbah") = req[c].rpn /\ Load(c, e, "twbal") = req[c].rpn
           \/ /\ pc[c] = "sync" /\ req[c].cnt > 0
              /\ mem[e].af.wse /\ AFs(c, e, {x \in Word : x.wse})
              /\ Load(c, e, "af") = [Taken EXCEPT !.mw = TRUE] /\ Load(c, e, "fspi") = tmp[c]
    BY <2>1 DEF Building, e
  <2>8. Building(c, l)'
    <3>1. /\ mem'[e].af.v = FALSE /\ AFs(c, e, {x \in Word : ~x.v})'
          /\ \/ /\ pc'[c] = "reserved" /\ Load(c, e, "af")' = Taken
                /\ mem'[e] \in {Empty, [Empty EXCEPT !.af = Taken]}
                /\ \A i \in DOMAIN buf'[c] : IsTo(buf'[c][i], e) => buf'[c][i].f = "af" /\ buf'[c][i].x = Taken
             \/ /\ pc'[c] = "fill" /\ mem'[e] = [Empty EXCEPT !.af = Taken] /\ ~Pending(c, e)'
             \/ /\ pc'[c] \in {"get_fspi", "allocate"} /\ mem'[e] = [Empty EXCEPT !.af = Taken]
                /\ \A i \in DOMAIN buf'[c] : IsTo(buf'[c][i], e) => buf'[c][i].f = "af" /\ buf'[c][i].x = Taken
             \/ /\ pc'[c] = "sync" /\ req'[c].cnt = 0
                /\ Load(c, e, "af")' = [Taken EXCEPT !.ap = TRUE]
                /\ mem'[e].af.wse /\ AFs(c, e, {x \in Word : x.wse})'
                /\ Load(c, e, "twbah")' = req'[c].rpn /\ Load(c, e, "twbal")' = req'[c].rpn
             \/ /\ pc'[c] = "sync" /\ req'[c].cnt > 0
                /\ mem'[e].af.wse /\ AFs(c, e, {x \in Word : x.wse})'
                /\ Load(c, e, "af")' = [Taken EXCEPT !.mw = TRUE] /\ Load(c, e, "fspi")' = tmp'[c]
      BY <1>1, <2>2, <2>4, <2>5, <2>6, <2>7
    <3> QED BY <3>1 DEF Building, e, IsTo, Prim
  <2>9. Owned(l)'
    <3>1. \A d \in Cpu \ {c} : ~Pending(d, Prim(l))' /\ (Works(d, l)' => pc'[d] \in Waiting)
      BY <2>3 DEF e
    <3> QED BY <1>7, <2>2, <2>8, <3>1 DEF Owned, Prim
  <2> QED BY <2>9
<1> QED BY <1>5, <1>6, <1>7

(* ... nor one that is.                                                     *)
LEMMA ConfiguredKept ==
    ASSUME Control, Tables, buf' \in [Cpu -> Seq(StoreType)], NEW l \in Liodn, SameCalls(l), Untouched(Prim(l)),
           \A w \in Windows(l) : \A e : e = EntryOf(l, w) => Untouched(e),
           asked'[l] = asked[l], configured'[l] = configured[l], \A w \in Window : granted[l][w] \subseteq granted'[l][w],
           Configured(l)
    PROVE  Configured(l)'
<1>1. /\ Len(configured[l]) = 1 /\ (Single(l) => asked[l].page[0] # NoPage)
      /\ \A c \in Cpu : Works(c, l) /\ pc[c] = "config_spaace" =>
            asked[l].page[req[c].w] = NoPage /\ (req[c].w = 0 => ~asked[l].v)
      /\ \A c \in Cpu : Works(c, l) /\ pc[c] \in {"reconfig_liodn", "reconfig_subwin"} =>
            asked[l].page[req[c].w] # NoPage
      /\ \A w \in Windows(l) : WindowOk(l, w)
  BY DEF Configured
<1>2. /\ Windows(l)' = Windows(l) /\ Windows(l) \subseteq Window
      /\ Single(l)' <=> Single(l)
  BY DEF Windows, HasWindow, Single
<1>3. \A d \in Cpu : /\ Works(d, l)' <=> Works(d, l)
                     /\ Works(d, l)' => pc'[d] = pc[d] /\ req'[d] = req[d]
  BY DEF SameCalls
<1>4. \A d \in Cpu : \A w : AtWork(d, l, w)' <=> AtWork(d, l, w)
  BY <1>3 DEF AtWork, Target, InWindow
<1>5. mem'[Prim(l)] = mem[Prim(l)]
  BY DEF Untouched
<1>6. \A w : EntryOf(l, w)' = EntryOf(l, w)
  BY <1>5 DEF EntryOf, First, Prim, Sec
<1>7. ASSUME NEW w \in Windows(l) PROVE WindowOk(l, w)'
  <2>1. PICK e : e = EntryOf(l, w)
    OBVIOUS
  <2>2. Untouched(e) /\ EntryOf(l, w)' = e /\ w \in Window
    BY <1>2, <1>6, <2>1
  <2>3. CASE \E c \in Cpu : AtWork(c, l, w)
    <3>1. ASSUME NEW c \in Cpu, AtWork(c, l, w)' PROVE Stage(c, l, w)'
      <4>1. AtWork(c, l, w)
        BY <1>4, <3>1
      <4>2. StageAt(c, l, w, e)
        BY <1>1, <2>1, <2>3, <4>1 DEF WindowOk, Stage
      <4>3. pc'[c] = pc[c] /\ req'[c] = req[c]
        BY <1>3, <4>1 DEF AtWork
      <4>4. StageAt(c, l, w, e)'
        BY <2>2, <4>2, <4>3, StageKept
      <4> QED BY <2>2, <4>4, AtEntry
    <3> QED BY <1>4, <2>3, <3>1 DEF WindowOk
  <2>4. CASE ~\E c \in Cpu : AtWork(c, l, w)
    <3>1. RestAt(l, w, e)
      BY <1>1, <2>1, <2>4 DEF WindowOk, Rest
    <3>2. RestAt(l, w, e)'
      BY <2>2, <3>1, RestKept
    <3>3. Rest(l, w)'
      BY <2>2, <3>2, AtEntry
    <3> QED BY <1>4, <2>4, <3>3 DEF WindowOk
  <2> QED BY <2>3, <2>4
<1> QED BY <1>1, <1>2, <1>3, <1>7 DEF Configured

LEMMA DeviceKept ==
    ASSUME Control, Tables, buf' \in [Cpu -> Seq(StoreType)], NEW l \in Liodn, SameCalls(l), Untouched(Prim(l)),
           configured[l] # <<>> => \A w \in Windows(l) : \A e : e = EntryOf(l, w) => Untouched(e),
           asked'[l] = asked[l], configured'[l] = configured[l], \A w \in Window : granted[l][w] \subseteq granted'[l][w],
           DeviceOk(l)
    PROVE  DeviceOk(l)'
<1>1. CASE configured[l] = <<>>
  BY <1>1, UnconfiguredKept DEF DeviceOk
<1>2. CASE configured[l] # <<>>
  BY <1>2, ConfiguredKept DEF DeviceOk
<1> QED BY <1>1, <1>2

(* Which entries a step stores to.                                          *)
LEMMA SameBuffer == \A b, e : Same(b, b, e)
  BY DEF Same

LEMMA StillLeaves == ASSUME mem' = mem, buf' = buf, NEW e PROVE Untouched(e)
  BY SameBuffer DEF Untouched

LEMMA IssueLeaves ==
    ASSUME Tables, NEW c \in Cpu, NEW s, Issues(c, s), NEW e, \A i \in DOMAIN s : ~IsTo(s[i], e)
    PROVE  Untouched(e)
<1>1. /\ buf'[c] = buf[c] \o s
      /\ \A d \in Cpu \ {c} : buf'[d] = buf[d]
  BY Buffers
<1>2. mem' = mem /\ s \in Seq(StoreType) /\ buf[c] \in Seq(StoreType)
  BY Typed DEF Issues
<1>3. /\ Same(buf[c], buf[c] \o s, e)
      /\ \A m, f : f \in Field => Seen(buf[c] \o s, m, e, f) = Seen(buf[c], m, e, f)
  <2> DEFINE b == buf[c]
  <2>1. b \in Seq(StoreType) /\ s \in Seq(StoreType)
    BY <1>2
  <2> HIDE DEF b
  <2>2. /\ Same(b, b \o s, e)
        /\ \A m, f : f \in Field => Seen(b \o s, m, e, f) = Seen(b, m, e, f)
    BY <2>1, Elsewhere
  <2> QED BY <2>2 DEF b
<1>4. ASSUME NEW d \in Cpu
      PROVE  Same(buf[d], buf'[d], e) /\ \A f \in Field : Seen(buf'[d], mem', e, f) = Seen(buf[d], mem, e, f)
  <2>1. CASE d = c
    BY <1>1, <1>2, <1>3, <2>1
  <2>2. CASE d # c
    BY <1>1, <1>2, <2>2, SameBuffer
  <2> QED BY <2>1, <2>2
<1> QED BY <1>2, <1>4 DEF Untouched

LEMMA OutSees ==
    ASSUME Tables, NEW c \in Cpu, NEW i \in DOMAIN buf[c], Out(c, i), NEW e \in Entry, NEW f \in Field
    PROVE  Seen(buf'[c], mem', e, f) = Seen(buf[c], mem, e, f)
<1>1. buf[c] \in Seq(StoreType) /\ mem \in [Entry -> EntryType]
  BY Typed DEF Tables
<1>2. /\ Leaves(buf[c], i) /\ \A j \in 1 .. i - 1 : ~To(buf[c][j], buf[c][i].e, buf[c][i].f)
      /\ mem' = [mem EXCEPT ![buf[c][i].e][buf[c][i].f] = buf[c][i].x]
      /\ buf'[c] = Drained(buf[c], i)
  BY DEF Out
<1> DEFINE b == buf[c]
           b2 == buf'[c]
           m2 == mem'
<1>3. Seen(Drained(b, i), [mem EXCEPT ![b[i].e][b[i].f] = b[i].x], e, f) = Seen(b, mem, e, f)
  BY <1>1, <1>2, SeenDrained DEF Field
<1> QED BY <1>2, <1>3

LEMMA OutLeaves ==
    ASSUME Tables, NEW c \in Cpu, NEW i \in DOMAIN buf[c], Out(c, i), NEW e \in Entry, e # buf[c][i].e
    PROVE  Untouched(e)
<1> DEFINE b == buf[c]
           b2 == buf'[c]
<1>1. b \in Seq(StoreType) /\ Leaves(b, i) /\ b2 = Drained(b, i) /\ mem'[e] = mem[e]
      /\ \A d \in Cpu : d # c => buf'[d] = buf[d]
  BY Typed DEF Out
<1> HIDE DEF b2
<1>2. /\ \A j \in DOMAIN b2 : \E k \in DOMAIN b : k # i /\ b2[j] = b[k]
      /\ \A k \in DOMAIN b : \/ k = i \/ b[k] = lwsync
                             \/ \E j \in DOMAIN b2 : b2[j] = b[k]
      /\ Ordered(b, e) => Ordered(b2, e)
      /\ Fenced(b, e) => Fenced(b2, e)
  BY <1>1, OrderDrained
<1>3. Same(b, b2, e)
  BY <1>2 DEF Same, IsTo
<1>4. \A f \in Field : Seen(b2, mem', e, f) = Seen(b, mem, e, f)
  BY OutSees DEF b2
<1>5. ASSUME NEW d \in Cpu, d # c
      PROVE  Same(buf[d], buf'[d], e) /\ \A f \in Field : Seen(buf'[d], mem', e, f) = Seen(buf[d], mem, e, f)
  <2>1. buf'[d] = buf[d]
    BY <1>1, <1>5
  <2>2. \A f, x : Seen(x, mem', e, f) = Seen(x, mem, e, f)
    BY <1>1 DEF Seen
  <2> QED BY <2>1, <2>2, SameBuffer
<1> QED BY <1>1, <1>3, <1>4, <1>5 DEF Untouched, b2

(* The entries of a device in use are its own, one for each window.         *)
Has(l, w) == w \in Nat /\ (w = 0 \/ w < configured[l][1])

LEMMA WindowHas ==
    ASSUME NEW l \in Liodn, NEW w \in Windows(l)
    PROVE  w \in Window /\ Has(l, w)
  BY Zero DEF Windows, HasWindow, Has

LEMMA HasEntry ==
    ASSUME Control, Tables, NEW l \in Liodn, Live(l), NEW w, Has(l, w)
    PROVE  /\ EntryOf(l, w) \in Entry
           /\ w = 0 => EntryOf(l, w) = Prim(l)
           /\ w # 0 => /\ LiveMulti(l) /\ EntryOf(l, w) = Sec(First(l) + w - 1) /\ First(l) \in Nat /\ w > 0
                       /\ configured[l][1] \in Nat /\ w < configured[l][1] /\ First(l) + w - 1 \in 0 .. NSpaace - 1
<1>1. CASE w = 0
  BY <1>1, Entries DEF EntryOf
<1>2. CASE w # 0
  <2>1. configured[l] # <<>> /\ configured[l][1] \in Nat
    BY LiveSees, Counted DEF Tables, Settled
  <2>2. w > 0 /\ w < configured[l][1] /\ w \in Nat
    BY <1>2 DEF Has
  <2>3. LiveMulti(l)
    BY <2>1, <2>2 DEF LiveMulti, Multi
  <2>4. First(l) \in 0 .. NSpaace /\ First(l) + configured[l][1] - 1 <= pamu_fspi /\ pamu_fspi \in 0 .. NSpaace
    BY <2>3, LiveFacts DEF Tables, Claims, Control
  <2>5. First(l) + w - 1 \in 0 .. NSpaace - 1 /\ First(l) \in Nat
    BY <2>1, <2>2, <2>4, NSpaaceAssumption
  <2>6. EntryOf(l, w) = Sec(First(l) + w - 1)
    BY <1>2 DEF EntryOf
  <2> QED BY <1>2, <2>1, <2>2, <2>3, <2>5, <2>6, Entries
<1> QED BY <1>1, <1>2

LEMMA Spread ==
    ASSUME Control, Tables, NEW l \in Liodn, NEW k \in Liodn, Live(l), Live(k),
           NEW w, NEW v, Has(l, w), Has(k, v), EntryOf(l, w) = EntryOf(k, v)
    PROVE  l = k /\ w = v
<1>1. CASE w = 0
  <2>1. EntryOf(l, w) = Prim(l)
    BY <1>1, HasEntry
  <2>2. v = 0
    <3>1. v # 0 => EntryOf(k, v) = Sec(First(k) + v - 1)
      BY HasEntry
    <3> QED BY <2>1, <3>1, Entries
  <2>3. EntryOf(k, v) = Prim(k)
    BY <2>2, HasEntry
  <2> QED BY <1>1, <2>1, <2>2, <2>3, Entries
<1>2. CASE v = 0
  <2>1. EntryOf(k, v) = Prim(k)
    BY <1>2, HasEntry
  <2>2. w = 0
    <3>1. w # 0 => EntryOf(l, w) = Sec(First(l) + w - 1)
      BY HasEntry
    <3> QED BY <2>1, <3>1, Entries
  <2> QED BY <1>1, <2>2
<1>3. CASE w # 0 /\ v # 0
  <2> DEFINE a == First(l)
             n == configured[l][1]
             b == First(k)
             m == configured[k][1]
  <2>1. /\ LiveMulti(l) /\ EntryOf(l, w) = Sec(a + w - 1) /\ a \in Nat /\ w > 0 /\ n \in Nat /\ w < n
    BY <1>3, HasEntry
  <2>2. /\ LiveMulti(k) /\ EntryOf(k, v) = Sec(b + v - 1) /\ b \in Nat /\ v > 0 /\ m \in Nat /\ v < m
    BY <1>3, HasEntry
  <2>3. a + w - 1 = b + v - 1 /\ w \in Nat /\ v \in Nat
    BY <2>1, <2>2, Entries DEF Has
  <2>4. l # k => Apart(a, n, b, m)
    BY <2>1, <2>2 DEF Tables, Claims
  <2>5. l = k => a = b
    OBVIOUS
  <2> HIDE DEF a, n, b, m
  <2>6. ~Apart(a, n, b, m)
    BY <2>1, <2>2, <2>3 DEF Apart
  <2> QED BY <2>1, <2>2, <2>3, <2>4, <2>5, <2>6
<1> QED BY <1>1, <1>2, <1>3

(* The other devices.                                                       *)
LEMMA OthersCalls ==
    ASSUME NEW c \in Cpu, \A d \in Cpu \ {c} : pc'[d] = pc[d] /\ req'[d] = req[d] /\ tmp'[d] = tmp[d],
           NEW l, ~Works(c, l), ~Works(c, l)'
    PROVE  SameCalls(l)
  BY DEF SameCalls, Works

LEMMA IssueElsewhere ==
    ASSUME Control, Tables, NEW c \in Cpu, NEW s, Quietly(c, s), req[c].l \in Liodn,
           \A d \in Cpu \ {c} : tmp'[d] = tmp[d],
           NEW l \in Liodn, l # req[c].l, l \notin raced, DeviceOk(l)
    PROVE  DeviceOk(l)'
<1> DEFINE k == req[c].l
<1>1. Works2(c) /\ Issues(c, s) /\ Own(c, s)
  BY DEF Quietly
<1>2. req' = req /\ configured' = configured /\ asked' = asked /\ granted' = granted
  BY <1>1 DEF Works2, Goes
<1>3. \A d \in Cpu \ {c} : pc'[d] = pc[d]
  BY <1>1, GoesFacts
<1>4. SameCalls(l)
  BY <1>2, <1>3, OthersCalls DEF Works
<1>5. \A i \in DOMAIN s : s[i] # lwsync =>
         \/ s[i].e = Prim(k)
         \/ /\ InWindow(c) /\ Live(k) /\ req[c].w # 0 /\ Has(k, req[c].w) /\ s[i].e = EntryOf(k, req[c].w)
            /\ \E n : s[i].e = Sec(n)
  <2> SUFFICES ASSUME NEW i \in DOMAIN s, s[i] # lwsync, s[i].e # Prim(k)
               PROVE  /\ InWindow(c) /\ Live(k) /\ req[c].w # 0 /\ Has(k, req[c].w) /\ s[i].e = EntryOf(k, req[c].w)
                      /\ \E n : s[i].e = Sec(n)
    OBVIOUS
  <2>1. InWindow(c) /\ req[c].w > 0 /\ s[i].e = EntryOf(k, req[c].w)
    BY <1>1 DEF Own
  <2>2. /\ req[c].w \in Nat /\ Live(k) /\ req[c].w < configured[k][1]
        /\ EntryOf(k, req[c].w) = Sec(First(k) + req[c].w - 1)
    BY <2>1, WindowEntry
  <2> QED BY <2>1, <2>2 DEF Has
<1>6. \A i \in DOMAIN s : ~IsTo(s[i], Prim(l))
  BY <1>5, Entries DEF IsTo
<1>7. Untouched(Prim(l))
  BY <1>1, <1>6, IssueLeaves
<1>8. ASSUME configured[l] # <<>>, NEW w \in Windows(l), NEW e, e = EntryOf(l, w) PROVE Untouched(e)
  <2>1. Live(l) /\ Has(l, w)
    BY <1>8, WindowHas DEF Live
  <2>2. ASSUME NEW i \in DOMAIN s, IsTo(s[i], e) PROVE FALSE
    <3>1. s[i] # lwsync /\ s[i].e = EntryOf(l, w)
      BY <1>8, <2>2 DEF IsTo
    <3>2. CASE s[i].e = Prim(k)
      <4>1. w # 0
        <5>1. w = 0 => EntryOf(l, w) = Prim(l)
          BY <2>1, HasEntry
        <5> QED BY <3>1, <3>2, <5>1, Entries
      <4>2. EntryOf(l, w) = Sec(First(l) + w - 1)
        BY <2>1, <4>1, HasEntry
      <4> QED BY <3>1, <3>2, <4>2, Entries
    <3>3. CASE InWindow(c) /\ Live(k) /\ Has(k, req[c].w) /\ s[i].e = EntryOf(k, req[c].w)
      BY <2>1, <3>1, <3>3, Spread
    <3> QED BY <1>5, <3>1, <3>2, <3>3
  <2> QED BY <1>1, <2>2, IssueLeaves
<1>9. buf' \in [Cpu -> Seq(StoreType)]
  BY <1>1, Buffers
<1> QED BY <1>2, <1>4, <1>7, <1>8, <1>9, DeviceKept

LEMMA OutElsewhere ==
    ASSUME Control, Tables, NEW c \in Cpu, NEW i \in DOMAIN buf[c], Out(c, i),
           NEW l \in Liodn, l \notin raced, DeviceOk(l), buf[c][i].e # Prim(l),
           configured[l] # <<>> => \A w \in Windows(l) : EntryOf(l, w) # buf[c][i].e
    PROVE  DeviceOk(l)'
<1>1. /\ UNCHANGED <<lock, pamu_fspi, pc, req, tmp, calls, granted, raced, configured, asked>>
      /\ buf' \in [Cpu -> Seq(StoreType)]
  BY DEF Out
<1>2. SameCalls(l)
  BY <1>1 DEF SameCalls, Works
<1>3. Untouched(Prim(l))
  BY OutLeaves, Entries
<1>4. ASSUME configured[l] # <<>>, NEW w \in Windows(l), NEW e, e = EntryOf(l, w) PROVE Untouched(e)
  <2>1. Live(l) /\ Has(l, w)
    BY <1>4, WindowHas DEF Live
  <2>2. e \in Entry /\ e # buf[c][i].e
    BY <1>4, <2>1, HasEntry
  <2> QED BY <2>2, OutLeaves
<1> QED BY <1>1, <1>2, <1>3, <1>4, DeviceKept

LEMMA CallElsewhere ==
    ASSUME Control, Tables, NEW c \in Cpu, mem' = mem, buf' = buf, tmp' = tmp,
           \A d \in Cpu \ {c} : pc'[d] = pc[d] /\ req'[d] = req[d],
           NEW l \in Liodn, ~Works(c, l), ~Works(c, l)', asked'[l] = asked[l], configured'[l] = configured[l],
           \A w \in Window : granted[l][w] \subseteq granted'[l][w], DeviceOk(l)
    PROVE  DeviceOk(l)'
<1>1. SameCalls(l)
  BY OthersCalls
<1>2. Untouched(Prim(l)) /\ \A e : Untouched(e)
  BY StillLeaves
<1>3. buf' \in [Cpu -> Seq(StoreType)]
  BY DEF Tables
<1> QED BY <1>1, <1>2, <1>3, DeviceKept

-----------------------------------------------------------------------------
(* A step on a device that is not configured                                *)

LEMMA WordEq ==
    ASSUME NEW x \in Word, NEW y \in Word, x.v = y.v, x.ap = y.ap, x.mw = y.mw, x.wse = y.wse
    PROVE  x = y
  BY DEF Word

LEMMA Blanks ==
    /\ Blank \in Word /\ Blank.v = FALSE /\ Blank.ap = FALSE /\ Blank.mw = FALSE /\ Blank.wse = FALSE
    /\ Taken \in Word /\ Taken.v = FALSE /\ Taken.ap = FALSE /\ Taken.mw = FALSE /\ Taken.wse = TRUE
    /\ [Taken EXCEPT !.v = TRUE] \in Word
<1>1. Blank \in Word /\ Blank.v = FALSE /\ Blank.ap = FALSE /\ Blank.mw = FALSE /\ Blank.wse = FALSE
  BY DEF Blank, Word
<1>2. /\ Taken \in Word /\ Taken.v = FALSE /\ Taken.ap = FALSE /\ Taken.mw = FALSE /\ Taken.wse = TRUE
  BY DEF Blank, Taken, Word
<1> QED BY <1>1, <1>2, WordEdits

LEMMA WordFields ==
    \A x \in Word :
       /\ \A b : b \in BOOLEAN =>
             /\ [x EXCEPT !.v = b] \in Word /\ [x EXCEPT !.v = b].v = b /\ [x EXCEPT !.v = b].ap = x.ap
             /\ [x EXCEPT !.v = b].mw = x.mw /\ [x EXCEPT !.v = b].wse = x.wse
             /\ [x EXCEPT !.ap = b] \in Word /\ [x EXCEPT !.ap = b].v = x.v /\ [x EXCEPT !.ap = b].ap = b
             /\ [x EXCEPT !.ap = b].mw = x.mw /\ [x EXCEPT !.ap = b].wse = x.wse
       /\ [x EXCEPT !.mw = TRUE] \in Word /\ [x EXCEPT !.mw = TRUE].v = x.v /\ [x EXCEPT !.mw = TRUE].ap = x.ap
       /\ [x EXCEPT !.mw = TRUE].mw = TRUE /\ [x EXCEPT !.mw = TRUE].wse = x.wse
       /\ [x EXCEPT !.wse = TRUE] \in Word /\ [x EXCEPT !.wse = TRUE].v = x.v /\ [x EXCEPT !.wse = TRUE].ap = x.ap
       /\ [x EXCEPT !.wse = TRUE].mw = x.mw /\ [x EXCEPT !.wse = TRUE].wse = TRUE
  BY DEF Word

LEMMA DeadWords ==
    \A y \in Dead : /\ y \in Word /\ y.wse = TRUE /\ y.ap = FALSE /\ y.mw = FALSE
                    /\ [y EXCEPT !.v = TRUE] \in Dead /\ [y EXCEPT !.v = FALSE] \in Dead
<1> SUFFICES ASSUME NEW y \in Dead
             PROVE  /\ y \in Word /\ y.wse = TRUE /\ y.ap = FALSE /\ y.mw = FALSE
                    /\ [y EXCEPT !.v = TRUE] \in Dead /\ [y EXCEPT !.v = FALSE] \in Dead
  OBVIOUS
<1> DEFINE u == [Taken EXCEPT !.v = TRUE]
<1>1. /\ Taken \in Word /\ Taken.v = FALSE /\ Taken.ap = FALSE /\ Taken.mw = FALSE /\ Taken.wse = TRUE
      /\ u \in Word /\ u.v = TRUE /\ u.ap = FALSE /\ u.mw = FALSE /\ u.wse = TRUE
  BY Blanks, WordFields
<1>2. y \in {Taken, u} /\ Dead = {Taken, u}
  BY DEF Dead
<1> HIDE DEF u
<1>3. y \in Word /\ y.wse = TRUE /\ y.ap = FALSE /\ y.mw = FALSE
  BY <1>1, <1>2
<1> DEFINE y1 == [y EXCEPT !.v = TRUE]
           y0 == [y EXCEPT !.v = FALSE]
<1>4. /\ y1 \in Word /\ y1.v = TRUE /\ y1.ap = FALSE /\ y1.mw = FALSE /\ y1.wse = TRUE
      /\ y0 \in Word /\ y0.v = FALSE /\ y0.ap = FALSE /\ y0.mw = FALSE /\ y0.wse = TRUE
  BY <1>3, WordFields
<1>5. y1 = u /\ y0 = Taken
  <2> HIDE DEF y1, y0
  <2>1. y1 = u
    BY <1>1, <1>4, WordEq
  <2>2. y0 = Taken
    BY <1>1, <1>4, WordEq
  <2> QED BY <2>1, <2>2
<1> QED BY <1>2, <1>3, <1>5

LEMMA AppendAll ==
    ASSUME NEW b \in Seq(StoreType), NEW t \in StoreType
    PROVE  /\ Append(b, t) \in Seq(StoreType) /\ DOMAIN Append(b, t) = 1 .. Len(b) + 1 /\ DOMAIN b = 1 .. Len(b)
           /\ Len(b) \in Nat /\ Len(Append(b, t)) = Len(b) + 1
           /\ \A j \in DOMAIN b : j \in DOMAIN Append(b, t) /\ Append(b, t)[j] = b[j]
           /\ Append(b, t)[Len(b) + 1] = t
           /\ \A j \in DOMAIN Append(b, t) : j \in DOMAIN b \/ j = Len(b) + 1
  OBVIOUS

(* What a core sees, and the stores that wait, after one more.              *)
LEMMA AppendSees ==
    ASSUME Tables, NEW c \in Cpu, NEW t \in StoreType, buf'[c] = Append(buf[c], t), mem' = mem
    PROVE  /\ \A e, f : Load(c, e, f)' = IF To(t, e, f) THEN t.x ELSE Load(c, e, f)
           /\ \A i \in DOMAIN buf'[c] : buf'[c][i] = t \/ \E j \in DOMAIN buf[c] : buf'[c][i] = buf[c][j]
<1>1. buf[c] \in Seq(StoreType)
  BY Typed
<1>2. \A e, f : Seen(Append(buf[c], t), mem, e, f) = IF To(t, e, f) THEN t.x ELSE Seen(buf[c], mem, e, f)
  BY <1>1, SeenAppend
<1>3. \A i \in DOMAIN Append(buf[c], t) : Append(buf[c], t)[i] = t \/ \E j \in DOMAIN buf[c] : Append(buf[c], t)[i] = buf[c][j]
  BY <1>1, AppendAll
<1> QED BY <1>2, <1>3, Loads, LoadsNext

(* The other cores.                                                         *)
LEMMA Bystanders ==
    ASSUME Control, Tables, NEW c \in Cpu, NEW s, Quietly(c, s)
    PROVE  /\ pc[c] # "idle" /\ mem' = mem /\ configured' = configured /\ asked' = asked /\ raced' = raced
           /\ granted' = granted /\ req' = req
           /\ \A d \in Cpu \ {c} : pc'[d] = pc[d] /\ buf'[d] = buf[d] /\ (Owner(d)' <=> Owner(d))
           /\ \A d \in Cpu : \A l : Works(d, l)' => Works(d, l)
           /\ \A d \in Cpu \ {c} : \A e : Pending(d, e)' <=> Pending(d, e)
           /\ \A i \in DOMAIN buf'[c] : (\E j \in DOMAIN buf[c] : buf'[c][i] = buf[c][j]) \/ (\E j \in DOMAIN s : buf'[c][i] = s[j])
<1>1. Works2(c) /\ Issues(c, s)
  BY DEF Quietly
<1>2. /\ pc[c] # "idle" /\ mem' = mem /\ configured' = configured /\ asked' = asked /\ raced' = raced
      /\ granted' = granted /\ req' = req
  BY <1>1 DEF Works2, Goes, Issues
<1>3. \A d \in Cpu \ {c} : pc'[d] = pc[d] /\ buf'[d] = buf[d] /\ (Owner(d)' <=> Owner(d))
  BY <1>1, GoesFacts, Buffers
<1>4. \A d \in Cpu : \A l : Works(d, l)' => Works(d, l)
  BY <1>2, <1>3 DEF Works
<1>5. \A d \in Cpu \ {c} : \A e : Pending(d, e)' <=> Pending(d, e)
  BY <1>3 DEF Pending
<1> QED BY <1>1, <1>2, <1>3, <1>4, <1>5, Buffers

LEMMA UnsetStill ==
    ASSUME Control, Tables, NEW c \in Cpu, NEW s, Quietly(c, s), NEW l \in Liodn, req[c].l = l, Unset(l),
           ~Owner(c)', pc'[c] # "enable_sync", pc[c] # "sync", pc'[c] = "sync" => req[c].fn = "disable",
           \A i \in DOMAIN s : s[i].f = "af" /\ s[i].x = Blank /\ pc'[c] = "sync"
    PROVE  Unset(l)'
<1> DEFINE e == Prim(l)
<1>1. /\ pc[c] # "idle" /\ mem' = mem /\ asked' = asked /\ req' = req
      /\ \A d \in Cpu \ {c} : pc'[d] = pc[d] /\ buf'[d] = buf[d] /\ (Owner(d)' <=> Owner(d))
      /\ \A d \in Cpu : \A k : Works(d, k)' => Works(d, k)
      /\ \A i \in DOMAIN buf'[c] : (\E j \in DOMAIN buf[c] : buf'[c][i] = buf[c][j]) \/ (\E j \in DOMAIN s : buf'[c][i] = s[j])
  BY Bystanders
<1> HIDE DEF e
<1>2. /\ mem[e] = Empty /\ asked[l] = NothingAsked
      /\ \A d \in Cpu : /\ Works(d, l) => /\ ~Owner(d) /\ pc[d] # "enable_sync"
                                         /\ (pc[d] = "sync" => req[d].fn = "disable")
                        /\ \A i \in DOMAIN buf[d] : IsTo(buf[d][i], e) =>
                              /\ buf[d][i].f = "af" /\ buf[d][i].x = Blank
                              /\ Works(d, l) /\ pc[d] = "sync" /\ req[d].fn = "disable"
  BY DEF Unset, e
<1>3. ASSUME NEW d \in Cpu, Works(d, l)'
      PROVE  ~Owner(d)' /\ pc'[d] # "enable_sync" /\ (pc'[d] = "sync" => req'[d].fn = "disable")
  <2>1. CASE d = c
    BY <1>1, <2>1
  <2>2. CASE d # c
    BY <1>1, <1>2, <1>3, <2>2
  <2> QED BY <2>1, <2>2
<1>4. ASSUME NEW d \in Cpu, NEW i \in DOMAIN buf'[d], IsTo(buf'[d][i], e)
      PROVE  /\ buf'[d][i].f = "af" /\ buf'[d][i].x = Blank
             /\ Works(d, l)' /\ pc'[d] = "sync" /\ req'[d].fn = "disable"
  <2>1. CASE d = c
    <3>1. ASSUME NEW j \in DOMAIN buf[c], buf'[c][i] = buf[c][j] PROVE FALSE
      BY <1>2, <1>4, <2>1, <3>1
    <3>2. PICK j \in DOMAIN s : buf'[c][i] = s[j]
      BY <1>1, <1>4, <2>1, <3>1
    <3>3. Works(c, l)'
      BY <1>1, <3>2 DEF Works
    <3> QED BY <1>1, <2>1, <3>2, <3>3
  <2>2. CASE d # c
    <3>1. /\ buf[d][i].f = "af" /\ buf[d][i].x = Blank
          /\ Works(d, l) /\ pc[d] = "sync" /\ req[d].fn = "disable" /\ buf'[d] = buf[d] /\ pc'[d] = pc[d]
      BY <1>1, <1>2, <1>4, <2>2
    <3> QED BY <1>1, <3>1 DEF Works
  <2> QED BY <2>1, <2>2
<1>5. mem'[Prim(l)] = Empty /\ asked'[l] = NothingAsked
  BY <1>1, <1>2 DEF e
<1> QED BY <1>3, <1>4, <1>5 DEF Unset, e, Prim, Empty, NothingAsked, Blank

LEMMA FailedStill ==
    ASSUME Control, Tables, NEW c \in Cpu, NEW s, Quietly(c, s), NEW l \in Liodn, req[c].l = l, ~Owner(c)',
           mem[Prim(l)].af \in Dead,
           \A d \in Cpu : /\ d # c /\ Works(d, l) => ~Owner(d)
                          /\ \A i \in DOMAIN buf[d] : IsTo(buf[d][i], Prim(l)) => buf[d][i].f = "af" /\ buf[d][i].x \in Dead,
           \A i \in DOMAIN s : s[i].f = "af" /\ s[i].x \in Dead
    PROVE  Failed(l)'
<1> DEFINE e == Prim(l)
<1>1. /\ mem' = mem
      /\ \A d \in Cpu \ {c} : buf'[d] = buf[d] /\ (Owner(d)' <=> Owner(d))
      /\ \A d \in Cpu : \A k : Works(d, k)' => Works(d, k)
      /\ \A i \in DOMAIN buf'[c] : (\E j \in DOMAIN buf[c] : buf'[c][i] = buf[c][j]) \/ (\E j \in DOMAIN s : buf'[c][i] = s[j])
  BY Bystanders
<1>2. \A d \in Cpu : Works(d, l)' => ~Owner(d)'
  BY <1>1
<1>3. \A d \in Cpu : \A i \in DOMAIN buf'[d] : IsTo(buf'[d][i], e) => buf'[d][i].f = "af" /\ buf'[d][i].x \in Dead
  <2> SUFFICES ASSUME NEW d \in Cpu, NEW i \in DOMAIN buf'[d], IsTo(buf'[d][i], e)
               PROVE  buf'[d][i].f = "af" /\ buf'[d][i].x \in Dead
    OBVIOUS
  <2> HIDE DEF e
  <2>0. \A b \in Cpu : \A j \in DOMAIN buf[b] : IsTo(buf[b][j], e) => buf[b][j].f = "af" /\ buf[b][j].x \in Dead
    BY DEF e
  <2>1. CASE d = c
    BY <1>1, <2>0, <2>1
  <2>2. CASE d # c
    BY <1>1, <2>0, <2>2
  <2> QED BY <2>1, <2>2
<1> QED BY <1>1, <1>2, <1>3 DEF Failed, Prim, Dead, Taken, Blank

LEMMA OwnedFrom ==
    ASSUME Control, Tables, NEW c \in Cpu, NEW s, Quietly(c, s), NEW l \in Liodn, req[c].l = l, Owner(c)',
           Building(c, l)', asked[l] = NothingAsked,
           \A d \in Cpu \ {c} : ~Pending(d, Prim(l)) /\ (Works(d, l) => pc[d] \in Waiting)
    PROVE  Owned(l)'
<1>1. /\ asked' = asked /\ req' = req
      /\ \A d \in Cpu \ {c} : pc'[d] = pc[d] /\ buf'[d] = buf[d]
      /\ \A d \in Cpu : \A k : Works(d, k)' => Works(d, k)
      /\ \A d \in Cpu \ {c} : \A e : Pending(d, e)' <=> Pending(d, e)
  BY Bystanders
<1>2. Works(c, l)'
  BY <1>1 DEF Works, Owner
<1>3. \A d \in Cpu \ {c} : ~Pending(d, Prim(l))' /\ (Works(d, l)' => pc'[d] \in Waiting)
  BY <1>1 DEF Prim
<1> QED BY <1>1, <1>2, <1>3 DEF Owned, NothingAsked, Prim, Waiting

(* A core that waits does not disturb the one that has the reservation.     *)
LEMMA OwnedStill ==
    ASSUME Control, Tables, NEW c \in Cpu, NEW l \in Liodn, req[c].l = l, Quietly(c, <<>>), buf' = buf,
           \A d \in Cpu \ {c} : tmp'[d] = tmp[d],
           pc[c] \in Waiting, pc'[c] \in Waiting \cup {"idle"}, Owned(l)
    PROVE  Owned(l)'
<1>1. /\ asked' = asked /\ req' = req /\ mem' = mem
      /\ \A d \in Cpu \ {c} : pc'[d] = pc[d]
      /\ \A d \in Cpu : \A k : Works(d, k)' => Works(d, k)
  BY Bystanders
<1>2. PICK o \in Cpu : /\ Works(o, l) /\ Owner(o) /\ Building(o, l)
                       /\ \A d \in Cpu \ {o} : ~Pending(d, Prim(l)) /\ (Works(d, l) => pc[d] \in Waiting)
  BY DEF Owned
<1>3. o # c /\ pc'[o] = pc[o] /\ tmp'[o] = tmp[o]
  BY <1>1, <1>2 DEF Owner, Waiting
<1>4. Works(o, l)' /\ Owner(o)'
  BY <1>1, <1>2, <1>3 DEF Works, Owner
<1>5. Building(o, l)'
  <2> DEFINE e == Prim(l)
  <2>1. \A f : Load(o, e, f)' = Load(o, e, f)
    BY <1>1 DEF Load, Prim
  <2>2. \A S : AFs(o, e, S)' = AFs(o, e, S)
    BY <1>1 DEF AFs, Prim
  <2>3. Pending(o, e)' = Pending(o, e)
    BY <1>1 DEF Pending, Prim
  <2> QED BY <1>1, <1>2, <1>3, <2>1, <2>2, <2>3 DEF Building, Prim, IsTo
<1>6. \A d \in Cpu \ {o} : ~Pending(d, Prim(l))' /\ (Works(d, l)' => pc'[d] \in Waiting)
  <2> SUFFICES ASSUME NEW d \in Cpu \ {o} PROVE ~Pending(d, Prim(l))' /\ (Works(d, l)' => pc'[d] \in Waiting)
    OBVIOUS
  <2>1. ~Pending(d, Prim(l))'
    BY <1>2 DEF Pending, Prim
  <2>2. ASSUME Works(d, l)' PROVE pc'[d] \in Waiting
    BY <1>1, <1>2, <2>2 DEF Works
  <2> QED BY <2>1, <2>2
<1> QED BY <1>1, <1>4, <1>5, <1>6 DEF Owned, NothingAsked, Prim, Waiting

(* Who else works on the device of a configuration.                         *)
LEMMA OthersWait ==
    ASSUME Control, NEW c \in Cpu, NEW l \in Liodn, l \notin raced, Works(c, l), req[c] \in Configs,
           NEW d \in Cpu, d # c, Works(d, l), ~Owner(d)
    PROVE  pc[d] \in Waiting /\ req[d].fn = "config_ppaace"
<1>1. req[d].fn = "config_ppaace"
  BY DEF Control, Solo, Works
<1>2. CallOk(d) /\ pc[d] # "idle"
  BY DEF Control, Works
<1>3. req[d] \notin Switches /\ req[d] \notin Windowed
  BY <1>1, Fields
<1> QED BY <1>1, <1>2, <1>3 DEF CallOk, Owner

(* The device of a core that is in no window.                               *)
LEMMA NoneMade ==
    ASSUME Control, Tables, NEW l \in Liodn, l \notin raced, configured[l] = <<>>
    PROVE  ~Live(l) /\ \A c \in Cpu : Works(c, l) => ~InWindow(c)
<1>1. ~Live(l)
  BY DEF Tables, Settled
<1> QED BY <1>1 DEF Live, Works, InWindow

LEMMA ReserveUnset ==
    ASSUME Control, Tables, NEW c \in Cpu, NEW l \in Liodn, l \notin raced, req[c].l = l, configured[l] = <<>>,
           Unset(l), ConfigReserve(c)
    PROVE  (Unset(l) \/ Owned(l))'
<1> DEFINE e == Prim(l)
           x == Load(c, e, "af")
           t == Store(e, "af", [x EXCEPT !.wse = TRUE])
<1>1. /\ mem' = mem /\ req[c] \in Configs /\ pc[c] = "reserve"
      /\ \/ pc'[c] = "busy" /\ x.wse /\ buf' = buf /\ Quietly(c, <<>>)
         \/ pc'[c] = "reserved" /\ ~x.wse /\ Quietly(c, <<t>>) /\ buf'[c] = Append(buf[c], t)
  BY ReserveStep
<1>2. Works(c, l)
  BY <1>1 DEF Works
<1>3. \A d \in Cpu : ~Pending(d, e)
  <2> SUFFICES ASSUME NEW d \in Cpu, Pending(d, e) PROVE FALSE
    OBVIOUS
  <2>1. Works(d, l) /\ pc[d] = "sync" /\ req[d].fn = "disable"
    BY DEF Unset, Pending
  <2>2. d # c
    BY <1>1, <2>1
  <2>3. ~Owner(d)
    BY <2>1 DEF Unset
  <2> QED BY <1>1, <1>2, <2>1, <2>2, <2>3, OthersWait
<1>4. mem[e] = Empty /\ asked[l] = NothingAsked
  BY DEF Unset
<1>5. x = Blank
  <2>1. \A i \in DOMAIN buf[c] : ~To(buf[c][i], e, "af")
    BY <1>3, Typed, Kinds DEF Pending
  <2>2. x = mem[e].af
    BY <2>1, SeenNone, Loads
  <2> QED BY <1>4, <2>2 DEF Empty, Blank
<1>6. /\ pc'[c] = "reserved" /\ Quietly(c, <<t>>) /\ buf'[c] = Append(buf[c], t)
      /\ t = Store(e, "af", Taken)
  <2>0. [Blank EXCEPT !.wse = TRUE] = Taken /\ ~Blank.wse
    BY DEF Blank, Taken
  <2>1. [x EXCEPT !.wse = TRUE] = Taken /\ ~x.wse
    <3> HIDE DEF x
    <3> QED BY <1>5, <2>0
  <2>2. t = Store(e, "af", Taken)
    BY <2>1
  <2> HIDE DEF t, x, e
  <2> QED BY <1>1, <2>1, <2>2
<1>7. t \in StoreType /\ t.f = "af" /\ t.e = e /\ t.x = Taken
  <2>1. e \in Entry /\ Taken \in Word
    BY Entries DEF Taken, Blank, Word
  <2> QED BY <1>6, <2>1, StoreTypes
<1>8. To(t, e, "af")
  BY <1>7 DEF To
<1> HIDE DEF t, x, e
<1>9. Load(c, e, "af")' = Taken /\ \A i \in DOMAIN buf'[c] : IsTo(buf'[c][i], e) => buf'[c][i] = t
  <2>1. /\ \A f, g : Load(c, f, g)' = IF To(t, f, g) THEN t.x ELSE Load(c, f, g)
        /\ \A i \in DOMAIN buf'[c] : buf'[c][i] = t \/ \E j \in DOMAIN buf[c] : buf'[c][i] = buf[c][j]
    BY <1>1, <1>6, <1>7, AppendSees
  <2>2. \A j \in DOMAIN buf[c] : ~IsTo(buf[c][j], e)
    BY <1>3 DEF Pending
  <2> QED BY <1>7, <1>8, <2>1, <2>2
<1>10. AFs(c, e, {y \in Word : ~y.v})'
  <2>1. Taken \in Word /\ Taken.v = FALSE
    BY DEF Taken, Blank, Word
  <2>2. \A i \in DOMAIN buf'[c] : To(buf'[c][i], e, "af") => buf'[c][i].x = Taken
    <3>1. \A i \in DOMAIN buf'[c] : To(buf'[c][i], e, "af") => IsTo(buf'[c][i], e)
      BY DEF To, IsTo, lwsync
    <3> QED BY <1>7, <1>9, <3>1
  <2> QED BY <2>1, <2>2 DEF AFs
<1>11. Building(c, l)'
  <2>1. /\ mem'[e] = Empty /\ mem'[e].af.v = FALSE
        /\ \A i \in DOMAIN buf'[c] : IsTo(buf'[c][i], e) => buf'[c][i].f = "af" /\ buf'[c][i].x = Taken
    BY <1>1, <1>4, <1>7, <1>9 DEF Empty
  <2> QED BY <1>6, <1>9, <1>10, <2>1 DEF Building, e, IsTo, Prim
<1>12. \A d \in Cpu \ {c} : ~Pending(d, Prim(l)) /\ (Works(d, l) => pc[d] \in Waiting)
  <2>1. \A d \in Cpu : Works(d, l) => ~Owner(d)
    BY DEF Unset
  <2> QED BY <1>1, <1>2, <1>3, <2>1, OthersWait DEF e
<1>13. Owner(c)'
  BY <1>6 DEF Owner
<1> QED BY <1>4, <1>6, <1>11, <1>12, <1>13, OwnedFrom

LEMMA ReserveOwned ==
    ASSUME Control, Tables, NEW c \in Cpu, NEW l \in Liodn, l \notin raced, req[c].l = l, configured[l] = <<>>,
           Owned(l), ConfigReserve(c)
    PROVE  Owned(l)'
<1> DEFINE e == Prim(l)
           x == Load(c, e, "af")
<1>1. /\ mem' = mem /\ req[c] \in Configs /\ pc[c] = "reserve" /\ tmp' = tmp
      /\ \/ pc'[c] = "busy" /\ x.wse /\ buf' = buf /\ Quietly(c, <<>>)
         \/ pc'[c] = "reserved" /\ ~x.wse
  BY ReserveStep
<1>2. PICK o \in Cpu : /\ Works(o, l) /\ Owner(o) /\ Building(o, l)
                       /\ \A d \in Cpu \ {o} : ~Pending(d, Prim(l)) /\ (Works(d, l) => pc[d] \in Waiting)
  BY DEF Owned
<1>3. o # c
  BY <1>1, <1>2 DEF Owner
<1>4. x = mem[e].af
  <2>1. \A i \in DOMAIN buf[c] : ~To(buf[c][i], e, "af")
    BY <1>2, <1>3, Typed, Kinds DEF Pending
  <2> QED BY <2>1, SeenNone, Loads
<1>5. mem[e].af.wse
  <2>1. pc[o] # "reserved"
    BY <1>1, <1>3 DEF Control, Locked
  <2>2. mem[e] = [Empty EXCEPT !.af = Taken] => mem[e].af.wse = TRUE
    BY DEF Empty, Taken, Blank
  <2> QED BY <1>2, <2>1, <2>2 DEF Building
<1>6. pc'[c] = "busy" /\ buf' = buf /\ Quietly(c, <<>>)
  BY <1>1, <1>4, <1>5
<1> QED BY <1>1, <1>6, OwnedStill DEF Waiting

LEMMA StoreTo ==
    /\ \A e, f, x, g, h : f # "lwsync" => /\ To(Store(e, f, x), g, h) <=> (f = h /\ e = g)
                                          /\ IsTo(Store(e, f, x), g) <=> e = g
    /\ \A g, h : ~To(lwsync, g, h) /\ ~IsTo(lwsync, g)
<1>1. ASSUME NEW e, NEW f, NEW x, NEW g, NEW h, f # "lwsync"
      PROVE  (To(Store(e, f, x), g, h) <=> (f = h /\ e = g)) /\ (IsTo(Store(e, f, x), g) <=> e = g)
  <2> DEFINE t == Store(e, f, x)
  <2>1. t.e = e /\ t.f = f /\ t # lwsync
    BY <1>1, StoreTypes
  <2> HIDE DEF t
  <2>2. (To(t, g, h) <=> (f = h /\ e = g)) /\ (IsTo(t, g) <=> e = g)
    BY <1>1, <2>1 DEF To, IsTo
  <2> QED BY <2>2 DEF t
<1> QED BY <1>1 DEF To, IsTo, lwsync

LEMMA UnsetSteps ==
    ASSUME Control, Tables, NEW c \in Cpu, NEW l \in Liodn, l \notin raced, req[c].l = l, configured[l] = <<>>,
           Unset(l),
           \/ ConfigLock(c) \/ ConfigUnlock(c) \/ GetFspi(c) \/ Enable(c) \/ EnableValid(c) \/ Disable(c)
           \/ ConfigBadOmi(c) \/ ConfigSubwindows(c) \/ ConfigWindow(c) \/ Allocate(c)
    PROVE  Unset(l)'
<1> DEFINE e == Prim(l)
           x == Load(c, e, "af")
<1>1. /\ Works(c, l) => ~Owner(c) /\ pc[c] # "enable_sync"
      /\ mem[e].af = Blank
      /\ \A i \in DOMAIN buf[c] : IsTo(buf[c][i], e) => buf[c][i].x = Blank
  BY DEF Unset, Blank, Empty
<1>2. x = Blank
  <2>1. \A i \in DOMAIN buf[c] : To(buf[c][i], e, "af") => buf[c][i].x \in {Blank}
    BY <1>1 DEF To, IsTo, lwsync
  <2>2. Seen(buf[c], mem, e, "af") \in {Blank}
    BY <1>1, <2>1, SeenOneOf, Typed
  <2> QED BY <2>2, Loads
<1>3. ~x.wse /\ [x EXCEPT !.v = FALSE] = Blank
  <2> DEFINE y == [Blank EXCEPT !.v = FALSE]
  <2>0. y \in Word /\ y.v = FALSE /\ y.ap = FALSE /\ y.mw = FALSE /\ y.wse = FALSE
    BY Blanks, WordFields
  <2>1. ~Blank.wse /\ [Blank EXCEPT !.v = FALSE] = Blank
    <3>1. y = [Blank EXCEPT !.v = FALSE]
      OBVIOUS
    <3> HIDE DEF y
    <3>2. y = Blank
      BY <2>0, Blanks, WordEq
    <3> QED BY <3>1, <3>2, Blanks
  <2> HIDE DEF x
  <2> QED BY <1>2, <2>1
<1>4. ASSUME pc[c] # "idle" PROVE ~Owner(c) /\ pc[c] # "enable_sync"
  BY <1>1, <1>4 DEF Works
<1>5. CASE ConfigLock(c) \/ ConfigUnlock(c) \/ GetFspi(c) \/ Enable(c)
  <2>1. /\ Quietly(c, <<>>)
        /\ \/ pc[c] = "config_ppaace" /\ pc'[c] = "reserve"
           \/ pc[c] = "busy" /\ pc'[c] = "idle"
           \/ pc[c] = "reserved" \/ pc[c] = "get_fspi"
           \/ /\ pc[c] = "enable" /\ pc'[c] = IF x.wse THEN "enable_sync" ELSE "idle"
    BY <1>5, LockStep
  <2> HIDE DEF x, e
  <2>2. pc[c] \in {"config_ppaace", "busy", "enable"} /\ pc'[c] \in {"reserve", "idle"}
    BY <1>3, <1>4, <2>1 DEF Owner
  <2>3. ~Owner(c)' /\ pc'[c] # "enable_sync" /\ pc[c] # "sync" /\ pc'[c] # "sync"
    BY <2>2 DEF Owner
  <2>4. DOMAIN <<>> = {}
    OBVIOUS
  <2> QED BY <2>1, <2>3, <2>4, UnsetStill
<1>6. CASE EnableValid(c) \/ Disable(c)
  <2>1. /\ pc'[c] = "sync" /\ Works2(c)
        /\ \/ pc[c] = "enable_sync"
           \/ /\ pc[c] = "disable" /\ req[c].fn = "disable"
              /\ Quietly(c, <<Store(e, "af", [x EXCEPT !.v = FALSE])>>)
    BY <1>6, SwitchStep
  <2>2. pc[c] = "disable" /\ req[c].fn = "disable" /\ Quietly(c, <<Store(e, "af", Blank)>>)
    <3> HIDE DEF x, e
    <3> QED BY <1>3, <1>4, <2>1
  <2> DEFINE t == Store(e, "af", Blank)
  <2>3. t \in StoreType /\ t.f = "af" /\ t.x = Blank
    BY StoreTypes, Entries, Blanks
  <2> HIDE DEF t
  <2>4. DOMAIN <<t>> = {1} /\ <<t>>[1] = t
    BY <2>3, Tuple1
  <2>5. ~Owner(c)'
    BY <2>1, <2>2 DEF Owner, Works2, Goes
  <2> QED BY <2>1, <2>2, <2>3, <2>4, <2>5, UnsetStill DEF t
<1>7. CASE ConfigBadOmi(c) \/ ConfigSubwindows(c) \/ ConfigWindow(c) \/ Allocate(c)
  BY <1>4, <1>7 DEF ConfigBadOmi, ConfigSubwindows, ConfigWindow, Allocate, Owner
<1> QED BY <1>5, <1>6, <1>7

LEMMA FailedSteps ==
    ASSUME Control, Tables, NEW c \in Cpu, NEW l \in Liodn, l \notin raced, req[c].l = l, configured[l] = <<>>,
           Failed(l),
           \/ ConfigLock(c) \/ ConfigUnlock(c) \/ GetFspi(c) \/ Enable(c) \/ EnableValid(c) \/ Disable(c)
           \/ ConfigBadOmi(c) \/ ConfigSubwindows(c) \/ ConfigWindow(c) \/ Allocate(c) \/ ConfigReserve(c)
    PROVE  Failed(l)'
<1> DEFINE e == Prim(l)
           x == Load(c, e, "af")
<1>1. /\ mem[e].af \in Dead
      /\ \A d \in Cpu : /\ Works(d, l) => ~Owner(d)
                        /\ \A i \in DOMAIN buf[d] : IsTo(buf[d][i], e) => buf[d][i].f = "af" /\ buf[d][i].x \in Dead
  BY DEF Failed
<1>2. x \in Dead
  <2>1. \A i \in DOMAIN buf[c] : To(buf[c][i], e, "af") => buf[c][i].x \in Dead
    BY <1>1 DEF To, IsTo, lwsync
  <2>2. Seen(buf[c], mem, e, "af") \in Dead
    BY <1>1, <2>1, SeenOneOf, Typed
  <2> QED BY <2>2, Loads
<1>3. x.wse /\ [x EXCEPT !.v = FALSE] \in Dead /\ [x EXCEPT !.v = TRUE] \in Dead
  <2> HIDE DEF x
  <2> QED BY <1>2, DeadWords
<1>4. pc[c] # "idle" => ~Owner(c)
  BY <1>1 DEF Works
<1>5. ASSUME Quietly(c, <<>>), ~Owner(c)' PROVE Failed(l)'
  <2>1. DOMAIN <<>> = {}
    OBVIOUS
  <2> QED BY <1>1, <1>5, <2>1, FailedStill
<1>6. CASE ConfigLock(c) \/ ConfigUnlock(c) \/ GetFspi(c) \/ Enable(c)
  <2>1. /\ Quietly(c, <<>>)
        /\ \/ pc[c] = "config_ppaace" /\ pc'[c] = "reserve"
           \/ pc[c] = "busy" /\ pc'[c] = "idle"
           \/ pc[c] = "reserved" \/ pc[c] = "get_fspi"
           \/ /\ pc[c] = "enable" /\ pc'[c] = IF x.wse THEN "enable_sync" ELSE "idle"
    BY <1>6, LockStep
  <2> HIDE DEF x, e
  <2>2. ~Owner(c)'
    BY <1>4, <2>1 DEF Owner
  <2> QED BY <1>5, <2>1, <2>2
<1>7. CASE ConfigReserve(c)
  <2>1. pc'[c] = "busy" /\ Quietly(c, <<>>)
    BY <1>3, <1>7, ReserveStep
  <2> QED BY <1>5, <2>1 DEF Owner
<1>8. CASE EnableValid(c) \/ Disable(c)
  <2>1. /\ pc'[c] = "sync" /\ Works2(c) /\ req[c].fn \in {"enable", "disable"}
        /\ \/ Quietly(c, <<Store(e, "af", [x EXCEPT !.v = TRUE])>>)
           \/ Quietly(c, <<Store(e, "af", [x EXCEPT !.v = FALSE])>>)
    BY <1>8, SwitchStep
  <2>2. PICK y \in Dead : Quietly(c, <<Store(e, "af", y)>>)
    <3> HIDE DEF x, e
    <3> QED BY <1>3, <2>1
  <2> DEFINE t == Store(e, "af", y)
  <2>3. t \in StoreType /\ t.f = "af" /\ t.x = y
    <3>1. y \in Word /\ e \in Entry
      BY <2>2, DeadWords, Entries
    <3> HIDE DEF e, x
    <3> QED BY <3>1, StoreTypes
  <2>4. Quietly(c, <<t>>)
    BY <2>2
  <2> HIDE DEF t
  <2>5. DOMAIN <<t>> = {1} /\ <<t>>[1] = t
    BY <2>3, Tuple1
  <2>6. ~Owner(c)'
    BY <2>1 DEF Owner, Works2, Goes
  <2>7. \A i \in DOMAIN <<t>> : <<t>>[i].f = "af" /\ <<t>>[i].x \in Dead
    BY <2>2, <2>3, <2>5
  <2> QED BY <1>1, <2>4, <2>6, <2>7, FailedStill
<1>9. CASE ConfigBadOmi(c) \/ ConfigSubwindows(c) \/ ConfigWindow(c) \/ Allocate(c)
  BY <1>4, <1>9 DEF ConfigBadOmi, ConfigSubwindows, ConfigWindow, Allocate, Owner
<1> QED BY <1>6, <1>7, <1>8, <1>9

(* What the owner of a reservation sees of its entry.                       *)
LEMMA OwnerSees ==
    ASSUME Control, Tables, NEW c \in Cpu, NEW l \in Liodn, req[c].l = l, Building(c, l),
           pc[c] \in {"reserved", "fill", "get_fspi", "allocate"}
    PROVE  /\ Load(c, Prim(l), "af") = Taken /\ mem[Prim(l)].af.v = FALSE
           /\ \A i \in DOMAIN buf[c] : IsTo(buf[c][i], Prim(l)) => buf[c][i].f = "af" /\ buf[c][i].x = Taken
           /\ pc[c] # "reserved" \/ buf[c] = <<>> => mem[Prim(l)] = [Empty EXCEPT !.af = Taken] /\ mem[Prim(l)].af = Taken
<1> DEFINE e == Prim(l)
           b == buf[c]
<1>1. \A i \in DOMAIN b : IsTo(b[i], e) => b[i].f = "af" /\ b[i].x = Taken
  BY DEF Building, Pending
<1>2. mem[e] = [Empty EXCEPT !.af = Taken] => mem[e].af = Taken
  BY DEF Empty
<1>3. CASE pc[c] # "reserved"
  <2>1. mem[e] = [Empty EXCEPT !.af = Taken]
    BY <1>3 DEF Building
  <2>2. \A i \in DOMAIN b : To(b[i], e, "af") => b[i].x \in {Taken}
    BY <1>1 DEF To, IsTo, lwsync
  <2>3. Seen(b, mem, e, "af") \in {Taken}
    BY <1>2, <2>1, <2>2, SeenOneOf, Typed
  <2> QED BY <1>1, <1>2, <2>1, <2>3, Loads DEF Building
<1>4. CASE pc[c] = "reserved"
  <2>1. Load(c, e, "af") = Taken /\ mem[e] \in {Empty, [Empty EXCEPT !.af = Taken]}
    BY <1>4 DEF Building
  <2>2. b = <<>> => mem[e].af = Taken
    BY <2>1, EmptySees
  <2>3. Empty.af # Taken
    BY DEF Empty, Taken, Blank
  <2> QED BY <1>1, <1>2, <1>4, <2>1, <2>2, <2>3 DEF Building
<1> QED BY <1>3, <1>4

LEMMA StillBuilds ==
    ASSUME Control, Tables, NEW c \in Cpu, NEW l \in Liodn, req[c].l = l, Building(c, l), buf' = buf, mem' = mem,
           \/ pc[c] = "reserved" /\ pc'[c] = "fill" /\ buf[c] = <<>>
           \/ pc[c] \in {"get_fspi", "allocate"} /\ pc'[c] \in {"get_fspi", "allocate"}
    PROVE  Building(c, l)'
<1> DEFINE e == Prim(l)
           b == buf[c]
<1>1. /\ mem[e].af.v = FALSE /\ mem[e] = [Empty EXCEPT !.af = Taken]
      /\ \A i \in DOMAIN b : IsTo(b[i], e) => b[i].f = "af" /\ b[i].x = Taken
  BY OwnerSees
<1>2. AFs(c, e, {x \in Word : ~x.v})
  BY DEF Building
<1>3. buf[c] = <<>> => ~Pending(c, e)
  BY EmptySees
<1>4. AFs(c, e, {x \in Word : ~x.v})' /\ (Pending(c, e)' <=> Pending(c, e))
  BY <1>2 DEF AFs, Pending, Prim
<1>5. /\ mem'[e].af.v = FALSE /\ mem'[e] = [Empty EXCEPT !.af = Taken]
      /\ \A i \in DOMAIN buf'[c] : IsTo(buf'[c][i], e) => buf'[c][i].f = "af" /\ buf'[c][i].x = Taken
  BY <1>1
<1> HIDE DEF e
<1>6. \/ pc'[c] = "fill" /\ ~Pending(c, e)'
      \/ pc'[c] \in {"get_fspi", "allocate"}
  BY <1>3, <1>4
<1> QED BY <1>4, <1>5, <1>6 DEF Building, Prim, e, IsTo

LEMMA RetypeBuilds ==
    ASSUME Control, Tables, NEW c \in Cpu, NEW l \in Liodn, req[c].l = l, Building(c, l), pc[c] = "fill", mem' = mem,
           buf'[c] = Append(buf[c], Store(Prim(l), "af", Load(c, Prim(l), "af"))), pc'[c] = "get_fspi"
    PROVE  Building(c, l)'
<1> DEFINE e == Prim(l)
           b == buf[c]
           t == Store(e, "af", Taken)
<1>1. /\ Load(c, e, "af") = Taken /\ mem[e].af.v = FALSE /\ mem[e] = [Empty EXCEPT !.af = Taken]
      /\ \A i \in DOMAIN b : IsTo(b[i], e) => b[i].f = "af" /\ b[i].x = Taken
  BY OwnerSees
<1>2. t \in StoreType /\ t.f = "af" /\ t.x = Taken
  BY StoreTypes, Entries, Blanks
<1>3. buf'[c] = Append(b, t)
  BY <1>1
<1> HIDE DEF t
<1>4. \A i \in DOMAIN buf'[c] : buf'[c][i] = t \/ \E j \in DOMAIN b : buf'[c][i] = b[j]
  BY <1>2, <1>3, AppendSees
<1>5. \A i \in DOMAIN buf'[c] : IsTo(buf'[c][i], e) => buf'[c][i].f = "af" /\ buf'[c][i].x = Taken
  BY <1>1, <1>2, <1>4
<1>6. AFs(c, e, {x \in Word : ~x.v})'
  <2>1. \A i \in DOMAIN buf'[c] : To(buf'[c][i], e, "af") => buf'[c][i].x = Taken
    BY <1>5 DEF To, IsTo, lwsync
  <2> QED BY <2>1, Blanks DEF AFs
<1>7. mem'[e].af.v = FALSE /\ mem'[e] = [Empty EXCEPT !.af = Taken]
  BY <1>1
<1> QED BY <1>5, <1>6, <1>7 DEF Building, Prim, IsTo

LEMMA AllocateBuilds ==
    ASSUME Control, Tables, NEW c \in Cpu, NEW l \in Liodn, req[c].l = l, Building(c, l), pc[c] = "allocate", mem' = mem,
           req' = req, tmp' = tmp, req[c].cnt > 0, tmp[c] \in 0 .. NSpaace,
           buf'[c] = Append(Append(buf[c], Store(Prim(l), "af", [Load(c, Prim(l), "af") EXCEPT !.mw = TRUE])),
                            Store(Prim(l), "fspi", tmp[c])),
           pc'[c] = "sync"
    PROVE  Building(c, l)'
<1> DEFINE e == Prim(l)
           b == buf[c]
           x == [Taken EXCEPT !.mw = TRUE]
           t == Store(e, "af", x)
           u == Store(e, "fspi", tmp[c])
<1>1. /\ Load(c, e, "af") = Taken /\ mem[e].af.v = FALSE /\ mem[e].af = Taken
      /\ \A i \in DOMAIN b : IsTo(b[i], e) => b[i].f = "af" /\ b[i].x = Taken
  BY OwnerSees
<1>2. x \in Word /\ x.v = FALSE /\ x.wse = TRUE
  BY Blanks, WordFields
<1>3. t \in StoreType /\ t.x = x /\ u \in StoreType /\ u.x = tmp[c]
  <2> HIDE DEF x
  <2> QED BY <1>2, StoreTypes, Entries
<1>4. To(t, e, "af") /\ ~To(u, e, "af") /\ To(u, e, "fspi")
  <2> HIDE DEF x
  <2> QED BY StoreTo
<1>5. buf'[c] = Append(Append(b, t), u) /\ b \in Seq(StoreType)
  BY <1>1, Typed
<1> HIDE DEF t, u, x, b
<1>6. Append(b, t) \in Seq(StoreType)
  BY <1>3, <1>5
<1>7. Seen(buf'[c], mem', e, "af") = x
  <2>1. Seen(Append(b, t), mem, e, "af") = x
    BY <1>3, <1>4, <1>5, SeenAppend
  <2>2. Seen(Append(Append(b, t), u), mem, e, "af") = Seen(Append(b, t), mem, e, "af")
    <3> DEFINE b1 == Append(b, t)
    <3>1. b1 \in Seq(StoreType)
      BY <1>6
    <3> HIDE DEF b1
    <3>2. Seen(Append(b1, u), mem, e, "af") = Seen(b1, mem, e, "af")
      BY <1>3, <1>4, <3>1, SeenAppend
    <3> QED BY <3>2 DEF b1
  <2> QED BY <1>5, <2>1, <2>2
<1>8. Seen(buf'[c], mem', e, "fspi") = tmp[c]
  <2>1. Seen(Append(Append(b, t), u), mem, e, "fspi") = u.x
    BY <1>3, <1>4, <1>6, SeenAppend
  <2> QED BY <1>3, <1>5, <2>1
<1>9. \A i \in DOMAIN buf'[c] : buf'[c][i] = t \/ buf'[c][i] = u \/ \E j \in DOMAIN b : buf'[c][i] = b[j]
  <2>1. \A i \in DOMAIN Append(b, t) : Append(b, t)[i] = t \/ \E j \in DOMAIN b : Append(b, t)[i] = b[j]
    BY <1>3, <1>5, AppendAll
  <2>2. \A i \in DOMAIN Append(Append(b, t), u) :
           Append(Append(b, t), u)[i] = u \/ \E j \in DOMAIN Append(b, t) : Append(Append(b, t), u)[i] = Append(b, t)[j]
    BY <1>3, <1>6, AppendAll
  <2> QED BY <1>5, <2>1, <2>2
<1>10. \A i \in DOMAIN buf'[c] : To(buf'[c][i], e, "af") => buf'[c][i].x \in {x, Taken}
  <2>1. \A i \in DOMAIN b : To(b[i], e, "af") => b[i].x = Taken
    BY <1>1 DEF b, To, IsTo, lwsync
  <2> QED BY <1>3, <1>4, <1>9, <2>1
<1>11. AFs(c, e, {y \in Word : ~y.v})' /\ AFs(c, e, {y \in Word : y.wse})'
  BY <1>2, <1>10, Blanks DEF AFs
<1>12. Load(c, e, "af")' = x /\ Load(c, e, "fspi")' = tmp[c]
  BY <1>7, <1>8, LoadsNext
<1>13. mem'[e].af.v = FALSE /\ mem'[e].af.wse
  BY <1>1, Blanks
<1> QED BY <1>11, <1>12, <1>13 DEF Building, Prim, x, Taken, Blank

LEMMA WindowBuilds ==
    ASSUME Control, Tables, NEW c \in Cpu, NEW l \in Liodn, req[c].l = l, Building(c, l), pc[c] = "fill", mem' = mem,
           req' = req, req[c].cnt = 0, NEW p \in Page, p = req[c].rpn, NEW x, x = Load(c, Prim(l), "af"),
           buf'[c] = Append(Append(Append(Append(buf[c], Store(Prim(l), "af", x)), Store(Prim(l), "twbah", p)),
                                   Store(Prim(l), "twbal", p)), Store(Prim(l), "af", [x EXCEPT !.ap = TRUE])),
           pc'[c] = "sync"
    PROVE  Building(c, l)'
<1> DEFINE e == Prim(l)
           b == buf[c]
           y == [Taken EXCEPT !.ap = TRUE]
           t1 == Store(e, "af", Taken)
           t2 == Store(e, "twbah", p)
           t3 == Store(e, "twbal", p)
           t4 == Store(e, "af", y)
<1>1. /\ x = Taken /\ mem[e].af.v = FALSE /\ mem[e].af = Taken
      /\ \A i \in DOMAIN b : IsTo(b[i], e) => b[i].f = "af" /\ b[i].x = Taken
  BY OwnerSees
<1>2. y \in Word /\ y.v = FALSE /\ y.wse = TRUE
  BY Blanks, WordFields
<1>3. /\ t1 \in StoreType /\ t1.x = Taken /\ t2 \in StoreType /\ t2.x = p
      /\ t3 \in StoreType /\ t3.x = p /\ t4 \in StoreType /\ t4.x = y
  <2> HIDE DEF y
  <2>1. e \in Entry
    BY Entries
  <2> QED BY <1>2, <2>1, StoreTypes, Blanks
<1>4. /\ To(t4, e, "af") /\ ~To(t4, e, "twbah") /\ ~To(t4, e, "twbal")
      /\ To(t3, e, "twbal") /\ ~To(t3, e, "twbah") /\ To(t2, e, "twbah")
      /\ ~To(t2, e, "af") /\ ~To(t3, e, "af")
  <2> HIDE DEF y
  <2> QED BY StoreTo
<1>5. buf'[c] = Append(Append(Append(Append(b, t1), t2), t3), t4) /\ b \in Seq(StoreType)
  BY <1>1, Typed
<1> HIDE DEF t1, t2, t3, t4, y, b
<1> DEFINE b1 == Append(b, t1)
           b2 == Append(b1, t2)
           b3 == Append(b2, t3)
           b4 == Append(b3, t4)
<1>6. b1 \in Seq(StoreType) /\ b2 \in Seq(StoreType) /\ b3 \in Seq(StoreType) /\ b4 \in Seq(StoreType) /\ buf'[c] = b4
  BY <1>3, <1>5
<1>7. \A i \in DOMAIN b1 : b1[i] = t1 \/ \E j \in DOMAIN b : b1[i] = b[j]
  BY <1>3, <1>5, AppendAll
<1> HIDE DEF b1
<1>8. \A i \in DOMAIN b2 : b2[i] = t2 \/ \E j \in DOMAIN b1 : b2[i] = b1[j]
  BY <1>3, <1>6, AppendAll
<1>9. Seen(b2, mem, e, "twbah") = p
  BY <1>3, <1>4, <1>6, SeenAppend
<1> HIDE DEF b2
<1>10. \A i \in DOMAIN b3 : b3[i] = t3 \/ \E j \in DOMAIN b2 : b3[i] = b2[j]
  BY <1>3, <1>6, AppendAll
<1>11. Seen(b3, mem, e, "twbal") = p
  BY <1>3, <1>4, <1>6, SeenAppend
<1>12. Seen(b3, mem, e, "twbah") = p
  BY <1>3, <1>4, <1>6, <1>9, SeenAppend
<1> HIDE DEF b3
<1>13. \A i \in DOMAIN b4 : b4[i] = t4 \/ \E j \in DOMAIN b3 : b4[i] = b3[j]
  BY <1>3, <1>6, AppendAll
<1>14. Seen(b4, mem, e, "twbal") = p
  BY <1>3, <1>4, <1>6, <1>11, SeenAppend
<1>15. Seen(b4, mem, e, "twbah") = p
  BY <1>3, <1>4, <1>6, <1>12, SeenAppend
<1>16. Seen(b4, mem, e, "af") = y
  BY <1>3, <1>4, <1>6, SeenAppend
<1> HIDE DEF b4
<1>17. Load(c, e, "af")' = y /\ Load(c, e, "twbah")' = p /\ Load(c, e, "twbal")' = p
  BY <1>6, <1>14, <1>15, <1>16, LoadsNext
<1>18. \A i \in DOMAIN b4 : To(b4[i], e, "af") => b4[i].x \in {y, Taken}
  <2>1. \A i \in DOMAIN b : To(b[i], e, "af") => b[i].x = Taken
    BY <1>1 DEF b, To, IsTo, lwsync
  <2>2. \A i \in DOMAIN b1 : To(b1[i], e, "af") => b1[i].x = Taken
    BY <1>3, <1>7, <2>1
  <2>3. \A i \in DOMAIN b2 : To(b2[i], e, "af") => b2[i].x = Taken
    BY <1>4, <1>8, <2>2
  <2>4. \A i \in DOMAIN b3 : To(b3[i], e, "af") => b3[i].x = Taken
    BY <1>4, <1>10, <2>3
  <2> QED BY <1>3, <1>13, <2>4
<1>19. AFs(c, e, {z \in Word : ~z.v})' /\ AFs(c, e, {z \in Word : z.wse})'
  BY <1>2, <1>6, <1>18, Blanks DEF AFs
<1>20. mem'[e].af.v = FALSE /\ mem'[e].af.wse
  BY <1>1, Blanks
<1> QED BY <1>17, <1>19, <1>20 DEF Building, Prim, y, Taken, Blank

LEMMA OwnedSteps ==
    ASSUME Control, Tables, NEW c \in Cpu, NEW l \in Liodn, l \notin raced, req[c].l = l, configured[l] = <<>>,
           Owned(l),
           \/ ConfigLock(c) \/ ConfigUnlock(c) \/ GetFspi(c) \/ Enable(c) \/ EnableValid(c) \/ Disable(c)
           \/ ConfigBadOmi(c) \/ ConfigSubwindows(c) \/ ConfigWindow(c) \/ Allocate(c)
    PROVE  (Failed(l) \/ Owned(l))'
<1> DEFINE e == Prim(l)
           x == Load(c, e, "af")
<1>1. DeviceOk(l)
  BY DEF DeviceOk
<1>2. pc[c] # "idle" => Owner(c) \/ pc[c] \in Waiting
  BY DEF Owned, Works
<1>3. ASSUME Owner(c)
      PROVE  /\ Building(c, l) /\ asked[l] = NothingAsked /\ Works(c, l) /\ req[c] \in Configs /\ ~InWindow(c)
             /\ \A d \in Cpu \ {c} : ~Pending(d, e) /\ (Works(d, l) => pc[d] \in Waiting)
  BY <1>1, <1>3, OwnerOwned
<1>4. ASSUME pc[c] \in {"reserved", "fill", "get_fspi", "allocate"}
      PROVE  /\ Owner(c) /\ x = Taken /\ mem[e].af.v = FALSE
             /\ \A i \in DOMAIN buf[c] : IsTo(buf[c][i], e) => buf[c][i].f = "af" /\ buf[c][i].x = Taken
             /\ pc[c] # "reserved" => mem[e].af = Taken
  <2>1. Owner(c)
    BY <1>4 DEF Owner
  <2> QED BY <1>3, <1>4, <2>1, OwnerSees
<1>5. ASSUME Owner(c)', NEW s, Quietly(c, s), Building(c, l)', Owner(c) PROVE Owned(l)'
  BY <1>3, <1>5, OwnedFrom
<1>6. ASSUME pc[c] \in {"fill", "get_fspi"}, ~Owner(c)', NEW s, Quietly(c, s),
             \A i \in DOMAIN s : s[i].f = "af" /\ s[i].x \in Dead
      PROVE  Failed(l)'
  <2>1. Owner(c) /\ mem[e].af \in Dead
        /\ \A i \in DOMAIN buf[c] : IsTo(buf[c][i], e) => buf[c][i].f = "af" /\ buf[c][i].x \in Dead
    BY <1>4, <1>6 DEF Dead
  <2>2. \A d \in Cpu : d # c => ~Pending(d, e) /\ (Works(d, l) => ~Owner(d))
    BY <1>3, <2>1 DEF Waiting, Owner
  <2>3. \A d \in Cpu : /\ d # c /\ Works(d, l) => ~Owner(d)
                       /\ \A i \in DOMAIN buf[d] : IsTo(buf[d][i], e) => buf[d][i].f = "af" /\ buf[d][i].x \in Dead
    BY <2>1, <2>2 DEF Pending
  <2> QED BY <1>6, <2>1, <2>3, FailedStill
<1> HIDE DEF x, e
<1>7. CASE ConfigLock(c) \/ ConfigUnlock(c) \/ GetFspi(c) \/ Enable(c)
  <2>1. /\ Quietly(c, <<>>) /\ mem' = mem /\ buf' = buf
        /\ \A d \in Cpu \ {c} : tmp'[d] = tmp[d]
        /\ \/ pc[c] = "config_ppaace" /\ pc'[c] = "reserve"
           \/ pc[c] = "busy" /\ pc'[c] = "idle"
           \/ pc[c] = "reserved" /\ pc'[c] = "fill" /\ buf[c] = <<>>
           \/ pc[c] = "get_fspi" /\ pc'[c] \in {"idle", "allocate"}
           \/ pc[c] = "enable"
    BY <1>7, LockStep
  <2>2. CASE pc[c] \in {"config_ppaace", "busy"}
    BY <2>1, <2>2, OwnedStill DEF Waiting
  <2>3. CASE pc[c] = "reserved" \/ (pc[c] = "get_fspi" /\ pc'[c] = "allocate")
    <3>1. Owner(c) /\ Building(c, l) /\ Owner(c)'
      BY <1>3, <1>4, <2>1, <2>3 DEF Owner
    <3>2. Building(c, l)'
      BY <2>1, <2>3, <3>1, StillBuilds
    <3> QED BY <1>5, <2>1, <3>1, <3>2
  <2>4. CASE pc[c] = "get_fspi" /\ pc'[c] = "idle"
    <3>1. DOMAIN <<>> = {} /\ ~Owner(c)'
      BY <2>4 DEF Owner
    <3> QED BY <1>6, <2>1, <2>4, <3>1
  <2>5. CASE pc[c] = "enable"
    BY <1>2, <2>5 DEF Owner, Waiting
  <2> QED BY <2>1, <2>2, <2>3, <2>4, <2>5
<1>8. CASE EnableValid(c) \/ Disable(c)
  <2>1. pc[c] \in {"enable_sync", "disable"}
    BY <1>8 DEF EnableValid, Disable
  <2> QED BY <1>2, <2>1 DEF Owner, Waiting
<1>9. CASE ConfigBadOmi(c) \/ ConfigSubwindows(c)
  <2> DEFINE t == Store(e, "af", Taken)
  <2>1. /\ pc[c] = "fill" /\ pc'[c] \in {"idle", "get_fspi"} /\ mem' = mem
        /\ Quietly(c, <<Store(e, "af", x)>>) /\ buf'[c] = Append(buf[c], Store(e, "af", x))
    BY <1>9, RetypeStep DEF e, x
  <2>2. t \in StoreType /\ t.f = "af" /\ t.x = Taken
    BY StoreTypes, Entries, Blanks DEF e
  <2>3. Quietly(c, <<t>>)
    BY <1>4, <2>1
  <2> HIDE DEF t
  <2>4. DOMAIN <<t>> = {1} /\ <<t>>[1] = t
    BY <2>2, Tuple1
  <2>5. CASE pc'[c] = "idle"
    <3>1. \A i \in DOMAIN <<t>> : <<t>>[i].f = "af" /\ <<t>>[i].x \in Dead
      BY <2>2, <2>4 DEF Dead
    <3>2. ~Owner(c)'
      BY <2>5 DEF Owner
    <3> QED BY <1>6, <2>1, <2>3, <3>1, <3>2
  <2>6. CASE pc'[c] = "get_fspi"
    <3>1. Owner(c) /\ Building(c, l) /\ Owner(c)'
      BY <1>3, <1>4, <2>1, <2>6 DEF Owner
    <3>2. Building(c, l)'
      BY <2>1, <2>6, <3>1, RetypeBuilds DEF x, e
    <3> QED BY <1>5, <2>3, <3>1, <3>2
  <2> QED BY <2>1, <2>5, <2>6
<1>10. CASE ConfigWindow(c)
  <2> DEFINE p == req[c].rpn
             s == <<Store(e, "af", x), Store(e, "twbah", p), Store(e, "twbal", p),
                    Store(e, "af", [x EXCEPT !.ap = TRUE])>>
  <2>1. /\ mem' = mem /\ pc[c] = "fill" /\ pc'[c] = "sync" /\ Works2(c) /\ req[c] \in Configs
        /\ req[c].cnt = 0 /\ p \in Page /\ Quietly(c, s)
        /\ buf'[c] = Append(Append(Append(Append(buf[c], Store(e, "af", x)), Store(e, "twbah", p)),
                                   Store(e, "twbal", p)), Store(e, "af", [x EXCEPT !.ap = TRUE]))
    BY <1>10, ConfigWindowStep DEF e, x
  <2> HIDE DEF s
  <2>2. req' = req /\ req[c].fn = "config_ppaace"
    BY <2>1, Fields DEF Works2, Goes
  <2>3. Owner(c) /\ Building(c, l) /\ Owner(c)'
    BY <1>3, <1>4, <2>1, <2>2 DEF Owner
  <2>4. Building(c, l)'
    BY <2>1, <2>2, <2>3, WindowBuilds DEF x, e
  <2> QED BY <1>5, <2>1, <2>3, <2>4
<1>11. CASE Allocate(c)
  <2> DEFINE s == <<Store(e, "af", [x EXCEPT !.mw = TRUE]), Store(e, "fspi", tmp[c])>>
  <2>1. /\ mem' = mem /\ req[c] \in Configs /\ pc[c] = "allocate" /\ Works2(c)
        /\ tmp' = tmp /\ req[c].cnt > 0 /\ tmp[c] \in 0 .. NSpaace
        /\ \/ /\ pc'[c] = "sync" /\ Quietly(c, s)
              /\ buf'[c] = Append(Append(buf[c], Store(e, "af", [x EXCEPT !.mw = TRUE])), Store(e, "fspi", tmp[c]))
           \/ pc'[c] = "get_fspi" /\ buf' = buf /\ Quietly(c, <<>>)
    BY <1>11, AllocateStep DEF e, x
  <2> HIDE DEF s
  <2>2. req' = req /\ req[c].fn = "config_ppaace"
    BY <2>1, Fields DEF Works2, Goes
  <2>3. Owner(c) /\ Building(c, l) /\ Owner(c)'
    BY <1>3, <1>4, <2>1, <2>2 DEF Owner
  <2>4. Building(c, l)'
    <3>1. CASE pc'[c] = "sync"
      BY <2>1, <2>2, <2>3, <3>1, AllocateBuilds DEF x, e
    <3>2. CASE pc'[c] = "get_fspi"
      BY <2>1, <2>3, <3>2, StillBuilds
    <3> QED BY <2>1, <3>1, <3>2
  <2> QED BY <1>5, <2>1, <2>3, <2>4
<1> QED BY <1>7, <1>8, <1>9, <1>10, <1>11

LEMMA UnconfiguredStep ==
    ASSUME Control, Tables, NEW c \in Cpu, NEW l \in Liodn, l \notin raced, req[c].l = l, configured[l] = <<>>,
           DeviceOk(l),
           \/ ConfigLock(c) \/ ConfigReserve(c) \/ ConfigUnlock(c) \/ ConfigBadOmi(c) \/ ConfigWindow(c)
           \/ ConfigSubwindows(c) \/ GetFspi(c) \/ Allocate(c) \/ Enable(c) \/ EnableValid(c) \/ Disable(c)
           \/ SpaaceFill(c) \/ SpaaceValid(c) \/ Reconfig(c) \/ Move(c) \/ Allow(c)
    PROVE  DeviceOk(l)'
<1>1. Unset(l) \/ Failed(l) \/ Owned(l)
  BY DEF DeviceOk
<1>2. CASE SpaaceFill(c) \/ SpaaceValid(c) \/ Reconfig(c) \/ Move(c) \/ Allow(c)
  <2>1. InWindow(c) /\ Works2(c)
    BY <1>2, WindowSteps DEF WindowStep
  <2>2. Works(c, l)
    BY <2>1 DEF Works, InWindow
  <2> QED BY <2>1, <2>2, NoneMade
<1>3. CASE ~(SpaaceFill(c) \/ SpaaceValid(c) \/ Reconfig(c) \/ Move(c) \/ Allow(c))
  <2>1. configured' = configured
    BY <1>3 DEF ConfigLock, ConfigReserve, ConfigUnlock, ConfigBadOmi, ConfigWindow, ConfigSubwindows, GetFspi,
                Allocate, Enable, EnableValid, Disable, outcome
  <2>2. (Unset(l) \/ Failed(l) \/ Owned(l))'
    <3>1. CASE Unset(l)
      BY <1>3, <3>1, UnsetSteps, ReserveUnset
    <3>2. CASE Failed(l)
      BY <1>3, <3>2, FailedSteps
    <3>3. CASE Owned(l)
      BY <1>3, <3>3, OwnedSteps, ReserveOwned
    <3> QED BY <1>1, <3>1, <3>2, <3>3
  <2> QED BY <2>1, <2>2 DEF DeviceOk
<1> QED BY <1>2, <1>3

-----------------------------------------------------------------------------
(* The stores to one entry that wait in a buffer                            *)
DeniesIn(b, e) == \E i \in DOMAIN b : Denies(b[i], e)
PagesIn(b, e) == \E i \in DOMAIN b : Pages(b[i], e)
GrantsIn(b, e) == \E i \in DOMAIN b : Grants(b[i], e)
WordsIn(b, e, S) == \A i \in DOMAIN b : To(b[i], e, "af") => b[i].x \in S
IsIn(b, e) == \E i \in DOMAIN b : IsTo(b[i], e)
After(b, i) == \E k \in DOMAIN b : k > i /\ b[k] = lwsync
DenialsFenced(b, e) == \A i \in DOMAIN b : Denies(b[i], e) => After(b, i)

LEMMA NoneIn ==
    ASSUME NEW b \in Seq(StoreType), NEW e, ~IsIn(b, e)
    PROVE  /\ ~DeniesIn(b, e) /\ ~PagesIn(b, e) /\ ~GrantsIn(b, e) /\ Ordered(b, e) /\ Fenced(b, e)
           /\ \A S : WordsIn(b, e, S)
           /\ \A m, f : f \in Field => Seen(b, m, e, f) = m[e][f]
<1>1. \A i \in DOMAIN b : b[i] \in StoreType /\ ~IsTo(b[i], e)
  BY DEF IsIn
<1>2. \A i \in DOMAIN b : ~Denies(b[i], e) /\ ~Pages(b[i], e) /\ ~Grants(b[i], e) /\ ~To(b[i], e, "af")
  BY <1>1, Kinds
<1>3. \A i \in DOMAIN b, f \in Field : ~To(b[i], e, f)
  BY <1>1, ToIs
<1> QED BY <1>1, <1>2, <1>3, SeenNone DEF DeniesIn, PagesIn, GrantsIn, Ordered, Fenced, WordsIn

LEMMA AppendIn ==
    ASSUME NEW b \in Seq(StoreType), NEW t \in StoreType, NEW e
    PROVE  LET b2 == Append(b, t) IN
           /\ DeniesIn(b2, e) <=> DeniesIn(b, e) \/ Denies(t, e)
           /\ PagesIn(b2, e) <=> PagesIn(b, e) \/ Pages(t, e)
           /\ GrantsIn(b2, e) <=> GrantsIn(b, e) \/ Grants(t, e)
           /\ IsIn(b2, e) <=> IsIn(b, e) \/ IsTo(t, e)
           /\ \A S : WordsIn(b2, e, S) <=> WordsIn(b, e, S) /\ (To(t, e, "af") => t.x \in S)
<1> DEFINE b2 == Append(b, t)
           n == Len(b) + 1
<1>1. /\ \A j \in DOMAIN b : j \in DOMAIN b2 /\ b2[j] = b[j]
      /\ n \in DOMAIN b2 /\ b2[n] = t
      /\ \A j \in DOMAIN b2 : j \in DOMAIN b \/ j = n
  BY AppendAll
<1> HIDE DEF b2, n
<1>2. DeniesIn(b2, e) <=> DeniesIn(b, e) \/ Denies(t, e)
  BY <1>1 DEF DeniesIn
<1>3. PagesIn(b2, e) <=> PagesIn(b, e) \/ Pages(t, e)
  BY <1>1 DEF PagesIn
<1>4. GrantsIn(b2, e) <=> GrantsIn(b, e) \/ Grants(t, e)
  BY <1>1 DEF GrantsIn
<1>5. IsIn(b2, e) <=> IsIn(b, e) \/ IsTo(t, e)
  BY <1>1 DEF IsIn
<1>6. \A S : WordsIn(b2, e, S) <=> WordsIn(b, e, S) /\ (To(t, e, "af") => t.x \in S)
  BY <1>1 DEF WordsIn
<1> QED BY <1>2, <1>3, <1>4, <1>5, <1>6 DEF b2

LEMMA AfterAppend ==
    ASSUME NEW b \in Seq(StoreType), NEW t \in StoreType, NEW i \in DOMAIN b
    PROVE  /\ After(b, i) => After(Append(b, t), i)
           /\ t = lwsync => After(Append(b, t), i)
<1> DEFINE b2 == Append(b, t)
           n == Len(b) + 1
<1>1. /\ \A j \in DOMAIN b : j \in DOMAIN b2 /\ b2[j] = b[j]
      /\ n \in DOMAIN b2 /\ b2[n] = t /\ n > i
  BY AppendAll
<1> HIDE DEF b2, n
<1> QED BY <1>1 DEF After, b2

(* The order of the stores, with one more.                                  *)
LEMMA OrderAppend ==
    ASSUME NEW b \in Seq(StoreType), NEW t \in StoreType, NEW e, Ordered(b, e),
           Denies(t, e) => ~PagesIn(b, e) /\ ~GrantsIn(b, e),
           Pages(t, e) => ~GrantsIn(b, e) /\ DenialsFenced(b, e),
           Grants(t, e) => \A i \in DOMAIN b : Denies(b[i], e) \/ Pages(b[i], e) => After(b, i)
    PROVE  Ordered(Append(b, t), e)
<1> DEFINE b2 == Append(b, t)
           n == Len(b) + 1
<1>1. /\ \A j \in DOMAIN b : j \in DOMAIN b2 /\ b2[j] = b[j]
      /\ n \in DOMAIN b2 /\ b2[n] = t /\ DOMAIN b = 1 .. n - 1 /\ n \in Nat
      /\ \A j \in DOMAIN b2 : j \in DOMAIN b \/ j = n
  BY AppendAll
<1>2. /\ Denies(t, e) => ~Pages(t, e) /\ ~Grants(t, e)
      /\ Pages(t, e) => ~Grants(t, e)
  BY Kinds
<1> HIDE DEF b2, n
<1>3. ASSUME NEW i \in DOMAIN b, NEW j \in DOMAIN b, Before(b, i, j) PROVE Before(b2, i, j)
  <2>1. i < j /\ \E k \in i .. j : b[k] = lwsync
    BY <1>3 DEF Before
  <2>2. PICK k \in i .. j : b[k] = lwsync
    BY <2>1
  <2>3. k \in DOMAIN b
    BY <1>1, <2>2
  <2>4. b2[k] = lwsync
    BY <1>1, <2>2, <2>3
  <2> QED BY <2>1, <2>2, <2>4 DEF Before
<1>4. ASSUME NEW i \in DOMAIN b, After(b, i) PROVE Before(b2, i, n)
  <2>1. PICK k \in DOMAIN b : k > i /\ b[k] = lwsync
    BY <1>4 DEF After
  <2>2. i < n /\ k \in i .. n /\ b2[k] = lwsync
    BY <1>1, <2>1
  <2> QED BY <2>2 DEF Before
<1> SUFFICES ASSUME NEW i \in DOMAIN b2, NEW j \in DOMAIN b2
             PROVE  /\ Denies(b2[i], e) /\ Pages(b2[j], e) => Before(b2, i, j)
                    /\ Pages(b2[i], e) /\ Grants(b2[j], e) => Before(b2, i, j)
                    /\ Denies(b2[i], e) /\ Grants(b2[j], e) => Before(b2, i, j)
  BY DEF Ordered, b2
<1>5. CASE i \in DOMAIN b /\ j \in DOMAIN b
  <2>1. /\ Denies(b[i], e) /\ Pages(b[j], e) => Before(b, i, j)
        /\ Pages(b[i], e) /\ Grants(b[j], e) => Before(b, i, j)
        /\ Denies(b[i], e) /\ Grants(b[j], e) => Before(b, i, j)
    BY <1>5 DEF Ordered
  <2> QED BY <1>1, <1>3, <1>5, <2>1
<1>6. CASE i \in DOMAIN b /\ j = n
  <2>1. b2[i] = b[i] /\ b2[j] = t
    BY <1>1, <1>6
  <2>2. Denies(b[i], e) /\ Pages(t, e) => After(b, i)
    BY <1>6 DEF DenialsFenced
  <2> QED BY <1>4, <1>6, <2>1, <2>2
<1>7. CASE i = n /\ j \in DOMAIN b
  <2>1. b2[i] = t /\ b2[j] = b[j]
    BY <1>1, <1>7
  <2>2. /\ Pages(b[j], e) => PagesIn(b, e)
        /\ Grants(b[j], e) => GrantsIn(b, e)
    BY <1>7 DEF PagesIn, GrantsIn
  <2> QED BY <2>1, <2>2
<1>8. CASE i = n /\ j = n
  BY <1>1, <1>2, <1>8
<1> QED BY <1>1, <1>5, <1>6, <1>7, <1>8

LEMMA StoreIs ==
    ASSUME NEW e \in Entry
    PROVE  /\ \A x \in Word : /\ Denies(Store(e, "af", x), e) <=> ~x.ap
                              /\ ~Pages(Store(e, "af", x), e)
                              /\ Grants(Store(e, "af", x), e) <=> x.ap /\ x.v
           /\ \A x \in Page, f \in {"twbah", "twbal"} :
                 ~Denies(Store(e, f, x), e) /\ Pages(Store(e, f, x), e) /\ ~Grants(Store(e, f, x), e)
           /\ ~Denies(lwsync, e) /\ ~Pages(lwsync, e) /\ ~Grants(lwsync, e)
<1>1. ASSUME NEW x \in Word
      PROVE  /\ Denies(Store(e, "af", x), e) <=> ~x.ap
             /\ ~Pages(Store(e, "af", x), e)
             /\ Grants(Store(e, "af", x), e) <=> x.ap /\ x.v
  <2> DEFINE t == Store(e, "af", x)
  <2>1. To(t, e, "af") /\ ~To(t, e, "twbah") /\ ~To(t, e, "twbal") /\ t.x = x
    BY StoreTo, StoreTypes
  <2> HIDE DEF t
  <2> QED BY <2>1 DEF Denies, Pages, Grants, t
<1>2. ASSUME NEW x \in Page, NEW f \in {"twbah", "twbal"}
      PROVE  ~Denies(Store(e, f, x), e) /\ Pages(Store(e, f, x), e) /\ ~Grants(Store(e, f, x), e)
  <2> DEFINE t == Store(e, f, x)
  <2>1. ~To(t, e, "af") /\ (To(t, e, "twbah") \/ To(t, e, "twbal"))
    BY StoreTo
  <2> HIDE DEF t
  <2> QED BY <2>1 DEF Denies, Pages, Grants, t
<1>3. ~Denies(lwsync, e) /\ ~Pages(lwsync, e) /\ ~Grants(lwsync, e)
  BY StoreTo DEF Denies, Pages, Grants
<1> QED BY <1>1, <1>2, <1>3

(* One more store: to the word, ...                                         *)
LEMMA WordAppend ==
    ASSUME NEW b \in Seq(StoreType), NEW e \in Entry, NEW x \in Word, Ordered(b, e),
           ~x.ap => ~PagesIn(b, e) /\ ~GrantsIn(b, e),
           x.ap /\ x.v => Fenced(b, e)
    PROVE  LET b2 == Append(b, Store(e, "af", x)) IN
           /\ b2 \in Seq(StoreType) /\ Ordered(b2, e)
           /\ DeniesIn(b2, e) <=> DeniesIn(b, e) \/ ~x.ap
           /\ PagesIn(b2, e) <=> PagesIn(b, e)
           /\ GrantsIn(b2, e) <=> GrantsIn(b, e) \/ (x.ap /\ x.v)
           /\ \A S : WordsIn(b2, e, S) <=> WordsIn(b, e, S) /\ x \in S
           /\ \A m : /\ Seen(b2, m, e, "af") = x /\ Seen(b2, m, e, "twbah") = Seen(b, m, e, "twbah")
                     /\ Seen(b2, m, e, "twbal") = Seen(b, m, e, "twbal")
<1> DEFINE t == Store(e, "af", x)
           b2 == Append(b, t)
<1>1. /\ t \in StoreType /\ t.x = x /\ To(t, e, "af") /\ ~To(t, e, "twbah") /\ ~To(t, e, "twbal")
      /\ Denies(t, e) <=> ~x.ap
      /\ ~Pages(t, e)
      /\ Grants(t, e) <=> x.ap /\ x.v
  BY StoreTypes, StoreTo, StoreIs
<1> HIDE DEF t
<1>2. /\ DeniesIn(b2, e) <=> DeniesIn(b, e) \/ Denies(t, e)
      /\ PagesIn(b2, e) <=> PagesIn(b, e) \/ Pages(t, e)
      /\ GrantsIn(b2, e) <=> GrantsIn(b, e) \/ Grants(t, e)
      /\ \A S : WordsIn(b2, e, S) <=> WordsIn(b, e, S) /\ (To(t, e, "af") => t.x \in S)
  BY <1>1, AppendIn
<1>3. \A m : /\ Seen(b2, m, e, "af") = x /\ Seen(b2, m, e, "twbah") = Seen(b, m, e, "twbah")
             /\ Seen(b2, m, e, "twbal") = Seen(b, m, e, "twbal")
  BY <1>1, SeenAppend
<1>4. ASSUME Grants(t, e) PROVE \A i \in DOMAIN b : Denies(b[i], e) \/ Pages(b[i], e) => After(b, i)
  <2>1. \A i \in DOMAIN b : Denies(b[i], e) \/ Pages(b[i], e) => IsTo(b[i], e)
    BY Kinds
  <2> QED BY <1>1, <1>4, <2>1 DEF Fenced, After
<1>5. Ordered(b2, e)
  BY <1>1, <1>4, OrderAppend
<1>6. b2 \in Seq(StoreType)
  BY <1>1
<1> HIDE DEF b2
<1>7. /\ DeniesIn(b2, e) <=> DeniesIn(b, e) \/ ~x.ap
      /\ PagesIn(b2, e) <=> PagesIn(b, e)
      /\ GrantsIn(b2, e) <=> GrantsIn(b, e) \/ (x.ap /\ x.v)
      /\ \A S : WordsIn(b2, e, S) <=> WordsIn(b, e, S) /\ x \in S
  BY <1>1, <1>2
<1> QED BY <1>3, <1>5, <1>6, <1>7 DEF b2, t

(* ... to a half of the page, ...                                           *)
LEMMA PageAppend ==
    ASSUME NEW b \in Seq(StoreType), NEW e \in Entry, NEW f \in {"twbah", "twbal"}, NEW p \in Page, Ordered(b, e),
           ~GrantsIn(b, e), DenialsFenced(b, e)
    PROVE  LET b2 == Append(b, Store(e, f, p)) IN
           /\ b2 \in Seq(StoreType) /\ Ordered(b2, e) /\ DenialsFenced(b2, e)
           /\ DeniesIn(b2, e) <=> DeniesIn(b, e)
           /\ ~GrantsIn(b2, e)
           /\ \A S : WordsIn(b2, e, S) <=> WordsIn(b, e, S)
           /\ \A m : /\ Seen(b2, m, e, "af") = Seen(b, m, e, "af") /\ Seen(b2, m, e, f) = p
                     /\ \A g \in {"twbah", "twbal"} : g # f => Seen(b2, m, e, g) = Seen(b, m, e, g)
<1> DEFINE t == Store(e, f, p)
           b2 == Append(b, t)
<1>1. /\ t \in StoreType /\ t.x = p /\ ~To(t, e, "af") /\ To(t, e, f)
      /\ \A g \in {"twbah", "twbal"} : g # f => ~To(t, e, g)
      /\ ~Denies(t, e) /\ Pages(t, e) /\ ~Grants(t, e)
  <2>1. t \in StoreType /\ t.x = p
    BY StoreTypes
  <2>2. ~To(t, e, "af") /\ To(t, e, f) /\ \A g \in {"twbah", "twbal"} : g # f => ~To(t, e, g)
    BY StoreTo
  <2> QED BY <2>1, <2>2, StoreIs
<1> HIDE DEF t
<1>2. /\ DeniesIn(b2, e) <=> DeniesIn(b, e) \/ Denies(t, e)
      /\ GrantsIn(b2, e) <=> GrantsIn(b, e) \/ Grants(t, e)
      /\ \A S : WordsIn(b2, e, S) <=> WordsIn(b, e, S) /\ (To(t, e, "af") => t.x \in S)
  BY <1>1, AppendIn
<1>3. \A m : /\ Seen(b2, m, e, "af") = Seen(b, m, e, "af") /\ Seen(b2, m, e, f) = p
             /\ \A g \in {"twbah", "twbal"} : g # f => Seen(b2, m, e, g) = Seen(b, m, e, g)
  BY <1>1, SeenAppend
<1>4. Ordered(b2, e)
  BY <1>1, OrderAppend
<1>5. b2 \in Seq(StoreType)
  BY <1>1
<1>6. DenialsFenced(b2, e)
  <2> SUFFICES ASSUME NEW i \in DOMAIN b2, Denies(b2[i], e) PROVE After(b2, i)
    BY DEF DenialsFenced
  <2>1. i \in DOMAIN b /\ b2[i] = b[i]
    <3>1. /\ \A j \in DOMAIN b : b2[j] = b[j]
          /\ b2[Len(b) + 1] = t
          /\ \A j \in DOMAIN b2 : j \in DOMAIN b \/ j = Len(b) + 1
      BY <1>1, AppendAll
    <3> HIDE DEF b2
    <3> QED BY <1>1, <3>1
  <2>2. After(b, i)
    BY <2>1 DEF DenialsFenced
  <2> QED BY <1>1, <2>1, <2>2, AfterAppend
<1> HIDE DEF b2
<1>7. /\ DeniesIn(b2, e) <=> DeniesIn(b, e)
      /\ ~GrantsIn(b2, e)
      /\ \A S : WordsIn(b2, e, S) <=> WordsIn(b, e, S)
  BY <1>1, <1>2
<1> QED BY <1>3, <1>4, <1>5, <1>6, <1>7 DEF b2, t

(* ... and a barrier.                                                       *)
LEMMA SyncAppend ==
    ASSUME NEW b \in Seq(StoreType), NEW e \in Entry, Ordered(b, e)
    PROVE  LET b2 == Append(b, lwsync) IN
           /\ b2 \in Seq(StoreType) /\ Ordered(b2, e) /\ Fenced(b2, e)
           /\ DeniesIn(b2, e) <=> DeniesIn(b, e)
           /\ PagesIn(b2, e) <=> PagesIn(b, e)
           /\ GrantsIn(b2, e) <=> GrantsIn(b, e)
           /\ \A S : WordsIn(b2, e, S) <=> WordsIn(b, e, S)
           /\ \A m : /\ Seen(b2, m, e, "af") = Seen(b, m, e, "af") /\ Seen(b2, m, e, "twbah") = Seen(b, m, e, "twbah")
                     /\ Seen(b2, m, e, "twbal") = Seen(b, m, e, "twbal")
<1> DEFINE b2 == Append(b, lwsync)
<1>1. /\ lwsync \in StoreType /\ ~Denies(lwsync, e) /\ ~Pages(lwsync, e) /\ ~Grants(lwsync, e)
      /\ \A f : ~To(lwsync, e, f)
      /\ ~IsTo(lwsync, e)
  BY StoreTypes, StoreTo, StoreIs
<1>2. /\ DeniesIn(b2, e) <=> DeniesIn(b, e)
      /\ PagesIn(b2, e) <=> PagesIn(b, e)
      /\ GrantsIn(b2, e) <=> GrantsIn(b, e)
      /\ \A S : WordsIn(b2, e, S) <=> WordsIn(b, e, S)
  <2>1. /\ DeniesIn(b2, e) <=> DeniesIn(b, e) \/ Denies(lwsync, e)
        /\ PagesIn(b2, e) <=> PagesIn(b, e) \/ Pages(lwsync, e)
        /\ GrantsIn(b2, e) <=> GrantsIn(b, e) \/ Grants(lwsync, e)
        /\ \A S : WordsIn(b2, e, S) <=> WordsIn(b, e, S) /\ (To(lwsync, e, "af") => lwsync.x \in S)
    BY <1>1, AppendIn
  <2> HIDE DEF b2
  <2> QED BY <1>1, <2>1
<1>3. \A m, f : Seen(b2, m, e, f) = Seen(b, m, e, f)
  BY <1>1, SeenAppend
<1>4. Ordered(b2, e) /\ b2 \in Seq(StoreType)
  BY <1>1, OrderAppend
<1>5. Fenced(b2, e)
  <2>1. \A i \in DOMAIN b : After(b2, i)
    BY <1>1, AfterAppend
  <2>2. \A i \in DOMAIN b2 : i \in DOMAIN b \/ b2[i] = lwsync
    BY <1>1, AppendAll
  <2> HIDE DEF b2
  <2> QED BY <1>1, <2>1, <2>2 DEF Fenced, After
<1> QED BY <1>2, <1>3, <1>4, <1>5

(* A device's entry, in terms of its buffer.                                *)
LEMMA InBuffer ==
    /\ \A c, e : /\ Denied(c, e) <=> DeniesIn(buf[c], e)
                 /\ Paged(c, e) <=> PagesIn(buf[c], e)
                 /\ Granting(c, e) <=> GrantsIn(buf[c], e)
                 /\ Pending(c, e) <=> IsIn(buf[c], e)
                 /\ \A S : AFs(c, e, S) <=> WordsIn(buf[c], e, S)
    /\ \A c, e : /\ Denied(c, e)' <=> DeniesIn(buf'[c], e)
                 /\ Paged(c, e)' <=> PagesIn(buf'[c], e)
                 /\ Granting(c, e)' <=> GrantsIn(buf'[c], e)
                 /\ Pending(c, e)' <=> IsIn(buf'[c], e)
                 /\ \A S : AFs(c, e, S)' <=> WordsIn(buf'[c], e, S)
<1>1. \A c, e : /\ Denied(c, e) <=> DeniesIn(buf[c], e)
                /\ Paged(c, e) <=> PagesIn(buf[c], e)
                /\ Granting(c, e) <=> GrantsIn(buf[c], e)
                /\ Pending(c, e) <=> IsIn(buf[c], e)
  BY DEF Denied, DeniesIn, Paged, PagesIn, Granting, GrantsIn, Pending, IsIn
<1>2. \A c, e : /\ Denied(c, e)' <=> DeniesIn(buf'[c], e)
                /\ Paged(c, e)' <=> PagesIn(buf'[c], e)
                /\ Granting(c, e)' <=> GrantsIn(buf'[c], e)
                /\ Pending(c, e)' <=> IsIn(buf'[c], e)
  BY DEF Denied, DeniesIn, Paged, PagesIn, Granting, GrantsIn, Pending, IsIn
<1>3. \A c, e, S : AFs(c, e, S) <=> WordsIn(buf[c], e, S)
  BY DEF AFs, WordsIn
<1>4. \A c, e, S : AFs(c, e, S)' <=> WordsIn(buf'[c], e, S)
  BY DEF AFs, WordsIn
<1> QED BY <1>1, <1>2, <1>3, <1>4

-----------------------------------------------------------------------------
(* A step on a window of a device that is configured                        *)

Given(page) == page # NoPage

LEMMA WordOfIs ==
    \A l, w, v, page : v \in BOOLEAN =>
       /\ WordOf(l, w, v, page) \in Word /\ WordOf(l, w, v, page).ap = Given(page)
       /\ w = 0 => /\ WordOf(l, w, v, page).v = v /\ WordOf(l, w, v, page).mw = Multi(l)
                  /\ WordOf(l, w, v, page).wse = TRUE
       /\ w # 0 => /\ WordOf(l, w, v, page).v = Given(page) /\ WordOf(l, w, v, page).mw = FALSE
                  /\ WordOf(l, w, v, page).wse = FALSE
<1> TAKE l, w, v, page
<1> HAVE v \in BOOLEAN
<1> DEFINE g == Given(page)
           m == Multi(l)
<1>1. g \in BOOLEAN /\ m \in BOOLEAN
  BY DEF Multi, Given
<1>2. WordOf(l, w, v, page) = IF w = 0 THEN [v |-> v, ap |-> g, mw |-> m, wse |-> TRUE]
                              ELSE [v |-> g, ap |-> g, mw |-> FALSE, wse |-> FALSE]
  BY DEF WordOf, Given
<1> HIDE DEF g, m
<1>3. LET x == WordOf(l, w, v, page) IN
      /\ x \in Word /\ x.ap = g
      /\ w = 0 => x.v = v /\ x.mw = m /\ x.wse = TRUE
      /\ w # 0 => x.v = g /\ x.mw = FALSE /\ x.wse = FALSE
  <2>1. CASE w = 0
    BY <1>1, <1>2, <2>1 DEF Word
  <2>2. CASE w # 0
    BY <1>1, <1>2, <2>2 DEF Word
  <2> QED BY <2>1, <2>2
<1> QED BY <1>3 DEF g, m

LEMMA FilledIs ==
    \A l, w : /\ FilledWord(l, w) \in Word /\ FilledWord(l, w).v = FALSE /\ FilledWord(l, w).ap = TRUE
              /\ w = 0 => FilledWord(l, w).mw = Multi(l) /\ FilledWord(l, w).wse = TRUE
              /\ w # 0 => FilledWord(l, w).mw = FALSE /\ FilledWord(l, w).wse = FALSE
<1> TAKE l, w
<1> DEFINE m == Multi(l)
<1>1. m \in BOOLEAN
  BY DEF Multi
<1>2. FilledWord(l, w) = IF w = 0 THEN [v |-> FALSE, ap |-> TRUE, mw |-> m, wse |-> TRUE]
                         ELSE [v |-> FALSE, ap |-> TRUE, mw |-> FALSE, wse |-> FALSE]
  BY DEF FilledWord
<1> HIDE DEF m
<1>3. LET x == FilledWord(l, w) IN
      /\ x \in Word /\ x.v = FALSE /\ x.ap = TRUE
      /\ w = 0 => x.mw = m /\ x.wse = TRUE
      /\ w # 0 => x.mw = FALSE /\ x.wse = FALSE
  <2>1. CASE w = 0
    BY <1>1, <1>2, <2>1 DEF Word
  <2>2. CASE w # 0
    BY <1>1, <1>2, <2>2 DEF Word
  <2> QED BY <2>1, <2>2
<1> QED BY <1>3 DEF m

LEMMA GivenIs ==
    /\ \A page : Given(page) \in BOOLEAN /\ (Given(page) <=> page # NoPage)
    /\ Given(NoPage) = FALSE
    /\ \A p \in Page : Given(p) = TRUE
  BY NoPageAssumption DEF Given

LEMMA AskedIs ==
    ASSUME Control, NEW l \in Liodn, NEW w \in Window
    PROVE  /\ asked[l].v \in BOOLEAN /\ asked[l].page[w] \in Page \cup {NoPage}
           /\ asked[l].page[w] # NoPage => asked[l].page[w] \in Page /\ asked[l].page[w] \in granted[l][w]
<1>1. /\ asked \in [Liodn -> [v : BOOLEAN, page : [Window -> Page \cup {NoPage}]]]
      /\ asked[l].page[w] \in granted[l][w] \cup {NoPage}
  BY DEF Control
<1> QED BY <1>1

(* An entry at rest, as a core sees it.                                     *)
LEMMA RestIs ==
    ASSUME Control, Tables, NEW c \in Cpu, NEW l \in Liodn, NEW w \in Window, NEW e, RestAt(l, w, e)
    PROVE  LET b == buf[c]
               x == Load(c, e, "af")
               page == asked[l].page[w] IN
           /\ b \in Seq(StoreType) /\ ~IsIn(b, e)
           /\ x = WordOf(l, w, asked[l].v, page) /\ mem[e].af = x /\ x \in Word
           /\ Seen(b, mem, e, "af") = x
           /\ Seen(b, mem, e, "twbah") = mem[e].twbah /\ Seen(b, mem, e, "twbal") = mem[e].twbal
           /\ page # NoPage => mem[e].twbah = page /\ mem[e].twbal = page /\ page \in Page /\ page \in granted[l][w]
<1> DEFINE b == buf[c]
           page == asked[l].page[w]
<1>1. b \in Seq(StoreType) /\ ~IsIn(b, e)
  BY Typed, InBuffer DEF RestAt
<1>2. /\ Seen(b, mem, e, "af") = mem[e].af
      /\ Seen(b, mem, e, "twbah") = mem[e].twbah /\ Seen(b, mem, e, "twbal") = mem[e].twbal
  BY <1>1, NoneIn DEF Field
<1>3. mem[e].af = WordOf(l, w, asked[l].v, page) /\ (page # NoPage => mem[e].twbah = page /\ mem[e].twbal = page)
  BY DEF RestAt
<1>4. WordOf(l, w, asked[l].v, page) \in Word
  BY AskedIs, WordOfIs
<1> QED BY <1>1, <1>2, <1>3, <1>4, AskedIs, Loads

(* What a step of c in its call leaves for an entry.                        *)
Acts(c) ==
    /\ pc[c] # "idle" /\ pc'[c] # "idle" /\ mem' = mem /\ req' = req /\ asked' = asked /\ configured' = configured
    /\ granted' = granted /\ buf'[c] \in Seq(StoreType)

LEMMA StageMade ==
    ASSUME NEW c \in Cpu, Acts(c), NEW l, NEW w, NEW e, \A d \in Cpu \ {c} : ~Pending(d, e)',
           Ordered(buf'[c], e),
           w = 0 => mem[e].af.mw = Multi(l) /\ WordsIn(buf'[c], e, {x \in Word : x.mw = Multi(l)}),
           mem[e].af.v /\ mem[e].af.ap =>
              /\ mem[e].twbah = mem[e].twbal /\ mem[e].twbah \in granted[l][w]
              /\ (PagesIn(buf'[c], e) => DeniesIn(buf'[c], e)),
           GrantsIn(buf'[c], e) => /\ Seen(buf'[c], mem, e, "twbah") = Seen(buf'[c], mem, e, "twbal")
                                   /\ Seen(buf'[c], mem, e, "twbah") \in granted[l][w],
           MadeAt(c, l, w, e)'
    PROVE  StageAt(c, l, w, e)'
<1>1. /\ mem' = mem /\ configured' = configured /\ granted' = granted
  BY DEF Acts
<1>2. Multi(l)' = Multi(l)
  BY <1>1 DEF Multi
<1>3. w = 0 => mem'[e].af.mw = Multi(l)' /\ AFs(c, e, {x \in Word : x.mw = Multi(l)})'
  <2> SUFFICES ASSUME w = 0 PROVE mem'[e].af.mw = Multi(l)' /\ AFs(c, e, {x \in Word : x.mw = Multi(l)})'
    OBVIOUS
  <2>1. WordsIn(buf'[c], e, {x \in Word : x.mw = Multi(l)})
    OBVIOUS
  <2>2. AFs(c, e, {x \in Word : x.mw = Multi(l)})'
    BY <1>2, <2>1 DEF AFs, WordsIn
  <2> QED BY <1>1, <1>2, <2>2
<1>4. /\ Denied(c, e)' <=> DeniesIn(buf'[c], e)
      /\ Paged(c, e)' <=> PagesIn(buf'[c], e)
      /\ Granting(c, e)' <=> GrantsIn(buf'[c], e)
  BY InBuffer
<1>5. /\ Load(c, e, "twbah")' = Seen(buf'[c], mem, e, "twbah")
      /\ Load(c, e, "twbal")' = Seen(buf'[c], mem, e, "twbal")
  BY <1>1, LoadsNext
<1> QED BY <1>1, <1>3, <1>4, <1>5 DEF StageAt

LEMMA MadeSync ==
    ASSUME NEW c \in Cpu, Acts(c), NEW l, NEW w, NEW e, pc'[c] = "sync",
           NEW page2, page2 = IF InWindow(c) THEN req[c].rpn ELSE asked[l].page[w],
           NEW v2, v2 = CASE req[c].fn = "enable" -> TRUE [] req[c].fn = "disable" -> FALSE
                [] req[c].fn = "config_spaace" /\ w = 0 -> TRUE [] OTHER -> asked[l].v,
           Seen(buf'[c], mem, e, "af") = WordOf(l, w, v2, page2),
           page2 # NoPage => Seen(buf'[c], mem, e, "twbah") = page2 /\ Seen(buf'[c], mem, e, "twbal") = page2
    PROVE  MadeAt(c, l, w, e)'
<1>1. InWindow(c)' <=> InWindow(c)
  BY DEF Acts, InWindow
<1>2. page2 = (IF InWindow(c) THEN req[c].rpn ELSE asked[l].page[w])'
  BY <1>1 DEF Acts
<1>3. v2 = (CASE req[c].fn = "enable" -> TRUE [] req[c].fn = "disable" -> FALSE
                [] req[c].fn = "config_spaace" /\ w = 0 -> TRUE [] OTHER -> asked[l].v)'
  BY DEF Acts
<1>4. /\ Load(c, e, "af")' = WordOf(l, w, v2, page2)'
      /\ page2 # NoPage => SeesPage(c, e, page2)'
  <2>1. WordOf(l, w, v2, page2)' = WordOf(l, w, v2, page2)
    BY DEF Acts, WordOf, Multi
  <2>2. /\ Load(c, e, "af")' = Seen(buf'[c], mem, e, "af")
        /\ Load(c, e, "twbah")' = Seen(buf'[c], mem, e, "twbah")
        /\ Load(c, e, "twbal")' = Seen(buf'[c], mem, e, "twbal")
    BY LoadsNext DEF Acts
  <2> QED BY <2>1, <2>2 DEF SeesPage
<1> QED BY <1>2, <1>3, <1>4 DEF MadeAt

(* Enable and disable: the valid bit of an entry at rest.                   *)
LEMMA SwitchStage ==
    ASSUME Control, Tables, NEW c \in Cpu, Acts(c), NEW l \in Liodn, NEW e \in Entry, RestAt(l, 0, e),
           \A d \in Cpu \ {c} : ~Pending(d, e)', pc'[c] = "sync", ~InWindow(c),
           NEW v2, v2 \in BOOLEAN, (req[c].fn = "enable" /\ v2 = TRUE) \/ (req[c].fn = "disable" /\ v2 = FALSE),
           buf'[c] = Append(buf[c], Store(e, "af", [Load(c, e, "af") EXCEPT !.v = v2]))
    PROVE  StageAt(c, l, 0, e)'
<1> DEFINE b == buf[c]
           x == Load(c, e, "af")
           y == [x EXCEPT !.v = v2]
           b2 == buf'[c]
           page == asked[l].page[0]
<1>1. /\ b \in Seq(StoreType) /\ ~IsIn(b, e)
      /\ x = WordOf(l, 0, asked[l].v, page) /\ mem[e].af = x /\ x \in Word
      /\ Seen(b, mem, e, "twbah") = mem[e].twbah /\ Seen(b, mem, e, "twbal") = mem[e].twbal
      /\ page # NoPage => mem[e].twbah = page /\ mem[e].twbal = page /\ page \in Page /\ page \in granted[l][0]
  BY RestIs, Zero
<1>2. x.ap = Given(page) /\ x.mw = Multi(l) /\ x.wse = TRUE
  BY <1>1, WordOfIs, AskedIs, Zero
<1> HIDE DEF x
<1>3. y \in Word /\ y.v = v2 /\ y.ap = Given(page) /\ y.mw = Multi(l) /\ y.wse = TRUE
  <2>1. y \in Word /\ y.v = v2 /\ y.ap = x.ap /\ y.mw = x.mw /\ y.wse = x.wse
    <3>1. x \in Word
      BY <1>1
    <3>2. CASE v2 = TRUE
      <4>1. [x EXCEPT !.v = TRUE] \in Word /\ [x EXCEPT !.v = TRUE].v = TRUE /\ [x EXCEPT !.v = TRUE].ap = x.ap
            /\ [x EXCEPT !.v = TRUE].mw = x.mw /\ [x EXCEPT !.v = TRUE].wse = x.wse
        BY <3>1, WordFields
      <4> QED BY <3>2, <4>1
    <3>3. CASE v2 = FALSE
      <4>1. [x EXCEPT !.v = FALSE] \in Word /\ [x EXCEPT !.v = FALSE].v = FALSE /\ [x EXCEPT !.v = FALSE].ap = x.ap
            /\ [x EXCEPT !.v = FALSE].mw = x.mw /\ [x EXCEPT !.v = FALSE].wse = x.wse
        BY <3>1, WordFields
      <4> QED BY <3>3, <4>1
    <3> QED BY <3>2, <3>3
  <2> QED BY <1>2, <2>1
<1>4. y = WordOf(l, 0, v2, page)
  <2> DEFINE z == WordOf(l, 0, v2, page)
  <2>1. z \in Word /\ z.v = v2 /\ z.ap = Given(page) /\ z.mw = Multi(l) /\ z.wse = TRUE
    BY WordOfIs
  <2> HIDE DEF z, y
  <2>2. y = z
    BY <1>3, <2>1, WordEq
  <2> QED BY <2>2 DEF z
<1>5. b2 = Append(b, Store(e, "af", y))
  BY DEF x
<1> HIDE DEF y, b, b2
<1>6. /\ ~DeniesIn(b, e) /\ ~PagesIn(b, e) /\ ~GrantsIn(b, e) /\ Ordered(b, e) /\ Fenced(b, e)
      /\ \A S : WordsIn(b, e, S)
  BY <1>1, NoneIn
<1>7. /\ Ordered(b2, e) /\ ~PagesIn(b2, e) /\ (GrantsIn(b2, e) => y.ap)
      /\ \A S : y \in S => WordsIn(b2, e, S)
      /\ Seen(b2, mem, e, "af") = y /\ Seen(b2, mem, e, "twbah") = mem[e].twbah
      /\ Seen(b2, mem, e, "twbal") = mem[e].twbal
  BY <1>1, <1>3, <1>5, <1>6, WordAppend
<1>8. MadeAt(c, l, 0, e)'
  <2>1. v2 = CASE req[c].fn = "enable" -> TRUE [] req[c].fn = "disable" -> FALSE
                [] req[c].fn = "config_spaace" /\ 0 = 0 -> TRUE [] OTHER -> asked[l].v
    OBVIOUS
  <2> QED BY <1>1, <1>4, <1>7, <2>1, MadeSync DEF b2
<1>9. mem[e].af.mw = Multi(l) /\ WordsIn(b2, e, {z \in Word : z.mw = Multi(l)})
  BY <1>1, <1>2, <1>3, <1>7
<1> QED BY <1>1, <1>2, <1>3, <1>7, <1>8, <1>9, StageMade, GivenIs DEF b2

(* A subwindow is filled in before it is made valid.                        *)
LEMMA FillStage ==
    ASSUME Control, Tables, NEW c \in Cpu, Acts(c), NEW l \in Liodn, NEW w \in Window, NEW e \in Entry, RestAt(l, w, e),
           \A d \in Cpu \ {c} : ~Pending(d, e)', pc'[c] = "spaace_valid", InWindow(c),
           asked[l].page[w] = NoPage, w = 0 => ~asked[l].v, NEW p \in Page, p = req[c].rpn,
           buf'[c] = Append(Append(Append(Append(buf[c], Store(e, "twbah", p)), Store(e, "twbal", p)),
                                      Store(e, "af", [Load(c, e, "af") EXCEPT !.ap = TRUE])), lwsync)
    PROVE  StageAt(c, l, w, e)'
<1> DEFINE b == buf[c]
           x == Load(c, e, "af")
           y == [x EXCEPT !.ap = TRUE]
           b2 == buf'[c]
<1>1. /\ b \in Seq(StoreType) /\ ~IsIn(b, e)
      /\ x = WordOf(l, w, asked[l].v, NoPage) /\ mem[e].af = x /\ x \in Word
  BY RestIs
<1>2. x.v = FALSE /\ (w = 0 => x.mw = Multi(l) /\ x.wse = TRUE) /\ (w # 0 => x.mw = FALSE /\ x.wse = FALSE)
  <2>1. /\ w = 0 => x.v = asked[l].v /\ x.mw = Multi(l) /\ x.wse = TRUE
        /\ w # 0 => x.v = Given(NoPage) /\ x.mw = FALSE /\ x.wse = FALSE
    BY <1>1, WordOfIs, AskedIs
  <2> HIDE DEF x
  <2> QED BY <2>1, AskedIs, GivenIs
<1> HIDE DEF x
<1>3. y \in Word /\ y.v = FALSE /\ y.ap = TRUE /\ y.mw = x.mw /\ y.wse = x.wse
  BY <1>1, <1>2, WordFields
<1>4. y = FilledWord(l, w)
  <2> DEFINE z == FilledWord(l, w)
  <2>1. /\ z \in Word /\ z.v = FALSE /\ z.ap = TRUE
        /\ w = 0 => z.mw = Multi(l) /\ z.wse = TRUE
        /\ w # 0 => z.mw = FALSE /\ z.wse = FALSE
    BY FilledIs
  <2> HIDE DEF z, y
  <2>2. y = z
    BY <1>2, <1>3, <2>1, WordEq
  <2> QED BY <2>2 DEF z
<1> DEFINE b1 == Append(b, Store(e, "twbah", p))
           b3 == Append(b1, Store(e, "twbal", p))
           b4 == Append(b3, Store(e, "af", y))
<1>5. b2 = Append(b4, lwsync)
  BY DEF x
<1> HIDE DEF y, b, b2
<1>6. /\ ~DeniesIn(b, e) /\ ~GrantsIn(b, e) /\ Ordered(b, e) /\ DenialsFenced(b, e)
      /\ \A S : WordsIn(b, e, S)
  BY <1>1, NoneIn DEF DenialsFenced, DeniesIn
<1>7. /\ b1 \in Seq(StoreType) /\ Ordered(b1, e) /\ DenialsFenced(b1, e) /\ ~DeniesIn(b1, e) /\ ~GrantsIn(b1, e)
      /\ \A S : WordsIn(b1, e, S)
      /\ Seen(b1, mem, e, "twbah") = p
  BY <1>1, <1>6, PageAppend
<1> HIDE DEF b1
<1>8. /\ b3 \in Seq(StoreType) /\ Ordered(b3, e) /\ ~DeniesIn(b3, e) /\ ~GrantsIn(b3, e)
      /\ \A S : WordsIn(b3, e, S)
      /\ Seen(b3, mem, e, "twbah") = p /\ Seen(b3, mem, e, "twbal") = p
  BY <1>7, PageAppend
<1> HIDE DEF b3
<1>9. /\ b4 \in Seq(StoreType) /\ Ordered(b4, e) /\ ~DeniesIn(b4, e) /\ ~GrantsIn(b4, e)
      /\ \A S : y \in S => WordsIn(b4, e, S)
      /\ Seen(b4, mem, e, "twbah") = p /\ Seen(b4, mem, e, "twbal") = p /\ Seen(b4, mem, e, "af") = y
  BY <1>3, <1>8, WordAppend
<1> HIDE DEF b4
<1>10. /\ Ordered(b2, e) /\ Fenced(b2, e) /\ ~GrantsIn(b2, e)
       /\ \A S : y \in S => WordsIn(b2, e, S)
       /\ Seen(b2, mem, e, "twbah") = p /\ Seen(b2, mem, e, "twbal") = p /\ Seen(b2, mem, e, "af") = y
  BY <1>5, <1>9, SyncAppend
<1>11. MadeAt(c, l, w, e)'
  <2>1. /\ Load(c, e, "af")' = y /\ Load(c, e, "twbah")' = p /\ Load(c, e, "twbal")' = p
    BY <1>10, LoadsNext DEF Acts, b2
  <2>2. AFs(c, e, {z \in Word : ~z.v})'
    BY <1>3, <1>10, InBuffer DEF b2
  <2>3. FilledWord(l, w)' = FilledWord(l, w)
    BY DEF FilledWord, Multi, Acts
  <2>4. InWindow(c)'
    BY DEF InWindow, Acts
  <2>5. mem'[e].af.v = FALSE
    BY <1>1, <1>2 DEF Acts
  <2> QED BY <1>4, <1>10, <2>1, <2>2, <2>3, <2>4, <2>5 DEF MadeAt, SeesPage, Acts, b2
<1>12. w = 0 => mem[e].af.mw = Multi(l) /\ WordsIn(b2, e, {z \in Word : z.mw = Multi(l)})
  BY <1>1, <1>2, <1>3, <1>10
<1> QED BY <1>1, <1>2, <1>10, <1>11, <1>12, StageMade DEF b2

LEMMA ValidStage ==
    ASSUME Control, Tables, NEW c \in Cpu, Acts(c), NEW l \in Liodn, NEW w \in Window, NEW e \in Entry, StageAt(c, l, w, e),
           \A d \in Cpu \ {c} : ~Pending(d, e)', pc[c] = "spaace_valid", pc'[c] = "sync", InWindow(c),
           req[c].fn = "config_spaace", NEW p \in Page, p = req[c].rpn, p \in granted[l][w],
           buf'[c] = Append(buf[c], Store(e, "af", [Load(c, e, "af") EXCEPT !.v = TRUE]))
    PROVE  StageAt(c, l, w, e)'
<1> DEFINE b == buf[c]
           x == Load(c, e, "af")
           y == [x EXCEPT !.v = TRUE]
           b2 == buf'[c]
           k == FilledWord(l, w)
           v2 == IF w = 0 THEN TRUE ELSE asked[l].v
           z == WordOf(l, w, v2, p)
<1>1. b \in Seq(StoreType)
  BY Typed
<1>2. /\ Ordered(b, e)
      /\ w = 0 => mem[e].af.mw = Multi(l) /\ AFs(c, e, {q \in Word : q.mw = Multi(l)})
      /\ x = k /\ SeesPage(c, e, p) /\ mem[e].af.v = FALSE /\ Fenced(b, e)
  BY DEF StageAt, MadeAt
<1>3. /\ k \in Word /\ k.v = FALSE /\ k.ap = TRUE
      /\ w = 0 => k.mw = Multi(l) /\ k.wse = TRUE
      /\ w # 0 => k.mw = FALSE /\ k.wse = FALSE
  BY FilledIs
<1>4. v2 \in BOOLEAN
  BY AskedIs
<1>5. /\ z \in Word /\ z.ap = Given(p)
      /\ w = 0 => z.v = v2 /\ z.mw = Multi(l) /\ z.wse = TRUE
      /\ w # 0 => z.v = Given(p) /\ z.mw = FALSE /\ z.wse = FALSE
  <2> HIDE DEF v2
  <2> QED BY <1>4, WordOfIs
<1>6. Given(p) = TRUE
  BY GivenIs
<1> HIDE DEF z, x, k
<1>8. y \in Word /\ y.v = TRUE /\ y.ap = k.ap /\ y.mw = k.mw /\ y.wse = k.wse
  <2>1. x = k /\ x \in Word
    BY <1>2, <1>3
  <2>2. [x EXCEPT !.v = TRUE] \in Word /\ y.v = TRUE /\ y.ap = x.ap /\ y.mw = x.mw /\ y.wse = x.wse
    BY <2>1, WordFields
  <2> QED BY <2>1, <2>2
<1> HIDE DEF y
<1>9. y = z
  BY <1>3, <1>5, <1>6, <1>8, WordEq
<1>10. b2 = Append(b, Store(e, "af", y))
  BY DEF x, y
<1>11. /\ Seen(b, mem, e, "twbah") = p /\ Seen(b, mem, e, "twbal") = p
       /\ w = 0 => WordsIn(b, e, {q \in Word : q.mw = Multi(l)})
  BY <1>2, Loads, InBuffer DEF SeesPage
<1> HIDE DEF b, b2
<1>12. y.ap
  BY <1>3, <1>8
<1>13. /\ Ordered(b2, e)
       /\ \A S : WordsIn(b2, e, S) <=> WordsIn(b, e, S) /\ y \in S
       /\ Seen(b2, mem, e, "af") = y /\ Seen(b2, mem, e, "twbah") = p
       /\ Seen(b2, mem, e, "twbal") = p
  BY <1>1, <1>2, <1>8, <1>10, <1>11, <1>12, WordAppend
<1>14. MadeAt(c, l, w, e)'
  <2>1. v2 = CASE req[c].fn = "enable" -> TRUE [] req[c].fn = "disable" -> FALSE
                [] req[c].fn = "config_spaace" /\ w = 0 -> TRUE [] OTHER -> asked[l].v
    OBVIOUS
  <2>2. Seen(b2, mem, e, "af") = WordOf(l, w, v2, p)
    BY <1>9, <1>13 DEF z
  <2> HIDE DEF v2
  <2> QED BY <1>13, <2>1, <2>2, MadeSync DEF b2
<1>15. w = 0 => mem[e].af.mw = Multi(l) /\ WordsIn(b2, e, {q \in Word : q.mw = Multi(l)})
  BY <1>2, <1>3, <1>8, <1>11, <1>13
<1> QED BY <1>2, <1>13, <1>14, <1>15, StageMade DEF b2

(* A window is moved to the page it has: nothing is stored.                 *)
LEMMA SameStage ==
    ASSUME Control, Tables, NEW c \in Cpu, Acts(c), NEW l \in Liodn, NEW w \in Window, NEW e \in Entry, RestAt(l, w, e),
           \A d \in Cpu \ {c} : ~Pending(d, e)', pc'[c] = "sync", InWindow(c), req[c].fn # "config_spaace",
           asked[l].page[w] # NoPage, NEW p \in Page, p = req[c].rpn, p = Load(c, e, "twbah"), buf' = buf
    PROVE  StageAt(c, l, w, e)'
<1> DEFINE b == buf[c]
           page == asked[l].page[w]
           x == Load(c, e, "af")
<1>1. /\ b \in Seq(StoreType) /\ ~IsIn(b, e)
      /\ x = WordOf(l, w, asked[l].v, page) /\ mem[e].af = x /\ x \in Word /\ Seen(b, mem, e, "af") = x
      /\ Seen(b, mem, e, "twbah") = mem[e].twbah /\ Seen(b, mem, e, "twbal") = mem[e].twbal
      /\ mem[e].twbah = page /\ mem[e].twbal = page /\ page \in granted[l][w]
  BY RestIs
<1>2. w = 0 => x.mw = Multi(l)
  BY <1>1, WordOfIs, AskedIs
<1>3. p = page
  BY <1>1, Loads
<1> HIDE DEF x
<1>4. /\ ~DeniesIn(b, e) /\ ~PagesIn(b, e) /\ ~GrantsIn(b, e) /\ Ordered(b, e)
      /\ \A S : WordsIn(b, e, S)
  BY <1>1, NoneIn
<1>5. buf'[c] = b
  OBVIOUS
<1> HIDE DEF b
<1>6. MadeAt(c, l, w, e)'
  <2>1. asked[l].v = CASE req[c].fn = "enable" -> TRUE [] req[c].fn = "disable" -> FALSE
                [] req[c].fn = "config_spaace" /\ w = 0 -> TRUE [] OTHER -> asked[l].v
    BY DEF InWindow
  <2>2. p = IF InWindow(c) THEN req[c].rpn ELSE asked[l].page[w]
    OBVIOUS
  <2> QED BY <1>1, <1>3, <1>5, <2>1, <2>2, MadeSync
<1> QED BY <1>1, <1>2, <1>4, <1>5, <1>6, StageMade

(* A window that moves is denied first, ...                                 *)
LEMMA DenyStage ==
    ASSUME Control, Tables, NEW c \in Cpu, Acts(c), NEW l \in Liodn, NEW w \in Window, NEW e \in Entry, RestAt(l, w, e),
           \A d \in Cpu \ {c} : ~Pending(d, e)', pc'[c] = "move", asked[l].page[w] # NoPage,
           buf'[c] = Append(Append(buf[c], Store(e, "af", [Load(c, e, "af") EXCEPT !.ap = FALSE])), lwsync)
    PROVE  StageAt(c, l, w, e)'
<1> DEFINE b == buf[c]
           page == asked[l].page[w]
           x == Load(c, e, "af")
           y == [x EXCEPT !.ap = FALSE]
           b2 == buf'[c]
<1>1. /\ b \in Seq(StoreType) /\ ~IsIn(b, e)
      /\ x = WordOf(l, w, asked[l].v, page) /\ mem[e].af = x /\ x \in Word
      /\ Seen(b, mem, e, "twbah") = mem[e].twbah /\ Seen(b, mem, e, "twbal") = mem[e].twbal
      /\ mem[e].twbah = page /\ mem[e].twbal = page /\ page \in granted[l][w]
  BY RestIs
<1>2. w = 0 => x.mw = Multi(l)
  BY <1>1, WordOfIs, AskedIs
<1> DEFINE b1 == Append(b, Store(e, "af", y))
<1>3. b2 = Append(b1, lwsync)
  BY DEF x
<1>4. y = [WordOf(l, w, asked[l].v, page) EXCEPT !.ap = FALSE]
  BY <1>1
<1> HIDE DEF x
<1>5. y \in Word /\ y.ap = FALSE /\ y.mw = x.mw
  BY <1>1, WordFields
<1> HIDE DEF y, b, b2
<1>6. /\ ~DeniesIn(b, e) /\ ~PagesIn(b, e) /\ ~GrantsIn(b, e) /\ Ordered(b, e)
      /\ \A S : WordsIn(b, e, S)
  BY <1>1, NoneIn
<1>7. /\ b1 \in Seq(StoreType) /\ Ordered(b1, e) /\ DeniesIn(b1, e) /\ ~PagesIn(b1, e) /\ ~GrantsIn(b1, e)
      /\ \A S : y \in S => WordsIn(b1, e, S)
      /\ Seen(b1, mem, e, "af") = y /\ Seen(b1, mem, e, "twbah") = page /\ Seen(b1, mem, e, "twbal") = page
  BY <1>1, <1>5, <1>6, WordAppend
<1> HIDE DEF b1
<1>8. /\ Ordered(b2, e) /\ Fenced(b2, e) /\ DeniesIn(b2, e) /\ ~PagesIn(b2, e) /\ ~GrantsIn(b2, e)
      /\ \A S : y \in S => WordsIn(b2, e, S)
      /\ Seen(b2, mem, e, "af") = y /\ Seen(b2, mem, e, "twbah") = page /\ Seen(b2, mem, e, "twbal") = page
  BY <1>3, <1>7, SyncAppend
<1>9. MadeAt(c, l, w, e)'
  <2>1. /\ Load(c, e, "af")' = y /\ Load(c, e, "twbah")' = page /\ Load(c, e, "twbal")' = page
    BY <1>8, LoadsNext DEF Acts, b2
  <2>2. WordOf(l, w, asked[l].v, page)' = WordOf(l, w, asked[l].v, page)
    BY DEF WordOf, Multi, Acts
  <2>3. Denied(c, e)' /\ ~Paged(c, e)' /\ ~Granting(c, e)'
    BY <1>8, InBuffer DEF b2
  <2> QED BY <1>4, <1>8, <2>1, <2>2, <2>3 DEF MadeAt, SeesPage, Acts, b2
<1>10. w = 0 => mem[e].af.mw = Multi(l) /\ WordsIn(b2, e, {z \in Word : z.mw = Multi(l)})
  BY <1>1, <1>2, <1>5, <1>8
<1> QED BY <1>1, <1>8, <1>9, <1>10, StageMade DEF b2

(* ... gets its page, ...                                                   *)
LEMMA MoveStage ==
    ASSUME Control, Tables, NEW c \in Cpu, Acts(c), NEW l \in Liodn, NEW w \in Window, NEW e \in Entry, StageAt(c, l, w, e),
           \A d \in Cpu \ {c} : ~Pending(d, e)', pc[c] = "move", pc'[c] = "allow", InWindow(c),
           NEW p \in Page, p = req[c].rpn,
           buf'[c] = Append(Append(Append(buf[c], Store(e, "twbah", p)), Store(e, "twbal", p)), lwsync)
    PROVE  StageAt(c, l, w, e)'
<1> DEFINE b == buf[c]
           page == asked[l].page[w]
           y == [WordOf(l, w, asked[l].v, page) EXCEPT !.ap = FALSE]
           b1 == Append(b, Store(e, "twbah", p))
           b3 == Append(b1, Store(e, "twbal", p))
           b2 == buf'[c]
<1>1. b \in Seq(StoreType)
  BY Typed
<1>2. /\ Ordered(b, e) /\ ~GrantsIn(b, e) /\ ~PagesIn(b, e) /\ Fenced(b, e)
      /\ w = 0 => mem[e].af.mw = Multi(l) /\ WordsIn(b, e, {q \in Word : q.mw = Multi(l)})
      /\ mem[e].af.v /\ mem[e].af.ap =>
            mem[e].twbah = mem[e].twbal /\ mem[e].twbah \in granted[l][w] /\ DeniesIn(b, e)
      /\ Load(c, e, "af") = y /\ page # NoPage
  BY InBuffer DEF StageAt, MadeAt
<1>3. Seen(b, mem, e, "af") = y
  BY <1>2, Loads
<1>4. b2 = Append(b3, lwsync)
  OBVIOUS
<1> HIDE DEF y, b, b2
<1>5. DenialsFenced(b, e)
  BY <1>1, <1>2, Kinds DEF DenialsFenced, Fenced, After
<1>6. /\ b1 \in Seq(StoreType) /\ Ordered(b1, e) /\ DenialsFenced(b1, e) /\ (DeniesIn(b1, e) <=> DeniesIn(b, e))
      /\ ~GrantsIn(b1, e)
      /\ \A S : WordsIn(b1, e, S) <=> WordsIn(b, e, S)
      /\ Seen(b1, mem, e, "af") = y /\ Seen(b1, mem, e, "twbah") = p
  BY <1>1, <1>2, <1>3, <1>5, PageAppend
<1> HIDE DEF b1
<1>7. /\ b3 \in Seq(StoreType) /\ Ordered(b3, e) /\ (DeniesIn(b3, e) <=> DeniesIn(b, e)) /\ ~GrantsIn(b3, e)
      /\ \A S : WordsIn(b3, e, S) <=> WordsIn(b, e, S)
      /\ Seen(b3, mem, e, "af") = y /\ Seen(b3, mem, e, "twbah") = p /\ Seen(b3, mem, e, "twbal") = p
  BY <1>6, PageAppend
<1> HIDE DEF b3
<1>8. /\ Ordered(b2, e) /\ Fenced(b2, e) /\ (DeniesIn(b2, e) <=> DeniesIn(b, e)) /\ ~GrantsIn(b2, e)
      /\ \A S : WordsIn(b2, e, S) <=> WordsIn(b, e, S)
      /\ Seen(b2, mem, e, "af") = y /\ Seen(b2, mem, e, "twbah") = p /\ Seen(b2, mem, e, "twbal") = p
  BY <1>4, <1>7, SyncAppend
<1>9. MadeAt(c, l, w, e)'
  <2>1. /\ Load(c, e, "af")' = y /\ Load(c, e, "twbah")' = p /\ Load(c, e, "twbal")' = p
    BY <1>8, LoadsNext DEF Acts, b2
  <2>2. WordOf(l, w, asked[l].v, page)' = WordOf(l, w, asked[l].v, page)
    BY DEF WordOf, Multi, Acts
  <2>3. ~Granting(c, e)' /\ InWindow(c)'
    BY <1>8, InBuffer DEF b2, InWindow, Acts
  <2> QED BY <1>2, <1>8, <2>1, <2>2, <2>3 DEF MadeAt, SeesPage, Acts, b2, y
<1>10. w = 0 => mem[e].af.mw = Multi(l) /\ WordsIn(b2, e, {z \in Word : z.mw = Multi(l)})
  BY <1>2, <1>8
<1> QED BY <1>2, <1>8, <1>9, <1>10, StageMade DEF b2

(* ... and is allowed again.                                                *)
LEMMA AllowStage ==
    ASSUME Control, Tables, NEW c \in Cpu, Acts(c), NEW l \in Liodn, NEW w \in Window, NEW e \in Entry, StageAt(c, l, w, e),
           \A d \in Cpu \ {c} : ~Pending(d, e)', pc[c] = "allow", pc'[c] = "sync", InWindow(c),
           req[c].fn # "config_spaace", NEW p \in Page, p = req[c].rpn, p \in granted[l][w],
           buf'[c] = Append(buf[c], Store(e, "af", [Load(c, e, "af") EXCEPT !.ap = TRUE]))
    PROVE  StageAt(c, l, w, e)'
<1> DEFINE b == buf[c]
           page == asked[l].page[w]
           u == WordOf(l, w, asked[l].v, page)
           k == [u EXCEPT !.ap = FALSE]
           x == Load(c, e, "af")
           y == [x EXCEPT !.ap = TRUE]
           z == WordOf(l, w, asked[l].v, p)
           b2 == buf'[c]
<1>1. b \in Seq(StoreType)
  BY Typed
<1>2. /\ Ordered(b, e) /\ Fenced(b, e) /\ ~GrantsIn(b, e)
      /\ w = 0 => mem[e].af.mw = Multi(l) /\ WordsIn(b, e, {q \in Word : q.mw = Multi(l)})
      /\ mem[e].af.v /\ mem[e].af.ap =>
            mem[e].twbah = mem[e].twbal /\ mem[e].twbah \in granted[l][w] /\ (PagesIn(b, e) => DeniesIn(b, e))
      /\ x = k /\ page # NoPage /\ SeesPage(c, e, p)
  BY InBuffer DEF StageAt, MadeAt
<1>3. /\ u \in Word /\ u.ap = Given(page)
      /\ w = 0 => u.v = asked[l].v /\ u.mw = Multi(l) /\ u.wse = TRUE
      /\ w # 0 => u.v = Given(page) /\ u.mw = FALSE /\ u.wse = FALSE
  BY WordOfIs, AskedIs
<1>4. /\ z \in Word /\ z.ap = Given(p)
      /\ w = 0 => z.v = asked[l].v /\ z.mw = Multi(l) /\ z.wse = TRUE
      /\ w # 0 => z.v = Given(p) /\ z.mw = FALSE /\ z.wse = FALSE
  BY WordOfIs, AskedIs
<1>5. Given(p) = TRUE /\ Given(page) = TRUE
  BY <1>2, AskedIs, GivenIs
<1> HIDE DEF u, z, x
<1>6. k \in Word /\ k.v = u.v /\ k.mw = u.mw /\ k.wse = u.wse
  BY <1>3, WordFields
<1> HIDE DEF k
<1>7. y \in Word /\ y.ap = TRUE /\ y.v = k.v /\ y.mw = k.mw /\ y.wse = k.wse
  <2>1. x = k /\ x \in Word
    BY <1>2, <1>6
  <2>2. y \in Word /\ y.ap = TRUE /\ y.v = x.v /\ y.mw = x.mw /\ y.wse = x.wse
    BY <2>1, WordFields
  <2> QED BY <2>1, <2>2
<1> HIDE DEF y
<1>8. y = z
  BY <1>3, <1>4, <1>5, <1>6, <1>7, WordEq
<1>9. b2 = Append(b, Store(e, "af", y))
  BY DEF x, y
<1>10. Seen(b, mem, e, "twbah") = p /\ Seen(b, mem, e, "twbal") = p
  BY <1>2, Loads DEF SeesPage
<1> HIDE DEF b, b2
<1>11. /\ Ordered(b2, e) /\ (PagesIn(b2, e) <=> PagesIn(b, e)) /\ (DeniesIn(b, e) => DeniesIn(b2, e))
       /\ \A S : WordsIn(b2, e, S) <=> WordsIn(b, e, S) /\ y \in S
       /\ Seen(b2, mem, e, "af") = y /\ Seen(b2, mem, e, "twbah") = p /\ Seen(b2, mem, e, "twbal") = p
  BY <1>1, <1>2, <1>7, <1>9, <1>10, WordAppend
<1>12. MadeAt(c, l, w, e)'
  <2>1. asked[l].v = CASE req[c].fn = "enable" -> TRUE [] req[c].fn = "disable" -> FALSE
                [] req[c].fn = "config_spaace" /\ w = 0 -> TRUE [] OTHER -> asked[l].v
    BY DEF InWindow
  <2>2. p = IF InWindow(c) THEN req[c].rpn ELSE asked[l].page[w]
    OBVIOUS
  <2>3. Seen(b2, mem, e, "af") = WordOf(l, w, asked[l].v, p)
    BY <1>8, <1>11 DEF z
  <2> QED BY <1>11, <2>1, <2>2, <2>3, MadeSync DEF b2
<1>13. w = 0 => mem[e].af.mw = Multi(l) /\ WordsIn(b2, e, {q \in Word : q.mw = Multi(l)})
  BY <1>2, <1>3, <1>6, <1>7, <1>11
<1> QED BY <1>2, <1>11, <1>12, <1>13, StageMade DEF b2

(* A call that is no configuration is alone on its device.                  *)
LEMMA WorksAlone ==
    ASSUME Control, NEW c \in Cpu, NEW l \in Liodn, l \notin raced, Works(c, l), req[c].fn # "config_ppaace",
           NEW d \in Cpu, Works(d, l)
    PROVE  d = c
  BY DEF Control, Solo, Works

(* A configured device: the window a core works on, and the others.         *)
LEMMA AtTarget ==
    ASSUME Control, Tables, NEW c \in Cpu, NEW l \in Liodn, l \notin raced, Works(c, l), req[c].fn # "config_ppaace",
           configured[l] # <<>>, Configured(l), NEW v, v = Target(c), NEW e, e = EntryOf(l, v)
    PROVE  /\ Live(l) /\ v \in Windows(l) /\ v \in Window /\ Has(l, v) /\ e \in Entry
           /\ pc[c] \in Active => StageAt(c, l, v, e)
           /\ pc[c] \notin Active => RestAt(l, v, e)
           /\ \A d \in Cpu \ {c} : ~Pending(d, e)
           /\ \A w \in Windows(l) : w # v => Rest(l, w)
<1>1. Live(l)
  BY DEF Live
<1>2. v \in Windows(l)
  <2>1. CASE InWindow(c)
    BY <2>1, WindowEntry DEF Target, Works
  <2>2. CASE ~InWindow(c)
    BY <2>2, Zero DEF Target, Windows
  <2> QED BY <2>1, <2>2
<1>3. v \in Window /\ Has(l, v)
  BY <1>2, WindowHas
<1>4. e \in Entry
  BY <1>1, <1>3, HasEntry
<1>5. \A d \in Cpu : \A w : AtWork(d, l, w) <=> d = c /\ pc[c] \in Active /\ w = v
  BY WorksAlone DEF AtWork
<1>6. \A w \in Windows(l) : WindowOk(l, w)
  BY DEF Configured
<1>7. pc[c] \in Active => StageAt(c, l, v, e)
  BY <1>2, <1>5, <1>6 DEF WindowOk, Stage
<1>8. pc[c] \notin Active => RestAt(l, v, e)
  BY <1>2, <1>5, <1>6 DEF WindowOk, Rest
<1>9. \A d \in Cpu \ {c} : ~Pending(d, e)
  BY <1>7, <1>8 DEF StageAt, RestAt
<1>10. \A w \in Windows(l) : w # v => Rest(l, w)
  BY <1>5, <1>6 DEF WindowOk
<1> QED BY <1>1, <1>2, <1>3, <1>4, <1>7, <1>8, <1>9, <1>10

(* A core that stores to the entry of its window.                           *)
LEMMA OwnStage ==
    ASSUME Control, Tables, NEW c \in Cpu, NEW s, Quietly(c, s), NEW l \in Liodn, l \notin raced, req[c].l = l,
           req[c].fn # "config_ppaace", configured[l] # <<>>, Configured(l), pc'[c] \in Active,
           NEW v, v = Target(c), NEW e, e = EntryOf(l, v),
           \A i \in DOMAIN s : s[i] # lwsync => s[i].e = e,
           StageAt(c, l, v, e)'
    PROVE  Configured(l)'
<1>1. /\ pc[c] # "idle" /\ mem' = mem /\ configured' = configured /\ asked' = asked /\ req' = req
      /\ \A d \in Cpu \ {c} : pc'[d] = pc[d]
  BY Bystanders
<1>2. Works(c, l)
  BY <1>1 DEF Works
<1>3. Live(l) /\ Has(l, v) /\ \A w \in Windows(l) : w # v => Rest(l, w)
  BY <1>2, AtTarget
<1>4. /\ Windows(l)' = Windows(l) /\ Windows(l) \subseteq Window /\ (Single(l)' <=> Single(l))
      /\ \A w : EntryOf(l, w)' = EntryOf(l, w)
  BY <1>1 DEF Windows, HasWindow, Single, EntryOf, First, Prim, Sec
<1>5. \A d \in Cpu : Works(d, l)' => d = c
  <2>1. \A d \in Cpu : Works(d, l)' => Works(d, l)
    BY Bystanders
  <2> QED BY <1>2, <2>1, WorksAlone
<1>6. Target(c)' = v
  <2>1. pc'[c] # "idle"
    BY DEF Active
  <2> QED BY <1>1, <2>1 DEF Target, InWindow
<1>7. \A d \in Cpu : \A w : AtWork(d, l, w)' => d = c /\ w = v
  BY <1>5, <1>6 DEF AtWork
<1>8. \E d \in Cpu : AtWork(d, l, v)'
  <2>1. AtWork(c, l, v)'
    BY <1>1, <1>6 DEF AtWork, Works, Active
  <2> QED BY <2>1
<1>9. Stage(c, l, v)'
  BY <1>4, AtEntry
<1>10. WindowOk(l, v)'
  BY <1>7, <1>8, <1>9 DEF WindowOk
<1>11. Issues(c, s) /\ buf' \in [Cpu -> Seq(StoreType)]
  BY Buffers DEF Quietly
<1>12. ASSUME NEW w \in Windows(l), w # v PROVE WindowOk(l, w)'
  <2>1. PICK f : f = EntryOf(l, w)
    OBVIOUS
  <2>2. RestAt(l, w, f) /\ w \in Window
    BY <1>3, <1>4, <1>12, <2>1 DEF Rest
  <2>3. e # f
    BY <1>3, <1>12, <2>1, Spread, WindowHas
  <2>4. Untouched(f)
    BY <1>11, <2>3, IssueLeaves DEF IsTo
  <2>5. RestAt(l, w, f)'
    BY <1>1, <1>11, <2>2, <2>4, RestKept
  <2>6. Rest(l, w)'
    BY <1>4, <2>1, <2>5, AtEntry
  <2> QED BY <1>7, <1>12, <2>6 DEF WindowOk
<1>13. \A d \in Cpu : Works(d, l)' => pc'[d] \in Active
  BY <1>5
<1>14. Len(configured[l]) = 1 /\ (Single(l) => asked[l].page[0] # NoPage)
  BY DEF Configured
<1> QED BY <1>1, <1>4, <1>10, <1>12, <1>13, <1>14 DEF Configured, Active

(* A step that stores nothing, and ends or goes on to no window.            *)
LEMMA ConfiguredStill ==
    ASSUME Control, Tables, NEW c \in Cpu, Quietly(c, <<>>), buf' = buf, NEW l \in Liodn, req[c].l = l,
           configured[l] # <<>>, Configured(l), pc[c] \notin Active,
           pc'[c] \notin Active \cup {"config_spaace", "reconfig_liodn", "reconfig_subwin"}
    PROVE  Configured(l)'
<1>1. /\ pc[c] # "idle" /\ mem' = mem /\ configured' = configured /\ asked' = asked /\ req' = req /\ granted' = granted
      /\ \A d \in Cpu \ {c} : pc'[d] = pc[d]
      /\ \A d \in Cpu : Works(d, l)' => Works(d, l)
  BY Bystanders
<1>2. /\ Windows(l)' = Windows(l) /\ Windows(l) \subseteq Window /\ (Single(l)' <=> Single(l))
      /\ \A w : EntryOf(l, w)' = EntryOf(l, w)
  BY <1>1 DEF Windows, HasWindow, Single, EntryOf, First, Prim, Sec
<1>3. buf' \in [Cpu -> Seq(StoreType)]
  BY DEF Tables
<1>4. \A d \in Cpu : \A w : AtWork(d, l, w)' <=> d # c /\ AtWork(d, l, w)
  BY <1>1 DEF AtWork, Target, InWindow, Works
<1>5. \A d \in Cpu : \A w : AtWork(d, l, w) => d # c
  BY DEF AtWork
<1>6. ASSUME NEW w \in Windows(l) PROVE WindowOk(l, w)'
  <2>1. PICK e : e = EntryOf(l, w)
    OBVIOUS
  <2>2. Untouched(e) /\ EntryOf(l, w)' = e /\ w \in Window
    BY <1>1, <1>2, <2>1, StillLeaves
  <2>3. WindowOk(l, w)
    BY DEF Configured
  <2>4. CASE \E d \in Cpu : AtWork(d, l, w)
    <3>1. ASSUME NEW d \in Cpu, AtWork(d, l, w)' PROVE Stage(d, l, w)'
      <4>1. AtWork(d, l, w) /\ d # c
        BY <1>4, <3>1
      <4>2. StageAt(d, l, w, e)
        BY <2>1, <2>3, <2>4, <4>1 DEF WindowOk, Stage
      <4>3. pc'[d] = pc[d] /\ req'[d] = req[d]
        BY <1>1, <4>1
      <4>4. StageAt(d, l, w, e)'
        BY <1>1, <1>3, <2>2, <4>2, <4>3, StageKept
      <4> QED BY <2>2, <4>4, AtEntry
    <3> QED BY <1>4, <1>5, <2>4, <3>1 DEF WindowOk
  <2>5. CASE ~\E d \in Cpu : AtWork(d, l, w)
    <3>1. RestAt(l, w, e)
      BY <2>1, <2>3, <2>5 DEF WindowOk, Rest
    <3>2. RestAt(l, w, e)'
      BY <1>1, <1>3, <2>2, <3>1, RestKept
    <3>3. Rest(l, w)'
      BY <2>2, <3>2, AtEntry
    <3> QED BY <1>4, <2>5, <3>3 DEF WindowOk
  <2> QED BY <2>4, <2>5
<1>7. /\ Len(configured[l]) = 1 /\ (Single(l) => asked[l].page[0] # NoPage)
      /\ \A d \in Cpu : Works(d, l) /\ pc[d] = "config_spaace" =>
            asked[l].page[req[d].w] = NoPage /\ (req[d].w = 0 => ~asked[l].v)
      /\ \A d \in Cpu : Works(d, l) /\ pc[d] \in {"reconfig_liodn", "reconfig_subwin"} =>
            asked[l].page[req[d].w] # NoPage
  BY DEF Configured
<1>8. \A d \in Cpu : Works(d, l)' /\ pc'[d] \in {"config_spaace", "reconfig_liodn", "reconfig_subwin"} =>
         Works(d, l) /\ pc'[d] = pc[d]
  BY <1>1
<1> QED BY <1>1, <1>2, <1>6, <1>7, <1>8 DEF Configured

(* The stores of a step, to one entry.                                      *)
LEMMA AllTo ==
    ASSUME NEW e, NEW t1 \in StoreType, NEW t2 \in StoreType, NEW t3 \in StoreType, NEW t4 \in StoreType,
           t1 = lwsync \/ t1.e = e, t2 = lwsync \/ t2.e = e, t3 = lwsync \/ t3.e = e, t4 = lwsync \/ t4.e = e
    PROVE  /\ \A i \in DOMAIN <<t1>> : <<t1>>[i] # lwsync => <<t1>>[i].e = e
           /\ \A i \in DOMAIN <<t1, t2>> : <<t1, t2>>[i] # lwsync => <<t1, t2>>[i].e = e
           /\ \A i \in DOMAIN <<t1, t2, t3>> : <<t1, t2, t3>>[i] # lwsync => <<t1, t2, t3>>[i].e = e
           /\ \A i \in DOMAIN <<t1, t2, t3, t4>> : <<t1, t2, t3, t4>>[i] # lwsync => <<t1, t2, t3, t4>>[i].e = e
<1>1. \A i \in DOMAIN <<t1>> : <<t1>>[i] # lwsync => <<t1>>[i].e = e
  BY Tuple1
<1>2. \A i \in DOMAIN <<t1, t2>> : <<t1, t2>>[i] # lwsync => <<t1, t2>>[i].e = e
  BY Tuple2
<1>3. \A i \in DOMAIN <<t1, t2, t3>> : <<t1, t2, t3>>[i] # lwsync => <<t1, t2, t3>>[i].e = e
  BY Tuple3
<1>4. \A i \in DOMAIN <<t1, t2, t3, t4>> : <<t1, t2, t3, t4>>[i] # lwsync => <<t1, t2, t3, t4>>[i].e = e
  BY Tuple4
<1> QED BY <1>1, <1>2, <1>3, <1>4

LEMMA ActsOf ==
    ASSUME Control, Tables, NEW c \in Cpu, NEW s, Quietly(c, s), pc'[c] # "idle"
    PROVE  Acts(c)
<1>1. buf' \in [Cpu -> Seq(StoreType)]
  BY Buffers DEF Quietly
<1> QED BY <1>1, Bystanders DEF Acts

(* The steps that store to an entry of a configured device.                 *)
LEMMA SwitchConfigured ==
    ASSUME Control, Tables, NEW c \in Cpu, NEW l \in Liodn, l \notin raced, req[c].l = l, configured[l] # <<>>,
           Configured(l), EnableValid(c) \/ Disable(c)
    PROVE  Configured(l)'
<1> DEFINE e == Prim(l)
           x == Load(c, e, "af")
<1>1. /\ Works2(c) /\ req[c] \in Switches /\ pc'[c] = "sync"
      /\ \/ /\ pc[c] = "enable_sync" /\ req[c].fn = "enable"
            /\ Quietly(c, <<Store(e, "af", [x EXCEPT !.v = TRUE])>>)
            /\ buf'[c] = Append(buf[c], Store(e, "af", [x EXCEPT !.v = TRUE]))
         \/ /\ pc[c] = "disable" /\ req[c].fn = "disable"
            /\ Quietly(c, <<Store(e, "af", [x EXCEPT !.v = FALSE])>>)
            /\ buf'[c] = Append(buf[c], Store(e, "af", [x EXCEPT !.v = FALSE]))
  BY SwitchStep
<1>2. Works(c, l) /\ ~InWindow(c) /\ req[c].fn # "config_ppaace" /\ pc[c] \notin Active
  BY <1>1, Fields DEF Works, Works2, Goes, InWindow, Active
<1>3. Target(c) = 0 /\ e = EntryOf(l, 0)
  BY <1>2 DEF Target, EntryOf
<1>4. e \in Entry /\ RestAt(l, 0, e) /\ \A d \in Cpu \ {c} : ~Pending(d, e)
  <2> HIDE DEF e
  <2> QED BY <1>2, <1>3, AtTarget
<1>5. x \in Word
  BY <1>4, Typed
<1> HIDE DEF x
<1>6. ASSUME NEW b, b \in BOOLEAN, Quietly(c, <<Store(e, "af", [x EXCEPT !.v = b])>>),
             StageAt(c, l, 0, e)'
      PROVE  Configured(l)'
  <2> DEFINE u == Store(e, "af", [x EXCEPT !.v = b])
  <2>1. u \in StoreType /\ u.e = e
    <3>1. [x EXCEPT !.v = b] \in Word
      BY <1>5, <1>6 DEF Word
    <3> QED BY <1>4, <3>1, StoreTypes
  <2> HIDE DEF u, e
  <2>2. \A i \in DOMAIN <<u>> : <<u>>[i] # lwsync => <<u>>[i].e = e
    BY <2>1, AllTo
  <2>3. Quietly(c, <<u>>)
    BY <1>6 DEF u
  <2> QED BY <1>1, <1>2, <1>3, <1>6, <2>2, <2>3, OwnStage DEF Active
<1>7. /\ \A s : Quietly(c, s) => Acts(c)
      /\ \A s : Quietly(c, s) => \A d \in Cpu \ {c} : ~Pending(d, e)'
  BY <1>1, <1>4, ActsOf, Bystanders
<1>8. CASE req[c].fn = "enable"
  <2>1. /\ Quietly(c, <<Store(e, "af", [x EXCEPT !.v = TRUE])>>)
        /\ buf'[c] = Append(buf[c], Store(e, "af", [x EXCEPT !.v = TRUE]))
    BY <1>1, <1>8
  <2> DEFINE b == TRUE
  <2>2. b \in BOOLEAN /\ b = TRUE
    OBVIOUS
  <2> HIDE DEF b
  <2>3. /\ Quietly(c, <<Store(e, "af", [x EXCEPT !.v = b])>>)
        /\ buf'[c] = Append(buf[c], Store(e, "af", [x EXCEPT !.v = b]))
    BY <2>1, <2>2
  <2>4. Acts(c) /\ \A d \in Cpu \ {c} : ~Pending(d, e)'
    BY <1>7, <2>1
  <2>5. StageAt(c, l, 0, e)'
    <3> HIDE DEF e
    <3> QED BY <1>1, <1>2, <1>4, <1>8, <2>2, <2>3, <2>4, SwitchStage DEF x
  <2> QED BY <1>6, <2>2, <2>3, <2>5
<1>9. CASE req[c].fn = "disable"
  <2>1. /\ Quietly(c, <<Store(e, "af", [x EXCEPT !.v = FALSE])>>)
        /\ buf'[c] = Append(buf[c], Store(e, "af", [x EXCEPT !.v = FALSE]))
    BY <1>1, <1>9
  <2> DEFINE b == FALSE
  <2>2. b \in BOOLEAN /\ b = FALSE
    OBVIOUS
  <2> HIDE DEF b
  <2>3. /\ Quietly(c, <<Store(e, "af", [x EXCEPT !.v = b])>>)
        /\ buf'[c] = Append(buf[c], Store(e, "af", [x EXCEPT !.v = b]))
    BY <2>1, <2>2
  <2>4. Acts(c) /\ \A d \in Cpu \ {c} : ~Pending(d, e)'
    BY <1>7, <2>1
  <2>5. StageAt(c, l, 0, e)'
    <3> HIDE DEF e
    <3> QED BY <1>1, <1>2, <1>4, <1>9, <2>2, <2>3, <2>4, SwitchStage DEF x
  <2> QED BY <1>6, <2>2, <2>3, <2>5
<1> QED BY <1>1, <1>8, <1>9

LEMMA WindowConfigured ==
    ASSUME Control, Tables, NEW c \in Cpu, NEW l \in Liodn, l \notin raced, req[c].l = l, configured[l] # <<>>,
           Configured(l), SpaaceFill(c) \/ SpaaceValid(c) \/ Reconfig(c) \/ Move(c) \/ Allow(c)
    PROVE  Configured(l)'
<1>0. PICK w, e, p : w = req[c].w /\ e = EntryOf(l, w) /\ p = req[c].rpn
  OBVIOUS
<1> DEFINE x == Load(c, e, "af")
<1>1. WindowStep(c) /\ e \in Entry /\ x \in Word /\ p \in Page
  BY <1>0, WindowSteps
<1>2. Works(c, l) /\ InWindow(c) /\ pc'[c] \in Active /\ req[c].fn # "config_ppaace" /\ Target(c) = w
  BY <1>0, <1>1 DEF WindowStep, Works, Works2, Goes, InWindow, Target
<1>3. w \in Window /\ p \in granted[l][w]
  BY <1>0, <1>2, WindowEntry
<1>4. /\ pc[c] \in Active => StageAt(c, l, w, e)
      /\ pc[c] \notin Active => RestAt(l, w, e)
      /\ \A d \in Cpu \ {c} : ~Pending(d, e)
  BY <1>0, <1>2, AtTarget
<1>5. ASSUME NEW s, Quietly(c, s)
      PROVE  /\ Acts(c) /\ \A d \in Cpu \ {c} : ~Pending(d, e)'
             /\ StageAt(c, l, w, e)' /\ (\A i \in DOMAIN s : s[i] # lwsync => s[i].e = e) => Configured(l)'
  <2>1. pc'[c] # "idle"
    BY <1>2 DEF Active
  <2>2. Acts(c) /\ \A d \in Cpu \ {c} : ~Pending(d, e)'
    BY <1>4, <1>5, <2>1, ActsOf, Bystanders
  <2>3. ASSUME StageAt(c, l, w, e)', \A i \in DOMAIN s : s[i] # lwsync => s[i].e = e PROVE Configured(l)'
    BY <1>0, <1>2, <1>5, <2>3, OwnStage
  <2> QED BY <2>2, <2>3
<1>6. /\ \A d \in Cpu : Works(d, l) /\ pc[d] = "config_spaace" =>
            asked[l].page[req[d].w] = NoPage /\ (req[d].w = 0 => ~asked[l].v)
      /\ \A d \in Cpu : Works(d, l) /\ pc[d] \in {"reconfig_liodn", "reconfig_subwin"} =>
            asked[l].page[req[d].w] # NoPage
  BY DEF Configured
<1>7. CallOk(c)
  BY DEF Control
<1> DEFINE th == Store(e, "twbah", p)
           tl == Store(e, "twbal", p)
<1>8. /\ lwsync \in StoreType /\ th \in StoreType /\ tl \in StoreType /\ th.e = e /\ tl.e = e
      /\ \A y \in Word : Store(e, "af", y) \in StoreType /\ Store(e, "af", y).e = e
  BY <1>1, StoreTypes
<1> HIDE DEF x
<1>9. CASE SpaaceFill(c)
  <2> DEFINE y == [x EXCEPT !.ap = TRUE]
             ty == Store(e, "af", y)
             s == <<th, tl, ty, lwsync>>
  <2>1. /\ Quietly(c, s) /\ pc[c] = "config_spaace" /\ pc'[c] = "spaace_valid"
        /\ buf'[c] = Append(Append(Append(Append(buf[c], th), tl), ty), lwsync)
    BY <1>0, <1>9, SpaaceFillStep DEF x
  <2>2. y \in Word
    BY <1>1, WordEdits
  <2>3. \A i \in DOMAIN s : s[i] # lwsync => s[i].e = e
    <3>1. ty \in StoreType /\ ty.e = e
      BY <1>8, <2>2
    <3> HIDE DEF th, tl, ty
    <3> QED BY <1>8, <3>1, AllTo
  <2> HIDE DEF s
  <2>4. Acts(c) /\ \A d \in Cpu \ {c} : ~Pending(d, e)'
    BY <1>5, <2>1
  <2>5. asked[l].page[w] = NoPage /\ (w = 0 => ~asked[l].v) /\ RestAt(l, w, e)
    BY <1>0, <1>2, <1>4, <1>6, <2>1 DEF Active
  <2>6. StageAt(c, l, w, e)'
    <3> QED BY <1>0, <1>1, <1>2, <1>3, <2>1, <2>4, <2>5, FillStage DEF x
  <2> QED BY <1>5, <2>1, <2>3, <2>6
<1>10. CASE SpaaceValid(c) \/ Allow(c)
  <2> DEFINE y == IF pc[c] = "spaace_valid" THEN [x EXCEPT !.v = TRUE] ELSE [x EXCEPT !.ap = TRUE]
             ty == Store(e, "af", y)
             s == <<ty>>
  <2>1. /\ Quietly(c, s) /\ pc[c] \in {"spaace_valid", "allow"} /\ pc'[c] = "sync" /\ y \in Word
        /\ buf'[c] = Append(buf[c], ty)
    BY <1>0, <1>10, ValidAllowStep DEF x
  <2>2. \A i \in DOMAIN s : s[i] # lwsync => s[i].e = e
    <3>1. ty \in StoreType /\ ty.e = e
      BY <1>8, <2>1
    <3> HIDE DEF ty
    <3> QED BY <3>1, AllTo
  <2> HIDE DEF s
  <2>3. Acts(c) /\ \A d \in Cpu \ {c} : ~Pending(d, e)'
    BY <1>5, <2>1
  <2>4. StageAt(c, l, w, e)
    BY <1>4, <2>1 DEF Active
  <2>5. /\ pc[c] = "spaace_valid" => req[c].fn = "config_spaace"
        /\ pc[c] = "allow" => req[c].fn # "config_spaace"
    BY <1>7, <2>1, WhereWindowed
  <2>6. StageAt(c, l, w, e)'
    <3>1. CASE pc[c] = "spaace_valid"
      <4>1. buf'[c] = Append(buf[c], Store(e, "af", [Load(c, e, "af") EXCEPT !.v = TRUE]))
        BY <2>1, <3>1 DEF x
      <4> HIDE DEF y
      <4> QED BY <1>0, <1>1, <1>2, <1>3, <2>1, <2>3, <2>4, <2>5, <3>1, <4>1, ValidStage
    <3>2. CASE pc[c] = "allow"
      <4>1. buf'[c] = Append(buf[c], Store(e, "af", [Load(c, e, "af") EXCEPT !.ap = TRUE]))
        BY <2>1, <3>2 DEF x
      <4> HIDE DEF y
      <4> QED BY <1>0, <1>1, <1>2, <1>3, <2>1, <2>3, <2>4, <2>5, <3>2, <4>1, AllowStage
    <3> QED BY <2>1, <3>1, <3>2
  <2> QED BY <1>5, <2>1, <2>2, <2>6
<1>11. CASE Reconfig(c)
  <2> DEFINE y == [x EXCEPT !.ap = FALSE]
             ty == Store(e, "af", y)
             s == <<ty, lwsync>>
  <2>1. /\ pc[c] \in {"reconfig_liodn", "reconfig_subwin"}
        /\ \/ /\ Quietly(c, <<>>) /\ buf' = buf /\ pc'[c] = "sync"
              /\ Load(c, e, "twbah") = p /\ Load(c, e, "twbal") = p
           \/ /\ Quietly(c, s) /\ pc'[c] = "move" /\ y \in Word
              /\ buf'[c] = Append(Append(buf[c], ty), lwsync)
    BY <1>0, <1>11, ReconfigStep DEF x
  <2>2. asked[l].page[w] # NoPage /\ RestAt(l, w, e)
    BY <1>0, <1>2, <1>4, <1>6, <2>1 DEF Active
  <2>3. req[c].fn # "config_spaace"
    BY <1>7, <2>1, WhereWindowed
  <2>4. CASE pc'[c] = "sync"
    <3>1. Quietly(c, <<>>) /\ buf' = buf /\ Load(c, e, "twbah") = p
      BY <2>1, <2>4
    <3>2. Acts(c) /\ \A d \in Cpu \ {c} : ~Pending(d, e)'
      BY <1>5, <3>1
    <3>3. StageAt(c, l, w, e)'
      <4> QED BY <1>0, <1>1, <1>2, <1>3, <2>2, <2>3, <2>4, <3>1, <3>2, SameStage
    <3>4. \A i \in DOMAIN <<>> : <<>>[i] # lwsync => <<>>[i].e = e
      OBVIOUS
    <3> QED BY <1>5, <3>1, <3>3, <3>4
  <2>5. CASE pc'[c] = "move"
    <3>1. Quietly(c, s) /\ buf'[c] = Append(Append(buf[c], ty), lwsync) /\ y \in Word
      BY <2>1, <2>5
    <3>2. \A i \in DOMAIN s : s[i] # lwsync => s[i].e = e
      <4>1. ty \in StoreType /\ ty.e = e
        BY <1>8, <3>1
      <4> HIDE DEF ty
      <4> QED BY <1>8, <4>1, AllTo
    <3> HIDE DEF s
    <3>3. Acts(c) /\ \A d \in Cpu \ {c} : ~Pending(d, e)'
      BY <1>5, <3>1
    <3>4. StageAt(c, l, w, e)'
      <4> QED BY <1>1, <1>3, <2>2, <2>5, <3>1, <3>3, DenyStage DEF x
    <3> QED BY <1>5, <3>1, <3>2, <3>4
  <2> QED BY <2>1, <2>4, <2>5
<1>12. CASE Move(c)
  <2> DEFINE s == <<th, tl, lwsync>>
  <2>1. /\ Quietly(c, s) /\ pc[c] = "move" /\ pc'[c] = "allow"
        /\ buf'[c] = Append(Append(Append(buf[c], th), tl), lwsync)
    BY <1>0, <1>12, MoveStep
  <2>2. \A i \in DOMAIN s : s[i] # lwsync => s[i].e = e
    <3> HIDE DEF th, tl
    <3> QED BY <1>8, AllTo
  <2> HIDE DEF s
  <2>3. Acts(c) /\ \A d \in Cpu \ {c} : ~Pending(d, e)'
    BY <1>5, <2>1
  <2>4. StageAt(c, l, w, e)
    BY <1>4, <2>1 DEF Active
  <2>5. StageAt(c, l, w, e)'
    <3> QED BY <1>0, <1>1, <1>2, <1>3, <2>1, <2>3, <2>4, MoveStage
  <2> QED BY <1>5, <2>1, <2>2, <2>5
<1> QED BY <1>9, <1>10, <1>11, <1>12

(* The steps of a core on its own device, configured or not.                *)
LEMMA ConfiguredStep ==
    ASSUME Control, Tables, NEW c \in Cpu, NEW l \in Liodn, l \notin raced, req[c].l = l, configured[l] # <<>>,
           Configured(l),
           \/ ConfigLock(c) \/ ConfigReserve(c) \/ ConfigUnlock(c) \/ ConfigBadOmi(c) \/ ConfigWindow(c)
           \/ ConfigSubwindows(c) \/ GetFspi(c) \/ Allocate(c) \/ Enable(c) \/ EnableValid(c) \/ Disable(c)
           \/ SpaaceFill(c) \/ SpaaceValid(c) \/ Reconfig(c) \/ Move(c) \/ Allow(c)
    PROVE  Configured(l)'
<1>1. Live(l)
  BY DEF Live
<1>2. /\ Load(c, Prim(l), "af").wse = TRUE
      /\ pc[c] \notin {"reserved", "fill", "get_fspi", "allocate"}
  BY <1>1, LiveSees DEF Works, Owner
<1>3. CASE ConfigLock(c) \/ ConfigUnlock(c) \/ GetFspi(c) \/ Enable(c)
  <2>1. /\ Quietly(c, <<>>) /\ buf' = buf
        /\ \/ pc[c] = "config_ppaace" /\ pc'[c] = "reserve"
           \/ pc[c] = "busy" /\ pc'[c] = "idle"
           \/ pc[c] \in {"reserved", "get_fspi"}
           \/ pc[c] = "enable" /\ pc'[c] = IF Load(c, Prim(req[c].l), "af").wse THEN "enable_sync" ELSE "idle"
    BY <1>3, LockStep
  <2>2. /\ pc[c] \notin Active
        /\ pc'[c] \notin Active \cup {"config_spaace", "reconfig_liodn", "reconfig_subwin"}
    BY <1>2, <2>1 DEF Active
  <2> QED BY <2>1, <2>2, ConfiguredStill
<1>4. CASE ConfigReserve(c)
  <2>1. pc[c] = "reserve" /\ pc'[c] = "busy" /\ buf' = buf /\ Quietly(c, <<>>)
    BY <1>2, <1>4, ReserveStep
  <2> QED BY <2>1, ConfiguredStill DEF Active
<1>5. CASE EnableValid(c) \/ Disable(c)
  BY <1>5, SwitchConfigured
<1>6. CASE ConfigBadOmi(c) \/ ConfigWindow(c) \/ ConfigSubwindows(c) \/ Allocate(c)
  BY <1>2, <1>6 DEF ConfigBadOmi, ConfigWindow, ConfigSubwindows, Allocate
<1>7. CASE SpaaceFill(c) \/ SpaaceValid(c) \/ Reconfig(c) \/ Move(c) \/ Allow(c)
  BY <1>7, WindowConfigured
<1> QED BY <1>3, <1>4, <1>5, <1>6, <1>7

(* A step of a core in its call, and the devices.                           *)
LEMMA DevicesAct ==
    ASSUME Control, Tables, Devices, NEW c \in Cpu,
           \/ ConfigLock(c) \/ ConfigReserve(c) \/ ConfigUnlock(c) \/ ConfigBadOmi(c) \/ ConfigWindow(c)
           \/ ConfigSubwindows(c) \/ GetFspi(c) \/ Allocate(c) \/ Enable(c) \/ EnableValid(c) \/ Disable(c)
           \/ SpaaceFill(c) \/ SpaaceValid(c) \/ Reconfig(c) \/ Move(c) \/ Allow(c)
    PROVE  Devices'
<1>1. PICK s : Quietly(c, s) /\ req[c].l \in Liodn /\ \A d \in Cpu \ {c} : tmp'[d] = tmp[d]
  <2>1. CASE ConfigLock(c) \/ ConfigUnlock(c) \/ GetFspi(c) \/ Enable(c)
    BY <2>1, LockStep
  <2>2. CASE ConfigReserve(c)
    BY <2>2, ReserveStep
  <2>3. CASE EnableValid(c) \/ Disable(c)
    BY <2>3, SwitchStep
  <2>4. CASE ConfigBadOmi(c) \/ ConfigSubwindows(c)
    BY <2>4, RetypeStep
  <2>5. CASE ConfigWindow(c)
    BY <2>5, ConfigWindowStep
  <2>6. CASE Allocate(c)
    BY <2>6, AllocateStep
  <2>7. CASE SpaaceFill(c) \/ SpaaceValid(c) \/ Reconfig(c) \/ Move(c) \/ Allow(c)
    <3>1. tmp' = tmp /\ req[c].l \in Liodn
      BY <2>7, WindowSteps, WindowEntry DEF WindowStep
    <3>2. \E s : Quietly(c, s)
      BY <2>7, SpaaceFillStep, ValidAllowStep, ReconfigStep, MoveStep
    <3> QED BY <3>1, <3>2
  <2> QED BY <2>1, <2>2, <2>3, <2>4, <2>5, <2>6, <2>7
<1>2. raced' = raced /\ configured' = configured
  BY <1>1, Bystanders
<1>3. ASSUME NEW l \in Liodn \ raced PROVE DeviceOk(l)'
  <2>1. DeviceOk(l)
    BY DEF Devices, DeviceOk
  <2>2. CASE l # req[c].l
    BY <1>1, <2>1, <2>2, IssueElsewhere
  <2>3. CASE l = req[c].l /\ configured[l] = <<>>
    BY <2>1, <2>3, UnconfiguredStep
  <2>4. CASE l = req[c].l /\ configured[l] # <<>>
    <3>1. Configured(l)
      BY <2>1, <2>4 DEF DeviceOk
    <3>2. Configured(l)'
      BY <2>4, <3>1, ConfiguredStep
    <3> QED BY <1>2, <2>4, <3>2 DEF DeviceOk
  <2> QED BY <2>2, <2>3, <2>4
<1> QED BY <1>2, <1>3 DEF Devices, DeviceOk

-----------------------------------------------------------------------------
(* A store that reaches a device's entry                                    *)

LEMMA EntryEq ==
    ASSUME NEW x \in EntryType, NEW y \in EntryType, x.af = y.af, x.twbah = y.twbah, x.twbal = y.twbal, x.fspi = y.fspi
    PROVE  x = y
  BY DEF EntryType

LEMMA OutEntry ==
    ASSUME Tables, NEW c \in Cpu, NEW i \in DOMAIN buf[c], Out(c, i), NEW e, e = buf[c][i].e
    PROVE  LET b == buf[c]
               t == b[i]
               b2 == buf'[c] IN
           /\ b \in Seq(StoreType) /\ e \in Entry /\ IsTo(t, e) /\ t \in StoreType /\ t.f \in Field
           /\ t.f = "af" => To(t, e, "af")
           /\ mem'[e] \in EntryType /\ mem[e] \in EntryType
           /\ t.f = "af" => mem'[e].af = t.x
           /\ t.f # "af" => mem'[e].af = mem[e].af
           /\ t.f # "twbah" => mem'[e].twbah = mem[e].twbah
           /\ t.f # "twbal" => mem'[e].twbal = mem[e].twbal
           /\ t.f # "fspi" => mem'[e].fspi = mem[e].fspi
           /\ \A j \in DOMAIN b2 : \E k \in DOMAIN b : b2[j] = b[k]
           /\ Ordered(b, e) => Ordered(b2, e)
           /\ Fenced(b, e) => Fenced(b2, e)
           /\ \A f \in Field : Load(c, e, f)' = Load(c, e, f)
           /\ \A d \in Cpu \ {c} : buf'[d] = buf[d]
           /\ UNCHANGED <<pc, req, tmp, granted, configured, asked>>
<1> DEFINE b == buf[c]
           t == b[i]
           b2 == buf'[c]
<1>1. b \in Seq(StoreType) /\ t \in StoreType /\ t # lwsync /\ e \in Entry /\ t.f \in Field /\ Leaves(b, i) /\ b2 = Drained(b, i)
  BY Typed DEF Out
<1>2. IsTo(t, e) /\ (t.f = "af" => To(t, e, "af"))
  BY <1>1, Kinds DEF IsTo
<1>3. mem'[e] \in EntryType /\ mem[e] \in EntryType
  BY <1>1 DEF Out, Tables
<1>4. \A f \in Field : mem'[e][f] = IF f = t.f THEN t.x ELSE mem[e][f]
  BY DEF Out
<1>5. /\ t.f = "af" => mem'[e].af = t.x
      /\ t.f # "af" => mem'[e].af = mem[e].af
      /\ t.f # "twbah" => mem'[e].twbah = mem[e].twbah
      /\ t.f # "twbal" => mem'[e].twbal = mem[e].twbal
      /\ t.f # "fspi" => mem'[e].fspi = mem[e].fspi
  BY <1>4 DEF Field
<1>6. \A f \in Field : Load(c, e, f)' = Load(c, e, f)
  BY <1>1, OutSees, Loads, LoadsNext
<1>7. /\ \A j \in DOMAIN b2 : \E k \in DOMAIN b : b2[j] = b[k]
      /\ Ordered(b, e) => Ordered(b2, e)
      /\ Fenced(b, e) => Fenced(b2, e)
  <2> HIDE DEF b, b2
  <2> QED BY <1>1, OrderDrained DEF b
<1>8. (\A d \in Cpu \ {c} : buf'[d] = buf[d]) /\ UNCHANGED <<pc, req, tmp, granted, configured, asked>>
  BY DEF Out
<1> QED BY <1>1, <1>2, <1>3, <1>5, <1>6, <1>7, <1>8

(* A device that is not configured.                                         *)
LEMMA OutUnset ==
    ASSUME Control, Tables, NEW c \in Cpu, NEW i \in DOMAIN buf[c], Out(c, i), NEW l \in Liodn, buf[c][i].e = Prim(l), Unset(l)
    PROVE  Unset(l)'
<1> DEFINE e == Prim(l)
           t == buf[c][i]
<1>1. /\ IsTo(t, e) /\ mem'[e] \in EntryType /\ mem[e] \in EntryType
      /\ t.f = "af" => mem'[e].af = t.x
      /\ t.f # "twbah" => mem'[e].twbah = mem[e].twbah
      /\ t.f # "twbal" => mem'[e].twbal = mem[e].twbal
      /\ t.f # "fspi" => mem'[e].fspi = mem[e].fspi
      /\ \A j \in DOMAIN buf'[c] : \E k \in DOMAIN buf[c] : buf'[c][j] = buf[c][k]
      /\ \A d \in Cpu \ {c} : buf'[d] = buf[d]
      /\ UNCHANGED <<pc, req, tmp, granted, configured, asked>>
  BY OutEntry
<1>2. /\ mem[e] = Empty /\ asked[l] = NothingAsked
      /\ \A d \in Cpu : /\ Works(d, l) => /\ ~Owner(d) /\ pc[d] # "enable_sync"
                                         /\ (pc[d] = "sync" => req[d].fn = "disable")
                        /\ \A j \in DOMAIN buf[d] : IsTo(buf[d][j], e) =>
                              /\ buf[d][j].f = "af" /\ buf[d][j].x = Blank
                              /\ Works(d, l) /\ pc[d] = "sync" /\ req[d].fn = "disable"
  BY DEF Unset
<1>3. mem'[e] = Empty
  <2>1. t.f = "af" /\ t.x = Blank
    BY <1>1, <1>2
  <2>2. Empty.af = Blank
    BY DEF Empty, Blank
  <2>3. Empty \in EntryType
    BY <1>1, <1>2
  <2> HIDE DEF e, t
  <2> QED BY <1>1, <1>2, <2>1, <2>2, <2>3, EntryEq
<1>4. \A d \in Cpu : (Works(d, l)' <=> Works(d, l)) /\ (Owner(d)' <=> Owner(d))
  BY <1>1 DEF Works, Owner
<1>5. \A d \in Cpu : \A j \in DOMAIN buf'[d] : \E k \in DOMAIN buf[d] : buf'[d][j] = buf[d][k]
  BY <1>1
<1> QED BY <1>1, <1>2, <1>3, <1>4, <1>5 DEF Unset, Prim, IsTo

LEMMA OutFailed ==
    ASSUME Control, Tables, NEW c \in Cpu, NEW i \in DOMAIN buf[c], Out(c, i), NEW l \in Liodn, buf[c][i].e = Prim(l), Failed(l)
    PROVE  Failed(l)'
<1> DEFINE e == Prim(l)
           t == buf[c][i]
<1>1. /\ IsTo(t, e)
      /\ t.f = "af" => mem'[e].af = t.x
      /\ \A j \in DOMAIN buf'[c] : \E k \in DOMAIN buf[c] : buf'[c][j] = buf[c][k]
      /\ \A d \in Cpu \ {c} : buf'[d] = buf[d]
      /\ UNCHANGED <<pc, req, tmp, granted, configured, asked>>
  BY OutEntry
<1>2. \A d \in Cpu : /\ Works(d, l) => ~Owner(d)
                     /\ \A j \in DOMAIN buf[d] : IsTo(buf[d][j], e) => buf[d][j].f = "af" /\ buf[d][j].x \in Dead
  BY DEF Failed
<1>3. mem'[e].af \in Dead
  BY <1>1, <1>2
<1>4. \A d \in Cpu : (Works(d, l)' <=> Works(d, l)) /\ (Owner(d)' <=> Owner(d))
  BY <1>1 DEF Works, Owner
<1>5. \A d \in Cpu : \A j \in DOMAIN buf'[d] : \E k \in DOMAIN buf[d] : buf'[d][j] = buf[d][k]
  BY <1>1
<1> QED BY <1>2, <1>3, <1>4, <1>5 DEF Failed, Prim, IsTo

LEMMA OutBuilding ==
    ASSUME Control, Tables, NEW c \in Cpu, NEW i \in DOMAIN buf[c], Out(c, i), NEW l \in Liodn, buf[c][i].e = Prim(l), Building(c, l)
    PROVE  Building(c, l)'
<1>0. PICK e : e = Prim(l)
  OBVIOUS
<1> DEFINE t == buf[c][i]
           b == buf[c]
           b2 == buf'[c]
<1>1. /\ b \in Seq(StoreType) /\ IsTo(t, e) /\ t \in StoreType /\ t.f \in Field /\ (t.f = "af" => To(t, e, "af"))
      /\ mem'[e] \in EntryType /\ mem[e] \in EntryType
      /\ t.f = "af" => mem'[e].af = t.x
      /\ t.f # "af" => mem'[e].af = mem[e].af
      /\ t.f # "twbah" => mem'[e].twbah = mem[e].twbah
      /\ t.f # "twbal" => mem'[e].twbal = mem[e].twbal
      /\ t.f # "fspi" => mem'[e].fspi = mem[e].fspi
      /\ \A j \in DOMAIN b2 : \E k \in DOMAIN b : b2[j] = b[k]
      /\ \A f \in Field : Load(c, e, f)' = Load(c, e, f)
      /\ UNCHANGED <<pc, req, tmp, granted, configured, asked>>
  BY <1>0, OutEntry
<1>2. \A S : AFs(c, e, S) => AFs(c, e, S)' /\ (t.f = "af" => t.x \in S)
  BY <1>1 DEF AFs
<1>3. /\ Load(c, e, "af")' = Load(c, e, "af") /\ Load(c, e, "twbah")' = Load(c, e, "twbah")
      /\ Load(c, e, "twbal")' = Load(c, e, "twbal") /\ Load(c, e, "fspi")' = Load(c, e, "fspi")
  BY <1>1 DEF Field
<1>4. mem'[e].af.v = FALSE /\ AFs(c, e, {x \in Word : ~x.v})'
  <2>1. mem[e].af.v = FALSE /\ AFs(c, e, {x \in Word : ~x.v})
    BY <1>0 DEF Building
  <2>2. t.f = "af" => t.x \in {x \in Word : ~x.v}
    BY <1>2, <2>1
  <2>3. t.f = "af" => t.x.v = FALSE
    BY <2>2 DEF Word
  <2> QED BY <1>1, <1>2, <2>1, <2>3
<1>5. AFs(c, e, {x \in Word : x.wse}) /\ mem[e].af.wse => AFs(c, e, {x \in Word : x.wse})' /\ mem'[e].af.wse
  <2> SUFFICES ASSUME AFs(c, e, {x \in Word : x.wse}), mem[e].af.wse
               PROVE  AFs(c, e, {x \in Word : x.wse})' /\ mem'[e].af.wse
    OBVIOUS
  <2>1. t.f = "af" => t.x \in {x \in Word : x.wse}
    BY <1>2
  <2>2. t.f = "af" => t.x.wse
    BY <2>1
  <2> QED BY <1>1, <1>2, <2>2
<1> DEFINE Some == [Empty EXCEPT !.af = Taken]
           OnlyTaken(s) == \A j \in DOMAIN s : IsTo(s[j], e) => s[j].f = "af" /\ s[j].x = Taken
<1>6. ASSUME OnlyTaken(b), mem[e] \in {Empty, Some} PROVE mem'[e] = Some /\ OnlyTaken(b2)
  <2>1. t.f = "af" /\ t.x = Taken
    BY <1>1, <1>6
  <2>2. /\ Some.af = Taken /\ Some.twbah = Empty.twbah /\ Some.twbal = Empty.twbal /\ Some.fspi = Empty.fspi
    BY DEF Empty
  <2>3. Some \in EntryType
    BY Blanks, NSpaaceAssumption DEF Empty, EntryType
  <2>4. mem[e].twbah = Empty.twbah /\ mem[e].twbal = Empty.twbal /\ mem[e].fspi = Empty.fspi
    BY <1>6, <2>2
  <2> HIDE DEF Some
  <2>5. mem'[e] = Some
    BY <1>1, <2>1, <2>2, <2>3, <2>4, EntryEq
  <2> QED BY <1>1, <1>6, <2>5
<1>7. CASE pc[c] = "reserved"
  <2>1. Load(c, e, "af") = Taken /\ mem[e] \in {Empty, Some} /\ OnlyTaken(b)
    BY <1>0, <1>7 DEF Building
  <2>2. mem'[e] = Some /\ OnlyTaken(b2)
    BY <1>6, <2>1
  <2> QED BY <1>0, <1>1, <1>3, <1>4, <1>7, <2>1, <2>2 DEF Building, Prim, IsTo
<1>8. CASE pc[c] = "fill"
  <2>1. ~Pending(c, e)
    BY <1>0, <1>8 DEF Building
  <2> QED BY <1>1, <2>1 DEF Pending
<1>9. CASE pc[c] \in {"get_fspi", "allocate"}
  <2>1. mem[e] = Some /\ OnlyTaken(b)
    BY <1>0, <1>9 DEF Building
  <2>2. mem'[e] = Some /\ OnlyTaken(b2)
    BY <1>6, <2>1
  <2> QED BY <1>0, <1>1, <1>4, <1>9, <2>2 DEF Building, Prim, IsTo
<1>10. CASE pc[c] = "sync"
  <2>1. \/ /\ req[c].cnt = 0 /\ Load(c, e, "af") = [Taken EXCEPT !.ap = TRUE]
           /\ mem[e].af.wse /\ AFs(c, e, {x \in Word : x.wse})
           /\ Load(c, e, "twbah") = req[c].rpn /\ Load(c, e, "twbal") = req[c].rpn
        \/ /\ req[c].cnt > 0 /\ mem[e].af.wse /\ AFs(c, e, {x \in Word : x.wse})
           /\ Load(c, e, "af") = [Taken EXCEPT !.mw = TRUE] /\ Load(c, e, "fspi") = tmp[c]
    BY <1>0, <1>10 DEF Building
  <2>2. mem'[e].af.wse /\ AFs(c, e, {x \in Word : x.wse})'
    BY <1>5, <2>1
  <2>3. CASE req[c].cnt = 0
    BY <1>0, <1>1, <1>3, <1>4, <1>10, <2>1, <2>2, <2>3 DEF Building, Prim
  <2>4. CASE req[c].cnt > 0
    BY <1>0, <1>1, <1>3, <1>4, <1>10, <2>1, <2>2, <2>4 DEF Building, Prim
  <2> QED BY <2>1, <2>3, <2>4
<1> QED BY <1>7, <1>8, <1>9, <1>10 DEF Building

LEMMA OutOwned ==
    ASSUME Control, Tables, NEW c \in Cpu, NEW i \in DOMAIN buf[c], Out(c, i), NEW l \in Liodn, buf[c][i].e = Prim(l), Owned(l)
    PROVE  Owned(l)'
<1>1. PICK o \in Cpu : /\ Works(o, l) /\ Owner(o) /\ Building(o, l)
                       /\ \A d \in Cpu \ {o} : ~Pending(d, Prim(l)) /\ (Works(d, l) => pc[d] \in Waiting)
  BY DEF Owned
<1>2. /\ IsTo(buf[c][i], Prim(l)) /\ \A d \in Cpu \ {c} : buf'[d] = buf[d]
      /\ UNCHANGED <<pc, req, tmp, granted, configured, asked>>
  BY OutEntry
<1>3. o = c
  BY <1>1, <1>2 DEF Pending
<1>4. Building(c, l)'
  BY <1>1, <1>3, OutBuilding
<1>5. Works(c, l)' /\ Owner(c)'
  BY <1>1, <1>2, <1>3 DEF Works, Owner
<1>6. \A d \in Cpu \ {c} : ~Pending(d, Prim(l))' /\ (Works(d, l)' => pc'[d] \in Waiting)
  BY <1>1, <1>2, <1>3 DEF Pending, Works, Prim
<1>7. asked'[l] = NothingAsked
  BY <1>2 DEF Owned
<1> QED BY <1>4, <1>5, <1>6, <1>7 DEF Owned

(* A device that is configured: the core at work on the window stores.      *)
LEMMA StageDrain ==
    ASSUME Control, Tables, NEW c \in Cpu, NEW i \in DOMAIN buf[c], Out(c, i), NEW l \in Liodn, NEW w \in Window,
           NEW e, e = buf[c][i].e, buf[c][i].f # "fspi", StageAt(c, l, w, e)
    PROVE  StageAt(c, l, w, e)'
<1> DEFINE t == buf[c][i]
           b == buf[c]
           b2 == buf'[c]
<1>1. /\ b \in Seq(StoreType) /\ e \in Entry /\ IsTo(t, e) /\ t \in StoreType /\ t.f \in Field /\ (t.f = "af" => To(t, e, "af"))
      /\ t.f = "af" => mem'[e].af = t.x
      /\ t.f # "af" => mem'[e].af = mem[e].af
      /\ t.f # "twbah" => mem'[e].twbah = mem[e].twbah
      /\ t.f # "twbal" => mem'[e].twbal = mem[e].twbal
      /\ \A j \in DOMAIN b2 : \E k \in DOMAIN b : b2[j] = b[k]
      /\ Ordered(b, e) => Ordered(b2, e)
      /\ Fenced(b, e) => Fenced(b2, e)
      /\ \A f \in Field : Load(c, e, f)' = Load(c, e, f)
      /\ \A d \in Cpu \ {c} : buf'[d] = buf[d]
      /\ UNCHANGED <<pc, req, tmp, configured, asked>>
  BY OutEntry
<1>2. /\ Load(c, e, "af")' = Load(c, e, "af") /\ Load(c, e, "twbah")' = Load(c, e, "twbah")
      /\ Load(c, e, "twbal")' = Load(c, e, "twbal")
  BY <1>1 DEF Field
<1>3. \A S : AFs(c, e, S) => AFs(c, e, S)' /\ (t.f = "af" => t.x \in S)
  BY <1>1 DEF AFs
<1>4. /\ Denied(c, e)' => Denied(c, e)
      /\ Paged(c, e)' => Paged(c, e)
      /\ Granting(c, e)' => Granting(c, e)
  BY <1>1 DEF Denied, Paged, Granting
<1>5. Leaves(b, i) /\ granted' = granted
  BY DEF Out
<1>6. \A j \in DOMAIN b : ~Before(b, j, i)
  <2>1. DOMAIN b = 1 .. Len(b) /\ Len(b) \in Nat
    BY <1>1
  <2> HIDE DEF b
  <2> QED BY <1>5, <2>1 DEF Before, Leaves, b
<1>7. /\ \A d \in Cpu \ {c} : ~Pending(d, e)
      /\ Ordered(b, e)
      /\ w = 0 => mem[e].af.mw = Multi(l) /\ AFs(c, e, {x \in Word : x.mw = Multi(l)})
      /\ mem[e].af.v /\ mem[e].af.ap =>
            /\ mem[e].twbah = mem[e].twbal /\ mem[e].twbah \in granted[l][w]
            /\ (Paged(c, e) => Denied(c, e))
      /\ Granting(c, e) => Load(c, e, "twbah") = Load(c, e, "twbal") /\ Load(c, e, "twbah") \in granted[l][w]
      /\ MadeAt(c, l, w, e)
  BY DEF StageAt
(* A store that grants comes after every store of the page, ...             *)
<1>8. ASSUME t.f = "af", t.x.v, t.x.ap
      PROVE  /\ Granting(c, e) /\ ~Paged(c, e) /\ ~Paged(c, e)'
             /\ Load(c, e, "twbah") = mem[e].twbah /\ Load(c, e, "twbal") = mem[e].twbal
  <2>1. Grants(t, e)
    BY <1>1, <1>8 DEF Grants
  <2>2. Granting(c, e)
    BY <2>1 DEF Granting
  <2>3. ~Paged(c, e)
    BY <1>6, <1>7, <2>1 DEF Paged, Ordered
  <2>4. \A j \in DOMAIN b : ~To(b[j], e, "twbah") /\ ~To(b[j], e, "twbal")
    BY <2>3 DEF Paged, Pages
  <2>5. Load(c, e, "twbah") = mem[e].twbah /\ Load(c, e, "twbal") = mem[e].twbal
    BY <2>4, SeenNone, Loads
  <2> QED BY <1>4, <2>2, <2>3, <2>5
(* ... and a store of the page after every store that denies.               *)
<1>9. ASSUME t.f \in {"twbah", "twbal"}
      PROVE  Paged(c, e) /\ ~(mem[e].af.v /\ mem[e].af.ap)
  <2>1. Pages(t, e)
    <3>1. To(t, e, t.f)
      BY <1>1, <1>9 DEF To, IsTo
    <3> QED BY <1>9, <3>1 DEF Pages
  <2>2. Paged(c, e)
    BY <2>1 DEF Paged
  <2>3. ~Denied(c, e)
    BY <1>6, <1>7, <2>1 DEF Denied, Ordered
  <2> QED BY <1>7, <2>2, <2>3
<1>10. t.f \in {"af", "twbah", "twbal"}
  BY <1>1 DEF Field
<1>11. Multi(l)' = Multi(l)
  BY <1>1 DEF Multi
<1>12. ASSUME w = 0 PROVE mem'[e].af.mw = Multi(l) /\ AFs(c, e, {x \in Word : x.mw = Multi(l)})'
  <2>1. mem[e].af.mw = Multi(l) /\ AFs(c, e, {x \in Word : x.mw = Multi(l)})
    BY <1>7, <1>12
  <2>2. t.f = "af" => t.x.mw = Multi(l)
    BY <1>3, <2>1
  <2>3. AFs(c, e, {x \in Word : x.mw = Multi(l)})'
    BY <1>3, <1>11, <2>1 DEF AFs
  <2> QED BY <1>1, <2>1, <2>2, <2>3
<1>13. ASSUME mem'[e].af.v, mem'[e].af.ap
       PROVE  t.f = "af" /\ mem'[e].twbah = mem'[e].twbal /\ mem'[e].twbah \in granted[l][w] /\ ~Paged(c, e)'
  <2>1. t.f = "af"
    BY <1>1, <1>9, <1>10, <1>13
  <2>2. t.x.v /\ t.x.ap
    BY <1>1, <1>13, <2>1
  <2> QED BY <1>1, <1>7, <1>8, <2>1, <2>2
<1>14. MadeAt(c, l, w, e)'
  <2> DEFINE page == asked[l].page[w]
             page2 == IF InWindow(c) THEN req[c].rpn ELSE page
             v2 == CASE req[c].fn = "enable" -> TRUE [] req[c].fn = "disable" -> FALSE
                     [] req[c].fn = "config_spaace" /\ w = 0 -> TRUE [] OTHER -> asked[l].v
  <2>1. /\ WordOf(l, w, v2, page2)' = WordOf(l, w, v2, page2)
        /\ FilledWord(l, w)' = FilledWord(l, w)
        /\ WordOf(l, w, asked[l].v, page)' = WordOf(l, w, asked[l].v, page)
        /\ page2' = page2 /\ page' = page
    BY <1>1 DEF WordOf, FilledWord, Multi, InWindow
  <2>2. SeesPage(c, e, page)' = SeesPage(c, e, page) /\ SeesPage(c, e, page2)' = SeesPage(c, e, page2)
    BY <1>2, <2>1 DEF SeesPage
  <2>3. MadeAt(c, l, w, e)
    BY <1>7
  <2>4. CASE pc[c] = "sync"
    BY <1>1, <1>2, <2>1, <2>2, <2>3, <2>4 DEF MadeAt
  <2>5. CASE pc[c] = "spaace_valid"
    <3>1. mem[e].af.v = FALSE /\ AFs(c, e, {x \in Word : ~x.v})
      BY <2>3, <2>5 DEF MadeAt
    <3>2. t.f = "af" => t.x \in {x \in Word : ~x.v}
      BY <1>3, <3>1
    <3>3. t.f = "af" => t.x.v = FALSE
      BY <3>2 DEF Word
    <3>4. mem'[e].af.v = FALSE /\ AFs(c, e, {x \in Word : ~x.v})'
      BY <1>1, <1>3, <3>1, <3>3
    <3> QED BY <1>1, <1>2, <2>1, <2>2, <2>3, <2>5, <3>4 DEF MadeAt
  <2>6. CASE pc[c] = "move"
    <3>1. ~Paged(c, e) /\ ~Granting(c, e)
      BY <2>3, <2>6 DEF MadeAt
    <3>2. ~(mem'[e].af.v /\ mem'[e].af.ap)
      BY <1>1, <1>8, <1>13, <3>1
    <3> QED BY <1>1, <1>2, <1>4, <2>1, <2>2, <2>3, <2>6, <3>1, <3>2 DEF MadeAt
  <2>7. CASE pc[c] = "allow"
    BY <1>1, <1>2, <1>4, <2>1, <2>2, <2>3, <2>7 DEF MadeAt
  <2> QED BY <2>3, <2>4, <2>5, <2>6, <2>7 DEF MadeAt
<1>15. \A d \in Cpu \ {c} : ~Pending(d, e)'
  BY <1>1, <1>7 DEF Pending
<1>16. Granting(c, e)' => Load(c, e, "twbah")' = Load(c, e, "twbal")' /\ Load(c, e, "twbah")' \in granted'[l][w]
  BY <1>2, <1>4, <1>5, <1>7
<1>17. w = 0 => mem'[e].af.mw = Multi(l)' /\ AFs(c, e, {x \in Word : x.mw = Multi(l)})'
  BY <1>11, <1>12
<1>18. Ordered(b2, e)
  BY <1>1, <1>7
<1>19. mem'[e].af.v /\ mem'[e].af.ap =>
          /\ mem'[e].twbah = mem'[e].twbal /\ mem'[e].twbah \in granted'[l][w]
          /\ (Paged(c, e)' => Denied(c, e)')
  BY <1>5, <1>13
<1> QED BY <1>14, <1>15, <1>16, <1>17, <1>18, <1>19 DEF StageAt

LEMMA OutConfigured ==
    ASSUME Control, Tables, NEW c \in Cpu, NEW i \in DOMAIN buf[c], Out(c, i), NEW l \in Liodn, l \notin raced,
           configured[l] # <<>>, Configured(l)
    PROVE  Configured(l)'
<1> DEFINE t == buf[c][i]
<1>1. /\ UNCHANGED <<lock, pamu_fspi, pc, req, tmp, calls, granted, raced, configured, asked>>
      /\ buf' \in [Cpu -> Seq(StoreType)] /\ t \in StoreType /\ t # lwsync /\ t.e \in Entry
  BY DEF Out
<1>2. Live(l)
  BY DEF Live
<1>3. \A w : EntryOf(l, w)' = EntryOf(l, w)
  BY <1>2, OutLive
<1>4. /\ Windows(l)' = Windows(l) /\ Windows(l) \subseteq Window /\ (Single(l)' <=> Single(l))
      /\ \A d \in Cpu : \A w : AtWork(d, l, w)' <=> AtWork(d, l, w)
      /\ \A d \in Cpu : Works(d, l)' <=> Works(d, l)
  BY <1>1 DEF Windows, HasWindow, Single, AtWork, Works, Target, InWindow
<1>5. ASSUME NEW w \in Windows(l) PROVE WindowOk(l, w)'
  <2>1. PICK e : e = EntryOf(l, w)
    OBVIOUS
  <2>2. Has(l, w) /\ w \in Window
    BY WindowHas
  <2>3. e \in Entry /\ EntryOf(l, w)' = e
    BY <1>2, <1>3, <2>1, <2>2, HasEntry
  <2>4. WindowOk(l, w)
    BY DEF Configured
  <2>5. CASE \E d \in Cpu : AtWork(d, l, w)
    <3>1. ASSUME NEW d \in Cpu, AtWork(d, l, w)' PROVE Stage(d, l, w)'
      <4>1. StageAt(d, l, w, e)
        BY <1>4, <2>1, <2>4, <2>5, <3>1 DEF WindowOk, Stage
      <4>2. CASE e # t.e
        <5>1. Untouched(e)
          BY <2>3, <4>2, OutLeaves
        <5>2. StageAt(d, l, w, e)'
          BY <1>1, <4>1, <5>1, StageKept
        <5> QED BY <2>3, <5>2, AtEntry
      <4>3. CASE e = t.e
        <5>1. d = c
          <6>1. Pending(c, e)
            BY <1>1, <4>3 DEF Pending, IsTo
          <6> QED BY <4>1, <6>1 DEF StageAt
        <5>2. t.f # "fspi"
          <6>1. CASE w = 0
            <7>1. e = Prim(l)
              BY <2>1, <6>1 DEF EntryOf
            <7> QED BY <1>1, <1>2, <4>3, <7>1, LiveSees DEF IsTo
          <6>2. CASE w # 0
            <7>1. e = Sec(First(l) + w - 1) /\ First(l) + w - 1 \in 0 .. NSpaace - 1
              BY <1>2, <2>1, <2>2, <6>2, HasEntry
            <7>2. e \notin Primary
              BY <7>1, Entries
            <7> QED BY <1>1, <4>3, <7>2, StoreKinds
          <6> QED BY <6>1, <6>2
        <5>3. StageAt(c, l, w, e)'
          BY <2>2, <4>1, <4>3, <5>1, <5>2, StageDrain
        <5> QED BY <2>3, <5>1, <5>3, AtEntry
      <4> QED BY <4>2, <4>3
    <3> QED BY <1>4, <2>5, <3>1 DEF WindowOk
  <2>6. CASE ~\E d \in Cpu : AtWork(d, l, w)
    <3>1. RestAt(l, w, e)
      BY <2>1, <2>4, <2>6 DEF WindowOk, Rest
    <3>2. e # t.e
      BY <1>1, <3>1 DEF RestAt, Pending, IsTo
    <3>3. Untouched(e)
      BY <2>3, <3>2, OutLeaves
    <3>4. RestAt(l, w, e)'
      BY <1>1, <3>1, <3>3, RestKept
    <3>5. Rest(l, w)'
      BY <2>3, <3>4, AtEntry
    <3> QED BY <1>4, <2>6, <3>5 DEF WindowOk
  <2> QED BY <2>5, <2>6
<1>6. /\ Len(configured[l]) = 1 /\ (Single(l) => asked[l].page[0] # NoPage)
      /\ \A d \in Cpu : Works(d, l) /\ pc[d] = "config_spaace" =>
            asked[l].page[req[d].w] = NoPage /\ (req[d].w = 0 => ~asked[l].v)
      /\ \A d \in Cpu : Works(d, l) /\ pc[d] \in {"reconfig_liodn", "reconfig_subwin"} =>
            asked[l].page[req[d].w] # NoPage
  BY DEF Configured
<1> QED BY <1>1, <1>4, <1>5, <1>6 DEF Configured

LEMMA DevicesDrain ==
    ASSUME Control, Tables, Devices, NEW c \in Cpu, Drain(c)
    PROVE  Devices'
<1>1. PICK i \in DOMAIN buf[c] : Out(c, i)
  BY DrainStep
<1>2. raced' = raced /\ configured' = configured
  BY <1>1 DEF Out
<1>3. ASSUME NEW l \in Liodn \ raced PROVE DeviceOk(l)'
  <2>1. DeviceOk(l)
    BY DEF Devices, DeviceOk
  <2>2. CASE configured[l] = <<>> /\ buf[c][i].e # Prim(l)
    BY <1>1, <2>1, <2>2, OutElsewhere
  <2>3. CASE configured[l] = <<>> /\ buf[c][i].e = Prim(l)
    <3>1. Unset(l) \/ Failed(l) \/ Owned(l)
      BY <2>1, <2>3 DEF DeviceOk
    <3>2. (Unset(l) \/ Failed(l) \/ Owned(l))'
      BY <1>1, <2>3, <3>1, OutUnset, OutFailed, OutOwned
    <3> QED BY <1>2, <2>3, <3>2 DEF DeviceOk
  <2>4. CASE configured[l] # <<>>
    <3>1. Configured(l)
      BY <2>1, <2>4 DEF DeviceOk
    <3>2. Configured(l)'
      BY <1>1, <2>4, <3>1, OutConfigured
    <3> QED BY <1>2, <2>4, <3>2 DEF DeviceOk
  <2> QED BY <2>2, <2>3, <2>4
<1> QED BY <1>2, <1>3 DEF Devices, DeviceOk

-----------------------------------------------------------------------------
(* A new call, and the devices                                              *)

LEMMA EntersUnset ==
    ASSUME Control, Tables, NEW c \in Cpu, NEW l, NEW r, Enters(c, l, r), l \notin raced', Unset(l)
    PROVE  Unset(l)'
<1>1. /\ l \in Liodn /\ pc[c] = "idle" /\ pc'[c] = r.fn /\ req'[c] = r
      /\ \A d \in Cpu \ {c} : pc'[d] = pc[d] /\ req'[d] = req[d]
      /\ UNCHANGED <<mem, buf, lock, pamu_fspi, tmp, configured, asked>>
      /\ r \in Configs \cup Switches \cup Windowed
  BY EntersFacts
<1>2. r.fn \in {"config_ppaace", "enable", "disable", "config_spaace", "reconfig_subwin", "reconfig_liodn"}
  BY <1>1, Fields
<1>3. ~Owner(c)' /\ pc'[c] # "enable_sync" /\ pc'[c] # "sync"
  BY <1>1, <1>2 DEF Owner
<1>4. \A d \in Cpu \ {c} : (Works(d, l)' <=> Works(d, l)) /\ (Owner(d)' <=> Owner(d))
  BY <1>1 DEF Works, Owner
<1>5. ~Works(c, l)
  BY <1>1 DEF Works
<1> QED BY <1>1, <1>3, <1>4, <1>5 DEF Unset, Prim, IsTo, NothingAsked, Empty, Blank

LEMMA EntersFailed ==
    ASSUME Control, Tables, NEW c \in Cpu, NEW l, NEW r, Enters(c, l, r), l \notin raced', Failed(l)
    PROVE  Failed(l)'
<1>1. /\ l \in Liodn /\ pc[c] = "idle" /\ pc'[c] = r.fn /\ req'[c] = r
      /\ \A d \in Cpu \ {c} : pc'[d] = pc[d] /\ req'[d] = req[d]
      /\ UNCHANGED <<mem, buf, lock, pamu_fspi, tmp, configured, asked>>
      /\ r \in Configs \cup Switches \cup Windowed
  BY EntersFacts
<1>2. r.fn \in {"config_ppaace", "enable", "disable", "config_spaace", "reconfig_subwin", "reconfig_liodn"}
  BY <1>1, Fields
<1>3. ~Owner(c)'
  BY <1>1, <1>2 DEF Owner
<1>4. \A d \in Cpu \ {c} : (Works(d, l)' <=> Works(d, l)) /\ (Owner(d)' <=> Owner(d))
  BY <1>1 DEF Works, Owner
<1> QED BY <1>1, <1>3, <1>4 DEF Failed, Prim, IsTo

LEMMA EntersOwned ==
    ASSUME Control, Tables, NEW c \in Cpu, NEW l, NEW r, Enters(c, l, r), l \notin raced', Owned(l)
    PROVE  Owned(l)'
<1>1. /\ l \in Liodn /\ pc[c] = "idle" /\ pc'[c] = r.fn /\ req'[c] = r
      /\ \A d \in Cpu \ {c} : pc'[d] = pc[d] /\ req'[d] = req[d]
      /\ UNCHANGED <<mem, buf, lock, pamu_fspi, tmp, configured, asked>>
  BY EntersFacts
<1>2. PICK o \in Cpu : /\ Works(o, l) /\ Owner(o) /\ Building(o, l)
                       /\ \A d \in Cpu \ {o} : ~Pending(d, Prim(l)) /\ (Works(d, l) => pc[d] \in Waiting)
  BY DEF Owned
<1>3. o # c /\ pc'[o] = pc[o] /\ tmp'[o] = tmp[o] /\ req'[o] = req[o]
  BY <1>1, <1>2 DEF Works
<1>4. Works(o, l)' /\ Owner(o)'
  BY <1>2, <1>3 DEF Works, Owner
<1>5. Building(o, l)'
  <2> DEFINE e == Prim(l)
  <2>1. \A f : Load(o, e, f)' = Load(o, e, f)
    BY <1>1 DEF Load, Prim
  <2>2. \A S : AFs(o, e, S)' = AFs(o, e, S)
    BY <1>1 DEF AFs, Prim
  <2>3. Pending(o, e)' = Pending(o, e)
    BY <1>1 DEF Pending, Prim
  <2> QED BY <1>1, <1>2, <1>3, <2>1, <2>2, <2>3 DEF Building, Prim, IsTo
<1>6. r.fn = "config_ppaace"
  BY <1>2, <1>3, EntersAlone
<1>7. ASSUME NEW d \in Cpu \ {o} PROVE ~Pending(d, Prim(l))' /\ (Works(d, l)' => pc'[d] \in Waiting)
  <2>1. ~Pending(d, Prim(l))'
    BY <1>1, <1>2 DEF Pending, Prim
  <2>2. CASE d = c
    BY <1>1, <1>6, <2>1, <2>2 DEF Waiting
  <2>3. CASE d # c
    BY <1>1, <1>2, <2>1, <2>3 DEF Works
  <2> QED BY <2>2, <2>3
<1> QED BY <1>1, <1>4, <1>5, <1>7 DEF Owned, NothingAsked, Prim, Waiting

LEMMA EntersConfigured ==
    ASSUME Control, Tables, NEW c \in Cpu, NEW l, NEW r, Enters(c, l, r), l \notin raced', Configured(l)
    PROVE  Configured(l)'
<1>1. /\ l \in Liodn /\ pc[c] = "idle" /\ pc'[c] = r.fn /\ req'[c] = r
      /\ \A d \in Cpu \ {c} : pc'[d] = pc[d] /\ req'[d] = req[d]
      /\ UNCHANGED <<mem, buf, lock, pamu_fspi, tmp, configured, asked>>
      /\ r \in Configs \cup Switches \cup Windowed
  BY EntersFacts
<1>2. r.fn \in {"config_ppaace", "enable", "disable", "config_spaace", "reconfig_subwin", "reconfig_liodn"}
  BY <1>1, Fields
<1>3. \A w \in Window : granted[l][w] \subseteq granted'[l][w]
  BY <1>1, EntersGrants
<1>4. /\ Windows(l)' = Windows(l) /\ Windows(l) \subseteq Window /\ (Single(l)' <=> Single(l))
      /\ \A w : EntryOf(l, w)' = EntryOf(l, w)
  BY <1>1 DEF Windows, HasWindow, Single, EntryOf, First, Prim, Sec
<1>5. \A d \in Cpu : \A w : AtWork(d, l, w)' <=> d # c /\ AtWork(d, l, w)
  BY <1>1, <1>2 DEF AtWork, Target, InWindow, Works, Active
<1>6. \A d \in Cpu : \A w : AtWork(d, l, w) => d # c
  BY <1>1 DEF AtWork, Active
<1>7. buf' \in [Cpu -> Seq(StoreType)]
  BY <1>1 DEF Tables
<1>8. ASSUME NEW w \in Windows(l) PROVE WindowOk(l, w)'
  <2>1. PICK e : e = EntryOf(l, w)
    OBVIOUS
  <2>2. Untouched(e) /\ EntryOf(l, w)' = e /\ w \in Window
    BY <1>1, <1>4, <2>1, StillLeaves
  <2>3. WindowOk(l, w)
    BY DEF Configured
  <2>4. CASE \E d \in Cpu : AtWork(d, l, w)
    <3>1. ASSUME NEW d \in Cpu, AtWork(d, l, w)' PROVE Stage(d, l, w)'
      <4>1. AtWork(d, l, w) /\ d # c
        BY <1>5, <3>1
      <4>2. StageAt(d, l, w, e)
        BY <2>1, <2>3, <2>4, <4>1 DEF WindowOk, Stage
      <4>3. StageAt(d, l, w, e)'
        BY <1>1, <1>3, <1>7, <2>2, <4>1, <4>2, StageKept
      <4> QED BY <2>2, <4>3, AtEntry
    <3> QED BY <1>5, <1>6, <2>4, <3>1 DEF WindowOk
  <2>5. CASE ~\E d \in Cpu : AtWork(d, l, w)
    <3>1. RestAt(l, w, e)
      BY <2>1, <2>3, <2>5 DEF WindowOk, Rest
    <3>2. RestAt(l, w, e)'
      BY <1>1, <1>7, <2>2, <3>1, RestKept
    <3>3. Rest(l, w)'
      BY <2>2, <3>2, AtEntry
    <3> QED BY <1>5, <2>5, <3>3 DEF WindowOk
  <2> QED BY <2>4, <2>5
<1>9. /\ Len(configured[l]) = 1 /\ (Single(l) => asked[l].page[0] # NoPage)
      /\ \A d \in Cpu : Works(d, l) /\ pc[d] = "config_spaace" =>
            asked[l].page[req[d].w] = NoPage /\ (req[d].w = 0 => ~asked[l].v)
      /\ \A d \in Cpu : Works(d, l) /\ pc[d] \in {"reconfig_liodn", "reconfig_subwin"} =>
            asked[l].page[req[d].w] # NoPage
  BY DEF Configured
<1>10. \A d \in Cpu \ {c} : Works(d, l)' => Works(d, l) /\ pc'[d] = pc[d] /\ req'[d] = req[d]
  BY <1>1 DEF Works
<1>11. /\ r.fn = "config_spaace" => asked[l].page[r.w] = NoPage /\ (r.w = 0 => ~asked[l].v)
       /\ r.fn \in {"reconfig_liodn", "reconfig_subwin"} => asked[l].page[r.w] # NoPage
  <2>1. r \in Requests(l)
    BY DEF Enters
  <2> QED BY <1>1, <1>9, <2>1, RequestKinds
<1>12. \A d \in Cpu : Works(d, l)' /\ pc'[d] = "config_spaace" =>
          asked[l].page[req'[d].w] = NoPage /\ (req'[d].w = 0 => ~asked[l].v)
  BY <1>1, <1>9, <1>10, <1>11
<1>13. \A d \in Cpu : Works(d, l)' /\ pc'[d] \in {"reconfig_liodn", "reconfig_subwin"} => asked[l].page[req'[d].w] # NoPage
  BY <1>1, <1>9, <1>10, <1>11
<1> QED BY <1>1, <1>4, <1>8, <1>9, <1>12, <1>13 DEF Configured

LEMMA DevicesEnters ==
    ASSUME Control, Tables, Devices, NEW c \in Cpu, NEW l, NEW r, Enters(c, l, r)
    PROVE  Devices'
<1>1. /\ l \in Liodn /\ l \notin raced /\ r.l = l /\ pc[c] = "idle" /\ pc'[c] = r.fn /\ req'[c] = r
      /\ \A d \in Cpu \ {c} : pc'[d] = pc[d] /\ req'[d] = req[d]
      /\ UNCHANGED <<mem, buf, lock, pamu_fspi, tmp, configured, asked>> /\ raced \subseteq raced'
  BY EntersFacts
<1>2. ASSUME NEW k \in Liodn \ raced' PROVE DeviceOk(k)'
  <2>1. DeviceOk(k)
    BY <1>1 DEF Devices, DeviceOk
  <2>2. CASE k # l
    <3>1. ~Works(c, k) /\ ~Works(c, k)'
      BY <1>1, <2>2 DEF Works
    <3>2. \A w \in Window : granted[k][w] \subseteq granted'[k][w]
      BY EntersGrants
    <3> QED BY <1>1, <2>1, <3>1, <3>2, CallElsewhere
  <2>3. CASE k = l /\ configured[l] = <<>>
    <3>1. Unset(l) \/ Failed(l) \/ Owned(l)
      BY <2>1, <2>3 DEF DeviceOk
    <3>2. (Unset(l) \/ Failed(l) \/ Owned(l))'
      BY <1>2, <2>3, <3>1, EntersUnset, EntersFailed, EntersOwned
    <3> QED BY <1>1, <2>3, <3>2 DEF DeviceOk
  <2>4. CASE k = l /\ configured[l] # <<>>
    <3>1. Configured(l)
      BY <2>1, <2>4 DEF DeviceOk
    <3>2. Configured(l)'
      BY <1>2, <2>4, <3>1, EntersConfigured
    <3> QED BY <1>1, <2>4, <3>2 DEF DeviceOk
  <2> QED BY <2>2, <2>3, <2>4
<1> QED BY <1>2 DEF Devices, DeviceOk

-----------------------------------------------------------------------------
(* A call that returns, and the devices                                     *)

LEMMA ReturnUnset ==
    ASSUME Control, Tables, NEW c \in Cpu, Return(c), NEW l \in Liodn, req[c].l = l, Unset(l)
    PROVE  configured'[l] = configured[l] /\ Unset(l)'
<1> DEFINE r == req[c]
<1>1. /\ r.l = l /\ r \in Configs \cup Switches \cup Windowed
      /\ pc[c] = "sync" /\ buf[c] = <<>> /\ pc'[c] = "idle"
      /\ \A d \in Cpu \ {c} : pc'[d] = pc[d]
      /\ UNCHANGED <<mem, buf, req, tmp>>
      /\ configured'[r.l] = (IF r.fn = "config_ppaace" THEN Append(configured[r.l], r.cnt) ELSE configured[r.l])
      /\ asked' \in [Liodn -> [v : BOOLEAN, page : [Window -> Page \cup {NoPage}]]]
  BY Returns
<1>2. asked'[l].v = (CASE r.fn = "enable" -> TRUE [] r.fn = "config_spaace" /\ r.w = 0 -> TRUE
                                 [] r.fn = "disable" -> FALSE [] OTHER -> asked[l].v)
  BY Returns
<1>3. \A w \in Window : asked'[l].page[w] = IF "rpn" \in DOMAIN r /\ w = r.w THEN r.rpn ELSE asked[l].page[w]
  BY Returns
<1>4. Works(c, l)
  BY <1>1 DEF Works
<1>5. r.fn = "disable"
  BY <1>1, <1>4 DEF Unset
<1>6. "rpn" \notin DOMAIN r
  BY <1>1, <1>5, Fields
<1>7. asked'[l].v = FALSE
  BY <1>2, <1>5
<1>8. asked[l] = NothingAsked
  BY DEF Unset
<1>9. \A w \in Window : asked'[l].page[w] = NoPage
  BY <1>3, <1>6, <1>8 DEF NothingAsked
<1>10. asked'[l] \in [v : BOOLEAN, page : [Window -> Page \cup {NoPage}]]
  BY <1>1
<1>11. asked'[l].page = [w \in Window |-> NoPage]
  BY <1>9, <1>10
<1>12. asked'[l] = NothingAsked
  BY <1>7, <1>10, <1>11 DEF NothingAsked
<1>13. \A d \in Cpu : /\ Works(d, l)' => d # c /\ Works(d, l) /\ pc'[d] = pc[d]
                      /\ d # c => (Works(d, l)' <=> Works(d, l))
                      /\ d # c => (Owner(d)' <=> Owner(d))
  BY <1>1 DEF Works, Owner
<1>14. mem'[Prim(l)] = Empty
  BY <1>1 DEF Unset
<1>15. ASSUME NEW d \in Cpu, Works(d, l)'
       PROVE  ~Owner(d)' /\ pc'[d] # "enable_sync" /\ (pc'[d] = "sync" => req'[d].fn = "disable")
  BY <1>1, <1>13, <1>15 DEF Unset
<1>16. ASSUME NEW d \in Cpu, NEW i \in DOMAIN buf'[d], IsTo(buf'[d][i], Prim(l))
       PROVE  /\ buf'[d][i].f = "af" /\ buf'[d][i].x = Blank
              /\ Works(d, l)' /\ pc'[d] = "sync" /\ req'[d].fn = "disable"
  <2>1. d # c /\ i \in DOMAIN buf[d] /\ IsTo(buf[d][i], Prim(l))
    BY <1>1, <1>16
  <2>2. buf[d][i].f = "af" /\ buf[d][i].x = Blank /\ Works(d, l) /\ pc[d] = "sync" /\ req[d].fn = "disable"
    BY <2>1 DEF Unset
  <2> QED BY <1>1, <1>13, <2>1, <2>2
<1> QED BY <1>1, <1>5, <1>12, <1>14, <1>15, <1>16 DEF Unset, Prim, IsTo, NothingAsked, Empty, Blank

LEMMA ReturnFailed ==
    ASSUME Control, Tables, NEW c \in Cpu, Return(c), NEW l \in Liodn, req[c].l = l, Failed(l)
    PROVE  configured'[l] = configured[l] /\ Failed(l)'
<1>1. /\ pc[c] = "sync" /\ buf[c] = <<>> /\ pc'[c] = "idle"
      /\ \A d \in Cpu \ {c} : pc'[d] = pc[d]
      /\ UNCHANGED <<mem, buf, req, tmp>>
      /\ configured'[l] = (IF req[c].fn = "config_ppaace" THEN Append(configured[l], req[c].cnt) ELSE configured[l])
  BY Returns
<1>2. ~Owner(c) /\ Works(c, l)
  BY <1>1 DEF Failed, Works
<1>3. req[c].fn # "config_ppaace"
  BY <1>1, <1>2 DEF Owner
<1>4. \A d \in Cpu : Works(d, l)' => d # c /\ Works(d, l) /\ (Owner(d)' <=> Owner(d))
  BY <1>1 DEF Works, Owner
<1> QED BY <1>1, <1>3, <1>4 DEF Failed, Prim, IsTo

LEMMA ReturnWaits ==
    ASSUME Control, NEW c \in Cpu, Return(c), NEW l \in Liodn, req[c].l = l, l \notin raced, req[c].fn # "config_ppaace"
    PROVE  \A d \in Cpu : ~Works(d, l)'
<1>1. /\ pc[c] = "sync" /\ pc'[c] = "idle" /\ req' = req
      /\ \A d \in Cpu \ {c} : pc'[d] = pc[d]
  BY Returns
<1>2. Works(c, l)
  BY <1>1 DEF Works
<1>3. \A d \in Cpu : Works(d, l) => d = c
  BY <1>2, WorksAlone
<1> QED BY <1>1, <1>3 DEF Works

(* What the call asked for is in its window's entry.                        *)
LEMMA ReturnConfigured ==
    ASSUME Control, Tables, NEW c \in Cpu, Return(c), NEW l \in Liodn, req[c].l = l, l \notin raced,
           configured[l] # <<>>, Configured(l)
    PROVE  configured'[l] = configured[l] /\ Configured(l)'
<1>1. /\ req[c] \in Configs \cup Switches \cup Windowed
      /\ pc[c] = "sync" /\ buf[c] = <<>> /\ pc'[c] = "idle" /\ mem' = mem /\ buf' = buf /\ req' = req
      /\ configured'[l] = (IF req[c].fn = "config_ppaace" THEN Append(configured[l], req[c].cnt) ELSE configured[l])
      /\ asked' \in [Liodn -> [v : BOOLEAN, page : [Window -> Page \cup {NoPage}]]]
  BY Returns
<1>0. /\ asked'[l] \in [v : BOOLEAN, page : [Window -> Page \cup {NoPage}]]
      /\ asked'[l].v \in BOOLEAN
  BY <1>1
<1>2. Works(c, l) /\ Live(l)
  BY <1>1 DEF Works, Live
<1>3. req[c].fn # "config_ppaace"
  BY <1>1, <1>2, LiveSees DEF Owner
<1>4. configured'[l] = configured[l]
  BY <1>1, <1>3
<1>5. PICK v, e, w0, p0 : v = Target(c) /\ e = EntryOf(l, v) /\ w0 = req[c].w /\ p0 = req[c].rpn
  OBVIOUS
<1>6. /\ v \in Windows(l) /\ v \in Window /\ e \in Entry /\ StageAt(c, l, v, e)
      /\ \A d \in Cpu \ {c} : ~Pending(d, e)
      /\ \A w \in Windows(l) : w # v => Rest(l, w)
  BY <1>1, <1>2, <1>3, <1>5, AtTarget DEF Active
<1>7. \A f : Load(c, e, f) = mem[e][f] /\ ~Pending(c, e)
  BY <1>1, EmptySees
<1>8. /\ InWindow(c) => "rpn" \in DOMAIN req[c] /\ w0 = v /\ p0 \in Page
      /\ ~InWindow(c) => "rpn" \notin DOMAIN req[c] /\ v = 0
      /\ InWindow(c) <=> req[c].fn \in {"config_spaace", "reconfig_subwin", "reconfig_liodn"}
      /\ ~InWindow(c) => req[c].fn \in {"enable", "disable"}
  BY <1>1, <1>3, <1>5, Fields DEF InWindow, Target
<1>9. \A w \in Window : asked'[l].page[w] = IF "rpn" \in DOMAIN req[c] /\ w = w0 THEN p0 ELSE asked[l].page[w]
  <2>1. \A w \in Window : asked'[req[c].l].page[w] = IF "rpn" \in DOMAIN req[c] /\ w = req[c].w THEN req[c].rpn ELSE asked[req[c].l].page[w]
    BY Returns
  <2> QED BY <1>5, <2>1
<1>10. asked'[l].v = (CASE req[c].fn = "enable" -> TRUE [] req[c].fn = "config_spaace" /\ w0 = 0 -> TRUE
                        [] req[c].fn = "disable" -> FALSE [] OTHER -> asked[l].v)
  <2>1. asked'[req[c].l].v = (CASE req[c].fn = "enable" -> TRUE [] req[c].fn = "config_spaace" /\ req[c].w = 0 -> TRUE
                                [] req[c].fn = "disable" -> FALSE [] OTHER -> asked[req[c].l].v)
    BY Returns
  <2> QED BY <1>5, <2>1
<1>11. PICK q, a : q = asked'[l].page[v] /\ a = asked'[l].v /\ a \in BOOLEAN
  BY <1>0
<1>12. q = IF InWindow(c) THEN req[c].rpn ELSE asked[l].page[v]
  BY <1>5, <1>6, <1>8, <1>9, <1>11
<1>13. PICK b : b = CASE req[c].fn = "enable" -> TRUE [] req[c].fn = "disable" -> FALSE
                      [] req[c].fn = "config_spaace" /\ v = 0 -> TRUE [] OTHER -> asked[l].v
  OBVIOUS
<1>14. Load(c, e, "af") = WordOf(l, v, b, q) /\ (q # NoPage => SeesPage(c, e, q))
  <2>1. MadeAt(c, l, v, e)
    BY <1>6 DEF StageAt
  <2> QED BY <1>1, <1>12, <1>13, <2>1 DEF MadeAt
<1>15. v = 0 => b = a
  <2>1. CASE req[c].fn = "enable"
    BY <1>10, <1>11, <1>13, <2>1
  <2>2. CASE req[c].fn = "disable"
    BY <1>10, <1>11, <1>13, <2>2
  <2>3. CASE req[c].fn = "config_spaace"
    BY <1>8, <1>10, <1>11, <1>13, <2>3
  <2>4. CASE req[c].fn \in {"reconfig_subwin", "reconfig_liodn"}
    BY <1>10, <1>11, <1>13, <2>4
  <2> QED BY <1>8, <2>1, <2>2, <2>3, <2>4
<1>16. WordOf(l, v, b, q) = WordOf(l, v, a, q)
  BY <1>15 DEF WordOf
<1>17. mem'[e].af = WordOf(l, v, a, q) /\ (q # NoPage => mem'[e].twbah = q /\ mem'[e].twbal = q)
  BY <1>1, <1>7, <1>14, <1>16 DEF SeesPage
<1>18. RestAt(l, v, e)'
  <2>1. \A d \in Cpu : ~Pending(d, e)'
    BY <1>1, <1>6, <1>7 DEF Pending
  <2>2. WordOf(l, v, a, q)' = WordOf(l, v, a, q)
    BY <1>4, WordSame
  <2>3. WordOf(l, v, asked[l].v, asked[l].page[v])' = WordOf(l, v, a, q)
    BY <1>4, <1>11, WordSame
  <2> QED BY <1>11, <1>17, <2>1, <2>3 DEF RestAt
<1>19. /\ Windows(l)' = Windows(l) /\ Windows(l) \subseteq Window /\ (Single(l)' <=> Single(l))
       /\ \A w : EntryOf(l, w)' = EntryOf(l, w)
  BY <1>1, <1>4 DEF Windows, HasWindow, Single, EntryOf, First, Prim, Sec
<1>20. ASSUME NEW w \in Windows(l) PROVE Rest(l, w)'
  <2>1. CASE w = v
    BY <1>5, <1>18, <1>19, <2>1, AtEntry
  <2>2. CASE w # v
    <3>1. PICK g : g = EntryOf(l, w)
      OBVIOUS
    <3>2. RestAt(l, w, g) /\ w \in Window
      BY <1>6, <1>19, <2>2, <3>1 DEF Rest
    <3>3. asked'[l].page[w] = asked[l].page[w]
      BY <1>8, <1>9, <2>2, <3>2
    <3>4. w = 0 => asked'[l].v = asked[l].v
      <4> SUFFICES ASSUME w = 0 PROVE asked'[l].v = asked[l].v
        OBVIOUS
      <4>1. InWindow(c) /\ w0 # 0
        BY <1>8, <2>2
      <4> QED BY <1>8, <1>10, <4>1
    <3>5. buf' \in [Cpu -> Seq(StoreType)] /\ Untouched(g)
      BY <1>1, StillLeaves DEF Tables
    <3>6. RestAt(l, w, g)'
      BY <1>4, <3>2, <3>3, <3>4, <3>5, RestKept
    <3> QED BY <1>19, <3>1, <3>6, AtEntry
  <2> QED BY <2>1, <2>2
<1>21. \A d \in Cpu : ~Works(d, l)'
  BY <1>3, ReturnWaits
<1>22. \A w \in Windows(l) : WindowOk(l, w)'
  <2>1. \A w : \A d \in Cpu : ~AtWork(d, l, w)'
    BY <1>21 DEF AtWork
  <2> QED BY <1>20, <2>1 DEF WindowOk
<1>23. Len(configured'[l]) = 1
  BY <1>4 DEF Configured
<1>24. Single(l)' => asked'[l].page[0] # NoPage
  <2>1. Single(l) => asked[l].page[0] # NoPage
    BY DEF Configured
  <2> QED BY <1>8, <1>9, <1>19, <2>1, Zero, NoPageAssumption
<1> QED BY <1>4, <1>19, <1>21, <1>22, <1>23, <1>24 DEF Configured

(* A configuration that succeeds leaves its window granted, not valid; its  *)
(* subwindows are empty.                                                    *)
LEMMA ReturnOwned ==
    ASSUME Control, Tables, NEW c \in Cpu, Return(c), NEW l \in Liodn, req[c].l = l, l \notin raced,
           DeviceOk(l), req[c].fn = "config_ppaace"
    PROVE  configured'[l] # <<>> /\ Configured(l)'
<1>1. /\ pc[c] = "sync" /\ buf[c] = <<>> /\ pc'[c] = "idle" /\ mem' = mem /\ buf' = buf /\ req' = req
      /\ \A d \in Cpu \ {c} : pc'[d] = pc[d]
      /\ asked' \in [Liodn -> [v : BOOLEAN, page : [Window -> Page \cup {NoPage}]]]
      /\ tmp' = tmp
  BY Returns
<1>2. PICK n, p, t : n = req[c].cnt /\ p = req[c].rpn /\ t = tmp[c]
  OBVIOUS
<1>3. /\ Owner(c) /\ configured[l] = <<>> /\ configured'[l] = Append(<<>>, n)
      /\ configured'[l] # <<>> /\ configured'[l][1] = n
      /\ n \in Nat /\ (n > 0 => Holds(c) /\ First(l) = t)
      /\ \A d \in Cpu : ~Pending(d, Prim(l)) /\ (d # c /\ Works(d, l) => pc[d] \in Waiting)
  BY <1>2, ReturnsOwner
<1>4. Building(c, l) /\ asked[l] = NothingAsked /\ req[c] \in Configs
  BY <1>3, OwnerOwned
<1>5. /\ n \in Counts /\ (n = 0 => "rpn" \in DOMAIN req[c] /\ req[c].w = 0 /\ p \in Page)
      /\ n # 0 => "rpn" \notin DOMAIN req[c]
  BY <1>2, <1>4, Fields
<1>6. /\ n = 0 => /\ mem[Prim(l)].af = [Taken EXCEPT !.ap = TRUE]
                  /\ mem[Prim(l)].twbah = p /\ mem[Prim(l)].twbal = p
      /\ n # 0 => mem[Prim(l)].af = [Taken EXCEPT !.mw = TRUE]
  <2>1. PICK x, y : x = [Taken EXCEPT !.ap = TRUE] /\ y = [Taken EXCEPT !.mw = TRUE]
    OBVIOUS
  <2>2. /\ Load(c, Prim(l), "af") = mem[Prim(l)].af /\ Load(c, Prim(l), "twbah") = mem[Prim(l)].twbah
        /\ Load(c, Prim(l), "twbal") = mem[Prim(l)].twbal
    BY <1>1, EmptySees
  <2>3. \/ /\ req[c].cnt = 0 /\ Load(c, Prim(l), "af") = x
           /\ Load(c, Prim(l), "twbah") = req[c].rpn /\ Load(c, Prim(l), "twbal") = req[c].rpn
        \/ req[c].cnt > 0 /\ Load(c, Prim(l), "af") = y
    BY <1>1, <1>4, <2>1 DEF Building
  <2>4. /\ n = 0 => mem[Prim(l)].af = x /\ mem[Prim(l)].twbah = p /\ mem[Prim(l)].twbal = p
        /\ n # 0 => mem[Prim(l)].af = y
    BY <1>2, <1>3, <2>2, <2>3
  <2> QED BY <2>1, <2>4
<1>7. asked'[l].v = FALSE /\ \A w \in Window : asked'[l].page[w] = IF n = 0 /\ w = 0 THEN p ELSE NoPage
  <2>1. asked'[req[c].l].v = (CASE req[c].fn = "enable" -> TRUE [] req[c].fn = "config_spaace" /\ req[c].w = 0 -> TRUE
                                [] req[c].fn = "disable" -> FALSE [] OTHER -> asked[req[c].l].v)
    BY Returns
  <2>2. \A w \in Window : asked'[req[c].l].page[w] = IF "rpn" \in DOMAIN req[c] /\ w = req[c].w THEN req[c].rpn ELSE asked[req[c].l].page[w]
    BY Returns
  <2>3. asked[l].v = FALSE /\ \A w \in Window : asked[l].page[w] = NoPage
    BY <1>4 DEF NothingAsked
  <2>4. asked'[l].v = FALSE
    BY <2>1, <2>3
  <2>5. \A w \in Window : asked'[l].page[w] = IF n = 0 /\ w = 0 THEN p ELSE NoPage
    BY <1>2, <1>5, <2>2, <2>3
  <2> QED BY <2>4, <2>5
<1>8. \A d \in Cpu : Works(d, l)' => pc'[d] \in Waiting
  BY <1>1, <1>3 DEF Works
<1>9. Len(configured'[l]) = 1 /\ (Single(l)' <=> n = 0) /\ (Multi(l)' <=> n # 0)
  <2>1. Len(configured'[l]) = 1
    BY <1>3
  <2> QED BY <1>3, <2>1 DEF Single, Multi
<1>10. Single(l)' => asked'[l].page[0] # NoPage
  BY <1>5, <1>7, <1>9, Zero, NoPageAssumption
<1>11. RestAt(l, 0, Prim(l))'
  <2>1. \A d \in Cpu : ~Pending(d, Prim(l))'
    BY <1>1, <1>3 DEF Pending, Prim
  <2>2. mem'[Prim(l)].af = WordOf(l, 0, asked[l].v, asked[l].page[0])'
    <3>1. CASE n = 0
      <4>1. asked'[l].v = FALSE /\ asked'[l].page[0] # NoPage /\ ~Multi(l)'
        BY <1>5, <1>7, <1>9, <3>1, Zero, NoPageAssumption DEF Multi
      <4>2. mem'[Prim(l)].af = [v |-> FALSE, ap |-> TRUE, mw |-> FALSE, wse |-> TRUE]
        BY <1>1, <1>6, <3>1 DEF Taken, Blank
      <4>3. PICK q, k : q = asked'[l].page[0] /\ k = configured'[l][1]
        OBVIOUS
      <4>4. WordOf(l, 0, asked[l].v, asked[l].page[0])' = [v |-> asked'[l].v, ap |-> q # NoPage, mw |-> k > 0, wse |-> TRUE]
        BY <4>3 DEF WordOf, Multi
      <4>5. (q # NoPage) = TRUE /\ (k > 0) = FALSE
        BY <1>3, <3>1, <4>1, <4>3
      <4> QED BY <4>1, <4>2, <4>4, <4>5
    <3>2. CASE n # 0
      BY <1>1, <1>6, <1>7, <1>9, <3>2, Zero DEF WordOf, Taken, Blank
    <3> QED BY <3>1, <3>2
  <2>3. asked'[l].page[0] # NoPage => mem'[Prim(l)].twbah = asked'[l].page[0] /\ mem'[Prim(l)].twbal = asked'[l].page[0]
    BY <1>1, <1>6, <1>7, Zero
  <2> QED BY <2>1, <2>2, <2>3 DEF RestAt, Prim
<1>12. ASSUME NEW w \in Windows(l)', w # 0 PROVE Rest(l, w)'
  <2>1. w \in Window /\ w \in Nat /\ w < n
    BY <1>3, <1>12, Zero DEF Windows, HasWindow
  <2>2. n > 0 /\ Holds(c) /\ First(l) = t /\ w > 0
    BY <1>3, <1>12, <2>1
  <2>3. t \in 0 .. NSpaace /\ pamu_fspi \in 0 .. NSpaace /\ t + n - 1 <= pamu_fspi
    BY <1>2, <2>2 DEF Control, Tables, Claims
  <2>4. PICK i : i = t + w - 1
    OBVIOUS
  <2>5. i \in 0 .. NSpaace - 1 /\ i \in t .. t + n - 2
    BY <1>3, <2>1, <2>2, <2>3, <2>4, NSpaaceAssumption
  <2>6. EntryOf(l, w)' = Sec(i)
    <3>1. First(l)' = t
      BY <1>1, <2>2 DEF First, Prim
    <3> QED BY <1>12, <2>4, <3>1 DEF EntryOf, Sec
  <2>7. mem[Sec(i)] = Empty
    BY <1>2, <2>2, <2>5 DEF Tables, Fresh
  <2>8. \A d \in Cpu : ~Pending(d, Sec(i))
    BY <1>2, <2>2, <2>5, OutHanded
  <2>9. asked'[l].page[w] = NoPage
    BY <1>7, <1>12, <2>1
  <2>10. mem'[Sec(i)].af = WordOf(l, w, asked[l].v, asked[l].page[w])'
    <3>1. mem'[Sec(i)].af = [v |-> FALSE, ap |-> FALSE, mw |-> FALSE, wse |-> FALSE]
      BY <1>1, <2>7 DEF Empty
    <3> QED BY <1>12, <2>9, <3>1 DEF WordOf
  <2>11. \A d \in Cpu : ~Pending(d, Sec(i))'
    BY <1>1, <2>8 DEF Pending, Sec
  <2>12. RestAt(l, w, Sec(i))'
    BY <2>9, <2>10, <2>11 DEF RestAt, Sec
  <2> QED BY <2>6, <2>12 DEF Rest
<1>13. EntryOf(l, 0)' = Prim(l)
  BY DEF EntryOf, Prim
<1>14. ASSUME NEW w \in Windows(l)' PROVE WindowOk(l, w)'
  <2>1. \A d \in Cpu : ~AtWork(d, l, w)'
    BY <1>8 DEF AtWork, Active, Waiting
  <2>2. Rest(l, w)'
    BY <1>11, <1>12, <1>13 DEF Rest
  <2> QED BY <2>1, <2>2 DEF WindowOk
<1> QED BY <1>3, <1>8, <1>9, <1>10, <1>14 DEF Configured, Waiting

LEMMA DevicesReturn ==
    ASSUME Control, Tables, Devices, NEW c \in Cpu, Return(c)
    PROVE  Devices'
<1>1. PICK l : l = req[c].l
  OBVIOUS
<1>2. /\ l \in Liodn /\ pc[c] = "sync" /\ pc'[c] = "idle" /\ raced' = raced
      /\ \A d \in Cpu \ {c} : pc'[d] = pc[d]
      /\ UNCHANGED <<mem, buf, req, tmp, granted>>
      /\ \A k \in Liodn \ {l} : configured'[k] = configured[k] /\ asked'[k] = asked[k]
  BY <1>1, Returns
<1>3. ASSUME NEW k \in Liodn \ raced PROVE DeviceOk(k)'
  <2>1. DeviceOk(k)
    BY DEF Devices, DeviceOk
  <2>2. CASE k # l
    <3>1. ~Works(c, k) /\ ~Works(c, k)'
      BY <1>1, <1>2, <2>2 DEF Works
    <3>2. \A d \in Cpu \ {c} : pc'[d] = pc[d] /\ req'[d] = req[d]
      BY <1>2
    <3> QED BY <1>2, <2>1, <2>2, <3>1, <3>2, CallElsewhere
  <2>3. CASE k = l /\ configured[l] # <<>>
    <3>1. Configured(l)
      BY <2>1, <2>3 DEF DeviceOk
    <3>2. configured'[l] = configured[l] /\ Configured(l)'
      BY <1>1, <1>3, <2>3, <3>1, ReturnConfigured
    <3> QED BY <2>3, <3>2 DEF DeviceOk
  <2>4. CASE k = l /\ req[c].fn = "config_ppaace"
    BY <1>1, <1>3, <2>1, <2>4, ReturnOwned DEF DeviceOk
  <2>5. CASE k = l /\ configured[l] = <<>> /\ req[c].fn # "config_ppaace"
    <3>1. Unset(l) \/ Failed(l) \/ Owned(l)
      BY <2>1, <2>5 DEF DeviceOk
    <3>2. CASE Unset(l)
      BY <1>1, <2>5, <3>2, ReturnUnset DEF DeviceOk
    <3>3. CASE Failed(l)
      BY <1>1, <2>5, <3>3, ReturnFailed DEF DeviceOk
    <3>4. CASE Owned(l)
      <4>1. PICK o \in Cpu : Works(o, l) /\ Owner(o) /\ \A d \in Cpu \ {o} : Works(d, l) => pc[d] \in Waiting
        BY <3>4 DEF Owned
      <4>2. o # c /\ Works(c, l)
        BY <1>1, <1>2, <2>5, <4>1 DEF Owner, Works
      <4> QED BY <1>2, <4>1, <4>2 DEF Waiting
    <3> QED BY <3>1, <3>2, <3>3, <3>4
  <2> QED BY <2>3, <2>4, <2>5, <2>2
<1> QED BY <1>2, <1>3 DEF Devices, DeviceOk

-----------------------------------------------------------------------------
(* The invariant                                                            *)

LEMMA DevicesInit == ASSUME Init PROVE Devices
<1>1. \A l \in Liodn : Prim(l) \in Entry /\ mem[Prim(l)] = Empty
  BY Entries DEF Init
<1>2. \A l \in Liodn : configured[l] = <<>> /\ asked[l] = NothingAsked
  BY DEF Init, NothingAsked
<1>3. \A c \in Cpu : pc[c] = "idle" /\ buf[c] = <<>>
  BY DEF Init
<1>4. \A l \in Liodn : \A c \in Cpu : ~Works(c, l) /\ \A i \in DOMAIN buf[c] : FALSE
  BY <1>3 DEF Works
<1>5. \A l \in Liodn : Unset(l)
  BY <1>1, <1>2, <1>4 DEF Unset
<1> QED BY <1>2, <1>5 DEF Devices

LEMMA DevicesStep ==
    ASSUME Control, Tables, Devices, NEW c \in Cpu, Step(c) PROVE Devices'
<1>1. ASSUME Call(c) PROVE Devices'
  <2>1. PICK l \in Liodn \ raced : \E r \in Requests(l) : Entered(c, r, r.fn)
    BY <1>1 DEF Call
  <2>2. PICK r \in Requests(l) : Entered(c, r, r.fn)
    BY <2>1
  <2>3. Enters(c, l, r)
    BY <2>2 DEF Enters
  <2> QED BY <2>3, DevicesEnters
<1> QED BY <1>1, DevicesAct, DevicesDrain, DevicesReturn DEF Step

(* Where cores are in their calls, what the tables hold, and what each      *)
(* device's entries and waiting stores say of what its calls asked for, are *)
(* kept by every step.                                                      *)
THEOREM PamuInvariance == Spec => []PamuInv
<1>1. Init => PamuInv
  BY ControlInit, TablesInit, DevicesInit DEF PamuInv
<1>2. PamuInv /\ [Next]_vars => PamuInv'
  <2> SUFFICES ASSUME PamuInv, [Next]_vars PROVE PamuInv'
    OBVIOUS
  <2>1. Control /\ Tables /\ Devices
    BY DEF PamuInv
  <2>2. CASE Next
    <3>1. PICK c \in Cpu : Step(c)
      BY <2>2 DEF Next
    <3> QED BY <2>1, <3>1, ControlStep, TablesStep, DevicesStep DEF PamuInv
  <2>3. CASE UNCHANGED vars
    <3>1. UNCHANGED <<mem, buf, lock, pamu_fspi, pc, req, tmp, calls, granted, raced, configured, asked>>
      BY <2>3 DEF vars, client, outcome
    <3>2. Control'
      BY <2>1, <3>1 DEF Control, CallOk, Solo
    <3>3. Tables'
      <4>1. mem' \in [Entry -> EntryType] /\ buf' \in [Cpu -> Seq(StoreType)]
        BY <2>1, <3>1 DEF Tables
      <4>2. /\ \A c : (InWindow(c)' <=> InWindow(c)) /\ (Holds(c)' <=> Holds(c))
            /\ \A c, l : (Works(c, l)' <=> Works(c, l)) /\ (Owner(c)' <=> Owner(c))
            /\ \A c, e : Pending(c, e)' <=> Pending(c, e)
            /\ \A l : First(l)' = First(l) /\ (Multi(l)' <=> Multi(l))
            /\ \A l, w : EntryOf(l, w)' = EntryOf(l, w)
        BY <3>1 DEF InWindow, Holds, Works, Owner, Pending, IsTo, First, Multi, EntryOf, Prim, Sec
      <4>3. \A l : Live(l)' <=> Live(l)
        BY <3>1, <4>2 DEF Live
      <4>4. ASSUME NEW l \in Liodn, Live(l)' PROVE Settled(l)'
        <5>1. Settled(l)
          BY <2>1, <4>3, <4>4 DEF Tables
        <5> QED BY <3>1, <4>2, <5>1 DEF Settled, IsTo, Prim
      <4>5. \A c \in Cpu : InWindow(c)' => req'[c].w = 0 \/ req'[c].w < configured'[req'[c].l][1]
        BY <2>1, <3>1, <4>2 DEF Tables
      <4>6. \A l : LiveMulti(l)' <=> LiveMulti(l)
        BY <4>2, <4>3 DEF LiveMulti
      <4>7. Claims'
        BY <2>1, <3>1, <4>2, <4>6 DEF Tables, Claims
      <4>8. Fresh'
        BY <2>1, <3>1, <4>2 DEF Tables, Fresh, Sec, Empty
      <4>9. Origins'
        BY <2>1, <3>1, <4>2 DEF Tables, Origins, Active, Sec
      <4> QED BY <4>1, <4>4, <4>5, <4>7, <4>8, <4>9 DEF Tables
    <3>4. ASSUME NEW l \in Liodn \ raced PROVE DeviceOk(l)'
      <4>1. DeviceOk(l) /\ Untouched(Prim(l)) /\ \A e : Untouched(e)
        BY <2>1, <3>1, StillLeaves DEF Devices, DeviceOk
      <4>2. SameCalls(l)
        BY <3>1 DEF SameCalls, Works
      <4> QED BY <2>1, <3>1, <4>1, <4>2, DeviceKept DEF Tables
    <3> QED BY <3>1, <3>2, <3>3, <3>4 DEF PamuInv, Devices, DeviceOk
  <2> QED BY <2>2, <2>3
<1> QED BY <1>1, <1>2, PTL DEF Spec

-----------------------------------------------------------------------------
(* What it says                                                             *)

(* However many cores configure a device at once, one of them succeeds at   *)
(* most: the window size is looked at and set under pamu_lock               *)
(* (pamu.c:324-338).                                                        *)
THEOREM OneConfigurationSucceeds == Spec => []ConfiguredOnce
<1>1. PamuInv => ConfiguredOnce
  <2> SUFFICES ASSUME PamuInv, NEW l \in Liodn \ raced PROVE Len(configured[l]) <= 1
    BY DEF ConfiguredOnce
  <2>1. configured[l] # <<>> => Configured(l)
    BY DEF PamuInv, Devices
  <2>2. PICK n \in Nat : n = Len(configured[l])
    <3>1. configured[l] \in Seq(Counts)
      BY DEF PamuInv, Control
    <3> QED BY <3>1
  <2>3. n = 1 \/ n = 0
    BY <2>1, <2>2 DEF Configured
  <2>4. n <= 1
    BY <2>3
  <2> QED BY <2>2, <2>4, Zenon
<1> QED BY <1>1, PamuInvariance, PTL

(* The secondary entries of a device lie inside the table, and no two       *)
(* devices share one: the compare_and_swap of pamu_get_fspi_and_allocate    *)
(* hands out each once (pamu.c:364-378, 567-577).                           *)
THEOREM EntriesAreSound == Spec => []EntriesSound
<1>1. ASSUME PamuInv PROVE TypeOK
  <2>1. ASSUME NEW e \in Entry
        PROVE  /\ mem[e].af \in Word /\ {mem[e].twbah, mem[e].twbal} \subseteq Page \cup {NoPage}
               /\ mem[e].fspi \in 0 .. NSpaace
    <3>1. mem[e] \in EntryType
      BY <1>1 DEF PamuInv, Tables
    <3> QED BY <3>1 DEF EntryType
  <2> QED BY <1>1, <2>1 DEF TypeOK, PamuInv, Control
<1>2. ASSUME PamuInv PROVE SubwindowsDisjoint
  <2>1. Control /\ Tables
    BY <1>2 DEF PamuInv
  <2>2. ASSUME NEW l \in Liodn \ raced, Subentries(l) # {}
        PROVE  /\ LiveMulti(l) /\ Subentries(l) = First(l) .. First(l) + configured[l][1] - 2
               /\ First(l) \in Nat /\ configured[l][1] \in Nat /\ First(l) + configured[l][1] - 1 <= NSpaace
    <3>1. configured[l] # <<>> /\ ~Single(l)
      BY <2>2 DEF Subentries
    <3>2. configured[l] \in Seq(Counts) /\ Prim(l) \in Entry
      BY <2>1, Entries DEF Control
    <3>3. configured[l][1] \in Nat /\ configured[l][1] # 0
      BY <3>1, <3>2, CountWindow DEF Single
    <3>4. First(l) \in Nat
      BY <2>1, <3>2 DEF Tables, EntryType, First
    <3>5. LiveMulti(l)
      BY <3>1, <3>3 DEF LiveMulti, Live, Multi
    <3>6. First(l) + configured[l][1] - 1 <= pamu_fspi /\ pamu_fspi \in 0 .. NSpaace
      BY <2>1, <3>5 DEF Control, Tables, Claims
    <3>7. First(l) + configured[l][1] - 1 <= NSpaace
      BY <3>3, <3>4, <3>6, NSpaaceAssumption
    <3> QED BY <3>1, <3>3, <3>4, <3>5, <3>7 DEF Subentries, First, Prim
  <2>3. ASSUME NEW l \in Liodn \ raced PROVE Subentries(l) \subseteq 0 .. NSpaace - 1
    <3>1. CASE Subentries(l) = {}
      BY <3>1
    <3>2. CASE Subentries(l) # {}
      <4>1. PICK f, n : f = First(l) /\ n = configured[l][1]
        OBVIOUS
      <4>2. f \in Nat /\ n \in Nat /\ f + n - 1 <= NSpaace /\ Subentries(l) = f .. f + n - 2
        BY <2>2, <3>2, <4>1
      <4>3. \A i \in f .. f + n - 2 : i \in 0 .. NSpaace - 1
        BY <4>2, NSpaaceAssumption
      <4> QED BY <4>2, <4>3
    <3> QED BY <3>1, <3>2
  <2>4. ASSUME NEW l \in Liodn \ raced, NEW k \in Liodn \ (raced \cup {l}) PROVE Subentries(l) \cap Subentries(k) = {}
    <3>1. CASE Subentries(l) = {} \/ Subentries(k) = {}
      BY <3>1
    <3>2. CASE Subentries(l) # {} /\ Subentries(k) # {}
      <4>1. /\ LiveMulti(l) /\ Subentries(l) = First(l) .. First(l) + configured[l][1] - 2
            /\ LiveMulti(k) /\ Subentries(k) = First(k) .. First(k) + configured[k][1] - 2
            /\ First(l) \in Nat /\ configured[l][1] \in Nat /\ First(k) \in Nat /\ configured[k][1] \in Nat
        BY <2>2, <3>2
      <4>2. Apart(First(l), configured[l][1], First(k), configured[k][1])
        BY <2>1, <4>1 DEF Tables, Claims
      <4>3. PICK f, n, g, m : f = First(l) /\ n = configured[l][1] /\ g = First(k) /\ m = configured[k][1]
        OBVIOUS
      <4>4. /\ f \in Nat /\ n \in Nat /\ g \in Nat /\ m \in Nat /\ Apart(f, n, g, m)
            /\ Subentries(l) = f .. f + n - 2 /\ Subentries(k) = g .. g + m - 2
        BY <4>1, <4>2, <4>3
      <4>5. \A i \in f .. f + n - 2 : i \notin g .. g + m - 2
        BY <4>4 DEF Apart
      <4> QED BY <4>4, <4>5
    <3> QED BY <3>1, <3>2
  <2> QED BY <2>3, <2>4 DEF SubwindowsDisjoint
<1>3. PamuInv => EntriesSound
  BY <1>1, <1>2 DEF EntriesSound
<1> QED BY <1>3, PamuInvariance, PTL

(* The entry of a configured device's primary window tells whether the      *)
(* device has subwindows, and an entry that grants access holds one page.   *)
LEMMA WindowGrants ==
    ASSUME PamuInv, NEW l \in Liodn \ raced, configured[l] # <<>>, NEW w \in Windows(l), NEW e, e = EntryOf(l, w)
    PROVE  /\ w = 0 => mem[e].af.mw = Multi(l)
           /\ Usable(e) => mem[e].twbah = mem[e].twbal /\ mem[e].twbah \in granted[l][w]
<1>1. Control /\ Tables /\ Configured(l) /\ WindowOk(l, w) /\ w \in Window
  BY DEF PamuInv, Devices, Configured, Windows
<1>2. CASE \E c \in Cpu : AtWork(c, l, w)
  <2>1. PICK c \in Cpu : StageAt(c, l, w, e)
    BY <1>1, <1>2 DEF WindowOk, Stage
  <2> QED BY <2>1 DEF StageAt, Usable
<1>3. CASE ~\E c \in Cpu : AtWork(c, l, w)
  <2>1. RestAt(l, w, e)
    BY <1>1, <1>3 DEF WindowOk, Rest
  <2>2. PICK v, p : v = asked[l].v /\ p = asked[l].page[w]
    OBVIOUS
  <2>3. v \in BOOLEAN /\ (p # NoPage => p \in granted[l][w])
    BY <1>1, <2>2, AskedIs
  <2>4. mem[e].af = WordOf(l, w, v, p) /\ (p # NoPage => mem[e].twbah = p /\ mem[e].twbal = p)
    BY <2>1, <2>2 DEF RestAt
  <2>5. (w = 0 => mem[e].af.mw = Multi(l)) /\ mem[e].af.ap = Given(p)
    BY <2>3, <2>4, WordOfIs
  <2> QED BY <2>3, <2>4, <2>5, GivenIs DEF Usable
<1> QED BY <1>2, <1>3

(* What the PAMU reads for a window of a configured device.                 *)
LEMMA WindowReached ==
    ASSUME PamuInv, NEW l \in Liodn \ raced, configured[l] # <<>>, NEW w \in Windows(l), NEW e, e = EntryOf(l, w)
    PROVE  /\ mem[Prim(l)].af.v /\ Usable(e) => Reached(l, w) = {Translation(e)}
           /\ ~(mem[Prim(l)].af.v /\ Usable(e)) => Reached(l, w) = {}
<1>1. Control /\ Tables /\ w \in Window /\ 0 \in Windows(l)
  BY Zero DEF PamuInv, Windows
<1>2. EntryOf(l, 0) = Prim(l)
  BY DEF EntryOf
<1>3. mem[Prim(l)].af.mw = Multi(l)
  BY <1>1, <1>2, WindowGrants
<1>4. CASE w = 0
  <2>1. e = Prim(l) /\ ~(w > 0)
    BY <1>2, <1>4
  <2> QED BY <2>1 DEF Reached, Usable, Prim
<1>5. CASE w # 0
  <2>1. w > 0 /\ Multi(l)
    <3>1. w \in Nat /\ w < configured[l][1]
      BY <1>5, Zero DEF Windows, HasWindow
    <3>2. configured[l] \in Seq(Counts)
      BY <1>1 DEF Control
    <3>3. configured[l][1] \in Nat
      BY <3>2, CountWindow
    <3> QED BY <1>5, <3>1, <3>3 DEF Multi
  <2>2. e = Sec(First(l) + w - 1)
    BY <1>5 DEF EntryOf
  <2>3. mem[Prim(l)].af.mw
    BY <1>3, <2>1
  <2> QED BY <2>1, <2>2, <2>3 DEF Reached, Usable, Prim, Sec, First
<1> QED BY <1>4, <1>5

(* At no moment of a configuration, a move or an enable does a device reach *)
(* a page that was not granted to that window: not a torn page number, nor  *)
(* another device's subwindow.  The lwsync of pamu_reconfig_liodn and       *)
(* pamu_config_spaace, and the reservation of secondary entries, are what   *)
(* it rests on (pamu.c:403-463, 476-498, 567-577).                          *)
THEOREM OnlyGranted == Spec => []OnlyGrantedPages
<1>1. ASSUME PamuInv, NEW l \in Liodn \ raced, NEW w \in Windows(l), NEW t \in Reached(l, w)
      PROVE  t[1] = t[2] /\ t[1] \in granted[l][w]
  <2>1. CASE configured[l] # <<>>
    <3>1. PICK e : e = EntryOf(l, w)
      OBVIOUS
    <3>2. Usable(e) /\ t = Translation(e)
      BY <1>1, <2>1, <3>1, WindowReached
    <3>3. mem[e].twbah = mem[e].twbal /\ mem[e].twbah \in granted[l][w]
      BY <1>1, <2>1, <3>1, <3>2, WindowGrants
    <3> QED BY <3>2, <3>3 DEF Translation
  <2>2. CASE configured[l] = <<>>
    <3>1. w = 0
      BY <2>2 DEF Windows, HasWindow
    <3>2. mem[Prim(l)].af.v = FALSE \/ mem[Prim(l)].af.ap = FALSE
      <4>1. Unset(l) \/ Failed(l) \/ Owned(l)
        BY <1>1, <2>2 DEF PamuInv, Devices
      <4>2. CASE Unset(l)
        BY <4>2 DEF Unset, Empty
      <4>3. CASE Failed(l)
        BY <4>3, DeadWords DEF Failed
      <4>4. CASE Owned(l)
        BY <4>4 DEF Owned, Building
      <4> QED BY <4>1, <4>2, <4>3, <4>4
    <3>3. Reached(l, 0) = {}
      BY <3>2 DEF Reached, Prim
    <3> QED BY <1>1, <3>1, <3>3
  <2> QED BY <2>1, <2>2
<1>2. PamuInv => OnlyGrantedPages
  BY <1>1 DEF OnlyGrantedPages
<1> QED BY <1>2, PamuInvariance, PTL

(* Once its calls have returned a device reaches exactly the pages they     *)
(* asked for, and none when the last of them disabled it: the sync that     *)
(* ends every call leaves none of its stores behind (pamu.c:107, 384-387).  *)
THEOREM WhatReturnedIsInForce == Spec => []ReturnedIsInForce
<1>1. ASSUME PamuInv, NEW l \in Liodn \ raced, BusyWith(l) = {}, configured[l] # <<>>, NEW w \in Windows(l)
      PROVE  LET p == asked[l].page[w] IN
             Reached(l, w) = IF asked[l].v /\ p # NoPage THEN {<<p, p>>} ELSE {}
  <2>1. Control /\ Configured(l) /\ w \in Window /\ 0 \in Windows(l) /\ 0 \in Window
    BY <1>1, Zero DEF PamuInv, Devices, Windows
  <2>2. \A x : \A c \in Cpu : ~AtWork(c, l, x)
    BY <1>1 DEF BusyWith, AtWork, Works
  <2>3. \A x \in Windows(l) : Rest(l, x)
    BY <2>1, <2>2 DEF Configured, WindowOk
  <2>4. PICK e, v, p, q : e = EntryOf(l, w) /\ v = asked[l].v /\ p = asked[l].page[w] /\ q = asked[l].page[0]
    OBVIOUS
  <2>5. v \in BOOLEAN
    BY <2>1, <2>4, AskedIs
  <2>6. mem[e].af = WordOf(l, w, v, p) /\ (p # NoPage => mem[e].twbah = p /\ mem[e].twbal = p)
    BY <2>3, <2>4 DEF Rest, RestAt
  <2>7. mem[Prim(l)].af = WordOf(l, 0, v, q)
    BY <2>1, <2>3, <2>4 DEF Rest, RestAt, EntryOf
  <2>8. mem[Prim(l)].af.v = v
    BY <2>5, <2>7, WordOfIs
  <2>9. mem[e].af.ap = Given(p) /\ (w = 0 => mem[e].af.v = v) /\ (w # 0 => mem[e].af.v = Given(p))
    BY <2>5, <2>6, WordOfIs
  <2>10. Given(p) \in BOOLEAN /\ (Given(p) <=> p # NoPage)
    BY GivenIs
  <2>11. v /\ p # NoPage => Reached(l, w) = {Translation(e)} /\ Translation(e) = <<p, p>>
    <3> SUFFICES ASSUME v, p # NoPage PROVE Reached(l, w) = {Translation(e)} /\ Translation(e) = <<p, p>>
      OBVIOUS
    <3>1. Usable(e)
      BY <2>9, <2>10 DEF Usable
    <3>2. mem[Prim(l)].af.v
      BY <2>5, <2>8
    <3>3. Translation(e) = <<p, p>>
      BY <2>6 DEF Translation
    <3> QED BY <1>1, <2>4, <3>1, <3>2, <3>3, WindowReached
  <2>12. ~(v /\ p # NoPage) => Reached(l, w) = {}
    <3>1. ~v => ~mem[Prim(l)].af.v
      BY <2>8
    <3>2. p = NoPage => ~Usable(e)
      BY <2>9, <2>10 DEF Usable
    <3> QED BY <1>1, <2>4, <3>1, <3>2, WindowReached
  <2> QED BY <2>4, <2>11, <2>12
<1>2. PamuInv => ReturnedIsInForce
  BY <1>1 DEF ReturnedIsInForce
<1> QED BY <1>2, PamuInvariance, PTL
=============================================================================
