------------------------------ MODULE Strings ------------------------------
(***************************************************************************)
(* lib/string.c: copying, searching, comparing, and reading numbers.  A    *)
(* memory is a function from addresses to bytes; a string is the sequence  *)
(* of its characters' codes, without the zero that ends it (CharAt gives it).  *)
(***************************************************************************)
EXTENDS Integers, Sequences, SequencesExt, FiniteSetsExt

CONSTANTS
    WordSize,    \* sizeof(long)
    NumberBits,  \* width of unsigned long long
    MaxCopy,     \* bound: the addresses and the length of a copy
    Letters,     \* bound: the characters of a string
    MaxString,   \* bound: its length
    NumberChars  \* bound: the characters of a number

VARIABLE given   \* the call that is checked

stringVars == <<given>>

NULL == -2
ERR_INVALID == 1
ERR_RANGE == 2

Fewer(a, b) == IF a <= b THEN a ELSE b

CharAt(s, i) == IF i < Len(s) THEN s[i + 1] ELSE 0

FirstOf(set) == IF set = {} THEN NULL ELSE Min(set)

-----------------------------------------------------------------------------
(* memcpy and memmove                                                      *)

Bytes(mem, d, s, from, to) ==
    FoldLeft(LAMBDA m, i : [m EXCEPT ![d + i] = m[s + i]], mem,
             [k \in 1 .. to - from |-> from + k - 1])

(* The same from the last byte to the first.                               *)
BytesDown(mem, d, s, n) ==
    FoldRight(LAMBDA i, m : [m EXCEPT ![d + i] = m[s + i]], [k \in 1..n |-> k - 1], mem)

Words(mem, d, s, from, count) ==
    FoldLeft(LAMBDA m, w :
                 [a \in DOMAIN m |->
                     IF a - d - from \in w * WordSize .. w * WordSize + WordSize - 1
                     THEN m[a - d + s] ELSE m[a]],
             mem, [k \in 1..count |-> k - 1])

(* Byte by byte unless both are alike within a word; otherwise bytes to    *)
(* the first word, words, and the bytes left over.                         *)
memcpy(mem, d, s, n) ==
    IF d % WordSize # s % WordSize THEN Bytes(mem, d, s, 0, n)
    ELSE LET head == Fewer(n, (WordSize - (d % WordSize)) % WordSize)
             words == (n - head) \div WordSize
             tail == head + (words * WordSize)
         IN  Bytes(Words(Bytes(mem, d, s, 0, head), d, s, head, words), d, s, tail, n)

memmove(mem, d, s, n) == IF d < s THEN memcpy(mem, d, s, n) ELSE BytesDown(mem, d, s, n)

-----------------------------------------------------------------------------
(* Strings                                                                 *)

(* Where two strings part, looking at n characters at most.                *)
Parting(s1, s2, n) ==
    Min({i \in 0 .. Fewer(Len(s1), Len(s2)) : CharAt(s1, i) # CharAt(s2, i)}
        \cup {Fewer(n, Fewer(Len(s1), Len(s2)))})

(* The difference is that of the second from the first.                    *)
strncmp(s1, s2, n) ==
    LET i == Parting(s1, s2, n) IN IF i = n THEN 0 ELSE CharAt(s2, i) - CharAt(s1, i)

strcmp(s1, s2) ==
    LET i == Parting(s1, s2, Len(s1)) IN CharAt(s2, i) - CharAt(s1, i)

(* n bytes of the result: src and its zero as far as they go, and zeros.   *)
strncpy(src, n) == [i \in 1..n |-> CharAt(src, i - 1)]

strchr(s, c) == FirstOf({i \in 0 .. Len(s) : CharAt(s, i) = c})

(* memcmp of two strings' beginnings, as far as strstr needs it.           *)
SameThere(s1, pos, s2) == \A i \in 0 .. Len(s2) - 1 : CharAt(s1, pos + i) = CharAt(s2, i)

(* From each place where the first character fits.                         *)
strstr(s1, s2) ==
    LET try[pos \in Nat] ==
          LET p == FirstOf({i \in pos .. Len(s1) - 1 : CharAt(s1, i) = CharAt(s2, 0)})
          IN  CASE p = NULL \/ Len(s1) - p < Len(s2) -> NULL
                [] p # NULL /\ Len(s1) - p >= Len(s2) /\ SameThere(s1, p, s2) -> p
                [] OTHER -> try[p + 1]
    IN  IF s2 = <<>> THEN 0 ELSE try[0]

(* It ends at a zero too, and looks at the byte after the last.            *)
memchr(s, c, n) ==
    LET i == Min({j \in 0 .. Len(s) : CharAt(s, j) \in {0, c}} \cup {n})
    IN  IF CharAt(s, i) = c THEN i ELSE NULL

-----------------------------------------------------------------------------
(* Numbers                                                                 *)

(* The character as a digit, or NULL.  Below base ten maxnumdigit is the   *)
(* base less one, not a character: no digit is one.                        *)
DigitIn(c, base) ==
    CASE c \in 48 .. (IF base >= 10 THEN 57 ELSE base - 1) -> c - 48
      [] c \in 97 .. 97 + base - 11 -> c - 97 + 10
      [] c \in 65 .. 65 + base - 11 -> c - 65 + 10
      [] OTHER -> NULL

(* One round of the loop: what was read is multiplied before the character *)
(* is looked at.  An overflow is seen only if the number got smaller.      *)
NextDigit(r, c, base) ==
    LET times == (r.ret * base) % 2 ^ NumberBits
        ret == (times + DigitIn(c, base)) % 2 ^ NumberBits
    IN  CASE r.done -> r
          [] ~r.done /\ DigitIn(c, base) = NULL -> [r EXCEPT !.ret = times, !.done = TRUE]
          [] ~r.done /\ DigitIn(c, base) # NULL /\ ret < r.ret ->
                 [r EXCEPT !.ret = 0, !.errno = ERR_RANGE, !.done = TRUE]
          [] OTHER -> [r EXCEPT !.ret = ret, !.errno = 0, !.end = @ + 1]

strtoull(s, base) ==
    FoldLeft(LAMBDA r, c : NextDigit(r, c, base),
             [ret |-> 0, errno |-> ERR_INVALID, end |-> 0, done |-> FALSE], s)

AsSigned(v) ==
    LET low == v % 2 ^ NumberBits
    IN  IF low >= 2 ^ (NumberBits - 1) THEN low - 2 ^ NumberBits ELSE low

(* The errors of strtoull, then the range of the sign.                     *)
strtoll(s, base) ==
    LET neg == s # <<>> /\ Head(s) = 45
        r == strtoull(IF neg THEN Tail(s) ELSE s, base)
        most == 2 ^ (NumberBits - 1) - (IF neg THEN 0 ELSE 1)
    IN  IF r.errno # 0 THEN [ret |-> 0, errno |-> r.errno]
        ELSE [ret |-> AsSigned(IF neg THEN -r.ret ELSE r.ret),
              errno |-> IF r.ret > most THEN ERR_RANGE ELSE 0]

-----------------------------------------------------------------------------

SequencesOver(chars, n) == UNION {[1..k -> chars] : k \in 0..n}

Copies == [d : 0..MaxCopy, s : 0..MaxCopy, n : 0..MaxCopy]
Pairs == [s1 : SequencesOver(Letters, MaxString), s2 : SequencesOver(Letters, MaxString), n : 0..MaxString]
Numbers == [text : SequencesOver(NumberChars, 3), base : {8, 10, 16}]

StringInit == given = [call |-> "none"]

ChooseCopy == \E c \in Copies : given' = [call |-> "copy", arg |-> c]
ChoosePair == \E c \in Pairs : given' = [call |-> "pair", arg |-> c]
ChooseNumber == \E c \in Numbers : given' = [call |-> "number", arg |-> c]

StringNext ==
    given.call = "none" /\ (ChooseCopy \/ ChoosePair \/ ChooseNumber)

-----------------------------------------------------------------------------

(* memmove: every byte of the destination is what the source held, however *)
(* they overlap, and no other byte changes.                                *)
CopyExact(c) ==
    LET mem == [a \in 0 .. 2 * MaxCopy |-> a]
    IN  memmove(mem, c.d, c.s, c.n) =
          [a \in DOMAIN mem |-> IF a \in c.d .. c.d + c.n - 1 THEN mem[a - c.d + c.s] ELSE mem[a]]

(* The first occurrences, equality, and padding.  What memchr finds beyond *)
(* the last byte is excepted.                                              *)
SearchExact(c) ==
    LET whole == {i \in 0 .. Len(c.s1) - Len(c.s2) : SubSeq(c.s1, i + 1, i + Len(c.s2)) = c.s2}
    IN  /\ strstr(c.s1, c.s2) = FirstOf(whole)
        /\ strcmp(c.s1, c.s2) = 0 <=> c.s1 = c.s2
        /\ strncmp(c.s1, c.s2, c.n) = 0 <=>
             SubSeq(c.s1, 1, Fewer(c.n, Len(c.s1))) = SubSeq(c.s2, 1, Fewer(c.n, Len(c.s2)))
        /\ Len(c.s1) <= c.n =>
             strncpy(c.s1, c.n) = c.s1 \o [i \in 1 .. c.n - Len(c.s1) |-> 0]
        /\ \A x \in Letters :
             LET found == FirstOf({i \in 0 .. Len(c.s1) - 1 : c.s1[i + 1] = x})
             IN  /\ strchr(c.s1, x) = found
                 /\ memchr(c.s1, x, c.n) \in {c.n, IF found < c.n THEN found ELSE NULL}

(* A number that is one to its end and fits is read exactly.               *)
NumberExact(c) ==
    LET base == c.base
        digits == \A i \in 1..Len(c.text) : DigitIn(c.text[i], base) # NULL
        value == FoldLeft(LAMBDA v, x : (v * base) + DigitIn(x, base), 0, c.text)
    IN  c.text # <<>> /\ digits /\ value < 2 ^ NumberBits =>
          /\ strtoull(c.text, base) =
               [ret |-> value, errno |-> 0, end |-> Len(c.text), done |-> FALSE]
          /\ value <= 2 ^ (NumberBits - 1) =>
               strtoll(<<45>> \o c.text, base) = [ret |-> -value, errno |-> 0]

StringsExact ==
    CASE given.call = "copy" -> CopyExact(given.arg)
      [] given.call = "pair" -> SearchExact(given.arg)
      [] given.call = "number" -> NumberExact(given.arg)
      [] OTHER -> TRUE
=============================================================================
