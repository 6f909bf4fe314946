------------------------------ MODULE Library ------------------------------
(***************************************************************************)
(* The library the hypervisor, the firmware and the test kernels share:    *)
(* one call of one routine on every state, drawn by Init.  The loops that  *)
(* run beside something else or whose order of steps matters (sort,        *)
(* vsnprintf, strscpy, the lists) take their steps one by one; the others  *)
(* return in one step.                                                     *)
(***************************************************************************)
EXTENDS HeapSort, Vsprintf, LibString, LibBits, LinkedList

CONSTANTS
  MemSize,      \* bound: bytes of the memory of the string calls
  ByteValues,   \* bound: values of its bytes
  BitmapBits,   \* bound: bits of the bitmaps
  HexSources,   \* bound: strings given to hex2bin, as codes
  BinSources,   \* bound: bytes given to bin2hex
  Numbers       \* bound: numbers given to put_dec, in limbs to the base 10^8

VARIABLES
  routine,      \* "sort", "vsnprintf", "strscpy", "list", "call"
  call,         \* the call of a routine that returns in one step
  result,       \* what it returns, and the memory it leaves
  returned

callVars == <<call, result, returned>>
vars == <<routine, callVars, sortVars, vsVars, copyVars, listVars>>

-----------------------------------------------------------------------------
(***************************************************************************)
(* Calls that return in one step.                                          *)
(***************************************************************************)
Memories == {m \in [0 .. (MemSize - 1) -> ByteValues] : m[MemSize - 1] = 0}
Cell == 0 .. (MemSize - 1)

TwoAreas == {"memcpy", "memmove", "memcmp", "strncmp"}
TwoStrings == {"strcmp", "strstr"}
OneArea == {"memset", "memset64", "memzero_explicit", "memfind64", "strnlen"}
OneString == {"strchr", "strrchr", "strlen"}
StringCalls == TwoAreas \cup TwoStrings \cup OneArea \cup OneString
BitCalls == {"find_next_bit", "find_next_zero_bit", "find_first_bit", "find_first_zero_bit",
             "find_last_bit"}

\* p, q are pointers, c a byte, n a count.
StringCall(fn) ==
  \E m \in Memories, p \in Cell, q \in Cell, n \in 0 .. MemSize, b \in ByteValues :
    /\ p + n <= MemSize /\ q + n <= MemSize
    /\ fn \notin TwoAreas \cup TwoStrings => q = p
    /\ fn \notin TwoAreas \cup OneArea => n = 0
    /\ fn \notin OneArea \cup {"strchr", "strrchr"} => b = 0
    /\ call = [fn |-> fn, m |-> m, p |-> p, q |-> q, n |-> n, c |-> b]

BitCall(fn) ==
  \E addr \in SUBSET (0 .. (BitmapBits - 1)), size_ \in 0 .. BitmapBits,
     offset \in 0 .. BitmapBits :
    call = [fn |-> fn, addr |-> addr, size |-> size_, offset |-> offset]

HexCall ==
  \/ \E s \in HexSources : call = [fn |-> "hex2bin", s |-> s]
  \/ \E s \in BinSources : call = [fn |-> "bin2hex", s |-> s]
  \/ \E n \in Numbers : call = [fn |-> "put_dec", s |-> n]

CallInit ==
  \/ \E fn \in StringCalls : StringCall(fn)
  \/ \E fn \in BitCalls : BitCall(fn)
  \/ HexCall

Value(c) ==
  CASE c.fn = "memcpy" -> memcpy(c.m, c.p, c.q, c.n)
    [] c.fn = "memmove" -> memmove(c.m, c.p, c.q, c.n)
    [] c.fn = "memset" -> memset(c.m, c.p, c.c, c.n)
    [] c.fn = "memset64" -> memset64(c.m, c.p, c.c, c.n)
    [] c.fn = "memzero_explicit" -> memzero_explicit(c.m, c.p, c.n)
    [] c.fn = "memcmp" -> memcmp(c.m, c.p, c.q, c.n)
    [] c.fn = "memfind64" -> memfind64(c.m, c.p, c.c, c.n)
    [] c.fn = "strncmp" -> strncmp(c.m, c.p, c.q, c.n)
    [] c.fn = "strcmp" -> strcmp(c.m, c.p, c.q)
    [] c.fn = "strstr" -> strstr(c.m, c.p, c.q)
    [] c.fn = "strchr" -> strchr(c.m, c.p, c.c)
    [] c.fn = "strrchr" -> strrchr(c.m, c.p, c.c)
    [] c.fn = "strlen" -> strlen(c.m, c.p)
    [] c.fn = "strnlen" -> strnlen(c.m, c.p, c.n)
    [] c.fn = "find_next_bit" -> find_next_bit(c.addr, c.size, c.offset)
    [] c.fn = "find_next_zero_bit" -> find_next_zero_bit(c.addr, c.size, c.offset)
    [] c.fn = "find_first_bit" -> find_first_bit(c.addr, c.size)
    [] c.fn = "find_first_zero_bit" -> find_first_zero_bit(c.addr, c.size)
    [] c.fn = "find_last_bit" -> find_last_bit(c.addr, c.size)
    [] c.fn = "hex2bin" -> hex2bin(c.s, Len(c.s) \div 2)
    [] c.fn = "bin2hex" -> bin2hex(c.s, Len(c.s))
    [] c.fn = "put_dec" -> put_dec(c.s)

Return ==
  /\ routine = "call"
  /\ ~returned
  /\ result' = <<Value(call)>>
  /\ returned' = TRUE
  /\ UNCHANGED <<routine, call, sortVars, vsVars, copyVars, listVars>>

-----------------------------------------------------------------------------
(***************************************************************************)
(* The composition.  The variables of the routines that are not called     *)
(* hold one arbitrary value.                                               *)
(***************************************************************************)
NoSort == /\ num = 0 /\ input = <<>> /\ a = <<>> /\ phase = "done" /\ i = -1 /\ r = 0
NoFormat == /\ directive = <<>> /\ fmt = <<>> /\ fpos = 1 /\ spec = NoSpec /\ args = <<>>
            /\ str = 0 /\ out = <<>> /\ size = 0 /\ top = 1 /\ fpc = "none" /\ ret = 0
            /\ retc = 0
NoCopy == /\ source = <<>> /\ dest = <<>> /\ total = 0 /\ count = 0 /\ max = 0 /\ res = 0
          /\ word = Zero8 /\ data = Zero8
          /\ cpc = "returned" /\ value = 0 /\ reads = {} /\ changed = 0
NoCall == call = <<>> /\ result = <<>> /\ returned = FALSE

Init ==
  \/ routine = "sort" /\ SortInit /\ NoFormat /\ NoCopy /\ ListInit /\ NoCall
  \/ routine = "vsnprintf" /\ NoSort /\ VsprintfInit /\ NoCopy /\ ListInit /\ NoCall
  \/ routine = "strscpy" /\ NoSort /\ NoFormat /\ StringInit /\ ListInit /\ NoCall
  \/ routine = "list" /\ NoSort /\ NoFormat /\ NoCopy /\ ListInit /\ NoCall
  \/ /\ routine = "call" /\ NoSort /\ NoFormat /\ NoCopy /\ ListInit
     /\ CallInit /\ result = <<>> /\ returned = FALSE

Sort == routine = "sort" /\ SortStep /\ UNCHANGED <<routine, callVars, vsVars, copyVars, listVars>>
Format == /\ routine = "vsnprintf" /\ VsprintfNext
          /\ UNCHANGED <<routine, callVars, sortVars, copyVars, listVars>>
Copy == /\ routine = "strscpy" /\ StringNext
        /\ UNCHANGED <<routine, callVars, sortVars, vsVars, listVars>>
List == /\ routine = "list" /\ ListNext
        /\ UNCHANGED <<routine, callVars, sortVars, vsVars, copyVars>>

Step == Sort \/ Format \/ Copy \/ List \/ Return

Spec == Init /\ [][Step]_vars /\ WF_vars(Sort) /\ WF_vars(Copy)

-----------------------------------------------------------------------------
(***************************************************************************)
(* Properties of the calls that return in one step.                        *)
(***************************************************************************)
Area(m, p, n) == [k \in 1 .. n |-> m[p + k - 1]]
Text(m, p) == Area(m, p, Min({n \in 0 .. (MemSize - 1 - p) : m[p + n] = 0}))

\* The bytes of two areas up to n or the first difference decide.
Before(m, p, q, n) == \E k \in 0 .. (n - 1) : /\ m[p + k] < m[q + k]
                                              /\ Area(m, p, k) = Area(m, q, k)

\* The memory routines do to overlapping areas what they do to disjoint ones
\* (memcpy only if it copies downwards), and the comparisons and searches of
\* lib/string.c give what their comments say, the NUL and a count of 0
\* included.
StringCallsExact ==
  routine = "call" /\ returned /\ call.fn \in StringCalls =>
    LET c == call
        v == result[1]
        hits == {k \in Cell : k >= c.p /\ k <= c.p + strlen(c.m, c.p) /\ c.m[k] = c.c}
        filled(x) == [k \in Cell |-> IF k \in c.p .. (c.p + c.n - 1) THEN x ELSE c.m[k]]
    IN  CASE c.fn \in {"memcpy", "memmove"} ->
               (c.fn = "memcpy" => c.p <= c.q \/ c.p >= c.q + c.n) =>
                 v = [k \in Cell |-> IF k \in c.p .. (c.p + c.n - 1)
                                     THEN c.m[c.q + k - c.p] ELSE c.m[k]]
          [] c.fn \in {"memset", "memset64"} -> v = filled(c.c)
          [] c.fn = "memzero_explicit" -> v = filled(0)
          [] c.fn = "memcmp" -> /\ (v < 0) <=> Before(c.m, c.p, c.q, c.n)
                                /\ (v = 0) <=> (Area(c.m, c.p, c.n) = Area(c.m, c.q, c.n))
          [] c.fn \in {"strncmp", "strcmp"} ->
               LET n == IF c.fn = "strcmp" THEN MemSize ELSE c.n
                   cut(x) == SubSeq(x, 1, Min({n, Len(x)})) \o <<0>>
                   x == cut(Text(c.m, c.p))
                   y == cut(Text(c.m, c.q))
               IN  /\ (v = 0) <=> (x = y)
                   /\ (v < 0) <=> \E k \in 1 .. Min({Len(x), Len(y)}) :
                                  x[k] < y[k] /\ SubSeq(x, 1, k - 1) = SubSeq(y, 1, k - 1)
          [] c.fn = "memfind64" -> /\ v \in 0 .. c.n
                                   /\ c.c \notin Range(Area(c.m, c.p, v))
                                   /\ v < c.n => c.m[c.p + v] = c.c
          [] c.fn = "strchr" -> v = IF hits = {} THEN NULL ELSE Min(hits)
          [] c.fn = "strrchr" -> v = IF hits = {} THEN NULL ELSE Max(hits)
          [] c.fn = "strlen" -> c.m[c.p + v] = 0 /\ 0 \notin Range(Area(c.m, c.p, v))
          [] c.fn = "strnlen" -> v = Min({c.n, strlen(c.m, c.p)})
          [] c.fn = "strstr" ->
               LET at == {k \in Cell : /\ k >= c.p
                                       /\ k + strlen(c.m, c.q) <= c.p + strlen(c.m, c.p)
                                       /\ Area(c.m, k, strlen(c.m, c.q)) = Text(c.m, c.q)}
               IN  v = IF at = {} THEN NULL ELSE Min(at)

\* A search of lib/find_bit.c returns the first (or last) bit it looks for
\* inside the size, and the size if there is none, whatever the last word
\* holds behind it.
BitCallsExact ==
  routine = "call" /\ returned /\ call.fn \in BitCalls =>
    LET c == call
        all == 0 .. (c.size - 1)
        set == all \cap c.addr
        from(S) == {k \in S : k >= c.offset}
        first(S) == IF S = {} THEN c.size ELSE Min(S)
    IN  result[1] =
          CASE c.fn = "find_next_bit" -> first(from(set))
            [] c.fn = "find_next_zero_bit" -> first(from(all \ set))
            [] c.fn = "find_first_bit" -> first(set)
            [] c.fn = "find_first_zero_bit" -> first(all \ set)
            [] c.fn = "find_last_bit" -> IF set = {} THEN c.size ELSE Max(set)

\* The value of digits to a base, least significant first.
LimbValue(digits, from) ==
  FoldLeft(LAMBDA n, k : 10 * n + digits[k], 0,
           Reverse([k \in 1 .. Min({8, Len(digits) - from}) |-> from + k]))

\* put_dec gives the decimal digits of every 64-bit number, without a leading
\* zero, in spite of its reciprocals; hex2bin undoes bin2hex and stops at
\* what is not a digit.
NumeralsExact ==
  routine = "call" /\ returned =>
    CASE call.fn = "put_dec" ->
           LET d == result[1]
           IN  /\ Range(d) \subseteq 0 .. 9
               /\ d[Len(d)] # 0 \/ Len(d) = 1
               /\ \A k \in 1 .. 3 : (IF Len(d) > 8 * (k - 1) THEN LimbValue(d, 8 * (k - 1)) ELSE 0)
                                    = call.s[k]
      [] call.fn = "bin2hex" -> hex2bin(result[1], Len(call.s)) = [ok |-> TRUE, dst |-> call.s]
      [] call.fn = "hex2bin" ->
           LET isxdigit(x) == x \in (48 .. 57) \cup (65 .. 70) \cup (97 .. 102)
               bad == {k \in 1 .. Len(call.s) : ~isxdigit(call.s[k])}
           IN  /\ result[1].ok <=> (bad = {})
               /\ bad # {} => Len(result[1].dst) = (Min(bad) - 1) \div 2
      [] OTHER -> TRUE

\* The routines of lib/ without a loop of interest compute what they are
\* documented to, for all arguments.
CallsAreExact == StringCallsExact /\ BitCallsExact /\ NumeralsExact

\* sort returns, whatever its sifts move, and so does strscpy, whatever its
\* source changes to meanwhile.
LoopsTerminate ==
  <>CASE routine = "sort" -> phase = "done"
      [] routine = "strscpy" -> cpc = "returned"
      [] OTHER -> TRUE
=============================================================================
