---------------------------- MODULE ShellMemory ----------------------------
(* The commands of the shell that read and write memory.  Each decodes an
   expression for its address, asks memValidate how much there is from there on
   to the end of a region, and works within that.  An access outside every
   region stops the shell or the PSP.

   Addresses are those below Limit, and wrap there.  A word has 4 bytes, a
   halfword 2.                                                              *)
EXTENDS Integers, Sequences

CONSTANTS
  Limit,        \* 2^32 in the code
  Radix,        \* values of a byte, 256 in the code
  Region,       \* [base, size, write, v1only]: the table g_memareas
  V1,           \* g_isv1: a PSP of version 1
  Page,         \* MAX_MEMDUMP_SIZE, and what memValidate allows without protection
  Mem0,         \* address -> byte, at first
  Bytes,        \* bound: bytes written
  Sizes, Exprs, \* bound: sizes and address expressions given to commands
  Patterns,     \* bound: sequences of bytes searched for
  MaxMemOps     \* bound: commands

VARIABLES
  mem,          \* address -> byte
  protoff,      \* g_protoff
  dump,         \* the address memdump keeps
  touched,      \* history: addresses the last command read or wrote
  found,        \* history: [addr, size, pat, at]: the last search and its matches
  memops

memvars == <<mem, protoff, dump, touched, found, memops>>

Addr == 0..(Limit - 1)
Byte == 0..(Radix - 1)

\* A token of an expression: a number, or "+", "*" and the like.
Tokens == [kind : {"num"}, n : Addr] \cup [kind : {"+", "-", "*", "/", "==", "<", "~"}]

\* The table has whole words and no overlap, and ends below the last address.
ASSUME MemoryAssumption ==
  /\ Limit \in Nat \ {0, 1} /\ Radix \in Nat \ {0} /\ Page \in Nat \ {0} /\ V1 \in BOOLEAN
  /\ \A r \in Region :
       /\ r.base \in Nat /\ r.size \in Nat /\ r.base + r.size < Limit
       /\ r.base % 4 = 0 /\ r.size % 4 = 0
       /\ \A q \in Region : q = r \/ q.base + q.size <= r.base \/ r.base + r.size <= q.base
  /\ Mem0 \in [Addr -> Byte]
  /\ Bytes \subseteq Byte /\ Sizes \subseteq Nat
  /\ Exprs \subseteq Seq(Tokens)
  /\ Patterns \subseteq Seq(Byte) \ {<<>>}

-----------------------------------------------------------------------------
Lesser(a, b) == IF a < b THEN a ELSE b
Span(a, n) == {(a + i) % Limit : i \in 0..(n - 1)}

\* The first region of the table that an address is in.
RegionsOf(a) == {r \in Region : r.base <= a /\ a < r.base + r.size}

\* Mutant of memValidate: a region counts from its base.
ValidateBase(a, write) ==
  LET ok == {r \in RegionsOf(a) : (write => r.write) /\ (r.v1only => V1)}
      n  == IF ok = {} THEN 0 ELSE (CHOOSE r \in ok : TRUE).size
  IN  IF protoff /\ n = 0 THEN Page ELSE n

\* memValidate: how much is left.
memValidate(a, write) ==
  LET ok == {r \in RegionsOf(a) : (write => r.write) /\ (r.v1only => V1)}
      n  == IF ok = {} THEN 0 ELSE LET r == CHOOSE r \in ok : TRUE IN r.size - (a - r.base)
  IN  IF protoff /\ n = 0 THEN Page ELSE n

Aligned(a, n) == a - (a % n)

-----------------------------------------------------------------------------
(* memDecode.                                                                *)

do_op(op, l, r) ==
  CASE op = "+"  -> (l + r) % Limit
    [] op = "-"  -> (l - r) % Limit
    [] op = "*"  -> (l * r) % Limit
    [] op = "/"  -> IF r = 0 THEN 1 ELSE l \div r
    [] op = "==" -> IF l = r THEN 1 ELSE 0
    [] op = "<"  -> IF l < r THEN 1 ELSE 0
    [] OTHER     -> r

\* _lw, the lowest byte first.
ByteAt(a) == mem[a % Limit]
WordAt(a) == (ByteAt(a) + Radix * (ByteAt(a + 1) + Radix * (ByteAt(a + 2) + Radix * ByteAt(a + 3)))) % Limit

\* deref_addr, once for every "*": the value and the words it read, ok or not.
Deref(v) ==
  IF v % 4 # 0 \/ memValidate(v, FALSE) < 4 THEN [ok |-> FALSE, val |-> 0, read |-> {}]
  ELSE [ok |-> TRUE, val |-> WordAt(v), read |-> Span(v, 4)]

DerefNext(acc) ==
  LET d == Deref(acc.val) IN IF acc.ok THEN [d EXCEPT !.read = @ \cup acc.read] ELSE acc
DerefAll(v, n) ==
  LET acc[k \in 0..n] == IF k = 0 THEN [ok |-> TRUE, val |-> v, read |-> {}] ELSE DerefNext(acc[k - 1])
  IN  acc[n]

\* One operand with the operator, the "*" and the "~" before it; operators have
\* no precedence.  An operand is a number; brackets are evaluated before.
Operand(acc, t) ==
  LET d == DerefAll(t, acc.deref)
      r == IF acc.not % 2 = 1 THEN Limit - 1 - d.val ELSE d.val
  IN  IF acc.op = "none" \/ ~d.ok THEN [acc EXCEPT !.ok = FALSE, !.read = @ \cup d.read]
      ELSE [ok |-> TRUE, val |-> do_op(acc.op, acc.val, r), op |-> "none", deref |-> 0, not |-> 0,
            read |-> acc.read \cup d.read]

Token(acc, t) ==
  CASE ~acc.ok -> acc
    [] t.kind = "num" -> Operand(acc, t.n)
    [] t.kind = "*" /\ acc.op # "none" -> [acc EXCEPT !.deref = @ + 1]
    [] t.kind = "~"  -> [acc EXCEPT !.not = @ + 1]
    [] OTHER -> IF acc.op = "none" THEN [acc EXCEPT !.op = t.kind] ELSE [acc EXCEPT !.ok = FALSE]

memDecode(toks) ==
  LET acc[k \in 0..Len(toks)] ==
        IF k = 0 THEN [ok |-> TRUE, val |-> 0, op |-> "start", deref |-> 0, not |-> 0, read |-> {}]
        ELSE Token(acc[k - 1], toks[k])
  IN  acc[Len(toks)]

-----------------------------------------------------------------------------
(* The commands.                                                            *)

Command(read, write, v) ==
  /\ memops < MaxMemOps /\ memops' = memops + 1
  /\ \E w \in {write} :
       /\ touched' = read \cup w
       /\ mem' = [a \in Addr |-> IF a \in w THEN v ELSE mem[a]]

\* The addresses that can be given.
Decoded == {d \in {memDecode(x) : x \in Exprs} : d.ok}

\* With an expression that is wrong a command does nothing, but words were read.
decode_error ==
  \E d \in {memDecode(x) : x \in Exprs} :
    /\ ~d.ok
    /\ Command(d.read, {}, 0)
    /\ UNCHANGED <<protoff, dump, found>>

\* Mutant of PokeRoom: as many values as are given.
PokeAll(left, n, width) == IF left >= width THEN n ELSE 0

\* The values that a poke of n values writes: it stops when nothing is left.
PokeRoom(left, n, width) == IF left >= width THEN Lesser(n, (left + width - 1) \div width) ELSE 0

\* pokew, pokeh, pokeb: n values from an aligned address on.
poke_cmd(width) ==
  \E d \in Decoded, n \in 1..3, v \in Bytes :
    LET a == Aligned(d.val, width)
    IN  /\ Command(d.read, Span(a, width * PokeRoom(memValidate(a, TRUE), n, width)), v)
        /\ UNCHANGED <<protoff, dump, found>>

\* pokes writes a string with its end when all of it fits.
pokes_cmd ==
  \E d \in Decoded, n \in Sizes, v \in Bytes :
    /\ memValidate(d.val, TRUE) >= n + 1
    /\ Command(d.read, Span(d.val, n + 1), v)
    /\ UNCHANGED <<protoff, dump, found>>

\* peekw, peekh, peekb
peek_cmd(width) ==
  \E d \in Decoded :
    LET a == Aligned(d.val, width)
    IN  /\ memValidate(a, FALSE) >= width
        /\ Command(d.read \cup Span(a, width), {}, 0)
        /\ UNCHANGED <<protoff, dump, found>>

\* fillb, fillh, fillw: what is left and a whole number of values.
fill_cmd(width) ==
  \E d \in Decoded, n \in Sizes, v \in Bytes :
    LET a == Aligned(d.val, width)
    IN  /\ Command(d.read, Span(a, Aligned(Lesser(n, memValidate(a, TRUE)), width)), v)
        /\ UNCHANGED <<protoff, dump, found>>

\* copymem, through memmove.
copymem_cmd ==
  \E src, dst \in Decoded, n \in Sizes :
    \E size \in {Lesser(n, Lesser(memValidate(src.val, TRUE), memValidate(dst.val, TRUE)))} :
      /\ memops < MaxMemOps /\ memops' = memops + 1
      /\ touched' = src.read \cup dst.read \cup Span(src.val, size) \cup Span(dst.val, size)
      /\ mem' = [a \in Addr |-> IF a \in Span(dst.val, size) THEN ByteAt(src.val + a - dst.val) ELSE mem[a]]
      /\ UNCHANGED <<protoff, dump, found>>

\* savemem and loadmem: a file of a size, in pieces; a short or failing read or
\* write ends it.  loadmem asks for memory to read, and writes to it.
savemem_cmd ==
  \E d \in Decoded, n \in Sizes :
    /\ \E k \in 0..Lesser(n, memValidate(d.val, FALSE)) : Command(d.read \cup Span(d.val, k), {}, 0)
    /\ UNCHANGED <<protoff, dump, found>>

loadmem_cmd ==
  \E d \in Decoded, n \in Sizes, v \in Bytes :
    /\ \E k \in 0..Lesser(n, memValidate(d.val, FALSE)) : Command(d.read, Span(d.val, k), v)
    /\ UNCHANGED <<protoff, dump, found>>

\* disasm
disasm_cmd ==
  \E d \in Decoded, n \in Sizes \ {0} :
    LET a == Aligned(d.val, 4)
    IN  /\ Command(d.read \cup Span(a, 4 * Lesser(n, memValidate(a, FALSE) \div 4)), {}, 0)
        /\ UNCHANGED <<protoff, dump, found>>

\* memdump with an address, "-", or nothing for the next page; a page or what is
\* left of it.  The address stays also when it is not valid.
memdump_cmd ==
  \E d \in Decoded \cup {[val |-> (dump + i) % Limit, read |-> {}] :
                            i \in {-Page} \cup (IF dump = 0 THEN {} ELSE {Page})} :
    /\ dump' = d.val
    /\ Command(d.read \cup Span(d.val, Lesser(Page, memValidate(d.val, FALSE))), {}, 0)
    /\ UNCHANGED <<protoff, found>>

memprot_cmd ==
  /\ protoff' = ~protoff
  /\ Command({}, {}, 0)
  /\ UNCHANGED <<dump, found>>

-----------------------------------------------------------------------------
(* Search.                                                                  *)

Matches(a, pat) == \A i \in 1..Len(pat) : ByteAt(a + i - 1) = pat[i]

\* memmem_mask: the first match that ends within the size.
memmem_mask(a, size, pat) ==
  LET at == {i \in 0..(size - Len(pat)) : Matches(a + i, pat)}
  IN  {i \in at : \A j \in at : i <= j}

\* Mutant of Next1: the search goes on behind the match.
NextAfter(pat) == Len(pat)

\* The search goes on one byte after the start of a match.
Next1(pat) == 1

\* findstr, findw, findh, findhex: one match after the other, until there is
\* none or nothing is left.
FindAll(addr, size, pat) ==
  LET f[k \in 0..size] ==
        UNION {{k + i} \cup (IF k + i + Next1(pat) < size THEN f[k + i + Next1(pat)] ELSE {}) :
                 i \in memmem_mask(addr + k, size - k, pat)}
  IN  f[0]

find_cmd ==
  \E d \in Decoded, n \in Sizes, pat \in Patterns :
    LET size == Lesser(n, memValidate(d.val, FALSE))
    IN  /\ found' = [addr |-> d.val, size |-> size, pat |-> pat, at |-> FindAll(d.val, size, pat)]
        /\ Command(d.read \cup Span(d.val, size), {}, 0)
        /\ UNCHANGED <<protoff, dump>>

-----------------------------------------------------------------------------
MemInit ==
  /\ mem = Mem0
  /\ protoff = FALSE /\ dump = 0
  /\ touched = {}
  /\ found = [addr |-> 0, size |-> 0, pat |-> <<>>, at |-> {}]
  /\ memops = 0

MemNext ==
  \/ \E width \in {1, 2, 4} : poke_cmd(width) \/ peek_cmd(width) \/ fill_cmd(width)
  \/ pokes_cmd \/ copymem_cmd \/ savemem_cmd \/ loadmem_cmd \/ disasm_cmd \/ memdump_cmd
  \/ memprot_cmd \/ find_cmd \/ decode_error

MemSpec == MemInit /\ [][MemNext]_memvars

-----------------------------------------------------------------------------
Mapped == {a \in Addr : \E r \in Region : a >= r.base /\ a < r.base + r.size /\ (r.v1only => V1)}

\* With the protection on no command reads or writes a byte outside the regions,
\* whatever its address, size and number of values, not while it decodes an
\* expression with "*", and not at the end of a region or of the address space;
\* an unaligned address is rounded down, never over an end (memValidate, line 608).
NoStray == ~protoff => touched \subseteq Mapped

\* A search reports each place where the pattern begins and fits, those that
\* overlap another match included (findhex_cmd, line 3193).
FindsEvery ==
  [][found' # found =>
       found'.at = {i \in 0..(found'.size - Len(found'.pat)) : Matches(found'.addr + i, found'.pat)}]_memvars
============================================================================
