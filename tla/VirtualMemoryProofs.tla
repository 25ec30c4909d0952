------------------------- MODULE VirtualMemoryProofs -------------------------
(***************************************************************************)
(* The isolation of address spaces for any number of tasks, pages and      *)
(* programs, also when memory runs out.  A step of the kernel is a chain   *)
(* of operators on a job, so the proof goes operator by operator: each     *)
(* keeps JobOK, whose second argument is the set of pages that belong to   *)
(* somebody else, and says what it did to the address space.               *)
(***************************************************************************)
EXTENDS VirtualMemory, FiniteSetTheorems, TLAPS

User    == 0 .. SHARED_MEMORY - 1       \* the addresses that programs may use
Ptr     == Page \cup {NULL}
Section == [start : Nat, size : Nat]
Spaces  == [root : Ptr, frame : Ptr, shared : Ptr, table : [Tables -> Ptr],
            map : [VA -> Ptr \cup {STATIC}], sections : Seq(Section), stack : Section]
Fates   == {"ok", "panic", "wild"}
Jobs    == [free : SUBSET Page, page : Ptr, sp : Spaces, ok : BOOLEAN, fate : Fates]

Pages(s) == s.start .. s.start + s.size - 1

\* Page x holds a table of sp; page x holds data of sp.
InTable(sp, x) ==
    \/ sp.root # NULL /\ x \in {sp.root, sp.root + 1}
    \/ \E e \in Tables : sp.table[e] # NULL /\ x \in {sp.table[e], sp.table[e] + 1}
InData(sp, x) == x \in {sp.frame, sp.shared} \/ \E va \in User : sp.map[va] = x

\* Every page has one use: it is free, a table, data, or in the set O of others.
OneUse(f, sp, O) ==
    \A x \in 0 .. NPages :
        /\ x \in f => ~InTable(sp, x) /\ ~InData(sp, x) /\ x \notin O
        /\ InTable(sp, x) => ~InData(sp, x) /\ x \notin O
        /\ InData(sp, x) => x \notin O

\* A page of data is used once.
Distinct(sp) ==
    /\ sp.frame # NULL => sp.frame # sp.shared
    /\ \A va \in User : sp.map[va] # NULL =>
           /\ sp.map[va] # sp.frame /\ sp.map[va] # sp.shared
           /\ \A vb \in User : sp.map[vb] = sp.map[va] => va = vb

\* What is mapped for the program has an entry, and is not the trampoline.
Entries(sp) ==
    \A va \in User : sp.map[va] # NULL =>
        sp.table[Lower(va)] # NULL /\ sp.map[va] # STATIC

\* Sections lie below the stack, which ends at the shared page.
Placed(sp) ==
    /\ \A i \in DOMAIN sp.sections : sp.sections[i].start + sp.sections[i].size <= MinStack
    /\ \/ sp.stack.start = 0 /\ sp.stack.size = 0
       \/ MinStack <= sp.stack.start /\ sp.stack.start + sp.stack.size = SHARED_MEMORY

JobOK(m, O) ==
    /\ m \in Jobs
    /\ OneUse(m.free, m.sp, O) /\ Distinct(m.sp) /\ Entries(m.sp) /\ Placed(m.sp)

\* n is m but for the page table, the free pages, ok and fate; no table is lost,
\* and a machine that has stopped stays stopped.
Keeps(m, n) ==
    /\ n.sp.root = m.sp.root /\ n.sp.frame = m.sp.frame /\ n.sp.shared = m.sp.shared
    /\ n.sp.sections = m.sp.sections /\ n.sp.stack = m.sp.stack
    /\ n.fate = "ok" => m.fate = "ok"

-----------------------------------------------------------------------------
(* Arithmetic. *)

\* The layout of the address space.
LEMMA Layout ==
    /\ NPages \in Nat /\ Span \in Nat /\ MaxTasks \in Nat
    /\ SHARED_MEMORY \in Nat /\ MinStack \in Nat /\ MinStack < SHARED_MEMORY /\ MinStack >= 2
    /\ TRAMPOLINE = SHARED_MEMORY + 2 /\ TRAPFRAME = SHARED_MEMORY + 1
    /\ User \subseteq VA /\ VA \ Special = User
    /\ Special \subseteq VA
    /\ NULL \notin Page /\ STATIC \notin Page /\ NULL # STATIC
    /\ \A p \in Page : p \in Nat /\ p \in 0 .. NPages /\ p + 1 \in 0 .. NPages
    /\ User \cap Special = {}
BY MemoryAssumption
   DEF SHARED_MEMORY, MinStack, TRAMPOLINE, TRAPFRAME, User, VA, Special, NULL, STATIC, Page

\* Division keeps the order.
LEMMA DivisionKeepsOrder ==
    ASSUME NEW a \in Nat, NEW b \in Nat, a <= b, NEW d \in Nat \ {0}
    PROVE  a \div d \in Nat /\ a \div d <= b \div d
<1> DEFINE p == a \div d
           q == b \div d
<1>1. p \in Int /\ q \in Int /\ d * p <= a /\ a < d * p + d /\ d * q <= b /\ b < d * q + d
  OBVIOUS
<1> HIDE DEF p, q
<1>2. p >= 0
  <2> SUFFICES ASSUME p <= -1 PROVE FALSE
    BY <1>1
  <2>1. d * p <= d * (-1)
    BY <1>1
  <2> QED BY <1>1, <2>1
<1>3. p <= q
  <2> SUFFICES ASSUME p >= q + 1 PROVE FALSE
    BY <1>1
  <2>1. d * p >= d * (q + 1)
    BY <1>1
  <2>2. d * (q + 1) = d * q + d
    BY <1>1
  <2> QED BY <1>1, <2>1, <2>2
<1> QED BY <1>1, <1>2, <1>3 DEF p, q

\* The tables on the way to an address.
LEMMA TablesOfAddress ==
    ASSUME NEW va \in VA
    PROVE  Lower(va) \in Tables /\ Upper(va) \in Tables
<1>1. va \in Nat /\ TRAMPOLINE \in Nat /\ va <= TRAMPOLINE
  BY MemoryAssumption DEF VA, TRAMPOLINE
<1>2. Span \in Nat \ {0} /\ Span * Span \in Nat \ {0}
  BY MemoryAssumption
<1>3. va \div Span \in 0 .. TRAMPOLINE \div Span
  BY <1>1, <1>2, DivisionKeepsOrder
<1> DEFINE d == Span * Span
<1>4. d \in Nat \ {0}
  BY <1>2
<1> HIDE DEF d
<1>5. va \div d \in 0 .. TRAMPOLINE \div d
  BY <1>1, <1>4, DivisionKeepsOrder
<1> QED BY <1>3, <1>5 DEF Tables, Lower, Upper, d

\* Blocks of one page and of two.
LEMMA Blocks01 ==
    /\ \A p \in Int : Block(p, 0) = {p}
    /\ \A p \in Int : Block(p, 1) = {p, p + 1}
BY DEF Block

-----------------------------------------------------------------------------
(* The page allocator. *)

\* The fold of free_memory() over the addresses of a section.
FreePage(c, m, va) == UnmapPage(Deallocate(m, m.sp.map[va]), va)
FreeFold == INSTANCE FoldProofs WITH Op <- FreePage

\* Min() of a nonempty set of natural numbers is its least element.
LEMMA MinIsLeast ==
    ASSUME NEW S, S \subseteq Nat, S # {}
    PROVE  Min(S) \in S
BY FreeFold!LeastElement DEF Min

\* JobOK is about the others as a set, and less is known of fewer.
LEMMA FewerOthers ==
    ASSUME NEW O, NEW U, NEW m, JobOK(m, O), U \subseteq O
    PROVE  JobOK(m, U)
BY DEF JobOK, OneUse

\* Blocks hold at least one page, and those of an order above 0 two.
LEMMA BlockSize == \A k \in 0 .. MaxOrder : 2 ^ k \in Nat /\ 2 ^ k >= 1 /\ (k >= 1 => 2 ^ k >= 2)
<1> DEFINE Good(k) == 2 ^ k \in Nat /\ 2 ^ k >= 1 /\ (k >= 1 => 2 ^ k >= 2)
           A == {k \in 0 .. MaxOrder : Good(k)}
<1>1. MaxOrder \in Nat
  BY MemoryAssumption
<1>2. 0 \in A
  <2>1. \A z : z = 0 => 2 ^ z = 1
    OBVIOUS
  <2> QED BY <1>1, <2>1
<1>3. ASSUME NEW k \in 1 .. MaxOrder, k - 1 \in A PROVE k \in A
  <2>0. k - 1 \in 0 .. MaxOrder - 1 /\ k - 1 + 1 = k
    BY <1>1
  <2>1. 2 ^ (k - 1 + 1) = 2 * 2 ^ (k - 1)
    BY <2>0, PowersAssumption
  <2>2. 2 ^ k = 2 * 2 ^ (k - 1)
    BY <2>0, <2>1
  <2>3. 2 ^ (k - 1) \in Nat /\ 2 ^ (k - 1) >= 1
    BY <1>3
  <2>4. 2 ^ k \in Nat /\ 2 ^ k >= 2
    BY <2>2, <2>3
  <2> QED BY <2>4
<1> HIDE DEF A
<1>4. \A k \in 0 .. MaxOrder : k \in A
  BY <1>1, <1>2, <1>3, FreeFold!Induction
<1> QED BY <1>4 DEF A

\* What allocate() hands out was free, and is then nobody's.
LEMMA AllocateFacts ==
    ASSUME NEW O, NEW m, JobOK(m, O), NEW order \in {0, 1}
    PROVE  LET n == Allocate(m, order)
           IN  /\ n.sp = m.sp /\ n.ok = m.ok /\ n.fate = m.fate
               /\ n.page = NULL => JobOK(n, O)
               /\ n.page # NULL =>
                      /\ n.page \in Page /\ n.page \notin O
                      /\ ~InTable(m.sp, n.page) /\ ~InData(m.sp, n.page)
                      /\ JobOK(n, O \cup Block(n.page, order))
                      /\ Block(n.page, order) \subseteq Page /\ Block(n.page, order) \cap O = {}
<1> DEFINE n      == Allocate(m, order)
           levels == {k \in order .. MaxOrder : List(m.free, k) # {}}
           level  == Min(levels)
           page   == Min(List(m.free, level))
<1>1. m \in Jobs /\ m.free \subseteq Page /\ m.sp \in Spaces
  BY DEF JobOK, Jobs
<1>2. CASE levels = {}
  <2>1. n = [m EXCEPT !.page = NULL]
    BY <1>2 DEF Allocate
  <2>2. n \in Jobs /\ n.sp = m.sp /\ n.ok = m.ok /\ n.fate = m.fate /\ n.free = m.free /\ n.page = NULL
    BY <1>1, <2>1 DEF Jobs, Ptr
  <2> QED BY <2>2 DEF JobOK
<1>3. CASE levels # {}
  <2>1. n = [m EXCEPT !.page = page, !.free = @ \ Block(page, order)]
    BY <1>3 DEF Allocate
  <2>2. level \in order .. MaxOrder /\ List(m.free, level) # {}
    <3>1. levels \subseteq Nat
      BY MemoryAssumption
    <3>2. level \in levels
      <4> HIDE DEF levels
      <4> QED BY <1>3, <3>1, MinIsLeast
    <3> QED BY <3>2
  <2> HIDE DEF level
  <2>3. page \in m.free /\ Block(page, level) \subseteq m.free
    <3>1. List(m.free, level) \subseteq Nat
      BY <1>1, Layout DEF List, Blocks
    <3>2. page \in List(m.free, level)
      BY <2>2, <3>1, MinIsLeast
    <3> QED BY <3>2 DEF List, Blocks
  <2> HIDE DEF page
  <2>4. page \in Nat /\ Block(page, order) = {page} \cup (IF order = 1 THEN {page + 1} ELSE {})
    <3>1. page \in Nat
      BY <1>1, <2>3, Layout
    <3> QED BY <3>1, Blocks01
  <2>5. Block(page, order) \subseteq m.free
    <3>1. 2 ^ level \in Nat /\ (order = 1 => 2 ^ level >= 2)
      BY <2>2, BlockSize, MemoryAssumption
    <3>2. order = 1 => page + 1 \in Block(page, level)
      BY <2>4, <3>1 DEF Block
    <3> QED BY <2>3, <2>4, <3>2
  <2>6. page \in Page /\ page # NULL /\ Block(page, order) \subseteq Page /\ page \in Block(page, order)
    BY <1>1, <2>3, <2>4, <2>5, Layout
  <2>7. /\ n \in Jobs /\ n.sp = m.sp /\ n.ok = m.ok /\ n.fate = m.fate
        /\ n.free = m.free \ Block(page, order) /\ n.page = page
    BY <1>1, <2>1, <2>6 DEF Jobs, Ptr
  <2>8. \A x \in Page : x \in 0 .. NPages
    BY Layout
  <2>9. JobOK(n, O \cup Block(page, order))
    <3>1. OneUse(n.free, n.sp, O \cup Block(page, order))
      BY <2>5, <2>6, <2>7, <2>8 DEF JobOK, OneUse
    <3> QED BY <2>7, <3>1 DEF JobOK
  <2> QED BY <2>3, <2>5, <2>6, <2>7, <2>8, <2>9 DEF JobOK, OneUse
<1> QED BY <1>2, <1>3

\* deallocate() of a page that was nobody's makes it free.
LEMMA DeallocateFacts ==
    ASSUME NEW O, NEW m \in Jobs, NEW p \in Ptr
    PROVE  LET n == Deallocate(m, p)
           IN  /\ n \in Jobs /\ n.sp = m.sp /\ n.ok = m.ok /\ n.page = m.page
               /\ n.fate = "ok" => m.fate = "ok"
               /\ n.free = m.free \cup ({p} \ {NULL})
               /\ (p \in Page /\ p \notin O /\ JobOK(m, O \cup {p})) => JobOK(n, O)
<1> DEFINE n == Deallocate(m, p)
<1>1. /\ n \in Jobs /\ n.sp = m.sp /\ n.ok = m.ok /\ n.page = m.page
      /\ n.fate = "ok" => m.fate = "ok"
      /\ n.free = m.free \cup ({p} \ {NULL})
  BY DEF Deallocate, Wild, Jobs, Ptr, Fates
<1>2. ASSUME p \in Page, p \notin O, JobOK(m, O \cup {p}) PROVE JobOK(n, O)
  <2> HIDE DEF n
  <2>1. OneUse(n.free, n.sp, O)
    BY <1>1, <1>2, Layout DEF JobOK, OneUse
  <2> QED BY <1>1, <1>2, <2>1 DEF JobOK
<1> QED BY <1>1, <1>2

-----------------------------------------------------------------------------
(* Page tables. *)

\* A table is added to the page table, or there is no memory for it.
LEMMA TableFacts ==
    ASSUME NEW O, NEW m, JobOK(m, O), NEW e \in Tables
    PROVE  LET n == Table(m, e)
           IN  /\ JobOK(n, O) /\ Keeps(m, n)
               /\ n.ok = m.ok /\ n.fate = m.fate /\ n.sp.map = m.sp.map
<1> DEFINE n == Table(m, e)
           a == Allocate(m, 1)
<1>1. m \in Jobs /\ m.sp \in Spaces
  BY DEF JobOK, Jobs
<1>2. CASE m.sp.table[e] # NULL
  BY <1>2 DEF Table, Keeps
<1>3. CASE m.sp.table[e] = NULL
  <2>1. n = [a EXCEPT !.sp.table[e] = a.page]
    BY <1>3 DEF Table
  <2>2. a.sp = m.sp /\ a.ok = m.ok /\ a.fate = m.fate
    BY AllocateFacts
  <2>3. CASE a.page = NULL
    <3>1. JobOK(a, O)
      BY <2>3, AllocateFacts
    <3> HIDE DEF a
    <3>2. a.sp.table[e] = a.page /\ a \in Jobs /\ a.sp \in Spaces
      BY <1>3, <2>2, <2>3, <3>1 DEF JobOK, Jobs
    <3>3. n = a
      BY <2>1, <3>2 DEF Jobs, Spaces
    <3> QED BY <2>2, <3>1, <3>3 DEF Keeps
  <2>4. CASE a.page # NULL
    <3>1. /\ a.page \in Page /\ Block(a.page, 1) = {a.page, a.page + 1}
          /\ JobOK(a, O \cup Block(a.page, 1)) /\ Block(a.page, 1) \cap O = {}
      <4>1. /\ a.page \in Page
            /\ JobOK(a, O \cup Block(a.page, 1)) /\ Block(a.page, 1) \cap O = {}
        BY <2>4, AllocateFacts
      <4> QED BY <4>1, Blocks01, Layout
    <3> HIDE DEF a
    <3>2. a \in Jobs /\ a.sp \in Spaces
      BY <3>1 DEF JobOK, Jobs
    <3>3. /\ n \in Jobs /\ n.free = a.free /\ n.ok = a.ok /\ n.fate = a.fate
          /\ n.sp.table = [a.sp.table EXCEPT ![e] = a.page]
          /\ n.sp.map = a.sp.map /\ n.sp.root = a.sp.root
          /\ n.sp.frame = a.sp.frame /\ n.sp.shared = a.sp.shared
          /\ n.sp.sections = a.sp.sections /\ n.sp.stack = a.sp.stack
      BY <2>1, <3>1, <3>2 DEF Jobs, Spaces, Ptr
    <3>4. a.sp.table \in [Tables -> Ptr]
      BY <3>2 DEF Spaces
    <3>5. \A d \in Tables : n.sp.table[d] = IF d = e THEN a.page ELSE a.sp.table[d]
      BY <3>3, <3>4
    <3>6. \A x : InTable(n.sp, x) => InTable(a.sp, x) \/ x \in Block(a.page, 1)
      BY <3>1, <3>3, <3>5 DEF InTable
    <3>7. \A x : InData(n.sp, x) <=> InData(a.sp, x)
      BY <3>3 DEF InData
    <3>8. OneUse(n.free, n.sp, O)
      BY <3>1, <3>3, <3>6, <3>7 DEF JobOK, OneUse
    <3>9. Distinct(n.sp) /\ Placed(n.sp)
      BY <3>1, <3>3 DEF JobOK, Distinct, Placed
    <3>10. Entries(n.sp)
      <4>1. a.page # NULL
        BY <2>4
      <4>2. \A va \in User : Lower(va) \in Tables
        BY TablesOfAddress, Layout
      <4> QED BY <3>1, <3>3, <3>5, <4>1, <4>2 DEF JobOK, Entries
    <3> QED BY <2>2, <3>3, <3>8, <3>9, <3>10 DEF JobOK, Keeps
  <2> QED BY <2>3, <2>4
<1> QED BY <1>2, <1>3

\* pagetable_entry() adds tables, and nothing else.
LEMMA PagetableEntryFacts ==
    ASSUME NEW O, NEW m, JobOK(m, O), NEW va \in VA
    PROVE  LET n == PagetableEntry(m, va)
           IN  /\ JobOK(n, O) /\ Keeps(m, n)
               /\ n.ok = m.ok /\ n.fate = m.fate /\ n.sp.map = m.sp.map
<1>1. Lower(va) \in Tables /\ Upper(va) \in Tables
  BY TablesOfAddress
<1> DEFINE u == Table(m, Upper(va))
           n == Table(u, Lower(va))
<1>2. /\ JobOK(u, O) /\ Keeps(m, u)
      /\ u.ok = m.ok /\ u.fate = m.fate /\ u.sp.map = m.sp.map
  BY <1>1, TableFacts
<1> HIDE DEF u
<1>3. /\ JobOK(n, O) /\ Keeps(u, n)
      /\ n.ok = u.ok /\ n.fate = u.fate /\ n.sp.map = u.sp.map
  BY <1>1, <1>2, TableFacts
<1> HIDE DEF n
<1>4. PagetableEntry(m, va) \in {u, n}
  BY DEF PagetableEntry, u, n
<1> QED BY <1>2, <1>3, <1>4 DEF Keeps

\* An entry of the page table is set.
LEMMA SetEntry ==
    ASSUME NEW e \in Jobs, NEW va \in VA, NEW pa \in Ptr \cup {STATIC}
    PROVE  LET n == [e EXCEPT !.sp.map[va] = pa]
           IN  /\ n \in Jobs /\ n.fate = e.fate /\ n.free = e.free /\ n.ok = e.ok
               /\ n.sp.map = [e.sp.map EXCEPT ![va] = pa]
               /\ n.sp.table = e.sp.table /\ n.sp.root = e.sp.root
               /\ n.sp.frame = e.sp.frame /\ n.sp.shared = e.sp.shared
               /\ n.sp.sections = e.sp.sections /\ n.sp.stack = e.sp.stack
<1> DEFINE sp == [e.sp EXCEPT !.map = [e.sp.map EXCEPT ![va] = pa]]
           n  == [e EXCEPT !.sp = sp]
<1>1. e.sp \in Spaces /\ e.sp.map \in [VA -> Ptr \cup {STATIC}]
  BY DEF Jobs, Spaces
<1>2. [e.sp.map EXCEPT ![va] = pa] \in [VA -> Ptr \cup {STATIC}]
  BY <1>1
<1>3. /\ sp \in Spaces /\ sp.map = [e.sp.map EXCEPT ![va] = pa]
      /\ sp.table = e.sp.table /\ sp.root = e.sp.root
      /\ sp.frame = e.sp.frame /\ sp.shared = e.sp.shared
      /\ sp.sections = e.sp.sections /\ sp.stack = e.sp.stack
  BY <1>1, <1>2 DEF Spaces
<1> HIDE DEF sp
<1>4. n \in Jobs /\ n.fate = e.fate /\ n.free = e.free /\ n.ok = e.ok /\ n.sp = sp
  BY <1>3 DEF Jobs
<1>5. n = [e EXCEPT !.sp.map[va] = pa]
  BY DEF sp
<1> QED BY <1>3, <1>4, <1>5

\* How map_page() ends: it fails without memory for a table, panics if the address
\* is mapped already, or maps the page.
PageMapped(m, n, va, pa, O) ==
    /\ Keeps(m, n) /\ JobOK(n, O)
    /\ \/ /\ n.ok = FALSE /\ n.fate = m.fate /\ n.sp.map = m.sp.map
          /\ JobOK(n, O \cup {pa})
       \/ n.ok = m.ok /\ n.fate # "ok" /\ n.sp.map = m.sp.map
       \/ /\ n.ok = m.ok /\ n.fate = m.fate
          /\ m.sp.map[va] = NULL /\ n.sp.map = [m.sp.map EXCEPT ![va] = pa]

\* map_page() of a page that was nobody's, for an address of the program.
LEMMA MapPageFacts ==
    ASSUME NEW O, NEW m, NEW va \in User, NEW pa \in Page, pa \notin O, JobOK(m, O \cup {pa})
    PROVE  PageMapped(m, MapPage(m, va, pa), va, pa, O)
<1> DEFINE e == PagetableEntry(m, va)
           n == MapPage(m, va, pa)
<1>1. /\ JobOK(e, O \cup {pa}) /\ Keeps(m, e)
      /\ e.ok = m.ok /\ e.fate = m.fate /\ e.sp.map = m.sp.map
  BY PagetableEntryFacts, Layout
<1> HIDE DEF e
<1>2. e \in Jobs /\ e.sp \in Spaces /\ e.fate \in Fates /\ e.sp.map \in [VA -> Ptr \cup {STATIC}]
  BY <1>1 DEF JobOK, Jobs, Spaces
<1>3. CASE ~HasEntry(e, va)
  <2>1. n = [e EXCEPT !.ok = FALSE]
    BY <1>3 DEF MapPage, Failed, e
  <2>2. n \in Jobs /\ n.sp = e.sp /\ n.fate = e.fate /\ n.free = e.free /\ n.ok = FALSE
    BY <1>2, <2>1 DEF Jobs
  <2>3. JobOK(n, O \cup {pa})
    BY <1>1, <2>2 DEF JobOK
  <2> QED BY <1>1, <2>2, <2>3, FewerOthers DEF Keeps, PageMapped
<1>4. CASE HasEntry(e, va) /\ e.sp.map[va] # NULL
  <2>1. n = Panic(e)
    BY <1>4 DEF MapPage, e
  <2>2. n \in Jobs /\ n.sp = e.sp /\ n.fate # "ok" /\ n.free = e.free /\ n.ok = e.ok
    BY <1>2, <2>1 DEF Jobs, Panic, Fates
  <2>3. JobOK(n, O \cup {pa})
    BY <1>1, <2>2 DEF JobOK
  <2> QED BY <1>1, <2>2, <2>3, FewerOthers DEF Keeps, PageMapped
<1>5. CASE HasEntry(e, va) /\ e.sp.map[va] = NULL
  <2>1. n = [e EXCEPT !.sp.map[va] = pa]
    BY <1>5 DEF MapPage, e
  <2>2. /\ n \in Jobs /\ n.fate = e.fate /\ n.free = e.free /\ n.ok = e.ok
        /\ n.sp.map = [e.sp.map EXCEPT ![va] = pa]
        /\ n.sp.table = e.sp.table /\ n.sp.root = e.sp.root
        /\ n.sp.frame = e.sp.frame /\ n.sp.shared = e.sp.shared
        /\ n.sp.sections = e.sp.sections /\ n.sp.stack = e.sp.stack
    <3>1. va \in VA /\ pa \in Ptr \cup {STATIC}
      BY Layout DEF Ptr
    <3> QED BY <1>2, <2>1, <3>1, SetEntry
  <2>3. va \in VA /\ \A vb \in VA : n.sp.map[vb] = IF vb = va THEN pa ELSE e.sp.map[vb]
    BY <1>2, <2>2, Layout
  <2>4. \A x : InData(n.sp, x) => InData(e.sp, x) \/ x = pa
    BY <2>2, <2>3, Layout DEF InData
  <2>5. \A x : InTable(n.sp, x) <=> InTable(e.sp, x)
    BY <2>2 DEF InTable
  <2>6. OneUse(n.free, n.sp, O)
    BY <1>1, <2>2, <2>4, <2>5 DEF JobOK, OneUse
  <2>7. ~InData(e.sp, pa)
    BY <1>1, Layout DEF JobOK, OneUse
  <2>8. Distinct(n.sp)
    <3>1. Distinct(e.sp) /\ pa # e.sp.frame /\ pa # e.sp.shared /\ \A vb \in User : e.sp.map[vb] # pa
      BY <1>1, <2>7 DEF JobOK, InData
    <3>2. \A vb \in User : n.sp.map[vb] = IF vb = va THEN pa ELSE e.sp.map[vb]
      BY <2>3, Layout
    <3> QED BY <2>2, <3>1, <3>2 DEF Distinct
  <2>9. Entries(n.sp)
    <3>1. n.sp.table[Lower(va)] # NULL /\ pa # STATIC
      BY <1>5, <2>2, Layout DEF HasEntry
    <3> QED BY <1>1, <2>2, <2>3, <3>1, Layout DEF JobOK, Entries
  <2>10. Placed(n.sp)
    BY <1>1, <2>2 DEF JobOK, Placed
  <2>11. JobOK(n, O)
    BY <2>2, <2>6, <2>8, <2>9, <2>10 DEF JobOK
  <2> QED BY <1>1, <1>5, <2>2, <2>11 DEF Keeps, PageMapped
<1> QED BY <1>3, <1>4, <1>5

\* map_page() for an address above the program's.
LEMMA MapSpecialFacts ==
    ASSUME NEW O, NEW m, NEW va \in Special, NEW pa \in Ptr \cup {STATIC}, JobOK(m, O)
    PROVE  LET n == MapPage(m, va, pa)
           IN  /\ Keeps(m, n) /\ JobOK(n, O)
               /\ \A vb \in User : n.sp.map[vb] = m.sp.map[vb]
<1> DEFINE e == PagetableEntry(m, va)
           n == MapPage(m, va, pa)
<1>1. /\ JobOK(e, O) /\ Keeps(m, e)
      /\ e.ok = m.ok /\ e.fate = m.fate /\ e.sp.map = m.sp.map
  BY PagetableEntryFacts, Layout
<1> HIDE DEF e
<1>2. e \in Jobs /\ e.sp \in Spaces /\ e.fate \in Fates /\ e.sp.map \in [VA -> Ptr \cup {STATIC}]
  BY <1>1 DEF JobOK, Jobs, Spaces
<1>3. CASE ~HasEntry(e, va)
  <2>1. n = [e EXCEPT !.ok = FALSE]
    BY <1>3 DEF MapPage, Failed, e
  <2>2. n \in Jobs /\ n.sp = e.sp /\ n.fate = e.fate /\ n.free = e.free
    BY <1>2, <2>1 DEF Jobs
  <2> QED BY <1>1, <2>2 DEF Keeps, JobOK
<1>4. CASE HasEntry(e, va) /\ e.sp.map[va] # NULL
  <2>1. n = Panic(e)
    BY <1>4 DEF MapPage, e
  <2>2. n \in Jobs /\ n.sp = e.sp /\ n.fate # "ok" /\ n.free = e.free
    BY <1>2, <2>1 DEF Jobs, Panic, Fates
  <2> QED BY <1>1, <2>2 DEF Keeps, JobOK
<1>5. CASE HasEntry(e, va) /\ e.sp.map[va] = NULL
  <2>1. n = [e EXCEPT !.sp.map[va] = pa]
    BY <1>5 DEF MapPage, e
  <2>2. /\ n \in Jobs /\ n.fate = e.fate /\ n.free = e.free /\ n.ok = e.ok
        /\ n.sp.map = [e.sp.map EXCEPT ![va] = pa]
        /\ n.sp.table = e.sp.table /\ n.sp.root = e.sp.root
        /\ n.sp.frame = e.sp.frame /\ n.sp.shared = e.sp.shared
        /\ n.sp.sections = e.sp.sections /\ n.sp.stack = e.sp.stack
    <3>1. va \in VA /\ pa \in Ptr \cup {STATIC}
      BY Layout DEF Ptr
    <3> QED BY <1>2, <2>1, <3>1, SetEntry
  <2>3. \A vb \in User : n.sp.map[vb] = e.sp.map[vb]
    <3>1. User \subseteq VA /\ va \notin User
      BY Layout
    <3> QED BY <1>2, <2>2, <3>1
  <2>4. \A x : InData(n.sp, x) <=> InData(e.sp, x)
    BY <2>2, <2>3 DEF InData
  <2>5. \A x : InTable(n.sp, x) <=> InTable(e.sp, x)
    BY <2>2 DEF InTable
  <2>6. OneUse(n.free, n.sp, O)
    BY <1>1, <2>2, <2>4, <2>5 DEF JobOK, OneUse
  <2>7. Distinct(n.sp)
    BY <1>1, <2>2, <2>3 DEF JobOK, Distinct
  <2>8. Entries(n.sp)
    BY <1>1, <2>2, <2>3 DEF JobOK, Entries
  <2>9. Placed(n.sp)
    BY <1>1, <2>2 DEF JobOK, Placed
  <2>10. JobOK(n, O)
    BY <2>2, <2>6, <2>7, <2>8, <2>9 DEF JobOK
  <2> QED BY <1>1, <2>2, <2>3, <2>10 DEF Keeps
<1> QED BY <1>3, <1>4, <1>5

-----------------------------------------------------------------------------
(* Freeing. *)

\* n is m with the pages mapped in A unmapped and free.
Freed(m, n, A) ==
    /\ n \in Jobs /\ Keeps(m, n) /\ n.ok = m.ok /\ n.sp.table = m.sp.table
    /\ \A va \in VA : n.sp.map[va] = IF va \in A THEN NULL ELSE m.sp.map[va]
    /\ \A x : x \in n.free <=> x \in m.free \/ (x # NULL /\ \E va \in A : m.sp.map[va] = x)

\* A page of free_memory(): deallocate() and unmap_page().
LEMMA FreePageFacts ==
    ASSUME NEW m \in Jobs, Entries(m.sp), NEW va \in User
    PROVE  Freed(m, UnmapPage(Deallocate(m, m.sp.map[va]), va), {va})
<1> DEFINE d == Deallocate(m, m.sp.map[va])
           n == UnmapPage(d, va)
<1>1. m.sp \in Spaces /\ m.sp.map \in [VA -> Ptr \cup {STATIC}] /\ va \in VA
  BY Layout DEF Jobs, Spaces
<1>2. m.sp.map[va] \in Ptr
  BY <1>1 DEF Entries, Ptr
<1>3. /\ d \in Jobs /\ d.sp = m.sp /\ d.ok = m.ok
      /\ d.fate = "ok" => m.fate = "ok"
      /\ d.free = m.free \cup ({m.sp.map[va]} \ {NULL})
  BY <1>2, DeallocateFacts
<1> HIDE DEF d
<1>4. CASE m.sp.map[va] = NULL
  <2>1. n \in {d, Panic(d)}
    BY <1>3, <1>4 DEF UnmapPage
  <2>2. /\ n \in Jobs /\ n.sp = d.sp /\ n.ok = d.ok /\ n.free = d.free
        /\ n.fate = "ok" => d.fate = "ok"
    BY <1>3, <2>1 DEF Panic, Jobs, Fates
  <2> HIDE DEF n
  <2>3. Freed(m, n, {va})
    BY <1>3, <1>4, <2>2 DEF Freed, Keeps
  <2> QED BY <2>3 DEF n, d
<1>5. CASE m.sp.map[va] # NULL
  <2>1. HasEntry(d, va)
    BY <1>3, <1>5 DEF Entries, HasEntry
  <2>2. n = [d EXCEPT !.sp.map[va] = NULL]
    BY <1>3, <1>5, <2>1 DEF UnmapPage
  <2>3. /\ n \in Jobs /\ n.fate = d.fate /\ n.free = d.free /\ n.ok = d.ok
        /\ n.sp.map = [d.sp.map EXCEPT ![va] = NULL]
        /\ n.sp.table = d.sp.table /\ n.sp.root = d.sp.root
        /\ n.sp.frame = d.sp.frame /\ n.sp.shared = d.sp.shared
        /\ n.sp.sections = d.sp.sections /\ n.sp.stack = d.sp.stack
    BY <1>1, <1>3, <2>2, SetEntry DEF Ptr
  <2> HIDE DEF n
  <2>4. Freed(m, n, {va})
    BY <1>1, <1>3, <1>5, <2>3 DEF Freed, Keeps
  <2> QED BY <2>4 DEF n, d
<1> QED BY <1>4, <1>5

\* Freeing more and more.
LEMMA FreedMore ==
    ASSUME NEW m \in Jobs, NEW x, NEW n, NEW A, NEW B, B \subseteq VA, Freed(m, x, A), Freed(x, n, B)
    PROVE  Freed(m, n, A \cup B)
<1>1. /\ n \in Jobs /\ Keeps(m, n) /\ n.ok = m.ok /\ n.sp.table = m.sp.table
  BY DEF Freed, Keeps
<1>2. \A va \in VA : n.sp.map[va] = IF va \in A \cup B THEN NULL ELSE m.sp.map[va]
  BY DEF Freed
<1>3. \A p : p \in n.free <=> p \in m.free \/ (p # NULL /\ \E va \in A \cup B : m.sp.map[va] = p)
  BY DEF Freed
<1> QED BY <1>1, <1>2, <1>3 DEF Freed

\* Freeing keeps the tables of what stays mapped.
LEMMA FreedEntries ==
    ASSUME NEW m, NEW x, NEW A, Freed(m, x, A), Entries(m.sp)
    PROVE  Entries(x.sp)
BY Layout DEF Freed, Entries

\* The addresses of a section, in the order of the loops over it.
LEMMA SectionRange ==
    ASSUME NEW s \in Section
    PROVE  /\ DOMAIN Range1(s) = 1 .. s.size /\ s.size \in Nat /\ s.start \in Nat
           /\ \A k \in 1 .. s.size : Range1(s)[k] = s.start + k - 1 /\ Range1(s)[k] \in Pages(s)
           /\ Range(Range1(s)) = Pages(s)
<1>1. s.size \in Nat /\ s.start \in Nat
  BY DEF Section
<1>2. \A x \in Pages(s) : \E k \in 1 .. s.size : s.start + k - 1 = x
  <2> TAKE x \in Pages(s)
  <2>1. x - s.start + 1 \in 1 .. s.size /\ s.start + (x - s.start + 1) - 1 = x
    BY <1>1 DEF Pages
  <2> QED BY <2>1
<1>3. \A k \in 1 .. s.size : s.start + k - 1 \in Pages(s)
  BY <1>1 DEF Pages
<1> QED BY <1>1, <1>2, <1>3 DEF Range1, Range

\* free_memory() frees what the section maps, and nothing else.
LEMMA FreeMemoryFacts ==
    ASSUME NEW m \in Jobs, Entries(m.sp), NEW s \in Section, Pages(s) \subseteq User
    PROVE  Freed(m, FreeMemory(m, s), Pages(s))
<1> DEFINE Part(k) == s.start .. s.start + k - 1
           S == [k \in 0 .. s.size |-> {x \in Jobs : Freed(m, x, Part(k))}]
<1>1. FreeMemory(m, s) = FreeFold!Fold(0, m, Range1(s))
  BY DEF FreeMemory, FreeFold!Fold, FoldLeft, MapThenFoldSet, FreeFold!FoldLeft,
         FreeFold!MapThenFoldSet, FreePage, Max, FreeFold!Max
<1>2. m \in S[0]
  <2>1. Part(0) = {} /\ s.size \in Nat
    BY SectionRange
  <2>2. Freed(m, m, {})
    BY DEF Freed, Keeps
  <2> HIDE DEF Part
  <2>3. S[0] = {x \in Jobs : Freed(m, x, Part(0))}
    BY <2>1
  <2> QED BY <2>1, <2>2, <2>3
<1>3. ASSUME NEW k \in 1 .. s.size, NEW x \in S[k - 1] PROVE FreePage(0, x, Range1(s)[k]) \in S[k]
  <2> DEFINE va == Range1(s)[k]
  <2>1. s.size \in Nat /\ s.start \in Nat /\ va \in User /\ va \in VA /\ va = s.start + k - 1
    BY SectionRange, Layout
  <2>2. x \in Jobs /\ Freed(m, x, Part(k - 1))
    BY <2>1
  <2> HIDE DEF va
  <2>3. Entries(x.sp)
    BY <2>2, FreedEntries
  <2>4. Freed(x, FreePage(0, x, va), {va})
    BY <2>1, <2>2, <2>3, FreePageFacts DEF FreePage
  <2>5. Freed(m, FreePage(0, x, va), Part(k - 1) \cup {va})
    BY <2>1, <2>2, <2>4, FreedMore
  <2>6. Part(k - 1) \cup {va} = Part(k)
    BY <2>1
  <2>7. FreePage(0, x, va) \in Jobs
    BY <2>4 DEF Freed
  <2> HIDE DEF Part
  <2>8. S[k] = {y \in Jobs : Freed(m, y, Part(k))}
    BY <2>1
  <2> QED BY <2>5, <2>6, <2>7, <2>8 DEF va
<1>4. S[s.size] = {x \in Jobs : Freed(m, x, Pages(s))}
  BY SectionRange DEF Pages
<1> HIDE DEF S
<1>5. FreeFold!Fold(0, m, Range1(s)) \in S[s.size]
  BY <1>2, <1>3, SectionRange, FreeFold!FoldRule
<1> QED BY <1>1, <1>4, <1>5

\* Freeing keeps what is used apart.
LEMMA FreedKeeps ==
    ASSUME NEW O, NEW m, NEW n, NEW A, A \subseteq User, JobOK(m, O), Freed(m, n, A)
    PROVE  JobOK(n, O)
<1>1. \A va \in User : n.sp.map[va] = IF va \in A THEN NULL ELSE m.sp.map[va]
  BY Layout DEF Freed
<1>2. \A x : InTable(n.sp, x) <=> InTable(m.sp, x)
  BY DEF Freed, Keeps, InTable
<1>3. \A x : x # NULL /\ InData(n.sp, x) => InData(m.sp, x) /\ \A va \in A : m.sp.map[va] # x
  <2> SUFFICES ASSUME NEW x, x # NULL, InData(n.sp, x)
               PROVE  InData(m.sp, x) /\ \A va \in A : m.sp.map[va] # x
    OBVIOUS
  <2>1. Distinct(m.sp) /\ n.sp.frame = m.sp.frame /\ n.sp.shared = m.sp.shared
    BY DEF JobOK, Freed, Keeps
  <2> QED BY <1>1, <2>1 DEF InData, Distinct
<1>4. \A x \in 0 .. NPages : x # NULL
  BY Layout DEF NULL
<1>5. \A x : x \in n.free <=> x \in m.free \/ (x # NULL /\ \E va \in A : m.sp.map[va] = x)
  BY DEF Freed
<1>6. \A x : (\E va \in A : m.sp.map[va] = x) => InData(m.sp, x)
  BY DEF InData
<1>7. OneUse(n.free, n.sp, O)
  BY <1>2, <1>3, <1>4, <1>5, <1>6 DEF JobOK, OneUse
<1>8. Distinct(n.sp)
  BY <1>1 DEF JobOK, Distinct, Freed, Keeps
<1>9. Entries(n.sp)
  BY FreedEntries DEF JobOK
<1>10. Placed(n.sp)
  BY DEF JobOK, Placed, Freed, Keeps
<1>11. n \in Jobs
  BY DEF Freed
<1> QED BY <1>7, <1>8, <1>9, <1>10, <1>11 DEF JobOK

\* Where the sections and the stack of sp are.
SectionPages(q) == UNION {Pages(q[i]) : i \in DOMAIN q}
Owned(sp) == SectionPages(sp.sections) \cup Pages(sp.stack)

\* Sections and stack lie in the program's part of the address space.
LEMMA OwnedIsUser ==
    ASSUME NEW sp \in Spaces, Placed(sp)
    PROVE  /\ \A i \in DOMAIN sp.sections : sp.sections[i] \in Section /\ Pages(sp.sections[i]) \subseteq User
           /\ sp.stack \in Section /\ Pages(sp.stack) \subseteq User
           /\ Owned(sp) \subseteq User
<1>1. sp.sections \in Seq(Section) /\ sp.stack \in Section
  BY DEF Spaces
<1>2. ASSUME NEW i \in DOMAIN sp.sections
      PROVE  sp.sections[i] \in Section /\ Pages(sp.sections[i]) \subseteq User
  <2>1. sp.sections[i] \in Section
    BY <1>1
  <2>2. sp.sections[i].start + sp.sections[i].size <= MinStack
    BY DEF Placed
  <2> QED BY <2>1, <2>2, Layout DEF Section, Pages, User
<1>3. Pages(sp.stack) \subseteq User
  BY <1>1, Layout DEF Section, Pages, User, Placed
<1> QED BY <1>1, <1>2, <1>3 DEF Owned, SectionPages

\* The fold over the sections of a task.
FreeSection(c, m, s) == FreeMemory(m, s)
SectionFold == INSTANCE FoldProofs WITH Op <- FreeSection

\* The sections of a task are freed one after the other.
LEMMA FreeSectionsFacts ==
    ASSUME NEW m \in Jobs, Entries(m.sp), NEW q \in Seq(Section),
           \A i \in DOMAIN q : Pages(q[i]) \subseteq User
    PROVE  Freed(m, FoldLeft(FreeMemory, m, q), SectionPages(q))
<1> DEFINE Part(k) == UNION {Pages(q[i]) : i \in 1 .. k}
           S == [k \in 0 .. Len(q) |-> {x \in Jobs : Freed(m, x, Part(k))}]
<1>1. FoldLeft(FreeMemory, m, q) = SectionFold!Fold(0, m, q)
  BY DEF SectionFold!Fold, FoldLeft, MapThenFoldSet, SectionFold!FoldLeft,
         SectionFold!MapThenFoldSet, FreeSection, Max, SectionFold!Max
<1>2. Len(q) \in Nat /\ DOMAIN q = 1 .. Len(q) /\ \A i \in 1 .. Len(q) : q[i] \in Section
  OBVIOUS
<1>3. m \in S[0]
  <2>1. Part(0) = {}
    OBVIOUS
  <2>2. Freed(m, m, {})
    BY DEF Freed, Keeps
  <2> HIDE DEF Part
  <2>3. S[0] = {x \in Jobs : Freed(m, x, Part(0))}
    BY <1>2
  <2> QED BY <2>1, <2>2, <2>3
<1>4. ASSUME NEW k \in 1 .. Len(q), NEW x \in S[k - 1] PROVE FreeSection(0, x, q[k]) \in S[k]
  <2> DEFINE n == FreeSection(0, x, q[k])
  <2>1. x \in Jobs /\ Freed(m, x, Part(k - 1))
    BY <1>2
  <2>2. Entries(x.sp)
    BY <2>1, FreedEntries
  <2>3. Freed(x, n, Pages(q[k])) /\ Pages(q[k]) \subseteq VA
    BY <1>2, <2>1, <2>2, FreeMemoryFacts, Layout DEF FreeSection
  <2>4. Freed(m, n, Part(k - 1) \cup Pages(q[k]))
    BY <2>1, <2>3, FreedMore
  <2>5. Part(k - 1) \cup Pages(q[k]) = Part(k)
    <3>1. 1 .. k = (1 .. k - 1) \cup {k}
      BY <1>2
    <3> QED BY <3>1
  <2>6. n \in Jobs
    BY <2>3 DEF Freed
  <2> HIDE DEF Part, n
  <2>7. S[k] = {y \in Jobs : Freed(m, y, Part(k))}
    BY <1>2
  <2>8. n \in S[k]
    BY <2>4, <2>5, <2>6, <2>7
  <2> QED BY <2>8 DEF n
<1>5. S[Len(q)] = {x \in Jobs : Freed(m, x, SectionPages(q))}
  BY <1>2 DEF SectionPages
<1> HIDE DEF S
<1>6. SectionFold!Fold(0, m, q) \in S[Len(q)]
  BY <1>2, <1>3, <1>4, SectionFold!FoldRule
<1> QED BY <1>1, <1>5, <1>6

\* clear_user_memory_space(): sections and stack are unmapped and their pages free.
LEMMA ClearFacts ==
    ASSUME NEW m \in Jobs, Entries(m.sp), Placed(m.sp)
    PROVE  LET n == ClearUserMemorySpace(m)
           IN  /\ n \in Jobs /\ n.ok = m.ok /\ (n.fate = "ok" => m.fate = "ok")
               /\ n.sp.root = m.sp.root /\ n.sp.frame = m.sp.frame /\ n.sp.shared = m.sp.shared
               /\ n.sp.table = m.sp.table /\ n.sp.stack = m.sp.stack /\ n.sp.sections = <<>>
               /\ \E f : Freed(m, f, Owned(m.sp)) /\ n.free = f.free /\ n.sp.map = f.sp.map
<1> DEFINE n == ClearUserMemorySpace(m)
           g == FoldLeft(FreeMemory, m, m.sp.sections)
           f == FreeMemory(g, m.sp.stack)
<1>1. m.sp \in Spaces /\ m.sp.sections \in Seq(Section)
  BY DEF Jobs, Spaces
<1>2. Freed(m, g, SectionPages(m.sp.sections))
  BY <1>1, OwnedIsUser, FreeSectionsFacts
<1> HIDE DEF g
<1>3. g \in Jobs /\ Entries(g.sp)
  BY <1>2, FreedEntries DEF Freed
<1>4. Freed(g, f, Pages(m.sp.stack)) /\ Pages(m.sp.stack) \subseteq VA
  BY <1>1, <1>3, OwnedIsUser, FreeMemoryFacts, Layout
<1> HIDE DEF f
<1>5. Freed(m, f, Owned(m.sp))
  BY <1>2, <1>4, FreedMore DEF Owned
<1>6. n = [f EXCEPT !.sp.sections = <<>>]
  BY DEF ClearUserMemorySpace, f, g
<1>7. f \in Jobs /\ f.sp \in Spaces /\ <<>> \in Seq(Section)
  BY <1>5 DEF Freed, Jobs
<1>8. /\ n \in Jobs /\ n.ok = f.ok /\ n.fate = f.fate /\ n.free = f.free
      /\ n.sp.root = f.sp.root /\ n.sp.frame = f.sp.frame /\ n.sp.shared = f.sp.shared
      /\ n.sp.table = f.sp.table /\ n.sp.stack = f.sp.stack /\ n.sp.sections = <<>>
      /\ n.sp.map = f.sp.map
  BY <1>6, <1>7 DEF Jobs, Spaces
<1>9. /\ f.sp.root = m.sp.root /\ f.sp.frame = m.sp.frame /\ f.sp.shared = m.sp.shared
      /\ f.sp.table = m.sp.table /\ f.sp.stack = m.sp.stack
      /\ f.ok = m.ok /\ (f.fate = "ok" => m.fate = "ok")
  BY <1>5 DEF Freed, Keeps
<1> HIDE DEF n
<1>10. /\ n \in Jobs /\ n.ok = m.ok /\ (n.fate = "ok" => m.fate = "ok")
       /\ n.sp.root = m.sp.root /\ n.sp.frame = m.sp.frame /\ n.sp.shared = m.sp.shared
       /\ n.sp.table = m.sp.table /\ n.sp.stack = m.sp.stack /\ n.sp.sections = <<>>
       /\ Freed(m, f, Owned(m.sp)) /\ n.free = f.free /\ n.sp.map = f.sp.map
  BY <1>5, <1>8, <1>9
<1> QED BY <1>10 DEF n

\* clear_user_memory_space() keeps what is used apart.
LEMMA ClearKeeps ==
    ASSUME NEW O, NEW m, JobOK(m, O)
    PROVE  LET n == ClearUserMemorySpace(m)
           IN  /\ JobOK(n, O) /\ n.ok = m.ok /\ (n.fate = "ok" => m.fate = "ok")
               /\ n.sp.root = m.sp.root /\ n.sp.frame = m.sp.frame /\ n.sp.shared = m.sp.shared
               /\ n.sp.sections = <<>>
               /\ \A va \in User : n.sp.map[va] = IF va \in Owned(m.sp) THEN NULL ELSE m.sp.map[va]
<1> DEFINE n == ClearUserMemorySpace(m)
<1>1. m \in Jobs /\ Entries(m.sp) /\ Placed(m.sp) /\ m.sp \in Spaces
  BY DEF JobOK, Jobs
<1>2. PICK f :
      /\ n \in Jobs /\ n.ok = m.ok /\ (n.fate = "ok" => m.fate = "ok")
      /\ n.sp.root = m.sp.root /\ n.sp.frame = m.sp.frame /\ n.sp.shared = m.sp.shared
      /\ n.sp.table = m.sp.table /\ n.sp.stack = m.sp.stack /\ n.sp.sections = <<>>
      /\ Freed(m, f, Owned(m.sp)) /\ n.free = f.free /\ n.sp.map = f.sp.map
  BY <1>1, ClearFacts
<1>3. JobOK(f, O)
  BY <1>1, <1>2, FreedKeeps, OwnedIsUser
<1>4. /\ f.sp.root = m.sp.root /\ f.sp.frame = m.sp.frame /\ f.sp.shared = m.sp.shared
      /\ f.sp.table = m.sp.table /\ f.sp.stack = m.sp.stack
  BY <1>2 DEF Freed, Keeps
<1> HIDE DEF n
<1>5. \A x : (InTable(n.sp, x) <=> InTable(f.sp, x)) /\ (InData(n.sp, x) <=> InData(f.sp, x))
  BY <1>2, <1>4 DEF InTable, InData
<1>6. OneUse(n.free, n.sp, O)
  BY <1>2, <1>3, <1>5 DEF JobOK, OneUse
<1>7. Distinct(n.sp)
  BY <1>2, <1>3, <1>4 DEF JobOK, Distinct
<1>8. Entries(n.sp)
  BY <1>2, <1>3, <1>4 DEF JobOK, Entries
<1>9. Placed(n.sp)
  <2>1. DOMAIN n.sp.sections = {}
    BY <1>2
  <2> QED BY <1>1, <1>2, <2>1 DEF Placed
<1>10. \A va \in User : n.sp.map[va] = IF va \in Owned(m.sp) THEN NULL ELSE m.sp.map[va]
  BY <1>2, Layout DEF Freed
<1>11. JobOK(n, O)
  BY <1>2, <1>6, <1>7, <1>8, <1>9 DEF JobOK
<1>12. /\ JobOK(n, O) /\ n.ok = m.ok /\ (n.fate = "ok" => m.fate = "ok")
       /\ n.sp.root = m.sp.root /\ n.sp.frame = m.sp.frame /\ n.sp.shared = m.sp.shared
       /\ n.sp.sections = <<>>
       /\ \A va \in User : n.sp.map[va] = IF va \in Owned(m.sp) THEN NULL ELSE m.sp.map[va]
  BY <1>2, <1>10, <1>11
<1> QED BY <1>12 DEF n

\* An address space that is gone uses nothing.
LEMMA VoidFacts ==
    /\ Void \in Spaces /\ Distinct(Void) /\ Entries(Void) /\ Placed(Void)
    /\ \A x \in 0 .. NPages : ~InTable(Void, x) /\ ~InData(Void, x)
    /\ Owned(Void) = {} /\ \A va \in User : Void.map[va] = NULL
    /\ Void.root = NULL /\ Void.sections = <<>>
<1>1. Void \in Spaces
  BY Layout DEF Void, Spaces, Section, Ptr
<1>2. /\ Void.root = NULL /\ Void.frame = NULL /\ Void.shared = NULL
      /\ \A e \in Tables : Void.table[e] = NULL
      /\ \A va \in User : Void.map[va] = NULL
      /\ Void.sections = <<>> /\ Void.stack.start = 0 /\ Void.stack.size = 0
  BY Layout DEF Void
<1> HIDE DEF Void
<1>3. \A x \in 0 .. NPages : x # NULL
  BY Layout DEF NULL
<1>4. DOMAIN Void.sections = {} /\ Pages(Void.stack) = {}
  BY <1>2 DEF Pages
<1> QED BY <1>1, <1>2, <1>3, <1>4
        DEF Distinct, Entries, Placed, InTable, InData, Owned, SectionPages

\* The fold of free_pagetable() over the tables below the root.
FreeTable(c, x, e) == Deallocate(x, x.sp.table[e])
TableFold == INSTANCE FoldProofs WITH Op <- FreeTable

\* n is m with pages of the tables free.
TablesFreed(m, n) ==
    /\ n \in Jobs /\ n.sp = m.sp /\ n.ok = m.ok /\ (n.fate = "ok" => m.fate = "ok")
    /\ m.free \subseteq n.free
    /\ \A x \in n.free : x \in m.free \/ InTable(m.sp, x)

\* free_pagetable() frees pages of tables, and nothing else.
LEMMA FreePagetableFacts ==
    ASSUME NEW m \in Jobs
    PROVE  TablesFreed(m, FreePagetable(m))
<1> DEFINE last == TRAMPOLINE \div (Span * Span)
           q == [i \in 1 .. last + 1 |-> <<1, i - 1>>]
           x == TableFold!Fold(0, m, q)
           n == Deallocate(x, m.sp.root)
           S == [k \in 0 .. last + 1 |-> {y \in Jobs : TablesFreed(m, y)}]
<1>1. last \in Nat
  <2>1. TRAMPOLINE \in Nat /\ Span * Span \in Nat \ {0}
    BY MemoryAssumption DEF TRAMPOLINE
  <2> DEFINE d == Span * Span
  <2> HIDE DEF d
  <2>2. TRAMPOLINE \div d \in Nat
    BY <2>1, DivisionKeepsOrder DEF d
  <2> QED BY <2>2 DEF d
<1>2. \A e \in {1} \X (0 .. last) : e \in Tables
  BY DEF Tables
<1>3. FreePagetable(m) = n
  BY DEF FreePagetable, TableFold!Fold, FoldLeft, MapThenFoldSet, TableFold!FoldLeft,
         TableFold!MapThenFoldSet, FreeTable, Max, TableFold!Max
<1> HIDE DEF last
<1>4. DOMAIN q = 1 .. last + 1 /\ \A k \in 1 .. last + 1 : q[k] \in Tables
  BY <1>1, <1>2
<1> HIDE DEF q
<1>5. \A k \in 0 .. last + 1 : S[k] = {y \in Jobs : TablesFreed(m, y)}
  OBVIOUS
<1> HIDE DEF S
<1>6. \A p : p \in Page => p \in {p, p + 1}
  OBVIOUS
<1>7. ASSUME NEW y \in Jobs, TablesFreed(m, y), NEW p \in Ptr, p # NULL => InTable(m.sp, p)
      PROVE  TablesFreed(m, Deallocate(y, p))
  <2>1. /\ Deallocate(y, p) \in Jobs /\ Deallocate(y, p).sp = y.sp /\ Deallocate(y, p).ok = y.ok
        /\ Deallocate(y, p).fate = "ok" => y.fate = "ok"
        /\ Deallocate(y, p).free = y.free \cup ({p} \ {NULL})
    BY DeallocateFacts
  <2> QED BY <1>7, <2>1 DEF TablesFreed
<1>8. m.sp \in Spaces /\ m.sp.root \in Ptr /\ m.sp.table \in [Tables -> Ptr]
  BY DEF Jobs, Spaces
<1>9. m \in S[0]
  BY <1>1, <1>5 DEF TablesFreed
<1>10. ASSUME NEW k \in 1 .. last + 1, NEW y \in S[k - 1] PROVE FreeTable(0, y, q[k]) \in S[k]
  <2>1. y \in Jobs /\ TablesFreed(m, y) /\ y.sp = m.sp
    BY <1>1, <1>5 DEF TablesFreed
  <2>2. m.sp.table[q[k]] \in Ptr /\ (m.sp.table[q[k]] # NULL => InTable(m.sp, m.sp.table[q[k]]))
    BY <1>4, <1>8 DEF InTable
  <2>3. TablesFreed(m, Deallocate(y, m.sp.table[q[k]]))
    BY <1>7, <2>1, <2>2
  <2>4. FreeTable(0, y, q[k]) = Deallocate(y, m.sp.table[q[k]])
    BY <2>1 DEF FreeTable
  <2> QED BY <1>1, <1>5, <2>3, <2>4 DEF TablesFreed
<1>11. x \in S[last + 1]
  BY <1>1, <1>4, <1>9, <1>10, TableFold!FoldRule
<1> HIDE DEF x
<1>12. x \in Jobs /\ TablesFreed(m, x)
  BY <1>1, <1>5, <1>11
<1>13. m.sp.root # NULL => InTable(m.sp, m.sp.root)
  BY DEF InTable
<1> QED BY <1>3, <1>7, <1>8, <1>12, <1>13

\* free_user_memory(): the pages of the task's data are free, and some of its tables.
LEMMA FreeUserMemoryFacts ==
    ASSUME NEW m \in Jobs, Entries(m.sp), Placed(m.sp)
    PROVE  LET n == FreeUserMemory(m)
           IN  /\ n \in Jobs /\ n.ok = m.ok /\ (n.fate = "ok" => m.fate = "ok")
               /\ {m.sp.frame, m.sp.shared} \ {NULL} \subseteq n.free
               /\ \A va \in Owned(m.sp) : m.sp.map[va] # NULL => m.sp.map[va] \in n.free
               /\ \A x : x \in n.free =>
                      x \in m.free \/ (x # NULL /\ (InTable(m.sp, x) \/ InData(m.sp, x)))
<1> DEFINE n == FreeUserMemory(m)
           a == Deallocate(m, m.sp.frame)
           b == Deallocate(a, m.sp.shared)
           c == ClearUserMemorySpace(b)
<1>1. m.sp \in Spaces /\ m.sp.frame \in Ptr /\ m.sp.shared \in Ptr
  BY DEF Jobs, Spaces
<1>2. /\ a \in Jobs /\ a.sp = m.sp /\ a.ok = m.ok /\ (a.fate = "ok" => m.fate = "ok")
      /\ a.free = m.free \cup ({m.sp.frame} \ {NULL})
  BY <1>1, DeallocateFacts
<1> HIDE DEF a
<1>3. /\ b \in Jobs /\ b.sp = m.sp /\ b.ok = m.ok /\ (b.fate = "ok" => m.fate = "ok")
      /\ b.free = a.free \cup ({m.sp.shared} \ {NULL})
  BY <1>1, <1>2, DeallocateFacts
<1> HIDE DEF b
<1>4. PICK g :
      /\ c \in Jobs /\ c.ok = m.ok /\ (c.fate = "ok" => b.fate = "ok")
      /\ c.sp.root = m.sp.root /\ c.sp.table = m.sp.table
      /\ Freed(b, g, Owned(m.sp)) /\ c.free = g.free
  BY <1>3, ClearFacts
<1>5. \A x : x \in c.free <=> x \in b.free \/ (x # NULL /\ \E va \in Owned(m.sp) : m.sp.map[va] = x)
  BY <1>3, <1>4 DEF Freed
<1> HIDE DEF c
<1>6. TablesFreed(c, n)
  BY <1>4, FreePagetableFacts DEF FreeUserMemory, a, b, c
<1> HIDE DEF n
<1>7. \A x : InTable(c.sp, x) => InTable(m.sp, x)
  BY <1>4 DEF InTable
<1>8. \A x : x \in {m.sp.frame, m.sp.shared} \/ (\E va \in Owned(m.sp) : m.sp.map[va] = x)
              => InData(m.sp, x)
  <2>1. Owned(m.sp) \subseteq User
    BY <1>1, OwnedIsUser
  <2> QED BY <2>1 DEF InData
<1>9. \A x : x \in c.free => x \in m.free \/ (x # NULL /\ InData(m.sp, x))
  BY <1>2, <1>3, <1>5, <1>8
<1>10. \A x : x \in n.free =>
           x \in m.free \/ (x # NULL /\ (InTable(m.sp, x) \/ InData(m.sp, x)))
  <2>1. n.free \subseteq Page
    BY <1>6 DEF TablesFreed, Jobs
  <2>2. \A x \in n.free : x # NULL
    BY <2>1, Layout
  <2> QED BY <1>6, <1>7, <1>9, <2>2 DEF TablesFreed
<1>11. /\ n \in Jobs /\ n.ok = m.ok /\ (n.fate = "ok" => m.fate = "ok")
       /\ c.free \subseteq n.free
  BY <1>3, <1>4, <1>6 DEF TablesFreed
<1>12. /\ {m.sp.frame, m.sp.shared} \ {NULL} \subseteq n.free
       /\ \A va \in Owned(m.sp) : m.sp.map[va] # NULL => m.sp.map[va] \in n.free
  BY <1>2, <1>3, <1>5, <1>11
<1> QED BY <1>10, <1>11, <1>12 DEF n

\* A task that is no more uses nothing.
LEMMA GoneFacts ==
    ASSUME NEW O, NEW m \in Jobs, \A x \in O : x \notin m.free
    PROVE  JobOK(Gone(m), O) /\ Gone(m).sp = Void /\ Gone(m).free = m.free
           /\ Gone(m).ok = m.ok /\ Gone(m).fate = m.fate
<1> DEFINE n == Gone(m)
<1>1. n \in Jobs /\ n.sp = Void /\ n.free = m.free /\ n.ok = m.ok /\ n.fate = m.fate
  BY VoidFacts DEF Gone, Jobs
<1> HIDE DEF n
<1>2. OneUse(n.free, n.sp, O)
  BY <1>1, VoidFacts DEF OneUse
<1>3. JobOK(n, O)
  BY <1>1, <1>2, VoidFacts DEF JobOK
<1> QED BY <1>1, <1>3 DEF n

\* A task whose memory is freed, and that is no more.
LEMMA EndOfTask ==
    ASSUME NEW O, NEW m, JobOK(m, O)
    PROVE  LET n == Gone(FreeUserMemory(m))
           IN  /\ JobOK(n, O) /\ n.sp = Void /\ n.ok = m.ok /\ (n.fate = "ok" => m.fate = "ok")
               /\ {m.sp.frame, m.sp.shared} \ {NULL} \subseteq n.free
               /\ \A va \in Owned(m.sp) : m.sp.map[va] # NULL => m.sp.map[va] \in n.free
<1> DEFINE f == FreeUserMemory(m)
           n == Gone(f)
<1>1. m \in Jobs /\ Entries(m.sp) /\ Placed(m.sp)
  BY DEF JobOK
<1>2. /\ f \in Jobs /\ f.ok = m.ok /\ (f.fate = "ok" => m.fate = "ok")
      /\ {m.sp.frame, m.sp.shared} \ {NULL} \subseteq f.free
      /\ \A va \in Owned(m.sp) : m.sp.map[va] # NULL => m.sp.map[va] \in f.free
      /\ \A x : x \in f.free =>
             x \in m.free \/ (x # NULL /\ (InTable(m.sp, x) \/ InData(m.sp, x)))
  BY <1>1, FreeUserMemoryFacts
<1> HIDE DEF f
<1>3. \A x \in O : x \notin f.free
  <2>1. f.free \subseteq 0 .. NPages
    BY <1>2, Layout DEF Jobs
  <2> QED BY <1>2, <2>1 DEF JobOK, OneUse
<1>4. JobOK(n, O) /\ n.sp = Void /\ n.free = f.free /\ n.ok = f.ok /\ n.fate = f.fate
  BY <1>2, <1>3, GoneFacts
<1> QED BY <1>2, <1>4 DEF f

-----------------------------------------------------------------------------
(* Mapping memory for the user. *)

\* n is m with the addresses of A mapped; if one was mapped before, the machine stops.
Added(m, n, A) ==
    /\ Keeps(m, n)
    /\ \A va \in User \ A : n.sp.map[va] = m.sp.map[va]
    /\ n.fate = "ok" => \A va \in A : m.sp.map[va] = NULL /\ n.sp.map[va] # NULL

\* A failure changes nothing else.
LEMMA FailedFacts ==
    ASSUME NEW O, NEW m, JobOK(m, O)
    PROVE  JobOK(Failed(m), O) /\ Failed(m).ok = FALSE /\ Failed(m).fate = m.fate
<1>1. m \in Jobs
  BY DEF JobOK
<1> DEFINE n == Failed(m)
<1>2. n \in Jobs /\ n.ok = FALSE /\ n.fate = m.fate /\ n.free = m.free /\ n.sp = m.sp
  BY <1>1 DEF Failed, Jobs
<1> QED BY <1>2 DEF JobOK

\* map_page_for_user(), and the page of set_stack() and enlarge_stack_by_a_page().
LEMMA MapPageForUserFacts ==
    ASSUME NEW O, NEW m, JobOK(m, O), m.ok, NEW va \in User
    PROVE  LET n == MapPageForUser(m, va)
           IN  /\ JobOK(n, O) /\ (n.fate = "ok" => m.fate = "ok")
               /\ n.ok => Added(m, n, {va})
<1> DEFINE a == Allocate(m, 0)
           b == MapPage(a, va, a.page)
           n == MapPageForUser(m, va)
<1>1. a.sp = m.sp /\ a.ok = m.ok /\ a.fate = m.fate
  BY AllocateFacts
<1>2. CASE a.page = NULL
  <2>1. JobOK(a, O)
    BY <1>2, AllocateFacts
  <2>2. n = Failed(a)
    BY <1>2 DEF MapPageForUser
  <2> HIDE DEF n, a
  <2>3. JobOK(n, O) /\ ~n.ok /\ (n.fate = "ok" => m.fate = "ok")
    BY <1>1, <2>1, <2>2, FailedFacts
  <2> QED BY <2>3 DEF n
<1>3. CASE a.page # NULL
  <2>1. a.page \in Page /\ a.page \notin O /\ JobOK(a, O \cup Block(a.page, 0))
    BY <1>3, AllocateFacts
  <2>2. Block(a.page, 0) = {a.page}
    BY <2>1, Blocks01, Layout
  <2>3. n = IF b.ok THEN b ELSE Deallocate(b, a.page)
    BY <1>3 DEF MapPageForUser, OrElse
  <2> HIDE DEF n, a
  <2>7. JobOK(a, O \cup {a.page})
    BY <2>1, <2>2
  <2>8. PageMapped(a, b, va, a.page, O)
    BY <2>1, <2>7, MapPageFacts
  <2>4. /\ Keeps(a, b) /\ JobOK(b, O)
        /\ \/ /\ b.ok = FALSE /\ b.fate = a.fate /\ b.sp.map = a.sp.map
              /\ JobOK(b, O \cup {a.page})
           \/ b.ok = a.ok /\ b.fate # "ok" /\ b.sp.map = a.sp.map
           \/ /\ b.ok = a.ok /\ b.fate = a.fate
              /\ a.sp.map[va] = NULL /\ b.sp.map = [a.sp.map EXCEPT ![va] = a.page]
    BY <2>8 DEF PageMapped
  <2> HIDE DEF b
  <2>5. CASE ~b.ok
    <3>1. JobOK(b, O \cup {a.page}) /\ b.fate = a.fate
      BY <1>1, <2>4, <2>5
    <3>2. b \in Jobs /\ a.page \in Ptr
      BY <2>1, <3>1 DEF JobOK, Ptr
    <3>3. n = Deallocate(b, a.page)
      BY <2>3, <2>5
    <3>4. JobOK(n, O) /\ n.ok = b.ok /\ (n.fate = "ok" => b.fate = "ok")
      <4> DEFINE d == Deallocate(b, a.page)
      <4>1. /\ d.ok = b.ok /\ (d.fate = "ok" => b.fate = "ok")
            /\ (a.page \in Page /\ a.page \notin O /\ JobOK(b, O \cup {a.page})) => JobOK(d, O)
        BY <3>2, DeallocateFacts
      <4>2. n = d
        BY <3>3
      <4> HIDE DEF d
      <4> QED BY <2>1, <3>1, <4>1, <4>2
    <3>5. JobOK(n, O) /\ (n.fate = "ok" => m.fate = "ok") /\ ~n.ok
      BY <1>1, <2>5, <3>1, <3>4
    <3> QED BY <3>5 DEF n
  <2>6. CASE b.ok
    <3>1. n = b
      BY <2>3, <2>6
    <3>2. m.sp.map \in [VA -> Ptr \cup {STATIC}] /\ va \in VA /\ a.page # NULL
      BY <1>3, Layout DEF JobOK, Jobs, Spaces
    <3>3. Keeps(m, b)
      BY <1>1, <2>4 DEF Keeps
    <3>4. \/ b.fate # "ok" /\ b.sp.map = m.sp.map
          \/ m.sp.map[va] = NULL /\ b.sp.map = [m.sp.map EXCEPT ![va] = a.page]
      BY <1>1, <2>4, <2>6
    <3>5. Added(m, b, {va})
      BY <3>2, <3>3, <3>4, Layout DEF Added
    <3>6. JobOK(n, O) /\ (n.fate = "ok" => m.fate = "ok") /\ Added(m, n, {va})
      BY <2>4, <3>1, <3>3, <3>5 DEF Keeps
    <3> QED BY <3>6 DEF n
  <2> QED BY <2>5, <2>6
<1> QED BY <1>2, <1>3

\* A turn of map_section_for_user().
MapTurn(s, m, va) ==
    Then(m, LAMBDA y : OrElse(MapPageForUser(y, va),
                              LAMBDA n : FreeMemory(n, [s EXCEPT !.size = va - s.start])))
MapFold == INSTANCE FoldProofs WITH Op <- MapTurn

\* map_section_for_user() maps the whole section, or fails.
LEMMA MapSectionFacts ==
    ASSUME NEW O, NEW m, JobOK(m, O), m.ok, NEW s \in Section, Pages(s) \subseteq User
    PROVE  LET n == MapSectionForUser(m, s)
           IN  /\ JobOK(n, O) /\ (n.fate = "ok" => m.fate = "ok")
               /\ n.ok => Added(m, n, Pages(s))
<1> DEFINE Part(k) == s.start .. s.start + k - 1
           OK(x, k) == /\ JobOK(x, O) /\ (x.fate = "ok" => m.fate = "ok")
                       /\ x.ok => Added(m, x, Part(k))
           S == [k \in 0 .. s.size |-> {x \in Jobs : OK(x, k)}]
<1>1. MapSectionForUser(m, s) = MapFold!Fold(s, m, Range1(s))
  BY DEF MapSectionForUser, MapFold!Fold, FoldLeft, MapThenFoldSet, MapFold!FoldLeft,
         MapFold!MapThenFoldSet, MapTurn, Max, MapFold!Max
<1>2. s.size \in Nat /\ s.start \in Nat /\ m \in Jobs
  BY SectionRange DEF JobOK
<1>3. m \in S[0]
  <2>1. Part(0) = {}
    BY <1>2
  <2>2. Added(m, m, {})
    BY DEF Added, Keeps
  <2> HIDE DEF Part
  <2>3. OK(m, 0)
    BY <2>1, <2>2
  <2> HIDE DEF OK
  <2> QED BY <1>2, <2>3
<1>4. ASSUME NEW k \in 1 .. s.size, NEW x \in S[k - 1] PROVE MapTurn(s, x, Range1(s)[k]) \in S[k]
  <2> DEFINE va == Range1(s)[k]
             y  == MapPageForUser(x, va)
             q  == [s EXCEPT !.size = va - s.start]
             n  == MapTurn(s, x, va)
  <2>1. va \in User /\ va = s.start + k - 1 /\ k - 1 \in 0 .. s.size
    BY <1>2, SectionRange
  <2> HIDE DEF va
  <2>2. x \in Jobs /\ OK(x, k - 1)
    <3> HIDE DEF OK
    <3> QED BY <2>1
  <2>3. CASE ~x.ok
    <3>1. n = x
      BY <2>3 DEF MapTurn, Then
    <3> QED BY <2>2, <2>3, <3>1 DEF va
  <2>4. CASE x.ok
    <3>1. n = IF y.ok THEN y ELSE FreeMemory(y, q)
      BY <2>4 DEF MapTurn, Then, OrElse
    <3>2. JobOK(y, O) /\ (y.fate = "ok" => x.fate = "ok") /\ (y.ok => Added(x, y, {va}))
      BY <2>1, <2>2, <2>4, MapPageForUserFacts
    <3> HIDE DEF n, y
    <3>3. y \in Jobs /\ Entries(y.sp)
      BY <3>2 DEF JobOK
    <3>4. CASE y.ok
      <4>1. Added(m, x, Part(k - 1)) /\ Added(x, y, {va})
        BY <2>2, <2>4, <3>2, <3>4
      <4>2. Part(k) = Part(k - 1) \cup {va} /\ va \notin Part(k - 1) /\ Part(k) \subseteq User
        BY <1>2, <2>1 DEF Pages
      <4> HIDE DEF Part
      <4>3. Added(m, y, Part(k))
        <5>1. Keeps(m, y)
          BY <4>1 DEF Added, Keeps
        <5>2. \A vb \in User \ Part(k) : y.sp.map[vb] = m.sp.map[vb]
          BY <4>1, <4>2 DEF Added
        <5>3. y.fate = "ok" => x.fate = "ok"
          BY <4>1 DEF Added, Keeps
        <5>4. y.fate = "ok" => \A vb \in Part(k) : m.sp.map[vb] = NULL /\ y.sp.map[vb] # NULL
          BY <4>1, <4>2, <5>3 DEF Added
        <5> QED BY <5>1, <5>2, <5>4 DEF Added
      <4>4. OK(y, k) /\ n = y
        BY <2>2, <3>1, <3>2, <3>4, <4>3
      <4> HIDE DEF OK
      <4> QED BY <1>2, <3>3, <4>4 DEF n, va
    <3>5. CASE ~y.ok
      <4>1. q \in Section /\ Pages(q) \subseteq User
        <5>1. q \in Section /\ q.start = s.start /\ q.size = k - 1
          BY <1>2, <2>1 DEF Section
        <5> HIDE DEF q
        <5>2. Pages(q) \subseteq Pages(s)
          BY <1>2, <5>1 DEF Pages
        <5> QED BY <5>1, <5>2
      <4>2. n = FreeMemory(y, q)
        BY <3>1, <3>5
      <4> HIDE DEF q
      <4>3. Freed(y, n, Pages(q))
        BY <3>3, <4>1, <4>2, FreeMemoryFacts
      <4>4. JobOK(n, O)
        BY <3>2, <4>1, <4>3, FreedKeeps
      <4>5. n.ok = y.ok /\ (n.fate = "ok" => y.fate = "ok") /\ n \in Jobs
        BY <4>3 DEF Freed, Keeps
      <4>6. OK(n, k)
        BY <2>2, <3>2, <3>5, <4>4, <4>5
      <4> HIDE DEF OK
      <4> QED BY <1>2, <4>5, <4>6 DEF n, va
    <3> QED BY <3>4, <3>5
  <2> QED BY <2>3, <2>4
<1>5. Part(s.size) = Pages(s)
  BY DEF Pages
<1> HIDE DEF Part, OK
<1>6. S[s.size] = {x \in Jobs : OK(x, s.size)}
  BY <1>2
<1> HIDE DEF S
<1>7. MapFold!Fold(s, m, Range1(s)) \in S[s.size]
  BY <1>3, <1>4, SectionRange, MapFold!FoldRule
<1>8. OK(MapSectionForUser(m, s), s.size)
  BY <1>1, <1>6, <1>7
<1> QED BY <1>5, <1>8 DEF OK

-----------------------------------------------------------------------------
(* Loading a program. *)

Disjoint(q) == \A i, j \in DOMAIN q : i # j => Pages(q[i]) \cap Pages(q[j]) = {}
Low(q)      == \A i \in DOMAIN q : q[i].start + q[i].size + 2 <= MinStack

\* What is mapped can be freed again: it is in a section or the stack, and the
\* sections do not overlap.
Covered(sp) ==
    /\ \A va \in User : sp.map[va] # NULL => va \in Owned(sp)
    /\ Disjoint(sp.sections)

\* n goes on with what m began, for the same task; no disaster is forgotten.
SameOwner(m, n) ==
    n.sp.root = m.sp.root /\ n.sp.frame = m.sp.frame /\ n.sp.shared = m.sp.shared

\* x is m with some segments of a program loaded, or has failed.
Loading(m, x, O) ==
    /\ JobOK(x, O) /\ (x.fate = "ok" => m.fate = "ok")
    /\ x.ok =>
           /\ SameOwner(m, x) /\ Low(x.sp.sections)
           /\ x.fate = "ok" =>
                  /\ \A va \in User : x.sp.map[va] # NULL <=> va \in SectionPages(x.sp.sections)
                  /\ Disjoint(x.sp.sections)

\* One more section.
LEMMA AppendSection ==
    ASSUME NEW q \in Seq(Section), NEW s \in Section
    PROVE  /\ Append(q, s) \in Seq(Section)
           /\ SectionPages(Append(q, s)) = SectionPages(q) \cup Pages(s)
           /\ Low(q) /\ s.start + s.size + 2 <= MinStack => Low(Append(q, s))
           /\ Disjoint(q) /\ Pages(s) \cap SectionPages(q) = {} => Disjoint(Append(q, s))
<1> DEFINE r == Append(q, s)
<1>1. /\ r \in Seq(Section) /\ DOMAIN r = DOMAIN q \cup {Len(q) + 1} /\ Len(q) + 1 \notin DOMAIN q
      /\ r[Len(q) + 1] = s /\ \A i \in DOMAIN q : r[i] = q[i]
  OBVIOUS
<1> HIDE DEF r
<1>2. SectionPages(r) = SectionPages(q) \cup Pages(s)
  BY <1>1 DEF SectionPages
<1>3. Low(q) /\ s.start + s.size + 2 <= MinStack => Low(r)
  BY <1>1 DEF Low
<1>4. ASSUME Disjoint(q), Pages(s) \cap SectionPages(q) = {} PROVE Disjoint(r)
  <2>1. \A i \in DOMAIN q : Pages(q[i]) \cap Pages(s) = {}
    BY <1>4 DEF SectionPages
  <2> QED BY <1>1, <1>4, <2>1 DEF Disjoint
<1> QED BY <1>1, <1>2, <1>3, <1>4 DEF r

\* register_memory_section() keeps everything else.
LEMMA RegisterFacts ==
    ASSUME NEW O, NEW m, JobOK(m, O), NEW s \in Section, s.start + s.size <= MinStack
    PROVE  LET n == RegisterMemorySection(m, s)
           IN  /\ JobOK(n, O) /\ n.ok = m.ok /\ n.fate = m.fate /\ n.page = m.page
               /\ SameOwner(m, n) /\ n.sp.map = m.sp.map /\ n.sp.stack = m.sp.stack
               /\ n.sp.sections = Append(m.sp.sections, s)
<1> DEFINE q == Append(m.sp.sections, s)
           n == RegisterMemorySection(m, s)
<1>1. m \in Jobs /\ m.sp \in Spaces /\ m.sp.sections \in Seq(Section)
  BY DEF JobOK, Jobs, Spaces
<1>2. /\ q \in Seq(Section) /\ DOMAIN q = DOMAIN m.sp.sections \cup {Len(m.sp.sections) + 1}
      /\ \A i \in DOMAIN q : q[i] = IF i = Len(m.sp.sections) + 1 THEN s ELSE m.sp.sections[i]
  BY <1>1
<1> HIDE DEF q
<1>3. /\ n \in Jobs /\ n.ok = m.ok /\ n.fate = m.fate /\ n.page = m.page /\ n.free = m.free
      /\ n.sp.root = m.sp.root /\ n.sp.frame = m.sp.frame /\ n.sp.shared = m.sp.shared
      /\ n.sp.map = m.sp.map /\ n.sp.table = m.sp.table /\ n.sp.stack = m.sp.stack
      /\ n.sp.sections = q
  <2>1. n = [m EXCEPT !.sp.sections = q]
    BY DEF RegisterMemorySection, q
  <2> QED BY <1>1, <1>2, <2>1 DEF Jobs, Spaces
<1> HIDE DEF n
<1>4. \A x : (InTable(n.sp, x) <=> InTable(m.sp, x)) /\ (InData(n.sp, x) <=> InData(m.sp, x))
  BY <1>3 DEF InTable, InData
<1>5. OneUse(n.free, n.sp, O)
  BY <1>3, <1>4 DEF JobOK, OneUse
<1>6. Distinct(n.sp)
  BY <1>3 DEF JobOK, Distinct
<1>7. Entries(n.sp)
  BY <1>3 DEF JobOK, Entries
<1>8. Placed(n.sp)
  BY <1>2, <1>3 DEF JobOK, Placed
<1>9. /\ JobOK(n, O) /\ n.ok = m.ok /\ n.fate = m.fate /\ n.page = m.page
      /\ SameOwner(m, n) /\ n.sp.map = m.sp.map /\ n.sp.stack = m.sp.stack
      /\ n.sp.sections = q
  BY <1>3, <1>5, <1>6, <1>7, <1>8 DEF JobOK, SameOwner
<1> QED BY <1>9 DEF n, q

\* A turn of the loop of load_elf().
LoadTurn(c, x, s) ==
    Then(Then(x, LAMBDA y : MapSectionForUser(y, s)), LAMBDA n : RegisterMemorySection(n, s))
LoadFold == INSTANCE FoldProofs WITH Op <- LoadTurn

\* One segment is loaded, or the load fails.
LEMMA LoadTurnFacts ==
    ASSUME NEW O, NEW m, NEW x, Loading(m, x, O), NEW s \in Section, s.start + s.size + 2 <= MinStack
    PROVE  Loading(m, LoadTurn(0, x, s), O)
<1> DEFINE y == MapSectionForUser(x, s)
           n == RegisterMemorySection(y, s)
           r == LoadTurn(0, x, s)
<1>1. CASE ~x.ok
  <2>1. r = x
    BY <1>1 DEF LoadTurn, Then
  <2> QED BY <2>1
<1>2. CASE x.ok
  <2>1. s.start \in Nat /\ s.size \in Nat /\ MinStack \in Nat /\ s.start + s.size <= MinStack
    BY Layout DEF Section
  <2>2. Pages(s) \subseteq User
    BY <2>1, Layout DEF Pages, User
  <2>3. JobOK(x, O)
    BY DEF Loading
  <2>4. JobOK(y, O) /\ (y.fate = "ok" => x.fate = "ok") /\ (y.ok => Added(x, y, Pages(s)))
    BY <1>2, <2>2, <2>3, MapSectionFacts
  <2>5. r = IF y.ok THEN n ELSE y
    BY <1>2 DEF LoadTurn, Then
  <2> HIDE DEF r, y
  <2>6. CASE ~y.ok
    <3>1. r = y
      BY <2>5, <2>6
    <3>2. Loading(m, r, O)
      BY <2>4, <2>6, <3>1 DEF Loading
    <3> QED BY <3>2 DEF r
  <2>7. CASE y.ok
    <3>1. /\ JobOK(n, O) /\ n.ok = y.ok /\ n.fate = y.fate /\ SameOwner(y, n)
          /\ n.sp.map = y.sp.map /\ n.sp.sections = Append(y.sp.sections, s)
      BY <2>1, <2>4, RegisterFacts
    <3> HIDE DEF n
    <3>2. r = n
      BY <2>5, <2>7
    <3>3. Added(x, y, Pages(s)) /\ SameOwner(x, y) /\ y.sp.sections = x.sp.sections
      BY <2>4, <2>7 DEF Added, Keeps, SameOwner
    <3>4. x.sp.sections \in Seq(Section)
      BY <2>3 DEF JobOK, Jobs, Spaces
    <3>5. Low(n.sp.sections) /\ SameOwner(m, n)
      BY <1>2, <3>1, <3>3, <3>4, AppendSection DEF Loading, SameOwner
    <3>6. ASSUME n.fate = "ok"
          PROVE  /\ \A va \in User : n.sp.map[va] # NULL <=> va \in SectionPages(n.sp.sections)
                 /\ Disjoint(n.sp.sections)
      <4>1. y.fate = "ok" /\ x.fate = "ok"
        BY <2>4, <3>1, <3>6
      <4>2. /\ \A va \in User : x.sp.map[va] # NULL <=> va \in SectionPages(x.sp.sections)
            /\ Disjoint(x.sp.sections)
        BY <1>2, <4>1 DEF Loading
      <4>3. /\ \A va \in User \ Pages(s) : y.sp.map[va] = x.sp.map[va]
            /\ \A va \in Pages(s) : x.sp.map[va] = NULL /\ y.sp.map[va] # NULL
        BY <3>3, <4>1 DEF Added
      <4>4. Pages(s) \cap SectionPages(x.sp.sections) = {}
        BY <2>2, <4>2, <4>3
      <4>5. SectionPages(n.sp.sections) = SectionPages(x.sp.sections) \cup Pages(s)
        BY <3>1, <3>3, <3>4, AppendSection
      <4>6. Disjoint(n.sp.sections)
        BY <3>1, <3>3, <3>4, <4>2, <4>4, AppendSection
      <4> QED BY <2>2, <3>1, <4>2, <4>3, <4>5, <4>6
    <3>7. Loading(m, n, O)
      BY <2>4, <3>1, <3>5, <3>6 DEF Loading
    <3> QED BY <3>2, <3>7 DEF r
  <2> QED BY <2>6, <2>7
<1> QED BY <1>1, <1>2

\* load_elf() of a program.
LEMMA LoadElfFacts ==
    ASSUME NEW O, NEW m, Loading(m, m, O), NEW program \in Programs
    PROVE  Loading(m, LoadElf(m, program), O)
<1> DEFINE S == [k \in 0 .. Len(program) |-> {x \in Jobs : Loading(m, x, O)}]
<1>1. LoadElf(m, program) = LoadFold!Fold(0, m, program)
  BY DEF LoadElf, LoadFold!Fold, FoldLeft, MapThenFoldSet, LoadFold!FoldLeft,
         LoadFold!MapThenFoldSet, LoadTurn, Max, LoadFold!Max
<1>2. /\ program \in Seq(Section) /\ Len(program) \in Nat /\ DOMAIN program = 1 .. Len(program)
      /\ \A i \in DOMAIN program : program[i] \in Section /\ program[i].start + program[i].size + 2 <= MinStack
  <2>1. program \in Seq(Section)
    BY ProgramsAssumption DEF Section
  <2>2. \A i \in DOMAIN program : program[i].start + program[i].size + 2 <= MinStack
    BY ProgramsAssumption
  <2> QED BY <2>1, <2>2
<1>3. \A k \in 0 .. Len(program) : S[k] = {x \in Jobs : Loading(m, x, O)}
  OBVIOUS
<1>4. \A x : Loading(m, x, O) => x \in Jobs
  BY DEF Loading, JobOK
<1> HIDE DEF S
<1>5. m \in S[0]
  BY <1>2, <1>3, <1>4
<1>6. ASSUME NEW k \in 1 .. Len(program), NEW x \in S[k - 1] PROVE LoadTurn(0, x, program[k]) \in S[k]
  <2>1. Loading(m, x, O)
    BY <1>2, <1>3
  <2>2. Loading(m, LoadTurn(0, x, program[k]), O)
    BY <1>2, <2>1, LoadTurnFacts
  <2> QED BY <1>2, <1>3, <1>4, <2>2
<1>7. LoadFold!Fold(0, m, program) \in S[Len(program)]
  BY <1>2, <1>5, <1>6, LoadFold!FoldRule
<1> QED BY <1>1, <1>2, <1>3, <1>7
\* x is m with the segments of a program and its stack, or has failed.
Stacked(m, x, O) ==
    /\ JobOK(x, O) /\ (x.fate = "ok" => m.fate = "ok")
    /\ x.ok =>
           /\ SameOwner(m, x) /\ Low(x.sp.sections)
           /\ x.sp.stack = [start |-> SHARED_MEMORY - 1, size |-> 1]
           /\ x.fate = "ok" =>
                  /\ \A va \in User : x.sp.map[va] # NULL <=> va \in Owned(x.sp)
                  /\ Disjoint(x.sp.sections)

\* x is m with an image that can be freed, or has failed.
Loaded(m, x, O) ==
    /\ JobOK(x, O) /\ (x.fate = "ok" => m.fate = "ok")
    /\ x.ok => SameOwner(m, x) /\ (x.fate = "ok" => Covered(x.sp))

WithStack(m, st) == [m EXCEPT !.sp.stack = st]

\* The fields of the stack are set.
LEMMA StackFacts ==
    ASSUME NEW O, NEW m, JobOK(m, O), NEW st \in Section,
           \/ st.start = 0 /\ st.size = 0
           \/ MinStack <= st.start /\ st.start + st.size = SHARED_MEMORY
    PROVE  LET n == WithStack(m, st)
           IN  /\ JobOK(n, O) /\ n.ok = m.ok /\ n.fate = m.fate /\ SameOwner(m, n)
               /\ n.sp.map = m.sp.map /\ n.sp.sections = m.sp.sections /\ n.sp.stack = st
<1> DEFINE n == WithStack(m, st)
<1>1. m \in Jobs /\ m.sp \in Spaces
  BY DEF JobOK, Jobs
<1>2. /\ n \in Jobs /\ n.ok = m.ok /\ n.fate = m.fate /\ n.free = m.free
      /\ n.sp.root = m.sp.root /\ n.sp.frame = m.sp.frame /\ n.sp.shared = m.sp.shared
      /\ n.sp.map = m.sp.map /\ n.sp.table = m.sp.table /\ n.sp.sections = m.sp.sections
      /\ n.sp.stack = st
  BY <1>1 DEF WithStack, Jobs, Spaces
<1> HIDE DEF n
<1>3. \A p : (InTable(n.sp, p) <=> InTable(m.sp, p)) /\ (InData(n.sp, p) <=> InData(m.sp, p))
  BY <1>2 DEF InTable, InData
<1>4. OneUse(n.free, n.sp, O)
  BY <1>2, <1>3 DEF JobOK, OneUse
<1>5. Distinct(n.sp)
  BY <1>2 DEF JobOK, Distinct
<1>6. Entries(n.sp)
  BY <1>2 DEF JobOK, Entries
<1>7. Placed(n.sp)
  BY <1>2 DEF JobOK, Placed
<1>8. JobOK(n, O) /\ SameOwner(m, n)
  BY <1>2, <1>4, <1>5, <1>6, <1>7 DEF JobOK, SameOwner
<1>9. /\ JobOK(n, O) /\ n.ok = m.ok /\ n.fate = m.fate /\ SameOwner(m, n)
      /\ n.sp.map = m.sp.map /\ n.sp.sections = m.sp.sections /\ n.sp.stack = st
  BY <1>2, <1>8
<1> QED BY <1>9 DEF n

\* set_stack() maps the page below the shared one.
LEMMA SetStackFacts ==
    ASSUME NEW O, NEW m, NEW x, Loading(m, x, O), x.ok
    PROVE  Stacked(m, SetStack(x), O)
<1> DEFINE top == SHARED_MEMORY - 1
           st == [start |-> top, size |-> 1]
           y == WithStack(x, st)
           n == MapPageForUser(y, top)
           r == SetStack(x)
<1>1. JobOK(x, O) /\ x \in Jobs /\ x.sp \in Spaces /\ (x.fate = "ok" => m.fate = "ok")
  BY DEF Loading, JobOK, Jobs
<1>2. CASE x.free = {}
  <2>1. r = Failed(x)
    BY <1>2 DEF SetStack
  <2>2. JobOK(Failed(x), O) /\ Failed(x).ok = FALSE /\ Failed(x).fate = x.fate
    BY <1>1, FailedFacts
  <2> QED BY <1>1, <2>1, <2>2 DEF Stacked
<1>3. CASE x.free # {}
  <2>1. r = n
    BY <1>3 DEF SetStack, WithStack
  <2>2. top \in User /\ st \in Section /\ Pages(st) = {top} /\ MinStack <= top /\ st.start + st.size = SHARED_MEMORY /\ st.start = top
    BY Layout DEF User, Section, Pages
  <2> HIDE DEF top, st
  <2>3. /\ JobOK(y, O) /\ y.ok = x.ok /\ y.fate = x.fate /\ SameOwner(x, y)
        /\ y.sp.map = x.sp.map /\ y.sp.sections = x.sp.sections /\ y.sp.stack = st
    BY <1>1, <2>2, StackFacts
  <2> HIDE DEF y
  <2>10. JobOK(n, O) /\ (n.fate = "ok" => y.fate = "ok") /\ (n.ok => Added(y, n, {top}))
    BY <2>2, <2>3, MapPageForUserFacts
  <2> HIDE DEF n
  <2>11. ASSUME n.ok
         PROVE  /\ SameOwner(m, n) /\ Low(n.sp.sections)
                /\ n.sp.stack = st
                /\ n.fate = "ok" =>
                       /\ \A va \in User : n.sp.map[va] # NULL <=> va \in Owned(n.sp)
                       /\ Disjoint(n.sp.sections)
    <3>1. Added(y, n, {top}) /\ Keeps(y, n)
      BY <2>10, <2>11 DEF Added
    <3>2. /\ SameOwner(x, n) /\ n.sp.sections = x.sp.sections /\ n.sp.stack = st
      BY <2>3, <3>1 DEF Keeps, SameOwner
    <3>3. SameOwner(m, x) /\ Low(x.sp.sections)
      BY DEF Loading
    <3>4. ASSUME n.fate = "ok"
          PROVE  /\ \A va \in User : n.sp.map[va] # NULL <=> va \in Owned(n.sp)
                 /\ Disjoint(n.sp.sections)
      <4>1. x.fate = "ok"
        BY <2>3, <2>10, <3>4
      <4>2. /\ \A va \in User : x.sp.map[va] # NULL <=> va \in SectionPages(x.sp.sections)
            /\ Disjoint(x.sp.sections)
        BY <4>1 DEF Loading
      <4>3. Owned(n.sp) = SectionPages(x.sp.sections) \cup {top}
        BY <2>2, <3>2 DEF Owned
      <4>4. \A va \in User : n.sp.map[va] # NULL <=> x.sp.map[va] # NULL \/ va = top
        BY <2>3, <3>1, <3>4 DEF Added
      <4> QED BY <3>2, <4>2, <4>3, <4>4
    <3> QED BY <3>2, <3>3, <3>4 DEF SameOwner
  <2>12. Stacked(m, n, O)
    <3>1. JobOK(n, O) /\ (n.fate = "ok" => m.fate = "ok")
      BY <1>1, <2>3, <2>10
    <3>2. st = [start |-> SHARED_MEMORY - 1, size |-> 1]
      BY DEF st, top
    <3> QED BY <2>11, <3>1, <3>2 DEF Stacked
  <2> QED BY <2>1, <2>12
<1> QED BY <1>2, <1>3

\* available_from is behind every section.
LEMMA AvailableFacts ==
    ASSUME NEW sp \in Spaces, Low(sp.sections)
    PROVE  /\ AvailableFrom(sp) \in Nat /\ AvailableFrom(sp) + 2 <= MinStack
           /\ \A va \in SectionPages(sp.sections) : va < AvailableFrom(sp)
<1> DEFINE q == sp.sections
           E == {0} \cup {s.start + s.size : s \in Range(q)}
           b == MinStack - 2
           D == {b - e : e \in E}
<1>1. q \in Seq(Section) /\ b \in Nat
  BY Layout DEF Spaces
<1>2. \A s \in Range(q) : s \in Section /\ s.start \in Nat /\ s.size \in Nat /\ s.start + s.size <= b
  <2> TAKE s \in Range(q)
  <2>1. PICK i \in DOMAIN q : s = q[i]
    BY DEF Range
  <2>2. s \in Section /\ s.start + s.size + 2 <= MinStack
    BY <1>1, <2>1 DEF Low
  <2> QED BY <2>2, Layout DEF Section
<1>3. E \subseteq Nat /\ \A e \in E : e <= b
  BY <1>1, <1>2
<1>4. \A i \in DOMAIN q : q[i] \in Range(q) /\ q[i].start + q[i].size \in E
  BY DEF Range
<1>5. AvailableFrom(sp) = Max(E)
  BY DEF AvailableFrom
<1>6. 0 \in E
  OBVIOUS
<1> HIDE DEF E, b
<1>7. D \subseteq Nat /\ D # {}
  BY <1>1, <1>3, <1>6
<1>8. PICK d \in D : \A y \in D : d <= y
  <2> HIDE DEF D
  <2> QED BY <1>7, FreeFold!LeastElement
<1>9. PICK g \in E : d = b - g
  OBVIOUS
<1>10. \A e \in E : g >= e
  <2> TAKE e \in E
  <2>1. b - e \in D
    OBVIOUS
  <2>2. d <= b - e
    BY <1>8, <2>1
  <2>3. e \in Nat /\ g \in Nat /\ b \in Nat
    BY <1>1, <1>3
  <2> QED BY <1>9, <2>2, <2>3
<1>11. Max(E) \in E /\ \A e \in E : Max(E) >= e
  BY <1>10 DEF Max
<1> DEFINE a == Max(E)
<1> HIDE DEF a
<1>12. a \in Nat /\ a <= b /\ \A i \in DOMAIN q : a >= q[i].start + q[i].size
  BY <1>3, <1>4, <1>11 DEF a
<1>13. ASSUME NEW va \in SectionPages(q) PROVE va < a
  <2>1. PICK i \in DOMAIN q : va \in Pages(q[i])
    BY DEF SectionPages
  <2> QED BY <1>2, <1>4, <1>12, <2>1 DEF Pages
<1>14. a + 2 <= MinStack
  BY <1>12, Layout DEF b
<1> QED BY <1>5, <1>12, <1>13, <1>14 DEF a
\* The pages for argv and envp are mapped behind the last section.
LEMMA ArgumentsFacts ==
    ASSUME NEW O, NEW m, NEW x, Stacked(m, x, O), x.ok
    PROVE  Loaded(m, Arguments(x), O)
<1> DEFINE new == Allocate(x, 1)
           v == AvailableFrom(x.sp)
           s == [start |-> v, size |-> 2]
           p == new.page
           r == RegisterMemorySection(new, s)
           a == MapPage(r, v, p)
           b == MapPage(a, v + 1, p + 1)
           n == Arguments(x)
<1>1. /\ JobOK(x, O) /\ x.sp \in Spaces /\ x.sp.sections \in Seq(Section)
      /\ (x.fate = "ok" => m.fate = "ok") /\ SameOwner(m, x) /\ Low(x.sp.sections)
      /\ x.sp.stack = [start |-> SHARED_MEMORY - 1, size |-> 1]
  BY DEF Stacked, JobOK, Jobs, Spaces
<1>2. /\ v \in Nat /\ v + 2 <= MinStack /\ \A va \in SectionPages(x.sp.sections) : va < v
  BY <1>1, AvailableFacts
<1>3. n = IF p = NULL THEN Failed(new) ELSE IF a.ok THEN b ELSE a
  BY DEF Arguments, Then
<1> HIDE DEF v, n
<1>4. /\ s \in Section /\ Pages(s) = {v, v + 1} /\ v \in User /\ v + 1 \in User /\ v # v + 1
      /\ s.start + s.size <= MinStack
  BY <1>2, Layout DEF Section, Pages, User
<1> HIDE DEF s
<1>5. new.sp = x.sp /\ new.ok = x.ok /\ new.fate = x.fate
  BY <1>1, AllocateFacts
<1>6. CASE p = NULL
  <2>1. JobOK(new, O)
    BY <1>1, <1>6, AllocateFacts
  <2> HIDE DEF new
  <2>2. JobOK(n, O) /\ ~n.ok /\ n.fate = x.fate
    BY <1>3, <1>5, <1>6, <2>1, FailedFacts
  <2>3. Loaded(m, n, O)
    BY <1>1, <2>2 DEF Loaded
  <2> QED BY <2>3 DEF n
<1>7. CASE p # NULL
  <2>1. /\ p \in Page /\ JobOK(new, O \cup Block(p, 1))
        /\ Block(p, 1) \subseteq Page /\ Block(p, 1) \cap O = {}
    BY <1>1, <1>7, AllocateFacts
  <2> HIDE DEF new, p
  <2>2. Block(p, 1) = {p, p + 1} /\ p # p + 1 /\ p \in Nat
    BY <2>1, Blocks01, Layout
  <2>3. p + 1 \in Page /\ p \notin O /\ p + 1 \notin O
    BY <2>1, <2>2
  <2>4. JobOK(new, (O \cup {p + 1}) \cup {p})
    <3>1. O \cup Block(p, 1) = (O \cup {p + 1}) \cup {p}
      BY <2>2
    <3> QED BY <2>1, <3>1
  <2>5. /\ JobOK(r, (O \cup {p + 1}) \cup {p}) /\ r.ok = new.ok /\ r.fate = new.fate
        /\ SameOwner(new, r) /\ r.sp.map = new.sp.map /\ r.sp.stack = new.sp.stack
        /\ r.sp.sections = Append(new.sp.sections, s)
    BY <1>4, <2>4, RegisterFacts
  <2> HIDE DEF r
  <2>6. PageMapped(r, a, v, p, O \cup {p + 1})
    BY <1>4, <2>1, <2>2, <2>3, <2>5, MapPageFacts
  <2> HIDE DEF a
  <2>7. /\ JobOK(a, O \cup {p + 1}) /\ Keeps(r, a)
    BY <2>6 DEF PageMapped
  <2>8. CASE ~a.ok
    <3>1. JobOK(a, O)
      BY <2>7, FewerOthers
    <3>2. n = a
      BY <1>3, <1>7, <2>8
    <3>3. a.fate = "ok" => m.fate = "ok"
      BY <1>1, <1>5, <2>5, <2>7 DEF Keeps
    <3>4. Loaded(m, n, O)
      BY <2>8, <3>1, <3>2, <3>3 DEF Loaded
    <3> QED BY <3>4 DEF n
  <2>9. CASE a.ok
    <3>1. n = b
      BY <1>3, <1>7, <2>9
    <3>2. PageMapped(a, b, v + 1, p + 1, O)
      BY <1>4, <2>3, <2>7, MapPageFacts
    <3> HIDE DEF b
    <3>3. /\ JobOK(b, O) /\ Keeps(a, b)
      BY <3>2 DEF PageMapped
    <3>4. /\ b.sp.sections = Append(x.sp.sections, s) /\ b.sp.stack = x.sp.stack
          /\ SameOwner(m, b) /\ (b.fate = "ok" => a.fate = "ok") /\ (a.fate = "ok" => x.fate = "ok")
      BY <1>1, <1>5, <2>5, <2>7, <3>3 DEF Keeps, SameOwner
    <3>5. ASSUME b.ok, b.fate = "ok" PROVE Covered(b.sp)
      <4>1. /\ b.sp.map = [a.sp.map EXCEPT ![v + 1] = p + 1]
            /\ a.sp.map = [r.sp.map EXCEPT ![v] = p]
            /\ r.sp.map = x.sp.map
        BY <1>5, <2>5, <2>6, <2>9, <3>2, <3>4, <3>5 DEF PageMapped
      <4>2. x.sp.map \in [VA -> Ptr \cup {STATIC}]
        BY <1>1 DEF Spaces
      <4>3. \A va \in User : b.sp.map[va] # NULL => x.sp.map[va] # NULL \/ va \in Pages(s)
        BY <1>4, <4>1, <4>2, Layout
      <4>4. /\ \A va \in User : x.sp.map[va] # NULL <=> va \in Owned(x.sp)
            /\ Disjoint(x.sp.sections)
        BY <3>4, <3>5 DEF Stacked
      <4>5. Pages(s) \cap SectionPages(x.sp.sections) = {}
        <5>1. \A va \in SectionPages(x.sp.sections) : va # v
          BY <1>2
        <5>2. \A va \in SectionPages(x.sp.sections) : va # v + 1
          <6> TAKE va \in SectionPages(x.sp.sections)
          <6>1. va < v
            BY <1>2
          <6>2. va \in Nat
            <7>1. PICK i \in DOMAIN x.sp.sections : va \in Pages(x.sp.sections[i])
              BY DEF SectionPages
            <7>2. x.sp.sections[i] \in Section
              BY <1>1
            <7> QED BY <7>1, <7>2 DEF Pages, Section
          <6> QED BY <1>2, <6>1, <6>2
        <5> QED BY <1>4, <5>1, <5>2
      <4>6. SectionPages(b.sp.sections) = SectionPages(x.sp.sections) \cup Pages(s)
        BY <1>1, <1>4, <3>4, AppendSection
      <4>7. Disjoint(b.sp.sections)
        BY <1>1, <1>4, <3>4, <4>4, <4>5, AppendSection
      <4>8. Owned(b.sp) = Owned(x.sp) \cup Pages(s)
        BY <3>4, <4>6 DEF Owned
      <4> QED BY <4>3, <4>4, <4>7, <4>8 DEF Covered
    <3>6. Loaded(m, b, O)
      BY <1>1, <3>3, <3>4, <3>5 DEF Loaded
    <3> QED BY <3>1, <3>6 DEF n
  <2> QED BY <2>8, <2>9
<1> QED BY <1>6, <1>7

\* Loading a program into an empty address space.
LEMMA LoadFacts ==
    ASSUME NEW O, NEW m, JobOK(m, O), NEW program \in Programs, m.sp.sections = <<>>,
           m.fate = "ok" => \A va \in User : m.sp.map[va] = NULL
    PROVE  Loaded(m, Load(m, program), O)
<1> DEFINE a == LoadElf(m, program)
           b == SetStack(a)
           c == Arguments(b)
           n == Load(m, program)
<1>1. Loading(m, m, O)
  <2>1. DOMAIN m.sp.sections = {}
    OBVIOUS
  <2>2. Low(m.sp.sections) /\ Disjoint(m.sp.sections) /\ SectionPages(m.sp.sections) = {}
    BY <2>1 DEF Low, Disjoint, SectionPages
  <2> QED BY <2>2 DEF Loading, SameOwner
<1>2. Loading(m, a, O)
  BY <1>1, LoadElfFacts
<1>3. n = IF a.ok THEN IF b.ok THEN c ELSE b ELSE a
  BY DEF Load, Then
<1> HIDE DEF a, n
<1>4. CASE ~a.ok
  <2>1. Loaded(m, a, O) /\ n = a
    BY <1>2, <1>3, <1>4 DEF Loading, Loaded
  <2> QED BY <2>1 DEF n
<1>5. CASE a.ok
  <2>1. Stacked(m, b, O)
    BY <1>2, <1>5, SetStackFacts
  <2> HIDE DEF b
  <2>2. CASE ~b.ok
    <3>1. Loaded(m, b, O) /\ n = b
      BY <1>3, <1>5, <2>1, <2>2 DEF Stacked, Loaded
    <3> QED BY <3>1 DEF n
  <2>3. CASE b.ok
    <3>1. Loaded(m, c, O) /\ n = c
      BY <1>3, <1>5, <2>1, <2>3, ArgumentsFacts
    <3> QED BY <3>1 DEF n
  <2> QED BY <2>2, <2>3
<1> QED BY <1>4, <1>5
-----------------------------------------------------------------------------
(* Copying memory. *)

\* A job whose ok and fate may have changed.
LEMMA SameMemory ==
    ASSUME NEW O, NEW m, JobOK(m, O), NEW n \in Jobs, n.free = m.free, n.sp = m.sp
    PROVE  JobOK(n, O)
BY DEF JobOK

\* A turn of the loop that undoes a copy; c is the address space of the parent.
UndoTurn(c, x, va) == Wild(Deallocate(UnmapPage(x, va), c.map[va]))
UndoFold == INSTANCE FoldProofs WITH Op <- UndoTurn

\* x is n with copies undone.  The pages that this frees are not the copies.
CopyUndone(n, x) ==
    /\ x \in Jobs /\ Entries(x.sp) /\ Keeps(n, x)
    /\ \A va \in User : x.sp.map[va] # NULL => n.sp.map[va] # NULL

\* One copy is undone; the machine has gone wild.
LEMMA UndoTurnFacts ==
    ASSUME NEW n, NEW x, CopyUndone(n, x), NEW from \in Spaces, Entries(from), NEW va \in User
    PROVE  CopyUndone(n, UndoTurn(from, x, va)) /\ UndoTurn(from, x, va).fate # "ok"
<1> DEFINE y == UnmapPage(x, va)
           p == from.map[va]
           d == Deallocate(y, p)
           r == UndoTurn(from, x, va)
<1>1. x \in Jobs /\ x.sp \in Spaces /\ x.sp.map \in [VA -> Ptr \cup {STATIC}] /\ va \in VA
  BY Layout DEF CopyUndone, Jobs, Spaces
<1>2. p \in Ptr
  BY Layout DEF Spaces, Entries, Ptr
<1>3. CopyUndone(n, y)
  <2>1. CASE y \in {x, Panic(x)}
    <3>1. y \in Jobs /\ y.sp = x.sp /\ (y.fate = "ok" => x.fate = "ok")
      BY <1>1, <2>1 DEF Panic, Jobs, Fates
    <3> HIDE DEF y
    <3> QED BY <3>1 DEF CopyUndone, Keeps
  <2>2. CASE y = [x EXCEPT !.sp.map[va] = NULL]
    <3>1. /\ y \in Jobs /\ y.fate = x.fate
          /\ y.sp.map = [x.sp.map EXCEPT ![va] = NULL]
          /\ y.sp.table = x.sp.table /\ y.sp.root = x.sp.root
          /\ y.sp.frame = x.sp.frame /\ y.sp.shared = x.sp.shared
          /\ y.sp.sections = x.sp.sections /\ y.sp.stack = x.sp.stack
      BY <1>1, <2>2, SetEntry DEF Ptr
    <3> HIDE DEF y
    <3>2. \A vb \in User : y.sp.map[vb] = IF vb = va THEN NULL ELSE x.sp.map[vb]
      BY <1>1, <3>1, Layout
    <3>3. Entries(y.sp)
      BY <3>1, <3>2 DEF CopyUndone, Entries
    <3> QED BY <3>1, <3>2, <3>3 DEF CopyUndone, Keeps
  <2> QED BY <2>1, <2>2 DEF UnmapPage
<1> HIDE DEF y
<1>4. y \in Jobs
  BY <1>3 DEF CopyUndone
<1>5. d \in Jobs /\ d.sp = y.sp /\ (d.fate = "ok" => y.fate = "ok")
  BY <1>2, <1>4, DeallocateFacts
<1>6. r = Wild(d)
  BY DEF UndoTurn, d, y, p
<1> HIDE DEF d, r
<1>7. r \in Jobs /\ r.sp = d.sp /\ r.fate # "ok"
  BY <1>5, <1>6 DEF Wild, Jobs, Fates
<1>8. CopyUndone(n, r)
  BY <1>3, <1>5, <1>7 DEF CopyUndone, Keeps
<1> QED BY <1>7, <1>8 DEF r

\* Undoing the copy of no page changes nothing, and of any page drives the machine wild.
LEMMA UndoCopyFacts ==
    ASSUME NEW n \in Jobs, Entries(n.sp), NEW from \in Spaces, Entries(from),
           NEW s \in Section, Pages(s) \subseteq User
    PROVE  LET x == UndoCopy(n, from, s)
           IN  CopyUndone(n, x) /\ (x = n \/ x.fate # "ok")
<1> DEFINE S == [k \in 0 .. s.size |->
                    {x \in Jobs : CopyUndone(n, x) /\ (x = n \/ x.fate # "ok")}]
<1>1. UndoCopy(n, from, s) = UndoFold!Fold(from, n, Range1(s))
  BY DEF UndoCopy, UndoFold!Fold, FoldLeft, MapThenFoldSet, UndoFold!FoldLeft,
         UndoFold!MapThenFoldSet, UndoTurn, Max, UndoFold!Max
<1>2. s.size \in Nat /\ \A k \in 1 .. s.size : Range1(s)[k] \in User
  BY SectionRange
<1>3. \A k \in 0 .. s.size :
          S[k] = {x \in Jobs : CopyUndone(n, x) /\ (x = n \/ x.fate # "ok")}
  OBVIOUS
<1> HIDE DEF S
<1>4. n \in S[0]
  BY <1>2, <1>3 DEF CopyUndone, Keeps
<1>5. ASSUME NEW k \in 1 .. s.size, NEW x \in S[k - 1] PROVE UndoTurn(from, x, Range1(s)[k]) \in S[k]
  <2>1. CopyUndone(n, x)
    BY <1>2, <1>3
  <2>2. CopyUndone(n, UndoTurn(from, x, Range1(s)[k])) /\ UndoTurn(from, x, Range1(s)[k]).fate # "ok"
    BY <1>2, <2>1, UndoTurnFacts
  <2> QED BY <1>2, <1>3, <2>2 DEF CopyUndone
<1>6. UndoFold!Fold(from, n, Range1(s)) \in S[s.size]
  BY <1>4, <1>5, SectionRange, UndoFold!FoldRule
<1> QED BY <1>1, <1>2, <1>3, <1>6

\* The child of a fork so far: its own page table, its pages within A.  A copy that
\* failed half way has freed pages of others, and the machine is wild.
Copying(m, x, O, A) ==
    /\ x \in Jobs /\ Entries(x.sp) /\ Placed(x.sp)
    /\ (x.ok \/ x.fate = "ok") => JobOK(x, O)
    /\ x.fate = "ok" => m.fate = "ok"
    /\ SameOwner(m, x) /\ x.sp.sections = m.sp.sections /\ x.sp.stack = m.sp.stack
    /\ \A va \in User : x.sp.map[va] # NULL => m.sp.map[va] # NULL \/ va \in A

\* A turn of the loop of copy_memory_with_pagetable(); c holds the address space of
\* the parent and the section.
CopyTurn(c, m, va) ==
    Then(m, LAMBDA y :
        LET n == Allocate(y, 0)
        IN  IF c[1].map[va] = NULL THEN Panic(n)
            ELSE IF n.page = NULL
            THEN Failed(UndoCopy(n, c[1], [c[2] EXCEPT !.size = va - c[2].start]))
            ELSE [MapPage(n, va, n.page) EXCEPT !.ok = TRUE])
CopyFold == INSTANCE FoldProofs WITH Op <- CopyTurn

\* One page is copied; or it is left out, or the copy fails or stops the machine.
LEMMA CopyTurnFacts ==
    ASSUME NEW O, NEW m, NEW A, NEW x, Copying(m, x, O, A), NEW from \in Spaces, Entries(from),
           NEW s \in Section, Pages(s) \subseteq User, NEW va \in Pages(s)
    PROVE  Copying(m, CopyTurn(<<from, s>>, x, va), O, A \cup {va})
<1> DEFINE a == Allocate(x, 0)
           p == a.page
           b == MapPage(a, va, p)
           z == [s EXCEPT !.size = va - s.start]
           w == UndoCopy(a, from, z)
           n == CopyTurn(<<from, s>>, x, va)
<1>0. va \in User
  OBVIOUS
<1>2. CASE ~x.ok
  <2>1. n = x
    BY <1>2 DEF CopyTurn, Then
  <2> QED BY <2>1 DEF Copying
<1>3. CASE x.ok
  <2>0. JobOK(x, O)
    BY <1>3 DEF Copying
  <2>1. n = IF from.map[va] = NULL THEN Panic(a)
            ELSE IF p = NULL THEN Failed(w) ELSE [b EXCEPT !.ok = TRUE]
    BY <1>3 DEF CopyTurn, Then
  <2>2. a.sp = x.sp /\ a.ok = x.ok /\ a.fate = x.fate
    BY <2>0, AllocateFacts
  <2>3. /\ p = NULL => JobOK(a, O)
        /\ p # NULL => p \in Page /\ p \notin O /\ JobOK(a, O \cup Block(p, 0))
    BY <2>0, AllocateFacts
  <2> HIDE DEF a, p, n, z
  <2>4. p # NULL => p \in Page /\ p \notin O /\ JobOK(a, O \cup {p})
    <3>1. p \in Page => Block(p, 0) = {p}
      BY Blocks01, Layout
    <3> QED BY <2>3, <3>1
  <2>5. JobOK(a, O) /\ a \in Jobs /\ Entries(a.sp) /\ Placed(a.sp)
    <3>1. JobOK(a, O)
      BY <2>3, FewerOthers
    <3> QED BY <3>1 DEF JobOK
  <2>6. CASE n = Panic(a)
    <3>1. n \in Jobs /\ n.free = a.free /\ n.sp = a.sp /\ (n.fate = "ok" => a.fate = "ok")
      BY <2>5, <2>6 DEF Panic, Jobs, Fates
    <3>2. JobOK(n, O)
      BY <2>5, <3>1, SameMemory
    <3>3. Copying(m, n, O, A \cup {va})
      BY <2>2, <3>1, <3>2 DEF Copying, SameOwner, JobOK
    <3> QED BY <3>3 DEF n
  <2>7. CASE n = Failed(w)
    <3>1. z \in Section /\ Pages(z) \subseteq User
      <4>1. s.start \in Nat /\ s.size \in Nat /\ va \in s.start .. s.start + s.size - 1
        BY DEF Section, Pages
      <4>2. z.start = s.start /\ z.size = va - s.start /\ va - s.start \in Nat /\ z \in Section
        BY <4>1 DEF Section, z
      <4> QED BY <4>1, <4>2 DEF Pages
    <3>2. CopyUndone(a, w) /\ (w = a \/ w.fate # "ok")
      BY <2>5, <3>1, UndoCopyFacts
    <3> HIDE DEF w
    <3>3. n \in Jobs /\ n.sp = w.sp /\ n.free = w.free /\ n.fate = w.fate /\ ~n.ok
      BY <2>7, <3>2 DEF CopyUndone, Failed, Jobs
    <3>4. n.fate = "ok" => JobOK(n, O)
      BY <2>5, <3>2, <3>3, SameMemory
    <3>5. Entries(n.sp) /\ Placed(n.sp)
      BY <2>5, <3>2, <3>3 DEF CopyUndone, Keeps, Placed
    <3>6. Copying(m, n, O, A \cup {va})
      BY <2>2, <3>2, <3>3, <3>4, <3>5 DEF Copying, SameOwner, CopyUndone, Keeps
    <3> QED BY <3>6 DEF n
  <2>8. CASE p # NULL /\ n = [b EXCEPT !.ok = TRUE]
    <3>1. PageMapped(a, b, va, p, O)
      BY <1>0, <2>4, <2>8, MapPageFacts
    <3> HIDE DEF b
    <3>2. JobOK(b, O) /\ Keeps(a, b) /\ b \in Jobs
      BY <3>1 DEF PageMapped, JobOK
    <3>3. n \in Jobs /\ n.free = b.free /\ n.sp = b.sp /\ n.fate = b.fate
      BY <2>8, <3>2 DEF Jobs
    <3>4. JobOK(n, O) /\ Entries(n.sp) /\ Placed(n.sp)
      <4>1. JobOK(n, O)
        BY <3>2, <3>3, SameMemory
      <4> QED BY <4>1 DEF JobOK
    <3>5. x.sp.map \in [VA -> Ptr \cup {STATIC}]
      BY DEF Copying, Jobs, Spaces
    <3>6. \A vb \in User : n.sp.map[vb] # NULL => x.sp.map[vb] # NULL \/ vb = va
      <4>1. b.sp.map = x.sp.map \/ b.sp.map = [x.sp.map EXCEPT ![va] = p]
        BY <2>2, <3>1 DEF PageMapped
      <4> QED BY <3>3, <3>5, <4>1, Layout
    <3>7. /\ SameOwner(m, n) /\ n.sp.sections = m.sp.sections /\ n.sp.stack = m.sp.stack
          /\ (n.fate = "ok" => m.fate = "ok")
      BY <2>2, <3>2, <3>3 DEF Keeps, SameOwner, Copying
    <3>8. Copying(m, n, O, A \cup {va})
      BY <3>3, <3>4, <3>6, <3>7 DEF Copying
    <3> QED BY <3>8 DEF n
  <2> QED BY <2>1, <2>6, <2>7, <2>8
<1> QED BY <1>2, <1>3

\* copy_memory_with_pagetable() of a section.
LEMMA CopyMemoryFacts ==
    ASSUME NEW O, NEW m, JobOK(m, O), NEW from \in Spaces, Entries(from),
           NEW s \in Section, Pages(s) \subseteq User
    PROVE  Copying(m, CopyMemory(m, from, s), O, Pages(s))
<1> DEFINE Part(k) == s.start .. s.start + k - 1
           c == <<from, s>>
           S == [k \in 0 .. s.size |-> {x \in Jobs : Copying(m, x, O, Part(k))}]
<1>1. CopyMemory(m, from, s) = CopyFold!Fold(c, m, Range1(s))
  BY DEF CopyMemory, CopyFold!Fold, FoldLeft, MapThenFoldSet, CopyFold!FoldLeft,
         CopyFold!MapThenFoldSet, CopyTurn, Max, CopyFold!Max
<1>2. s.size \in Nat /\ s.start \in Nat
  BY SectionRange
<1>3. \A x, A : Copying(m, x, O, A) => x \in Jobs
  BY DEF Copying
<1>4. Copying(m, m, O, Part(0))
  BY DEF Copying, SameOwner, JobOK
<1>5. Part(s.size) = Pages(s)
  BY DEF Pages
<1>6. \A k \in 1 .. s.size : Part(k) = Part(k - 1) \cup {Range1(s)[k]} /\ Range1(s)[k] \in Pages(s)
  <2> TAKE k \in 1 .. s.size
  <2>1. Range1(s)[k] = s.start + k - 1 /\ Range1(s)[k] \in Pages(s)
    BY SectionRange
  <2>2. Part(k) = Part(k - 1) \cup {s.start + k - 1}
    BY <1>2
  <2> QED BY <2>1, <2>2
<1> HIDE DEF Part, c
<1>7. \A k \in 0 .. s.size : S[k] = {x \in Jobs : Copying(m, x, O, Part(k))}
  OBVIOUS
<1> HIDE DEF S
<1>8. m \in S[0]
  BY <1>2, <1>3, <1>4, <1>7
<1>9. ASSUME NEW k \in 1 .. s.size, NEW x \in S[k - 1] PROVE CopyTurn(c, x, Range1(s)[k]) \in S[k]
  <2>1. Copying(m, x, O, Part(k - 1))
    BY <1>2, <1>7
  <2>2. Copying(m, CopyTurn(c, x, Range1(s)[k]), O, Part(k - 1) \cup {Range1(s)[k]})
    BY <1>6, <2>1, CopyTurnFacts DEF c
  <2>3. Copying(m, CopyTurn(c, x, Range1(s)[k]), O, Part(k))
    BY <1>6, <2>2
  <2> QED BY <1>2, <1>3, <1>7, <2>3
<1>10. CopyFold!Fold(c, m, Range1(s)) \in S[s.size]
  BY <1>8, <1>9, SectionRange, CopyFold!FoldRule
<1> QED BY <1>1, <1>2, <1>5, <1>7, <1>10

\* The child after the sections q, or a copy that has failed.
Child(m, x, O, q) ==
    /\ x \in Jobs /\ Entries(x.sp) /\ Placed(x.sp)
    /\ x.ok =>
           /\ JobOK(x, O) /\ (x.fate = "ok" => m.fate = "ok") /\ SameOwner(m, x)
           /\ x.sp.sections = q
           /\ \A va \in User : x.sp.map[va] # NULL => va \in SectionPages(q)

\* A turn of the loop of copy_all_memory_with_pagetable().
CopySection(from, x, s) ==
    Then(Then(x, LAMBDA y : CopyMemory(y, from, s)), LAMBDA n : RegisterMemorySection(n, s))
CopyAllFold == INSTANCE FoldProofs WITH Op <- CopySection

\* One more section is copied.
LEMMA CopySectionFacts ==
    ASSUME NEW O, NEW m, NEW x, NEW q \in Seq(Section), Child(m, x, O, q),
           NEW from \in Spaces, Entries(from), NEW s \in Section, s.start + s.size <= MinStack
    PROVE  Child(m, CopySection(from, x, s), O, Append(q, s))
<1> DEFINE y == CopyMemory(x, from, s)
           n == RegisterMemorySection(y, s)
           r == CopySection(from, x, s)
<1>2. CASE ~x.ok
  <2>1. r = x
    BY <1>2 DEF CopySection, Then
  <2> QED BY <1>2, <2>1 DEF Child
<1>3. CASE x.ok
  <2>0. JobOK(x, O)
    BY <1>3 DEF Child
  <2>1. s.start \in Nat /\ s.size \in Nat
    BY DEF Section
  <2>2. Pages(s) \subseteq User
    BY <2>1, Layout DEF Pages, User
  <2>3. Copying(x, y, O, Pages(s))
    BY <2>0, <2>2, CopyMemoryFacts
  <2>4. r = IF y.ok THEN n ELSE y
    BY <1>3 DEF CopySection, Then
  <2> HIDE DEF r, y
  <2>5. CASE ~y.ok
    <3>1. r = y
      BY <2>4, <2>5
    <3>2. Child(m, r, O, Append(q, s))
      BY <2>3, <2>5, <3>1 DEF Child, Copying
    <3> QED BY <3>2 DEF r
  <2>6. CASE y.ok
    <3>0. JobOK(y, O)
      BY <2>3, <2>6 DEF Copying
    <3>1. /\ JobOK(n, O) /\ n.ok = y.ok /\ n.fate = y.fate /\ SameOwner(y, n)
          /\ n.sp.map = y.sp.map /\ n.sp.sections = Append(y.sp.sections, s)
      BY <3>0, RegisterFacts
    <3> HIDE DEF n
    <3>2. r = n
      BY <2>4, <2>6
    <3>3. SectionPages(Append(q, s)) = SectionPages(q) \cup Pages(s)
      BY AppendSection
    <3>4. y.sp.sections = q /\ \A va \in User : x.sp.map[va] # NULL => va \in SectionPages(q)
      BY <1>3, <2>3 DEF Child, Copying
    <3>5. \A va \in User : n.sp.map[va] # NULL => va \in SectionPages(Append(q, s))
      BY <2>3, <3>1, <3>3, <3>4 DEF Copying
    <3>6. SameOwner(m, n) /\ (n.fate = "ok" => m.fate = "ok")
      BY <1>3, <2>3, <3>1 DEF Child, Copying, SameOwner
    <3>7. n \in Jobs /\ Entries(n.sp) /\ Placed(n.sp)
      BY <3>1 DEF JobOK
    <3>8. Child(m, n, O, Append(q, s))
      BY <3>1, <3>4, <3>5, <3>6, <3>7 DEF Child
    <3> QED BY <3>2, <3>8 DEF r
  <2> QED BY <2>5, <2>6
<1> QED BY <1>2, <1>3

\* The loop over the sections of the parent.
LEMMA CopySectionsFacts ==
    ASSUME NEW O, NEW m, Child(m, m, O, <<>>), NEW from \in Spaces, Placed(from), Entries(from)
    PROVE  Child(m, CopyAllFold!Fold(from, m, from.sections), O, from.sections)
<1> DEFINE q == from.sections
           Part(k) == [i \in 1 .. k |-> q[i]]
           S == [k \in 0 .. Len(q) |-> {x \in Jobs : Child(m, x, O, Part(k))}]
<1>1. /\ q \in Seq(Section) /\ Len(q) \in Nat /\ DOMAIN q = 1 .. Len(q)
      /\ \A k \in 1 .. Len(q) : q[k] \in Section /\ q[k].start + q[k].size <= MinStack
  <2>1. q \in Seq(Section)
    BY DEF Spaces
  <2> QED BY <2>1 DEF Placed
<1> HIDE DEF q
<1>2. Part(0) = <<>>
  OBVIOUS
<1>3. \A k \in 1 .. Len(q) : Part(k - 1) \in Seq(Section) /\ Append(Part(k - 1), q[k]) = Part(k)
  <2> TAKE k \in 1 .. Len(q)
  <2>1. Part(k - 1) \in Seq(Section) /\ Len(Part(k - 1)) = k - 1
    BY <1>1
  <2>2. Append(Part(k - 1), q[k]) = Part(k)
    BY <1>1, <2>1
  <2> QED BY <2>1, <2>2
<1>4. Part(Len(q)) = q
  BY <1>1
<1>5. \A x, p : Child(m, x, O, p) => x \in Jobs
  BY DEF Child
<1> HIDE DEF Part
<1>6. \A k \in 0 .. Len(q) : S[k] = {x \in Jobs : Child(m, x, O, Part(k))}
  OBVIOUS
<1> HIDE DEF S
<1>7. m \in S[0]
  BY <1>1, <1>2, <1>5, <1>6
<1>8. ASSUME NEW k \in 1 .. Len(q), NEW x \in S[k - 1] PROVE CopySection(from, x, q[k]) \in S[k]
  <2>1. Child(m, x, O, Part(k - 1))
    BY <1>1, <1>6
  <2>2. Child(m, CopySection(from, x, q[k]), O, Append(Part(k - 1), q[k]))
    BY <1>1, <1>3, <2>1, CopySectionFacts
  <2>3. Child(m, CopySection(from, x, q[k]), O, Part(k))
    BY <1>3, <2>2
  <2> QED BY <1>1, <1>5, <1>6, <2>3
<1>9. CopyAllFold!Fold(from, m, q) \in S[Len(q)]
  BY <1>1, <1>7, <1>8, CopyAllFold!FoldRule
<1> QED BY <1>1, <1>4, <1>6, <1>9 DEF q

\* What the child of a fork is when the machine goes on.
LEMMA CopyAllFacts ==
    ASSUME NEW O, NEW m, Child(m, m, O, <<>>), NEW from \in Spaces, Placed(from), Entries(from),
           Disjoint(from.sections)
    PROVE  LET n == CopyAllMemory(m, from)
           IN  /\ n \in Jobs
               /\ n.ok /\ n.fate = "ok" => JobOK(n, O) /\ SameOwner(m, n) /\ Covered(n.sp)
<1> DEFINE q == from.sections
           st == from.stack
           x == CopyAllFold!Fold(from, m, q)
           c == CopyMemory(x, from, st)
           f == FoldLeft(FreeMemory, c, c.sp.sections)
           u == IF c.ok THEN c ELSE [f EXCEPT !.ok = TRUE]
           g == FreeUserMemory(x)
           n == CopyAllMemory(m, from)
<1>1. Child(m, x, O, q)
  BY CopySectionsFacts
<1>2. n = IF x.ok THEN WithStack(u, st) ELSE Gone(g)
  BY DEF CopyAllMemory, Then, OrElse, CopyAllFold!Fold, FoldLeft, MapThenFoldSet, CopyAllFold!FoldLeft,
         CopyAllFold!MapThenFoldSet, CopySection, Max, CopyAllFold!Max, WithStack
<1> HIDE DEF x, n
<1>3. x \in Jobs /\ Entries(x.sp) /\ Placed(x.sp)
  BY <1>1 DEF Child
<1>4. CASE ~x.ok
  <2>1. g \in Jobs /\ ~g.ok
    BY <1>3, <1>4, FreeUserMemoryFacts
  <2> HIDE DEF g
  <2>2. n \in Jobs /\ ~n.ok
    BY <1>2, <1>4, <2>1, VoidFacts DEF Gone, Jobs
  <2> QED BY <2>2 DEF n
<1>5. CASE x.ok
  <2>1. /\ q \in Seq(Section) /\ st \in Section /\ Pages(st) \subseteq User
        /\ \A i \in DOMAIN q : Pages(q[i]) \subseteq User
        /\ \/ st.start = 0 /\ st.size = 0
           \/ MinStack <= st.start /\ st.start + st.size = SHARED_MEMORY
    <3>1. q \in Seq(Section)
      BY DEF Spaces
    <3> QED BY <3>1, OwnedIsUser DEF Placed
  <2>2. /\ JobOK(x, O) /\ SameOwner(m, x) /\ x.sp.sections = q
        /\ \A va \in User : x.sp.map[va] # NULL => va \in SectionPages(q)
    BY <1>1, <1>5 DEF Child
  <2> HIDE DEF q, st
  <2>3. Copying(x, c, O, Pages(st))
    BY <2>1, <2>2, CopyMemoryFacts
  <2> HIDE DEF c
  <2>4. /\ c \in Jobs /\ Entries(c.sp) /\ SameOwner(m, c) /\ c.sp.sections = q
        /\ (c.ok \/ c.fate = "ok") => JobOK(c, O)
        /\ \A va \in User : c.sp.map[va] # NULL => va \in SectionPages(q) \cup Pages(st)
    BY <2>2, <2>3 DEF Copying, SameOwner
  <2>5. /\ u \in Jobs /\ SameOwner(m, u) /\ u.sp.sections = q
        /\ u.fate = "ok" => JobOK(u, O)
        /\ \A va \in User : u.sp.map[va] # NULL => va \in SectionPages(q) \cup Pages(st)
    <3>1. CASE c.ok
      BY <2>4, <3>1
    <3>2. CASE ~c.ok
      <4>1. Freed(c, f, SectionPages(q)) /\ SectionPages(q) \subseteq User
        BY <2>1, <2>4, FreeSectionsFacts DEF SectionPages
      <4>2. u = [f EXCEPT !.ok = TRUE]
        BY <3>2
      <4> HIDE DEF f, u
      <4>3. f \in Jobs /\ (f.fate = "ok" => c.fate = "ok")
        BY <4>1 DEF Freed, Keeps
      <4>4. u \in Jobs /\ u.free = f.free /\ u.sp = f.sp /\ u.fate = f.fate
        BY <4>2, <4>3 DEF Jobs
      <4>5. ASSUME u.fate = "ok" PROVE JobOK(u, O)
        <5>1. JobOK(f, O)
          BY <2>4, <4>1, <4>3, <4>4, <4>5, FreedKeeps
        <5> QED BY <4>4, <5>1, SameMemory
      <4>6. \A va \in User : f.sp.map[va] # NULL => c.sp.map[va] # NULL
        BY <4>1, Layout DEF Freed
      <4>7. SameOwner(m, u) /\ u.sp.sections = q
        BY <2>4, <4>1, <4>4 DEF Freed, Keeps, SameOwner
      <4> QED BY <2>4, <4>4, <4>5, <4>6, <4>7
    <3> QED BY <3>1, <3>2
  <2> HIDE DEF u
  <2>6. n = WithStack(u, st)
    BY <1>2, <1>5
  <2>7. n \in Jobs /\ n.fate = u.fate
    BY <2>1, <2>5, <2>6 DEF WithStack, Jobs, Spaces
  <2>8. ASSUME n.fate = "ok" PROVE JobOK(n, O) /\ SameOwner(m, n) /\ Covered(n.sp)
    <3>1. /\ JobOK(n, O) /\ SameOwner(u, n)
          /\ n.sp.map = u.sp.map /\ n.sp.sections = u.sp.sections /\ n.sp.stack = st
      BY <2>1, <2>5, <2>6, <2>7, <2>8, StackFacts
    <3>2. Covered(n.sp)
      BY <2>5, <3>1 DEF Covered, Owned, q
    <3> QED BY <2>5, <3>1, <3>2 DEF SameOwner
  <2> QED BY <2>7, <2>8 DEF n
<1> QED BY <1>4, <1>5

-----------------------------------------------------------------------------
(* A new task. *)

\* Whatever allocate() returns, nobody else's pages are touched.
LEMMA AllocateKeeps ==
    ASSUME NEW O, NEW m, JobOK(m, O), NEW order \in {0, 1}
    PROVE  JobOK(Allocate(m, order), O)
<1> DEFINE n == Allocate(m, order)
<1>1. /\ n.page = NULL => JobOK(n, O)
      /\ n.page # NULL => JobOK(n, O \cup Block(n.page, order))
  BY AllocateFacts
<1> HIDE DEF n
<1>2. JobOK(n, O)
  BY <1>1, FewerOthers
<1> QED BY <1>2 DEF n

\* The page table, the trap frame and the shared page, if there are enough pages.
LEMMA OwnFacts ==
    ASSUME NEW O, NEW m, JobOK(m, O), m.sp = Void
    PROVE  LET n == Own(m)
           IN  /\ n \in Jobs /\ n.fate = m.fate /\ n.ok = m.ok
               /\ n.sp.sections = <<>> /\ \A va \in User : n.sp.map[va] = NULL
               /\ \A x \in O : x \notin n.free
               /\ n.sp.root # NULL => n.sp.root \in Page /\ n.sp.root \notin O
               /\ NULL \notin {n.sp.root, n.sp.frame, n.sp.shared} => JobOK(n, O)
<1> DEFINE a == Allocate(m, 1)
           b == Allocate(a, 0)
           c == Allocate(b, 0)
           r == a.page
           f == b.page
           s == c.page
           n == Own(m)
<1>1. n = [c EXCEPT !.sp.root = r, !.sp.frame = f, !.sp.shared = s]
  BY DEF Own
<1>2. /\ a.sp = m.sp /\ a.ok = m.ok /\ a.fate = m.fate
      /\ r # NULL => r \in Page /\ r \notin O /\ JobOK(a, O \cup Block(r, 1))
                     /\ Block(r, 1) \cap O = {}
  BY AllocateFacts
<1>3. JobOK(a, O)
  BY AllocateKeeps
<1> HIDE DEF a
<1>4. r \in Ptr
  BY <1>3 DEF JobOK, Jobs
<1> HIDE DEF r
<1>5. JobOK(b, O)
  BY <1>3, AllocateKeeps
<1>6. /\ b.sp = a.sp /\ b.ok = a.ok /\ b.fate = a.fate
  BY <1>3, AllocateFacts
<1>7. r # NULL /\ f # NULL => f \in Page /\ f \notin O \cup Block(r, 1)
                              /\ JobOK(b, (O \cup Block(r, 1)) \cup Block(f, 0))
  BY <1>2, AllocateFacts
<1> HIDE DEF b
<1>8. f \in Ptr
  BY <1>5 DEF JobOK, Jobs
<1> HIDE DEF f
<1>9. JobOK(c, O)
  BY <1>5, AllocateKeeps
<1>10. /\ c.sp = b.sp /\ c.ok = b.ok /\ c.fate = b.fate
  BY <1>5, AllocateFacts
<1>11. r # NULL /\ f # NULL /\ s # NULL
       => s \in Page /\ s \notin (O \cup Block(r, 1)) \cup Block(f, 0)
          /\ JobOK(c, ((O \cup Block(r, 1)) \cup Block(f, 0)) \cup Block(s, 0))
  BY <1>7, AllocateFacts
<1> HIDE DEF c
<1>12. s \in Ptr /\ c \in Jobs /\ c.sp = Void /\ c.sp \in Spaces
  BY <1>2, <1>6, <1>9, <1>10, VoidFacts DEF JobOK, Jobs
<1> HIDE DEF s
<1>13. /\ n \in Jobs /\ n.fate = c.fate /\ n.ok = c.ok /\ n.free = c.free
       /\ n.sp.root = r /\ n.sp.frame = f /\ n.sp.shared = s
       /\ n.sp.table = c.sp.table /\ n.sp.map = c.sp.map
       /\ n.sp.sections = c.sp.sections /\ n.sp.stack = c.sp.stack
  <2> DEFINE sp == [c.sp EXCEPT !.root = r, !.frame = f, !.shared = s]
  <2>1. /\ sp \in Spaces /\ sp.root = r /\ sp.frame = f /\ sp.shared = s
        /\ sp.table = c.sp.table /\ sp.map = c.sp.map
        /\ sp.sections = c.sp.sections /\ sp.stack = c.sp.stack
    BY <1>4, <1>8, <1>12 DEF Spaces
  <2>2. n = [c EXCEPT !.sp = sp]
    BY <1>1, <1>12 DEF Jobs, Spaces
  <2> HIDE DEF sp
  <2>3. n \in Jobs /\ n.fate = c.fate /\ n.ok = c.ok /\ n.free = c.free /\ n.sp = sp
    BY <1>12, <2>1, <2>2 DEF Jobs
  <2> QED BY <2>1, <2>3
<1> HIDE DEF n
<1>14. n.sp.sections = <<>> /\ \A va \in User : n.sp.map[va] = NULL
  BY <1>12, <1>13, VoidFacts
<1>15. \A x \in O : x \notin n.free
  <2>1. c.free \subseteq 0 .. NPages
    BY <1>12, Layout DEF Jobs
  <2> QED BY <1>9, <1>13, <2>1 DEF JobOK, OneUse
<1>16. ASSUME r # NULL, f # NULL, s # NULL PROVE JobOK(n, O)
  <2>1. /\ r \in Page /\ f \in Page /\ s \in Page
        /\ Block(r, 1) = {r, r + 1} /\ Block(f, 0) = {f} /\ Block(s, 0) = {s}
    BY <1>2, <1>7, <1>11, <1>16, Blocks01, Layout
  <2>2. /\ r \notin O /\ r + 1 \notin O /\ f \notin O /\ s \notin O
        /\ f \notin {r, r + 1} /\ s \notin {r, r + 1, f}
    BY <1>2, <1>7, <1>11, <1>16, <2>1
  <2>3. /\ JobOK(c, O)
        /\ r \notin c.free /\ r + 1 \notin c.free /\ f \notin c.free /\ s \notin c.free
    <3> DEFINE P == ((O \cup Block(r, 1)) \cup Block(f, 0)) \cup Block(s, 0)
    <3>1. r \in P /\ r + 1 \in P /\ f \in P /\ s \in P
      BY <2>1
    <3>2. JobOK(c, P)
      BY <1>11, <1>16
    <3> HIDE DEF P
    <3>3. c.free \subseteq 0 .. NPages
      BY <1>12, Layout DEF Jobs
    <3> QED BY <1>9, <3>1, <3>2, <3>3 DEF JobOK, OneUse
  <2>4. \A e \in Tables : n.sp.table[e] = NULL
    BY <1>12, <1>13 DEF Void
  <2>5. \A x \in 0 .. NPages : InTable(n.sp, x) <=> x \in {r, r + 1}
    BY <1>13, <1>16, <2>4 DEF InTable
  <2>6. \A x \in 0 .. NPages : InData(n.sp, x) <=> x \in {f, s}
    <3>1. \A x \in 0 .. NPages : x # NULL
      BY Layout DEF NULL
    <3> QED BY <1>13, <1>14, <3>1 DEF InData
  <2>7. OneUse(n.free, n.sp, O)
    BY <1>13, <2>2, <2>3, <2>5, <2>6 DEF JobOK, OneUse
  <2>8. Distinct(n.sp)
    BY <1>13, <1>14, <2>2 DEF Distinct
  <2>9. Entries(n.sp)
    BY <1>14 DEF Entries
  <2>10. Placed(n.sp)
    BY <1>12, <1>13, VoidFacts DEF Placed
  <2> QED BY <1>13, <2>7, <2>8, <2>9, <2>10 DEF JobOK
<1>17. /\ n \in Jobs /\ n.fate = m.fate /\ n.ok = m.ok
       /\ n.sp.sections = <<>> /\ \A va \in User : n.sp.map[va] = NULL
       /\ \A x \in O : x \notin n.free
       /\ n.sp.root # NULL => n.sp.root \in Page /\ n.sp.root \notin O
       /\ NULL \notin {n.sp.root, n.sp.frame, n.sp.shared} => JobOK(n, O)
  BY <1>2, <1>6, <1>10, <1>13, <1>14, <1>15, <1>16
<1> QED BY <1>17 DEF n

\* One of the three pages that new_task() maps.
SpecialTurn(c, x, e) == MapPage(x, e[1], e[2])
SpecialFold == INSTANCE FoldProofs WITH Op <- SpecialTurn

\* The three mappings are made one after the other.
LEMMA SpecialFoldFacts ==
    ASSUME NEW o, NEW a, NEW b, NEW d
    PROVE  SpecialFold!Fold(0, o, <<a, b, d>>)
               = MapPage(MapPage(MapPage(o, a[1], a[2]), b[1], b[2]), d[1], d[2])
<1> DEFINE x1 == MapPage(o, a[1], a[2])
           x2 == MapPage(x1, b[1], b[2])
           x3 == MapPage(x2, d[1], d[2])
           q  == <<a, b, d>>
           S  == [k \in 0 .. 3 |-> IF k = 0 THEN {o} ELSE IF k = 1 THEN {x1}
                                   ELSE IF k = 2 THEN {x2} ELSE {x3}]
<1>1. DOMAIN q = 1 .. 3 /\ q[1] = a /\ q[2] = b /\ q[3] = d
  OBVIOUS
<1>2. /\ SpecialTurn(0, o, a) = x1 /\ SpecialTurn(0, x1, b) = x2
      /\ SpecialTurn(0, x2, d) = x3
  BY DEF SpecialTurn
<1> HIDE DEF q, x1, x2, x3
<1>3. S[0] = {o} /\ S[1] = {x1} /\ S[2] = {x2} /\ S[3] = {x3}
  OBVIOUS
<1> HIDE DEF S
<1>4. \A k \in 1 .. 3 : \A x \in S[k - 1] : SpecialTurn(0, x, q[k]) \in S[k]
  <2> TAKE k \in 1 .. 3
  <2> TAKE x \in S[k - 1]
  <2>1. k = 1 \/ k = 2 \/ k = 3
    OBVIOUS
  <2>2. CASE k = 1
    <3>1. x = o /\ q[k] = a
      BY <1>1, <1>3, <2>2
    <3> QED BY <1>2, <1>3, <2>2, <3>1
  <2>3. CASE k = 2
    <3>1. x = x1 /\ q[k] = b
      BY <1>1, <1>3, <2>3
    <3> QED BY <1>2, <1>3, <2>3, <3>1
  <2>4. CASE k = 3
    <3>1. x = x2 /\ q[k] = d
      BY <1>1, <1>3, <2>4
    <3> QED BY <1>2, <1>3, <2>4, <3>1
  <2> QED BY <2>1, <2>2, <2>3, <2>4
<1>5. SpecialFold!Fold(0, o, q) \in S[3]
  <2>1. o \in S[0] /\ 3 \in Nat
    BY <1>3
  <2> QED BY <1>1, <1>4, <2>1, SpecialFold!FoldRule
<1> QED BY <1>3, <1>5 DEF q, x3, x2, x1

\* new_task(): an empty address space of its own, or a failure.
LEMMA NewTaskFacts ==
    ASSUME NEW O, NEW m, JobOK(m, O), m.sp = Void
    PROVE  LET n == NewTask(m)
           IN  /\ n \in Jobs /\ (n.fate = "ok" => m.fate = "ok") /\ \A x \in O : x \notin n.free
               /\ n.ok => /\ JobOK(n, O) /\ NULL \notin {n.sp.root, n.sp.frame, n.sp.shared}
                          /\ n.sp.sections = <<>> /\ \A va \in User : n.sp.map[va] = NULL
<1> DEFINE o == Own(m)
           fp == o.sp.frame
           sp == o.sp.shared
           f == MapPage(o, TRAPFRAME, fp)
           c == MapPage(f, TRAMPOLINE, STATIC)
           s == MapPage(c, SHARED_MEMORY, sp)
           n == NewTask(m)
<1>1. /\ o \in Jobs /\ o.fate = m.fate /\ o.ok = m.ok
      /\ o.sp.sections = <<>> /\ \A va \in User : o.sp.map[va] = NULL
      /\ \A x \in O : x \notin o.free
      /\ o.sp.root # NULL => o.sp.root \in Page /\ o.sp.root \notin O
      /\ NULL \notin {o.sp.root, o.sp.frame, o.sp.shared} => JobOK(o, O)
  BY OwnFacts
<1>2. n = IF NULL \in {o.sp.root, o.sp.frame, o.sp.shared} THEN Failed(Deallocate(o, o.sp.root))
          ELSE IF s.ok THEN s ELSE Wild(s)
  <2> DEFINE a == <<TRAPFRAME, fp>>
             b == <<TRAMPOLINE, STATIC>>
             d == <<SHARED_MEMORY, sp>>
             w == SpecialFold!Fold(0, o, <<a, b, d>>)
  <2>1. n = IF NULL \in {o.sp.root, o.sp.frame, o.sp.shared} THEN Failed(Deallocate(o, o.sp.root))
            ELSE IF w.ok THEN w ELSE Wild(w)
    BY DEF NewTask, OrElse, SpecialFold!Fold, FoldLeft, MapThenFoldSet, SpecialFold!FoldLeft,
           SpecialFold!MapThenFoldSet, SpecialTurn, Max, SpecialFold!Max
  <2>2. w = MapPage(MapPage(MapPage(o, a[1], a[2]), b[1], b[2]), d[1], d[2])
    <3> HIDE DEF o, a, b, d
    <3> QED BY SpecialFoldFacts
  <2>3. /\ a[1] = TRAPFRAME /\ a[2] = fp /\ b[1] = TRAMPOLINE /\ b[2] = STATIC
        /\ d[1] = SHARED_MEMORY /\ d[2] = sp
    OBVIOUS
  <2>4. w = s
    <3> HIDE DEF o, a, b, d, w, fp, sp
    <3> QED BY <2>2, <2>3
  <2> HIDE DEF w
  <2> QED BY <2>1, <2>4
<1> HIDE DEF o, n
<1>3. o.sp.root \in Ptr /\ o.sp.frame \in Ptr /\ o.sp.shared \in Ptr
  BY <1>1 DEF Jobs, Spaces
<1>6. fp \in Ptr \cup {STATIC} /\ sp \in Ptr \cup {STATIC}
  BY <1>3
<1> HIDE DEF fp, sp
<1>4. CASE NULL \in {o.sp.root, o.sp.frame, o.sp.shared}
  <2> DEFINE d == Deallocate(o, o.sp.root)
  <2>1. /\ d \in Jobs /\ (d.fate = "ok" => o.fate = "ok")
        /\ d.free = o.free \cup ({o.sp.root} \ {NULL})
    BY <1>1, <1>3, DeallocateFacts
  <2>2. n = Failed(d)
    BY <1>2, <1>4
  <2> HIDE DEF d
  <2>3. n \in Jobs /\ n.fate = d.fate /\ n.free = d.free /\ ~n.ok
    BY <2>1, <2>2 DEF Failed, Jobs
  <2>4. n \in Jobs /\ (n.fate = "ok" => m.fate = "ok") /\ (\A x \in O : x \notin n.free) /\ ~n.ok
    BY <1>1, <2>1, <2>3
  <2> QED BY <2>4 DEF n
<1>5. CASE NULL \notin {o.sp.root, o.sp.frame, o.sp.shared}
  <2>1. JobOK(o, O) /\ TRAPFRAME \in Special /\ TRAMPOLINE \in Special /\ SHARED_MEMORY \in Special
    BY <1>1, <1>5 DEF Special
  <2>2. /\ Keeps(o, f) /\ JobOK(f, O) /\ \A vb \in User : f.sp.map[vb] = o.sp.map[vb]
    BY <1>6, <2>1, MapSpecialFacts
  <2> HIDE DEF f
  <2>3. /\ Keeps(f, c) /\ JobOK(c, O) /\ \A vb \in User : c.sp.map[vb] = f.sp.map[vb]
    BY <2>1, <2>2, MapSpecialFacts
  <2> HIDE DEF c
  <2>4. /\ Keeps(c, s) /\ JobOK(s, O) /\ \A vb \in User : s.sp.map[vb] = c.sp.map[vb]
    BY <1>6, <2>1, <2>3, MapSpecialFacts
  <2> HIDE DEF s
  <2>5. n = IF s.ok THEN s ELSE Wild(s)
    BY <1>2, <1>5
  <2>6. /\ s \in Jobs /\ (s.fate = "ok" => m.fate = "ok")
        /\ NULL \notin {s.sp.root, s.sp.frame, s.sp.shared} /\ s.sp.sections = <<>>
        /\ \A va \in User : s.sp.map[va] = NULL
    BY <1>1, <1>5, <2>2, <2>3, <2>4 DEF Keeps, JobOK
  <2>7. \A x \in O : x \notin s.free
    <3>1. s.free \subseteq 0 .. NPages
      BY <2>6, Layout DEF Jobs
    <3> QED BY <2>4, <3>1 DEF JobOK, OneUse
  <2>8. n \in Jobs /\ n.free = s.free /\ (n.fate = "ok" => s.fate = "ok") /\ (n.ok => n = s)
    BY <2>5, <2>6 DEF Wild, Jobs, Fates
  <2>9. /\ n \in Jobs /\ (n.fate = "ok" => m.fate = "ok") /\ \A x \in O : x \notin n.free
        /\ n.ok => /\ JobOK(n, O) /\ NULL \notin {n.sp.root, n.sp.frame, n.sp.shared}
                   /\ n.sp.sections = <<>> /\ \A va \in User : n.sp.map[va] = NULL
    BY <2>4, <2>6, <2>7, <2>8
  <2> QED BY <2>9 DEF n
<1> QED BY <1>4, <1>5

-----------------------------------------------------------------------------
(* The stack grows. *)

\* x is m with a stack of k pages more, or has failed.
Growing(m, x, O, k) ==
    /\ JobOK(x, O) /\ (x.fate = "ok" => m.fate = "ok")
    /\ x.ok =>
           /\ SameOwner(m, x) /\ x.sp.sections = m.sp.sections
           /\ x.sp.stack = [start |-> m.sp.stack.start - k, size |-> m.sp.stack.size + k]
           /\ x.fate = "ok" => Covered(x.sp)

FaultTurn(c, x, i) == Then(x, EnlargeStackByAPage)
FaultFold == INSTANCE FoldProofs WITH Op <- FaultTurn

\* Both fields of the stack are assigned.
LEMMA StackField ==
    ASSUME NEW z \in Section, NEW a \in Nat, NEW b \in Nat
    PROVE  [z EXCEPT !.start = a, !.size = b] = [start |-> a, size |-> b]
<1> DEFINE w == [z EXCEPT !.start = a, !.size = b]
<1>1. w \in [start : Nat, size : Nat] /\ w.start = a /\ w.size = b
  BY DEF Section
<1> HIDE DEF w
<1>2. w = [start |-> a, size |-> b]
  BY <1>1
<1> QED BY <1>2 DEF w

\* enlarge_stack_by_a_page().
LEMMA EnlargeFacts ==
    ASSUME NEW O, NEW m, NEW x, NEW k \in Nat \ {0}, NEW i, Growing(m, x, O, k - 1),
           m.sp.stack \in Section, m.sp.stack.start - k >= MinStack,
           m.sp.stack.start + m.sp.stack.size = SHARED_MEMORY
    PROVE  Growing(m, FaultTurn(0, x, i), O, k)
<1> DEFINE st == m.sp.stack
           va == st.start - k
           new == [start |-> va, size |-> st.size + k]
           y == MapPageForUser(x, x.sp.stack.start - 1)
           n == WithStack(y, new)
           r == FaultTurn(0, x, i)
<1>1. CASE ~x.ok
  <2>1. r = x
    BY <1>1 DEF FaultTurn, Then
  <2> QED BY <1>1, <2>1 DEF Growing
<1>2. CASE x.ok
  <2>1. st.start \in Nat /\ st.size \in Nat /\ va \in Nat /\ MinStack \in Nat
    BY Layout DEF Section
  <2>2. va \in User /\ new \in Section /\ MinStack <= new.start /\ new.start + new.size = SHARED_MEMORY
    BY <2>1, Layout DEF Section, User
  <2>3. /\ JobOK(x, O) /\ (x.fate = "ok" => m.fate = "ok")
        /\ SameOwner(m, x) /\ x.sp.sections = m.sp.sections
        /\ x.sp.stack = [start |-> st.start - (k - 1), size |-> st.size + (k - 1)]
        /\ x.fate = "ok" => Covered(x.sp)
    BY <1>2 DEF Growing
  <2>4. x.sp.stack.start - 1 = va /\ x.sp.stack.start = va + 1 /\ x.sp.stack.size + 1 = st.size + k
    BY <2>1, <2>3
  <2>5. JobOK(y, O) /\ (y.fate = "ok" => x.fate = "ok") /\ (y.ok => Added(x, y, {va}))
    BY <1>2, <2>2, <2>3, <2>4, MapPageForUserFacts
  <2>6. r = IF y.ok THEN [y EXCEPT !.sp.stack.start = @ - 1, !.sp.stack.size = @ + 1] ELSE y
    BY <1>2 DEF FaultTurn, Then, EnlargeStackByAPage
  <2> HIDE DEF r, y
  <2>7. CASE ~y.ok
    <3>1. r = y
      BY <2>6, <2>7
    <3>2. Growing(m, r, O, k)
      BY <2>3, <2>5, <2>7, <3>1 DEF Growing
    <3> QED BY <3>2 DEF r
  <2>8. CASE y.ok
    <3>1. Added(x, y, {va}) /\ Keeps(x, y)
      BY <2>5, <2>8 DEF Added
    <3>2. y \in Jobs /\ y.sp \in Spaces /\ y.sp.stack = x.sp.stack /\ y.sp.stack \in Section
      BY <2>5, <3>1 DEF JobOK, Jobs, Spaces, Keeps
    <3>3. r = n
      <4>1. [y.sp.stack EXCEPT !.start = @ - 1, !.size = @ + 1] = new
        <5> DEFINE z == y.sp.stack
        <5>1. z \in Section /\ z.start - 1 = va /\ z.size + 1 = st.size + k
          BY <2>4, <3>2
        <5> HIDE DEF z, st
        <5>2. [z EXCEPT !.start = z.start - 1, !.size = z.size + 1]
                = [start |-> z.start - 1, size |-> z.size + 1]
          <6>1. z.start - 1 \in Nat /\ z.size + 1 \in Nat
            BY <2>1, <5>1
          <6> QED BY <5>1, <6>1, StackField
        <5> QED BY <5>1, <5>2 DEF z
      <4>2. r = [y EXCEPT !.sp.stack = [y.sp.stack EXCEPT !.start = @ - 1, !.size = @ + 1]]
        BY <2>6, <2>8, <3>2 DEF Jobs, Spaces, Section
      <4> QED BY <4>1, <4>2 DEF WithStack
    <3>4. /\ JobOK(n, O) /\ n.ok = y.ok /\ n.fate = y.fate /\ SameOwner(y, n)
          /\ n.sp.map = y.sp.map /\ n.sp.sections = y.sp.sections /\ n.sp.stack = new
      BY <2>2, <2>5, StackFacts
    <3> HIDE DEF n
    <3>5. SameOwner(m, n) /\ n.sp.sections = m.sp.sections
      BY <2>3, <3>1, <3>4 DEF Keeps, SameOwner
    <3>6. ASSUME n.fate = "ok" PROVE Covered(n.sp)
      <4>1. Covered(x.sp) /\ y.fate = "ok"
        BY <2>3, <2>5, <3>4, <3>6
      <4>2. \A vb \in User : n.sp.map[vb] # NULL => x.sp.map[vb] # NULL \/ vb = va
        BY <3>1, <3>4 DEF Added
      <4>3. Pages(n.sp.stack) = Pages(x.sp.stack) \cup {va}
        <5>1. n.sp.stack.start = va /\ n.sp.stack.size = st.size + k
          BY <3>4
        <5>2. x.sp.stack.start = va + 1 /\ x.sp.stack.size = st.size + k - 1
          BY <2>1, <2>3
        <5>3. ASSUME NEW a, NEW b, a.start = va, a.size = st.size + k, b.start = va + 1, b.size = st.size + k - 1
              PROVE  Pages(a) = Pages(b) \cup {va}
          BY <2>1, <5>3 DEF Pages
        <5> QED BY <5>1, <5>2, <5>3
      <4>4. n.sp.sections = x.sp.sections
        BY <2>3, <3>5
      <4>5. Owned(n.sp) = Owned(x.sp) \cup {va}
        BY <4>3, <4>4 DEF Owned
      <4> QED BY <4>1, <4>2, <4>4, <4>5 DEF Covered
    <3>7. Growing(m, n, O, k)
      BY <2>3, <2>5, <3>4, <3>5, <3>6 DEF Growing
    <3> QED BY <3>3, <3>7 DEF r
  <2> QED BY <2>7, <2>8
<1> QED BY <1>1, <1>2
\* The loop of try_enlarge_stack(), down to the page of the fault.
LEMMA FaultFacts ==
    ASSUME NEW O, NEW m, JobOK(m, O), m.ok, m.fate = "ok" => Covered(m.sp),
           NEW va \in MinStack .. m.sp.stack.start - 1
    PROVE  LET k == m.sp.stack.start - va
           IN  Growing(m, FoldLeft(LAMBDA x, i : Then(x, EnlargeStackByAPage), m, [i \in 1 .. k |-> i]), O, k)
<1> DEFINE st == m.sp.stack
           g == st.start - va
           q == [i \in 1 .. g |-> i]
           S == [k \in 0 .. g |-> {x \in Jobs : Growing(m, x, O, k)}]
<1>1. FoldLeft(LAMBDA x, i : Then(x, EnlargeStackByAPage), m, q) = FaultFold!Fold(0, m, q)
  BY DEF FaultFold!Fold, FoldLeft, MapThenFoldSet, FaultFold!FoldLeft,
         FaultFold!MapThenFoldSet, FaultTurn, Max, FaultFold!Max
<1>2. st \in Section /\ st.start \in Nat /\ st.size \in Nat /\ MinStack \in Nat
  BY Layout DEF JobOK, Jobs, Spaces, Section
<1>3. g \in Nat /\ va \in Nat /\ va >= MinStack /\ st.start > MinStack
  BY <1>2
<1>4. st.start + st.size = SHARED_MEMORY
  BY <1>2, <1>3, Layout DEF JobOK, Placed
<1>5. \A x, k : Growing(m, x, O, k) => x \in Jobs
  BY DEF Growing, JobOK
<1>6. Growing(m, m, O, 0)
  <2>1. m.sp.stack = [start |-> st.start - 0, size |-> st.size + 0]
    BY <1>2 DEF Section
  <2> QED BY <2>1 DEF Growing, SameOwner
<1>7. \A k \in 1 .. g : k \in Nat \ {0} /\ st.start - k >= MinStack
  BY <1>2, <1>3
<1> HIDE DEF g, st
<1>8. \A k \in 0 .. g : S[k] = {x \in Jobs : Growing(m, x, O, k)}
  OBVIOUS
<1>9. DOMAIN q = 1 .. g
  OBVIOUS
<1> HIDE DEF S, q
<1>10. m \in S[0]
  BY <1>3, <1>5, <1>6, <1>8
<1>11. ASSUME NEW k \in 1 .. g, NEW x \in S[k - 1] PROVE FaultTurn(0, x, q[k]) \in S[k]
  <2>1. Growing(m, x, O, k - 1)
    BY <1>3, <1>8
  <2>2. Growing(m, FaultTurn(0, x, q[k]), O, k)
    BY <1>2, <1>4, <1>7, <2>1, EnlargeFacts DEF st
  <2> QED BY <1>3, <1>5, <1>8, <2>2
<1>12. FaultFold!Fold(0, m, q) \in S[g]
  BY <1>3, <1>9, <1>10, <1>11, FaultFold!FoldRule
<1>13. Growing(m, FaultFold!Fold(0, m, q), O, g)
  BY <1>3, <1>8, <1>12
<1> QED BY <1>1, <1>13 DEF g, q, st

-----------------------------------------------------------------------------
(* What becomes of a task. *)

\* The task of the job m has ended, or goes on with an image that can be freed.
Outcome(m, n, O) ==
    /\ JobOK(n, O)
    /\ n.fate = "ok" => n.sp = Void \/ (SameOwner(m, n) /\ Covered(n.sp))

\* exit_process().
LEMMA EndedFacts ==
    ASSUME NEW O, NEW m, JobOK(m, O), NEW t
    PROVE  JobOK(Ended(t, m), O) /\ (Ended(t, m).fate = "ok" => Ended(t, m).sp = Void)
<1> DEFINE n == Ended(t, m)
<1>1. CASE t = init
  <2>1. n = Panic(m) /\ m \in Jobs
    BY <1>1 DEF Ended, JobOK
  <2>2. n \in Jobs /\ n.free = m.free /\ n.sp = m.sp /\ n.fate # "ok"
    BY <2>1 DEF Panic, Jobs, Fates
  <2> QED BY <2>2, SameMemory
<1>2. CASE t # init
  <2>1. n = Gone(FreeUserMemory(m))
    BY <1>2 DEF Ended
  <2> QED BY <2>1, EndOfTask
<1> QED BY <1>1, <1>2

\* What Exec and PageFault make of the job m of task t.
Executed(t, m, program) ==
    OrElse(Load(ClearUserMemorySpace(m), program), LAMBDA x : Ended(t, x))
Grown(m, va) ==
    FoldLeft(LAMBDA x, i : Then(x, EnlargeStackByAPage), m, [i \in 1 .. m.sp.stack.start - va |-> i])
Faulted(t, m, va) == OrElse(Grown(m, va), LAMBDA x : Ended(t, x))

\* exec_process().
LEMMA ExecFacts ==
    ASSUME NEW O, NEW m, JobOK(m, O), m.ok, Covered(m.sp), NEW t, NEW program \in Programs
    PROVE  Outcome(m, Executed(t, m, program), O)
<1> DEFINE c == ClearUserMemorySpace(m)
           n == Load(c, program)
<1>1. /\ JobOK(c, O) /\ c.ok = m.ok /\ (c.fate = "ok" => m.fate = "ok")
      /\ c.sp.root = m.sp.root /\ c.sp.frame = m.sp.frame /\ c.sp.shared = m.sp.shared
      /\ c.sp.sections = <<>>
      /\ \A va \in User : c.sp.map[va] = IF va \in Owned(m.sp) THEN NULL ELSE m.sp.map[va]
  BY ClearKeeps
<1>2. Executed(t, m, program) = IF n.ok THEN n ELSE Ended(t, n)
  BY DEF Executed, OrElse
<1> HIDE DEF c
<1>3. \A va \in User : c.sp.map[va] = NULL
  BY <1>1 DEF Covered
<1>4. Loaded(c, n, O)
  BY <1>1, <1>3, LoadFacts
<1> HIDE DEF n
<1>5. n.ok => Outcome(m, n, O)
  BY <1>1, <1>4 DEF Loaded, Outcome, SameOwner
<1>6. JobOK(Ended(t, n), O) /\ (Ended(t, n).fate = "ok" => Ended(t, n).sp = Void)
  BY <1>4, EndedFacts DEF Loaded
<1>7. Outcome(m, Ended(t, n), O)
  BY <1>6 DEF Outcome
<1> QED BY <1>2, <1>5, <1>7

\* A page fault in the range of the stack.
LEMMA PageFaultFacts ==
    ASSUME NEW O, NEW m, JobOK(m, O), m.ok, Covered(m.sp), NEW t,
           NEW va \in MinStack .. m.sp.stack.start - 1
    PROVE  Outcome(m, Faulted(t, m, va), O)
<1> DEFINE n == Grown(m, va)
<1>1. Growing(m, n, O, m.sp.stack.start - va)
  BY FaultFacts DEF Grown
<1>2. Faulted(t, m, va) = IF n.ok THEN n ELSE Ended(t, n)
  BY DEF Faulted, OrElse
<1> HIDE DEF n
<1>3. n.ok => Outcome(m, n, O)
  BY <1>1 DEF Growing, Outcome
<1>4. JobOK(Ended(t, n), O) /\ (Ended(t, n).fate = "ok" => Ended(t, n).sp = Void)
  BY <1>1, EndedFacts DEF Growing
<1>5. Outcome(m, Ended(t, n), O)
  BY <1>4 DEF Outcome
<1> QED BY <1>2, <1>3, <1>5

\* There is no child.
LEMMA NoChild ==
    ASSUME NEW O, NEW m, JobOK(m, O), m.sp = Void
    PROVE  JobOK(Gone(NewTask(m)), O) /\ Gone(NewTask(m)).sp = Void
<1> DEFINE new == NewTask(m)
<1>1. new \in Jobs /\ \A x \in O : x \notin new.free
  BY NewTaskFacts
<1> HIDE DEF new
<1> QED BY <1>1, GoneFacts DEF new

\* The child has memory of its own, if the machine goes on.
LEMMA ChildFacts ==
    ASSUME NEW O, NEW m, JobOK(m, O), m.sp = Void, NewTask(m).ok, NewTask(m).fate = "ok",
           NEW from \in Spaces, Placed(from), Entries(from), Disjoint(from.sections)
    PROVE  LET n == CopyAllMemory(NewTask(m), from)
           IN  /\ n \in Jobs
               /\ n.ok /\ n.fate = "ok" =>
                      /\ JobOK(n, O) /\ Covered(n.sp)
                      /\ NULL \notin {n.sp.root, n.sp.frame, n.sp.shared}
<1> DEFINE new == NewTask(m)
           n == CopyAllMemory(new, from)
<1>1. /\ JobOK(new, O) /\ NULL \notin {new.sp.root, new.sp.frame, new.sp.shared}
      /\ new.sp.sections = <<>> /\ \A va \in User : new.sp.map[va] = NULL
  BY NewTaskFacts
<1>2. new.ok /\ new.fate = "ok"
  OBVIOUS
<1> HIDE DEF new
<1>3. Child(new, new, O, <<>>)
  BY <1>1, <1>2 DEF Child, SameOwner, JobOK
<1>4. /\ n \in Jobs
      /\ n.ok /\ n.fate = "ok" => JobOK(n, O) /\ SameOwner(new, n) /\ Covered(n.sp)
  BY <1>3, CopyAllFacts
<1> HIDE DEF n
<1>5. /\ n \in Jobs
      /\ n.ok /\ n.fate = "ok" =>
             /\ JobOK(n, O) /\ Covered(n.sp)
             /\ NULL \notin {n.sp.root, n.sp.frame, n.sp.shared}
  BY <1>1, <1>4 DEF SameOwner
<1> QED BY <1>5 DEF n, new

\* A failed copy drives the machine wild.
LEMMA FreeCallerFacts ==
    ASSUME NEW m \in Jobs, NEW from \in Spaces, Placed(from), Entries(from)
    PROVE  FreeCaller(m, from) \in Jobs /\ FreeCaller(m, from).fate # "ok"
<1> DEFINE x == [m EXCEPT !.sp = from]
           f == FreeUserMemory(x)
<1>1. x \in Jobs /\ x.sp = from
  BY DEF Jobs
<1> HIDE DEF x
<1>2. f \in Jobs
  BY <1>1, FreeUserMemoryFacts
<1> HIDE DEF f
<1>3. FreeCaller(m, from) = Wild(f)
  BY DEF FreeCaller, f, x
<1> QED BY <1>2, <1>3 DEF Wild, Jobs, Fates

-----------------------------------------------------------------------------
(* The inductive invariant. *)

\* The pages of an address space.
Used(sp) == {x \in 0 .. NPages : InTable(sp, x) \/ InData(sp, x)}

\* A task that is not there has nothing; one that is has all it needs.
Whole(sp) ==
    IF sp.root = NULL THEN sp = Void ELSE sp.frame # NULL /\ sp.shared # NULL

SpaceOK(sp) == sp \in Spaces /\ Distinct(sp) /\ Entries(sp) /\ Placed(sp)

\* No page is used twice, or used and free.
Apart(f, s) ==
    \A t \in Task :
        /\ \A x \in 0 .. NPages : ~(InTable(s[t], x) /\ InData(s[t], x))
        /\ Used(s[t]) \cap f = {}
        /\ \A u \in Task : u # t => Used(s[t]) \cap Used(s[u]) = {}

IInv ==
    /\ free \subseteq Page /\ fate \in Fates /\ space \in [Task -> Spaces]
    /\ fate = "ok" =>
           /\ \A t \in Task : SpaceOK(space[t]) /\ Covered(space[t]) /\ Whole(space[t])
           /\ Apart(free, space)

\* The pages of the tasks other than t.
Others(t) == UNION {Used(space[u]) : u \in Task \ {t}}

\* A step of task t starts with a job like this, whatever pages O it does not own.
LEMMA StartOfJob ==
    ASSUME IInv, fate = "ok", NEW t \in Task, NEW O, O \cap free = {}, O \cap Used(space[t]) = {}
    PROVE  LET m == Job(free, space[t])
           IN  JobOK(m, O) /\ m.ok /\ m.fate = "ok" /\ m.sp = space[t] /\ m.free = free
<1> DEFINE m == Job(free, space[t])
<1>1. space[t] \in Spaces /\ SpaceOK(space[t]) /\ free \subseteq Page
  BY DEF IInv
<1>2. m \in Jobs /\ m.ok /\ m.fate = "ok" /\ m.sp = space[t] /\ m.free = free
  BY <1>1 DEF Job, Jobs, Ptr, Fates
<1> HIDE DEF m
<1>3. OneUse(m.free, m.sp, O)
  <2>1. /\ \A x \in 0 .. NPages : ~(InTable(space[t], x) /\ InData(space[t], x))
        /\ Used(space[t]) \cap free = {}
    BY DEF IInv, Apart
  <2> QED BY <1>2, <2>1 DEF OneUse, Used
<1>4. JobOK(m, O) /\ m.ok /\ m.fate = "ok" /\ m.sp = space[t] /\ m.free = free
  BY <1>1, <1>2, <1>3 DEF JobOK, SpaceOK
<1> QED BY <1>4 DEF m

\* The others are apart.
LEMMA OthersApart ==
    ASSUME IInv, fate = "ok", NEW t \in Task
    PROVE  Others(t) \cap free = {} /\ Others(t) \cap Used(space[t]) = {}
BY DEF IInv, Apart, Others

\* Become() keeps the invariant if the job left the others alone.
LEMMA BecomeFacts ==
    ASSUME IInv, fate = "ok", NEW t \in Task, NEW m \in Jobs,
           m.fate = "ok" => JobOK(m, Others(t)) /\ Covered(m.sp) /\ Whole(m.sp), Become(t, m)
    PROVE  IInv'
<1>1. m.sp \in Spaces /\ m.free \subseteq Page /\ m.fate \in Fates
  BY DEF Jobs
<1>2. fate' = m.fate
  BY DEF Become
<1>3. CASE m.fate # "ok"
  <2>1. fate' # "ok" /\ fate' \in Fates
    BY <1>1, <1>2, <1>3
  <2>2. \/ free' = free /\ space' = space
        \/ free' = m.free /\ space' = [space EXCEPT ![t] = m.sp]
    BY DEF Become
  <2>3. free' \subseteq Page /\ space' \in [Task -> Spaces]
    BY <1>1, <2>2 DEF IInv
  <2> QED BY <2>1, <2>3 DEF IInv
<1>4. CASE m.fate = "ok"
  <2>0. JobOK(m, Others(t))
    BY <1>4
  <2>1. free' = m.free /\ space' = [space EXCEPT ![t] = m.sp] /\ fate' = "ok"
    BY <1>2, <1>4 DEF Become
  <2>2. space \in [Task -> Spaces]
    BY DEF IInv
  <2>3. \A u \in Task : space'[u] = IF u = t THEN m.sp ELSE space[u]
    BY <2>1, <2>2
  <2>4. space' \in [Task -> Spaces] /\ free' \subseteq Page /\ fate' \in Fates
    BY <1>1, <2>1, <2>2 DEF Fates
  <2>5. \A u \in Task : SpaceOK(space'[u])
    <3>1. SpaceOK(m.sp)
      BY <1>1, <2>0 DEF SpaceOK, JobOK
    <3> QED BY <2>3, <3>1 DEF IInv
  <2>6. \A u \in Task : Covered(space'[u]) /\ Whole(space'[u])
    BY <1>4, <2>3 DEF IInv
  <2>7. Apart(free', space')
    <3>1. /\ \A x \in 0 .. NPages : ~(InTable(m.sp, x) /\ InData(m.sp, x))
          /\ Used(m.sp) \cap m.free = {}
          /\ Used(m.sp) \cap Others(t) = {}
      BY <2>0 DEF JobOK, OneUse, Used
    <3>2. m.free \cap Others(t) = {}
      <4>1. m.free \subseteq 0 .. NPages
        BY <1>1, Layout
      <4> QED BY <2>0, <4>1 DEF JobOK, OneUse
    <3>3. \A u \in Task : u # t => Used(space[u]) \subseteq Others(t)
      BY DEF Others
    <3>4. ASSUME NEW u \in Task, u = t
          PROVE  /\ \A x \in 0 .. NPages : ~(InTable(space'[u], x) /\ InData(space'[u], x))
                 /\ Used(space'[u]) \cap free' = {}
                 /\ \A v \in Task : v # u => Used(space'[u]) \cap Used(space'[v]) = {}
      BY <2>1, <2>3, <3>1, <3>3, <3>4
    <3>5. ASSUME NEW u \in Task, u # t
          PROVE  /\ \A x \in 0 .. NPages : ~(InTable(space'[u], x) /\ InData(space'[u], x))
                 /\ Used(space'[u]) \cap free' = {}
                 /\ \A v \in Task : v # u => Used(space'[u]) \cap Used(space'[v]) = {}
      <4>1. space'[u] = space[u]
        BY <2>3, <3>5
      <4>2. /\ \A x \in 0 .. NPages : ~(InTable(space[u], x) /\ InData(space[u], x))
            /\ \A v \in Task : v # u => Used(space[u]) \cap Used(space[v]) = {}
        BY DEF IInv, Apart
      <4>3. Used(space[u]) \cap m.free = {} /\ Used(space[u]) \cap Used(m.sp) = {}
        BY <3>1, <3>2, <3>3, <3>5
      <4> QED BY <2>1, <2>3, <4>1, <4>2, <4>3
    <3> QED BY <3>4, <3>5 DEF Apart
  <2> QED BY <2>1, <2>4, <2>5, <2>6, <2>7 DEF IInv
<1> QED BY <1>3, <1>4

\* A job that ended its task, or went on with it, keeps the invariant.
LEMMA OutcomeFacts ==
    ASSUME IInv, fate = "ok", NEW t \in Task, Live(t), NEW n,
           Outcome(Job(free, space[t]), n, Others(t)), Become(t, n)
    PROVE  IInv'
<1>1. JobOK(n, Others(t)) /\ (n.fate = "ok" => n.sp = Void \/ (SameOwner(Job(free, space[t]), n) /\ Covered(n.sp)))
  BY DEF Outcome
<1>2. Whole(Void) /\ Covered(Void)
  <2>1. DOMAIN Void.sections = {}
    BY VoidFacts
  <2> QED BY <2>1, VoidFacts DEF Whole, Covered, Disjoint
<1>3. Job(free, space[t]).sp = space[t]
  BY DEF Job
<1>4. SameOwner(Job(free, space[t]), n) => Whole(n.sp)
  <2>1. space[t].root # NULL /\ space[t].frame # NULL /\ space[t].shared # NULL
    BY DEF IInv, Whole, Live
  <2> QED BY <1>3, <2>1 DEF SameOwner, Whole
<1>5. n.fate = "ok" => Covered(n.sp) /\ Whole(n.sp)
  BY <1>1, <1>2, <1>4
<1>6. n \in Jobs
  BY <1>1 DEF JobOK
<1> QED BY <1>1, <1>5, <1>6, BecomeFacts

\* Nothing is loaded once something has failed.
LEMMA LoadNothing ==
    ASSUME NEW m \in Jobs, ~m.ok, NEW program \in Programs
    PROVE  LoadElf(m, program) = m
<1> DEFINE S == [k \in 0 .. Len(program) |-> {m}]
<1>1. LoadElf(m, program) = LoadFold!Fold(0, m, program)
  BY DEF LoadElf, LoadFold!Fold, FoldLeft, MapThenFoldSet, LoadFold!FoldLeft,
         LoadFold!MapThenFoldSet, LoadTurn, Max, LoadFold!Max
<1>2. Len(program) \in Nat /\ DOMAIN program = 1 .. Len(program)
  BY ProgramsAssumption
<1>3. \A k \in 0 .. Len(program) : S[k] = {m}
  OBVIOUS
<1> HIDE DEF S
<1>4. \A s : LoadTurn(0, m, s) = m
  BY DEF LoadTurn, Then
<1>5. m \in S[0]
  BY <1>2, <1>3
<1>6. \A k \in 1 .. Len(program) : \A x \in S[k - 1] : LoadTurn(0, x, program[k]) \in S[k]
  BY <1>2, <1>3, <1>4
<1>7. LoadFold!Fold(0, m, program) \in S[Len(program)]
  BY <1>2, <1>5, <1>6, LoadFold!FoldRule
<1> QED BY <1>1, <1>2, <1>3, <1>7

\* The memory of the boot, with the first program loaded.
LEMMA InitInv == Init => IInv
<1> SUFFICES ASSUME Init PROVE IInv
  OBVIOUS
<1> DEFINE j == Job(Page, Void)
           a == NewTask(j)
           m == Load(a, InitProgram)
<1>1. JobOK(j, {}) /\ j.sp = Void
  <2>1. j \in Jobs /\ j.free = Page /\ j.sp = Void
    BY VoidFacts DEF Job, Jobs, Ptr, Fates
  <2>2. OneUse(j.free, j.sp, {})
    BY <2>1, VoidFacts DEF OneUse
  <2> QED BY <2>1, <2>2, VoidFacts DEF JobOK
<1>2. m.ok /\ free = m.free /\ fate = m.fate /\ space = [t \in Task |-> IF t = init THEN m.sp ELSE Void]
  BY DEF Init
<1> HIDE DEF j
<1>3. /\ a \in Jobs
      /\ a.ok => /\ JobOK(a, {}) /\ NULL \notin {a.sp.root, a.sp.frame, a.sp.shared}
                 /\ a.sp.sections = <<>> /\ \A va \in User : a.sp.map[va] = NULL
  <2> DEFINE O == {}
  <2> HIDE DEF O
  <2>1. JobOK(j, O) /\ j.sp = Void
    BY <1>1 DEF O
  <2>2. /\ a \in Jobs
        /\ a.ok => /\ JobOK(a, O) /\ NULL \notin {a.sp.root, a.sp.frame, a.sp.shared}
                   /\ a.sp.sections = <<>> /\ \A va \in User : a.sp.map[va] = NULL
    BY ONLY <2>1, NewTaskFacts
  <2> QED BY <2>2 DEF O
<1> HIDE DEF a
<1>4. a.ok
  <2> SUFFICES ASSUME ~a.ok PROVE FALSE
    OBVIOUS
  <2>1. LoadElf(a, InitProgram) = a
    BY LoadNothing, <1>3, MemoryAssumption
  <2>2. m = a
    BY <2>1 DEF Load, Then
  <2> QED BY <1>2, <2>2
<1>5. Loaded(a, m, {})
  BY <1>3, <1>4, LoadFacts, MemoryAssumption
<1> HIDE DEF m
<1>6. JobOK(m, {}) /\ SameOwner(a, m) /\ (m.fate = "ok" => Covered(m.sp))
  BY <1>2, <1>5 DEF Loaded
<1>7. m \in Jobs /\ m.sp \in Spaces /\ m.free \subseteq Page /\ m.fate \in Fates
  BY <1>6 DEF JobOK, Jobs
<1>8. Whole(m.sp)
  BY <1>3, <1>4, <1>6 DEF SameOwner, Whole
<1>9. \A t \in Task : space[t] = IF t = init THEN m.sp ELSE Void
  BY <1>2
<1>10. space \in [Task -> Spaces]
  BY <1>2, <1>7, VoidFacts
<1>11. Whole(Void) /\ Covered(Void) /\ SpaceOK(Void) /\ Used(Void) = {}
  <2>1. DOMAIN Void.sections = {}
    BY VoidFacts
  <2> QED BY <2>1, VoidFacts DEF Whole, Covered, Disjoint, SpaceOK, Used
<1>12. SpaceOK(m.sp)
  BY <1>6, <1>7 DEF SpaceOK, JobOK
<1>13. Apart(free, space)
  <2>1. /\ \A x \in 0 .. NPages : ~(InTable(m.sp, x) /\ InData(m.sp, x))
        /\ Used(m.sp) \cap m.free = {}
    BY <1>6 DEF JobOK, OneUse, Used
  <2> QED BY <1>2, <1>9, <1>11, <2>1, VoidFacts DEF Apart
<1> QED BY <1>2, <1>6, <1>7, <1>8, <1>9, <1>10, <1>11, <1>12, <1>13 DEF IInv
\* Every step of the kernel keeps the invariant.
LEMMA NextInv == IInv /\ [Next]_vars => IInv'
<1> SUFFICES ASSUME IInv, [Next]_vars PROVE IInv'
  OBVIOUS
<1>1. ASSUME NEW t \in Task, Exit(t) PROVE IInv'
  <2> DEFINE m == Job(free, space[t])
             n == Ended(t, m)
  <2>1. fate = "ok" /\ Live(t) /\ Become(t, n)
    BY <1>1 DEF Exit
  <2>2. JobOK(m, Others(t))
    BY <2>1, OthersApart, StartOfJob
  <2> HIDE DEF m
  <2>3. Outcome(m, n, Others(t))
    BY <2>2, EndedFacts DEF Outcome
  <2> HIDE DEF n
  <2> QED BY <2>1, <2>3, OutcomeFacts DEF m
<1>2. ASSUME NEW t \in Task, Fork(t) PROVE IInv'
  <2> DEFINE dead == {u \in Task : ~Live(u)}
             c    == Min(dead)
             j    == Job(free, Void)
             new  == NewTask(j)
             copy == CopyAllMemory(new, space[t])
             gone == Gone(new)
             wild == FreeCaller(copy, space[t])
  <2>1. fate = "ok" /\ Live(t) /\ dead # {}
    BY <1>2 DEF Fork
  <2>2. IF ~new.ok \/ new.fate # "ok" THEN Become(c, gone)
        ELSE IF copy.ok THEN Become(c, copy) ELSE Become(t, wild)
    BY <1>2 DEF Fork, Forked
  <2>3. c \in Task /\ ~Live(c)
    <3>1. dead \subseteq Nat
      BY Layout DEF Task
    <3>2. c \in dead
      <4> HIDE DEF dead
      <4> QED BY <2>1, <3>1, MinIsLeast
    <3> QED BY <3>2
  <2> HIDE DEF c
  <2>4. space[c] = Void
    BY <2>1, <2>3 DEF IInv, Whole, Live
  <2>5. JobOK(j, Others(c)) /\ j.sp = Void
    BY <2>1, <2>3, <2>4, OthersApart, StartOfJob
  <2> HIDE DEF j
  <2>6. space[t] \in Spaces /\ Placed(space[t]) /\ Entries(space[t]) /\ Disjoint(space[t].sections)
    BY <2>1 DEF IInv, SpaceOK, Covered
  <2>7. CASE ~new.ok \/ new.fate # "ok"
    <3>1. JobOK(gone, Others(c)) /\ gone.sp = Void
      BY <2>5, NoChild
    <3>2. Become(c, gone)
      BY <2>2, <2>7
    <3> HIDE DEF gone
    <3>3. Whole(Void) /\ Covered(Void)
      <4>1. DOMAIN Void.sections = {}
        BY VoidFacts
      <4> QED BY <4>1, VoidFacts DEF Whole, Covered, Disjoint
    <3>4. gone \in Jobs
      BY <3>1 DEF JobOK
    <3> QED BY <2>1, <2>3, <3>1, <3>2, <3>3, <3>4, BecomeFacts
  <2>8. CASE new.ok /\ new.fate = "ok"
    <3>1. /\ copy \in Jobs
          /\ copy.ok /\ copy.fate = "ok" =>
                 /\ JobOK(copy, Others(c)) /\ Covered(copy.sp)
                 /\ NULL \notin {copy.sp.root, copy.sp.frame, copy.sp.shared}
      BY <2>5, <2>6, <2>8, ChildFacts
    <3> HIDE DEF copy
    <3>2. CASE copy.ok
      <4>1. Become(c, copy)
        BY <2>2, <2>8, <3>2
      <4>2. copy.fate = "ok" => Whole(copy.sp)
        BY <3>1, <3>2 DEF Whole
      <4> QED BY <2>1, <2>3, <3>1, <3>2, <4>1, <4>2, BecomeFacts
    <3>3. CASE ~copy.ok
      <4>1. Become(t, wild)
        BY <2>2, <2>8, <3>3
      <4>2. wild \in Jobs /\ wild.fate # "ok"
        BY <2>6, <3>1, FreeCallerFacts
      <4> HIDE DEF wild
      <4> QED BY <2>1, <4>1, <4>2, BecomeFacts
    <3> QED BY <3>2, <3>3
  <2> QED BY <2>7, <2>8
<1>3. ASSUME NEW t \in Task, NEW program \in Programs, Exec(t, program) PROVE IInv'
  <2> DEFINE m == Job(free, space[t])
             n == Executed(t, m, program)
  <2>1. fate = "ok" /\ Live(t) /\ Become(t, n)
    BY <1>3 DEF Exec, Executed
  <2>2. JobOK(m, Others(t)) /\ m.ok /\ m.sp = space[t]
    BY <2>1, OthersApart, StartOfJob
  <2>3. Covered(m.sp)
    BY <2>1, <2>2 DEF IInv
  <2> HIDE DEF m
  <2>4. Outcome(m, n, Others(t))
    BY <2>2, <2>3, ExecFacts
  <2> HIDE DEF n
  <2> QED BY <2>1, <2>4, OutcomeFacts DEF m
<1>4. ASSUME NEW t \in Task, NEW va \in MinStack .. SHARED_MEMORY - 1, PageFault(t, va) PROVE IInv'
  <2> DEFINE m == Job(free, space[t])
             n == Faulted(t, m, va)
  <2>2. fate = "ok" /\ Live(t) /\ va \in MinStack .. space[t].stack.start - 1
    BY <1>4 DEF PageFault
  <2>1. JobOK(m, Others(t)) /\ m.ok /\ m.sp = space[t]
    BY <2>2, OthersApart, StartOfJob
  <2>3. Become(t, n)
    BY <1>4, <2>1 DEF PageFault, Faulted, Grown
  <2>4. Covered(m.sp) /\ va \in MinStack .. m.sp.stack.start - 1
    BY <2>1, <2>2 DEF IInv
  <2> HIDE DEF m
  <2>5. Outcome(m, n, Others(t))
    BY <2>1, <2>4, PageFaultFacts
  <2> HIDE DEF n
  <2> QED BY <2>2, <2>3, <2>5, OutcomeFacts DEF m
<1>5. CASE Halt \/ UNCHANGED vars
  BY <1>5 DEF Halt, vars, IInv
<1> QED BY <1>1, <1>2, <1>3, <1>4, <1>5 DEF Next

\* The invariant holds whatever the kernel does.
THEOREM Invariant == Spec => []IInv
BY InitInv, NextInv, PTL DEF Spec
-----------------------------------------------------------------------------
(* The properties. *)

\* The pages of the properties are those of the proof.
LEMMA PagesOfTask ==
    ASSUME IInv, fate = "ok", NEW t \in Task
    PROVE  /\ \A x : x \in TablePages(t) <=> InTable(space[t], x)
           /\ \A x : x \in DataPages(t) <=> x # NULL /\ InData(space[t], x)
           /\ Uses(t) = Used(space[t])
           /\ Mapped(t) = {va \in User : space[t].map[va] # NULL}
           /\ Registered(t) = Owned(space[t])
<1> DEFINE sp == space[t]
<1>1. sp \in Spaces /\ SpaceOK(sp)
  BY DEF IInv
<1> HIDE DEF sp
<1>2. /\ sp.root \in Ptr /\ sp.frame \in Ptr /\ sp.shared \in Ptr /\ sp.table \in [Tables -> Ptr]
      /\ sp.map \in [VA -> Ptr \cup {STATIC}] /\ sp.sections \in Seq(Section) /\ sp.stack \in Section
  BY <1>1 DEF Spaces
<1>3. \A x : x \in TablePages(t) <=> InTable(sp, x)
  <2> DEFINE P == ({sp.root} \cup Range(sp.table)) \ {NULL}
  <2>1. \A p : p \in P <=> p # NULL /\ (p = sp.root \/ \E e \in Tables : p = sp.table[e])
    BY <1>2 DEF Range
  <2>2. \A p \in P : p \in Int /\ Block(p, 1) = {p, p + 1}
    <3>1. \A p \in P : p \in Page
      BY <1>2, <2>1 DEF Ptr
    <3> QED BY <3>1, Blocks01, Layout
  <2>3. TablePages(t) = UNION {Block(p, 1) : p \in P}
    BY DEF TablePages, sp
  <2> HIDE DEF P
  <2>4. \A x : x \in TablePages(t) <=> \E p \in P : x \in {p, p + 1}
    BY <2>2, <2>3
  <2> QED BY <2>1, <2>4 DEF InTable
<1>4. Mapped(t) = {va \in User : sp.map[va] # NULL}
  BY Layout DEF Mapped, sp
<1>5. \A x : x \in DataPages(t) <=> x # NULL /\ InData(sp, x)
  <2>1. DataPages(t) = ({sp.frame, sp.shared} \cup {sp.map[va] : va \in Mapped(t)}) \ {NULL}
    BY DEF DataPages, sp
  <2> QED BY <1>4, <2>1 DEF InData
<1>6. \A x : InTable(sp, x) => x \in 0 .. NPages
  BY <1>2, Layout DEF InTable, Ptr
<1>7. \A x : x # NULL /\ InData(sp, x) => x \in 0 .. NPages
  <2>1. \A va \in User : sp.map[va] \in Ptr
    BY <1>1, <1>2, Layout DEF SpaceOK, Entries, Ptr
  <2> QED BY <1>2, <2>1, Layout DEF InData, Ptr
<1>8. \A x \in 0 .. NPages : x # NULL
  BY Layout DEF NULL
<1>9. Uses(t) = Used(sp)
  BY <1>3, <1>5, <1>6, <1>7, <1>8 DEF Uses, Used
<1>10. Registered(t) = Owned(sp)
  <2>1. Registered(t) = UNION {Range(Range1(s)) : s \in Range(sp.sections) \cup {sp.stack}}
    BY DEF Registered, sp
  <2>2. \A s : s \in Range(sp.sections) <=> \E i \in DOMAIN sp.sections : s = sp.sections[i]
    BY DEF Range
  <2>3. \A s \in Range(sp.sections) \cup {sp.stack} : Range(Range1(s)) = Pages(s)
    <3>1. \A s \in Range(sp.sections) \cup {sp.stack} : s \in Section
      BY <1>2, <2>2
    <3> QED BY <3>1, SectionRange
  <2>4. \A va : va \in Registered(t) <=> \E s \in Range(sp.sections) \cup {sp.stack} : va \in Pages(s)
    BY <2>1, <2>3
  <2>5. \A va : va \in Owned(sp) <=> va \in Pages(sp.stack) \/ \E i \in DOMAIN sp.sections : va \in Pages(sp.sections[i])
    BY DEF Owned, SectionPages
  <2> QED BY <2>2, <2>4, <2>5
<1> QED BY <1>3, <1>4, <1>5, <1>9, <1>10 DEF sp

\* A live task has as many pages of data as addresses for them.
LEMMA CountPages ==
    ASSUME IInv, fate = "ok", NEW t \in Task, Live(t)
    PROVE  Cardinality(DataPages(t)) = 2 + Cardinality(Mapped(t))
<1> DEFINE sp == space[t]
           M == Mapped(t)
           f == [va \in M |-> sp.map[va]]
           I == {sp.map[va] : va \in M}
<1>1. M = {va \in User : sp.map[va] # NULL}
  BY PagesOfTask
<1>2. sp.frame # NULL /\ sp.shared # NULL /\ Distinct(sp)
  BY DEF IInv, Whole, Live, SpaceOK
<1>3. DataPages(t) = (I \cup {sp.frame}) \cup {sp.shared}
  <2>1. \A va \in M : sp.map[va] # NULL
    BY <1>1
  <2> HIDE DEF M
  <2> QED BY <1>2, <2>1 DEF DataPages, M
<1> HIDE DEF sp, M
<1>4. IsFiniteSet(M)
  <2>1. IsFiniteSet(User) /\ M \in SUBSET User
    <3>1. SHARED_MEMORY - 1 \in Int
      BY Layout
    <3>2. IsFiniteSet(0 .. SHARED_MEMORY - 1)
      BY <3>1, FS_Interval
    <3> QED BY <1>1, <3>2 DEF User
  <2> QED BY <2>1, FS_Subset
<1>5. f \in Bijection(M, I)
  <2>1. \A va, vb \in M : sp.map[va] = sp.map[vb] => va = vb
    BY <1>1, <1>2 DEF Distinct
  <2> QED BY <2>1 DEF Bijection, Injection, Surjection, IsInjective
<1>6. ExistsBijection(M, I)
  BY <1>5 DEF ExistsBijection
<1>7. sp.frame \notin I /\ sp.shared \notin I /\ sp.shared # sp.frame
  BY <1>1, <1>2 DEF Distinct
<1> HIDE DEF I, f
<1>8. IsFiniteSet(I) /\ Cardinality(I) = Cardinality(M)
  BY <1>4, <1>6, FS_Bijection
<1>9. IsFiniteSet(I \cup {sp.frame}) /\ Cardinality(I \cup {sp.frame}) = Cardinality(M) + 1
  BY <1>7, <1>8, FS_AddElement
<1>10. Cardinality((I \cup {sp.frame}) \cup {sp.shared}) = Cardinality(M) + 1 + 1
  BY <1>7, <1>9, FS_AddElement
<1>11. Cardinality(M) \in Nat
  BY <1>4, FS_CardinalityType
<1> QED BY <1>3, <1>10, <1>11 DEF M

\* Address spaces are isolated, for any number of tasks and pages, any programs
\* linked to low addresses, and wherever allocate() fails (NoSharing).
THEOREM Isolation == Spec => []NoSharing
<1>1. IInv => NoSharing
  <2> SUFFICES ASSUME IInv PROVE NoSharing
    OBVIOUS
  <2>1. TypeOK
    <3>1. ASSUME NEW t \in Task
          PROVE  /\ {space[t].root, space[t].frame, space[t].shared} \subseteq Page \cup {NULL}
                 /\ space[t].table \in [Tables -> Page \cup {NULL}]
                 /\ space[t].map \in [VA -> Page \cup {NULL, STATIC}]
      <4>1. space[t] \in Spaces
        BY DEF IInv
      <4>2. Ptr \cup {STATIC} = Page \cup {NULL, STATIC}
        BY DEF Ptr
      <4> QED BY <4>1, <4>2 DEF Spaces, Ptr
    <3> QED BY <3>1 DEF TypeOK, IInv, Fates
  <2>2. ASSUME fate = "ok", NEW t \in Task
        PROVE  /\ Uses(t) \cap free = {}
               /\ \A u \in Task \ {t} : Uses(t) \cap Uses(u) = {}
               /\ TablePages(t) \cap DataPages(t) = {}
               /\ Live(t) => Cardinality(DataPages(t)) = 2 + Cardinality(Mapped(t))
    <3>1. \A u \in Task : Uses(u) = Used(space[u])
      BY <2>2, PagesOfTask
    <3>2. Uses(t) \cap free = {}
      BY <2>2, <3>1 DEF IInv, Apart
    <3>3. \A u \in Task \ {t} : Uses(t) \cap Uses(u) = {}
      BY <2>2, <3>1 DEF IInv, Apart
    <3>4. TablePages(t) \cap DataPages(t) = {}
      <4>1. \A x \in Uses(t) : x \in 0 .. NPages
        BY <3>1 DEF Used
      <4>2. \A x \in 0 .. NPages : ~(InTable(space[t], x) /\ InData(space[t], x))
        BY <2>2 DEF IInv, Apart
      <4>3. \A x : (x \in TablePages(t) <=> InTable(space[t], x)) /\ (x \in DataPages(t) => InData(space[t], x))
        BY <2>2, PagesOfTask
      <4> QED BY <4>1, <4>2, <4>3 DEF Uses
    <3>5. Live(t) => Cardinality(DataPages(t)) = 2 + Cardinality(Mapped(t))
      BY <2>2, CountPages
    <3> QED BY <3>2, <3>3, <3>4, <3>5
  <2> QED BY <2>1, <2>2 DEF NoSharing, Isolated
<1> QED BY <1>1, Invariant, PTL

\* Whatever a task maps is in a section or its stack, and these are below the
\* shared page and do not overlap (MappedIsRegistered).
THEOREM Registration == Spec => []MappedIsRegistered
<1>1. IInv => MappedIsRegistered
  <2> SUFFICES ASSUME IInv, fate = "ok", NEW t \in Task
               PROVE  LET pages(s) == Range(Range1(s))
                          sections == space[t].sections
                      IN  /\ Mapped(t) \subseteq Registered(t)
                          /\ Registered(t) \cap Special = {}
                          /\ \A i \in DOMAIN sections :
                                 /\ pages(sections[i]) \cap pages(space[t].stack) = {}
                                 /\ \A j \in DOMAIN sections \ {i} :
                                        pages(sections[i]) \cap pages(sections[j]) = {}
    BY DEF MappedIsRegistered
  <2> DEFINE q  == space[t].sections
             st == space[t].stack
  <2>1. /\ Mapped(t) = {va \in User : space[t].map[va] # NULL}
        /\ Registered(t) = Owned(space[t])
    BY PagesOfTask
  <2>2. Covered(space[t]) /\ space[t] \in Spaces /\ Placed(space[t])
    BY DEF IInv, SpaceOK
  <2>3. Mapped(t) \subseteq Registered(t)
    BY <2>1, <2>2 DEF Covered
  <2>4. Registered(t) \cap Special = {}
    BY <2>1, <2>2, OwnedIsUser, Layout
  <2>5. st \in Section /\ \A i \in DOMAIN q : q[i] \in Section
    BY <2>2, OwnedIsUser
  <2>6. /\ Range(Range1(st)) = Pages(st)
        /\ \A i \in DOMAIN q : Range(Range1(q[i])) = Pages(q[i])
    BY <2>5, SectionRange
  <2>7. \A i \in DOMAIN q : Pages(q[i]) \cap Pages(st) = {}
    <3> TAKE i \in DOMAIN q
    <3>1. q[i].start \in Nat /\ q[i].size \in Nat /\ st.start \in Nat /\ st.size \in Nat
      BY <2>5 DEF Section
    <3>2. /\ q[i].start + q[i].size <= MinStack
          /\ (st.start = 0 /\ st.size = 0) \/ MinStack <= st.start
      BY <2>2 DEF Placed
    <3> HIDE DEF q, st
    <3> QED BY <3>1, <3>2, Layout DEF Pages
  <2>8. \A i \in DOMAIN q : \A j \in DOMAIN q \ {i} : Pages(q[i]) \cap Pages(q[j]) = {}
    BY <2>2 DEF Covered, Disjoint
  <2>9. \A i \in DOMAIN q :
            /\ Range(Range1(q[i])) \cap Range(Range1(st)) = {}
            /\ \A j \in DOMAIN q \ {i} : Range(Range1(q[i])) \cap Range(Range1(q[j])) = {}
    BY <2>6, <2>7, <2>8
  <2> QED BY <2>3, <2>4, <2>9
<1> QED BY <1>1, Invariant, PTL

\* A job that leaves everybody else alone frees only pages of its own task.
LEMMA FreesItsOwn ==
    ASSUME IInv, fate = "ok", NEW t \in Task, NEW n,
           JobOK(n, (0 .. NPages) \ (free \cup Used(space[t]))), free' = n.free
    PROVE  free' \ free \subseteq Uses(t)
<1>1. n.free \subseteq 0 .. NPages
  BY Layout DEF JobOK, Jobs
<1>2. n.free \cap ((0 .. NPages) \ (free \cup Used(space[t]))) = {}
  BY <1>1 DEF JobOK, OneUse
<1>3. Uses(t) = Used(space[t])
  BY PagesOfTask
<1> QED BY <1>1, <1>2, <1>3

\* Become() is about one task.
LEMMA BecomesOther ==
    ASSUME IInv, NEW t \in Task, NEW u \in Task, NEW n, Become(u, n), fate' = "ok", Live(t), ~Live(t)'
    PROVE  t = u /\ free' = n.free
<1>1. n.fate = "ok" /\ free' = n.free /\ space' = [space EXCEPT ![u] = n.sp]
  BY DEF Become
<1>2. space \in [Task -> Spaces]
  BY DEF IInv
<1>3. t # u => space'[t] = space[t]
  BY <1>1, <1>2
<1> QED BY <1>1, <1>3 DEF Live

\* A task that exits gives back all its data, and whatever ends a task frees no
\* page of another (ExitReturnsMemory).
THEOREM ExitGivesBack == Spec => ExitReturnsMemory
<1>1. ASSUME IInv, [Next]_vars, NEW t \in Task, Live(t), ~Live(t)', fate' = "ok"
      PROVE  /\ free' \ free \subseteq Uses(t)
             /\ Exit(t) => DataPages(t) \subseteq free'
  <2> DEFINE O == (0 .. NPages) \ (free \cup Used(space[t]))
             m == Job(free, space[t])
  <2>0. fate = "ok"
    BY <1>1 DEF Next, Exit, Fork, Exec, PageFault, Halt, vars
  <2>1. JobOK(m, O) /\ m.ok /\ m.sp = space[t]
    BY <1>1, <2>0, StartOfJob
  <2>2. Covered(m.sp)
    BY <1>1, <2>0, <2>1 DEF IInv
  <2>3. ASSUME NEW u \in Task, Exit(u) PROVE free' \ free \subseteq Uses(t)
    <3> DEFINE n == Ended(u, Job(free, space[u]))
    <3>1. Become(u, n)
      BY <2>3 DEF Exit
    <3>2. u = t /\ free' = n.free
      <4> HIDE DEF n
      <4> QED BY <1>1, <3>1, BecomesOther
    <3>3. n = Ended(t, m)
      BY <3>2
    <3> HIDE DEF m, n
    <3>4. JobOK(n, O)
      BY <2>1, <3>3, EndedFacts
    <3> QED BY <1>1, <3>2, <3>4, <2>0, FreesItsOwn
  <2>4. ASSUME NEW u \in Task, Fork(u) PROVE FALSE
    <3> DEFINE dead == {v \in Task : ~Live(v)}
               c    == Min(dead)
               j    == Job(free, Void)
               new  == NewTask(j)
               copy == CopyAllMemory(new, space[u])
               gone == Gone(new)
               wild == FreeCaller(copy, space[u])
    <3>1. /\ dead # {}
          /\ IF ~new.ok \/ new.fate # "ok" THEN Become(c, gone)
             ELSE IF copy.ok THEN Become(c, copy) ELSE Become(u, wild)
      BY <2>4 DEF Fork, Forked
    <3>2. c \in dead
      <4>1. dead \subseteq Nat
        BY Layout DEF Task
      <4> HIDE DEF dead
      <4> QED BY <3>1, <4>1, MinIsLeast
    <3>3. c \in Task /\ ~Live(c)
      BY <3>2
    <3> HIDE DEF c
    <3>4. ASSUME NEW n, Become(c, n) PROVE FALSE
      <4>1. t = c
        BY <1>1, <3>3, <3>4, BecomesOther
      <4> QED BY <1>1, <3>3, <4>1
    <3>5. ASSUME new.ok, new.fate = "ok", Become(u, wild) PROVE FALSE
      <4>1. space[c] = Void
        BY <1>1, <2>0, <3>3 DEF IInv, Whole, Live
      <4>2. JobOK(j, Others(c)) /\ j.sp = Void
        BY <1>1, <2>0, <3>3, <4>1, OthersApart, StartOfJob
      <4> HIDE DEF j
      <4>3. space[u] \in Spaces /\ Placed(space[u]) /\ Entries(space[u]) /\ Disjoint(space[u].sections)
        BY <1>1, <2>0 DEF IInv, SpaceOK, Covered
      <4>4. copy \in Jobs
        BY <3>5, <4>2, <4>3, ChildFacts
      <4> HIDE DEF copy
      <4>5. wild.fate # "ok"
        BY <4>3, <4>4, FreeCallerFacts
      <4> HIDE DEF wild
      <4> QED BY <1>1, <3>5, <4>5 DEF Become
    <3> HIDE DEF new, copy, gone, wild
    <3> QED BY <3>1, <3>4, <3>5
  <2>5. ASSUME NEW u \in Task, NEW program \in Programs, Exec(u, program)
        PROVE  free' \ free \subseteq Uses(t)
    <3> DEFINE n == Executed(u, Job(free, space[u]), program)
    <3>1. Become(u, n) /\ fate = "ok"
      BY <2>5 DEF Exec, Executed
    <3>2. u = t /\ free' = n.free
      <4> HIDE DEF n
      <4> QED BY <1>1, <3>1, BecomesOther
    <3>3. n = Executed(t, m, program)
      BY <3>2
    <3> HIDE DEF m, n
    <3>4. Outcome(m, n, O)
      BY <2>1, <2>2, <3>1, <3>3, ExecFacts
    <3>5. JobOK(n, O)
      BY <3>4 DEF Outcome
    <3> QED BY <1>1, <3>2, <3>5, <2>0, FreesItsOwn
  <2>6. ASSUME NEW u \in Task, NEW va \in MinStack .. SHARED_MEMORY - 1, PageFault(u, va)
        PROVE  free' \ free \subseteq Uses(t)
    <3> DEFINE j == Job(free, space[u])
               n == Faulted(u, j, va)
    <3>1. j.sp = space[u]
      BY DEF Job
    <3>2. Become(u, n) /\ fate = "ok" /\ va \in MinStack .. space[u].stack.start - 1
      BY <2>6, <3>1 DEF PageFault, Faulted, Grown
    <3>3. u = t /\ free' = n.free
      <4> HIDE DEF n
      <4> QED BY <1>1, <3>2, BecomesOther
    <3>4. n = Faulted(t, m, va) /\ va \in MinStack .. m.sp.stack.start - 1
      BY <2>1, <3>2, <3>3
    <3> HIDE DEF m, n
    <3>5. Outcome(m, n, O)
      BY <2>1, <2>2, <3>2, <3>4, PageFaultFacts
    <3>6. JobOK(n, O)
      BY <3>5 DEF Outcome
    <3> QED BY <1>1, <3>3, <3>6, <2>0, FreesItsOwn
  <2>7. ASSUME Halt \/ UNCHANGED vars PROVE FALSE
    BY <1>1, <2>7 DEF Halt, vars, Live
  <2>8. free' \ free \subseteq Uses(t)
    BY <1>1, <2>3, <2>4, <2>5, <2>6, <2>7 DEF Next
  <2>9. ASSUME Exit(t) PROVE DataPages(t) \subseteq free'
    <3> DEFINE n == Ended(t, m)
    <3>1. Become(t, n) /\ fate = "ok"
      BY <2>9 DEF Exit
    <3>2. n.fate = "ok" /\ free' = n.free
      BY <1>1, <3>1 DEF Become
    <3>3. m \in Jobs
      BY <2>1 DEF JobOK
    <3> HIDE DEF m
    <3>4. t # init
      <4> SUFFICES ASSUME t = init PROVE FALSE
        OBVIOUS
      <4>1. n = Panic(m)
        BY DEF Ended
      <4> QED BY <3>2, <3>3, <4>1 DEF Panic, Jobs
    <3>5. n = Gone(FreeUserMemory(m))
      BY <3>4 DEF Ended
    <3>6. /\ {m.sp.frame, m.sp.shared} \ {NULL} \subseteq n.free
          /\ \A va \in Owned(m.sp) : m.sp.map[va] # NULL => m.sp.map[va] \in n.free
      BY <2>1, <3>5, EndOfTask
    <3>7. \A va \in User : m.sp.map[va] # NULL => va \in Owned(m.sp)
      BY <2>2, <3>1 DEF Covered
    <3>8. \A x : x \in DataPages(t) => x # NULL /\ InData(m.sp, x)
      BY <1>1, <2>0, <2>1, PagesOfTask
    <3> HIDE DEF n
    <3> QED BY <3>2, <3>6, <3>7, <3>8 DEF InData
  <2> QED BY <2>8, <2>9
<1>2. IInv /\ [Next]_vars =>
          [\A t \in Task :
              (Live(t) /\ ~Live(t)' /\ fate' = "ok") =>
                  /\ free' \ free \subseteq Uses(t)
                  /\ Exit(t) => DataPages(t) \subseteq free']_vars
  BY <1>1
<1> QED BY <1>2, Invariant, PTL DEF Spec, ExitReturnsMemory
=============================================================================
