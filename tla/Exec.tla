-------------------------------- MODULE Exec --------------------------------
(***************************************************************************)
(* The exec system call byte by byte: exec() of user/system.c packs name,  *)
(* argv and envp into the shared page; exec_process() looks the program up,*)
(* load_elf() places its segments, and the strings are found again in the  *)
(* page and handed to main().  Who owns the pages is VirtualMemory's       *)
(* subject, the kernel stack of the caller is Process's.                   *)
(***************************************************************************)
EXTENDS Integers, Sequences, SequencesExt

CONSTANTS
    PageSize,    \* PGSIZE, in bytes
    TableSize,   \* pointers that a page holds
    Files        \* elf_file(): the segments of every program, by its name

NUL  == "NUL"
JUNK == "JUNK"      \* a byte left by an earlier use of the memory

ASSUME PageSizeAssumption == PageSize \in Nat \ {0}
ASSUME TableSizeAssumption == TableSize \in Nat

\* The names of the programs are short.  user.ld starts every segment at a page
\* boundary and gives it pages of its own.
ASSUME FilesAssumption ==
    \A name \in DOMAIN Files :
        /\ Len(name) < PageSize - 1
        /\ Files[name] \in Seq([va : Nat, off : Nat, filesz : Nat, memsz : Nat \ {0}])
        /\ \A j \in DOMAIN Files[name] :
               /\ Files[name][j].va % PageSize = 0
               /\ Files[name][j].filesz <= Files[name][j].memsz
               /\ \A k \in DOMAIN Files[name] :
                      j < k => Files[name][j].va + Files[name][j].memsz <= Files[name][k].va

VARIABLES
    phase,     \* see Phases
    given,     \* name, argv and envp of the caller
    shm,       \* task->shared_memory
    sizes,     \* argv_size and envp_size, the registers a3 and a4
    todo,      \* segments still to be loaded
    cursor,    \* page_addr and src_addr of map_section_for_user()
    image,     \* byte at every mapped address: its offset in the file, or ZERO
    main       \* what the new program is started with

execVars == <<phase, given, shm, sizes, todo, cursor, image, main>>

ZERO == -1

Page == 0 .. PageSize - 1

Phases == {"user", "exec", "load", "start", "main", "dead", "refused", "overrun"}

Nothing == [argv |-> <<>>, envp |-> <<>>, inside |-> TRUE]

ExecInit ==
    /\ phase = "user"
    /\ given = [name |-> <<>>, argv |-> <<>>, envp |-> <<>>]
    /\ shm = [p \in Page |-> JUNK]
    /\ sizes = [argv |-> 0, envp |-> 0]
    /\ todo = <<>>
    /\ cursor = [page |-> 0, src |-> 0]
    /\ image = <<>>
    /\ main = Nothing

-----------------------------------------------------------------------------
(* exec(): packing. *)

CharAt(s, k) == IF k < Len(s) THEN s[k + 1] ELSE NUL

\* One string of a list; the character at count2 of string count1 goes to byte i.
PutString(m, list) ==
    LET c == CharAt(list[m.count1 + 1], m.count2)
    IN  [m EXCEPT !.page[m.i] = c,
                  !.i = @ + 1,
                  !.count1 = IF c = NUL THEN @ + 1 ELSE @,
                  !.count2 = IF c = NUL THEN 0 ELSE @ + 1]

\* One iteration of the loop.  Leaving argv takes no byte.
PackStep(m, g) ==
    IF m.i = PageSize THEN m
    ELSE CASE m.state = "name" ->
                  [m EXCEPT !.page[m.i] = CharAt(g.name, m.i),
                            !.i = @ + 1,
                            !.state = IF CharAt(g.name, m.i) = NUL THEN "argv" ELSE @]
           [] m.state = "argv" /\ m.count1 = Len(g.argv) ->
                  [m EXCEPT !.state = "envp", !.argv = m.count1, !.count1 = 0, !.count2 = 0]
           [] m.state = "argv" /\ m.count1 < Len(g.argv) -> PutString(m, g.argv)
           [] m.state = "envp" /\ m.count1 = Len(g.envp) ->
                  [m EXCEPT !.page[m.i] = NUL, !.i = @ + 1, !.envp = m.count1]
           [] m.state = "envp" /\ m.count1 < Len(g.envp) -> PutString(m, g.envp)

PackStart ==
    [page |-> shm, i |-> 0, state |-> "name", count1 |-> 0, count2 |-> 0, argv |-> 0, envp |-> 0]

\* Mutant of Packed: the number of arguments is counted while they are copied.
PackedCounts(g) ==
    LET m == FoldLeft(LAMBDA x, n : PackStep(x, g), PackStart, [n \in 1 .. PageSize + 1 |-> n])
    IN  [m EXCEPT !.page[PageSize - 1] = NUL,
                  !.argv = IF m.state = "argv" THEN m.count1 ELSE @]

\* The loop makes PageSize iterations, and one more if it leaves argv.
Packed(g) ==
    LET m == FoldLeft(LAMBDA x, n : PackStep(x, g), PackStart, [n \in 1 .. PageSize + 1 |-> n])
    IN  [m EXCEPT !.page[PageSize - 1] = NUL]

\* exec(name, argv, envp) up to the ecall.
ExecCall(g) ==
    /\ phase = "user"
    /\ LET m == Packed(g)
       IN  shm' = m.page /\ sizes' = [argv |-> m.argv, envp |-> m.envp]
    /\ given' = g
    /\ phase' = "exec"
    /\ UNCHANGED <<todo, cursor, image, main>>

-----------------------------------------------------------------------------
(* exec_process(). *)

\* Pointers are offsets in the shared page; from PageSize on they have left it.
Least(S) == CHOOSE x \in S : \A y \in S : x <= y

\* while (*ptr != '\0') ptr++ and while (*ptr == '\0') ptr++.
EndOfString(p) == Least({q \in p .. PageSize - 1 : shm[q] = NUL} \cup {PageSize})
SkipNuls(p)    == Least({q \in p .. PageSize - 1 : shm[q] # NUL} \cup {PageSize})

StringAt(p) == [k \in 1 .. EndOfString(p) - p |-> shm[p + k - 1]]

PageDown(a) == a - (a % PageSize)

\* Where map_section_for_user() begins with the first segment of s.
Begin(s) == IF s = <<>> THEN [page |-> 0, src |-> 0]
            ELSE [page |-> PageDown(Head(s).va), src |-> Head(s).off]

\* Up to load_elf(); the old memory is gone before the new one is known to fit.
ExecProcess ==
    /\ phase = "exec"
    /\ IF StringAt(0) \in DOMAIN Files
       THEN /\ todo' = Files[StringAt(0)]
            /\ cursor' = Begin(todo')
            /\ phase' = "load"
       ELSE phase' = "refused" /\ UNCHANGED <<todo, cursor>>     \* returns -1
    /\ UNCHANGED <<given, shm, sizes, image, main>>

\* Mutant of CopySize: the last page is filled from the file.
CopyPage(s, start) == PageSize

\* Bytes of the page at start that come from the file.
CopySize(s, start) ==
    LET end == Least({s.va + s.filesz, PageDown(start) + PageSize})
    IN  IF end > start THEN end - start ELSE 0

\* map_page_for_user(): memcpy() to the start of a zeroed page, whatever start is.
MapPageForUser(start, src, size) ==
    image' = [a \in DOMAIN image \cup {PageDown(start) + k : k \in Page} |->
                 IF a \in DOMAIN image THEN image[a]
                 ELSE IF a - PageDown(start) < size THEN src + a - PageDown(start) ELSE ZERO]

\* One iteration of map_section_for_user().  Behind the file's part of a segment
\* src_addr goes backwards, and is not used any more.
LoadPage ==
    /\ phase = "load" /\ todo # <<>>
    /\ LET s     == Head(todo)
           start == IF s.va > cursor.page THEN s.va ELSE cursor.page
           end   == Least({s.va + s.filesz, cursor.page + PageSize})
           next  == cursor.page + PageSize
       IN  /\ MapPageForUser(start, cursor.src, CopySize(s, start))
           /\ IF next < s.va + s.memsz
              THEN cursor' = [page |-> next, src |-> cursor.src + end - start] /\ UNCHANGED todo
              ELSE todo' = Tail(todo) /\ cursor' = Begin(todo')
    /\ UNCHANGED <<phase, given, shm, sizes, main>>

Loaded ==
    /\ phase = "load" /\ todo = <<>>
    /\ phase' = "start"
    /\ UNCHANGED <<given, shm, sizes, todo, cursor, image, main>>

\* A page cannot be had in load_elf(), set_stack() or for the arguments: the
\* task exits with -1.
ExecFails ==
    /\ phase \in {"load", "start"}
    /\ phase' = "dead"
    /\ UNCHANGED <<given, shm, sizes, todo, cursor, image, main>>

\* n strings one behind the other.
Pointers(p, n) ==
    FoldLeft(LAMBDA ptrs, k : Append(ptrs, IF ptrs = <<>> THEN p ELSE EndOfString(Last(ptrs)) + 1),
             <<>>, [k \in 1 .. n |-> k])

\* Mutant of EnvpStart: the offset is one of pointers.
EnvpStartScaled(p) == p + 8 * sizes.argv

\* ptr += argv_size: the NUMBER of arguments is added to an address.
EnvpStart(p) == p + sizes.argv

\* argv_ptr and envp_ptr lie in one page, each with a NULL at its end.
TableEntries == sizes.argv + 1 + sizes.envp + 1

\* From the copy of the shared page to the registers of main().
ExecStart ==
    /\ phase = "start"
    /\ TableEntries <= TableSize
    /\ LET start == SkipNuls(EndOfString(0))
           argv  == Pointers(start, sizes.argv)
           envp  == Pointers(EnvpStart(start), sizes.envp)
       IN  main' = [argv   |-> [k \in DOMAIN argv |-> StringAt(argv[k])],
                    envp   |-> [k \in DOMAIN envp |-> StringAt(envp[k])],
                    inside |-> \A p \in Range(argv) \cup Range(envp) : p < PageSize]
    /\ phase' = "main"
    /\ UNCHANGED <<given, shm, sizes, todo, cursor, image>>

\* Nothing checks argv_size: the table goes on in a page of somebody else, and
\* what happens then is open.
ExecOverruns ==
    /\ phase = "start"
    /\ TableEntries > TableSize
    /\ phase' = "overrun"
    /\ UNCHANGED <<given, shm, sizes, todo, cursor, image, main>>

ExecStep == ExecProcess \/ LoadPage \/ Loaded \/ ExecFails \/ ExecStart \/ ExecOverruns

\* main() returns, the task has been killed, or the caller goes on after -1.
ProgramEnds ==
    /\ phase \in {"main", "dead", "refused"}
    /\ phase' = "user"
    /\ todo' = <<>> /\ image' = <<>> /\ cursor' = Begin(<<>>) /\ main' = Nothing
    /\ given' = [name |-> <<>>, argv |-> <<>>, envp |-> <<>>]
    /\ shm' = [p \in Page |-> JUNK]
    /\ sizes' = [argv |-> 0, envp |-> 0]

-----------------------------------------------------------------------------
(* Properties. *)

\* What the caller's strings take in the shared page.
Bytes(g) == Len(g.name) + 1
            + FoldLeft(LAMBDA n, s : n + Len(s) + 1, 0, g.argv \o g.envp)

\* A program whose first argument is not empty gets pointers into its copy of the
\* shared page only, however its envp was mislaid (exec_process() looks for it
\* argv_size bytes behind argv), and whatever did not fit.
PointersInPage ==
    (phase = "main" /\ given.argv # <<>> /\ given.argv[1] # <<>>) => main.inside

\* The bytes of segment s.
Segment(s) == s.va .. s.va + s.memsz - 1

\* A program's memory is its file: every byte of a page-aligned segment is the
\* file's or, behind the file's part, zero, over any number of pages
\* (load_elf(), map_section_for_user()).
ImageExact ==
    phase = "main" =>
        \A k \in DOMAIN Files[given.name] :
            LET s == Files[given.name][k]
            IN  \A a \in Segment(s) :
                    a \in DOMAIN image /\
                    image[a] = IF a < s.va + s.filesz THEN s.off + a - s.va ELSE ZERO
=============================================================================
