------------------------------- MODULE MCShell -------------------------------
(***************************************************************************)
(* Two programs and three built-in commands for TLC.  The second segment   *)
(* of /a ends in the middle of a page and its zeroed part goes on for two  *)
(* more pages; /b ends exactly with a page.                                *)
(***************************************************************************)
EXTENDS Shell

a == "a"
b == "b"

TwoLetters == {a, b}

Seg(va, off, filesz, memsz) == [va |-> va, off |-> off, filesz |-> filesz, memsz |-> memsz]

TwoFiles ==
    (<<SLASH, a>> :> <<Seg(PageSize, 1, PageSize, PageSize),
                       Seg(2 * PageSize, 1 + PageSize, PageSize + 3, 3 * PageSize + 1)>>)
    @@ (<<SLASH, b>> :> <<Seg(PageSize, 1, PageSize, 2 * PageSize)>>)

ThreeBuiltins ==
    (<<a, b>> :> "help") @@ (<<b, a>> :> "exit") @@ (<<b, b>> :> "poweroff")

Strings == {<<>>, <<a>>, <<b, b>>}
Lists   == UNION {[1 .. n -> Strings] : n \in 0 .. 2}

SomeCalls == [name : {<<SLASH, a>>, <<SLASH, b, a>>}, argv : Lists, envp : Lists]
=============================================================================
