---------------------------- MODULE MemoryStorage ----------------------------
(***************************************************************************)
(* The directory of one section of the in-memory storage of a plash        *)
(* (ledger/server/buildersvc/memstor).  A directory is a sequence of pages *)
(* of at most PageSize entries; the entry at ordinal 0 is reserved.  An    *)
(* entry is abstracted to the bundle that wrote it.  The chapters, which   *)
(* hold the bytes the entries point at, are allocated and cut back by the  *)
(* same calls and are left out.                                            *)
(***************************************************************************)
EXTENDS Integers, SequencesExt

CONSTANT PageSize

ASSUME PageSizeAssumption == PageSize \in Nat \ {0}

Reserved == <<"reserved">>

EmptyDirectory == << <<Reserved>> >>

\* The ordinal of the next entry.  A rollback may leave an empty last page.
GetNextDirectoryIndex(pages) ==
    (Len(pages) - 1) * PageSize + Len(Last(pages))

SetDirectoryEntry(pages, entry) ==
    IF Len(Last(pages)) = PageSize
    THEN Append(pages, <<entry>>)
    ELSE [pages EXCEPT ![Len(pages)] = Append(@, entry)]

\* The directory after n records of a bundle, set one after another.
AppendEntries(pages, entry, n) ==
    LET after[i \in 0..n] ==
            IF i = 0 THEN pages ELSE SetDirectoryEntry(after[i - 1], entry)
    IN after[n]

GetDirEntry(pages, ord) ==
    LET page == (ord \div PageSize) + 1
        pos == (ord % PageSize) + 1
    IN IF page \in DOMAIN pages /\ pos \in DOMAIN pages[page]
       THEN pages[page][pos]
       ELSE Reserved

\* Seeded fault: an offset counted from one.
RollbackDirOneMore(pages, ord) ==
    LET page == (ord \div PageSize) + 1
        ofs == (ord % PageSize) + 1
    IN IF page > Len(pages)
       THEN [ok |-> FALSE, pages |-> pages]
       ELSE LET cut == SubSeq(pages, 1, page)
            IN [ok |-> TRUE, pages |-> [cut EXCEPT ![page] =
                    SubSeq(@, 1, IF ofs > Len(@) THEN Len(@) ELSE ofs)]]

\* Cuts the directory back to the ordinal.  It fails, after the pages above
\* are gone, when the ordinal is beyond the end: also when the ordinal is the
\* first one of a page that was not begun.
RollbackDir(pages, ord) ==
    LET page == (ord \div PageSize) + 1
        ofs == ord % PageSize
        cut == SubSeq(pages, 1, page)
    IN IF page > Len(pages)
       THEN [ok |-> FALSE, pages |-> pages]
       ELSE IF ofs > Len(cut[page])
       THEN [ok |-> FALSE, pages |-> cut]
       ELSE [ok |-> TRUE,
             pages |-> [cut EXCEPT ![page] = SubSeq(@, 1, ofs)]]

\* The entries in the order of their ordinals, from 1.
Entries(pages) == Tail(FlattenSeq(pages))
=============================================================================
