-------------------------------- MODULE Text --------------------------------
(***************************************************************************)
(* The pure helpers of internal/telegram: paginate of pagination.go and    *)
(* the parts of SplitMessage of split.go.  A text is a sequence of bytes   *)
(* in UTF-8, a list of lines a sequence of texts.                          *)
(***************************************************************************)
EXTENDS Integers, SequencesExt

NL == 10   \* the byte of a line feed

isUTF8Start(byte) == byte \div 64 # 2

(* The length of the first part of a line longer than the limit: the       *)
(* greatest that does not tear a character, if there is one.               *)
safeCut(line, limit) ==
    LET starts == {cut \in 1 .. limit : isUTF8Start(line[cut + 1])} IN
    IF starts = {} THEN limit ELSE Max(starts)

(* strings.Split                                                           *)
Split(s, sep) ==
    FoldLeft(LAMBDA parts, x : IF x = sep
                               THEN Append(parts, <<>>)
                               ELSE [parts EXCEPT ![Len(parts)] = Append(@, x)],
             <<<<>>>>, s)

-----------------------------------------------------------------------------
(* Mutant: the page of an old button is not brought back into the range.   *)
MutantClamped(page, totalPages) == IF page < 0 THEN 0 ELSE page

(* The page shown for a number that may come from an old button.           *)
clamped(page, totalPages) ==
    IF page < 0 THEN 0
    ELSE IF page >= totalPages THEN totalPages - 1
    ELSE page

(* Mutant: the number of pages is rounded down.                            *)
MutantPaginate(items, page, size) ==
    LET total == Len(items) \div size
        p     == clamped(page, total)
        start == p * size
        end   == IF start + size < Len(items) THEN start + size ELSE Len(items)
    IN IF total = 0
       THEN [items |-> <<>>, page |-> 0, total |-> 0]
       ELSE [items |-> SubSeq(items, start + 1, end), page |-> p, total |-> total]

paginate(items, page, size) ==
    LET total == (Len(items) + size - 1) \div size
        p     == clamped(page, total)
        start == p * size
        end   == IF start + size < Len(items) THEN start + size ELSE Len(items)
    IN IF size <= 0
       THEN [items |-> items, page |-> 0, total |-> 1]
       ELSE IF total = 0
       THEN [items |-> <<>>, page |-> 0, total |-> 0]
       ELSE [items |-> SubSeq(items, start + 1, end), page |-> p, total |-> total]
=============================================================================
