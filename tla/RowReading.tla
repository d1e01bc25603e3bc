---------------------------- MODULE RowReading ----------------------------
(***************************************************************************)
(* How a result set becomes Go values: Find and the scanners behind the    *)
(* fast builders and prepared queries collect it, Each and Each2 hand it   *)
(* to the caller row by row.  A row may not scan, its AfterFind hook may   *)
(* fail, the query may fail, the connection may break between two rows,    *)
(* and the caller of an iterator may stop at any row.                      *)
(***************************************************************************)
EXTENDS Integers, Sequences, SequencesExt

CONSTANT MaxRows
ASSUME RowReadingAssumption == MaxRows \in Nat

\* What each reader does: collects everything before it returns, calls
\* AfterFind, tells the caller of an error, goes on after a bad row, looks at
\* rows.Err() at the end, returns the rows read so far together with that error.
Reader(collects, hooks, tells, goesOn, checksErr, partial) ==
    [collects |-> collects, hooks |-> hooks, tells |-> tells, goesOn |-> goesOn,
     checksErr |-> checksErr, partial |-> partial]

\* Mutant: Each2 ends without a look at rows.Err().
MutEach2Reader == Reader(FALSE, TRUE, TRUE, TRUE, FALSE, TRUE)
FindReader        == Reader(TRUE, TRUE, TRUE, FALSE, TRUE, FALSE)
EachReader        == Reader(FALSE, TRUE, FALSE, FALSE, FALSE, TRUE)
Each2Reader       == Reader(FALSE, TRUE, TRUE, TRUE, TRUE, TRUE)
FastFindReader    == Reader(TRUE, FALSE, TRUE, FALSE, TRUE, TRUE)
FastEachReader    == Reader(FALSE, FALSE, FALSE, FALSE, FALSE, TRUE)
FastEach2Reader   == Reader(FALSE, FALSE, TRUE, TRUE, TRUE, TRUE)
UltraFindReader   == Reader(TRUE, FALSE, TRUE, FALSE, TRUE, TRUE)
UltraEachReader   == Reader(FALSE, FALSE, FALSE, FALSE, FALSE, TRUE)
UltraEach2Reader  == Reader(FALSE, FALSE, TRUE, TRUE, TRUE, TRUE)
PreparedExecReader == Reader(TRUE, FALSE, TRUE, FALSE, TRUE, TRUE)
AggregateAllReader == Reader(TRUE, FALSE, TRUE, FALSE, TRUE, FALSE)

Readers == {FindReader, EachReader, Each2Reader, FastFindReader, FastEachReader, FastEach2Reader,
            UltraFindReader, UltraEachReader, UltraEach2Reader, PreparedExecReader, AggregateAllReader}

VARIABLES
    reader,     \* which one runs
    table,      \* the rows of the result: "fine", "null" or "hook"
    pos,        \* rows consumed
    got,        \* positions delivered to the caller
    errors,     \* errors the caller was told of
    state       \* "new", "open", "closed" (rows closed, reader returned)
readVars == <<reader, table, pos, got, errors, state>>

ReadInit ==
    /\ reader \in Readers
    /\ table \in UNION {[1..n -> {"fine", "null", "hook"}] : n \in 0..MaxRows}
    /\ pos = 0 /\ got = <<>> /\ errors = 0
    /\ state = "new"

Tell(n) == errors' = errors + (IF reader.tells THEN n ELSE 0)
\* The reader returns; a collecting one that failed hands over nothing, unless
\* it returns its partial result beside the error of rows.Err().
Return(n, keep) ==
    /\ state' = "closed"
    /\ Tell(n)
    /\ got' = IF keep \/ ~reader.collects THEN got ELSE <<>>
    /\ UNCHANGED <<reader, table, pos>>

QueryFails == state = "new" /\ Return(1, FALSE)
QueryRuns ==
    /\ state = "new"
    /\ state' = "open"
    /\ UNCHANGED <<reader, table, pos, got, errors>>

\* scanStruct fails on a NULL for a field that cannot hold it; columns without
\* a field are read and dropped.
scanStruct(r) == r # "null"
Good(r) == scanStruct(r) /\ (reader.hooks => r # "hook")

Row(stop) ==
    /\ state = "open" /\ pos < Len(table)
    /\ LET r == table[pos + 1] IN
       \/ /\ Good(r)
          /\ pos' = pos + 1
          /\ got' = Append(got, pos + 1)
          /\ state' = IF stop THEN "stopped" ELSE state
          /\ UNCHANGED <<reader, table, errors>>
       \/ /\ ~Good(r) /\ reader.goesOn
          /\ pos' = pos + 1
          /\ Tell(1)
          /\ state' = IF stop THEN "stopped" ELSE state
          /\ UNCHANGED <<reader, table, got>>
       \/ ~Good(r) /\ ~reader.goesOn /\ ~stop /\ Return(1, FALSE)
    /\ stop => ~reader.collects

\* The caller left the loop: yield returned false, the deferred Close runs.
Leave ==
    /\ state = "stopped"
    /\ state' = "left"
    /\ UNCHANGED <<reader, table, pos, got, errors>>

\* rows.Next() is false: at the end, or because the connection broke.
End == state = "open" /\ pos = Len(table) /\ Return(0, TRUE)
ConnectionBreaks ==
    /\ state = "open" /\ pos < Len(table)
    /\ IF reader.checksErr THEN Return(1, reader.partial) ELSE Return(0, TRUE)

ReadNext == QueryFails \/ QueryRuns \/ (\E stop \in BOOLEAN : Row(stop)) \/ Leave \/ End \/ ConnectionBreaks
ReadSpec == ReadInit /\ [][ReadNext]_readVars

\* A caller of any reader but Each who was told of no error has every row of the
\* result; whatever is delivered is a good row, in order, once, and an Each that
\* ends early leaves a prefix (builder.go Find, iterator.go, fast_builder.go
\* scanAllFast, ultra_fast.go, prepared.go Exec).
NoRowLostSilently ==
    /\ (state = "closed" /\ errors = 0 /\ reader.tells) => got = [i \in DOMAIN table |-> i]
    /\ \A i \in DOMAIN got : Good(table[got[i]]) /\ (i > 1 => got[i - 1] < got[i])
    /\ ~reader.goesOn /\ got # <<>> => got = [i \in 1..Len(got) |-> i]
=============================================================================
