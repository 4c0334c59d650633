-------------------------------- MODULE Wal --------------------------------
(***************************************************************************)
(* The write-ahead log of pkg/wal: numbered files of entries, one writer,   *)
(* readers that list the directory.                                         *)
(*                                                                         *)
(* An entry keeps its file, its sequence number and the change it records;  *)
(* checksums and the byte layout are the subject of WalCodec.  A file is    *)
(* emptied when it is opened and its writer only counts up, so its entries  *)
(* lie in it by their numbers, and the directory is the set of its entries. *)
(* The size of a file is counted in entries, Capacity for MaxWalSize bytes. *)
(***************************************************************************)
EXTENDS Integers, FiniteSets, FiniteSetsExt

CONSTANTS
    Ops,      \* what an entry may record
    Capacity  \* entries after which the writer goes on to the next file

VARIABLES
    files,  \* the entries in the directory
    writer  \* Writer.sequence (the number of its file) and Writer.entrySeq

walVars == <<files, writer>>

Entry == [file : Nat \ {0}, seq : Nat \ {0}, op : Ops]

\* The entries of file f.
In(f) == {e \in files : e.file = f}

-----------------------------------------------------------------------------
\* NewWriter: both numbers count from the start again, and os.Create empties the
\* first file if there is one.  Files of an earlier writer stay.
NewWriter ==
    /\ writer' = [file |-> 1, seq |-> 0]
    /\ files' = files \ In(1)

\* Write: rotate if the file is full (openNewFile empties the next one too), then
\* number the entry and append it.
Write(op) ==
    LET full == Cardinality(In(writer.file)) >= Capacity
        f == IF full THEN writer.file + 1 ELSE writer.file
        kept == IF full THEN files \ In(f) ELSE files
    IN  /\ writer' = [file |-> f, seq |-> writer.seq + 1]
        /\ files' = kept \cup {[file |-> f, seq |-> writer.seq + 1, op |-> op]}

\* Reader.ReadAll: the files in the order of their names, each from its start.
Before(d, e) == d.file < e.file \/ (d.file = e.file /\ d.seq < e.seq)

\* The first of some entries that have been read.
First(e, S) == \A d \in S \ {e} : Before(e, d)

\* What may be left of them if reading stops on the way.
Prefixes(S) == {S} \cup {{d \in S : Before(d, e)} : e \in S}

\* Reader.ReadFrom: filtered by number, in the order read.
ReadFrom(seq) == {e \in files : e.seq >= seq}

\* Reader.FileRanges: the largest number in each file that has an entry.
FileRanges == [f \in {e.file : e \in files} |-> Max({e.seq : e \in In(f)})]

-----------------------------------------------------------------------------
WalTypeOK ==
    /\ files \subseteq Entry
    /\ writer \in [file : Nat \ {0}, seq : Nat]

WalInit ==
    /\ files = {}
    /\ writer = [file |-> 1, seq |-> 0]
=============================================================================
