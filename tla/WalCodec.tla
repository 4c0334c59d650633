------------------------------ MODULE WalCodec ------------------------------
(***************************************************************************)
(* The byte layout of a log file (pkg/wal: Marshal, UnmarshalWAL, ReadAll). *)
(* A byte is only counted: what matters is which length checks the reader   *)
(* makes before it looks at bytes that a torn write may not have left.      *)
(***************************************************************************)
EXTENDS Integers, Sequences

CONSTANTS
    KeyLens, DataLens,  \* lengths of the keys and of the data written
    MaxEntries

ASSUME CodecAssumption ==
    /\ KeyLens \subseteq Nat /\ DataLens \subseteq Nat
    /\ \A n \in KeyLens : n < 65536  \* the key's length is written as an uint16
    /\ MaxEntries \in Nat

VARIABLES
    file,  \* the entries written to the file: where each begins, and its lengths
    size,  \* bytes of them that are on disk
    torn,  \* the last write was cut short
    reader \* ReadAll or FileRanges: the bytes it has loaded, its offset, what it has got

codecVars == <<file, size, torn, reader>>

\* Type, Timestamp, Sequence and KeyLen come before the key; DataLen, Checksum and the
\* trailing CRC have four bytes each.
Header == 1 + 8 + 8 + 2

\* Marshal: the length of an entry.
EntryLen(e) == Header + e.key + 4 + e.data + 4 + 4

EndOf(e) == e.at + EntryLen(e)

-----------------------------------------------------------------------------
WriteEntry(k, d) ==
    /\ ~torn
    /\ Len(file) < MaxEntries
    /\ LET e == [at |-> size, key |-> k, data |-> d]
       IN  file' = Append(file, e) /\ size' = EndOf(e)
    /\ UNCHANGED <<torn, reader>>

\* The machine stops while the last entry is written: any part of it may be missing.
Tear ==
    /\ ~torn /\ file # <<>>
    /\ \E lost \in 1..EntryLen(file[Len(file)]) : size' = size - lost
    /\ torn' = TRUE
    /\ UNCHANGED <<file, reader>>

-----------------------------------------------------------------------------
\* A reader takes the file as it is, once.
Load ==
    /\ reader.state # "reading"
    /\ reader' = [state |-> "reading", loaded |-> size, offset |-> 0, got |-> <<>>]
    /\ UNCHANGED <<file, size, torn>>

\* What UnmarshalWAL needs of an entry before each step, in its order, and whether it
\* checks that it is there; an integer that it reads unchecked makes it panic.
Needs(e) ==
    LET dataEnd == Header + e.key + 4 + e.data
    IN  << [bytes |-> Header + 4 + 4 + 4, checked |-> TRUE],
           [bytes |-> Header + e.key,     checked |-> TRUE],
           [bytes |-> Header + e.key + 4, checked |-> FALSE],
           [bytes |-> dataEnd + 4,        checked |-> TRUE],
           [bytes |-> dataEnd + 4 + 4,    checked |-> FALSE] >>

Left == reader.loaded - reader.offset

Consumed_mutNoTrailer(e) == Header + e.key + 4 + e.data + 4

\* How far the loop goes on after an entry.
Consumed(e) == Header + e.key + 4 + e.data + 4 + 4

AtEntry(i) == reader.state = "reading" /\ Left > 0 /\ file[i].at = reader.offset

\* One turn of the loop: UnmarshalWAL returns the entry ...
ReadEntry(i) ==
    /\ AtEntry(i)
    /\ \A n \in 1..5 : Needs(file[i])[n].bytes <= Left
    /\ reader' = [reader EXCEPT !.got = Append(@, file[i]), !.offset = @ + Consumed(file[i])]
    /\ UNCHANGED <<file, size, torn>>

\* ... or something is missing, and the loop ends by an error or a panic.
Truncated(i) ==
    /\ AtEntry(i)
    /\ \E n \in 1..5 :
          /\ Needs(file[i])[n].bytes > Left
          /\ \A m \in 1 .. n - 1 : Needs(file[i])[m].bytes <= Left
          /\ reader' = [reader EXCEPT !.state = IF Needs(file[i])[n].checked THEN "returned" ELSE "panic"]
    /\ UNCHANGED <<file, size, torn>>

\* The loop ends with the file, or where no entry begins and the checksum is not right.
Finish ==
    /\ reader.state = "reading"
    /\ \A i \in 1..Len(file) : ~AtEntry(i)
    /\ reader' = [reader EXCEPT !.state = "returned"]
    /\ UNCHANGED <<file, size, torn>>

-----------------------------------------------------------------------------
CodecInit ==
    /\ file = <<>> /\ size = 0 /\ torn = FALSE
    /\ reader = [state |-> "idle", loaded |-> 0, offset |-> 0, got |-> <<>>]

CodecNext ==
    \/ \E k \in KeyLens, d \in DataLens : WriteEntry(k, d)
    \/ Tear \/ Load \/ Finish
    \/ \E i \in 1..Len(file) : ReadEntry(i) \/ Truncated(i)

CodecSpec == CodecInit /\ [][CodecNext]_codecVars

-----------------------------------------------------------------------------
\* Properties.

\* Whatever is lost of the last write, and whatever is written while it reads: a reader gets
\* the entries in order, and when it returns it has got all that were whole when it loaded the
\* file, and only these.
ReadsWholeEntries ==
    /\ Len(reader.got) <= Len(file)
    /\ \A i \in 1..Len(reader.got) : reader.got[i] = file[i]
    /\ reader.state = "returned" =>
          \A i \in 1..Len(file) : i <= Len(reader.got) <=> EndOf(file[i]) <= reader.loaded
=============================================================================
