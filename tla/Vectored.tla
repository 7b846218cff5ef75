------------------------------ MODULE Vectored ------------------------------
(***************************************************************************)
(* src/tlpi/c5/5_7.c: readv and writev over an array of buffers, each made *)
(* of one read or write and a temporary buffer.  The temporary buffer's    *)
(* size adds up the size of the length fields, one word for each buffer,   *)
(* and not the lengths.  A byte is named by its buffer and its place there *)
(* when it is written.                                                     *)
(***************************************************************************)
EXTENDS Integers, Sequences, SequencesExt, FiniteSetsExt

CONSTANTS
    Word,    \* sizeof(ssize_t)
    Arrays   \* lengths of the buffers of an array

VectoredAssumption == Word \in Nat /\ Arrays \subseteq Seq(Nat)

VARIABLES
    vstep,      \* "idle", "write", "gather", "seek", "readv", "scatter", "ok",
                \* "failed" or "overrun"
    lengths,    \* of the buffers that are written
    data,       \* the file
    targets,    \* the lengths of the buffers to read into
    filled,     \* what has been read into these
    raw_buffer, \* the temporary buffer's bytes that are still to be used
    round,      \* rounds of the loop over the buffers
    total       \* what readv has read

Init ==
    /\ vstep = "idle" /\ lengths = <<>> /\ data = <<>>
    /\ targets = <<>> /\ filled = <<>> /\ raw_buffer = <<>> /\ round = 0 /\ total = 0

Buffer(i) == [k \in 1 .. lengths[i] |-> <<i, k>>]
RawSize(ls) == Word * Len(ls)

-----------------------------------------------------------------------------
(* main writes a buffer at a time, or has all of them written by writev.   *)
Main(ls) ==
    /\ vstep = "idle" /\ vstep' \in {"write", "gather"} /\ lengths' = ls
    /\ UNCHANGED <<data, targets, filled, raw_buffer, round, total>>

(* writeToFile: a short write ends the program.                            *)
WriteToFile ==
    /\ vstep = "write" /\ round < Len(lengths)
    /\ \/ data' = data \o Buffer(round + 1) /\ round' = round + 1 /\ UNCHANGED vstep
       \/ /\ \E n \in 0 .. lengths[round + 1] - 1 : data' = data \o SubSeq(Buffer(round + 1), 1, n)
          /\ vstep' = "failed" /\ UNCHANGED round
    /\ UNCHANGED <<lengths, targets, filled, raw_buffer, total>>

(* writev copies all buffers before it writes them; what does not fit into *)
(* the temporary buffer overwrites the memory behind it.                   *)
Gather ==
    /\ vstep = "gather" /\ round < Len(lengths)
    /\ raw_buffer' = raw_buffer \o Buffer(round + 1) /\ round' = round + 1
    /\ vstep' = IF Len(raw_buffer') > RawSize(lengths) THEN "overrun" ELSE "gather"
    /\ UNCHANGED <<lengths, data, targets, filled, total>>

(* A short or failed write is writev's caller's to notice.                 *)
Writev ==
    /\ vstep = "gather" /\ round = Len(lengths) /\ vstep' = "seek"
    /\ \E n \in 0 .. Len(raw_buffer) : data' = SubSeq(raw_buffer, 1, n)
    /\ UNCHANGED <<lengths, targets, filled, raw_buffer, round, total>>

(* The buffers to read into are laid out, and the offset set to 0.         *)
Seek(ls) ==
    /\ vstep = "seek" \/ (vstep = "write" /\ round = Len(lengths))
    /\ vstep' = "readv"
    /\ targets' = ls /\ filled' = [i \in DOMAIN ls |-> <<>>]
    /\ UNCHANGED <<lengths, data, raw_buffer, round, total>>

Readv ==
    /\ vstep = "readv" /\ vstep' = "scatter"
    /\ total' = Min({Len(data), RawSize(targets)})
    /\ raw_buffer' = SubSeq(data, 1, total') /\ round' = 0
    /\ UNCHANGED <<lengths, data, targets, filled>>

ReadvFails ==
    /\ vstep = "readv" /\ vstep' = "failed"
    /\ UNCHANGED <<lengths, data, targets, filled, raw_buffer, round, total>>

NothingUsed(s, n) == s
Behind(s, n) == SubSeq(s, n + 1, Len(s))

(* The loop of readv: each buffer gets what is left of the bytes, as far   *)
(* as it is long; the loop ends at the first that gets none.               *)
bytes_to_read ==
    IF round < Len(targets) THEN Min({targets[round + 1], Len(raw_buffer)}) ELSE 0

Scatter ==
    /\ vstep = "scatter" /\ bytes_to_read > 0
    /\ filled' = [filled EXCEPT ![round + 1] = SubSeq(raw_buffer, 1, bytes_to_read)]
    /\ raw_buffer' = Behind(raw_buffer, bytes_to_read) /\ round' = round + 1
    /\ UNCHANGED <<vstep, lengths, data, targets, total>>

ReadvReturns ==
    /\ vstep = "scatter" /\ bytes_to_read <= 0 /\ vstep' = "ok"
    /\ UNCHANGED <<lengths, data, targets, filled, raw_buffer, round, total>>

Next ==
    \/ \E ls \in Arrays : Main(ls) \/ Seek(ls)
    \/ WriteToFile \/ Gather \/ Writev
    \/ Readv \/ ReadvFails \/ Scatter \/ ReadvReturns

-----------------------------------------------------------------------------
Earlier(b, c) == b[1] < c[1] \/ (b[1] = c[1] /\ b[2] < c[2])
Whole == \A i \in DOMAIN lengths : Range(Buffer(i)) \subseteq Range(data)

(* The buffers hold the file's first n bytes, in the file's order.         *)
Holds(n) ==
    /\ UNION {Range(filled[i]) : i \in DOMAIN filled} = {data[j] : j \in 1 .. n}
    /\ \A i, j \in DOMAIN filled : \A k \in DOMAIN filled[i], l \in DOMAIN filled[j] :
          Earlier(<<i, k>>, <<j, l>>) => Earlier(filled[i][k], filled[j][l])

(* readv fills the buffers from the front with the first bytes of the file *)
(* and loses a byte it has read only behind a buffer of length 0 or when   *)
(* the temporary buffer is longer than all of them; what was written whole *)
(* from buffers no longer than a word comes back in buffers of the same    *)
(* lengths.                                                                *)
RoundTrip ==
    vstep = "ok" =>
        /\ \E n \in 0 .. total :
              /\ Holds(n)
              /\ n = total \/ 0 \in Range(targets)
                    \/ \A i \in DOMAIN targets : Len(filled[i]) = targets[i]
        /\ (Whole /\ targets = lengths /\ \A i \in DOMAIN lengths : lengths[i] \in 1 .. Word) =>
                 \A i \in DOMAIN lengths : filled[i] = Buffer(i)
=============================================================================
