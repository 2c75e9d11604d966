------------------------------ MODULE LineReader ------------------------------
(***************************************************************************)
(* The buffer of the line reader (networking/buffered-reader.c), as        *)
(* operators on its contents: a function from 0 .. N-1, with NUL where     *)
(* there is nothing.                                                       *)
(***************************************************************************)
EXTENDS Integers

CONSTANTS
    N,            \* buf_size
    Bytes,        \* what a client sends, none of it NUL
    Newlines,     \* those of them that are '\n'
    NUL

ASSUME ReaderAssumption == N \in Nat /\ N >= 3 /\ Newlines \subseteq Bytes /\ NUL \notin Bytes

Buffers == [0 .. N - 1 -> Bytes \cup {NUL}]

(* br_init.                                                                 *)
EmptyBuffer == [j \in 0 .. N - 1 |-> NUL]

(* Where the loop of br_read_line stops: at a NUL as at a newline.          *)
LineEnd(buf, i) ==
    /\ buf[i] \in Newlines \cup {NUL}
    /\ \A k \in 0 .. i - 1 : buf[k] \notin Newlines \cup {NUL}

(* What is returned: the newline is part of it, a NUL is not.               *)
LineLength(buf, i) == IF buf[i] = NUL THEN i ELSE i + 1
Line(buf, i) == [k \in 1 .. LineLength(buf, i) |-> buf[k - 1]]

(* Mutant: the first byte of the rest goes with the line.                   *)
ShiftOneMore(buf, i) ==
    [j \in 0 .. N - 1 |-> IF j + i <= N - 4 THEN buf[j + i + 2] ELSE NUL]

(* After a line of i characters: memmove brings N-i-2 bytes to the front,   *)
(* memset clears the last i.  The two in between keep what they held.       *)
Shift(buf, i) ==
    [j \in 0 .. N - 1 |-> IF j + i <= N - 3 THEN buf[j + i + 1]
                          ELSE IF j + i <= N - 1 THEN buf[j] ELSE NUL]

(* Mutant: the last byte is read into, too.                                 *)
WholeRoom(start) == N - start

(* br_read(br, start) leaves the last byte alone.                           *)
Room(start) == N - start - 1

br_read(buf, start, data, n) ==
    [j \in 0 .. N - 1 |-> IF start <= j /\ j < start + n THEN data[j - start + 1] ELSE buf[j]]

=============================================================================
