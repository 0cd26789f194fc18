-------------------------- MODULE RotatingFileSink --------------------------
(***************************************************************************)
(* rotating_file_sink of the asynchronous logger: log files are named by a *)
(* date and an index, a new one is opened when the date changes or when    *)
(* the next line would not fit, and files of earlier processes are         *)
(* appended to.                                                            *)
(*                                                                         *)
(* A file is its date and its index, and its content is its size: a file   *)
(* of size 0 may not exist yet.  The sink lives as long as its process;    *)
(* the files stay.  A failed open throws, on the logger's worker thread,   *)
(* which ends the process before anything is written: it is a Stop.        *)
(***************************************************************************)
EXTENDS Naturals

CONSTANTS
    MaxByte,    \* _max_byte; 0 switches the rotation by size off
    LineSize,   \* the sizes of the lines written
    MaxDay,     \* bound on the dates
    MaxIdx,     \* bound on _file_idx
    MaxLives    \* bound on the processes that log, one after the other

ASSUME SinkAssumption ==
    /\ MaxByte \in Nat
    /\ LineSize \subseteq Nat \ {0}
    /\ MaxDay \in Nat \ {0}
    /\ MaxIdx \in Nat
    /\ MaxLives \in Nat

Day == 1..MaxDay
File == Day \X (0..MaxIdx)

VARIABLES
    size,           \* the size of each file
    today,          \* the local date
    lives,          \* how many processes have logged
    open,           \* the sink exists, and _ofs is open
    rotate_by_date, \* _rotate_by_date
    curr_date,      \* _curr_date
    file_idx,       \* _file_idx
    curr_size       \* _curr_size

vars == <<size, today, lives, open, rotate_by_date, curr_date, file_idx, curr_size>>

Init ==
    /\ size = [f \in File |-> 0]
    /\ today = 1
    /\ lives = 0
    /\ open = FALSE
    /\ rotate_by_date = TRUE
    /\ curr_date = 1
    /\ file_idx = 0
    /\ curr_size = 0

\* The date changes.
NextDay ==
    /\ today < MaxDay
    /\ today' = today + 1
    /\ UNCHANGED <<size, lives, open, rotate_by_date, curr_date, file_idx, curr_size>>

\* The file that make_file_name names.
Current == <<curr_date, file_idx>>

\* Mutant: the size starts at 0, as if the file were always new.
open_file_fresh(f) == 0

\* open_file: append mode, and _curr_size becomes the size the file already has.
open_file(f) == size[f]

\* Mutant: the constructor does not set _curr_date.
Construct_undated ==
    /\ ~open
    /\ lives < MaxLives
    /\ open' = TRUE
    /\ lives' = lives + 1
    /\ rotate_by_date' \in BOOLEAN
    /\ curr_date' = 0
    /\ file_idx' = 0
    /\ curr_size' = 0
    /\ UNCHANGED <<size, today>>

\* The constructor: index 0 of today's date, whatever earlier processes left.
Construct ==
    /\ ~open
    /\ lives < MaxLives
    /\ open' = TRUE
    /\ lives' = lives + 1
    /\ rotate_by_date' \in BOOLEAN
    /\ curr_date' = today
    /\ file_idx' = 0
    /\ curr_size' = open_file(<<today, 0>>)
    /\ UNCHANGED <<size, today>>

\* The process ends: orderly, by a crash, or because open_file throws.
Stop ==
    /\ open
    /\ open' = FALSE
    /\ UNCHANGED <<size, today, lives, rotate_by_date, curr_date, file_idx, curr_size>>

\* Mutant: a rotation by size alternates between the indices 0 and 1.
rotate_if_need_reuse(n) ==
    IF rotate_by_date /\ today # curr_date THEN <<today, 0>>
    ELSE IF MaxByte > 0 /\ curr_size + n > MaxByte
         THEN <<curr_date, IF file_idx = 0 THEN 1 ELSE 0>>
    ELSE Current

\* Mutant: the comparison leaves out the line that is about to be written.
rotate_if_need_late(n) ==
    IF rotate_by_date /\ today # curr_date THEN <<today, 0>>
    ELSE IF MaxByte > 0 /\ curr_size >= MaxByte THEN <<curr_date, file_idx + 1>>
    ELSE Current

\* The file that a line of n bytes goes to.  A new date is looked at first, and then
\* the size is not.
rotate_if_need(n) ==
    IF rotate_by_date /\ today # curr_date THEN <<today, 0>>
    ELSE IF MaxByte > 0 /\ curr_size + n > MaxByte THEN <<curr_date, file_idx + 1>>
    ELSE Current

\* write: rotate, append the line, and add it to the running count.
write(n) ==
    LET f == rotate_if_need(n)
    IN  /\ open
        /\ f \in File
        /\ curr_date' = f[1]
        /\ file_idx' = f[2]
        /\ size' = [size EXCEPT ![f] = @ + n]
        /\ curr_size' = (IF f = Current THEN curr_size ELSE open_file(f)) + n
        /\ UNCHANGED <<today, lives, open, rotate_by_date>>

Next ==
    \/ NextDay \/ Construct \/ Stop
    \/ \E n \in LineSize : write(n)

Spec == Init /\ [][Next]_vars
-----------------------------------------------------------------------------
TypeOK ==
    /\ size \in [File -> Nat]
    /\ today \in Day
    /\ lives \in 0..MaxLives
    /\ open \in BOOLEAN
    /\ rotate_by_date \in BOOLEAN
    /\ curr_date \in Day
    /\ file_idx \in 0..MaxIdx
    /\ curr_size \in Nat

\* The running count _curr_size is the size of the open file, across rotations,
\* restarts and files that were there before (open_file, write).
SizeTracked == open => curr_size = size[Current]

\* A line never carries the file that was already open over the limit: a file can
\* only grow past _max_byte by a write that has just opened it (rotate_if_need).
OpenFileNeverOverflows ==
    [][MaxByte > 0 /\ open =>
        (size'[Current] > size[Current] => size'[Current] <= MaxByte)]_vars

\* The first process to log keeps every file within _max_byte, if every line fits:
\* the file it rotates to is always a new one.
FirstLifeBounded ==
    MaxByte > 0 /\ lives <= 1 /\ (\A n \in LineSize : n <= MaxByte)
        => \A f \in File : size[f] <= MaxByte
=============================================================================
