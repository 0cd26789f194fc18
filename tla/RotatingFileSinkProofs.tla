----------------------- MODULE RotatingFileSinkProofs -----------------------
(***************************************************************************)
(* Proofs about RotatingFileSink.  The running count is inductive with the *)
(* types.  The bound of the first process needs to know where that process *)
(* has not written yet: nothing exists before it starts, and afterwards    *)
(* every file of the open date with a higher index, and every file of a    *)
(* later date, is new.                                                     *)
(***************************************************************************)
EXTENDS RotatingFileSink, TLAPS

\* In the first process the files ahead of the open one are empty.
AheadIsNew ==
    /\ curr_date <= today
    /\ lives = 0 => ~open /\ \A f \in File : size[f] = 0
    /\ lives = 1 => \A f \in File :
        f[1] > curr_date \/ (f[1] = curr_date /\ f[2] > file_idx) => size[f] = 0

SinkInv == TypeOK /\ SizeTracked /\ AheadIsNew /\ FirstLifeBounded

\* A step of the sink keeps its types, the running count, the empty files ahead and
\* the bound of the first process.
LEMMA SinkStep ==
    ASSUME SinkInv, [Next]_vars
    PROVE  SinkInv'
<1> USE SinkAssumption DEF Day, File, Current
<1>1. CASE NextDay
    BY <1>1 DEF NextDay, SinkInv, TypeOK, SizeTracked, AheadIsNew, FirstLifeBounded
<1>2. CASE Construct
    <2> <<today, 0>> \in File
        BY DEF SinkInv, TypeOK
    <2>1. TypeOK' /\ SizeTracked'
        BY <1>2 DEF Construct, open_file, SinkInv, TypeOK, SizeTracked
    <2>2. AheadIsNew' /\ FirstLifeBounded'
        BY <1>2 DEF Construct, SinkInv, TypeOK, AheadIsNew, FirstLifeBounded
    <2> QED BY <2>1, <2>2 DEF SinkInv
<1>3. CASE Stop
    BY <1>3 DEF Stop, SinkInv, TypeOK, SizeTracked, AheadIsNew, FirstLifeBounded
<1>4. ASSUME NEW n \in LineSize, write(n)
      PROVE  SinkInv'
    <2> DEFINE f == rotate_if_need(n)
    <2>1. /\ open /\ f \in File
          /\ curr_date' = f[1] /\ file_idx' = f[2]
          /\ size' = [size EXCEPT ![f] = @ + n]
          /\ curr_size' = (IF f = Current THEN curr_size ELSE size[f]) + n
          /\ UNCHANGED <<today, lives, open, rotate_by_date>>
        BY <1>4 DEF write, open_file
    <2> n \in Nat \ {0}
        OBVIOUS
    <2>0. curr_size + n > MaxByte \/ curr_size + n <= MaxByte
        BY DEF SinkInv, TypeOK
    <2>b. MaxByte > 0 \/ MaxByte = 0
        OBVIOUS
    <2>2. \/ f = <<today, 0>> /\ rotate_by_date /\ today # curr_date
          \/ f = <<curr_date, file_idx + 1>> /\ MaxByte > 0 /\ curr_size + n > MaxByte
          \/ f = Current /\ (MaxByte = 0 \/ curr_size + n <= MaxByte)
        BY <2>0, <2>b, Zenon DEF rotate_if_need
    <2> f = <<f[1], f[2]>> /\ f[1] \in Day /\ f[2] \in 0..MaxIdx
        BY <2>1
    <2> HIDE DEF f
    <2>3. TypeOK'
        BY <2>1 DEF SinkInv, TypeOK
    <2>4. SizeTracked'
        BY <2>1 DEF SinkInv, TypeOK, SizeTracked
    <2>5. AheadIsNew'
        BY <2>1, <2>2 DEF SinkInv, TypeOK, AheadIsNew
    <2>6. FirstLifeBounded'
        <3> SUFFICES ASSUME MaxByte > 0, lives <= 1, \A m \in LineSize : m <= MaxByte,
                            NEW g \in File
                     PROVE  size'[g] <= MaxByte
            BY <2>1 DEF FirstLifeBounded
        <3>1. size[g] <= MaxByte
            BY DEF SinkInv, FirstLifeBounded
        <3>2. lives = 1
            BY <2>1 DEF SinkInv, AheadIsNew, TypeOK
        <3>3. CASE g # f
            BY <2>1, <3>1, <3>3 DEF SinkInv, TypeOK
        <3>4. CASE g = f /\ f = Current
            BY <2>1, <2>2, <3>4 DEF SinkInv, TypeOK, SizeTracked
        <3>5. CASE g = f /\ f # Current
            <4>1. size[f] = 0
                BY <2>1, <2>2, <3>2, <3>5 DEF SinkInv, TypeOK, AheadIsNew
            <4> QED BY <2>1, <3>5, <4>1 DEF SinkInv, TypeOK
        <3> QED BY <3>3, <3>4, <3>5
    <2> QED BY <2>3, <2>4, <2>5, <2>6 DEF SinkInv
<1>5. CASE UNCHANGED vars
    BY <1>5 DEF vars, SinkInv, TypeOK, SizeTracked, AheadIsNew, FirstLifeBounded
<1> QED BY <1>1, <1>2, <1>3, <1>4, <1>5 DEF Next

\* The types, the running count, the empty files ahead and the bound of the first
\* process hold in every behaviour of rotating_file_sink.
THEOREM SinkInvariant == Spec => []SinkInv
<1>1. ASSUME Init
      PROVE  SinkInv
    <2> USE <1>1, SinkAssumption DEF Init
    <2>1. TypeOK
        <3>1. size \in [File -> Nat]
            OBVIOUS
        <3>2. 1 \in Day /\ 0 \in 0..MaxLives /\ 0 \in 0..MaxIdx
            BY DEF Day
        <3> QED BY <3>1, <3>2, Zenon DEF TypeOK
    <2>2. SizeTracked /\ AheadIsNew
        BY DEF SizeTracked, AheadIsNew
    <2>3. FirstLifeBounded
        BY DEF FirstLifeBounded
    <2> QED BY <2>1, <2>2, <2>3 DEF SinkInv
<1>2. SinkInv /\ [Next]_vars => SinkInv'
    BY SinkStep
<1> QED BY <1>1, <1>2, PTL DEF Spec

\* The variables of rotating_file_sink keep their types: every file it opens has a date
\* that has come and an index within the bound.
THEOREM SinkTypeCorrect == Spec => []TypeOK
<1>1. SinkInv => TypeOK
    BY DEF SinkInv
<1> QED BY <1>1, SinkInvariant, PTL

\* _curr_size is the size of the open file, whatever files were there before and
\* however often the sink rotated (open_file, write).
THEOREM CurrSizeIsFileSize == Spec => []SizeTracked
<1>1. SinkInv => SizeTracked
    BY DEF SinkInv
<1> QED BY <1>1, SinkInvariant, PTL

\* The first process keeps every file within _max_byte if every line fits
\* (rotate_if_need).
THEOREM FirstProcessBounded == Spec => []FirstLifeBounded
<1>1. SinkInv => FirstLifeBounded
    BY DEF SinkInv
<1> QED BY <1>1, SinkInvariant, PTL

\* No write carries the file that was already open over _max_byte, in any process
\* (rotate_if_need).
THEOREM OpenFileStaysBounded == Spec => OpenFileNeverOverflows
<1>1. ASSUME SinkInv, [Next]_vars
      PROVE  [MaxByte > 0 /\ open =>
                (size'[Current] > size[Current] => size'[Current] <= MaxByte)]_vars
    <2> USE SinkAssumption DEF Day, File, Current
    <2> SUFFICES ASSUME MaxByte > 0, open, size'[Current] > size[Current]
                 PROVE  size'[Current] <= MaxByte
        OBVIOUS
    <2>0. size[Current] \in Nat
        BY <1>1 DEF SinkInv, TypeOK
    <2>a. size' # size
        BY <2>0
    <2>1. PICK n \in LineSize : write(n)
        BY <2>a, <1>1 DEF Next, NextDay, Construct, Stop, vars
    <2>2. rotate_if_need(n) = Current
        BY <1>1, <2>0, <2>1 DEF write, SinkInv, TypeOK
    <2>3. size'[Current] = size[Current] + n
        BY <1>1, <2>1, <2>2 DEF write, SinkInv, TypeOK
    <2>4. curr_size + n <= MaxByte
        BY <1>1, <2>2 DEF rotate_if_need, SinkInv, TypeOK
    <2> QED BY <1>1, <2>3, <2>4 DEF SinkInv, SizeTracked
<1> QED BY <1>1, SinkInvariant, PTL DEF Spec, OpenFileNeverOverflows
=============================================================================
