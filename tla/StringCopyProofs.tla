-------------------------- MODULE StringCopyProofs --------------------------
(***************************************************************************)
(* strncpy copies every string shorter than n, for any n, any strings and  *)
(* any width of size_t.  The invariant says where the loops stand: as long *)
(* as the string is short, n and dest advance together, so that the second *)
(* loop stops at cell n.                                                   *)
(***************************************************************************)
EXTENDS StringCopy, TLAPS

USE CopyAssumption

\* The part of the destination before pos is as it will be in the end, and
\* the rest is untouched; n counts what is left of the N cells.
CopyInv ==
  /\ CopyTypeOK
  /\ len < N =>
       /\ pc \in {"copy", "pad"} => n + pos = N
       /\ pc = "copy" => pos <= len
       /\ pc = "pad" => pos > len
       /\ pc = "done" => pos = N
       /\ pc # "fault"
       /\ \A i \in Cells : i < pos => mem[i] = Source(i)
       /\ \A i \in Cells : i >= pos => mem[i] = Other

\* What -- does to an unsigned number, in and out of the case where it wraps.
LEMMA Decrement ==
  ASSUME NEW m \in 0..(WORD - 1)
  PROVE  /\ (m - 1) % WORD \in 0..(WORD - 1)
         /\ m > 0 => (m - 1) % WORD = m - 1
  OBVIOUS

\* The invariant holds at the first call.
LEMMA CopyInitInv == CopyInit => CopyInv
  BY DEF CopyInit, CopyInv, CopyTypeOK, Untouched, Cells, Other

\* A pass of the first loop keeps it.
LEMMA CopyLoopInv == CopyInv /\ CopyLoop => CopyInv'
<1> SUFFICES ASSUME CopyInv, CopyLoop PROVE CopyInv'
  OBVIOUS
<1>1. /\ n' \in 0..(WORD - 1)
      /\ n > 0 => n' = n - 1
  BY Decrement DEF CopyInv, CopyTypeOK, CopyLoop, Decremented
<1>0. /\ len' = len /\ len \in Nat /\ pc = "copy" /\ CopyTypeOK
      /\ pos \in Nat /\ n \in Nat /\ MEMORY \in Nat /\ N \in Nat
  BY DEF CopyInv, CopyTypeOK, CopyLoop
<1>2. CASE n = 0 /\ pc' = "pad" /\ UNCHANGED <<mem, pos>>
  <2>1. ~(len < N)
    BY <1>0, <1>2 DEF CopyInv
  <2>2. CopyTypeOK'
    BY <1>0, <1>1, <1>2 DEF CopyTypeOK
  <2> QED
    BY <1>0, <2>1, <2>2 DEF CopyInv
<1>3. CASE n # 0 /\ pos \in Cells /\ Store(Source(pos))
             /\ pc' = IF Source(pos) = Nul THEN "pad" ELSE "copy"
  <2>1. /\ mem' = [mem EXCEPT ![pos] = Source(pos)]
        /\ pos' = pos + 1 /\ Source(pos) \in Int
    BY <1>0, <1>3 DEF Store, Source, Nul
  <2>2. CopyTypeOK'
    BY <1>0, <1>1, <1>3, <2>1 DEF CopyTypeOK, Cells
  <2>3. ASSUME len < N
        PROVE  /\ pc' \in {"copy", "pad"} => n' + pos' = N
               /\ pc' = "copy" => pos' <= len
               /\ pc' = "pad" => pos' > len
               /\ pc' \in {"copy", "pad"}
    <3>1. Source(pos) = Nul <=> pos >= len
      BY <1>0 DEF Source, Nul
    <3>2. n + pos = N /\ pos <= len /\ n' = n - 1
      BY <1>0, <1>1, <1>3, <2>3 DEF CopyInv
    <3>3. pc' = IF pos >= len THEN "pad" ELSE "copy"
      BY <1>3, <3>1
    <3> QED
      BY <1>0, <2>1, <3>2, <3>3
  <2>4. ASSUME len < N, NEW i \in Cells
        PROVE  /\ i < pos' => mem'[i] = Source(i)
               /\ i >= pos' => mem'[i] = Other
    BY <1>0, <1>3, <2>1, <2>4 DEF CopyInv, CopyTypeOK, Cells
  <2>5. \A i : Source(i)' = Source(i)
    BY <1>0 DEF Source
  <2> QED
    BY <1>0, <2>2, <2>3, <2>4, <2>5 DEF CopyInv
<1>4. CASE n # 0 /\ pos \notin Cells /\ Fault
  BY <1>1, <1>4 DEF CopyInv, CopyTypeOK, CopyLoop, Fault, Cells, Source
<1> QED
  BY <1>2, <1>3, <1>4 DEF CopyLoop

\* A pass of the second loop keeps it.
LEMMA PadLoopInv == CopyInv /\ PadLoop => CopyInv'
<1> SUFFICES ASSUME CopyInv, PadLoop PROVE CopyInv'
  OBVIOUS
<1>1. /\ n' \in 0..(WORD - 1)
      /\ n > 0 => n' = n - 1
  BY Decrement DEF CopyInv, CopyTypeOK, PadLoop, Decremented
<1>2. CASE ~MoreToPad /\ pc' = "done" /\ UNCHANGED <<mem, pos>>
  BY <1>1, <1>2 DEF CopyInv, CopyTypeOK, PadLoop, MoreToPad, Source
<1>3. CASE MoreToPad /\ pos \in Cells /\ Store(Nul) /\ UNCHANGED pc
  BY <1>1, <1>3 DEF CopyInv, CopyTypeOK, PadLoop, MoreToPad, Source, Store, Cells,
                    Nul, Other
<1>4. CASE MoreToPad /\ pos \notin Cells /\ Fault
  BY <1>1, <1>4 DEF CopyInv, CopyTypeOK, PadLoop, MoreToPad, Fault, Cells, Source
<1> QED
  BY <1>2, <1>3, <1>4 DEF PadLoop

\* So does the next call.
LEMMA NextCallInv == CopyInv /\ NextCall => CopyInv'
  BY DEF NextCall, CopyInv, CopyTypeOK, Untouched, Cells, Other, Source

\* Every string shorter than n is copied and padded, and nothing past the n
\* cells is written: names of up to 30 characters, for fs_create_file.
THEOREM CopyCorrect == CopySpec => [](CopyTypeOK /\ ShortStringsCopied)
<1>1. CopyInv /\ [CopyNext]_copy_vars => CopyInv'
  <2> SUFFICES ASSUME CopyInv, [CopyNext]_copy_vars PROVE CopyInv'
    OBVIOUS
  <2>1. CASE CopyNext
    BY <2>1, CopyLoopInv, PadLoopInv, NextCallInv DEF CopyNext
  <2>2. CASE UNCHANGED copy_vars
    BY <2>2 DEF copy_vars, CopyInv, CopyTypeOK, Source
  <2> QED
    BY <2>1, <2>2
<1>2. CopyInv => CopyTypeOK /\ ShortStringsCopied
  BY DEF CopyInv, CopyTypeOK, ShortStringsCopied, Cells
<1> QED
  BY CopyInitInv, <1>1, <1>2, PTL DEF CopySpec

\* The position and the remaining count stay in range, also when n wraps around.
THEOREM CopyTypeCorrect == CopySpec => []CopyTypeOK
<1> QED
  BY CopyCorrect, PTL
=============================================================================
