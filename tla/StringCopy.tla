----------------------------- MODULE StringCopy -----------------------------
(***************************************************************************)
(* The kernel's strncpy, one step for each pass of its two loops.  It is   *)
(* what fs_create_file stores a name with:                                 *)
(*                                                                         *)
(*     while (n-- && ( *dest++ = *src++ ));                                *)
(*     while (n-- > 0) *dest++ = '\0';                                     *)
(*                                                                         *)
(* n is unsigned.  The destination is cell 0 of mem; the cells from n on   *)
(* are other variables, and past MEMORY there is nothing to write to.      *)
(***************************************************************************)
EXTENDS Integers

CONSTANTS
  N,        \* the n of the call                        (31 for a file name)
  Lengths,  \* lengths of the strings callers pass
  MEMORY,   \* cells that can be written from the destination on
  WORD      \* numbers a size_t can hold                             (2^64)

ASSUME CopyAssumption ==
  /\ N \in Nat \ {0} /\ MEMORY \in Nat /\ N <= MEMORY
  /\ Lengths \subseteq Nat
  /\ WORD \in Nat /\ N < WORD

VARIABLES
  len,   \* the length of the string that src points at
  n,     \* as in the code
  pos,   \* how far dest, and in the first loop src, has advanced
  mem,   \* from the destination on
  pc     \* the loop: "copy" or "pad"; "done"; "fault"

copy_vars == <<len, n, pos, mem, pc>>

Cells == 0..(MEMORY - 1)
Nul   == 0
Other == -1      \* what was there before

\* The string: its characters are told apart by their positions.
Source(i) == IF i < len THEN i + 1 ELSE Nul

CopyTypeOK ==
  /\ len \in Lengths
  /\ n \in 0..(WORD - 1)
  /\ pos \in 0..MEMORY
  /\ mem \in [Cells -> Int]
  /\ pc \in {"copy", "pad", "done", "fault"}

Untouched == [i \in Cells |-> Other]

CopyInit == /\ len \in Lengths /\ n = N /\ pos = 0
            /\ mem = Untouched /\ pc = "copy"

Store(c) == mem' = [mem EXCEPT ![pos] = c] /\ pos' = pos + 1

Fault == pc' = "fault" /\ UNCHANGED <<mem, pos>>

Decremented_NoWrap == n' = n - 1

Decremented == n' = (n - 1) % WORD

\* while (n-- && ...): the test of n comes first, the decrement always.
CopyLoop ==
  /\ pc = "copy"
  /\ Decremented
  /\ \/ n = 0 /\ pc' = "pad" /\ UNCHANGED <<mem, pos>>
     \/ /\ n # 0 /\ pos \in Cells
        /\ Store(Source(pos))
        /\ pc' = IF Source(pos) = Nul THEN "pad" ELSE "copy"
     \/ n # 0 /\ pos \notin Cells /\ Fault
  /\ UNCHANGED len

MoreToPad_OneMore == n >= 0

MoreToPad == n > 0

PadLoop ==
  /\ pc = "pad"
  /\ Decremented
  /\ \/ ~MoreToPad /\ pc' = "done" /\ UNCHANGED <<mem, pos>>
     \/ MoreToPad /\ pos \in Cells /\ Store(Nul) /\ UNCHANGED pc
     \/ MoreToPad /\ pos \notin Cells /\ Fault
  /\ UNCHANGED len

\* The caller goes on to another string, with another destination.
NextCall ==
  /\ pc = "done"
  /\ len' \in Lengths /\ n' = N /\ pos' = 0
  /\ mem' = Untouched /\ pc' = "copy"

CopyNext == CopyLoop \/ PadLoop \/ NextCall

CopySpec == CopyInit /\ [][CopyNext]_copy_vars
                     /\ WF_copy_vars(CopyLoop) /\ WF_copy_vars(PadLoop)

-----------------------------------------------------------------------------
(* Properties                                                              *)

\* A string shorter than n is copied, the rest of the n cells is zero, and
\* no cell after them is touched, at any time.  So a name of up to 30
\* characters ends in a zero within its field, and the field holds no rest
\* of a name that was there before.
ShortStringsCopied ==
  len < N =>
    /\ \A i \in Cells : i >= N => mem[i] = Other
    /\ pc = "done" => \A i \in 0..(N - 1) : mem[i] = Source(i)

\* Not more than n cells are written, whatever the string.
AtMostN == \A i \in Cells : i >= N => mem[i] = Other
=============================================================================
