------------------------------ MODULE CKYTable ------------------------------
(***************************************************************************)
(* The triangular chart of include/ckylark/CKYTable.h: every (begin, end,  *)
(* tag) entry lives in one array mem, and the table shift of row offsets   *)
(* is filled by a loop in the constructor.  Each step of the constructor   *)
(* is an action, and each call of at() after it is a load, a store through *)
(* the returned reference, or a throw.                                     *)
(***************************************************************************)
EXTENDS Integers

CONSTANTS NumWords, NumTags, Values

ASSUME SizeAssumption == NumWords \in Nat /\ NumTags \in Nat

VARIABLES pc,      \* "start", "fill" (the shift loop), "ready"
          i,       \* the loop variable of the constructor
          shift,   \* shift_ : row offset by span length
          mem,     \* mem_   : the entries
          answer   \* outcome of the last at(): a value or an exception

vars == <<pc, i, shift, mem, answer>>

None   == [kind |-> "none"]
Thrown == [kind |-> "thrown"]
Got(v) == [kind |-> "value", val |-> v]

Tri == (NumWords * (NumWords + 1)) \div 2     \* spans of the sentence
Slots == 0..(NumTags * Tri - 1)

Init ==
  /\ pc = "start" /\ i = 0
  /\ shift = [l \in 0..NumWords |-> 0]
  /\ mem = <<>>
  /\ answer = None

-----------------------------------------------------------------------------
(* The constructor.                                                        *)

StoreDummy ==
  /\ pc = "start"
  /\ shift' = [shift EXCEPT ![0] = -NumWords - 1]
  /\ i' = 1
  /\ pc' = "fill"
  /\ UNCHANGED <<mem, answer>>

(* Mutant: every row one slot too long, or too short.                      *)
NextOffsetLong(l, prev) == prev + (NumWords - l + 3)
NextOffsetShort(l, prev) == prev + (NumWords - l + 1)

NextOffset(l, prev) == prev + (NumWords - l + 2)

FillShift ==
  /\ pc = "fill" /\ i <= NumWords
  /\ shift' = [shift EXCEPT ![i] = NextOffset(i, shift[i - 1])]
  /\ i' = i + 1
  /\ UNCHANGED <<pc, mem, answer>>

(* Mutant: room for the spans of a sentence one word shorter.              *)
AllocateShort ==
  /\ pc = "fill" /\ i > NumWords
  /\ mem' \in [0..(NumTags * ((NumWords * (NumWords - 1)) \div 2) - 1) -> Values]
  /\ pc' = "ready"
  /\ UNCHANGED <<i, shift, answer>>

Allocate ==
  /\ pc = "fill" /\ i > NumWords
  /\ mem' \in [Slots -> Values]
  /\ pc' = "ready"
  /\ UNCHANGED <<i, shift, answer>>

-----------------------------------------------------------------------------
(* at(begin, end, tag): the index test, then the address.                  *)

Invalid(b, e, t) == b >= NumWords \/ e > NumWords \/ e <= b \/ t >= NumTags

(* Mutant: the stride of the tags is forgotten.                            *)
AddressUnscaled(b, e, t) == shift[e - b] + b + t

Address(b, e, t) == NumTags * (shift[e - b] + b) + t

Load(b, e, t) ==
  /\ pc = "ready" /\ ~Invalid(b, e, t)
  /\ answer' = Got(mem[Address(b, e, t)])
  /\ UNCHANGED <<pc, i, shift, mem>>

Store(b, e, t, v) ==
  /\ pc = "ready" /\ ~Invalid(b, e, t)
  /\ mem' = [mem EXCEPT ![Address(b, e, t)] = v]
  /\ answer' = Got(v)
  /\ UNCHANGED <<pc, i, shift>>

Throw(b, e, t) ==
  /\ pc = "ready" /\ Invalid(b, e, t)
  /\ answer' = Thrown
  /\ UNCHANGED <<pc, i, shift, mem>>

(* The indices are size_t; one past either end stands for the rest.        *)
At ==
  \E b, e \in 0..(NumWords + 1), t \in 0..NumTags :
    \/ Load(b, e, t)
    \/ \E v \in Values : Store(b, e, t, v)
    \/ Throw(b, e, t)

Next == StoreDummy \/ FillShift \/ Allocate \/ At

Spec == Init /\ [][Next]_vars

-----------------------------------------------------------------------------
Cells == {c \in (0..NumWords) \X (0..NumWords) \X (0..(NumTags - 1)) : c[1] < c[2]}

CellAddress(c) == Address(c[1], c[2], c[3])

(* The type of every variable: the offsets are integers and, once the      *)
(* constructor is done, the array has exactly NumTags entries per span.    *)
TypeOK ==
  /\ pc \in {"start", "fill", "ready"}
  /\ i \in 0..(NumWords + 1)
  /\ shift \in [0..NumWords -> Int]
  /\ IF pc = "ready" THEN mem \in [Slots -> Values] ELSE mem = <<>>
  /\ answer \in {None, Thrown} \cup {Got(v) : v \in Values}

(* Every index at() accepts addresses an entry inside the array: the       *)
(* offsets the loop computes never run over its end, for the longest span  *)
(* and the last tag too.                                                   *)
InBounds ==
  pc = "ready" => \A c \in Cells : CellAddress(c) \in Slots

(* Two different accepted indices never share an entry, so that writing    *)
(* the score of one constituent cannot disturb another's.                  *)
NoAlias ==
  pc = "ready" =>
    \A c, d \in Cells : CellAddress(c) = CellAddress(d) => c = d

(* A chart as its users see it: the refinement mapping to ChartTable reads *)
(* every entry at its address.                                             *)
Chart == INSTANCE ChartTable
           WITH built <- (pc = "ready"),
                chart <- IF pc = "ready"
                           THEN [c \in Cells |-> mem[CellAddress(c)]]
                           ELSE <<>>

(* The packed table implements the abstract chart: each entry keeps the    *)
(* value last stored at its own index, and an access outside the triangle  *)
(* changes nothing.                                                        *)
ChartSpec == Chart!Spec

=============================================================================
