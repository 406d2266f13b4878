----------------------------- MODULE ChartTable -----------------------------
(***************************************************************************)
(* What a parse chart promises its users: one independent value for every  *)
(* (begin, end, tag) with 0 <= begin < end <= NumWords and                 *)
(* 0 <= tag < NumTags, and an exception for every other index.  A value    *)
(* read is the last one stored at that very index, or whatever the fresh   *)
(* chart held there.  CKYTable packs these values into one array and is    *)
(* shown to implement this specification.                                  *)
(***************************************************************************)
EXTENDS Integers

CONSTANTS NumWords,   \* words of the sentence
          NumTags,    \* abstract tags of the model
          Values      \* what a chart entry may hold

VARIABLES built,      \* TRUE once the constructor has returned
          chart,      \* the value of every entry
          answer      \* the outcome of the last access

chartVars == <<built, chart, answer>>

Cells == {c \in (0..NumWords) \X (0..NumWords) \X (0..(NumTags - 1)) : c[1] < c[2]}

None    == [kind |-> "none"]
Thrown  == [kind |-> "thrown"]
Got(v)  == [kind |-> "value", val |-> v]

Init == built = FALSE /\ chart = <<>> /\ answer = None

(* A fresh chart holds arbitrary values: new T[] leaves a bool, an int or  *)
(* a double uninitialised.                                                 *)
Build ==
  /\ ~built
  /\ built' = TRUE
  /\ chart' \in [Cells -> Values]
  /\ UNCHANGED answer

Read ==
  /\ built
  /\ \E c \in Cells : answer' = Got(chart[c])
  /\ UNCHANGED <<built, chart>>

Write ==
  /\ built
  /\ \E c \in Cells, v \in Values :
       /\ chart' = [chart EXCEPT ![c] = v]
       /\ answer' = Got(v)
  /\ UNCHANGED built

Reject ==
  /\ built
  /\ answer' = Thrown
  /\ UNCHANGED <<built, chart>>

Next == Build \/ Read \/ Write \/ Reject

Spec == Init /\ [][Next]_chartVars
=============================================================================
