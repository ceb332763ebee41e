------------------------------- MODULE Editor -------------------------------
(* What a line editor with a history promises: the line is what stands left   *)
(* and right of the cursor, keys act at the cursor, and a line that was       *)
(* entered can be recalled, as it was, by its age.                            *)
EXTENDS Integers, Sequences

CONSTANT Byte

VARIABLES
  left, right,   \* the text on either side of the cursor
  past,          \* the lines entered, oldest first
  age            \* which of them was recalled last, counted from the newest; 0 is none

vars == <<left, right, past, age>>

Type ==
  /\ Len(left') >= Len(left) /\ SubSeq(left', 1, Len(left)) = left
  /\ UNCHANGED <<right, past, age>>

Erase ==
  /\ left # <<>>
  /\ left' = SubSeq(left, 1, Len(left) - 1)
  /\ UNCHANGED <<right, past, age>>

Back ==
  /\ left # <<>>
  /\ left' = SubSeq(left, 1, Len(left) - 1)
  /\ right' = <<left[Len(left)]>> \o right
  /\ UNCHANGED <<past, age>>

Forward ==
  /\ right # <<>>
  /\ left' = Append(left, Head(right))
  /\ right' = Tail(right)
  /\ UNCHANGED <<past, age>>

\* One step towards older or newer lines; the cursor goes to the end.
Recall ==
  /\ past # <<>>
  /\ age' \in {age - 1, age, age + 1} \intersect (0 .. Len(past))
  /\ left' = IF age' = 0 THEN <<>> ELSE past[Len(past) - age' + 1]
  /\ right' = <<>>
  /\ UNCHANGED past

Cancel ==
  /\ left' = <<>> /\ right' = <<>>
  /\ UNCHANGED <<past, age>>

\* An empty line is entered without a trace.
Enter ==
  /\ left' = <<>> /\ right' = <<>> /\ age' = 0
  /\ past' = IF left \o right = <<>> THEN past ELSE Append(past, left \o right)

Init == left = <<>> /\ right = <<>> /\ age = 0 /\ past \in Seq(Seq(Byte))

Next == Type \/ Erase \/ Back \/ Forward \/ Recall \/ Cancel \/ Enter

Spec == Init /\ [][Next]_vars
=============================================================================
