------------------------------ MODULE BlockPipe ------------------------------
(***************************************************************************)
(* What the sample buffer promises the device thread and the reader: whole  *)
(* blocks travel through a pipe of limited room, each is taken once and in  *)
(* order, and the reader learns of the end only when the pipe is closed and *)
(* empty.  A reader may also walk away on its own.                          *)
(***************************************************************************)
EXTENDS Naturals, Sequences

CONSTANTS Block,   \* what a block may hold
          Room     \* how many blocks the pipe holds

VARIABLES pipe,    \* the blocks written and not yet taken, oldest first
          closed,  \* the end has been announced
          taken,   \* every block the reader took, in order
          reader   \* "reading", "ended" (saw the end) or "left"

vars == <<pipe, closed, taken, reader>>

Init == pipe = <<>> /\ closed = FALSE /\ taken = <<>> /\ reader = "reading"

\* One commit publishes one block or several, behind the ones that wait.
Commit ==
  /\ Len(pipe') > Len(pipe) /\ Len(pipe') <= Room
  /\ pipe' \in Seq(Block)
  /\ SubSeq(pipe', 1, Len(pipe)) = pipe
  /\ UNCHANGED <<closed, taken, reader>>

Take ==
  /\ reader = "reading" /\ pipe # <<>>
  /\ taken' = Append(taken, Head(pipe))
  /\ pipe' = Tail(pipe)
  /\ UNCHANGED <<closed, reader>>

Close ==
  /\ closed' = TRUE
  /\ UNCHANGED <<pipe, taken, reader>>

End ==
  /\ reader = "reading" /\ closed /\ pipe = <<>>
  /\ reader' = "ended"
  /\ UNCHANGED <<pipe, closed, taken>>

Leave ==
  /\ reader = "reading"
  /\ reader' = "left"
  /\ UNCHANGED <<pipe, closed, taken>>

Next == Commit \/ Take \/ Close \/ End \/ Leave

SafeSpec == Init /\ [][Next]_vars

\* A reader that stays takes what is there and notices the end.
Spec == SafeSpec /\ WF_vars(Take) /\ WF_vars(End)
=============================================================================
