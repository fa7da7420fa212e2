-------------------------------- MODULE Fifo --------------------------------
(***************************************************************************)
(* What ts_queue promises: values come out in the order they went in, each *)
(* once, and a pop of an empty queue says so.                              *)
(***************************************************************************)
EXTENDS Sequences

CONSTANTS Values

VARIABLES
  content,  (* the values in the queue, the oldest first *)
  popped    (* what the last pop returned: <<>> nothing, <<v>> the value v *)

fifoVars == <<content, popped>>

Init == content = <<>> /\ popped = <<>>

Push(v) ==
  /\ content' = Append(content, v)
  /\ UNCHANGED popped

PopValue ==
  /\ content # <<>>
  /\ popped' = <<Head(content)>>
  /\ content' = Tail(content)

PopNothing ==
  /\ content = <<>>
  /\ popped' = <<>>
  /\ UNCHANGED content

Next == (\E v \in Values : Push(v)) \/ PopValue \/ PopNothing

Spec == Init /\ [][Next]_fifoVars
=============================================================================
