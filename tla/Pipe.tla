-------------------------------- MODULE Pipe --------------------------------
(***************************************************************************)
(* What one direction of any relay of the proxy promises: the bytes that   *)
(* one end sends arrive at the other end in order, none lost, repeated or  *)
(* invented, and the end of the stream arrives after all of them.  A byte  *)
(* is the number of its place in the stream.                               *)
(***************************************************************************)
EXTENDS Naturals, Sequences

VARIABLES
  sent,    \* how many bytes the source has sent
  ended,   \* the source has closed its end
  got,     \* the bytes that arrived
  closed   \* the destination was told that the stream is over

pipeVars == <<sent, ended, got, closed>>

(* The first n bytes of the stream. *)
First(n) == [i \in 1 .. n |-> i]

PipeInit == sent = 0 /\ ~ended /\ got = <<>> /\ ~closed

Send ==
  /\ ~ended
  /\ sent' = sent + 1
  /\ UNCHANGED <<ended, got, closed>>

End ==
  /\ ~ended /\ ended' = TRUE
  /\ UNCHANGED <<sent, got, closed>>

Deliver ==
  /\ ~closed
  /\ \E n \in Len(got) + 1 .. sent : got' = First(n)
  /\ UNCHANGED <<sent, ended, closed>>

Close ==
  /\ ended /\ got = First(sent) /\ ~closed
  /\ closed' = TRUE
  /\ UNCHANGED <<sent, ended, got>>

PipeNext == Send \/ End \/ Deliver \/ Close

PipeSpec == PipeInit /\ [][PipeNext]_pipeVars
=============================================================================
