---------------------------- MODULE FrameChannel ----------------------------
(***************************************************************************)
(* What stomp_read promises its caller: the frames it returns are frames    *)
(* that the other end sent, whole, in order, none left out in between.  It  *)
(* does not promise that a frame sent is ever returned, and from the first  *)
(* frame on that can be taken for a shorter one it promises nothing.        *)
(***************************************************************************)
EXTENDS Naturals, Sequences

CONSTANTS Frames,     \* the frames that may be sent
          Ambiguous   \* those that can be taken for a shorter one

VARIABLES sent, got

Init == sent = <<>> /\ got = <<>>

Send(f) == /\ sent' = Append(sent, f)
           /\ UNCHANGED got

Receive == /\ Len(got) < Len(sent)
           /\ got' = Append(got, sent[Len(got) + 1])
           /\ UNCHANGED sent

\* A frame is returned when an ambiguous one has been reached.
Misread == /\ \E i \in DOMAIN sent : i <= Len(got) + 1 /\ sent[i] \in Ambiguous
           /\ Len(got') = Len(got) + 1
           /\ SubSeq(got', 1, Len(got)) = got
           /\ UNCHANGED sent

Next == (\E f \in Frames : Send(f)) \/ Receive \/ Misread

Spec == Init /\ [][Next]_<<sent, got>>
=============================================================================
