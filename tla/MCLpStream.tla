------------------------------ MODULE MCLpStream ------------------------------
(* LpStream with one slot that two viewers use in turn and a mailbox of one *)
(* frame, so that a session thread one unit behind is flushed.              *)
EXTENDS LpStream

Line(tag) == [tag |-> tag, value |-> "good"]
Complete == [i \in DOMAIN Tags |-> Line(Tags[i])] \o <<Line("candidate")>>
MCAnswers == {Complete, Tail(Complete)}
=============================================================================
