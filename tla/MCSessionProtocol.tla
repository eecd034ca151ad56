-------------------------- MODULE MCSessionProtocol --------------------------
(* SessionProtocol with the sessions of one task as model values. *)
EXTENDS SessionProtocol

CONSTANTS s1, s2, s3

TwoSessions == {s1, s2}
ThreeSessions == {s1, s2, s3}
NoNeeds == {{}}
PchNeeds == {{}, {"pch"}}
AllOrNothing == {{}, {"compiler", "pch"}}
CompileFaults == {"compile"}
WriteFaults == {"decompress"}

=============================================================================
