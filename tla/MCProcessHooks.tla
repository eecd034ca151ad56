--------------------------- MODULE MCProcessHooks ---------------------------
\* A process, a kid and the kid's kid.  The compiler's path has two bytes and
\* its replacement none or one; with both compilers and a replacement the
\* payload is longer than a chunk.
EXTENDS ProcessHooks
MCExecutables == {<<1, 2>>, <<3>>}
One(r) == registerFile(NoData.files, <<1, 2>>, r)
MCSpawning ==
  {[files |-> f, port |-> <<6>>] : f \in {One(<<>>), One(<<5>>), registerFile(One(<<5>>), <<3>>, <<5>>)}}
MCConfigs == {[files |-> One(<<>>), port |-> <<4>>]} \cup MCSpawning
MCParent == [k \in Kids |-> IF k = "k1" THEN Root ELSE "k1"]
=============================================================================
