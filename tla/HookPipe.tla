------------------------------ MODULE HookPipe ------------------------------
(***************************************************************************)
(* What a hooked process tells the processes it creates: the compilers,    *)
(* what to run in their place, and the manager's port (hookProcess and     *)
(* Initialize in hookProcess.cpp).  They go through a pipe as strings that *)
(* end in a zero byte; an empty string comes between the compilers and the *)
(* port.  Initialize takes what the pipe has in chunks, and forgets at the *)
(* end of a chunk the string, or the compiler, it has half read.           *)
(***************************************************************************)
EXTENDS Naturals, Sequences, SequencesExt

CONSTANTS Chunk,       \* the buffer Initialize reads into, 1024 bytes
          Executables  \* paths that exist, as sequences of non-zero bytes

ASSUME ChunkAssumption == Chunk \in Nat \ {0}

Bytes == 1..255
Strings == Seq(Bytes)
ASSUME ExecutablesAssumption == IsFiniteSet(Executables) /\ Executables \subseteq Strings \ {<<>>}
\* What the data of a process can be: compilers that exist, and a port.
IsHookData(d) ==
  /\ d = [files |-> d.files, port |-> d.port] /\ d.port \in Strings
  /\ DOMAIN d.files \subseteq Executables /\ d.files \in [DOMAIN d.files -> Strings]

NoData == [files |-> [p \in {} |-> <<>>], port |-> <<>>]

\* CompilerExecutables::registerFile: a path that exists and is not known yet.
registerFile(files, path, replacement) ==
  IF path \in Executables \ DOMAIN files
  THEN [p \in DOMAIN files \cup {path} |-> IF p = path THEN replacement ELSE files[p]]
  ELSE files

ZeroTerminated(str) == Append(str, 0)
\* The loop of hookProcess over the compilers, in the order of their map.
Payload(data) ==
  LET WriteCompiler(path) == ZeroTerminated(path) \o ZeroTerminated(data.files[path])
      paths == SetToSeq(DOMAIN data.files)
      written[i \in 0..Cardinality(DOMAIN data.files)] ==
        IF i = 0 THEN <<>> ELSE written[i - 1] \o WriteCompiler(paths[i])
  IN written[Cardinality(DOMAIN data.files)] \o <<0>> \o ZeroTerminated(data.port)

\* The state of Initialize's loops.
ParseStart == [data |-> NoData, replacement |-> FALSE, port |-> FALSE, done |-> FALSE,
               str |-> <<>>, path |-> <<>>]

\* Mutant: an empty replacement is taken for the end of the compilers.
X_EmptyEnds(s, b) ==
  IF b # 0 THEN [s EXCEPT !.str = Append(@, b)]
  ELSE IF s.str = <<>> /\ ~s.port THEN [s EXCEPT !.port = TRUE]
  ELSE IF s.port THEN [s EXCEPT !.done = TRUE, !.data.port = s.str, !.str = <<>>]
  ELSE IF s.replacement
       THEN [s EXCEPT !.data.files = registerFile(@, s.path, s.str), !.replacement = FALSE,
                      !.str = <<>>]
  ELSE [s EXCEPT !.path = s.str, !.replacement = TRUE, !.str = <<>>]
\* One byte of the chunk.
ParseByte(s, b) ==
  IF b # 0 THEN [s EXCEPT !.str = Append(@, b)]
  ELSE IF s.str = <<>> /\ ~s.replacement /\ ~s.port THEN [s EXCEPT !.port = TRUE]
  ELSE IF s.port THEN [s EXCEPT !.done = TRUE, !.data.port = s.str, !.str = <<>>]
  ELSE IF s.replacement
       THEN [s EXCEPT !.data.files = registerFile(@, s.path, s.str), !.replacement = FALSE,
                      !.str = <<>>]
  ELSE [s EXCEPT !.path = s.str, !.replacement = TRUE, !.str = <<>>]
\* readingReplacement, readingPortName and done outlive a chunk; the string
\* read so far (remainder) and compilerPath are local to it.
ParseChunk(s, chunk) ==
  LET after[i \in 0..Len(chunk)] ==
        IF i = 0 THEN [s EXCEPT !.str = <<>>, !.path = <<>>] ELSE ParseByte(after[i - 1], chunk[i])
  IN after[Len(chunk)]
=============================================================================
