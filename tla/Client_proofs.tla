--------------------------- MODULE Client_proofs ---------------------------
(***************************************************************************)
(* Client and manager implement Command, for any number of commands, files *)
(* and exit codes, however their conversations interleave and whenever the *)
(* manager stops.                                                          *)
(***************************************************************************)
EXTENDS Client, TLAPS

AllCodes == Codes \cup {-1}
Hows == {"pending", "exit", "link"} \cup Cmd!Elsewhere

\* The messages of the two directions.
ToManager ==
  {[op |-> "request"], [op |-> "files"]} \cup {[op |-> "output", code |-> r] : r \in Codes}
ToClient ==
  {[op |-> "run_locally"], [op |-> "execute_get_output"], [op |-> "locate_files"]}
  \cup {[op |-> "exit", why |-> w, code |-> Encode(k)] : w \in {"exit", "unusable"}, k \in AllCodes}
  \cup {[op |-> "execute_and_exit", why |-> w] : w \in {"pch", "link"}}

\* What the manager says of the files with its last message is true of the
\* results.  It stays true, because no result is added once there are all.
Promised(c, res, m) ==
  /\ m.op = "exit" /\ m.why = "exit" =>
       DOMAIN res = Tasks[c] /\ Decode(m.code) \in Cmd!ExitCodes(res)
  /\ m.op = "execute_and_exit" /\ m.why = "link" =>
       DOMAIN res = Tasks[c] /\ Cmd!Errors(res) = {}

\* The inductive invariant: results are codes of the command's files, a command
\* that has an outcome is over, and promises on their way are true.
ResultsInv ==
  /\ results = [c \in Clients |-> results[c]]
  /\ \A c \in Clients :
       /\ results[c] = [t \in DOMAIN results[c] |-> results[c][t]]
       /\ DOMAIN results[c] \subseteq Tasks[c]
       /\ \A t \in DOMAIN results[c] : results[c][t] \in AllCodes
OutcomeInv ==
  /\ outcome \in [Clients -> [how : Hows, code : AllCodes]]
  /\ cl \in [Clients -> {"open", "send", "wait", "execute", "end"}]
  /\ \A c \in Clients : cl[c] # "end" => outcome[c] = Pending
RequestsInv == toMgr \in [Clients -> Seq(ToManager)]
PromisesInv ==
  /\ toCli \in [Clients -> Seq(ToClient)]
  /\ \A c \in Clients : \A i \in 1..Len(toCli[c]) : Promised(c, results[c], toCli[c][i])
RefInv == ResultsInv /\ OutcomeInv /\ RequestsInv /\ PromisesInv

\* An exit code survives its trip as four bytes.
LEMMA DecodeEncode == ASSUME NEW k \in ExitCodeRange PROVE Decode(Encode(k)) = k
<1> DEFINE a == k \div 16777216
           b == k \div 65536
           d == k \div 256
<1> USE DEF ExitCodeRange
<1>1. /\ a \in Int /\ b \in Int /\ d \in Int
      /\ k = 256 * d + (k % 256) /\ k % 256 \in 0..255
      /\ -8388608 <= d /\ d <= 8388607
  BY SMT
<1>2. d = 256 * b + (d % 256) /\ d % 256 \in 0..255 /\ -32768 <= b /\ b <= 32767
  BY SMT
<1>3. b = 256 * a + (b % 256) /\ b % 256 \in 0..255 /\ -128 <= a /\ a <= 127
  BY SMT
<1>4. (IF a % 256 >= 128 THEN (a % 256) - 256 ELSE a % 256) = a
  BY <1>3, SMT
<1>5. Encode(k) = <<a % 256, b % 256, d % 256, k % 256>>
  BY SMT DEF Encode
<1> HIDE DEF a, b, d
<1> QED
  BY <1>1, <1>2, <1>3, <1>4, <1>5, SMTT(30) DEF Decode

\* At the start nothing is compiled, over or under way.
LEMMA InitRef == Init => RefInv /\ Cmd!CommandInit
<1> SUFFICES ASSUME Init PROVE RefInv /\ Cmd!CommandInit
  OBVIOUS
<1> USE DEF Init
<1>1. Cmd!CommandInit
  BY DEF Cmd!CommandInit, Cmd!Pending, Pending
<1>2. ResultsInv
  BY DEF ResultsInv
<1>3. OutcomeInv
  BY ClientAssumption DEF OutcomeInv, Pending, Hows, AllCodes
<1>4. RequestsInv /\ PromisesInv
  BY DEF RequestsInv, PromisesInv
<1> QED
  BY <1>1, <1>2, <1>3, <1>4 DEF RefInv

\* The ends that Command allows.
Allowed(c, how, code) ==
  \/ how \in Cmd!Elsewhere
  \/ how = "exit" /\ DOMAIN results[c] = Tasks[c] /\ code \in Cmd!ExitCodes(results[c])
  \/ how = "link" /\ DOMAIN results[c] = Tasks[c] /\ Cmd!Errors(results[c]) = {}

\* Ending a command in such a way is a step of Command.
LEMMA EndsRef ==
  ASSUME OutcomeInv, NEW c \in Clients, cl[c] # "end", NEW how, NEW code \in AllCodes,
         Ends(c, how, code), Allowed(c, how, code), UNCHANGED results
  PROVE  OutcomeInv' /\ Cmd!CommandNext
<1>1. how \in Hows \ {"pending"}
  BY DEF Allowed, Hows, Cmd!Elsewhere
<1>2. OutcomeInv'
  BY <1>1 DEF OutcomeInv, Ends
<1>3. Cmd!Ended(c, [how |-> how, code |-> code])
  BY DEF OutcomeInv, Ends, Allowed, Cmd!Ended, Cmd!AllCompiled, Pending, Cmd!Pending
<1>4. how \in Cmd!Elsewhere \cup {"exit", "link"}
  BY <1>1 DEF Hows
<1> QED
  BY <1>2, <1>3, <1>4 DEF Cmd!CommandNext, AllCodes

\* Running the compiler on the client's machine is always allowed.
LEMMA FallsBackRef ==
  ASSUME OutcomeInv, NEW c \in Clients, cl[c] # "end", FallsBack(c), UNCHANGED results
  PROVE  OutcomeInv' /\ Cmd!CommandNext
<1>1. CASE ~fallback
  <2>1. Allowed(c, "failed", -1) /\ Ends(c, "failed", -1)
    BY <1>1 DEF Allowed, Cmd!Elsewhere, FallsBack
  <2> QED
    BY <2>1, EndsRef DEF AllCodes
<1>2. CASE fallback
  <2>1. PICK r \in AllCodes : Ends(c, "fallback", r)
    BY <1>2 DEF FallsBack, AllCodes
  <2>2. Allowed(c, "fallback", r)
    BY DEF Allowed, Cmd!Elsewhere
  <2> QED
    BY <2>1, <2>2, EndsRef
<1> QED
  BY <1>1, <1>2

\* The first message under way is one of them; the others stay in order.
LEMMA TakeFirst ==
  ASSUME NEW M, NEW s \in Seq(M), s # <<>>
  PROVE  /\ Head(s) \in M /\ 1 \in 1..Len(s) /\ Head(s) = s[1]
         /\ Tail(s) \in Seq(M)
         /\ \A i \in 1..Len(Tail(s)) : i + 1 \in 1..Len(s) /\ Tail(s)[i] = s[i + 1]
OBVIOUS

\* A message appended to those under way is the last one.
LEMMA AddLast ==
  ASSUME NEW M, NEW s \in Seq(M), NEW m \in M
  PROVE  /\ Append(s, m) \in Seq(M)
         /\ \A i \in 1..Len(Append(s, m)) :
              \/ i \in 1..Len(s) /\ Append(s, m)[i] = s[i]
              \/ Append(s, m)[i] = m
OBVIOUS

\* The client takes a message.
LEMMA PromisesTaken ==
  ASSUME PromisesInv, NEW c \in Clients, UNCHANGED results,
         toCli[c] # <<>>, toCli' = [toCli EXCEPT ![c] = Tail(@)]
  PROVE  PromisesInv'
<1>1. toCli' \in [Clients -> Seq(ToClient)]
  BY TakeFirst DEF PromisesInv
<1>2. ASSUME NEW d \in Clients, NEW i \in 1..Len(toCli'[d]) PROVE Promised(d, results'[d], toCli'[d][i])
  <2>1. CASE d = c
    <3>1. toCli'[d] = Tail(toCli[c]) /\ toCli[c] \in Seq(ToClient)
      BY <2>1 DEF PromisesInv
    <3>2. i + 1 \in 1..Len(toCli[c]) /\ toCli'[d][i] = toCli[c][i + 1]
      BY <3>1, <1>2, TakeFirst
    <3> QED
      BY <2>1, <3>2 DEF PromisesInv
  <2>2. CASE d # c
    BY <1>2, <2>2 DEF PromisesInv
  <2> QED
    BY <2>1, <2>2
<1> QED
  BY <1>1, <1>2 DEF PromisesInv

\* The manager sends the message, unless the connection is gone.
Sent(c, msg) == toCli' \in {toCli, [toCli EXCEPT ![c] = Append(@, msg)]}

\* The message is true of the results after the step, which leaves the earlier
\* promises true.
LEMMA PromisesSent ==
  ASSUME PromisesInv, NEW c \in Clients, NEW msg \in ToClient, Sent(c, msg),
         Promised(c, results'[c], msg),
         \A d \in Clients, m \in ToClient : Promised(d, results[d], m) => Promised(d, results'[d], m)
  PROVE  PromisesInv'
<1> DEFINE longer == Append(toCli[c], msg)
<1>1. /\ longer \in Seq(ToClient)
      /\ \A i \in 1..Len(longer) :
           \/ i \in 1..Len(toCli[c]) /\ longer[i] = toCli[c][i]
           \/ longer[i] = msg
  BY AddLast DEF PromisesInv
<1> HIDE DEF longer
<1>2. toCli' = toCli \/ toCli' = [toCli EXCEPT ![c] = longer]
  BY DEF Sent, longer
<1>3. toCli' \in [Clients -> Seq(ToClient)]
  BY <1>1, <1>2 DEF PromisesInv
<1>4. ASSUME NEW d \in Clients, NEW i \in 1..Len(toCli'[d]) PROVE Promised(d, results'[d], toCli'[d][i])
  <2>1. \/ i \in 1..Len(toCli[d]) /\ toCli'[d][i] = toCli[d][i]
        \/ d = c /\ toCli'[d][i] = msg
    BY <1>4, <1>1, <1>2 DEF PromisesInv
  <2>2. \A k \in 1..Len(toCli[d]) : toCli[d][k] \in ToClient
    BY DEF PromisesInv
  <2> QED
    BY <2>1, <2>2 DEF PromisesInv
<1> QED
  BY <1>3, <1>4 DEF PromisesInv

\* Nothing is sent and nothing compiled.
LEMMA PromisesKept ==
  ASSUME PromisesInv, UNCHANGED <<results, toCli>> PROVE PromisesInv'
BY DEF PromisesInv

\* A file of the command is compiled.
NewResult(c, t, r) ==
  /\ t \in Tasks[c] \ DOMAIN results[c]
  /\ results' = [results EXCEPT ![c] = With(@, t, r)]

\* A new result breaks no promise: a promise about all files means that none is
\* missing.
LEMMA ResultRef ==
  ASSUME ResultsInv, NEW c \in Clients, NEW t, NEW r \in AllCodes, NewResult(c, t, r), UNCHANGED outcome
  PROVE  /\ ResultsInv' /\ Cmd!CommandNext
         /\ results'[c] = With(results[c], t, r)
         /\ \A d \in Clients, m \in ToClient : Promised(d, results[d], m) => Promised(d, results'[d], m)
<1>1. results'[c] = With(results[c], t, r) /\ \A d \in Clients \ {c} : results'[d] = results[d]
  BY DEF ResultsInv, NewResult
<1>2. ResultsInv'
  <2>1. results' = [d \in Clients |-> results'[d]]
    BY DEF ResultsInv, NewResult
  <2>2. /\ results'[c] = [u \in DOMAIN results'[c] |-> results'[c][u]]
        /\ DOMAIN results'[c] \subseteq Tasks[c]
        /\ \A u \in DOMAIN results'[c] : results'[c][u] \in AllCodes
    BY <1>1 DEF ResultsInv, NewResult, With
  <2> QED
    BY <1>1, <2>1, <2>2 DEF ResultsInv
<1>3. Cmd!Compiled(c, t, r)
  BY DEF NewResult, With, Cmd!Compiled
<1>4. Cmd!CommandNext
  BY <1>3 DEF Cmd!CommandNext, NewResult, AllCodes
<1>5. DOMAIN results[c] # Tasks[c]
  BY DEF NewResult
<1> QED
  BY <1>1, <1>2, <1>4, <1>5 DEF Promised

\* What every step has to show.
Refines == RefInv' /\ (Cmd!CommandNext \/ UNCHANGED <<results, outcome>>)

\* A request or reply on its way to the manager.
LEMMA RequestSent ==
  ASSUME RequestsInv, NEW c \in Clients, NEW msg \in ToManager,
         toMgr' = [toMgr EXCEPT ![c] = Append(@, msg)]
  PROVE  RequestsInv'
<1>1. Append(toMgr[c], msg) \in Seq(ToManager)
  BY AddLast DEF RequestsInv
<1> QED
  BY <1>1 DEF RequestsInv

\* A request or reply that the manager takes is one of those the client sends.
LEMMA RequestTaken ==
  ASSUME RequestsInv, NEW c \in Clients, toMgr[c] # <<>>, toMgr' = [toMgr EXCEPT ![c] = Tail(@)]
  PROVE  RequestsInv' /\ Head(toMgr[c]) \in ToManager
<1>1. Tail(toMgr[c]) \in Seq(ToManager) /\ Head(toMgr[c]) \in ToManager
  BY TakeFirst DEF RequestsInv
<1> QED
  BY <1>1 DEF RequestsInv

\* The client goes on to another place of its loop.
LEMMA GoesOnRef ==
  ASSUME RefInv, UNCHANGED <<results, outcome>>, RequestsInv', PromisesInv',
         NEW c \in Clients, cl[c] # "end",
         NEW p \in {"open", "send", "wait", "execute"}, cl' = [cl EXCEPT ![c] = p]
  PROVE  Refines
<1>1. OutcomeInv'
  BY DEF RefInv, OutcomeInv
<1>2. ResultsInv'
  BY DEF RefInv, ResultsInv
<1> QED
  BY <1>1, <1>2 DEF RefInv, Refines

\* A client that falls back makes a step of Command.
LEMMA GivesUpRef ==
  ASSUME RefInv, NEW c \in Clients, cl[c] # "end", FallsBack(c), UNCHANGED <<results, toMgr>>,
         PromisesInv'
  PROVE  Refines
<1>1. OutcomeInv' /\ Cmd!CommandNext
  BY FallsBackRef DEF RefInv
<1>2. ResultsInv' /\ RequestsInv'
  BY DEF RefInv, ResultsInv, RequestsInv
<1> QED
  BY <1>1, <1>2 DEF RefInv, Refines

\* A reply, or the fallback when the manager is gone.
LEMMA RepliesRef ==
  ASSUME RefInv, NEW c \in Clients, cl[c] # "end", NEW msg \in ToManager, Replies(c, msg),
         UNCHANGED results, PromisesInv'
  PROVE  Refines
<1>1. CASE Alive(c)
  <2>1. /\ toMgr' = [toMgr EXCEPT ![c] = Append(@, msg)]
        /\ cl' = [cl EXCEPT ![c] = "wait"] /\ UNCHANGED outcome
    BY <1>1 DEF Replies
  <2>2. RequestsInv'
    BY <2>1, RequestSent DEF RefInv
  <2> QED
    BY <2>1, <2>2, GoesOnRef
<1>2. CASE ~Alive(c)
  BY <1>2, GivesUpRef DEF Replies
<1> QED
  BY <1>1, <1>2

\* Both ways to send a message.
LEMMA SendsSent ==
  ASSUME NEW c, NEW msg PROVE (Sends(c, msg) => Sent(c, msg)) /\ (SendsLast(c, msg) => Sent(c, msg))
BY DEF Sends, SendsLast, Sent

\* A message that is true of results the step leaves alone.
LEMMA TellsRef ==
  ASSUME RefInv, NEW c \in Clients, UNCHANGED <<results, outcome, cl>>, RequestsInv',
         NEW msg \in ToClient, Promised(c, results[c], msg), Sent(c, msg)
  PROVE  Refines
<1>1. PromisesInv'
  <2>1. \A d \in Clients, m \in ToClient : Promised(d, results[d], m) => Promised(d, results'[d], m)
    OBVIOUS
  <2>2. Promised(c, results'[c], msg)
    OBVIOUS
  <2> QED
    BY <2>1, <2>2, PromisesSent DEF RefInv
<1>2. ResultsInv' /\ OutcomeInv'
  BY DEF RefInv, ResultsInv, OutcomeInv
<1> QED
  BY <1>1, <1>2 DEF RefInv, Refines

\* A step that sends nothing and compiles nothing.
LEMMA SilentRef ==
  ASSUME RefInv, UNCHANGED <<results, outcome, cl, toCli>>, RequestsInv' PROVE Refines
<1>1. ResultsInv' /\ OutcomeInv' /\ PromisesInv'
  BY DEF RefInv, ResultsInv, OutcomeInv, PromisesInv
<1> QED
  BY <1>1 DEF RefInv, Refines

\* Exit codes are in the range that four bytes can carry.
LEMMA CodesInRange == AllCodes \subseteq ExitCodeRange
<1>1. -1 \in ExitCodeRange
  BY SMT DEF ExitCodeRange
<1> QED
  BY <1>1, ClientAssumption DEF AllCodes

\* A completed task is a step of Command, and the last one sends the truth.
LEMMA CompletedRef ==
  ASSUME RefInv, NEW c \in Clients, NEW t, NEW r \in AllCodes, TaskCompleted(c, t, r),
         UNCHANGED <<outcome, cl>>, RequestsInv'
  PROVE  Refines
<1> DEFINE res == With(results[c], t, r)
<1>1. /\ ResultsInv' /\ Cmd!CommandNext /\ results'[c] = res
      /\ \A d \in Clients, m \in ToClient : Promised(d, results[d], m) => Promised(d, results'[d], m)
  <2>1. NewResult(c, t, r)
    BY DEF TaskCompleted, NewResult
  <2> QED
    BY <2>1, ResultRef DEF RefInv
<1>2. ASSUME NEW msg \in ToClient, Promised(c, res, msg), Sent(c, msg) PROVE PromisesInv'
  BY <1>1, <1>2, PromisesSent DEF RefInv
<1>3. PromisesInv'
  <2>1. CASE UNCHANGED toCli
    <3>1. [op |-> "locate_files"] \in ToClient /\ Promised(c, res, [op |-> "locate_files"])
      BY DEF ToClient, Promised
    <3>2. Sent(c, [op |-> "locate_files"])
      BY <2>1 DEF Sent
    <3> QED
      BY <3>1, <3>2, <1>2
  <2>2. ASSUME NEW k \in AllCodes, DOMAIN res = Tasks[c], k \in Cmd!ExitCodes(res), do_exit(c, "exit", k)
        PROVE  PromisesInv'
    <3> DEFINE msg == [op |-> "exit", why |-> "exit", code |-> Encode(k)]
    <3>1. msg \in ToClient
      BY DEF ToClient
    <3>2. Decode(Encode(k)) = k
      BY CodesInRange, DecodeEncode
    <3>3. Promised(c, res, msg)
      BY <2>2, <3>2 DEF Promised
    <3>4. Sent(c, msg)
      BY <2>2, SendsSent DEF do_exit
    <3> QED
      BY <3>1, <3>3, <3>4, <1>2
  <2>3. ASSUME DOMAIN res = Tasks[c], Cmd!Errors(res) = {}, do_execute_and_exit(c, "link")
        PROVE  PromisesInv'
    <3> DEFINE msg == [op |-> "execute_and_exit", why |-> "link"]
    <3>1. msg \in ToClient /\ Promised(c, res, msg)
      BY <2>3 DEF ToClient, Promised
    <3>2. Sent(c, msg)
      BY <2>3, SendsSent DEF do_execute_and_exit
    <3> QED
      BY <3>1, <3>2, <1>2
  <2>4. Cmd!Errors(res) \subseteq AllCodes /\ 0 \in AllCodes
    BY <1>1, ClientAssumption DEF ResultsInv, Cmd!Errors, AllCodes
  <2>5. /\ \A k \in Cmd!Errors(res) : k \in Cmd!ExitCodes(res)
        /\ Cmd!Errors(res) = {} => 0 \in Cmd!ExitCodes(res)
    BY DEF Cmd!ExitCodes
  <2>6. \/ UNCHANGED toCli
        \/ DOMAIN res = Tasks[c] /\ \E k \in Cmd!Errors(res) : do_exit(c, "exit", k)
        \/ DOMAIN res = Tasks[c] /\ Cmd!Errors(res) = {} /\ do_exit(c, "exit", 0)
        \/ DOMAIN res = Tasks[c] /\ Cmd!Errors(res) = {} /\ do_execute_and_exit(c, "link")
    BY DEF TaskCompleted
  <2> HIDE DEF res
  <2> QED
    BY <2>1, <2>2, <2>3, <2>4, <2>5, <2>6
<1>4. OutcomeInv'
  BY DEF RefInv, OutcomeInv
<1> QED
  BY <1>1, <1>3, <1>4 DEF RefInv, Refines

\* The actions of the client.
LEMMA ClientRef ==
  ASSUME RefInv, NEW c \in Clients, ClientStep(c) \/ ResponseFileFails(c) PROVE Refines
<1>1. CASE OpenPipe(c)
  <2>1. cl[c] # "end" /\ UNCHANGED <<results, toCli, toMgr>>
    BY <1>1 DEF OpenPipe, mgrVars
  <2>2. PromisesInv' /\ RequestsInv'
    BY <2>1, PromisesKept DEF RefInv, RequestsInv
  <2>3. FallsBack(c) \/ (cl' = [cl EXCEPT ![c] = "send"] /\ UNCHANGED outcome)
    BY <1>1 DEF OpenPipe
  <2> QED
    BY <2>1, <2>2, <2>3, GivesUpRef, GoesOnRef
<1>2. CASE SendRequest(c)
  <2>1. cl[c] # "end" /\ UNCHANGED <<results, toCli>> /\ Replies(c, [op |-> "request"])
    BY <1>2 DEF SendRequest, mgrVars
  <2>2. PromisesInv' /\ [op |-> "request"] \in ToManager
    BY <2>1, PromisesKept DEF RefInv, ToManager
  <2> QED
    BY <2>1, <2>2, RepliesRef
<1>3. CASE ProcessEnds(c)
  <2>1. cl[c] # "end" /\ UNCHANGED <<results, toCli>>
    BY <1>3 DEF ProcessEnds, mgrVars
  <2>2. PICK r \in Codes : Replies(c, [op |-> "output", code |-> r])
    BY <1>3 DEF ProcessEnds
  <2>3. PromisesInv' /\ [op |-> "output", code |-> r] \in ToManager
    BY <2>1, PromisesKept DEF RefInv, ToManager
  <2> QED
    BY <2>1, <2>2, <2>3, RepliesRef
<1>4. CASE ReadFails(c) \/ ResponseFileFails(c)
  <2>1. cl[c] # "end" /\ UNCHANGED <<results, toCli, toMgr>> /\ FallsBack(c)
    BY <1>4 DEF ReadFails, ResponseFileFails, mgrVars
  <2>2. PromisesInv'
    BY <2>1, PromisesKept DEF RefInv
  <2> QED
    BY <2>1, <2>2, GivesUpRef
<1>5. CASE Receive(c)
  <2> DEFINE m == Head(toCli[c])
  <2>1. /\ cl[c] # "end" /\ toCli[c] # <<>> /\ UNCHANGED results
        /\ toCli' = [toCli EXCEPT ![c] = Tail(@)]
    BY <1>5 DEF Receive, mgrVars
  <2>2. PromisesInv'
    BY <2>1, PromisesTaken DEF RefInv
  <2>3. m \in ToClient /\ Promised(c, results[c], m)
    <3>1. toCli[c] \in Seq(ToClient)
      BY DEF RefInv, PromisesInv
    <3>2. m \in ToClient /\ 1 \in 1..Len(toCli[c]) /\ m = toCli[c][1]
      BY <2>1, <3>1, TakeFirst
    <3> QED
      BY <3>2 DEF RefInv, PromisesInv
  <2>4. ASSUME NEW how, NEW code \in AllCodes, Ends(c, how, code), Allowed(c, how, code), UNCHANGED toMgr
        PROVE  Refines
    <3>1. OutcomeInv' /\ Cmd!CommandNext
      BY <2>1, <2>4, EndsRef DEF RefInv
    <3>2. ResultsInv' /\ RequestsInv'
      BY <2>1, <2>4 DEF RefInv, ResultsInv, RequestsInv
    <3> QED
      BY <3>1, <3>2, <2>2 DEF RefInv, Refines
  <2>5. CASE m.op = "run_locally"
    <3>1. UNCHANGED toMgr /\ \E r \in AllCodes : Ends(c, "local", r)
      BY <1>5, <2>5 DEF Receive, RunsItself, AllCodes
    <3>2. \A r : Allowed(c, "local", r)
      BY DEF Allowed, Cmd!Elsewhere
    <3> QED
      BY <3>1, <3>2, <2>4
  <2>6. CASE m.op = "execute_and_exit"
    <3>1. UNCHANGED toMgr /\ \E r \in AllCodes : Ends(c, m.why, r)
      BY <1>5, <2>6 DEF Receive, RunsItself, AllCodes
    <3>2. m.why \in {"pch", "link"}
      BY <2>3, <2>6 DEF ToClient
    <3>3. \A r : Allowed(c, m.why, r)
      BY <2>3, <2>6, <3>2 DEF Allowed, Promised, Cmd!Elsewhere
    <3> QED
      BY <3>1, <3>3, <2>4
  <2>7. CASE m.op = "execute_get_output"
    <3>1. UNCHANGED toMgr /\ (FallsBack(c) \/ (cl' = [cl EXCEPT ![c] = "execute"] /\ UNCHANGED outcome))
      BY <1>5, <2>7 DEF Receive
    <3>2. RequestsInv'
      BY <3>1 DEF RefInv, RequestsInv
    <3> QED
      BY <3>1, <3>2, <2>1, <2>2, GivesUpRef, GoesOnRef
  <2>8. CASE m.op = "exit"
    <3>1. UNCHANGED toMgr /\ Ends(c, m.why, Decode(m.code))
      BY <1>5, <2>8 DEF Receive
    <3>2. PICK w \in {"exit", "unusable"}, k \in AllCodes :
            m = [op |-> "exit", why |-> w, code |-> Encode(k)]
      BY <2>3, <2>8 DEF ToClient
    <3>3. Decode(m.code) = k
      BY <3>2, CodesInRange, DecodeEncode
    <3>4. Allowed(c, m.why, k)
      BY <2>3, <3>2, <3>3 DEF Allowed, Promised, Cmd!Elsewhere
    <3> QED
      BY <3>1, <3>3, <3>4, <2>4
  <2>9. CASE m.op = "locate_files"
    <3>1. Replies(c, [op |-> "files"]) /\ [op |-> "files"] \in ToManager
      BY <1>5, <2>9 DEF Receive, ToManager
    <3> QED
      BY <3>1, <2>1, <2>2, RepliesRef
  <2>10. m.op \in {"run_locally", "execute_and_exit", "execute_get_output", "exit", "locate_files"}
    BY <2>3 DEF ToClient
  <2> QED
    BY <2>5, <2>6, <2>7, <2>8, <2>9, <2>10
<1> QED
  BY <1>1, <1>2, <1>3, <1>4, <1>5 DEF ClientStep

\* New tasks send nothing, and their absence the request to run locally.
LEMMA CreateTasksSends ==
  ASSUME NEW c, NEW next, CreateTasks(c, next)
  PROVE  Sent(c, [op |-> "run_locally"])
BY SendsSent DEF CreateTasks, do_run_locally, Sent

\* The handlers of the manager.
LEMMA ManagerRef ==
  ASSUME RefInv, NEW c \in Clients, ManagerStep(c) PROVE Refines
<1>1. ASSUME NEW msg \in {[op |-> "run_locally"], [op |-> "execute_get_output"],
                          [op |-> "locate_files"], [op |-> "execute_and_exit", why |-> "pch"]},
             Sent(c, msg), RequestsInv', UNCHANGED <<results, outcome, cl>>
      PROVE  Refines
  <2>1. msg \in ToClient /\ Promised(c, results[c], msg)
    BY DEF ToClient, Promised
  <2> QED
    BY <1>1, <2>1, TellsRef
<1>2. ASSUME NEW state, NEW op, Message(c, state, op)
      PROVE  RequestsInv' /\ Head(toMgr[c]) \in ToManager /\ Head(toMgr[c]).op = op
  BY <1>2, RequestTaken DEF Message, RefInv
<1>3. CASE HandleNewClient(c)
  <2>1. RequestsInv' /\ UNCHANGED <<results, outcome, cl>>
    BY <1>2, <1>3 DEF HandleNewClient, clientVars
  <2>2. \/ do_run_locally(c) \/ do_execute_and_exit(c, "pch") \/ do_execute_get_output(c)
        \/ CreateTasks(c, "ready")
    BY <1>3 DEF HandleNewClient
  <2>3. \/ Sent(c, [op |-> "run_locally"]) \/ Sent(c, [op |-> "execute_and_exit", why |-> "pch"])
        \/ Sent(c, [op |-> "execute_get_output"])
    BY <2>2, CreateTasksSends, SendsSent DEF do_run_locally, do_execute_and_exit, do_execute_get_output
  <2> QED
    BY <2>1, <2>3, <1>1
<1>4. CASE GotCompilerInfo(c)
  <2> DEFINE r == Head(toMgr[c]).code
  <2>1. RequestsInv' /\ UNCHANGED <<results, outcome, cl>> /\ r \in AllCodes
    BY <1>2, <1>4 DEF GotCompilerInfo, clientVars, ToManager, AllCodes
  <2>2. do_exit(c, "unusable", r) \/ do_run_locally(c) \/ do_locate_files(c)
    BY <1>4 DEF GotCompilerInfo
  <2>3. CASE do_exit(c, "unusable", r)
    <3> DEFINE msg == [op |-> "exit", why |-> "unusable", code |-> Encode(r)]
    <3>1. msg \in ToClient /\ Promised(c, results[c], msg)
      BY <2>1 DEF ToClient, Promised
    <3>2. Sent(c, msg)
      BY <2>3, SendsSent DEF do_exit
    <3> QED
      BY <3>1, <3>2, <2>1, TellsRef
  <2>4. CASE do_run_locally(c) \/ do_locate_files(c)
    <3>1. Sent(c, [op |-> "run_locally"]) \/ Sent(c, [op |-> "locate_files"])
      BY <2>4, SendsSent DEF do_run_locally, do_locate_files
    <3> QED
      BY <3>1, <2>1, <1>1
  <2> QED
    BY <2>2, <2>3, <2>4
<1>5. CASE GotFiles(c)
  <2>1. RequestsInv' /\ UNCHANGED <<results, outcome, cl>>
    BY <1>2, <1>5 DEF GotFiles, clientVars
  <2>2. Sent(c, [op |-> "run_locally"])
    BY <1>5, CreateTasksSends DEF GotFiles
  <2> QED
    BY <2>1, <2>2, <1>1
<1>6. CASE ClientReady(c)
  <2>1. UNCHANGED <<results, outcome, cl, toCli, toMgr>>
    BY <1>6 DEF ClientReady, clientVars, wireVars
  <2> QED
    BY <2>1, SilentRef DEF RefInv, RequestsInv
<1>7. CASE TaskDone(c)
  <2>1. RequestsInv' /\ UNCHANGED <<outcome, cl>> /\ Head(toMgr[c]).code \in AllCodes
    BY <1>2, <1>7 DEF TaskDone, clientVars, ToManager, AllCodes
  <2>2. UNCHANGED <<results, toCli>> \/ TaskCompleted(c, cur[c], Head(toMgr[c]).code)
    BY <1>7 DEF TaskDone
  <2> QED
    BY <2>1, <2>2, SilentRef, CompletedRef
<1> QED
  BY <1>3, <1>4, <1>5, <1>6, <1>7 DEF ManagerStep

\* The steps of a task.
LEMMA TaskRef ==
  ASSUME RefInv, NEW c \in Clients, NEW t \in Tasks[c], TaskStep(c, t) \/ ScanFails(c, t)
  PROVE  Refines
<1>1. CASE Preprocessed(c, t) \/ ReadReady(c, t)
  <2>1. UNCHANGED <<results, outcome, cl, toCli, toMgr>>
    BY <1>1 DEF Preprocessed, ReadReady, clientVars, wireVars
  <2> QED
    BY <2>1, SilentRef DEF RefInv, RequestsInv
<1>2. CASE RemoteDone(c, t) \/ ScanFails(c, t)
  <2>1. UNCHANGED <<outcome, cl, toMgr>>
    BY <1>2 DEF RemoteDone, ScanFails, clientVars
  <2>2. \E r \in AllCodes : TaskCompleted(c, t, r)
    BY <1>2 DEF RemoteDone, ScanFails, AllCodes
  <2>3. RequestsInv'
    BY <2>1 DEF RefInv, RequestsInv
  <2> QED
    BY <2>1, <2>2, <2>3, CompletedRef
<1>3. CASE CompileOnClient(c, t)
  <2> DEFINE msg == [op |-> "execute_get_output"]
  <2>1. UNCHANGED <<results, outcome, cl, toMgr>> /\ Sent(c, msg)
    BY <1>3, SendsSent DEF CompileOnClient, clientVars, do_execute_get_output
  <2>2. msg \in ToClient /\ Promised(c, results[c], msg) /\ RequestsInv'
    BY <2>1 DEF ToClient, Promised, RefInv, RequestsInv
  <2> QED
    BY <2>1, <2>2, TellsRef
<1> QED
  BY <1>1, <1>2, <1>3 DEF TaskStep

\* Every step of client and manager is a step of Command or none.
LEMMA StepRef == ASSUME RefInv, [Next]_vars PROVE Refines
<1>1. CASE Accept \/ ManagerStops \/ UNCHANGED vars
  <2>1. UNCHANGED <<results, outcome, cl, toCli, toMgr>>
    BY <1>1 DEF Accept, ManagerStops, vars, clientVars, wireVars, mgrVars
  <2> QED
    BY <2>1, SilentRef DEF RefInv, RequestsInv
<1> QED
  BY <1>1, ClientRef, ManagerRef, TaskRef DEF Next

\* Client and manager together implement Command: a command ends at most once,
\* and with the codes of its files only when all of them are compiled
\* (distributedCompile in client.cpp, CommandProcessor.postprocess).
THEOREM ClientImplementsCommand == Spec => CommandSpec
<1>1. RefInv /\ [Next]_vars => RefInv' /\ [Cmd!CommandNext]_<<results, outcome>>
  BY StepRef DEF Refines
<1>2. Cmd!commandVars = <<results, outcome>>
  BY DEF Cmd!commandVars
<1> QED
  BY InitRef, <1>1, <1>2, PTL DEF Spec, CommandSpec, Cmd!CommandSpec, Cmd!commandVars

(***************************************************************************)
(* The form of the conversation.  Up to the list of files client and       *)
(* manager take turns, so that the message under way is determined by the  *)
(* places of the two ends (Turn); later the scanner's threads may send at  *)
(* any time, and all that is left is that a final message is the last one  *)
(* and that the manager hangs up behind it (Wire).                         *)
(***************************************************************************)
Early == {"new", "info", "files"}
NoFinal(s) == \A i \in 1..Len(s) : ~Final(s[i])
FinalLast(s) == \A i \in 1..Len(s) : Final(s[i]) => i = Len(s)

Wire(c) ==
  /\ pipe[c] = "none" <=> cl[c] = "open"
  /\ pipe[c] = "none" => toCli[c] = <<>>
  /\ pipe[c] = "up" => NoFinal(toCli[c])
  /\ pipe[c] = "closed" => toCli[c] # <<>> /\ Final(toCli[c][Len(toCli[c])])
  /\ FinalLast(toCli[c])

Silent(c) == toCli[c] = <<>> /\ toMgr[c] = <<>>
Asked(c, m) == cl[c] = "wait" /\ toCli[c] = <<m>> /\ toMgr[c] = <<>>
Answered(c, m) == cl[c] = "wait" /\ toCli[c] = <<>> /\ toMgr[c] = <<m>>
Turn(c) ==
  mgr[c] \in Early =>
    /\ \A t \in Tasks[c] : task[c][t] = "none"
    /\ up /\ cl[c] # "end" =>
         /\ pipe[c] \in {"none", "up"}
         /\ \/ mgr[c] = "new" /\ cl[c] \in {"open", "send"} /\ Silent(c)
            \/ mgr[c] = "new" /\ Answered(c, [op |-> "request"])
            \/ mgr[c] = "info" /\ Asked(c, [op |-> "execute_get_output"])
            \/ mgr[c] = "info" /\ cl[c] = "execute" /\ Silent(c)
            \/ mgr[c] = "info" /\ \E r \in Codes : Answered(c, [op |-> "output", code |-> r])
            \/ mgr[c] = "files" /\ Asked(c, [op |-> "locate_files"])
            \/ mgr[c] = "files" /\ Answered(c, [op |-> "files"])

ShapesInv ==
  /\ pipe \in [Clients -> {"none", "up", "closed", "down"}]
  /\ mgr \in [Clients -> Early \cup {"creating", "ready", "over", "raised"}]
  /\ task = [c \in Clients |-> task[c]]
  /\ \A c \in Clients : task[c] = [t \in Tasks[c] |-> task[c][t]]
  /\ cur = [c \in Clients |-> cur[c]]
  /\ \A c \in Clients : cur[c] \in Tasks[c] \cup {NoTask}
ConvInv == ShapesInv /\ \A c \in Clients : Wire(c) /\ Turn(c)

\* Taking the first message keeps the form of the ones behind it.
LEMMA TailForm ==
  ASSUME NEW s \in Seq(ToClient), s # <<>>
  PROVE  /\ NoFinal(s) => NoFinal(Tail(s)) /\ ~Final(Head(s))
         /\ FinalLast(s) => FinalLast(Tail(s))
         /\ FinalLast(s) /\ Final(s[Len(s)]) /\ ~Final(Head(s)) =>
              Tail(s) # <<>> /\ Final(Tail(s)[Len(Tail(s))])
<1> DEFINE rest == Tail(s)
<1>1. /\ Len(s) \in Nat /\ 1 \in 1..Len(s) /\ Head(s) = s[1] /\ Len(rest) = Len(s) - 1
      /\ \A i \in 1..Len(rest) : i + 1 \in 1..Len(s) /\ rest[i] = s[i + 1]
  BY TakeFirst
<1> HIDE DEF rest
<1>0. rest = <<>> => Len(rest) = 0
  OBVIOUS
<1>2. NoFinal(s) => NoFinal(rest) /\ ~Final(Head(s))
  BY <1>1 DEF NoFinal
<1>3. FinalLast(s) => FinalLast(rest)
  <2> SUFFICES ASSUME FinalLast(s), NEW i \in 1..Len(rest), Final(rest[i]) PROVE i = Len(rest)
    BY DEF FinalLast
  <2>1. i + 1 \in 1..Len(s) /\ Final(s[i + 1])
    BY <1>1
  <2>2. i + 1 = Len(s)
    BY <2>1 DEF FinalLast
  <2> QED
    BY <1>1, <2>2
<1>4. ASSUME Final(s[Len(s)]), ~Final(Head(s)) PROVE rest # <<>> /\ Final(rest[Len(rest)])
  <2>1. Len(s) # 1
    BY <1>1, <1>4
  <2>2. Len(rest) \in 1..Len(rest) /\ Len(rest) + 1 = Len(s) /\ Len(rest) # 0
    BY <1>1, <2>1
  <2>3. rest[Len(rest)] = s[Len(s)]
    BY <1>1, <2>2
  <2> QED
    BY <1>0, <1>4, <2>2, <2>3
<1> QED
  BY <1>2, <1>3, <1>4 DEF rest

\* A message is appended only where none of those before it is final.
LEMMA AppendForm ==
  ASSUME NEW s \in Seq(ToClient), NEW m \in ToClient, NoFinal(s)
  PROVE  /\ ~Final(m) => NoFinal(Append(s, m))
         /\ FinalLast(Append(s, m))
         /\ Append(s, m) # <<>> /\ Append(s, m)[Len(Append(s, m))] = m
<1>1. /\ Len(s) \in Nat /\ Len(Append(s, m)) = Len(s) + 1
      /\ Append(s, m)[Len(s) + 1] = m
      /\ \A i \in 1..Len(s) : Append(s, m)[i] = s[i]
  OBVIOUS
<1>2. \A i \in 1..Len(Append(s, m)) : i \in 1..Len(s) \/ i = Len(s) + 1
  BY <1>1
<1>3. \A i \in 1..Len(s) : ~Final(Append(s, m)[i])
  BY <1>1 DEF NoFinal
<1>4. ~Final(m) => NoFinal(Append(s, m))
  BY <1>1, <1>2, <1>3 DEF NoFinal
<1>5. FinalLast(Append(s, m))
  BY <1>1, <1>2, <1>3 DEF FinalLast
<1>6. Append(s, m) # <<>>
  BY <1>1
<1> QED
  BY <1>1, <1>4, <1>5, <1>6

\* What a step leaves alone of the other conversations.
Others(c) ==
  /\ UNCHANGED up
  /\ \A d \in Clients \ {c} :
       /\ cl'[d] = cl[d] /\ pipe'[d] = pipe[d] /\ mgr'[d] = mgr[d] /\ task'[d] = task[d]
       /\ toCli'[d] = toCli[d] /\ toMgr'[d] = toMgr[d]

\* A step of one conversation.
LEMMA LocalStep ==
  ASSUME ConvInv, NEW c \in Clients, Others(c), ShapesInv', Wire(c)', Turn(c)'
  PROVE  ConvInv'
<1>1. ASSUME NEW d \in Clients, d # c PROVE Wire(d)' /\ Turn(d)'
  <2>1. Wire(d) /\ Turn(d)
    BY DEF ConvInv
  <2>2. /\ cl'[d] = cl[d] /\ pipe'[d] = pipe[d] /\ mgr'[d] = mgr[d] /\ task'[d] = task[d]
        /\ toCli'[d] = toCli[d] /\ toMgr'[d] = toMgr[d] /\ up' = up
    BY <1>1 DEF Others
  <2>3. Wire(d)'
    BY <2>1, <2>2 DEF Wire
  <2>4. Turn(d)'
    BY <2>1, <2>2 DEF Turn, Silent, Asked, Answered
  <2> QED
    BY <2>3, <2>4
<1> QED
  BY <1>1 DEF ConvInv

\* The client ends, with the message it acts on taken or none.
LEMMA EndsConv ==
  ASSUME RefInv, ConvInv, NEW c \in Clients, NEW how, NEW code, Ends(c, how, code),
         toCli' = toCli \/ (toCli[c] # <<>> /\ toCli' = [toCli EXCEPT ![c] = Tail(@)]),
         UNCHANGED <<toMgr, mgrVars, up>>
  PROVE  ConvInv'
<1>1. /\ toCli \in [Clients -> Seq(ToClient)] /\ cl' = [cl EXCEPT ![c] = "end"]
      /\ cl \in [Clients -> {"open", "send", "wait", "execute", "end"}]
      /\ pipe' = [pipe EXCEPT ![c] = "down"] /\ pipe \in [Clients -> {"none", "up", "closed", "down"}]
  BY DEF RefInv, PromisesInv, OutcomeInv, Ends, ConvInv, ShapesInv
<1>2. UNCHANGED <<mgr, task, cur, up>>
  BY DEF mgrVars
<1>3. ShapesInv'
  BY <1>1, <1>2 DEF ConvInv, ShapesInv
<1>4. Others(c)
  BY <1>1, <1>2 DEF Others
<1>5. FinalLast(toCli'[c])
  <2>1. FinalLast(toCli[c])
    BY DEF ConvInv, Wire
  <2>2. toCli'[c] = toCli[c] \/ (toCli[c] # <<>> /\ toCli'[c] = Tail(toCli[c]))
    BY <1>1
  <2> QED
    BY <1>1, <2>1, <2>2, TailForm
<1>6. Wire(c)'
  BY <1>1, <1>5 DEF Wire
<1>7. Turn(c)'
  BY <1>1, <1>2 DEF ConvInv, Turn
<1> QED
  BY <1>3, <1>4, <1>6, <1>7, LocalStep

LEMMA FallsBackConv ==
  ASSUME RefInv, ConvInv, NEW c \in Clients, FallsBack(c),
         toCli' = toCli \/ (toCli[c] # <<>> /\ toCli' = [toCli EXCEPT ![c] = Tail(@)]),
         UNCHANGED <<toMgr, mgrVars, up>>
  PROVE  ConvInv'
<1>1. \E how, code : Ends(c, how, code)
  BY DEF FallsBack
<1> QED
  BY <1>1, EndsConv

\* A single message under way.
LEMMA OneMessage ==
  ASSUME NEW m PROVE Append(<<>>, m) = <<m>> /\ Tail(<<m>>) = <<>> /\ Head(<<m>>) = m /\ <<m>> # <<>>
OBVIOUS

\* The client is asked for something only while the connection is up or the
\* manager gone, so that a reply finds the manager waiting.
LEMMA RepliesConv ==
  ASSUME RefInv, ConvInv, NEW c \in Clients, cl[c] \notin {"open", "end"}, NEW msg, Replies(c, msg),
         \/ UNCHANGED toCli
         \/ toCli[c] # <<>> /\ ~Final(Head(toCli[c])) /\ toCli' = [toCli EXCEPT ![c] = Tail(@)],
         UNCHANGED <<mgrVars, up>>,
         mgr[c] \in Early /\ up => Answered(c, msg)' /\
           \/ mgr[c] = "new" /\ msg = [op |-> "request"]
           \/ mgr[c] = "info" /\ \E r \in Codes : msg = [op |-> "output", code |-> r]
           \/ mgr[c] = "files" /\ msg = [op |-> "files"]
  PROVE  ConvInv'
<1>1. CASE ~Alive(c)
  <2>1. FallsBack(c) /\ UNCHANGED toMgr
    BY <1>1 DEF Replies
  <2> QED
    BY <2>1, FallsBackConv
<1>2. CASE Alive(c)
  <2>1. /\ toCli \in [Clients -> Seq(ToClient)] /\ toMgr \in [Clients -> Seq(ToManager)]
        /\ cl \in [Clients -> {"open", "send", "wait", "execute", "end"}]
        /\ toMgr' = [toMgr EXCEPT ![c] = Append(@, msg)] /\ cl' = [cl EXCEPT ![c] = "wait"]
        /\ UNCHANGED pipe /\ pipe[c] = "up"
    BY <1>2 DEF RefInv, PromisesInv, OutcomeInv, RequestsInv, Replies, Alive
  <2>2. UNCHANGED <<mgr, task, cur, up>>
    BY DEF mgrVars
  <2>3. ShapesInv'
    BY <2>1, <2>2 DEF ConvInv, ShapesInv
  <2>4. Others(c)
    BY <2>1, <2>2 DEF Others
  <2>5. NoFinal(toCli'[c]) /\ FinalLast(toCli'[c])
    <3>1. NoFinal(toCli[c])
      BY <2>1 DEF ConvInv, Wire
    <3>2. NoFinal(toCli'[c])
      BY <2>1, <3>1, TailForm
    <3> QED
      BY <3>2 DEF NoFinal, FinalLast
  <2>6. Wire(c)'
    BY <2>1, <2>5 DEF Wire
  <2>7. Turn(c)'
    BY <2>1, <2>2 DEF ConvInv, Turn
  <2> QED
    BY <2>3, <2>4, <2>6, <2>7, LocalStep
<1> QED
  BY <1>1, <1>2

\* The actions of the client.
LEMMA ClientConv ==
  ASSUME RefInv, ConvInv, NEW c \in Clients, ClientStep(c) \/ ResponseFileFails(c) PROVE ConvInv'
<1>1. /\ Turn(c) /\ Wire(c)
      /\ toCli[c] \in Seq(ToClient)
      /\ toCli \in [Clients -> Seq(ToClient)] /\ toMgr \in [Clients -> Seq(ToManager)]
      /\ cl \in [Clients -> {"open", "send", "wait", "execute", "end"}]
      /\ pipe \in [Clients -> {"none", "up", "closed", "down"}]
  BY DEF ConvInv, ShapesInv, RefInv, PromisesInv, RequestsInv, OutcomeInv
<1>2. CASE OpenPipe(c)
  <2>1. cl[c] = "open" /\ UNCHANGED <<toCli, toMgr, mgrVars, up>>
    BY <1>2 DEF OpenPipe
  <2>2. CASE FallsBack(c)
    BY <2>1, <2>2, FallsBackConv
  <2>3. CASE up /\ pipe' = [pipe EXCEPT ![c] = "up"] /\ cl' = [cl EXCEPT ![c] = "send"]
    <3>1. UNCHANGED <<mgr, task, cur>>
      BY <2>1 DEF mgrVars
    <3>2. ShapesInv' /\ Others(c)
      BY <1>1, <2>1, <2>3, <3>1 DEF ConvInv, ShapesInv, Others
    <3>3. toCli[c] = <<>>
      BY <1>1, <2>1 DEF Wire
    <3>4. NoFinal(toCli'[c]) /\ FinalLast(toCli'[c])
      BY <2>1, <3>3 DEF NoFinal, FinalLast
    <3>5. Wire(c)'
      BY <1>1, <2>1, <2>3, <3>4 DEF Wire
    <3>6. Turn(c)'
      BY <1>1, <2>1, <2>3, <3>1 DEF Turn, Silent, Asked, Answered
    <3> QED
      BY <3>2, <3>5, <3>6, LocalStep
  <2> QED
    BY <1>2, <2>2, <2>3 DEF OpenPipe
<1>3. CASE SendRequest(c)
  <2>1. cl[c] = "send" /\ Replies(c, [op |-> "request"]) /\ UNCHANGED <<toCli, mgrVars, up>>
    BY <1>3 DEF SendRequest
  <2>2. mgr[c] \in Early /\ up => mgr[c] = "new" /\ Silent(c) /\ pipe[c] = "up"
    BY <1>1, <2>1 DEF Turn, Wire, Asked, Answered
  <2>3. CASE Alive(c)
    <3>1. toMgr' = [toMgr EXCEPT ![c] = Append(@, [op |-> "request"])] /\ cl' = [cl EXCEPT ![c] = "wait"]
      BY <2>1, <2>3 DEF Replies
    <3>2. mgr[c] \in Early /\ up => Answered(c, [op |-> "request"])'
      BY <1>1, <2>1, <2>2, <3>1, OneMessage DEF Silent, Answered
    <3> QED
      BY <2>1, <2>2, <3>2, RepliesConv
  <2>4. CASE ~Alive(c)
    BY <2>1, <2>4, FallsBackConv DEF Replies
  <2> QED
    BY <2>3, <2>4
<1>4. CASE ProcessEnds(c)
  <2>1. cl[c] = "execute" /\ UNCHANGED <<toCli, mgrVars, up>>
    BY <1>4 DEF ProcessEnds
  <2>2. PICK r \in Codes : Replies(c, [op |-> "output", code |-> r])
    BY <1>4 DEF ProcessEnds
  <2> DEFINE msg == [op |-> "output", code |-> r]
  <2>3. mgr[c] \in Early /\ up => mgr[c] = "info" /\ Silent(c)
    BY <1>1, <2>1 DEF Turn, Asked, Answered
  <2>4. CASE Alive(c)
    <3>1. toMgr' = [toMgr EXCEPT ![c] = Append(@, msg)] /\ cl' = [cl EXCEPT ![c] = "wait"]
      BY <2>2, <2>4 DEF Replies
    <3>2. mgr[c] \in Early /\ up => Answered(c, msg)'
      BY <1>1, <2>1, <2>3, <3>1, OneMessage DEF Silent, Answered
    <3> QED
      BY <2>1, <2>2, <2>3, <3>2, RepliesConv
  <2>5. CASE ~Alive(c)
    BY <2>1, <2>2, <2>5, FallsBackConv DEF Replies
  <2> QED
    BY <2>4, <2>5
<1>5. CASE ReadFails(c) \/ ResponseFileFails(c)
  BY <1>5, FallsBackConv DEF ReadFails, ResponseFileFails
<1>6. CASE Receive(c)
  <2> DEFINE m == Head(toCli[c])
  <2>1. /\ cl[c] = "wait" /\ toCli[c] # <<>> /\ UNCHANGED <<mgrVars, up>>
        /\ toCli' = [toCli EXCEPT ![c] = Tail(@)]
    BY <1>6 DEF Receive
  <2>2. m \in ToClient
    BY <1>1, <2>1, TakeFirst
  <2>3. CASE Final(m)
    <3>1. UNCHANGED toMgr /\ \E how, code : Ends(c, how, code)
      BY <1>6, <2>3 DEF Receive, RunsItself, Final
    <3> QED
      BY <2>1, <3>1, EndsConv
  <2>4. CASE m.op = "locate_files"
    <3>1. Replies(c, [op |-> "files"]) /\ ~Final(m)
      BY <1>6, <2>4 DEF Receive, Final
    <3>2. mgr[c] \in Early /\ up => mgr[c] = "files" /\ toCli[c] = <<m>> /\ toMgr[c] = <<>>
      <4>1. ASSUME NEW x, toCli[c] = <<x>> PROVE m = x
        BY <4>1
      <4> QED
        BY <1>1, <2>1, <2>4, <4>1 DEF Turn, Silent, Asked, Answered
    <3>3. CASE Alive(c)
      <4>1. toMgr' = [toMgr EXCEPT ![c] = Append(@, [op |-> "files"])] /\ cl' = [cl EXCEPT ![c] = "wait"]
        BY <3>1, <3>3 DEF Replies
      <4>2. mgr[c] \in Early /\ up => toCli'[c] = <<>> /\ toMgr'[c] = <<[op |-> "files"]>>
        BY <1>1, <2>1, <3>2, <4>1, OneMessage
      <4>3. mgr[c] \in Early /\ up => Answered(c, [op |-> "files"])'
        BY <1>1, <4>1, <4>2 DEF Answered
      <4> QED
        BY <2>1, <3>1, <3>2, <4>3, RepliesConv
    <3>4. CASE ~Alive(c)
      BY <2>1, <3>1, <3>4, FallsBackConv DEF Replies
    <3> QED
      BY <3>3, <3>4
  <2>5. CASE m.op = "execute_get_output"
    <3>1. UNCHANGED toMgr /\ (FallsBack(c) \/ (cl' = [cl EXCEPT ![c] = "execute"] /\ UNCHANGED pipe))
      BY <1>6, <2>5 DEF Receive
    <3>2. CASE FallsBack(c)
      BY <2>1, <3>1, <3>2, FallsBackConv
    <3>3. CASE cl' = [cl EXCEPT ![c] = "execute"] /\ UNCHANGED pipe
      <4>1. UNCHANGED <<mgr, task, cur, up>> /\ ~Final(m)
        BY <2>1, <2>5 DEF mgrVars, Final
      <4>2. ShapesInv' /\ Others(c)
        BY <1>1, <2>1, <3>1, <3>3, <4>1 DEF ConvInv, ShapesInv, Others
      <4>3. toCli'[c] = Tail(toCli[c])
        BY <1>1, <2>1
      <4>4. Wire(c)'
        BY <1>1, <2>1, <3>3, <4>1, <4>3, TailForm DEF Wire
      <4>5. mgr[c] \in Early /\ up =>
              mgr[c] = "info" /\ toCli[c] = <<m>> /\ toMgr[c] = <<>> /\ pipe[c] \in {"none", "up"}
        <5>1. ASSUME NEW x, toCli[c] = <<x>> PROVE m = x
          BY <5>1
        <5> QED
          BY <1>1, <2>1, <2>5, <5>1 DEF Turn, Silent, Asked, Answered
      <4>6. mgr[c] \in Early /\ up => Silent(c)'
        BY <3>1, <4>3, <4>5, OneMessage DEF Silent
      <4>7. Turn(c)'
        BY <1>1, <3>1, <3>3, <4>1, <4>5, <4>6 DEF Turn
      <4> QED
        BY <4>2, <4>4, <4>7, LocalStep
    <3> QED
      BY <3>1, <3>2, <3>3
  <2> QED
    BY <2>2, <2>3, <2>4, <2>5 DEF ToClient, Final
<1> QED
  BY <1>2, <1>3, <1>4, <1>5, <1>6 DEF ClientStep

\* The manager says nothing, something, or a last word behind which it hangs up.
Told(c) ==
  \/ UNCHANGED <<toCli, pipe>>
  \/ \E m \in ToClient : (Sends(c, m) /\ ~Final(m)) \/ (SendsLast(c, m) /\ Final(m))

\* Whatever the manager sends, the form of the messages under way is kept.
LEMMA ToldWire ==
  ASSUME RefInv, ConvInv, NEW c \in Clients, Told(c), UNCHANGED cl
  PROVE  /\ Wire(c)' /\ pipe' \in [Clients -> {"none", "up", "closed", "down"}]
         /\ \A d \in Clients \ {c} : toCli'[d] = toCli[d] /\ pipe'[d] = pipe[d]
<1>1. /\ toCli \in [Clients -> Seq(ToClient)] /\ toCli[c] \in Seq(ToClient)
      /\ pipe \in [Clients -> {"none", "up", "closed", "down"}] /\ Wire(c)
  BY DEF ConvInv, ShapesInv, RefInv, PromisesInv
<1>2. CASE UNCHANGED <<toCli, pipe>>
  BY <1>1, <1>2 DEF Wire
<1>3. ASSUME NEW m \in ToClient, (Sends(c, m) /\ ~Final(m)) \/ (SendsLast(c, m) /\ Final(m))
      PROVE  /\ Wire(c)' /\ pipe' \in [Clients -> {"none", "up", "closed", "down"}]
             /\ \A d \in Clients \ {c} : toCli'[d] = toCli[d] /\ pipe'[d] = pipe[d]
  <2>1. CASE pipe[c] # "up"
    <3>1. UNCHANGED <<toCli, pipe>>
      BY <1>3, <2>1 DEF Sends, SendsLast
    <3> QED
      BY <1>2, <3>1
  <2>2. CASE pipe[c] = "up"
    <3>1. toCli' = [toCli EXCEPT ![c] = Append(@, m)] /\ NoFinal(toCli[c])
      BY <1>1, <1>3, <2>2 DEF Sends, SendsLast, Wire
    <3>2. toCli'[c] = Append(toCli[c], m)
      BY <1>1, <3>1
    <3>3. /\ ~Final(m) => NoFinal(toCli'[c])
          /\ FinalLast(toCli'[c])
          /\ toCli'[c] # <<>> /\ toCli'[c][Len(toCli'[c])] = m
      BY <1>1, <3>1, <3>2, AppendForm
    <3>4. (~Final(m) /\ UNCHANGED pipe) \/ (Final(m) /\ pipe' = [pipe EXCEPT ![c] = "closed"])
      BY <1>3, <2>2 DEF Sends, SendsLast
    <3>5. Wire(c)'
      <4>1. cl[c] # "open" /\ ((pipe'[c] = "up" /\ ~Final(m)) \/ (pipe'[c] = "closed" /\ Final(m)))
        BY <1>1, <2>2, <3>4 DEF Wire
      <4> QED
        BY <3>3, <4>1 DEF Wire
    <3> QED
      BY <1>1, <3>1, <3>4, <3>5
  <2> QED
    BY <2>1, <2>2
<1> QED
  BY <1>2, <1>3 DEF Told

\* The tasks of a command after a step.
NewTasks(c) == \E f : task' = [task EXCEPT ![c] = f] /\ f = [t \in Tasks[c] |-> f[t]]

\* A step of the manager or a thread behind the list of files.
LEMMA LateConv ==
  ASSUME RefInv, ConvInv, NEW c \in Clients, Told(c), UNCHANGED <<cl, up>>,
         UNCHANGED task \/ NewTasks(c),
         UNCHANGED cur \/ \E t \in Tasks[c] : cur' = [cur EXCEPT ![c] = t],
         UNCHANGED toMgr \/ \E q : toMgr' = [toMgr EXCEPT ![c] = q],
         UNCHANGED mgr \/ \E p \in {"creating", "ready", "over", "raised"} : mgr' = [mgr EXCEPT ![c] = p],
         mgr'[c] \notin Early
  PROVE  ConvInv'
<1>1. /\ Wire(c)' /\ pipe' \in [Clients -> {"none", "up", "closed", "down"}]
      /\ \A d \in Clients \ {c} : toCli'[d] = toCli[d] /\ pipe'[d] = pipe[d]
  BY ToldWire
<1>2. /\ task' = [d \in Clients |-> task'[d]]
      /\ \A d \in Clients : task'[d] = [t \in Tasks[d] |-> task'[d][t]]
      /\ \A d \in Clients \ {c} : task'[d] = task[d]
  <2>1. /\ task = [d \in Clients |-> task[d]]
        /\ \A d \in Clients : task[d] = [t \in Tasks[d] |-> task[d][t]]
    BY DEF ConvInv, ShapesInv
  <2>2. CASE UNCHANGED task
    BY <2>1, <2>2
  <2>3. CASE NewTasks(c)
    <3>1. PICK f : task' = [task EXCEPT ![c] = f] /\ f = [t \in Tasks[c] |-> f[t]]
      BY <2>3 DEF NewTasks
    <3>2. task'[c] = f /\ \A d \in Clients \ {c} : task'[d] = task[d]
      BY <2>1, <3>1
    <3>3. task' = [d \in Clients |-> task'[d]]
      BY <2>1, <3>1
    <3> QED
      BY <2>1, <3>1, <3>2, <3>3
  <2> QED
    BY <2>2, <2>3
<1>3. /\ cur' = [d \in Clients |-> cur'[d]]
      /\ \A d \in Clients : cur'[d] \in Tasks[d] \cup {NoTask}
  BY DEF ConvInv, ShapesInv
<1>4. /\ mgr' \in [Clients -> Early \cup {"creating", "ready", "over", "raised"}]
      /\ \A d \in Clients \ {c} : mgr'[d] = mgr[d]
  BY DEF ConvInv, ShapesInv
<1>5. \A d \in Clients \ {c} : toMgr'[d] = toMgr[d]
  BY DEF RefInv, RequestsInv
<1>6. ShapesInv'
  BY <1>1, <1>2, <1>3, <1>4 DEF ShapesInv
<1>7. Others(c)
  BY <1>1, <1>2, <1>4, <1>5 DEF Others
<1>8. Turn(c)'
  BY DEF Turn
<1> QED
  BY <1>1, <1>6, <1>7, <1>8, LocalStep

\* A task that moves on.
LEMMA TaskMoves ==
  ASSUME ConvInv, NEW c \in Clients, NEW t \in Tasks[c], NEW p, task' = [task EXCEPT ![c][t] = p]
  PROVE  NewTasks(c)
<1> DEFINE f == [task[c] EXCEPT ![t] = p]
<1>1. task[c] = [u \in Tasks[c] |-> task[c][u]]
  BY DEF ConvInv, ShapesInv
<1>2. f = [u \in Tasks[c] |-> f[u]]
  BY <1>1
<1>3. task' = [task EXCEPT ![c] = f]
  OBVIOUS
<1> QED
  BY <1>2, <1>3 DEF NewTasks

\* What the manager tells the client when a task is completed.
LEMMA CompletedTold ==
  ASSUME RefInv, NEW c \in Clients, NEW t, NEW r \in AllCodes, TaskCompleted(c, t, r)
  PROVE  Told(c)
<1> DEFINE res == With(results[c], t, r)
<1>1. Cmd!Errors(res) \subseteq AllCodes
  BY DEF RefInv, ResultsInv, Cmd!Errors, With
<1>2. 0 \in AllCodes
  BY ClientAssumption DEF AllCodes
<1>3. \/ UNCHANGED <<toCli, pipe>> \/ \E k \in AllCodes : do_exit(c, "exit", k)
      \/ do_execute_and_exit(c, "link")
  BY <1>1, <1>2 DEF TaskCompleted
<1>4. ASSUME NEW k \in AllCodes, do_exit(c, "exit", k) PROVE Told(c)
  <2> DEFINE m == [op |-> "exit", why |-> "exit", code |-> Encode(k)]
  <2>1. m \in ToClient /\ Final(m) /\ SendsLast(c, m)
    BY <1>4 DEF ToClient, Final, do_exit
  <2> QED
    BY <2>1 DEF Told
<1>5. ASSUME do_execute_and_exit(c, "link") PROVE Told(c)
  <2> DEFINE m == [op |-> "execute_and_exit", why |-> "link"]
  <2>1. m \in ToClient /\ Final(m) /\ SendsLast(c, m)
    BY <1>5 DEF ToClient, Final, do_execute_and_exit
  <2> QED
    BY <2>1 DEF Told
<1>6. ASSUME UNCHANGED <<toCli, pipe>> PROVE Told(c)
  BY <1>6 DEF Told
<1> QED
  BY <1>3, <1>4, <1>5, <1>6

\* The steps of a task: it exists, so the list of files has been received.
LEMMA TaskConv ==
  ASSUME RefInv, ConvInv, NEW c \in Clients, NEW t \in Tasks[c], TaskStep(c, t) \/ ScanFails(c, t)
  PROVE  ConvInv'
<1>1. Turn(c)
  BY DEF ConvInv
<1>2. task[c][t] # "none"
  BY DEF TaskStep, Preprocessed, RemoteDone, ReadReady, CompileOnClient, ScanFails
<1>3. mgr[c] \notin Early
  BY <1>1, <1>2 DEF Turn
<1>4. UNCHANGED <<cl, up, toMgr, mgr>>
  BY DEF TaskStep, Preprocessed, RemoteDone, ReadReady, CompileOnClient, ScanFails, clientVars, wireVars
<1>5. NewTasks(c)
  <2>1. \E p : task' = [task EXCEPT ![c][t] = p]
    BY DEF TaskStep, Preprocessed, RemoteDone, ReadReady, CompileOnClient, ScanFails, TaskCompleted
  <2> QED
    BY <2>1, TaskMoves
<1>6. UNCHANGED cur \/ \E u \in Tasks[c] : cur' = [cur EXCEPT ![c] = u]
  BY DEF TaskStep, Preprocessed, RemoteDone, ReadReady, CompileOnClient, ScanFails
<1>7. Told(c)
  <2>1. CASE Preprocessed(c, t) \/ ReadReady(c, t)
    BY <2>1 DEF Preprocessed, ReadReady, wireVars, Told
  <2>2. CASE RemoteDone(c, t) \/ ScanFails(c, t)
    <3>1. \E r \in AllCodes : TaskCompleted(c, t, r)
      BY <2>2 DEF RemoteDone, ScanFails, AllCodes
    <3> QED
      BY <3>1, CompletedTold
  <2>3. CASE CompileOnClient(c, t)
    <3> DEFINE m == [op |-> "execute_get_output"]
    <3>1. m \in ToClient /\ ~Final(m) /\ Sends(c, m)
      BY <2>3 DEF CompileOnClient, do_execute_get_output, ToClient, Final
    <3> QED
      BY <3>1 DEF Told
  <2> QED
    BY <2>1, <2>2, <2>3 DEF TaskStep
<1> QED
  BY <1>3, <1>4, <1>5, <1>6, <1>7, LateConv

\* The answer the manager waits for is the only message under way.
LEMMA AnswerIsAlone ==
  ASSUME RefInv, ConvInv, NEW c \in Clients, NEW state \in Early, NEW op, Message(c, state, op),
         cl[c] # "end"
  PROVE  toMgr'[c] = <<>> /\ toCli[c] = <<>> /\ cl[c] = "wait" /\ pipe[c] = "up"
<1>1. /\ Turn(c) /\ Wire(c) /\ mgr[c] \in Early /\ up /\ toMgr[c] # <<>>
      /\ pipe[c] \in {"none", "up", "closed", "down"}
  BY DEF ConvInv, ShapesInv, Message, LoopFree
<1>2. cl[c] = "wait" /\ toCli[c] = <<>> /\ (\E m : toMgr[c] = <<m>>) /\ pipe[c] \in {"none", "up"}
  BY <1>1 DEF Turn, Silent, Asked, Answered
<1>3. pipe[c] = "up"
  BY <1>1, <1>2 DEF Wire
<1>4. Tail(toMgr[c]) = <<>>
  BY <1>2, OneMessage
<1> QED
  BY <1>2, <1>3, <1>4 DEF Message, RefInv, RequestsInv

\* The manager asks the client for something and waits.
LEMMA AsksConv ==
  ASSUME RefInv, ConvInv, NEW c \in Clients, NEW state \in Early, NEW op, Message(c, state, op),
         NEW m \in ToClient, ~Final(m), Sends(c, m), NEW p \in Early, mgr' = [mgr EXCEPT ![c] = p],
         \/ p = "info" /\ m = [op |-> "execute_get_output"]
         \/ p = "files" /\ m = [op |-> "locate_files"],
         UNCHANGED <<cl, cur, task, up>>
  PROVE  ConvInv'
<1>1. /\ Wire(c)' /\ pipe' \in [Clients -> {"none", "up", "closed", "down"}]
      /\ \A d \in Clients \ {c} : toCli'[d] = toCli[d] /\ pipe'[d] = pipe[d]
  BY ToldWire DEF Told
<1>2. /\ toCli \in [Clients -> Seq(ToClient)] /\ mgr \in [Clients -> Early \cup {"creating", "ready", "over", "raised"}]
      /\ \A d \in Clients \ {c} : toMgr'[d] = toMgr[d]
      /\ Turn(c) /\ mgr[c] \in Early
  BY DEF ConvInv, ShapesInv, RefInv, RequestsInv, PromisesInv, Message
<1>3. ShapesInv'
  BY <1>1, <1>2 DEF ConvInv, ShapesInv
<1>4. Others(c)
  BY <1>1, <1>2 DEF Others
<1>5. ASSUME cl[c] # "end" PROVE Asked(c, m)' /\ pipe'[c] = "up"
  <2>1. toMgr'[c] = <<>> /\ toCli[c] = <<>> /\ cl[c] = "wait" /\ pipe[c] = "up"
    BY <1>5, AnswerIsAlone
  <2>2. toCli'[c] = <<m>> /\ UNCHANGED pipe
    BY <1>2, <2>1, OneMessage DEF Sends
  <2> QED
    BY <2>1, <2>2 DEF Asked
<1>6. Turn(c)'
  BY <1>2, <1>5 DEF Turn
<1> QED
  BY <1>1, <1>3, <1>4, <1>6, LocalStep

\* New tasks, or none.
LEMMA CreateTasksConv ==
  ASSUME RefInv, ConvInv, NEW c \in Clients, NEW next \in {"creating", "ready"}, CreateTasks(c, next)
  PROVE  /\ Told(c) /\ (UNCHANGED task \/ NewTasks(c))
         /\ \E p \in {"creating", "ready", "raised"} : mgr' = [mgr EXCEPT ![c] = p]
<1>1. [op |-> "run_locally"] \in ToClient /\ Final([op |-> "run_locally"])
  BY DEF ToClient, Final
<1>2. Told(c)
  BY <1>1 DEF CreateTasks, Told, do_run_locally
<1>3. UNCHANGED task \/ NewTasks(c)
  <2>1. CASE kind[c] \in {"compile", "link"}
    <3> DEFINE f == [t \in Tasks[c] |-> "scanning"]
    <3>1. task' = [task EXCEPT ![c] = f] /\ f = [t \in Tasks[c] |-> f[t]]
      BY <2>1 DEF CreateTasks
    <3> QED
      BY <3>1 DEF NewTasks
  <2> QED
    BY <2>1 DEF CreateTasks
<1>4. \E p \in {"creating", "ready", "raised"} : mgr' = [mgr EXCEPT ![c] = p]
  BY DEF CreateTasks
<1> QED
  BY <1>2, <1>3, <1>4

\* The handlers of the manager.
LEMMA ManagerConv ==
  ASSUME RefInv, ConvInv, NEW c \in Clients, ManagerStep(c) PROVE ConvInv'
<1> DEFINE Late == {"creating", "ready", "over", "raised"}
<1>1. /\ mgr \in [Clients -> Early \cup Late] /\ Late \cap Early = {}
      /\ \A r \in Codes : r \in AllCodes
  BY DEF ConvInv, ShapesInv, Early, AllCodes
<1>2. ASSUME Told(c), UNCHANGED <<cl, up, cur>>, UNCHANGED task \/ NewTasks(c),
             UNCHANGED toMgr \/ \E q : toMgr' = [toMgr EXCEPT ![c] = q],
             NEW p \in Late, mgr' = [mgr EXCEPT ![c] = p]
      PROVE  ConvInv'
  <2>1. mgr'[c] \notin Early
    BY <1>1, <1>2
  <2> QED
    BY <1>2, <2>1, LateConv
<1>3. ASSUME NEW m \in ToClient, Final(m), SendsLast(c, m) PROVE Told(c)
  BY <1>3 DEF Told
<1>4. CASE HandleNewClient(c)
  <2>1. /\ Message(c, "new", "request") /\ UNCHANGED <<cl, up, cur>> /\ "new" \in Early
        /\ \E q : toMgr' = [toMgr EXCEPT ![c] = q]
    BY <1>4 DEF HandleNewClient, Message, clientVars, Early
  <2>2. CASE kind[c] = "local"
    <3>1. [op |-> "run_locally"] \in ToClient /\ Final([op |-> "run_locally"])
      BY DEF ToClient, Final
    <3>2. Told(c) /\ UNCHANGED task /\ mgr' = [mgr EXCEPT ![c] = "over"]
      BY <1>3, <1>4, <2>2, <3>1 DEF HandleNewClient, do_run_locally
    <3> QED
      BY <1>2, <2>1, <3>2
  <2>3. CASE kind[c] = "pch"
    <3> DEFINE m == [op |-> "execute_and_exit", why |-> "pch"]
    <3>1. m \in ToClient /\ Final(m)
      BY DEF ToClient, Final
    <3>2. SendsLast(c, m) /\ UNCHANGED task /\ mgr' = [mgr EXCEPT ![c] = "over"]
      BY <1>4, <2>3 DEF HandleNewClient, do_execute_and_exit
    <3>3. Told(c)
      BY <1>3, <3>1, <3>2
    <3> QED
      BY <1>2, <2>1, <3>2, <3>3
  <2>4. CASE kind[c] \notin {"local", "pch"} /\ known
    <3>1. CreateTasks(c, "ready")
      BY <1>4, <2>4 DEF HandleNewClient
    <3> QED
      BY <1>2, <2>1, <3>1, CreateTasksConv
  <2>5. CASE kind[c] \notin {"local", "pch"} /\ ~known
    <3> DEFINE m == [op |-> "execute_get_output"]
    <3>1. m \in ToClient /\ ~Final(m) /\ "info" \in Early
      BY DEF ToClient, Final, Early
    <3>2. Sends(c, m) /\ UNCHANGED task /\ mgr' = [mgr EXCEPT ![c] = "info"]
      BY <1>4, <2>5 DEF HandleNewClient, do_execute_get_output
    <3> QED
      BY <2>1, <3>1, <3>2, AsksConv
  <2> QED
    BY <2>2, <2>3, <2>4, <2>5
<1>5. CASE GotCompilerInfo(c)
  <2> DEFINE r == Head(toMgr[c]).code
  <2>1. /\ Message(c, "info", "output") /\ UNCHANGED <<cl, up, cur, task>> /\ "info" \in Early
        /\ \E q : toMgr' = [toMgr EXCEPT ![c] = q]
    BY <1>5 DEF GotCompilerInfo, Message, clientVars, Early
  <2>2. r \in AllCodes
    <3>1. Head(toMgr[c]) \in ToManager /\ Head(toMgr[c]).op = "output"
      BY <2>1, RequestTaken DEF Message, RefInv
    <3> QED
      BY <1>1, <3>1 DEF ToManager
  <2>3. CASE do_exit(c, "unusable", r) /\ mgr' = [mgr EXCEPT ![c] = "over"]
    <3> DEFINE m == [op |-> "exit", why |-> "unusable", code |-> Encode(r)]
    <3>1. m \in ToClient /\ Final(m)
      BY <2>2 DEF ToClient, Final
    <3>2. Told(c)
      BY <1>3, <2>3, <3>1 DEF do_exit
    <3> QED
      BY <1>2, <2>1, <2>3, <3>2
  <2>4. CASE do_run_locally(c) /\ mgr' = [mgr EXCEPT ![c] = "over"]
    <3>1. [op |-> "run_locally"] \in ToClient /\ Final([op |-> "run_locally"])
      BY DEF ToClient, Final
    <3>2. Told(c)
      BY <1>3, <2>4, <3>1 DEF do_run_locally
    <3> QED
      BY <1>2, <2>1, <2>4, <3>2
  <2>5. CASE do_locate_files(c) /\ mgr' = [mgr EXCEPT ![c] = "files"]
    <3> DEFINE m == [op |-> "locate_files"]
    <3>1. m \in ToClient /\ ~Final(m) /\ "files" \in Early /\ Sends(c, m)
      BY <2>5 DEF ToClient, Final, Early, do_locate_files
    <3> QED
      BY <2>1, <2>5, <3>1, AsksConv
  <2> QED
    BY <1>5, <2>3, <2>4, <2>5 DEF GotCompilerInfo
<1>6. CASE GotFiles(c)
  <2>1. /\ UNCHANGED <<cl, up, cur>> /\ \E q : toMgr' = [toMgr EXCEPT ![c] = q]
        /\ CreateTasks(c, "creating")
    BY <1>6 DEF GotFiles, Message, clientVars
  <2> QED
    BY <1>2, <2>1, CreateTasksConv
<1>7. CASE ClientReady(c)
  <2>1. Told(c) /\ UNCHANGED <<cl, up, cur, task, toMgr>> /\ mgr' = [mgr EXCEPT ![c] = "ready"]
    BY <1>7 DEF ClientReady, clientVars, wireVars, Told
  <2> QED
    BY <1>2, <2>1
<1>8. CASE TaskDone(c)
  <2>1. /\ Message(c, "ready", "output") /\ UNCHANGED <<cl, up, cur>> /\ mgr[c] = "ready"
        /\ \E q : toMgr' = [toMgr EXCEPT ![c] = q]
    BY <1>8 DEF TaskDone, Message, clientVars
  <2>2. Head(toMgr[c]).code \in AllCodes
    <3>1. Head(toMgr[c]) \in ToManager /\ Head(toMgr[c]).op = "output"
      BY <2>1, RequestTaken DEF Message, RefInv
    <3> QED
      BY <1>1, <3>1 DEF ToManager
  <2>3. CASE cur[c] \notin Tasks[c] \ DOMAIN results[c]
    <3>1. Told(c) /\ UNCHANGED task /\ mgr' = [mgr EXCEPT ![c] = "raised"]
      BY <1>8, <2>3 DEF TaskDone, Told
    <3> QED
      BY <1>2, <2>1, <3>1
  <2>4. CASE cur[c] \in Tasks[c] \ DOMAIN results[c]
    <3>1. TaskCompleted(c, cur[c], Head(toMgr[c]).code) /\ UNCHANGED mgr
      BY <1>8, <2>4 DEF TaskDone
    <3>2. Told(c)
      BY <2>2, <3>1, CompletedTold
    <3>3. task' = [task EXCEPT ![c][cur[c]] = "done"]
      BY <3>1 DEF TaskCompleted
    <3>4. NewTasks(c)
      BY <2>4, <3>3, TaskMoves
    <3>5. mgr' = [mgr EXCEPT ![c] = "ready"]
      BY <1>1, <2>1, <3>1
    <3> QED
      BY <1>2, <2>1, <3>2, <3>4, <3>5
  <2> QED
    BY <2>3, <2>4
<1> QED
  BY <1>4, <1>5, <1>6, <1>7, <1>8 DEF ManagerStep

\* At the start everything is silent; the rest of the steps keep it so.
LEMMA InitConv == Init => ConvInv
<1> SUFFICES ASSUME Init PROVE ConvInv
  OBVIOUS
<1>1. ShapesInv
  BY DEF Init, ShapesInv, Early
<1>2. ASSUME NEW c \in Clients PROVE Wire(c) /\ Turn(c)
  BY DEF Init, Wire, Turn, Silent, NoFinal, FinalLast
<1> QED
  BY <1>1, <1>2 DEF ConvInv

LEMMA StepConv == ASSUME RefInv, ConvInv, [Next]_vars PROVE ConvInv'
<1>1. CASE Accept \/ UNCHANGED vars
  <2>1. UNCHANGED <<kind, cl, pipe, toCli, toMgr, mgr, task, cur, up>>
    BY <1>1 DEF Accept, vars, clientVars, wireVars, mgrVars
  <2>2. ShapesInv'
    BY <2>1 DEF ConvInv, ShapesInv
  <2>3. ASSUME NEW c \in Clients PROVE Wire(c)' /\ Turn(c)'
    BY <2>1 DEF ConvInv, Wire, Turn, Silent, Asked, Answered
  <2> QED
    BY <2>2, <2>3 DEF ConvInv
<1>2. CASE ManagerStops
  <2>1. /\ UNCHANGED <<cl, toCli, toMgr, mgr, task, cur>> /\ up' = FALSE
        /\ pipe' = [c \in Clients |-> IF pipe[c] = "none" THEN "none" ELSE "down"]
    BY <1>2 DEF ManagerStops, clientVars, mgrVars
  <2>2. ShapesInv'
    BY <2>1 DEF ConvInv, ShapesInv
  <2>3. ASSUME NEW c \in Clients PROVE Wire(c)' /\ Turn(c)'
    <3>1. Wire(c) /\ Turn(c)
      BY DEF ConvInv
    <3>2. Wire(c)'
      BY <2>1, <3>1 DEF Wire
    <3>3. Turn(c)'
      BY <2>1, <3>1 DEF Turn
    <3> QED
      BY <3>2, <3>3
  <2> QED
    BY <2>2, <2>3 DEF ConvInv
<1> QED
  BY <1>1, <1>2, ClientConv, ManagerConv, TaskConv DEF Next

\* The two invariants say what the conversation has to keep.
LEMMA ConvImplies == RefInv /\ ConvInv => ConversationInv
<1> SUFFICES ASSUME RefInv, ConvInv PROVE ConversationInv
  OBVIOUS
<1>1. TypeOK
  BY DEF RefInv, OutcomeInv, ResultsInv, ConvInv, ShapesInv, TypeOK, Early
<1>2. ASSUME NEW c \in Clients
      PROVE  /\ pipe[c] = "closed" => toCli[c] # <<>> /\ Final(toCli[c][Len(toCli[c])])
             /\ \A i \in 1..Len(toCli[c]) : Final(toCli[c][i]) => i = Len(toCli[c])
  BY DEF ConvInv, Wire, FinalLast
<1>3. ASSUME NEW c \in Clients, up, cl[c] # "end", mgr[c] \in {"info", "files"}
      PROVE  \/ toCli[c] # <<>> /\ cl[c] = "wait" /\ toMgr[c] = <<>>
             \/ cl[c] = "execute" /\ mgr[c] = "info" /\ toCli[c] = <<>> /\ toMgr[c] = <<>>
             \/ toMgr[c] # <<>> /\ cl[c] = "wait" /\ toCli[c] = <<>>
  <2>1. Turn(c) /\ mgr[c] \in Early
    BY <1>3 DEF ConvInv, Early
  <2> QED
    BY <1>3, <2>1, OneMessage DEF Turn, Silent, Asked, Answered
<1> QED
  BY <1>1, <1>2, <1>3 DEF ConversationInv, ClosedBehindAnswer, InTurn

\* Up to the list of files client and manager take turns, and the manager
\* hangs up only behind a final message that nothing follows, whatever the
\* scanner's threads send in between and whenever one of the two dies
\* (send_msg and close in ClientProcessor, the loop of distributedCompile).
THEOREM ConversationsKeepTheirForm == Spec => []ConversationInv
<1>1. RefInv /\ [Next]_vars => RefInv'
  BY StepRef DEF Refines
<1>2. RefInv /\ ConvInv /\ [Next]_vars => ConvInv'
  BY StepConv
<1> QED
  BY InitRef, InitConv, ConvImplies, <1>1, <1>2, PTL DEF Spec
=============================================================================
