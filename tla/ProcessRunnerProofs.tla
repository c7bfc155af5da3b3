------------------------ MODULE ProcessRunnerProofs ------------------------
(***************************************************************************)
(* Proofs about ProcessRunner for any cap, chunk and amount of output, for *)
(* descendants of either kind and tree kills that work or fail.            *)
(***************************************************************************)
EXTENDS ProcessRunner, TLAPS

-----------------------------------------------------------------------------
(* The two bounds of the reader. *)

LEMMA LeastOfTwo ==
  ASSUME NEW a \in Int, NEW b \in Int
  PROVE  Min({a, b}) = IF a <= b THEN a ELSE b
<1> DEFINE m == IF a <= b THEN a ELSE b
<1>1. m \in {a, b} /\ \A y \in {a, b} : m <= y
  OBVIOUS
<1>2. \A x \in {a, b} : (\A y \in {a, b} : x <= y) => x = m
  OBVIOUS
<1> HIDE DEF m
<1>3. Min({a, b}) = m
  BY <1>1, <1>2 DEF Min
<1>4. QED
  BY <1>3 DEF m

LEMMA MostOfTwo ==
  ASSUME NEW a \in Int, NEW b \in Int
  PROVE  Max({a, b}) = IF a >= b THEN a ELSE b
<1> DEFINE m == IF a >= b THEN a ELSE b
<1>1. m \in {a, b} /\ \A y \in {a, b} : m >= y
  OBVIOUS
<1>2. \A x \in {a, b} : (\A y \in {a, b} : x >= y) => x = m
  OBVIOUS
<1> HIDE DEF m
<1>3. Max({a, b}) = m
  BY <1>1, <1>2 DEF Max
<1>4. QED
  BY <1>3 DEF m

(* What is kept fits the cap. *)
LEMMA KeptType == ASSUME NEW n \in Nat PROVE Kept(n) \in 0..Cap
<1>1. Cap \in Nat /\ Kept(n) = IF n <= Cap THEN n ELSE Cap
  BY RunnerAssumption, LeastOfTwo DEF Kept
<1>2. QED
  BY <1>1

(* Cutting a chunk is exactly getting past the cap, also at its boundary.  *)
LEMMA CutAtCap ==
  ASSUME NEW n \in Nat \ {0}, taken \in Nat
  PROVE  OverCap(n) \/ taken > Cap <=> taken + n > Cap
<1>1. Cap \in Nat /\ Cap - taken \in Int
  BY RunnerAssumption
<1>2. Max({Cap - taken, 0}) = IF Cap - taken >= 0 THEN Cap - taken ELSE 0
  BY <1>1, MostOfTwo
<1>3. QED
  BY <1>1, <1>2 DEF OverCap

(* A read takes no more than was written. *)
LEMMA ReadEffect ==
  ASSUME TypeOK, Read
  PROVE  \E n \in Nat \ {0} :
           /\ taken' = taken + n /\ taken' \in 0..written
           /\ truncated' = (truncated \/ OverCap(n))
<1> DEFINE n == Min({Chunk, written - taken})
<1>0. /\ written \in 0..MaxOutput /\ taken \in 0..written
      /\ Chunk \in Nat \ {0} /\ MaxOutput \in Nat
  BY RunnerAssumption DEF TypeOK
<1>1. /\ written \in Nat /\ taken \in 0..written
      /\ Chunk \in Nat \ {0} /\ written - taken \in Int
  BY <1>0
<1>2. n = IF Chunk <= written - taken THEN Chunk ELSE written - taken
  BY <1>1, LeastOfTwo
<1>3. /\ n > 0 /\ taken' = taken + n
      /\ truncated' = (truncated \/ OverCap(n))
  BY DEF Read
<1> HIDE DEF n
<1>4. n \in Nat \ {0} /\ taken + n \in 0..written
  BY <1>1, <1>2, <1>3
<1>5. QED
  BY <1>3, <1>4

-----------------------------------------------------------------------------
(* Type correctness.                                                       *)

LEMMA TypeInit == Init => TypeOK
<1> SUFFICES ASSUME Init PROVE TypeOK
  OBVIOUS
<1>1. MaxOutput \in Nat /\ Cap \in Nat
  BY RunnerAssumption
<1>2. written \in 0..MaxOutput /\ taken \in 0..written /\ text \in -1..Cap
  BY <1>1 DEF Init
<1>3. QED
  BY <1>2 DEF Init, TypeOK, Waits

LEMMA TypeStep == TypeOK /\ [Next]_vars => TypeOK'
<1> SUFFICES ASSUME TypeOK, [Next]_vars PROVE TypeOK'
  OBVIOUS
<1>0. /\ written \in 0..MaxOutput /\ taken \in 0..written
      /\ Return => text' \in -1..Cap
      /\ Write => written' \in 0..MaxOutput /\ taken \in 0..written'
  <2>1. /\ MaxOutput \in Nat /\ written \in 0..MaxOutput
        /\ taken \in 0..written /\ Cap \in Nat
    BY RunnerAssumption DEF TypeOK
  <2>2. Kept(taken) \in 0..Cap
    BY <2>1, KeptType
  <2>3. Return => text' \in {Kept(taken), 0}
    BY DEF Return
  <2>4. Return => text' \in -1..Cap
    BY <2>1, <2>2, <2>3
  <2>5. Write => written' \in 0..MaxOutput /\ taken \in 0..written'
    BY <2>1 DEF Write
  <2>6. QED
    BY <2>1, <2>4, <2>5
<1> USE DEF TypeOK, processes, output, run, Waits, Ends
<1>1. \A p \in {"child", "descendant"} :
        /\ Holds(p) \in [Streams -> SUBSET {"child", "descendant"}]
        /\ Drops(p) \in [Streams -> SUBSET {"child", "descendant"}]
  BY DEF Holds, Drops
<1>2. DropsBoth \in [Streams -> SUBSET {"child", "descendant"}]
  BY DEF DropsBoth
<1>3. CASE StartFails
  <2>1. text' \in -1..Cap
    BY <1>3, RunnerAssumption DEF StartFails
  <2>2. QED
    BY <1>3, <2>1 DEF StartFails
<1>4. CASE Exited \/ Expired \/ Join
  BY <1>4 DEF Exited, Expired, Join
<1>5. CASE Kill
  BY <1>2, <1>5 DEF Kill, TreeKilled, OnlyChildKilled, Lingering, Dead
<1>6. CASE Reap
  BY <1>6 DEF Reap
<1>7. CASE CloseEarly \/ CloseLate
  BY <1>7 DEF CloseEarly, CloseLate, Close, Streams
<1>8. CASE Return
  BY <1>0, <1>8 DEF Return
<1>9. CASE Read
  <2>1. taken' \in 0..written /\ truncated' \in BOOLEAN
    BY <1>9, ReadEffect
  <2>2. QED
    BY <1>9, <2>1 DEF Read
<1>10. ASSUME NEW s \in Streams, Enter(s) \/ FindClosed(s) \/ Leave(s)
       PROVE  TypeOK'
  BY <1>10 DEF Enter, FindClosed, Leave
<1>11. CASE Eof \/ InputTaken \/ InputRefused
  BY <1>11 DEF Eof, InputTaken, InputRefused
<1>12. CASE Write
  BY <1>0, <1>12 DEF Write
<1>13. ASSUME NEW kind \in Kinds, Fork(kind) PROVE TypeOK'
  BY <1>1, <1>13, RunnerAssumption DEF Fork, Lingering
<1>14. CASE Detach \/ Exit \/ Die \/ DescendantEnds
  BY <1>1, <1>14 DEF Detach, Exit, Die, DescendantEnds, Dead
<1>15. ASSUME NEW input \in BOOLEAN, Start(input) PROVE TypeOK'
  BY <1>1, <1>15 DEF Start
<1>16. CASE UNCHANGED vars
  BY <1>16 DEF vars
<1>17. QED
  BY <1>3, <1>4, <1>5, <1>6, <1>7, <1>8, <1>9, <1>10, <1>11, <1>12, <1>13,
     <1>14, <1>15, <1>16
     DEF Next, Caller, Threads

(* The caller, its threads and the processes keep their types; in          *)
(* particular the reader takes no more than was written and the returned   *)
(* output fits the cap. *)
THEOREM TypeCorrect == Spec => []TypeOK
  BY TypeInit, TypeStep, PTL DEF Spec

-----------------------------------------------------------------------------
(* The output.                                                             *)

LEMMA OutputInit == Init => OutputInv
<1> SUFFICES ASSUME Init PROVE OutputInv
  OBVIOUS
<1>1. Cap \in Nat
  BY RunnerAssumption
<1>2. truncated <=> taken > Cap
  BY <1>1 DEF Init
<1>3. QED
  BY <1>2
     DEF Init, OutputInv, HeldByTheLiving, ReaderIsExact, Passed, ReaderIsDone,
         Streams, Waits, Ends

(* The processes that hold a pipe. *)
LEMMA HeldStep ==
  ASSUME TypeOK, HeldByTheLiving, [Next]_vars
  PROVE  HeldByTheLiving'
<1> USE DEF HeldByTheLiving
<1>0. pipe \in [Streams -> SUBSET {"child", "descendant"}]
  BY DEF TypeOK
<1>1. CASE UNCHANGED processes
  BY <1>1 DEF processes
<1>2. ASSUME NEW input \in BOOLEAN, Start(input) PROVE HeldByTheLiving'
  BY <1>2 DEF Start, Holds
<1>3. CASE Kill
  BY <1>3 DEF Kill, TreeKilled, OnlyChildKilled, DropsBoth
<1>4. CASE Reap
  BY <1>4 DEF Reap, Dead
<1>5. ASSUME NEW kind \in Kinds, Fork(kind) PROVE HeldByTheLiving'
  BY <1>5, RunnerAssumption DEF Fork, Holds, Lingering
<1>6. CASE Detach \/ Exit \/ Die \/ DescendantEnds
  BY <1>6 DEF Detach, Exit, Die, DescendantEnds, Drops
<1>7. CASE StartFails \/ Exited \/ Expired \/ Join \/ CloseEarly \/ CloseLate
             \/ Return
  BY <1>1, <1>7
     DEF StartFails, Exited, Expired, Join, CloseEarly, CloseLate, Close, Return
<1>8. CASE Threads \/ InputTaken \/ Write
  BY <1>1, <1>8
     DEF Threads, Enter, FindClosed, Leave, Read, Eof, InputTaken,
         InputRefused, Write
<1>9. CASE UNCHANGED vars
  BY <1>1, <1>9 DEF vars
<1>10. QED
  BY <1>2, <1>3, <1>4, <1>5, <1>6, <1>7, <1>8, <1>9 DEF Next, Caller

(* What a step of a thread leaves alone, and how it changes the reader. *)
LEMMA ThreadEffect ==
  ASSUME TypeOK, ReaderIsExact, Threads \/ InputTaken
  PROVE  /\ UNCHANGED <<processes, written, run>>
         /\ io["stdout"] = "none" <=> io'["stdout"] = "none"
         /\ io["stdout"] \in {"leaving", "done"} =>
              io'["stdout"] \in {"leaving", "done"} /\ taken' = taken
         /\ io["stdout"] = "done" => io'["stdout"] = "done"
         /\ truncated' <=> taken' > Cap
         /\ io'["stdout"] \in {"leaving", "done"} =>
              "stdout" \in closed \/ (pipe["stdout"] = {} /\ taken' = written)
         /\ "stdout" \in closed => io'["stdout"] # "busy"
<1>0. /\ io \in [Streams -> {"none", "between", "busy", "leaving", "done"}]
      /\ "stdout" \in Streams /\ "stdin" \in Streams /\ "stdin" # "stdout"
  BY DEF TypeOK, Streams
<1> USE <1>0 DEF ReaderIsExact
<1>1. ASSUME NEW s \in Streams, Enter(s)
      PROVE  /\ UNCHANGED <<processes, written, run, taken, truncated>>
             /\ \/ io'["stdout"] = io["stdout"]
                \/ io["stdout"] = "between" /\ io'["stdout"] = "busy"
                     /\ "stdout" \notin closed
  BY <1>1 DEF Enter, output
<1>2. ASSUME NEW s \in Streams, FindClosed(s)
      PROVE  /\ UNCHANGED <<processes, written, run, taken, truncated>>
             /\ \/ io'["stdout"] = io["stdout"]
                \/ io["stdout"] = "between" /\ io'["stdout"] = "leaving"
                     /\ "stdout" \in closed
  BY <1>2 DEF FindClosed, output
<1>3. ASSUME NEW s \in Streams, Leave(s)
      PROVE  /\ UNCHANGED <<processes, written, run, taken, truncated>>
             /\ \/ io'["stdout"] = io["stdout"]
                \/ io["stdout"] = "leaving" /\ io'["stdout"] = "done"
  BY <1>3 DEF Leave, output
<1>4. CASE Read
  <2>1. PICK n \in Nat \ {0} :
          /\ taken' = taken + n /\ truncated' = (truncated \/ OverCap(n))
    BY <1>4, ReadEffect
  <2>2. taken \in Nat
    <3>1. written \in 0..MaxOutput /\ taken \in 0..written
      BY DEF TypeOK
    <3>2. QED
      BY <3>1
  <2>3. truncated' <=> taken' > Cap
    BY <2>1, <2>2, CutAtCap
  <2>4. io["stdout"] = "busy" /\ io'["stdout"] = "between"
    BY <1>4 DEF Read
  <2>5. QED
    BY <1>4, <2>3, <2>4 DEF Read
<1>5. CASE Eof
  BY <1>5 DEF Eof, output
<1>6. CASE InputTaken \/ InputRefused
  <2>1. io'["stdout"] = io["stdout"]
    BY <1>6 DEF InputTaken, InputRefused
  <2>2. QED
    BY <1>6, <2>1 DEF InputTaken, InputRefused, output
<1>7. QED
  BY <1>1, <1>2, <1>3, <1>4, <1>5, <1>6 DEF Threads

(* A close, of either round. *)
LEMMA CloseEffect ==
  ASSUME CloseEarly \/ CloseLate
  PROVE  /\ UNCHANGED <<processes, io, output, timedOut, text>>
         /\ \/ pc = "closing" /\ pc' = "closing output"
            \/ pc = "closing output" /\ pc' = "reaping"
                 /\ io["stdout"] # "busy"
            \/ pc = "closing again" /\ pc' = "closing output again"
            \/ pc = "closing output again" /\ pc' = "assembling"
                 /\ io["stdout"] # "busy"
         /\ closed \subseteq closed'
         /\ \/ pc \in {"closing", "closing again"}
                 /\ ("stdout" \in closed' <=> "stdout" \in closed)
            \/ pc \in {"closing output", "closing output again"}
                 /\ "stdout" \in closed'
  BY DEF CloseEarly, CloseLate, Close

(* The reader: it is out of its loop when nobody writes to its pipe or the *)
(* pipe is closed. *)
LEMMA ReaderStep ==
  ASSUME TypeOK, OutputInv, [Next]_vars
  PROVE  ReaderIsExact'
<1> USE DEF ReaderIsExact
<1>0. /\ OutputInv /\ ReaderIsExact /\ "stdout" \in Streams
      /\ io \in [Streams -> {"none", "between", "busy", "leaving", "done"}]
      /\ pipe \in [Streams -> SUBSET {"child", "descendant"}]
  BY DEF TypeOK, OutputInv, Streams
<1>1. CASE StartFails
  BY <1>0, <1>1 DEF StartFails, processes, output
<1>2. ASSUME NEW input \in BOOLEAN, Start(input) PROVE ReaderIsExact'
  <2>1. io'["stdout"] = "between" /\ pc' = "waiting"
    BY <1>0, <1>2 DEF Start
  <2>2. "stdout" \notin closed
    BY <1>2 DEF OutputInv, Passed, Waits, Start
  <2>3. QED
    BY <1>0, <1>2, <2>1, <2>2 DEF Start, output
<1>3. ASSUME pc \notin {"ready", "failed"} /\ pc' \notin {"ready", "failed"},
             io'["stdout"] = io["stdout"], UNCHANGED <<output, closed>>,
             pipe'["stdout"] \subseteq pipe["stdout"]
      PROVE  ReaderIsExact'
  BY <1>0, <1>3 DEF output
<1>4. CASE Exited \/ Expired \/ Reap \/ Join \/ Return
  BY <1>3, <1>4 DEF Exited, Expired, Reap, Join, Return, processes
<1>5. CASE Kill
  <2>1. pipe'["stdout"] \subseteq pipe["stdout"]
    BY <1>0, <1>5 DEF Kill, TreeKilled, OnlyChildKilled, DropsBoth
  <2>2. QED
    BY <1>3, <1>5, <2>1 DEF Kill
<1>6. CASE CloseEarly \/ CloseLate
  <2>1. UNCHANGED <<pipe, io, written, taken, truncated>>
    BY <1>6, CloseEffect DEF processes, output
  <2>2. closed \subseteq closed' /\ pc \notin {"ready", "failed"}
          /\ pc' \notin {"ready", "failed"}
    BY <1>6, CloseEffect
  <2>3. "stdout" \in closed' => "stdout" \in closed \/ io["stdout"] # "busy"
    BY <1>6, CloseEffect
  <2>4. QED
    BY <1>0, <2>1, <2>2, <2>3
<1>7. CASE Threads \/ InputTaken
  BY <1>0, <1>7, ThreadEffect DEF run, processes
<1>8. CASE Write
  BY <1>0, <1>8 DEF Write, processes, run
<1>9. ASSUME NEW kind \in Kinds, Fork(kind) PROVE ReaderIsExact'
  BY <1>0, <1>9 DEF Fork, output, run
<1>10. CASE Detach \/ Exit \/ Die \/ DescendantEnds
  <2>1. pipe'["stdout"] \subseteq pipe["stdout"]
    BY <1>0, <1>10 DEF Detach, Exit, Die, DescendantEnds, Drops
  <2>2. QED
    BY <1>0, <1>10, <2>1 DEF Detach, Exit, Die, DescendantEnds, output, run
<1>11. CASE UNCHANGED vars
  BY <1>0, <1>11 DEF vars, output, run, processes
<1>12. QED
  BY <1>1, <1>2, <1>4, <1>5, <1>6, <1>7, <1>8, <1>9, <1>10, <1>11
     DEF Next, Caller

LEMMA PassedStep ==
  ASSUME TypeOK, OutputInv, [Next]_vars
  PROVE  Passed'
<1> USE DEF Passed, Waits, Ends
<1>0. Passed /\ ReaderIsExact /\ timedOut \in BOOLEAN
  BY DEF TypeOK, OutputInv
<1>1. ASSUME UNCHANGED <<pc, timedOut, closed>>, child \in Dead => child' \in Dead
      PROVE  Passed'
  BY <1>0, <1>1
<1>2. CASE StartFails
  BY <1>0, <1>2 DEF StartFails
<1>3. ASSUME NEW input \in BOOLEAN, Start(input) PROVE Passed'
  BY <1>0, <1>3 DEF Start
<1>4. CASE Exited
  BY <1>0, <1>4 DEF Exited, processes
<1>5. CASE Expired \/ Kill
  BY <1>0, <1>5 DEF Expired, Kill
<1>6. CASE CloseEarly \/ CloseLate
  <2>1. CASE pc = "closing" \/ pc = "closing output"
    BY <1>0, <1>6, <2>1, CloseEffect
  <2>2. CASE pc = "closing again" \/ pc = "closing output again"
    BY <1>0, <1>6, <2>2, CloseEffect DEF processes
  <2>3. QED
    BY <1>6, <2>1, <2>2, CloseEffect
<1>7. CASE Reap
  BY <1>0, <1>7 DEF Reap
<1>8. CASE Join \/ Return
  <2>1. pc = "joining" \/ pc = "assembling"
    BY <1>8 DEF Join, Return
  <2>2. pc' = "closing again" \/ pc' = "returned"
    BY <1>8 DEF Join, Return
  <2>3. child' = child /\ timedOut' = timedOut
    BY <1>8 DEF Join, Return, processes
  <2>4. QED
    BY <1>0, <2>1, <2>2, <2>3
<1>9. CASE Threads \/ InputTaken
  BY <1>0, <1>1, <1>9, ThreadEffect DEF run, processes
<1>10. CASE \/ Write \/ Detach \/ DescendantEnds \/ Exit \/ Die
            \/ \E kind \in Kinds : Fork(kind)
  <2>1. UNCHANGED run
    BY <1>10 DEF Write, Detach, DescendantEnds, Exit, Die, Fork
  <2>2. child \in Dead => child' \in Dead
    BY <1>10
       DEF Write, Detach, DescendantEnds, Exit, Die, Fork, Dead, processes
  <2>3. QED
    BY <1>1, <2>1, <2>2 DEF run
<1>11. CASE UNCHANGED vars
  BY <1>1, <1>11 DEF vars, run, processes
<1>12. QED
  BY <1>2, <1>3, <1>4, <1>5, <1>6, <1>7, <1>8, <1>9, <1>10, <1>11
     DEF Next, Caller

(* Who is past the joins: a reader whose stream is closed cannot be given  *)
(* up; without a descendant no pipe of a dead child is held, so the join   *)
(* waits for the reader's end of the output. *)
LEMMA DoneStep ==
  ASSUME TypeOK, OutputInv, [Next]_vars
  PROVE  ReaderIsDone'
<1> USE DEF ReaderIsDone
<1>0. /\ HeldByTheLiving /\ ReaderIsExact /\ Passed /\ ReaderIsDone
      /\ io \in [Streams -> {"none", "between", "busy", "leaving", "done"}]
      /\ "stdout" \in Streams
      /\ pipe \in [Streams -> SUBSET {"child", "descendant"}]
      /\ timedOut \in BOOLEAN
  BY DEF TypeOK, OutputInv, Streams
<1>1. CASE pc' \notin Ends
  BY <1>1
<1>2. CASE Join
  <2> SUFFICES ASSUME timedOut \/ descendant = "none"
               PROVE  /\ io["stdout"] = "done"
                      /\ ~ timedOut => pipe["stdout"] = {} /\ taken = written
    BY <1>2 DEF Join, processes, output
  <2>1. pc = "joining" /\ io["stdout"] # "none" /\ Joined
    BY <1>0, <1>2 DEF Join, ReaderIsExact
  <2>2. CASE timedOut
    <3>1. "stdout" \in closed /\ io["stdout"] # "busy"
      BY <1>0, <2>1, <2>2 DEF Passed, Waits, ReaderIsExact
    <3>2. QED
      BY <1>0, <2>1, <2>2, <3>1 DEF Joined
  <2>3. CASE ~ timedOut /\ descendant = "none"
    <3>1. pipe["stdout"] = {}
      BY <1>0, <2>1, <2>3 DEF Passed, HeldByTheLiving, Dead, Lingering
    <3>2. io["stdout"] = "done"
      BY <1>0, <2>1, <3>1 DEF Joined
    <3>3. "stdout" \notin closed
      BY <1>0, <2>1, <2>3 DEF Passed, Waits
    <3>4. QED
      BY <1>0, <3>1, <3>2, <3>3 DEF ReaderIsExact
  <2>4. QED
    BY <2>2, <2>3
<1>3. CASE Return
  BY <1>0, <1>3 DEF Return, processes, output, Ends
<1>4. CASE CloseEarly \/ CloseLate
  BY <1>0, <1>4, CloseEffect DEF Ends, processes, output
<1>5. CASE Threads \/ InputTaken
  BY <1>0, <1>5, ThreadEffect DEF run, processes
<1>6. CASE Write
  BY <1>0, <1>6 DEF Write, processes, run
<1>7. CASE Detach \/ Exit \/ Die \/ DescendantEnds
  <2>1. /\ pipe'["stdout"] \subseteq pipe["stdout"]
        /\ descendant' = "none" => descendant = "none"
    BY <1>0, <1>7 DEF Detach, Exit, Die, DescendantEnds, Drops
  <2>2. QED
    BY <1>0, <1>7, <2>1 DEF Detach, Exit, Die, DescendantEnds, output, run
<1>8. ASSUME NEW kind \in Kinds, Fork(kind) PROVE ReaderIsDone'
  <2>1. descendant' # "none"
    BY <1>8, RunnerAssumption DEF Fork
  <2>2. QED
    BY <1>0, <1>8, <2>1 DEF Fork, output, run
<1>9. CASE UNCHANGED vars
  BY <1>0, <1>9 DEF vars, output, run, processes
<1>10. QED
  BY <1>1, <1>2, <1>3, <1>4, <1>5, <1>6, <1>7, <1>8, <1>9
     DEF Next, Caller, StartFails, Start, Exited, Expired, Kill, Reap, Ends

LEMMA OutputCorrect == Spec => []OutputInv
<1>1. TypeOK /\ OutputInv /\ [Next]_vars => OutputInv'
  BY HeldStep, ReaderStep, PassedStep, DoneStep DEF OutputInv
<1>2. QED
  BY <1>1, OutputInit, TypeCorrect, PTL DEF Spec

(* The output of a child that ended in time and left nobody behind is      *)
(* complete up to the cap and marked exactly when it was cut, for any cap, *)
(* size of reads and interleaving of the reader with run's own steps.      *)
THEOREM OutputIsHonest == Spec => []HonestOutput
<1>1. OutputInv => HonestOutput
  <2> SUFFICES ASSUME OutputInv, pc = "returned", ~ timedOut,
                      descendant = "none"
               PROVE  /\ text = Min({written, Cap})
                      /\ truncated <=> written > Cap
    BY DEF HonestOutput
  <2>1. text = Kept(taken) /\ taken = written
    BY DEF OutputInv, ReaderIsDone, Ends
  <2>2. QED
    BY <2>1 DEF OutputInv, ReaderIsExact, Kept
<1>2. QED
  BY <1>1, OutputCorrect, PTL

(* A run that timed out returns what its reader read, marked exactly when  *)
(* that was cut, wherever between two reads the early close came.          *)
THEOREM TimeoutKeepsTheRead == Spec => []TimeoutKeepsWhatWasRead
<1>1. OutputInv => TimeoutKeepsWhatWasRead
  BY DEF OutputInv, ReaderIsDone, ReaderIsExact, TimeoutKeepsWhatWasRead, Ends,
         Kept
<1>2. QED
  BY <1>1, OutputCorrect, PTL
=============================================================================
