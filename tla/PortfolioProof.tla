--------------------------- MODULE PortfolioProof ---------------------------
(***************************************************************************)
(* Proofs about the portfolio script, for any number of configurations and *)
(* any behaviour of the child processes.                                   *)
(***************************************************************************)
EXTENDS Portfolio, TLAPS

(***************************************************************************)
(* The inductive invariant.  ChildInv: a child runs only while its output  *)
(* is read or its end is awaited, an alarm is set only while its output is *)
(* read.  OutputInv: what run_command holds was printed by the command it  *)
(* runs, and TIMEOUT is all that is left once the alarm has rung.          *)
(* ResultInv: the results kept are the printed ones, and $successful is    *)
(* set exactly when one of them is conclusive.  FinalInv: how the final    *)
(* result comes about.                                                     *)
(***************************************************************************)
Busy == pc \in {"read", "close", "classify"}

ChildInv ==
    /\ child = "running" => pc \in {"read", "close"}
    /\ pc \in {"read", "close"} => child # "none"
    /\ armed => pc = "read"

OutputInv ==
    /\ Busy => cur # 0
    /\ pc = "read" /\ cmd = "gazer" => \A k \in DOMAIN pipe : pipe[k] = printed[cur]
    /\ pc = "close" => result = "TIMEOUT"
    /\ Busy /\ cmd = "gazer" => result \in {Undef, "TIMEOUT", printed[cur]}
    /\ Busy /\ cmd = "clang" => result \in {Undef, "TIMEOUT"}
    /\ Busy /\ cmd # "gazer" => results[cur] = "FAILED" /\ checkHarness

Confirmed == \/ results[cur] = "SUCCESSFUL"
             \/ results[cur] = "FAILED" /\ checkHarness /\ harnessResults[cur] = Witness

ResultInv ==
    /\ \A c \in Configs : results[c] \in Verdicts => printed[c] = results[c]
    /\ \A c \in Configs : results[c] = "SUCCESSFUL" \/ harnessResults[c] = Witness => successful
    /\ successful => cur # 0
    /\ successful /\ ~finishAll => pc \in {"report", "done"} /\ Confirmed

FinalInv ==
    /\ pc # "done" => final = Undef
    /\ final \notin {Undef, "NONE"} => successful /\ ~finishAll /\ final = results[cur]
    /\ final = "NONE" => ~successful

Inv == ChildInv /\ OutputInv /\ ResultInv /\ FinalInv

-----------------------------------------------------------------------------
\* The script starts with values of the right types.
LEMMA TypeInit == Init => TypeOK
  <1> SUFFICES ASSUME Init PROVE TypeOK
    OBVIOUS
  <1>1. FlagsOK
    BY Zenon DEF Init, FlagsOK
  <1>2. ScriptOK
    BY NumConfigsAssumption DEF Init, ScriptOK, Configs
  <1>3. ChildrenOK
    BY NumConfigsAssumption DEF Init, ChildrenOK, Configs
  <1> QED BY <1>1, <1>2, <1>3 DEF TypeOK

\* The options and flags stay Boolean.
LEMMA FlagsNext ==
    ASSUME FlagsOK, [Next]_vars
    PROVE  FlagsOK'
  <1>1. ASSUME NEW c, NEW t, t \in BOOLEAN, RunCommand(c, t) PROVE armed' \in BOOLEAN
    BY <1>1, Zenon DEF RunCommand, FlagsOK
  <1>2. CASE StartConfiguration
    <2>1. (cur' \in timed) \in BOOLEAN
      OBVIOUS
    <2>2. armed' \in BOOLEAN
      BY <1>2, <1>1, <2>1 DEF StartConfiguration, RunGazer
    <2> QED BY <1>2, <2>2, Zenon DEF StartConfiguration, FlagsOK, options
  <1>3. CASE ReadLine
    BY <1>3, Zenon DEF ReadLine, FlagsOK, options, loopVars
  <1>4. CASE EndOfFile \/ AlarmCloses
    BY <1>4, Zenon DEF EndOfFile, AlarmCloses, FlagsOK, options, loopVars
  <1>5. CASE GazerReturns
    <2>1. armed' \in BOOLEAN
      BY <1>5, <1>1, Zenon DEF GazerReturns, FlagsOK, runVars
    <2> QED BY <1>5, <2>1, Zenon DEF GazerReturns, Succeed, FlagsOK, options
  <1>6. CASE ClangReturns
    <2>1. armed' \in BOOLEAN
      BY <1>6, <1>1, Zenon DEF ClangReturns, FlagsOK, runVars
    <2> QED BY <1>6, <2>1, Zenon DEF ClangReturns, FlagsOK, options
  <1>7. CASE TestReturns
    BY <1>7, Zenon DEF TestReturns, Succeed, FlagsOK, options, runVars
  <1>8. CASE NoConfigurationLeft \/ Report
    BY <1>8, Zenon DEF NoConfigurationLeft, Report, FlagsOK, options, runVars, loopVars
  <1>9. CASE AlarmRings
    BY <1>9, Zenon DEF AlarmRings, FlagsOK, options, loopVars
  <1>10. CASE Children
    BY <1>10, Zenon DEF Children, GazerPrints, GazerWritesHarness, ClangCompiles, TestFails,
                        ChildExits, FlagsOK, options, runVars, loopVars
  <1>11. CASE Done \/ UNCHANGED vars
    BY <1>11, Zenon DEF Done, FlagsOK, vars, options, runVars, loopVars
  <1> QED BY <1>2, <1>3, <1>4, <1>5, <1>6, <1>7, <1>8, <1>9, <1>10, <1>11, Zenon
          DEF Next, Script

\* run_command returns a verdict or a fault.
LEMMA ReturnedType ==
    ASSUME ScriptOK
    PROVE  Returned \in Outcomes
  BY DEF ScriptOK, Returned, Outcomes, Verdicts, Witness

\* The script's own variables keep their types.
LEMMA ScriptNext ==
    ASSUME ScriptOK, ChildrenOK, successful => cur # 0, [Next]_vars
    PROVE  ScriptOK'
  <1> USE NumConfigsAssumption
  <1> USE DEF Configs, ScriptOK
  <1>0. Returned \in Outcomes
    BY ReturnedType
  <1>1. CASE StartConfiguration
    BY <1>1 DEF StartConfiguration, RunGazer, RunCommand, options
  <1>2. CASE ReadLine
    <2>1. Head(pipe) \in Outcomes
      BY <1>2 DEF ReadLine, ChildrenOK, Outcomes
    <2> QED BY <1>2, <2>1 DEF ReadLine, options, loopVars
  <1>3. CASE EndOfFile \/ AlarmCloses
    <2>1. status' \in Nat /\ pc' = "classify"
      BY <1>3 DEF EndOfFile, AlarmCloses, ChildrenOK
    <2>2. UNCHANGED <<timed, cur, cmd, result, results, harnessResults, final>>
      BY <1>3 DEF EndOfFile, AlarmCloses, options, loopVars
    <2> QED BY <2>1, <2>2
  <1>4. CASE GazerReturns
    BY <1>4, <1>0 DEF GazerReturns, RunCommand, Succeed, Stop, options, runVars
  <1>5. CASE ClangReturns
    BY <1>5, <1>0 DEF ClangReturns, RunCommand, options, runVars
  <1>6. CASE TestReturns
    BY <1>6, <1>0 DEF TestReturns, Succeed, Stop, options, runVars
  <1>7. CASE NoConfigurationLeft
    BY <1>7 DEF NoConfigurationLeft, options, runVars, loopVars
  <1>8. CASE Report
    <2>1. cur # 0 => results[cur] \in Outcomes \cup {Undef}
      OBVIOUS
    <2>2. "NONE" \in Outcomes
      BY DEF Outcomes
    <2> QED BY <1>8, <2>1, <2>2 DEF Report, options, runVars
  <1>9. CASE AlarmRings
    BY <1>9 DEF AlarmRings, options, loopVars, Outcomes
  <1>10. CASE Children
    BY <1>10 DEF Children, GazerPrints, GazerWritesHarness, ClangCompiles, TestFails,
                 ChildExits, options, runVars, loopVars
  <1>11. CASE Done \/ UNCHANGED vars
    BY <1>11 DEF Done, vars, options, runVars, loopVars
  <1> QED BY <1>1, <1>2, <1>3, <1>4, <1>5, <1>6, <1>7, <1>8, <1>9, <1>10, <1>11
          DEF Next, Script

\* The children's variables keep their types: what is read has been printed.
LEMMA ChildrenNext ==
    ASSUME ScriptOK, ChildrenOK, ChildInv, OutputInv, [Next]_vars
    PROVE  ChildrenOK'
  <1> USE NumConfigsAssumption
  <1> USE DEF Configs, ScriptOK, ChildrenOK
  <1>0. ASSUME NEW c, NEW t, RunCommand(c, t) PROVE ChildrenOK'
    <2>1. <<>> \in Seq(Verdicts \cup {Witness})
      OBVIOUS
    <2>2. pipe' \in Seq(Verdicts \cup {Witness})
      BY <1>0, <2>1 DEF RunCommand
    <2>3. child' \in {"none", "running", "exited"}
      BY <1>0 DEF RunCommand
    <2>4. UNCHANGED <<code, printed, harness, binary>>
      BY <1>0 DEF RunCommand
    <2> QED BY <2>2, <2>3, <2>4
  <1>1. CASE StartConfiguration
    BY <1>1, <1>0 DEF StartConfiguration, RunGazer
  <1>2. CASE ReadLine
    BY <1>2 DEF ReadLine
  <1>3. CASE EndOfFile \/ AlarmCloses
    BY <1>3 DEF EndOfFile, AlarmCloses, childVars
  <1>12. CASE AlarmRings
    <2>1. <<>> \in Seq(Verdicts \cup {Witness})
      OBVIOUS
    <2> QED BY <1>12, <2>1 DEF AlarmRings
  <1>4. CASE GazerReturns
    <2>1. (\E t : RunCommand("clang", t)) \/ UNCHANGED childVars
      BY <1>4 DEF GazerReturns
    <2> QED BY <1>0, <2>1 DEF childVars
  <1>5. CASE ClangReturns
    <2>1. (\E t : RunCommand("test", t)) \/ UNCHANGED childVars
      BY <1>5 DEF ClangReturns
    <2> QED BY <1>0, <2>1 DEF childVars
  <1>6. CASE TestReturns \/ NoConfigurationLeft \/ Report
    BY <1>6 DEF TestReturns, NoConfigurationLeft, Report, childVars
  <1>7. CASE GazerPrints
    <2>1. PICK v \in Verdicts : /\ printed' = [printed EXCEPT ![cur] = v]
                                /\ pipe' = IF pc = "read" THEN Append(pipe, v) ELSE pipe
      BY <1>7 DEF GazerPrints
    <2>2. pipe' \in Seq(Verdicts \cup {Witness})
      BY <2>1
    <2>3. printed' \in [Configs -> Verdicts \cup {Undef}]
      BY <2>1
    <2>4. UNCHANGED <<child, code, harness, binary>>
      BY <1>7 DEF GazerPrints
    <2> QED BY <2>2, <2>3, <2>4
  <1>8. CASE GazerWritesHarness \/ ClangCompiles
    BY <1>8 DEF GazerWritesHarness, ClangCompiles
  <1>9. CASE TestFails
    <2>1. pipe' \in Seq(Verdicts \cup {Witness})
      BY <1>9 DEF TestFails
    <2> QED BY <1>9, <2>1 DEF TestFails
  <1>10. CASE ChildExits
    BY <1>10 DEF ChildExits
  <1>11. CASE Done \/ UNCHANGED vars
    BY <1>11 DEF Done, vars, childVars
  <1> QED BY <1>1, <1>2, <1>3, <1>4, <1>5, <1>6, <1>7, <1>8, <1>9, <1>10, <1>11, <1>12
          DEF Next, Script, Children

-----------------------------------------------------------------------------

\* Nothing has been run at the start.
LEMMA InvInit == Init => Inv
  BY UndefAssumption DEF Init, Inv, ChildInv, OutputInv, ResultInv, FinalInv, Busy, Confirmed,
                         Outcomes, Verdicts, Witness

\* A child runs and an alarm is set only while the script reads.
LEMMA ChildInvNext ==
    ASSUME FlagsOK, ScriptOK, ChildInv, [Next]_vars
    PROVE  ChildInv'
  <1> USE DEF ChildInv
  <1>1. ASSUME NEW c, NEW t, pc \notin {"read", "close"}, RunCommand(c, t) PROVE ChildInv'
    BY <1>1 DEF RunCommand
  <1>2. CASE StartConfiguration
    BY <1>2, <1>1 DEF StartConfiguration, RunGazer
  <1>3. CASE ReadLine
    BY <1>3 DEF ReadLine
  <1>4. CASE EndOfFile \/ AlarmCloses \/ AlarmRings
    BY <1>4 DEF EndOfFile, AlarmCloses, AlarmRings, childVars
  <1>5. CASE GazerReturns
    <2>1. CASE \E t : RunCommand("clang", t)
      BY <1>5, <1>1, <2>1 DEF GazerReturns
    <2>2. CASE pc' \in {"next", "report"} /\ UNCHANGED <<child, armed>>
      BY <1>5, <2>2 DEF GazerReturns
    <2>3. (pc' = "next" \/ Stop) => pc' \in {"next", "report"}
      BY DEF Stop
    <2> QED BY <1>5, <2>1, <2>2, <2>3, Zenon DEF GazerReturns, Succeed, runVars, childVars
  <1>6. CASE ClangReturns
    BY <1>6, <1>1 DEF ClangReturns, runVars, childVars
  <1>7. CASE TestReturns \/ NoConfigurationLeft \/ Report
    BY <1>7 DEF TestReturns, Succeed, Stop, NoConfigurationLeft, Report, runVars, childVars
  <1>8. CASE Children
    BY <1>8 DEF Children, GazerPrints, GazerWritesHarness, ClangCompiles, TestFails, ChildExits,
                runVars
  <1>9. CASE Done \/ UNCHANGED vars
    BY <1>9 DEF Done, vars, childVars, runVars
  <1> QED BY <1>2, <1>3, <1>4, <1>5, <1>6, <1>7, <1>8, <1>9 DEF Next, Script

\* What is read from the pipe is what the running configuration has printed.
LEMMA OutputInvNext ==
    ASSUME ScriptOK, ChildrenOK, ChildInv, OutputInv, [Next]_vars
    PROVE  OutputInv'
  <1> USE NumConfigsAssumption
  <1> USE DEF OutputInv, Busy
  <1>1. CASE StartConfiguration
    BY <1>1 DEF StartConfiguration, RunGazer, RunCommand, ScriptOK, options
  <1>2. CASE ReadLine
    <2>1. /\ Head(pipe) = pipe[1] /\ 1 \in DOMAIN pipe
          /\ \A k \in DOMAIN Tail(pipe) : Tail(pipe)[k] = pipe[k + 1] /\ k + 1 \in DOMAIN pipe
      BY <1>2 DEF ReadLine, ChildrenOK
    <2>2. cmd = "gazer" => \A k \in DOMAIN pipe' : pipe'[k] = printed'[cur']
      BY <1>2, <2>1 DEF ReadLine, loopVars
    <2> QED BY <1>2, <2>1, <2>2 DEF ReadLine, Matches, options, loopVars
  <1>3. CASE EndOfFile \/ AlarmCloses
    BY <1>3 DEF EndOfFile, AlarmCloses, options, loopVars, childVars
  <1>4. CASE AlarmRings
    BY <1>4 DEF AlarmRings, options, loopVars
  <1>5. CASE GazerReturns
    BY <1>5 DEF GazerReturns, RunCommand, Succeed, Stop, options, ScriptOK, Configs
  <1>6. CASE ClangReturns
    BY <1>6 DEF ClangReturns, RunCommand, options
  <1>7. CASE TestReturns \/ NoConfigurationLeft \/ Report
    BY <1>7 DEF TestReturns, Succeed, Stop, NoConfigurationLeft, Report
  <1>8. CASE GazerPrints
    <2>1. PICK v \in Verdicts : /\ printed' = [printed EXCEPT ![cur] = v]
                                /\ pipe' = IF pc = "read" THEN Append(pipe, v) ELSE pipe
      BY <1>8 DEF GazerPrints
    <2>2. /\ pc \in {"read", "close"} /\ cmd = "gazer" /\ printed[cur] = Undef
          /\ UNCHANGED <<pc, cmd, result, cur>>
      BY <1>8 DEF GazerPrints, Running, ChildInv, runVars, loopVars
    <2>3. cur \in Configs /\ printed'[cur] = v
      BY <2>1, <2>2 DEF ScriptOK, ChildrenOK, Configs
    <2>4. CASE pc = "close"
      BY <2>2, <2>4
    <2>5. CASE pc = "read"
      <3>1. pipe = <<>>
        <4>1. ASSUME pipe # <<>> PROVE FALSE
          <5>1. 1 \in DOMAIN pipe /\ pipe[1] \in Verdicts \cup {Witness}
            BY <4>1 DEF ChildrenOK
          <5> QED BY <5>1, <2>2, <2>5, UndefAssumption DEF Outcomes
        <4> QED BY <4>1
      <3>2. \A k \in DOMAIN pipe' : pipe'[k] = v
        BY <2>1, <2>5, <3>1
      <3> QED BY <2>2, <2>3, <2>5, <3>2
    <2> QED BY <2>2, <2>4, <2>5
  <1>9. CASE GazerWritesHarness \/ ClangCompiles \/ ChildExits
    BY <1>9 DEF GazerWritesHarness, ClangCompiles, ChildExits, options, runVars, loopVars
  <1>10. CASE TestFails
    BY <1>10 DEF TestFails, Running, options, runVars, loopVars
  <1>11. CASE Done \/ UNCHANGED vars
    BY <1>11 DEF Done, vars, options, runVars, loopVars, childVars
  <1> QED BY <1>1, <1>2, <1>3, <1>4, <1>5, <1>6, <1>7, <1>8, <1>9, <1>10, <1>11
          DEF Next, Script, Children

\* A result that has been stored is a verdict that was read.
LEMMA ResultInvNext ==
    ASSUME TypeOK, OutputInv, ResultInv, [Next]_vars
    PROVE  ResultInv'
  <1> USE NumConfigsAssumption, UndefAssumption
  <1> USE DEF ResultInv, TypeOK, Configs
  <1>0. /\ Undef \notin Verdicts /\ Witness \notin Verdicts /\ "TIMEOUT" \notin Verdicts
        /\ "NONE" \notin Verdicts /\ "SUCCESSFUL" \in Verdicts
    BY DEF Outcomes, Verdicts, Witness
  <1>1. ASSUME UNCHANGED <<results, harnessResults, successful, printed, cur, finishAll, checkHarness>>,
               successful /\ ~finishAll => pc' \in {"report", "done"}
        PROVE  ResultInv'
    BY <1>1 DEF Confirmed
  <1>2. CASE StartConfiguration
    <2>1. ~(successful /\ ~finishAll)
      BY <1>2 DEF StartConfiguration
    <2>2. UNCHANGED <<results, harnessResults, successful, printed, finishAll>>
      BY <1>2 DEF StartConfiguration, RunGazer, RunCommand, options
    <2>3. cur' # 0
      BY <1>2 DEF StartConfiguration, ScriptOK
    <2> QED BY <2>1, <2>2, <2>3
  <1>3. CASE ReadLine \/ EndOfFile \/ AlarmCloses \/ AlarmRings
    <2>1. pc \in {"read", "close"}
      BY <1>3 DEF ReadLine, EndOfFile, AlarmCloses, AlarmRings
    <2>2. UNCHANGED <<results, harnessResults, successful, printed, cur, finishAll, checkHarness>>
      BY <1>3 DEF ReadLine, EndOfFile, AlarmCloses, AlarmRings, options, loopVars, childVars
    <2> QED BY <1>1, <2>1, <2>2
  <1>4. CASE GazerReturns
    <2>1. /\ pc = "classify" /\ cmd = "gazer" /\ cur \in Configs
          /\ results' = [results EXCEPT ![cur] = Returned]
          /\ UNCHANGED <<harnessResults, cur, finishAll, checkHarness, printed>>
      BY <1>4 DEF GazerReturns, RunCommand, OutputInv, Busy, ScriptOK, options, childVars
    <2>2. Returned \in Verdicts => Returned = printed[cur]
      BY <2>1, <1>0 DEF Returned, OutputInv, Busy
    <2>3. \A c \in Configs : results'[c] \in Verdicts => printed'[c] = results'[c]
      BY <2>1, <2>2 DEF ScriptOK
    <2>4. ~(successful /\ ~finishAll)
      BY <2>1
    <2>5. CASE Returned = "SUCCESSFUL" /\ Succeed
      <3>1. results'[cur] = "SUCCESSFUL" /\ successful'
        BY <2>1, <2>5, <1>0 DEF ScriptOK, Succeed
      <3>2. ~finishAll => pc' = "report"
        BY <2>5 DEF Succeed, Stop
      <3> QED BY <2>1, <2>3, <3>1, <3>2 DEF Confirmed
    <2>6. CASE Returned # "SUCCESSFUL" /\ UNCHANGED successful
      BY <2>1, <2>3, <2>4, <2>6 DEF ScriptOK
    <2>7. "FAILED" # "SUCCESSFUL"
      OBVIOUS
    <2> QED BY <1>4, <2>5, <2>6, <2>7, Zenon DEF GazerReturns
  <1>5. CASE ClangReturns
    <2>1. /\ pc = "classify" /\ cmd = "clang" /\ cur \in Configs
          /\ UNCHANGED <<results, successful, printed, cur, finishAll, checkHarness>>
      BY <1>5 DEF ClangReturns, RunCommand, OutputInv, Busy, ScriptOK, options, childVars
    <2>2. Returned # Witness
      BY <2>1 DEF Returned, OutputInv, Busy, Witness, Outcomes
    <2>3. \/ UNCHANGED harnessResults
          \/ harnessResults' = [harnessResults EXCEPT ![cur] = Returned]
      BY <1>5 DEF ClangReturns
    <2>4. \A c \in Configs : harnessResults'[c] = Witness => harnessResults[c] = Witness
      BY <2>1, <2>2, <2>3 DEF ScriptOK
    <2> QED BY <2>1, <2>4
  <1>6. CASE TestReturns
    <2>1. /\ pc = "classify" /\ cmd = "test" /\ cur \in Configs
          /\ results[cur] = "FAILED" /\ checkHarness
          /\ harnessResults' = [harnessResults EXCEPT ![cur] = Returned]
          /\ UNCHANGED <<results, printed, cur, finishAll, checkHarness>>
      BY <1>6 DEF TestReturns, OutputInv, Busy, ScriptOK, options, childVars
    <2>2. ~(successful /\ ~finishAll)
      BY <2>1
    <2>3. CASE Returned = Witness /\ Succeed
      <3>1. harnessResults'[cur] = Witness /\ successful'
        BY <2>1, <2>3 DEF ScriptOK, Succeed
      <3>2. ~finishAll => pc' = "report"
        BY <2>3 DEF Succeed, Stop
      <3> QED BY <2>1, <3>1, <3>2 DEF Confirmed
    <2>4. CASE Returned # Witness /\ UNCHANGED successful
      BY <2>1, <2>2, <2>4 DEF ScriptOK
    <2> QED BY <1>6, <2>3, <2>4 DEF TestReturns
  <1>7. CASE NoConfigurationLeft \/ Report
    BY <1>7, <1>1 DEF NoConfigurationLeft, Report, options, loopVars, childVars
  <1>8. CASE Done \/ UNCHANGED vars
    BY <1>8, <1>1 DEF Done, vars, options, loopVars, childVars
  <1>9. CASE Children
    <2>1. UNCHANGED <<results, harnessResults, successful, cur, finishAll, checkHarness, pc>>
      BY <1>9 DEF Children, GazerPrints, GazerWritesHarness, ClangCompiles, TestFails, ChildExits,
                  options, loopVars
    <2>2. \A c \in Configs : printed[c] \in Verdicts => printed'[c] = printed[c]
      BY <1>9, <1>0 DEF Children, GazerPrints, GazerWritesHarness, ClangCompiles, TestFails,
                        ChildExits, ChildrenOK
    <2> QED BY <2>1, <2>2 DEF Confirmed
  <1> QED BY <1>2, <1>3, <1>4, <1>5, <1>6, <1>7, <1>8, <1>9 DEF Next, Script

\* The final result is drawn from the last result that was stored.
LEMMA FinalInvNext ==
    ASSUME TypeOK, ResultInv, FinalInv, [Next]_vars
    PROVE  FinalInv'
  <1> USE UndefAssumption
  <1> USE DEF FinalInv
  <1>1. ASSUME UNCHANGED final, pc # "done", pc' # "done" PROVE FinalInv'
    BY <1>1 DEF Outcomes
  <1>2. ASSUME UNCHANGED <<pc, final, successful, finishAll, results, cur>> PROVE FinalInv'
    BY <1>2
  <1>3. CASE Report
    <2>1. finishAll \in BOOLEAN /\ successful \in BOOLEAN
      BY DEF TypeOK, FlagsOK
    <2>2. /\ UNCHANGED <<finishAll, successful, results, cur>> /\ pc' = "done"
          /\ final' = IF finishAll THEN Undef ELSE IF successful THEN results[cur] ELSE "NONE"
          /\ pc = "report"
      BY <1>3 DEF Report, options
    <2>3. Undef # "NONE"
      BY DEF Outcomes
    <2>4. successful /\ ~finishAll => results[cur] # "NONE"
      BY DEF ResultInv, Confirmed
    <2>5. CASE finishAll
      BY <2>2, <2>3, <2>5
    <2>6. CASE ~finishAll /\ successful
      BY <2>2, <2>4, <2>6
    <2>7. CASE ~finishAll /\ ~successful
      BY <2>2, <2>7
    <2> QED BY <2>1, <2>5, <2>6, <2>7
  <1>4. CASE Done \/ UNCHANGED vars
    BY <1>4, <1>2 DEF Done, vars, options, loopVars
  <1>5. CASE Children
    BY <1>5, <1>2 DEF Children, GazerPrints, GazerWritesHarness, ClangCompiles, TestFails,
                      ChildExits, options, loopVars
  <1>6. CASE StartConfiguration
    BY <1>6, <1>1 DEF StartConfiguration, RunGazer, RunCommand
  <1>7. CASE ReadLine \/ EndOfFile \/ AlarmCloses \/ AlarmRings
    BY <1>7, <1>1 DEF ReadLine, EndOfFile, AlarmCloses, AlarmRings, loopVars
  <1>8. CASE GazerReturns
    <2>1. pc' # "done"
      BY <1>8 DEF GazerReturns, RunCommand, Succeed, Stop
    <2> QED BY <1>8, <1>1, <2>1 DEF GazerReturns
  <1>9. CASE ClangReturns
    <2>1. pc' # "done"
      BY <1>9 DEF ClangReturns, RunCommand
    <2> QED BY <1>9, <1>1, <2>1 DEF ClangReturns
  <1>10. CASE TestReturns \/ NoConfigurationLeft
    <2>1. pc' # "done"
      BY <1>10 DEF TestReturns, NoConfigurationLeft, Succeed, Stop
    <2> QED BY <1>10, <1>1, <2>1 DEF TestReturns, NoConfigurationLeft, loopVars
  <1> QED BY <1>3, <1>4, <1>5, <1>6, <1>7, <1>8, <1>9, <1>10 DEF Next, Script

-----------------------------------------------------------------------------
(***************************************************************************)
(* The script and its children keep the types and the invariant, whatever  *)
(* the children do and whenever the alarm rings.                           *)
(***************************************************************************)
THEOREM Invariance == Spec => [](TypeOK /\ Inv)
  <1>1. Init => TypeOK /\ Inv
    BY TypeInit, InvInit
  <1>2. ASSUME TypeOK, Inv, [Next]_vars PROVE TypeOK' /\ Inv'
    <2>1. FlagsOK' /\ ScriptOK' /\ ChildrenOK'
      BY <1>2, FlagsNext, ScriptNext, ChildrenNext DEF TypeOK, Inv, ResultInv
    <2>2. ChildInv' /\ OutputInv' /\ ResultInv' /\ FinalInv'
      BY <1>2, ChildInvNext, OutputInvNext, ResultInvNext, FinalInvNext DEF TypeOK, Inv
    <2> QED BY <2>1, <2>2 DEF TypeOK, Inv
  <1> QED BY <1>1, <1>2, PTL DEF Spec

\* The variables hold what Perl can put there: $last_config stays within the
\* configurations, every line and result is one the script knows.
THEOREM TypeCorrect == Spec => []TypeOK
  BY Invariance, PTL

\* The final result is a conclusive verdict printed by the last configuration
\* itself, and with check-harness a FAILED one has been confirmed by a harness.
THEOREM FinalConfirmed == Spec => []FinalIsConfirmed
  <1>1. TypeOK /\ Inv => FinalIsConfirmed
    <2> SUFFICES ASSUME TypeOK, Inv, pc = "done", final \notin {Undef, "NONE"}
                 PROVE  /\ final \in {"FAILED", "SUCCESSFUL"}
                        /\ printed[cur] = final
                        /\ final = "FAILED" /\ checkHarness => harnessResults[cur] = Witness
      BY DEF FinalIsConfirmed
    <2>1. successful /\ ~finishAll /\ final = results[cur] /\ cur \in Configs /\ Confirmed
      BY NumConfigsAssumption DEF Inv, FinalInv, ResultInv, TypeOK, ScriptOK, Configs
    <2>2. final \in {"FAILED", "SUCCESSFUL"} /\ final \in Verdicts
      BY <2>1 DEF Confirmed, Verdicts
    <2>3. printed[cur] = final
      BY <2>1, <2>2 DEF Inv, ResultInv
    <2> QED BY <2>1, <2>2, <2>3 DEF Confirmed
  <1> QED BY <1>1, Invariance, PTL

\* NONE is the final result only if no configuration was SUCCESSFUL and no
\* FAILED one was confirmed.
THEOREM NoneJustified == Spec => []NoneIsJustified
  <1>1. Inv => NoneIsJustified
    BY DEF Inv, FinalInv, ResultInv, NoneIsJustified
  <1> QED BY <1>1, Invariance, PTL

\* SIGALRM can only arrive inside the eval of the command it was set for.
THEOREM AlarmOwned == Spec => []AlarmBelongsToCommand
  <1>1. Inv => AlarmBelongsToCommand
    BY DEF Inv, ChildInv, AlarmBelongsToCommand
  <1> QED BY <1>1, Invariance, PTL

\* Without finish-all-configurations no configuration is started after one that
\* succeeded.
THEOREM StopsAfterSuccess == Spec => NothingAfterSuccess
  <1>1. ASSUME TypeOK, Inv, [Next]_vars PROVE [StartsBeforeSuccess]_vars
    <2>1. cur' # cur => StartConfiguration
      BY <1>1 DEF Next, Script, Children, StartConfiguration, ReadLine, EndOfFile, AlarmCloses,
                  GazerReturns, ClangReturns, TestReturns, NoConfigurationLeft, Report, AlarmRings, GazerPrints,
                  GazerWritesHarness, ClangCompiles, TestFails, ChildExits, Done, vars, loopVars
    <2>2. StartConfiguration => ~(successful /\ ~finishAll)
      BY <1>1 DEF StartConfiguration, Inv, ResultInv
    <2>3. 1 .. cur \subseteq Configs
      BY <1>1, NumConfigsAssumption DEF TypeOK, ScriptOK, Configs
    <2> QED BY <1>1, <2>1, <2>2, <2>3 DEF Inv, ResultInv, StartsBeforeSuccess
  <1> QED BY <1>1, Invariance, PTL DEF Spec, NothingAfterSuccess

=============================================================================
