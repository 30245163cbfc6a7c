----------------------------- MODULE Portfolio -----------------------------
(***************************************************************************)
(* The portfolio script: scripts/portfolio/Portfolio.pl and                *)
(* scripts/portfolio/lib/Execute.pm.                                       *)
(*                                                                         *)
(* The script runs the configurations of a YAML file one after the other.  *)
(* Each is a child process whose output it reads through a pipe while an   *)
(* alarm may ring; when a verifier reports an error, the test harness it   *)
(* wrote is compiled and executed.  Script, child and alarm interleave.    *)
(*                                                                         *)
(* A line of output is kept by what the script looks for in it.  The files *)
(* the children leave on disk are known by the configuration they come     *)
(* from, 0 being a file from before the script was started, or no file.    *)
(***************************************************************************)
EXTENDS Naturals, Sequences

CONSTANTS NumConfigs,    \* length of `configurations'
          Undef          \* Perl's undef

Configs == 1 .. NumConfigs

ASSUME NumConfigsAssumption == NumConfigs \in Nat

Verdicts == {"FAILED", "SUCCESSFUL", "OTHER"}   \* lines that match /Verification.*/
Witness == "WITNESS"                            \* a line that matches $required_test_output
Outcomes == Verdicts \cup {Witness, "TIMEOUT", "ERROR", "NONE"}

ASSUME UndefAssumption == Undef \notin Outcomes

VARIABLES
    finishAll, checkHarness,    \* the global options
    timed,                      \* the configurations with a timeout
    pc, cur,                    \* where the script is, and $last_config
    cmd, result, status, armed, \* run_command: command, $result, $?, the alarm
    results, harnessResults, successful, final,
    child, pipe, code,          \* the child process, its unread output, its exit code
    printed,                    \* the verdict line each configuration has printed
    harness, binary             \* whose test harness is on disk, whose is compiled

options == <<finishAll, checkHarness, timed>>
runVars == <<cmd, result, status, armed>>
loopVars == <<cur, results, harnessResults, successful, final>>
childVars == <<child, pipe, code, printed, harness, binary>>
vars == <<options, pc, runVars, loopVars, childVars>>

Init ==
    /\ finishAll \in BOOLEAN /\ checkHarness \in BOOLEAN /\ timed \in SUBSET Configs
    /\ pc = "next" /\ cur = 0
    /\ cmd = "gazer" /\ result = Undef /\ status = 0 /\ armed = FALSE
    /\ results = [c \in Configs |-> Undef] /\ harnessResults = [c \in Configs |-> Undef]
    /\ successful = FALSE /\ final = Undef
    /\ child = "none" /\ pipe = <<>> /\ code = 0
    /\ printed = [c \in Configs |-> Undef]
    /\ harness = 0 /\ binary = 0

-----------------------------------------------------------------------------
(* Child processes: gazer-bmc or gazer-theta, clang, the test binary       *)

Running(c) == child = "running" /\ cmd = c

\* LLVMFrontend prints the verdict, for nobody if the pipe has been closed ...
GazerPrints ==
    /\ Running("gazer") /\ printed[cur] = Undef
    /\ \E v \in Verdicts : /\ printed' = [printed EXCEPT ![cur] = v]
                           /\ pipe' = IF pc = "read" THEN Append(pipe, v) ELSE pipe
    /\ UNCHANGED <<options, pc, runVars, loopVars, child, code, harness, binary>>

\* ... and then, if it has a trace and is asked to, writes the test harness.
GazerWritesHarness ==
    /\ Running("gazer") /\ checkHarness /\ printed[cur] = "FAILED" /\ harness # cur
    /\ harness' = cur
    /\ UNCHANGED <<options, pc, runVars, loopVars, child, pipe, code, printed, binary>>

ClangCompiles ==
    /\ Running("clang") /\ binary # harness
    /\ binary' = harness
    /\ UNCHANGED <<options, pc, runVars, loopVars, child, pipe, code, printed, harness>>

\* The test binary violates an assertion or divides by zero.
TestFails ==
    /\ Running("test") /\ pipe = <<>> /\ result = Undef
    /\ pipe' = Append(pipe, Witness)
    /\ UNCHANGED <<options, pc, runVars, loopVars, child, code, printed, harness, binary>>

\* A child exits by itself, or is ended: by SIGPIPE when it writes to the pipe
\* the script has closed, or by SIGTERM if it has set a handler of its own.
\* `bash -c "...; true"' hides the exit code of the test.
ChildExits ==
    /\ child = "running"
    /\ \E c \in 0 .. 1 : /\ cmd = "test" => c = 0
                         /\ code' = c
    /\ child' = "exited"
    /\ UNCHANGED <<options, pc, runVars, loopVars, pipe, printed, harness, binary>>

-----------------------------------------------------------------------------
(* run_command *)

\* open( $fhandle, '-|', $command ), which may fail, and alarm $timeout.
RunCommand(command, timeout) ==
    /\ cmd' = command /\ result' = Undef
    /\ \/ /\ pc' = "read" /\ child' = "running" /\ pipe' = <<>> /\ armed' = timeout
          /\ UNCHANGED code
       \/ /\ pc' = "classify"
          /\ UNCHANGED <<child, pipe, code, armed>>
    /\ UNCHANGED <<status, printed, harness, binary>>

\* Does the output format of the command match the line?  clang has no format.
Matches(line) == \/ cmd = "gazer" /\ line \in Verdicts
                 \/ cmd = "test" /\ line = Witness

ReadLine ==
    /\ pc = "read" /\ pipe # <<>>
    /\ pipe' = Tail(pipe)
    /\ result' = IF Matches(Head(pipe)) THEN Head(pipe) ELSE result
    /\ UNCHANGED <<options, pc, cmd, status, armed, loopVars, child, code, printed,
                   harness, binary>>

\* Mutant: the alarm is not cancelled.
EndOfFileArmed ==
    /\ pc = "read" /\ pipe = <<>> /\ child = "exited"
    /\ status' = code
    /\ pc' = "classify"
    /\ UNCHANGED <<options, cmd, result, armed, loopVars, childVars>>

\* End of file: alarm 0, and close sets $?.
EndOfFile ==
    /\ pc = "read" /\ pipe = <<>> /\ child = "exited"
    /\ armed' = FALSE
    /\ status' = code
    /\ pc' = "classify"
    /\ UNCHANGED <<options, cmd, result, loopVars, childVars>>

\* Mutant: the handler neither kills the child nor dies.
AlarmRingsIdly ==
    /\ pc = "read" /\ armed
    /\ armed' = FALSE
    /\ result' = "TIMEOUT"
    /\ UNCHANGED <<options, pc, cmd, status, loopVars, childVars>>

(***************************************************************************)
(* The handler of SIGALRM: killfam, close, die.  It rings at any time      *)
(* while the output is read, also after the verdict or the end of the      *)
(* child.  The signal killfam sends is SIGTERM, which the script has set   *)
(* to IGNORE before it forked: the child inherits that, also through exec, *)
(* and goes on.  No line it prints is read any more.                       *)
(***************************************************************************)
AlarmRings ==
    /\ pc = "read" /\ armed
    /\ armed' = FALSE
    /\ result' = "TIMEOUT"
    /\ pipe' = <<>>
    /\ pc' = "close"
    /\ UNCHANGED <<options, cmd, status, loopVars, child, code, printed, harness, binary>>

\* The close in the handler waits for the child, with no alarm set.
AlarmCloses ==
    /\ pc = "close" /\ child = "exited"
    /\ status' = code
    /\ pc' = "classify"
    /\ UNCHANGED <<options, cmd, result, armed, loopVars, childVars>>

(***************************************************************************)
(* What run_command returns.  Its test for ERROR is                        *)
(*     unless ( $return_0 eq 0 or $? eq 0 or $result = "TIMEOUT" )         *)
(* whose last operand assigns, and is true: a nonzero $? makes every       *)
(* result of gazer (return_0 = 1) a TIMEOUT.                               *)
(***************************************************************************)
Returned ==
    LET r == IF cmd = "gazer" /\ status # 0 THEN "TIMEOUT" ELSE result
    IN  IF r = Undef THEN "NONE" ELSE r

-----------------------------------------------------------------------------
(* execute_configurations and check_harness *)

\* run_gazer: a configuration without a timeout has `alarm 0', which sets none.
RunGazer(c) == RunCommand("gazer", c \in timed)

\* Mutant: one configuration too many.
StartConfigurationPast ==
    /\ pc = "next" /\ cur <= NumConfigs
    /\ cur' = cur + 1
    /\ RunGazer(cur')
    /\ UNCHANGED <<options, results, harnessResults, successful, final>>

StartConfiguration ==
    /\ pc = "next" /\ cur < NumConfigs
    /\ cur' = cur + 1
    /\ RunGazer(cur')
    /\ UNCHANGED <<options, results, harnessResults, successful, final>>

\* Mutant: a success does not end the loop.
StopNever == pc' = "next"

\* `last', unless all configurations are to be finished.
Stop == pc' = IF finishAll THEN "next" ELSE "report"

\* Mutant: $successful is not set.
SucceedSilently == UNCHANGED successful /\ Stop

Succeed == successful' = TRUE /\ Stop

\* run_gazer has returned.
GazerReturns ==
    /\ pc = "classify" /\ cmd = "gazer"
    /\ results' = [results EXCEPT ![cur] = Returned]
    /\ \/ /\ Returned = "SUCCESSFUL" /\ Succeed
          /\ UNCHANGED <<runVars, childVars>>
       \/ /\ Returned = "FAILED" /\ checkHarness
          /\ RunCommand("clang", TRUE)
          /\ UNCHANGED successful
       \/ /\ Returned # "SUCCESSFUL" /\ ~(Returned = "FAILED" /\ checkHarness)
          /\ pc' = "next"
          /\ UNCHANGED <<successful, runVars, childVars>>
    /\ UNCHANGED <<options, cur, harnessResults, final>>

\* clang has returned: only NONE goes on to the test.
ClangReturns ==
    /\ pc = "classify" /\ cmd = "clang"
    /\ IF Returned = "NONE"
       THEN RunCommand("test", TRUE) /\ UNCHANGED harnessResults
       ELSE /\ harnessResults' = [harnessResults EXCEPT ![cur] = Returned]
            /\ pc' = "next"
            /\ UNCHANGED <<runVars, childVars>>
    /\ UNCHANGED <<options, cur, results, successful, final>>

TestReturns ==
    /\ pc = "classify" /\ cmd = "test"
    /\ harnessResults' = [harnessResults EXCEPT ![cur] = Returned]
    /\ IF Returned = Witness THEN Succeed ELSE pc' = "next" /\ UNCHANGED successful
    /\ UNCHANGED <<options, cur, results, final, runVars, childVars>>

NoConfigurationLeft ==
    /\ pc = "next" /\ cur = NumConfigs
    /\ pc' = "report"
    /\ UNCHANGED <<options, runVars, loopVars, childVars>>

\* list_results and the final result, which is only drawn without finishAll.
Report ==
    /\ pc = "report"
    /\ final' = IF finishAll THEN Undef ELSE IF successful THEN results[cur] ELSE "NONE"
    /\ pc' = "done"
    /\ UNCHANGED <<options, runVars, cur, results, harnessResults, successful, childVars>>

Done == pc = "done" /\ UNCHANGED vars

Script == \/ StartConfiguration \/ ReadLine \/ EndOfFile \/ AlarmCloses \/ GazerReturns
          \/ ClangReturns \/ TestReturns \/ NoConfigurationLeft \/ Report

Children == GazerPrints \/ GazerWritesHarness \/ ClangCompiles \/ TestFails \/ ChildExits

\* A child may hang and need not be fair; the script runs, and an alarm rings
\* in the end if nothing else happens.
Next == Script \/ AlarmRings \/ Children \/ Done

Spec == Init /\ [][Next]_vars /\ WF_vars(Script) /\ WF_vars(AlarmRings)

-----------------------------------------------------------------------------
(* Properties *)

FlagsOK == /\ finishAll \in BOOLEAN /\ checkHarness \in BOOLEAN
           /\ armed \in BOOLEAN /\ successful \in BOOLEAN

ScriptOK ==
    /\ timed \subseteq Configs
    /\ pc \in {"next", "read", "close", "classify", "report", "done"}
    /\ cur \in 0 .. NumConfigs
    /\ cmd \in {"gazer", "clang", "test"}
    /\ result \in Outcomes \cup {Undef} /\ status \in Nat
    /\ results \in [Configs -> Outcomes \cup {Undef}]
    /\ harnessResults \in [Configs -> Outcomes \cup {Undef}]
    /\ final \in Outcomes \cup {Undef}

ChildrenOK ==
    /\ child \in {"none", "running", "exited"} /\ pipe \in Seq(Verdicts \cup {Witness})
    /\ code \in 0 .. 1
    /\ printed \in [Configs -> Verdicts \cup {Undef}]
    /\ harness \in 0 .. NumConfigs /\ binary \in 0 .. NumConfigs

\* The variables hold what Perl can put there.
TypeOK == FlagsOK /\ ScriptOK /\ ChildrenOK

\* The final result is a conclusive verdict that the last configuration run has
\* printed itself; with check-harness, FAILED has been confirmed by a harness.
FinalIsConfirmed ==
    pc = "done" /\ final \notin {Undef, "NONE"} =>
      /\ final \in {"FAILED", "SUCCESSFUL"}
      /\ printed[cur] = final
      /\ final = "FAILED" /\ checkHarness => harnessResults[cur] = Witness

\* The script ends with NONE only if no configuration has succeeded: neither
\* SUCCESSFUL nor FAILED with a confirmed witness.
NoneIsJustified ==
    final = "NONE" => \A c \in Configs : /\ results[c] # "SUCCESSFUL"
                                         /\ harnessResults[c] # Witness

\* An alarm is only pending while its own command is read: it never rings
\* outside the eval, where SIGALRM would end the script, nor for a later command.
AlarmBelongsToCommand == armed => pc = "read" /\ child # "none"

StartsBeforeSuccess ==
    cur' # cur => finishAll \/ \A c \in 1 .. cur : /\ results[c] # "SUCCESSFUL"
                                                  /\ harnessResults[c] # Witness

\* Without finish-all-configurations no configuration is started after one
\* that succeeded.
NothingAfterSuccess == [][StartsBeforeSuccess]_vars

\* A configuration without a timeout ends, and so does a child whose alarm has
\* rung: neither is up to the script.
ChildrenEnd ==
    /\ (pc = "read" /\ cmd = "gazer" /\ cur \notin timed) ~> (child # "running")
    /\ (pc = "close") ~> (child # "running")

\* The portfolio ends although any child that has a timeout may do nothing until
\* its alarm rings, provided that it ends then.
Termination == ChildrenEnd => <>(pc = "done")

-----------------------------------------------------------------------------
(* What the documentation says, and the script does not do                 *)

\* Portfolio.md:87: a timeout keeps the portfolio from getting stuck in a
\* verifier that does not end.
TimeoutsEndHangs == timed = Configs => <>(pc = "done")

\* Portfolio.md:52: without finish-all-configurations the first conclusive (safe
\* or unsafe) result stops the script and is returned, whether harnesses are
\* checked or not; claimed where no harness can make it inconclusive.
ConclusiveResultIsReturned ==
    pc = "done" /\ ~finishAll /\ ~checkHarness =>
      \A c \in Configs : results[c] \in {"FAILED", "SUCCESSFUL"} => c = cur /\ final = results[c]

=============================================================================
