------------------------------ MODULE UnitTest ------------------------------
(***************************************************************************)
(* The unit test framework (include/corecpp/unittest.h): a test_unit runs  *)
(* the fixtures named on the command line or all of them, a fixture its    *)
(* tests, a test one or more groups of cases (run(cases, fn), whose        *)
(* results are added), and a case asserts.                                 *)
(*                                                                         *)
(* What a test does is anything it can do: pass, fail assertions, fail     *)
(* fatally, throw something standard or not, inside a case or beside it.   *)
(* The result and the errors of run are mutable members that all groups    *)
(* of a fixture share.                                                     *)
(***************************************************************************)
EXTENDS Integers, FiniteSetsExt, SequencesExt

CONSTANTS NFixtures, NTests,  \* the fixtures, and the tests that each of them has
          NGroups, NCases,    \* bounds: the groups of a test, the cases of a group
          MaxFailures         \* bound: the failures recorded in one group

ASSUME UnitTestAssumption ==
  {NFixtures, NTests, NGroups, NCases, MaxFailures} \subseteq Nat \ {0}

Fixtures == 1..NFixtures
Tests    == 1..NTests
Groups   == 1..NGroups

\* test_result
SUCCESS == 0
FAILURE == 1
FATAL   == 3
EXCEPTION == 4   \* EXCEPT in the code

VARIABLES pc,
          selected,        \* the tests to run, as pairs of fixture and test, in order
          next,            \* the first of them that has not been started
          m_setted,        \* test_fixture::m_setted of each fixture
          m_result, m_errors, m_current_test_index,   \* of the fixture that runs
          group,           \* the group that runs
          position, cases, \* the iterator of run(cases, fn), and how many cases there are
          results,         \* what the groups of the test have returned, or None
          result,          \* the result of the test
          res, ret,        \* a test of this fixture has failed; the exit status
          happened,        \* history: the failures of each group as they came
          escaped,         \* history: an exception left the test function
          failed,          \* history: a case has failed, or an exception has left a test
          ran              \* history: the tests that were run

counters == <<m_result, m_errors, m_current_test_index>>
loop     == <<group, position, cases, results>>
history  == <<happened, escaped, failed, ran>>
suiteVars == <<pc, selected, next, m_setted, counters, loop, result, res, ret, history>>

Clean == [value |-> SUCCESS, errors |-> <<>>]
None  == [value |-> -1, errors |-> <<>>]
Uncaught == [value |-> FATAL, errors |-> <<[case |-> 0, kind |-> "uncaught"]>>]

SuiteInit ==
  /\ pc = "start"
  /\ selected = <<>> /\ next = 1
  /\ m_setted = [f \in Fixtures |-> FALSE]
  /\ m_errors = <<>>
  /\ m_result \in {SUCCESS, EXCEPTION} /\ m_current_test_index \in 0..1   \* not initialised
  /\ group = 0 /\ position = 0 /\ cases = 0
  /\ results = [g \in Groups |-> None]
  /\ result = Clean
  /\ res = SUCCESS /\ ret = SUCCESS
  /\ happened = [g \in Groups |-> <<>>]
  /\ escaped = FALSE /\ failed = FALSE /\ ran = <<>>

-----------------------------------------------------------------------------
(***************************************************************************)
(* The command line.                                                       *)
(***************************************************************************)
TestsOf(f) == [t \in Tests |-> <<f, t>>]
AllTests == FlattenSeq([f \in Fixtures |-> TestsOf(f)])

\* test_unit::run, and run(command_line&, ...) of the fixture it names: one
\* test, the tests of one fixture, or, as well when the name is unknown, all.
Select ==
  /\ pc = "start"
  /\ selected' \in {AllTests} \cup {TestsOf(f) : f \in Fixtures}
                   \cup {<<<<f, t>>>> : f \in Fixtures, t \in Tests}
  /\ pc' = "fixture"
  /\ UNCHANGED <<next, m_setted, counters, loop, result, res, ret, history>>

\* Options that cannot be parsed, or --help.
Refuse(status) ==
  /\ pc = "start"
  /\ pc' = "refused"
  /\ ret' = status
  /\ UNCHANGED <<selected, next, m_setted, counters, loop, result, res, history>>

-----------------------------------------------------------------------------
(***************************************************************************)
(* Fixtures and tests.                                                     *)
(***************************************************************************)
Fixture == selected[next][1]
LastOfFixture == next = Len(selected) \/ selected[next + 1][1] # Fixture

Setup ==
  /\ pc = "fixture" /\ next <= Len(selected)
  /\ m_setted' = [m_setted EXCEPT ![Fixture] = TRUE]
  /\ res' = SUCCESS
  /\ pc' = "test"
  /\ UNCHANGED <<selected, next, counters, loop, result, ret, history>>

\* reset() and the call of the test function.
RunTest ==
  /\ pc = "test"
  /\ ran' = Append(ran, selected[next])
  /\ escaped' = FALSE
  /\ pc' = "body"
  /\ UNCHANGED <<selected, next, m_setted, counters, loop, result, res, ret, happened, failed>>

EscapeTest ==
  /\ escaped' = TRUE /\ failed' = TRUE
  /\ result' = Uncaught
  /\ pc' = "report"

\* Whatever leaves reset() or the test function is caught: run(name, test, verbose).
TestThrows ==
  /\ pc = "body"
  /\ EscapeTest
  /\ UNCHANGED <<selected, next, m_setted, counters, loop, res, ret, happened, ran>>

\* An assertion outside of run(cases, fn) fails: only the members hear of it.
StrayFailure ==
  /\ pc = "body"
  /\ Len(m_errors) < MaxFailures
  /\ m_result' = IF m_result < FAILURE THEN FAILURE ELSE m_result
  /\ m_errors' = Append(m_errors, [case |-> m_current_test_index, kind |-> "failure"])
  /\ UNCHANGED <<pc, selected, next, m_setted, m_current_test_index, loop, result, res, ret, history>>

\* operator+ of test_case_result
Plus(a, b) == [value |-> Max({a.value, b.value}), errors |-> a.errors \o b.errors]

\* The results of the groups that were run, added up from the first to the last.
Sums(rs) ==
  LET sum[g \in 0..NGroups] ==
        IF g = 0 THEN Clean
        ELSE IF rs[g] = None THEN sum[g - 1] ELSE Plus(sum[g - 1], rs[g])
  IN  sum

TestReturns ==
  /\ pc = "body"
  /\ result' = Sums(results)[NGroups]
  /\ pc' = "report"
  /\ UNCHANGED <<selected, next, m_setted, counters, loop, res, ret, history>>

\* What is local to the run of a test is gone.
Forget ==
  /\ group' = 0 /\ position' = 0 /\ cases' = 0
  /\ results' = [g \in Groups |-> None]
  /\ result' = Clean
  /\ happened' = [g \in Groups |-> <<>>]

Report ==
  /\ pc = "report"
  /\ res' = IF result.value = SUCCESS THEN res ELSE FAILURE
  /\ IF LastOfFixture THEN pc' = "teardown" /\ UNCHANGED next
     ELSE pc' = "test" /\ next' = next + 1
  /\ Forget
  /\ UNCHANGED <<selected, m_setted, counters, ret, escaped, failed, ran>>

\* Mutant: the status of the last fixture is that of the suite.
TearDownLast ==
  /\ pc = "teardown"
  /\ m_setted' = [m_setted EXCEPT ![Fixture] = FALSE]
  /\ ret' = res
  /\ next' = next + 1
  /\ pc' = IF next = Len(selected) THEN "done" ELSE "fixture"
  /\ UNCHANGED <<selected, counters, loop, result, res, history>>

TearDown ==
  /\ pc = "teardown"
  /\ m_setted' = [m_setted EXCEPT ![Fixture] = FALSE]
  /\ ret' = IF res = SUCCESS THEN ret ELSE FAILURE
  /\ next' = next + 1
  /\ pc' = IF next = Len(selected) THEN "done" ELSE "fixture"
  /\ UNCHANGED <<selected, counters, loop, result, res, history>>

\* An exception of setup() or teardown() is caught nowhere.
Terminate ==
  /\ pc \in {"fixture", "teardown"}
  /\ pc' = "terminated"
  /\ UNCHANGED <<selected, next, m_setted, counters, loop, result, res, ret, history>>

-----------------------------------------------------------------------------
(***************************************************************************)
(* run(cases, fn).                                                         *)
(***************************************************************************)
\* Mutant: the errors of the group before stay.
RunCasesOn ==
  /\ pc = "body"
  /\ \E g \in Groups, n \in 0..NCases :
       results[g] = None /\ group' = g /\ cases' = n
  /\ m_result' = SUCCESS /\ m_current_test_index' = 0
  /\ position' = 1
  /\ pc' = "loop"
  /\ UNCHANGED <<selected, next, m_setted, m_errors, results, result, res, ret, history>>

\* The groups that are added are run in any order.
RunCases ==
  /\ pc = "body"
  /\ \E g \in Groups, n \in 0..NCases :
       results[g] = None /\ group' = g /\ cases' = n
  /\ m_result' = SUCCESS /\ m_errors' = <<>> /\ m_current_test_index' = 0
  /\ position' = 1
  /\ pc' = "loop"
  /\ UNCHANGED <<selected, next, m_setted, results, result, res, ret, history>>

EnterCase ==
  /\ pc = "loop" /\ position <= cases
  /\ pc' = "case"
  /\ UNCHANGED <<selected, next, m_setted, counters, loop, result, res, ret, history>>

\* The failures of these kinds, each of this severity, are recorded.
Record(kinds, value) ==
  /\ Len(m_errors) + Len(kinds) <= MaxFailures
  /\ m_result' = Max({m_result, value})
  /\ m_errors' = m_errors \o [i \in DOMAIN kinds |-> [case |-> m_current_test_index, kind |-> kinds[i]]]
  /\ happened' = [happened EXCEPT ![group] =
                    @ \o [i \in DOMAIN kinds |-> [case |-> position - 1, kind |-> kinds[i]]]]
  /\ failed' = TRUE
  /\ UNCHANGED <<selected, next, m_setted, loop, result, res, ret, escaped, ran>>

\* An assertion fails, or assert_throws does, and the case goes on.
AssertFails ==
  /\ pc = "case"
  /\ Record(<<"failure">>, FAILURE)
  /\ UNCHANGED <<pc, m_current_test_index>>

\* assert_throws around a fatal assertion that fails: it swallows the
\* exception, and records it too unless that is what it expects.
SwallowFatal ==
  /\ pc = "case"
  /\ \E kinds \in {<<"fatal">>, <<"fatal", "failure">>} : Record(kinds, FATAL)
  /\ UNCHANGED <<pc, m_current_test_index>>

\* A fatal assertion fails and its exception ends the case.
FatalFails ==
  /\ pc = "case"
  /\ Record(<<"fatal">>, FATAL)
  /\ pc' = "next"
  /\ UNCHANGED m_current_test_index

\* A standard exception ends the case.
CaseThrows ==
  /\ pc = "case"
  /\ Record(<<"exception">>, EXCEPTION)
  /\ pc' = "next"
  /\ UNCHANGED m_current_test_index

CaseReturns ==
  /\ pc = "case"
  /\ pc' = "next"
  /\ UNCHANGED <<selected, next, m_setted, counters, loop, result, res, ret, history>>

NextCase ==
  /\ pc = "next"
  /\ m_current_test_index' = m_current_test_index + 1
  /\ position' = position + 1
  /\ pc' = "loop"
  /\ UNCHANGED <<selected, next, m_setted, m_result, m_errors, group, cases, results,
                 result, res, ret, history>>

\* An exception that is none of the standard ones passes run(cases, fn) too.
CaseEscapes ==
  /\ pc = "case"
  /\ EscapeTest
  /\ UNCHANGED <<selected, next, m_setted, counters, loop, res, ret, happened, ran>>

GroupReturns ==
  /\ pc = "loop" /\ position > cases
  /\ results' = [results EXCEPT ![group] = [value |-> m_result, errors |-> m_errors]]
  /\ pc' = "body"
  /\ UNCHANGED <<selected, next, m_setted, counters, group, position, cases, result, res, ret, history>>

SuiteNext ==
  \/ Select \/ Refuse(SUCCESS) \/ Refuse(FAILURE)
  \/ Setup \/ RunTest \/ TestThrows \/ StrayFailure \/ TestReturns
  \/ Report \/ TearDown \/ Terminate
  \/ RunCases \/ EnterCase \/ AssertFails \/ SwallowFatal \/ FatalFails
  \/ CaseThrows \/ CaseReturns \/ NextCase \/ CaseEscapes \/ GroupReturns

SuiteSpec == SuiteInit /\ [][SuiteNext]_suiteVars

-----------------------------------------------------------------------------
Kinds == {"failure", "fatal", "exception"}
Failures == [case : Nat, kind : Kinds]
Results == [value : SUCCESS..EXCEPTION, errors : Seq(Failures)]

\* The variables keep their types.
SuiteTypeOK ==
  /\ pc \in {"start", "refused", "fixture", "test", "body", "loop", "case", "next",
             "report", "teardown", "done", "terminated"}
  /\ {selected, ran} \subseteq Seq(Fixtures \X Tests) /\ next \in Nat \ {0}
  /\ m_setted \in [Fixtures -> BOOLEAN]
  /\ m_result \in SUCCESS..EXCEPTION /\ m_errors \in Seq(Failures)
  /\ m_current_test_index \in Nat
  /\ group \in 0..NGroups /\ position \in Nat /\ cases \in 0..NCases
  /\ results \in [Groups -> Results \cup {None}]
  /\ result \in Results \cup {Uncaught}
  /\ {res, ret} \subseteq {SUCCESS, FAILURE}
  /\ happened \in [Groups -> Seq(Failures)]
  /\ escaped \in BOOLEAN /\ failed \in BOOLEAN

Severity == [failure |-> FAILURE, fatal |-> FATAL, exception |-> EXCEPTION]

\* The result of a test has every failure of every case once, with the number
\* of its case and in the order of the groups as they are added, whatever the
\* order in which they ran, and is as bad as the worst of them: the groups
\* share m_result and m_errors and disturb one another nowhere.  A test that
\* was left by an exception is not meant: its result is "Uncaught error" alone,
\* and the failures its groups had recorded are dropped.
ReportedOnce ==
  pc = "report" /\ ~ escaped =>
    LET all == FlattenSeq(happened)
    IN  /\ result.errors = all
        /\ result.value = Max({SUCCESS} \cup {Severity[all[i].kind] : i \in DOMAIN all})

\* The exit status is that of success exactly if no case has failed and no
\* exception has left a test, and it is about the selected tests, each of which
\* was run once and in order, whatever the tests before it did.  Between two
\* fixtures and at the end each setup has had its teardown.
SuiteSound ==
  /\ pc = "done" => (ret = SUCCESS <=> ~ failed) /\ ran = selected
  /\ pc \in {"fixture", "done"} => \A f \in Fixtures : ~ m_setted[f]
=============================================================================
