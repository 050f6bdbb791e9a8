------------------------------ MODULE TcUtils ------------------------------
(***************************************************************************)
(* linux-tools/shared/tc_utils.source: the life of a shell testcase that   *)
(* sources it.  tc_setup sets the exit trap and starts the watchdog, the   *)
(* testcase registers its tests, reports verdicts and creates temporary    *)
(* users, groups, sleepers and a capture of the system log, and the trap   *)
(* tc_internal_cleanup takes everything back and chooses the exit status.  *)
(*                                                                         *)
(* What the testcase itself does is open: in tc_local_setup and in its     *)
(* body it makes any call in any order, may hang and may exit anywhere.    *)
(* External: the shell.  A SIGTERM runs the exit trap, unless it is        *)
(* running already, and the status is then 143 whatever the trap says; an  *)
(* exit without a number inside the trap ends it with the status that the  *)
(* script had before the trap; a ( ... ) that a killed shell was waiting   *)
(* for lives on.  Of the statuses a script gives 0 and 1 are told apart.   *)
(* A command that cannot be found, or is called with wrong arguments, is a *)
(* failing one.                                                            *)
(***************************************************************************)
EXTENDS Integers, FiniteSets

CONSTANTS
  TST_TOTAL,   \* tests the testcase announces
  Users, Groups, Sleepers,   \* names and pids the testcase may be given
  ExitCodes,   \* an exit status is taken modulo this (256)
  MaxTests,    \* bound on the calls of tc_register
  MaxFails     \* bound on the failures that come of themselves

ASSUME TcUtilsAssumption ==
  /\ MaxTests \in Nat /\ TST_TOTAL \in 0..MaxTests /\ ExitCodes \in 1..256 /\ MaxFails \in Nat
  /\ IsFiniteSet(Users) /\ IsFiniteSet(Groups) /\ IsFiniteSet(Sleepers)

VARIABLES
  pc,          \* where the script is
  TST_COUNT,
  tc_final_result, tc_brok_result, tc_warn_result, tc_watchdog_result,
  killed,      \* the script is ending because of a SIGTERM
  status,      \* -1 while it runs, in the trap the status before it, then
               \* the status the script ends with
  watchdog,    \* the process of tc_watchdog_script
  assassin,    \* the ( ... ) in which it kills
  pidfile,     \* $TC_SAVE/tc_watchdog_pid
  users, TC_TEMP_USERS,      \* on the system; as remembered
  groups, TC_TEMP_GROUPS,
  sleepers, TC_SLEEPER_PIDS,
  tail, tc_cap_log_pid,      \* the capture runs; its pid file is there
  net,         \* /etc/hosts and /etc/resolv.conf are as before
  TC_SAVE,     \* the directory with the saved files exists
  cut,         \* how the trap was cut short: by the account of the tests, by
               \* an exit without a number, by a SIGTERM, or "no"
  refused,     \* history: accounts whose deletion was tried and failed
  stopped,     \* history: the last deletion of the groups gave up
  cpfailed,    \* history: a network file was not saved or not restored
  counted      \* history: TST_COUNT when the trap took account of it

results == <<TST_COUNT, tc_final_result, tc_brok_result, tc_warn_result,
             tc_watchdog_result>>
ending == <<killed, status, cut, counted>>
dogVars == <<watchdog, assassin, pidfile>>
accounts == <<users, TC_TEMP_USERS, groups, TC_TEMP_GROUPS, refused,
              stopped>>
helpers == <<sleepers, TC_SLEEPER_PIDS, tail, tc_cap_log_pid>>
files == <<net, TC_SAVE, cpfailed>>
vars == <<pc, results, ending, dogVars, accounts, helpers, files>>

Init ==
  /\ pc = "setup"
  /\ TST_COUNT = 0
  /\ tc_final_result = 0 /\ tc_brok_result = 0 /\ tc_warn_result = 0
  /\ tc_watchdog_result = 0
  /\ killed = FALSE /\ status = -1 /\ cut = "no" /\ counted = 0
  /\ watchdog = "none" /\ assassin = "none" /\ pidfile = FALSE
  /\ users = {} /\ TC_TEMP_USERS = {}
  /\ groups = {} /\ TC_TEMP_GROUPS = {}
  /\ sleepers = {} /\ TC_SLEEPER_PIDS = {}
  /\ tail = FALSE /\ tc_cap_log_pid = FALSE
  /\ net = TRUE /\ TC_SAVE = FALSE /\ cpfailed = FALSE
  /\ refused = {} /\ stopped = FALSE

\* tc_pass_or_fail with a bad result.  tc_break_if_bad_rc is defined twice
\* and the second definition, which is the one in force, does the same.
Fail ==
  /\ tc_final_result' = tc_final_result + 1
  /\ UNCHANGED <<TST_COUNT, tc_brok_result, tc_warn_result, tc_watchdog_result>>

\* Bound: no more of these after MaxFails failures.
MayFail == tc_final_result < MaxFails /\ Fail

\* tc_break_if_bad with a bad result.
Broken ==
  /\ tc_brok_result' = -1
  /\ UNCHANGED <<TST_COUNT, tc_final_result, tc_warn_result, tc_watchdog_result>>

Goto(place) == pc' = place /\ UNCHANGED ending

\* exit: the trap begins.
Exit(code) ==
  /\ pc' = "check" /\ status' = code
  /\ UNCHANGED <<killed, cut, counted>>

\* exit with a number inside the trap.
ExitInTrap(code, how) ==
  /\ pc' = "done"
  /\ status' = IF killed THEN 143 ELSE code
  /\ cut' = how
  /\ UNCHANGED killed

\* exit without one: the rest of the trap is not done.
LeaveTrap ==
  /\ pc' = "done" /\ cut' = "exit"
  /\ UNCHANGED <<killed, status, counted>>

-----------------------------------------------------------------------------
(* tc_setup and tc_watchdog. *)

\* The trap is set, the directories are made, the network files are saved and
\* the watchdog script is started.  A save that fails, which nobody checks,
\* shows when the files are copied back.
Setup ==
  /\ pc = "setup"
  /\ Goto("watchdog")
  /\ TC_SAVE' = TRUE
  /\ watchdog' = "starting"
  /\ UNCHANGED <<results, assassin, pidfile, accounts, helpers, net,
                 cpfailed>>

\* A bad timespan: exit before there is a trap.  Missing commands: exit 1
\* before there is a directory or a watchdog.
SetupFails ==
  /\ pc = "setup"
  /\ \/ /\ MayFail
        /\ pc' = "done" /\ status' = 1 /\ cut' = "exit"
        /\ UNCHANGED <<killed, counted>>
     \/ Exit(1) /\ UNCHANGED results
  /\ UNCHANGED <<dogVars, accounts, helpers, files>>

WatchdogShown ==
  /\ pc = "watchdog" /\ pidfile /\ watchdog \in {"sleeping", "killing"}
  /\ Goto("local_setup")
  /\ UNCHANGED <<results, dogVars, accounts, helpers, files>>

\* No pid within five seconds, "did not report its pid", or no process of
\* that pid, "did not show".  A watchdog that is killing already writes to
\* $stderr, which tc_break_if_bad takes for a failure.
WatchdogMissing ==
  /\ pc = "watchdog"
  /\ ~(pidfile /\ watchdog = "sleeping")
  /\ Broken
  /\ Exit(1)
  /\ UNCHANGED <<dogVars, accounts, helpers, files>>

\* tc_setup goes on only if nothing was reported and tc_local_setup is fine.
LocalSetupDone ==
  /\ pc = "local_setup"
  /\ IF tc_final_result = 0 /\ tc_brok_result = 0 /\ tc_warn_result = 0
       THEN \/ Goto("run") /\ UNCHANGED results
            \/ MayFail /\ Exit(1)
       ELSE Exit(1) /\ UNCHANGED results
  /\ UNCHANGED <<dogVars, accounts, helpers, files>>

-----------------------------------------------------------------------------
(* The calls a testcase makes. *)

Working == pc \in {"local_setup", "run"}

tc_register ==
  /\ pc = "run" /\ TST_COUNT < MaxTests
  /\ TST_COUNT' = TST_COUNT + 1
  /\ UNCHANGED <<pc, tc_final_result, tc_brok_result, tc_warn_result,
                 tc_watchdog_result, ending, dogVars, accounts, helpers, files>>

\* tc_fail, tc_pass_or_fail and tc_fail_if_bad; tc_break_if_bad; tc_warn.
Verdict ==
  /\ Working
  /\ \/ MayFail
     \/ Broken
     \/ /\ tc_warn_result' = 99
        /\ UNCHANGED <<TST_COUNT, tc_final_result, tc_brok_result,
                       tc_watchdog_result>>
  /\ UNCHANGED <<pc, ending, dogVars, accounts, helpers, files>>

\* Already run: nothing is left to account for.
tc_run_me_only_once ==
  /\ pc = "run"
  /\ TST_COUNT' = TST_TOTAL
  /\ Exit(0)
  /\ UNCHANGED <<tc_final_result, tc_brok_result, tc_warn_result,
                 tc_watchdog_result, dogVars, accounts, helpers, files>>

\* The user is remembered before its home directory is looked for.
tc_add_user_or_break ==
  /\ Working
  /\ \/ /\ \E u \in Users \ users :
             /\ users' = users \cup {u}
             /\ TC_TEMP_USERS' = TC_TEMP_USERS \cup {u}
        /\ UNCHANGED results \/ MayFail \/ Broken
        /\ UNCHANGED <<groups, TC_TEMP_GROUPS, refused, stopped>>
     \/ (MayFail \/ Broken) /\ UNCHANGED accounts
  /\ UNCHANGED <<pc, ending, dogVars, helpers, files>>

\* The accounts that $1 does not name stay remembered.
Remaining(all, wanted) == all \ wanted

\* Mutant: the first userdel that fails ends the loop.
DeleteUsers_stop(wanted) ==
  /\ \/ /\ users' = users \ wanted
        /\ UNCHANGED <<results, refused>>
     \/ \E gone \in SUBSET wanted : \E bad \in wanted \ gone :
          /\ users' = users \ gone
          /\ refused' = refused \cup {bad}
          /\ Fail
  /\ TC_TEMP_USERS' = Remaining(TC_TEMP_USERS, wanted)

\* userdel of each of the wanted users; each one that fails is reported, and
\* forgotten like the others.
DeleteUsers(wanted) ==
  /\ \E bad \in SUBSET wanted :
       /\ tc_final_result' = tc_final_result + Cardinality(bad)
       /\ users' = users \ (wanted \ bad)
       /\ refused' = refused \cup bad
  /\ TC_TEMP_USERS' = Remaining(TC_TEMP_USERS, wanted)
  /\ UNCHANGED <<TST_COUNT, tc_brok_result, tc_warn_result, tc_watchdog_result>>

\* All of them, or the one that $1 names.
Choices(all) == {all} \cup {{a} : a \in all}

tc_del_user_or_break ==
  /\ Working
  /\ \E wanted \in Choices(TC_TEMP_USERS) : DeleteUsers(wanted)
  /\ UNCHANGED <<pc, ending, dogVars, groups, TC_TEMP_GROUPS, stopped, helpers,
                 files>>

\* A name is given out once.
tc_add_group_or_break ==
  /\ Working
  /\ \/ /\ \E g \in Groups \ (groups \cup TC_TEMP_GROUPS) :
             /\ groups' = groups \cup {g}
             /\ TC_TEMP_GROUPS' = TC_TEMP_GROUPS \cup {g}
        /\ UNCHANGED <<results, users, TC_TEMP_USERS, refused, stopped>>
     \/ MayFail /\ UNCHANGED accounts
  /\ UNCHANGED <<pc, ending, dogVars, helpers, files>>

\* groupdel of the wanted groups one by one (the model leaves the order open)
\* up to the first that fails: one that is not there fails, any other may.
\* The list is then kept as it was, with those that are gone by now.  Without
\* groupdel and delgroup nothing is tried.
DeleteGroups(wanted) ==
  \/ /\ wanted \subseteq groups
     /\ groups' = groups \ wanted
     /\ TC_TEMP_GROUPS' = Remaining(TC_TEMP_GROUPS, wanted)
     /\ stopped' = FALSE
     /\ UNCHANGED <<results, refused>>
  \/ /\ \E gone \in SUBSET (wanted \cap groups) : \E bad \in wanted \ gone :
          /\ groups' = groups \ gone
          /\ refused' = refused \cup {bad}
     /\ Fail
     /\ stopped' = TRUE
     /\ UNCHANGED TC_TEMP_GROUPS
  \/ /\ Fail
     /\ stopped' = TRUE
     /\ UNCHANGED <<groups, TC_TEMP_GROUPS, refused>>

tc_del_group_or_break ==
  /\ Working /\ tc_final_result < MaxFails
  /\ \E wanted \in Choices(TC_TEMP_GROUPS) : DeleteGroups(wanted)
  /\ UNCHANGED <<pc, ending, dogVars, users, TC_TEMP_USERS, helpers, files>>

\* A sleeper that does not report its pid in time runs on, unknown; one that
\* does is remembered before it is looked for.
tc_sleeper ==
  /\ Working
  /\ \/ \E s \in Sleepers \ sleepers :
          /\ sleepers' = sleepers \cup {s}
          /\ \/ /\ TC_SLEEPER_PIDS' = TC_SLEEPER_PIDS \cup {s}
                /\ UNCHANGED <<pc, ending, results>>
             \/ /\ TC_SLEEPER_PIDS' \in {TC_SLEEPER_PIDS, TC_SLEEPER_PIDS \cup {s}}
                /\ Broken /\ Exit(1)
     \/ Broken /\ Exit(1) /\ UNCHANGED <<sleepers, TC_SLEEPER_PIDS>>
  /\ UNCHANGED <<dogVars, accounts, tail, tc_cap_log_pid, files>>

\* tc_cap_log_start stops the capture that may be running and starts one; it
\* exits when its file cannot be written, when the old one does not stop,
\* when the new one does not show, or nothing arrives in the snapshot.
tc_cap_log_start ==
  /\ Working
  /\ \/ /\ tail' = TRUE /\ tc_cap_log_pid' = TRUE
        /\ UNCHANGED <<pc, ending, results>>
     \/ /\ MayFail /\ Exit(1)
        /\ \/ UNCHANGED <<tail, tc_cap_log_pid>>
           \/ tail' \in BOOLEAN /\ tc_cap_log_pid' = TRUE
  /\ UNCHANGED <<dogVars, accounts, sleepers, TC_SLEEPER_PIDS, files>>

\* tc_cap_log_stop, when the capture can be killed and when it cannot.
StopCapture ==
  /\ tail' = FALSE /\ tc_cap_log_pid' = FALSE
  /\ UNCHANGED <<results, sleepers, TC_SLEEPER_PIDS>>

CaptureStays ==
  /\ tc_cap_log_pid /\ tail
  /\ MayFail
  /\ UNCHANGED helpers

tc_cap_log_stop ==
  /\ Working
  /\ \/ StopCapture /\ UNCHANGED <<pc, ending>>
     \/ CaptureStays /\ Exit(1)
  /\ UNCHANGED <<dogVars, accounts, files>>

\* The testcase edits the network files.
EditNet ==
  /\ Working
  /\ net' = FALSE
  /\ UNCHANGED <<pc, results, ending, dogVars, accounts, helpers, TC_SAVE,
                 cpfailed>>

\* exit, or the end of the script.
ExitScript ==
  /\ Working
  /\ \E code \in {0, 1} : Exit(code)
  /\ UNCHANGED <<results, dogVars, accounts, helpers, files>>

Testcase ==
  \/ tc_register \/ Verdict \/ tc_run_me_only_once
  \/ tc_add_user_or_break \/ tc_del_user_or_break
  \/ tc_add_group_or_break \/ tc_del_group_or_break
  \/ tc_sleeper \/ tc_cap_log_start \/ tc_cap_log_stop \/ EditNet
  \/ ExitScript \/ LocalSetupDone

-----------------------------------------------------------------------------
(* tc_internal_cleanup. *)

\* Mutant: a watchdog whose pid nobody knows has timed out.
TimedOut_unknown == pidfile => watchdog \in {"gone", "struck"}

\* [ -d /proc/$pid ] fails; without a pid this looks at /proc itself.
TimedOut == pidfile /\ watchdog \in {"gone", "struck"}

\* The watchdog is killed if its pid is known.
CheckWatchdog ==
  /\ pc = "check"
  /\ IF TimedOut
       THEN /\ tc_watchdog_result' = 88
            /\ tc_final_result' = tc_final_result + 1
            /\ UNCHANGED <<TST_COUNT, tc_brok_result, tc_warn_result>>
       ELSE UNCHANGED results
  /\ watchdog' = IF pidfile /\ watchdog # "struck" THEN "gone" ELSE watchdog
  /\ pidfile' = FALSE
  /\ Goto("local_cleanup")
  /\ UNCHANGED <<assassin, accounts, helpers, files>>

\* The cleanup of the testcase, which may report failures, may hang, and may
\* be ended by a helper that exits (tc_service_start_and_wait, ...).  What
\* else it calls it could have called at the end of its body.
tc_local_cleanup ==
  /\ pc = "local_cleanup"
  /\ \/ (UNCHANGED results \/ MayFail \/ Broken) /\ Goto("account")
     \/ (MayFail \/ Broken) /\ LeaveTrap
  /\ UNCHANGED <<dogVars, accounts, helpers, files>>

\* Mutant: tests that were not run do not matter.
Unexecuted_none == FALSE

Unexecuted == TST_COUNT < TST_TOTAL

\* "Remaining cases broken": exit 1, and nothing below is done.
Account ==
  /\ pc = "account"
  /\ counted' = TST_COUNT
  /\ IF Unexecuted
       THEN TST_COUNT' = TST_COUNT + 1 /\ ExitInTrap(1, "account")
       ELSE pc' = "net" /\ UNCHANGED <<TST_COUNT, killed, status, cut>>
  /\ UNCHANGED <<tc_final_result, tc_brok_result, tc_warn_result,
                 tc_watchdog_result, dogVars, accounts, helpers, files>>

\* The files are copied back; a cp that fails, now or in tc_setup, is not
\* noticed.
RestoreNet ==
  /\ pc = "net"
  /\ \/ net' = TRUE /\ UNCHANGED cpfailed
     \/ cpfailed' = TRUE /\ UNCHANGED net
  /\ Goto("sleepers")
  /\ UNCHANGED <<results, dogVars, accounts, helpers, TC_SAVE>>

KillSleepers ==
  /\ pc = "sleepers"
  /\ sleepers' = sleepers \ TC_SLEEPER_PIDS
  /\ Goto("capture")
  /\ UNCHANGED <<results, dogVars, accounts, TC_SLEEPER_PIDS, tail,
                 tc_cap_log_pid, files>>

CleanCapture ==
  /\ pc = "capture"
  /\ \/ StopCapture /\ Goto("users")
     \/ CaptureStays /\ LeaveTrap
  /\ UNCHANGED <<dogVars, accounts, files>>

CleanUsers ==
  /\ pc = "users"
  /\ DeleteUsers(TC_TEMP_USERS)
  /\ Goto("groups")
  /\ UNCHANGED <<dogVars, groups, TC_TEMP_GROUPS, stopped, helpers, files>>

CleanGroups ==
  /\ pc = "groups"
  /\ DeleteGroups(TC_TEMP_GROUPS)
  /\ Goto("exit")
  /\ UNCHANGED <<dogVars, users, TC_TEMP_USERS, helpers, files>>

ExitCode ==
  CASE tc_watchdog_result # 0 -> tc_watchdog_result
    [] tc_watchdog_result = 0 /\ tc_final_result # 0 ->
         tc_final_result % ExitCodes
    [] tc_watchdog_result = 0 /\ tc_final_result = 0 /\ tc_brok_result # 0 ->
         255
    [] OTHER -> tc_warn_result

\* The directories are removed, the status is chosen.
Finish ==
  /\ pc = "exit"
  /\ TC_SAVE' = FALSE
  /\ TST_COUNT' = 0
  /\ ExitInTrap(ExitCode, "no")
  /\ UNCHANGED <<counted, tc_final_result, tc_brok_result, tc_warn_result,
                 tc_watchdog_result, dogVars, accounts, helpers, net, cpfailed>>

Cleanup ==
  \/ CheckWatchdog \/ Account \/ RestoreNet \/ KillSleepers \/ CleanCapture
  \/ CleanUsers \/ CleanGroups \/ Finish

-----------------------------------------------------------------------------
(* The watchdog script. *)

ReportPid ==
  /\ watchdog = "starting"
  /\ watchdog' = "sleeping"
  /\ pidfile' = TC_SAVE
  /\ UNCHANGED <<pc, results, ending, assassin, accounts, helpers, files>>

Expire ==
  /\ watchdog = "sleeping"
  /\ watchdog' = "killing" /\ assassin' = "children"
  /\ UNCHANGED <<pc, results, ending, pidfile, accounts, helpers, files>>

\* The children of the testcase; a sleeper is no child of it.
KillChildren ==
  /\ assassin = "children"
  /\ assassin' = "testcase"
  /\ tail' = FALSE
  /\ UNCHANGED <<pc, results, ending, watchdog, pidfile, accounts, sleepers,
                 TC_SLEEPER_PIDS, tc_cap_log_pid, files>>

InTrap == pc \in {"check", "local_cleanup", "account", "net", "sleepers",
                  "capture", "users", "groups", "exit"}

\* Mutant: only the children are killed.
KillTestcase_spared ==
  /\ assassin = "testcase"
  /\ assassin' = "gone"
  /\ UNCHANGED <<pc, results, ending, watchdog, pidfile, accounts, helpers, files>>

\* kill $PID.  In the trap there is no second trap: the script just ends.
KillTestcase ==
  /\ assassin = "testcase"
  /\ assassin' = "gone"
  /\ IF pc = "done" THEN UNCHANGED <<pc, ending>>
     ELSE /\ killed' = TRUE
          /\ status' = 143
          /\ IF InTrap THEN pc' = "done" /\ cut' = "killed"
                       ELSE pc' = "check" /\ UNCHANGED cut
          /\ UNCHANGED counted
  /\ UNCHANGED <<results, watchdog, pidfile, accounts, helpers, files>>

WatchdogEnds ==
  /\ watchdog = "killing" /\ assassin = "gone"
  /\ watchdog' = "gone"
  /\ UNCHANGED <<pc, results, ending, assassin, pidfile, accounts, helpers,
                 files>>

\* Something else ends the watchdog script.
WatchdogStruck ==
  /\ watchdog \in {"starting", "sleeping", "killing"}
  /\ watchdog' = "struck"
  /\ UNCHANGED <<pc, results, ending, assassin, pidfile, accounts, helpers,
                 files>>

Watchdog == ReportPid \/ Expire \/ KillChildren \/ KillTestcase \/ WatchdogEnds

Next == \/ Setup \/ SetupFails \/ WatchdogShown \/ WatchdogMissing
        \/ Testcase \/ Cleanup \/ tc_local_cleanup
        \/ Watchdog \/ WatchdogStruck

Spec == Init /\ [][Next]_vars

\* tc_setup, the trap and the watchdog are scheduled; the testcase, in its
\* body and in its own cleanup, may do nothing for ever.
Fairness ==
  /\ WF_vars(Setup \/ WatchdogShown \/ WatchdogMissing)
  /\ WF_vars(Cleanup) /\ WF_vars(Watchdog)

FairSpec == Spec /\ Fairness

-----------------------------------------------------------------------------
(* Properties. *)

TypeOK ==
  /\ pc \in {"setup", "watchdog", "local_setup", "run", "check",
             "local_cleanup", "account", "net", "sleepers", "capture",
             "users", "groups", "exit", "done"}
  /\ TST_COUNT \in 0..MaxTests /\ counted \in 0..MaxTests
  /\ tc_final_result \in Nat
  /\ tc_brok_result \in {0, -1} /\ tc_warn_result \in {0, 99}
  /\ tc_watchdog_result \in {0, 88}
  /\ killed \in BOOLEAN /\ status \in -1..255
  /\ cut \in {"no", "account", "exit", "killed"}
  /\ watchdog \in {"none", "starting", "sleeping", "killing", "gone", "struck"}
  /\ assassin \in {"none", "children", "testcase", "gone"}
  /\ pidfile \in BOOLEAN
  /\ users \subseteq Users /\ TC_TEMP_USERS \subseteq Users
  /\ groups \subseteq Groups /\ TC_TEMP_GROUPS \subseteq Groups
  /\ sleepers \subseteq Sleepers /\ TC_SLEEPER_PIDS \subseteq Sleepers
  /\ tail \in BOOLEAN /\ tc_cap_log_pid \in BOOLEAN
  /\ net \in BOOLEAN /\ TC_SAVE \in BOOLEAN /\ cpfailed \in BOOLEAN
  /\ refused \subseteq Users \cup Groups /\ stopped \in BOOLEAN

\* A testcase that exits with 0 ran all its tests, nothing was reported
\* against it, it was not killed, and it left nothing behind: no account, no
\* process, no watchdog, no network file but one that could not be copied.
\* There are two exceptions.  A trap that a helper leaves with an exit of its
\* own repeats the status of the testcase, but then a failure was reported.
\* And a count of failures that is a multiple of 256 is no exit status.
ZeroMeansClean ==
  pc = "done" /\ status = 0 =>
    \/ cut = "exit" /\ (tc_final_result # 0 \/ tc_brok_result # 0)
    \/ cut = "no" /\ tc_final_result # 0 /\ tc_final_result % ExitCodes = 0
    \/ /\ tc_final_result = 0 /\ tc_brok_result = 0 /\ tc_warn_result = 0
       /\ ~killed /\ counted >= TST_TOTAL
       /\ users = {} /\ groups = {} /\ sleepers = {} /\ ~tail
       /\ (net \/ cpfailed) /\ ~TC_SAVE
       /\ watchdog \in {"none", "gone"}

\* A testcase that failed cleans up too, when its trap was not cut short.  A
\* user is left only if its own deletion failed, however many others did.  A
\* group is left only if the deletion in the trap gave up: after its first
\* failure the code tries no other group.  A sleeper is left only if it never
\* told its pid, a changed network file only if it was not copied.
CleansUpAfterFailure ==
  pc = "done" /\ cut = "no" =>
    /\ users \subseteq refused
    /\ groups # {} => stopped /\ tc_final_result # 0
    /\ sleepers \subseteq Sleepers \ TC_SLEEPER_PIDS
    /\ ~tail /\ (net \/ cpfailed) /\ ~TC_SAVE

\* "watchdog timed out!" is said only of a testcase whose time was up, and
\* which the watchdog has killed, or when something else ended the watchdog.
NoFalseTimeout ==
  tc_watchdog_result = 88 => assassin = "gone" \/ watchdog = "struck"

\* "any watchdog timeout is correctly attributed to the currently running
\* test": a testcase that the watchdog has killed, and whose trap then ran to
\* its end, is reported as timed out.
TimeoutAttributed ==
  pc = "done" /\ killed /\ cut = "no" => tc_watchdog_result = 88

\* The watchdog ends a testcase that hangs, wherever it hangs, except in its
\* own cleanup: there the watchdog has been killed already.
HangIsEnded ==
  <>(pc \in {"done", "local_cleanup"} \/ watchdog = "struck")

=============================================================================
