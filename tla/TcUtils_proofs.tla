-------------------------- MODULE TcUtils_proofs --------------------------
(***************************************************************************)
(* Safety of the life of a testcase (TcUtils) for any number of tests,     *)
(* users, groups and sleepers.                                             *)
(*                                                                         *)
(* The exit trap takes things back in a fixed order, so the invariant says *)
(* for each place of the script what has been taken back by then.  The     *)
(* watchdog and the ( ... ) that does its killing go on whatever the       *)
(* script does; what ties them to it is the pid file.                      *)
(***************************************************************************)
EXTENDS TcUtils, FiniteSetTheorems, TLAPS

BeforeTrap == {"setup", "watchdog", "local_setup", "run", "check"}
Places == {"setup", "watchdog", "local_setup", "run", "check", "local_cleanup",
           "account", "net", "sleepers", "capture", "users", "groups", "exit", "done"}

\* Places of the trap after which a part of the cleanup has been done.
AfterAccount  == {"net", "sleepers", "capture", "users", "groups", "exit"}
AfterNet      == {"sleepers", "capture", "users", "groups", "exit"}
AfterSleepers == {"capture", "users", "groups", "exit"}
AfterCapture  == {"users", "groups", "exit"}
AfterUsers    == {"groups", "exit"}

\* The trap came to its end.
Ended == pc = "done" /\ cut = "no"

\* What the trap knows of the watchdog once it has looked.
DogDone ==
  watchdog \in {"none", "gone"} \/ tc_brok_result = -1 \/ tc_watchdog_result = 88

\* The watchdog, its killer and the file with its pid.
DogInv ==
  /\ pc = "setup" => watchdog = "none"
  /\ watchdog = "none" => ~pidfile
  /\ pc = "watchdog" /\ (watchdog = "sleeping" \/ assassin # "none") => pidfile
  /\ pc \in {"local_setup", "run"} => pidfile
  /\ pc = "check" => pidfile \/ tc_brok_result = -1 \/ watchdog = "none"
  /\ pc \notin BeforeTrap \cup {"done"} => DogDone
  /\ Ended => DogDone
  /\ watchdog # "none" /\ pc # "done" => TC_SAVE
  /\ watchdog \in {"none", "starting", "sleeping"} => assassin = "none"
  /\ watchdog = "gone" /\ pc \in BeforeTrap => assassin = "gone"
  /\ tc_watchdog_result = 88 => assassin = "gone" \/ watchdog = "struck"

\* What has been taken back by now.
CleanInv ==
  /\ pc \in AfterAccount \/ Ended => counted >= TST_TOTAL
  /\ pc \in AfterNet \/ Ended => net \/ cpfailed
  /\ pc \in AfterSleepers \/ Ended => sleepers \cap TC_SLEEPER_PIDS = {}
  /\ pc \in AfterCapture \/ Ended => ~tail
  /\ pc \in AfterUsers \/ Ended => TC_TEMP_USERS = {}
  /\ pc = "exit" \/ Ended => groups = {} \/ stopped
  /\ Ended => ~TC_SAVE

\* Everything on the system is remembered, or something was reported.
KnownInv ==
  /\ users \subseteq TC_TEMP_USERS \cup refused
  /\ groups \subseteq TC_TEMP_GROUPS
  /\ sleepers \subseteq TC_SLEEPER_PIDS \/ tc_brok_result = -1
  /\ refused # {} \/ stopped => tc_final_result # 0

\* The exit status: while the script runs, in the trap, of a trap that was cut
\* in one of the three ways, and of one that came to its end.
StatusInv ==
  /\ InTrap => status \in {0, 1, 143}
  /\ killed => status = 143
  /\ pc # "done" => cut = "no"
  /\ pc \in {"setup", "watchdog", "local_setup", "run"} => status = -1
  /\ pc = "done" => \/ cut = "exit" /\ (tc_final_result # 0 \/ tc_brok_result # 0)
                    \/ cut \in {"account", "killed"} /\ status \in {1, 143}
                    \/ cut = "no" /\ status = IF killed THEN 143 ELSE ExitCode

IInv == TypeOK /\ DogInv /\ CleanInv /\ KnownInv /\ StatusInv

-----------------------------------------------------------------------------
(* Constants and the helpers of the model. *)

LEMMA Sizes ==
  /\ MaxTests \in Nat /\ TST_TOTAL \in 0..MaxTests /\ MaxFails \in Nat
  /\ ExitCodes \in 1..256
BY TcUtilsAssumption

\* What a report leaves: no more than one failure, and the tests as they were.
LEMMA ReportFacts ==
  ASSUME tc_final_result \in Nat, UNCHANGED results \/ MayFail \/ Fail \/ Broken
  PROVE  /\ tc_final_result' \in {tc_final_result, tc_final_result + 1}
         /\ tc_final_result' \in Nat /\ tc_final_result' >= tc_final_result
         /\ tc_brok_result' \in {tc_brok_result, -1}
         /\ UNCHANGED <<TST_COUNT, tc_warn_result, tc_watchdog_result>>
         /\ MayFail \/ Fail => tc_final_result' # 0
BY DEF MayFail, Fail, Broken, results

\* The users that a deletion leaves are those it did not want, and those that
\* could not be deleted; each of these is counted.
LEMMA DeleteUsersFacts ==
  ASSUME TypeOK, NEW wanted \in SUBSET TC_TEMP_USERS, DeleteUsers(wanted),
         users \subseteq TC_TEMP_USERS \cup refused
  PROVE  /\ users' \subseteq users
         /\ TC_TEMP_USERS' = TC_TEMP_USERS \ wanted
         /\ users' \subseteq TC_TEMP_USERS' \cup refused'
         /\ refused' \subseteq refused \cup wanted
         /\ tc_final_result' \in Nat /\ tc_final_result' >= tc_final_result
         /\ refused' # {} => refused # {} \/ tc_final_result' # 0
         /\ UNCHANGED <<TST_COUNT, tc_brok_result, tc_warn_result, tc_watchdog_result>>
<1>1. PICK bad \in SUBSET wanted :
        /\ tc_final_result' = tc_final_result + Cardinality(bad)
        /\ users' = users \ (wanted \ bad)
        /\ refused' = refused \cup bad
  BY DEF DeleteUsers
<1>2. TC_TEMP_USERS' = TC_TEMP_USERS \ wanted
  BY DEF DeleteUsers, Remaining
<1>3. IsFiniteSet(bad)
  <2>1. bad \subseteq Users
    BY DEF TypeOK
  <2>. QED  BY <2>1, TcUtilsAssumption, FS_Subset
<1>4. Cardinality(bad) \in Nat /\ (Cardinality(bad) = 0 <=> bad = {})
  BY <1>3, FS_CardinalityType, FS_EmptySet
<1>5. tc_final_result \in Nat
  BY DEF TypeOK
<1>6. tc_final_result' \in Nat /\ tc_final_result' >= tc_final_result
  BY <1>1, <1>4, <1>5
<1>7. bad # {} => tc_final_result' # 0
  BY <1>1, <1>4, <1>5
<1>. QED  BY <1>1, <1>2, <1>6, <1>7 DEF DeleteUsers

\* The groups that a deletion leaves on the system.
LEMMA DeleteGroupsFacts ==
  ASSUME TypeOK, NEW wanted \in SUBSET TC_TEMP_GROUPS, DeleteGroups(wanted),
         groups \subseteq TC_TEMP_GROUPS
  PROVE  /\ groups' \subseteq groups
         /\ TC_TEMP_GROUPS' \subseteq TC_TEMP_GROUPS
         /\ groups' \subseteq TC_TEMP_GROUPS'
         /\ stopped' \in BOOLEAN
         /\ refused' \subseteq refused \cup wanted
         /\ ~stopped' => groups' = groups \ wanted /\ refused' = refused
         /\ UNCHANGED results \/ Fail
         /\ stopped' => Fail
<1>1. CASE /\ wanted \subseteq groups
           /\ groups' = groups \ wanted
           /\ TC_TEMP_GROUPS' = Remaining(TC_TEMP_GROUPS, wanted)
           /\ stopped' = FALSE
           /\ UNCHANGED <<results, refused>>
  BY <1>1 DEF Remaining
<1>2. CASE /\ \E gone \in SUBSET (wanted \cap groups) : \E bad \in wanted \ gone :
                /\ groups' = groups \ gone
                /\ refused' = refused \cup {bad}
           /\ Fail
           /\ stopped' = TRUE
           /\ UNCHANGED TC_TEMP_GROUPS
  BY <1>2
<1>3. CASE /\ Fail
           /\ stopped' = TRUE
           /\ UNCHANGED <<groups, TC_TEMP_GROUPS, refused>>
  BY <1>3
<1>. QED  BY <1>1, <1>2, <1>3 DEF DeleteGroups

-----------------------------------------------------------------------------
(* The calls of the testcase. *)

\* What every one of them keeps to.
WorkStep ==
  /\ pc \in {"local_setup", "run"} /\ pc' \in {"local_setup", "run", "check"}
  /\ UNCHANGED <<killed, cut, counted, watchdog, assassin, pidfile, TC_SAVE, cpfailed,
                 tc_watchdog_result>>
  /\ IF pc' = "check" THEN status' \in {0, 1} ELSE status' = status
  /\ TST_COUNT' \in 0..MaxTests
  /\ tc_final_result' \in Nat
  /\ tc_brok_result' \in {tc_brok_result, -1} /\ tc_warn_result' \in {0, 99}
  /\ tail' \in BOOLEAN /\ tc_cap_log_pid' \in BOOLEAN /\ net' \in BOOLEAN
  /\ users' \subseteq Users /\ TC_TEMP_USERS' \subseteq Users
  /\ groups' \subseteq Groups /\ TC_TEMP_GROUPS' \subseteq Groups
  /\ sleepers' \subseteq Sleepers /\ TC_SLEEPER_PIDS' \subseteq Sleepers
  /\ refused' \subseteq Users \cup Groups /\ stopped' \in BOOLEAN
  /\ KnownInv'

LEMMA WorkStepKeeps ==
  ASSUME IInv, WorkStep
  PROVE  IInv'
<1>1. TypeOK'
  <2>1. status' \in -1..255
    <3>1. status \in -1..255 /\ (status' = status \/ status' = 0 \/ status' = 1)
      BY DEF IInv, TypeOK, WorkStep
    <3>. QED  BY <3>1
  <2>2. /\ killed' \in BOOLEAN /\ pidfile' \in BOOLEAN /\ TC_SAVE' \in BOOLEAN
        /\ cpfailed' \in BOOLEAN
    BY Zenon DEF IInv, TypeOK, WorkStep
  <2>3. tc_brok_result' \in {0, -1}
    BY DEF IInv, TypeOK, WorkStep
  <2>4. /\ tc_watchdog_result' \in {0, 88} /\ counted' \in 0..MaxTests
        /\ cut' \in {"no", "account", "exit", "killed"}
        /\ watchdog' \in {"none", "starting", "sleeping", "killing", "gone", "struck"}
        /\ assassin' \in {"none", "children", "testcase", "gone"}
    BY DEF IInv, TypeOK, WorkStep
  <2>. QED  BY <2>1, <2>2, <2>3, <2>4 DEF TypeOK, WorkStep
<1>2. DogInv'
  <2>1. DogInv
    BY DEF IInv
  <2>. QED  BY <2>1 DEF DogInv, WorkStep, BeforeTrap, Ended, DogDone
<1>3. CleanInv'
  BY DEF CleanInv, WorkStep, Ended, AfterAccount, AfterNet, AfterSleepers, AfterCapture,
         AfterUsers
<1>4. StatusInv'
  <2>1. StatusInv /\ status = -1 /\ ~killed
    BY DEF IInv, StatusInv, WorkStep
  <2>2. pc' = "check" => status' \in {0, 1}
    BY DEF WorkStep
  <2>3. pc' # "check" => status' = status
    BY DEF WorkStep
  <2>4. cut' = "no" /\ ~killed' /\ pc' \in {"local_setup", "run", "check"}
    BY <2>1 DEF StatusInv, WorkStep
  <2>. QED  BY <2>1, <2>2, <2>3, <2>4 DEF StatusInv, InTrap
<1>. QED  BY <1>1, <1>2, <1>3, <1>4 DEF IInv, WorkStep

\* Calls that touch neither the accounts nor the helpers.
LEMMA PlainCalls ==
  ASSUME IInv,
         \/ tc_register \/ Verdict \/ tc_run_me_only_once \/ EditNet
         \/ ExitScript \/ LocalSetupDone
  PROVE  WorkStep
<1>type. TypeOK /\ tc_final_result \in Nat
  BY DEF IInv, TypeOK
<1>1. /\ pc \in {"local_setup", "run"} /\ pc' \in {"local_setup", "run", "check"}
      /\ UNCHANGED <<killed, cut, counted, watchdog, assassin, pidfile, TC_SAVE, cpfailed,
                     tc_watchdog_result>>
      /\ IF pc' = "check" THEN status' \in {0, 1} ELSE status' = status
      /\ UNCHANGED <<accounts, helpers>>
      /\ tc_brok_result' \in {tc_brok_result, -1}
      /\ tc_warn_result' \in {tc_warn_result, 99}
      /\ tc_final_result' \in {tc_final_result, tc_final_result + 1}
      /\ TST_COUNT' = TST_COUNT \/ TST_COUNT' = TST_TOTAL
           \/ (TST_COUNT' = TST_COUNT + 1 /\ TST_COUNT < MaxTests)
      /\ net' = net \/ net' = FALSE
  BY DEF tc_register, Verdict, tc_run_me_only_once, EditNet, ExitScript, LocalSetupDone,
         Working, MayFail, Fail, Broken, Exit, Goto, results, ending, dogVars, files
<1>2. tc_final_result' \in Nat /\ (tc_final_result # 0 => tc_final_result' # 0)
  BY <1>type, <1>1
<1>3. TST_COUNT' \in 0..MaxTests
  <2>1. TST_COUNT \in 0..MaxTests
    BY <1>type DEF TypeOK
  <2>. QED  BY Sizes, <1>1, <2>1
<1>4. KnownInv'
  <2>1. KnownInv
    BY DEF IInv
  <2>. QED  BY <1>1, <1>2, <2>1 DEF KnownInv, accounts, helpers
<1>5. tail' \in BOOLEAN /\ tc_cap_log_pid' \in BOOLEAN /\ net' \in BOOLEAN
  <2>1. tail \in BOOLEAN /\ tc_cap_log_pid \in BOOLEAN /\ net \in BOOLEAN
    BY <1>type DEF TypeOK
  <2>2. tail' = tail /\ tc_cap_log_pid' = tc_cap_log_pid /\ (net' = net \/ net' = FALSE)
    BY <1>1 DEF helpers
  <2>. QED  BY <2>1, <2>2, Zenon
<1>6. stopped' \in BOOLEAN
  <2>1. stopped \in BOOLEAN /\ stopped' = stopped
    BY <1>type, <1>1 DEF TypeOK, accounts
  <2>. QED  BY <2>1, Zenon
<1>7. tc_warn_result' \in {0, 99}
  BY <1>type, <1>1 DEF TypeOK
<1>. QED  BY <1>type, <1>1, <1>2, <1>3, <1>4, <1>5, <1>6, <1>7
             DEF WorkStep, TypeOK, accounts, helpers

\* The calls that create and delete accounts.
LEMMA AccountCalls ==
  ASSUME IInv,
         \/ tc_add_user_or_break \/ tc_del_user_or_break
         \/ tc_add_group_or_break \/ tc_del_group_or_break
  PROVE  WorkStep
<1>type. TypeOK /\ tc_final_result \in Nat
  BY DEF IInv, TypeOK
<1>known. KnownInv
  BY DEF IInv
<1>1. /\ pc \in {"local_setup", "run"} /\ pc' = pc
      /\ UNCHANGED <<killed, status, cut, counted, watchdog, assassin, pidfile, TC_SAVE,
                     cpfailed, net>>
      /\ UNCHANGED helpers
  BY DEF tc_add_user_or_break, tc_del_user_or_break, tc_add_group_or_break,
         tc_del_group_or_break, Working, ending, dogVars, files
<1>2. /\ tc_final_result' \in Nat
      /\ UNCHANGED <<TST_COUNT, tc_warn_result, tc_watchdog_result>>
      /\ tc_brok_result' \in {tc_brok_result, -1}
      /\ users' \subseteq Users /\ TC_TEMP_USERS' \subseteq Users
      /\ users' \subseteq TC_TEMP_USERS' \cup refused'
      /\ groups' \subseteq Groups /\ TC_TEMP_GROUPS' \subseteq Groups
      /\ groups' \subseteq TC_TEMP_GROUPS'
      /\ refused' \subseteq Users \cup Groups
      /\ stopped' = stopped \/ stopped' \in BOOLEAN
      /\ refused' # {} \/ stopped' => tc_final_result' # 0
  <2>1. CASE tc_add_user_or_break
    <3>1. UNCHANGED results \/ MayFail \/ Broken
      BY <2>1 DEF tc_add_user_or_break
    <3>2. UNCHANGED <<groups, TC_TEMP_GROUPS, refused, stopped>>
      BY <2>1 DEF tc_add_user_or_break, accounts
    <3>3. \/ UNCHANGED <<users, TC_TEMP_USERS>>
          \/ \E u \in Users : users' = users \cup {u} /\ TC_TEMP_USERS' = TC_TEMP_USERS \cup {u}
      BY <2>1 DEF tc_add_user_or_break, accounts
    <3>4. /\ tc_final_result' \in Nat /\ tc_final_result' >= tc_final_result
          /\ tc_brok_result' \in {tc_brok_result, -1}
          /\ UNCHANGED <<TST_COUNT, tc_warn_result, tc_watchdog_result>>
      BY <1>type, <3>1, ReportFacts
    <3>5. tc_final_result # 0 => tc_final_result' # 0
      BY <1>type, <3>4
    <3>. QED  BY <1>type, <1>known, <3>2, <3>3, <3>4, <3>5 DEF TypeOK, KnownInv
  <2>2. CASE tc_del_user_or_break
    <3>1. PICK wanted \in SUBSET TC_TEMP_USERS : DeleteUsers(wanted)
      BY <2>2 DEF tc_del_user_or_break, Choices
    <3>2. UNCHANGED <<groups, TC_TEMP_GROUPS, stopped>>
      BY <2>2 DEF tc_del_user_or_break
    <3>3. /\ users' \subseteq users
          /\ TC_TEMP_USERS' = TC_TEMP_USERS \ wanted
          /\ users' \subseteq TC_TEMP_USERS' \cup refused'
          /\ refused' \subseteq refused \cup wanted
          /\ tc_final_result' \in Nat /\ tc_final_result' >= tc_final_result
          /\ refused' # {} => refused # {} \/ tc_final_result' # 0
          /\ UNCHANGED <<TST_COUNT, tc_brok_result, tc_warn_result, tc_watchdog_result>>
      BY <1>type, <1>known, <3>1, DeleteUsersFacts DEF KnownInv
    <3>4. tc_final_result # 0 => tc_final_result' # 0
      BY <1>type, <3>3
    <3>. QED  BY <1>type, <1>known, <3>2, <3>3, <3>4 DEF TypeOK, KnownInv
  <2>3. CASE tc_add_group_or_break
    <3>1. UNCHANGED results \/ MayFail
      BY <2>3 DEF tc_add_group_or_break
    <3>2. UNCHANGED <<users, TC_TEMP_USERS, refused, stopped>>
      BY <2>3 DEF tc_add_group_or_break, accounts
    <3>3. \/ UNCHANGED <<groups, TC_TEMP_GROUPS>>
          \/ \E g \in Groups : /\ groups' = groups \cup {g}
                               /\ TC_TEMP_GROUPS' = TC_TEMP_GROUPS \cup {g}
      BY <2>3 DEF tc_add_group_or_break, accounts
    <3>4. /\ tc_final_result' \in Nat /\ tc_final_result' >= tc_final_result
          /\ tc_brok_result' \in {tc_brok_result, -1}
          /\ UNCHANGED <<TST_COUNT, tc_warn_result, tc_watchdog_result>>
      BY <1>type, <3>1, ReportFacts
    <3>5. tc_final_result # 0 => tc_final_result' # 0
      BY <1>type, <3>4
    <3>. QED  BY <1>type, <1>known, <3>2, <3>3, <3>4, <3>5 DEF TypeOK, KnownInv
  <2>4. CASE tc_del_group_or_break
    <3>1. PICK wanted \in SUBSET TC_TEMP_GROUPS : DeleteGroups(wanted)
      BY <2>4 DEF tc_del_group_or_break, Choices
    <3>2. UNCHANGED <<users, TC_TEMP_USERS>>
      BY <2>4 DEF tc_del_group_or_break
    <3>3. /\ groups' \subseteq groups
          /\ TC_TEMP_GROUPS' \subseteq TC_TEMP_GROUPS
          /\ groups' \subseteq TC_TEMP_GROUPS'
          /\ stopped' \in BOOLEAN
          /\ refused' \subseteq refused \cup wanted
          /\ ~stopped' => refused' = refused
          /\ UNCHANGED results \/ Fail
          /\ stopped' => Fail
      BY <1>type, <1>known, <3>1, DeleteGroupsFacts DEF KnownInv
    <3>4. /\ tc_final_result' \in Nat /\ tc_final_result' >= tc_final_result
          /\ tc_brok_result' \in {tc_brok_result, -1}
          /\ UNCHANGED <<TST_COUNT, tc_warn_result, tc_watchdog_result>>
          /\ Fail => tc_final_result' # 0
      BY <1>type, <3>3, ReportFacts
    <3>5. tc_final_result # 0 => tc_final_result' # 0
      BY <1>type, <3>4
    <3>6. refused \subseteq refused'
      BY <3>1 DEF DeleteGroups
    <3>7. refused' # {} \/ stopped' => tc_final_result' # 0
      BY <1>known, <3>3, <3>4, <3>5 DEF KnownInv
    <3>8. /\ groups' \subseteq Groups /\ TC_TEMP_GROUPS' \subseteq Groups
          /\ refused' \subseteq Users \cup Groups
      BY <1>type, <3>3 DEF TypeOK
    <3>9. /\ users' \subseteq Users /\ TC_TEMP_USERS' \subseteq Users
          /\ users' \subseteq TC_TEMP_USERS' \cup refused'
      BY <1>type, <1>known, <3>2, <3>6 DEF TypeOK, KnownInv
    <3>. QED  BY <3>3, <3>4, <3>7, <3>8, <3>9
  <2>. QED  BY <2>1, <2>2, <2>3, <2>4
<1>3. KnownInv'
  BY <1>known, <1>1, <1>2 DEF KnownInv, helpers
<1>4. tail' \in BOOLEAN /\ tc_cap_log_pid' \in BOOLEAN /\ net' \in BOOLEAN
  <2>1. tail \in BOOLEAN /\ tc_cap_log_pid \in BOOLEAN /\ net \in BOOLEAN
    BY <1>type DEF TypeOK
  <2>2. tail' = tail /\ tc_cap_log_pid' = tc_cap_log_pid /\ net' = net
    BY <1>1 DEF helpers
  <2>. QED  BY <2>1, <2>2, Zenon
<1>5. stopped' \in BOOLEAN
  <2>1. stopped \in BOOLEAN
    BY <1>type DEF TypeOK
  <2>. QED  BY <1>2, <2>1, Zenon
<1>6. TST_COUNT' \in 0..MaxTests /\ tc_warn_result' \in {0, 99}
  BY <1>type, <1>2 DEF TypeOK
<1>. QED  BY <1>type, <1>1, <1>2, <1>3, <1>4, <1>5, <1>6 DEF WorkStep, TypeOK, helpers

\* The sleepers and the capture of the log.
LEMMA HelperCalls ==
  ASSUME IInv, tc_sleeper \/ tc_cap_log_start \/ tc_cap_log_stop
  PROVE  WorkStep
<1>type. TypeOK /\ tc_final_result \in Nat
  BY DEF IInv, TypeOK
<1>known. KnownInv
  BY DEF IInv
<1>1. /\ pc \in {"local_setup", "run"} /\ pc' \in {pc, "check"}
      /\ UNCHANGED <<killed, cut, counted, watchdog, assassin, pidfile, TC_SAVE, cpfailed, net>>
      /\ IF pc' = "check" THEN status' \in {0, 1} ELSE status' = status
      /\ UNCHANGED accounts
      /\ UNCHANGED <<TST_COUNT, tc_warn_result, tc_watchdog_result>>
      /\ tc_brok_result' \in {tc_brok_result, -1}
      /\ tc_final_result' \in {tc_final_result, tc_final_result + 1}
  BY DEF tc_sleeper, tc_cap_log_start, tc_cap_log_stop, StopCapture, CaptureStays,
         MayFail, Fail, Broken, Exit, Goto, Working, ending, dogVars, files, results
<1>2. tc_final_result' \in Nat /\ (tc_final_result # 0 => tc_final_result' # 0)
  BY <1>type, <1>1
<1>3. /\ sleepers' \subseteq Sleepers /\ TC_SLEEPER_PIDS' \subseteq Sleepers
      /\ sleepers' \subseteq TC_SLEEPER_PIDS' \/ tc_brok_result' = -1
  BY <1>type, <1>known, <1>1
     DEF tc_sleeper, tc_cap_log_start, tc_cap_log_stop, StopCapture, CaptureStays,
         helpers, TypeOK, KnownInv, Broken
<1>4. tail' \in BOOLEAN /\ tc_cap_log_pid' \in BOOLEAN /\ net' \in BOOLEAN
  <2>1. tail \in BOOLEAN /\ tc_cap_log_pid \in BOOLEAN /\ net \in BOOLEAN
    BY <1>type DEF TypeOK
  <2>2. /\ net' = net /\ (tail' = tail \/ tail' \in BOOLEAN)
        /\ \/ tc_cap_log_pid' = tc_cap_log_pid \/ tc_cap_log_pid' = TRUE
           \/ tc_cap_log_pid' = FALSE
    BY <1>1, Zenon DEF tc_sleeper, tc_cap_log_start, tc_cap_log_stop, StopCapture, CaptureStays,
         helpers
  <2>. QED  BY <2>1, <2>2, Zenon
<1>5. KnownInv'
  BY <1>known, <1>1, <1>2, <1>3 DEF KnownInv, accounts
<1>6. stopped' \in BOOLEAN
  <2>1. stopped \in BOOLEAN /\ stopped' = stopped
    BY <1>type, <1>1 DEF TypeOK, accounts
  <2>. QED  BY <2>1, Zenon
<1>7. TST_COUNT' \in 0..MaxTests /\ tc_warn_result' \in {0, 99}
  BY <1>type, <1>1 DEF TypeOK
<1>. QED  BY <1>type, <1>1, <1>2, <1>3, <1>4, <1>5, <1>6, <1>7 DEF WorkStep, TypeOK, accounts

LEMMA TestcaseKeeps ==
  ASSUME IInv, Testcase
  PROVE  IInv'
BY PlainCalls, AccountCalls, HelperCalls, WorkStepKeeps DEF Testcase

-----------------------------------------------------------------------------
(* tc_setup. *)

LEMMA SetupKeeps ==
  ASSUME IInv, Setup \/ SetupFails \/ WatchdogShown \/ WatchdogMissing
  PROVE  IInv'
<1>inv. TypeOK /\ DogInv /\ KnownInv /\ StatusInv /\ tc_final_result \in Nat
  BY DEF IInv, TypeOK
<1>1. /\ UNCHANGED <<killed, counted, assassin, pidfile, accounts, helpers, net, cpfailed,
                     TST_COUNT, tc_warn_result, tc_watchdog_result>>
      /\ tc_brok_result' \in {tc_brok_result, -1}
      /\ pc \in {"setup", "watchdog"}
      /\ \/ pc' \in {"watchdog", "local_setup"} /\ UNCHANGED <<status, cut, tc_final_result>>
         \/ pc' = "check" /\ status' = 1 /\ UNCHANGED <<cut, tc_final_result>>
         \/ /\ pc' = "done" /\ status' = 1 /\ cut' = "exit"
            /\ tc_final_result' = tc_final_result + 1
      /\ TC_SAVE' = TC_SAVE \/ TC_SAVE' = TRUE
      /\ watchdog' = watchdog \/ (watchdog' = "starting" /\ pc = "setup")
  BY DEF Setup, SetupFails, WatchdogShown, WatchdogMissing, Broken, MayFail, Fail, Exit, Goto,
         ending, dogVars, files, results
<1>2. tc_final_result' \in Nat /\ tc_final_result' >= tc_final_result
  BY <1>inv, <1>1
<1>3. TypeOK'
  <2>1. /\ killed' \in BOOLEAN /\ pidfile' \in BOOLEAN /\ TC_SAVE' \in BOOLEAN
        /\ net' \in BOOLEAN /\ cpfailed' \in BOOLEAN /\ stopped' \in BOOLEAN
        /\ tail' \in BOOLEAN /\ tc_cap_log_pid' \in BOOLEAN
    BY <1>inv, <1>1, Zenon DEF TypeOK, helpers, accounts
  <2>2. status' \in -1..255
    <3>1. status \in -1..255 /\ (status' = status \/ status' = 1)
      BY <1>inv, <1>1 DEF TypeOK
    <3>. QED  BY <3>1
  <2>. QED  BY <1>inv, <1>1, <1>2, <2>1, <2>2 DEF TypeOK, accounts, helpers
<1>4. CleanInv' /\ KnownInv'
  BY <1>inv, <1>1, <1>2 DEF CleanInv, KnownInv, Ended, AfterAccount,
       AfterNet, AfterSleepers, AfterCapture, AfterUsers, accounts, helpers
<1>5. StatusInv'
  <2>1. status = -1 /\ ~killed /\ cut = "no"
    BY <1>inv, <1>1 DEF StatusInv
  <2>2. pc' = "done" => tc_final_result' # 0
    BY <1>inv, <1>1
  <2>. QED  BY <1>inv, <1>1, <2>1, <2>2 DEF StatusInv, InTrap
<1>6. DogInv'
  <2>1. CASE Setup
    BY <1>inv, <1>1, <2>1 DEF Setup, DogInv, BeforeTrap, Ended, Goto, TypeOK
  <2>2. CASE SetupFails
    BY <1>inv, <1>1, <2>2 DEF SetupFails, Exit, DogInv, BeforeTrap, Ended, TypeOK,
         dogVars, files
  <2>3. CASE WatchdogShown
    BY <1>inv, <1>1, <2>3 DEF WatchdogShown, DogInv, BeforeTrap, Ended, Goto, TypeOK,
         dogVars, files
  <2>4. CASE WatchdogMissing
    BY <1>inv, <1>1, <2>4 DEF WatchdogMissing, Broken, DogInv, BeforeTrap, Ended, Exit, TypeOK,
         dogVars, files
  <2>. QED  BY <2>1, <2>2, <2>3, <2>4
<1>. QED  BY <1>3, <1>4, <1>5, <1>6 DEF IInv

-----------------------------------------------------------------------------
(* tc_internal_cleanup. *)

LEMMA CheckKeeps ==
  ASSUME IInv, CheckWatchdog \/ tc_local_cleanup
  PROVE  IInv'
<1>inv. TypeOK /\ DogInv /\ KnownInv /\ StatusInv /\ tc_final_result \in Nat
  BY DEF IInv, TypeOK
<1>1. /\ UNCHANGED <<killed, status, counted, assassin, accounts, helpers, files,
                     TST_COUNT, tc_warn_result>>
      /\ tc_final_result' \in {tc_final_result, tc_final_result + 1}
      /\ tc_brok_result' \in {tc_brok_result, -1}
      /\ \/ /\ pc = "check" /\ pc' = "local_cleanup" /\ cut' = cut
            /\ tc_brok_result' = tc_brok_result
            /\ pidfile' = FALSE
            /\ watchdog' = IF pidfile /\ watchdog # "struck" THEN "gone" ELSE watchdog
            /\ IF TimedOut THEN tc_watchdog_result' = 88
                           ELSE tc_watchdog_result' = tc_watchdog_result
         \/ /\ pc = "local_cleanup" /\ pc' = "account" /\ cut' = cut
            /\ UNCHANGED <<watchdog, pidfile, tc_watchdog_result>>
         \/ /\ pc = "local_cleanup" /\ pc' = "done" /\ cut' = "exit"
            /\ UNCHANGED <<watchdog, pidfile, tc_watchdog_result>>
            /\ tc_final_result' = tc_final_result + 1 \/ tc_brok_result' = -1
  BY DEF CheckWatchdog, tc_local_cleanup, MayFail, Fail, Broken, LeaveTrap, Goto, ending,
         dogVars, files, results
<1>2. /\ tc_final_result' \in Nat /\ tc_final_result' >= tc_final_result
      /\ tc_final_result' = tc_final_result + 1 => tc_final_result' # 0
  BY <1>inv, <1>1
<1>3. TypeOK'
  <2>1. /\ killed' \in BOOLEAN /\ pidfile' \in BOOLEAN /\ TC_SAVE' \in BOOLEAN
        /\ net' \in BOOLEAN /\ cpfailed' \in BOOLEAN /\ stopped' \in BOOLEAN
        /\ tail' \in BOOLEAN /\ tc_cap_log_pid' \in BOOLEAN
    BY <1>inv, <1>1, Zenon DEF TypeOK, helpers, accounts, files
  <2>. QED  BY <1>inv, <1>1, <1>2, <2>1 DEF TypeOK, accounts, helpers
<1>4. CleanInv' /\ KnownInv'
  BY <1>inv, <1>1, <1>2 DEF CleanInv, KnownInv, Ended, AfterAccount,
       AfterNet, AfterSleepers, AfterCapture, AfterUsers, accounts, helpers
<1>5. StatusInv'
  BY <1>inv, <1>1, <1>2 DEF StatusInv, InTrap
<1>6. DogInv'
  <2>1. CASE pc = "check"
    <3>1. /\ pc' = "local_cleanup" /\ pidfile' = FALSE
          /\ UNCHANGED <<assassin, tc_brok_result, TC_SAVE>>
          /\ watchdog' = IF pidfile /\ watchdog # "struck" THEN "gone" ELSE watchdog
          /\ IF TimedOut THEN tc_watchdog_result' = 88
                         ELSE tc_watchdog_result' = tc_watchdog_result
      BY <1>1, <2>1 DEF files
    <3>2. DogDone'
      <4>1. CASE pidfile
        BY <3>1, <4>1 DEF DogDone, TimedOut
      <4>2. CASE ~pidfile
        BY <1>inv, <2>1, <3>1, <4>2 DEF DogInv, DogDone
      <4>. QED  BY <4>1, <4>2
    <3>3. tc_watchdog_result' = 88 => assassin' = "gone" \/ watchdog' = "struck"
      BY <1>inv, <2>1, <3>1 DEF DogInv, TimedOut, BeforeTrap
    <3>4. watchdog' \in {"none", "starting", "sleeping"} => assassin' = "none"
      BY <1>inv, <3>1 DEF DogInv
    <3>5. TC_SAVE' \/ watchdog' = "none"
      BY <1>inv, <2>1, <3>1 DEF DogInv
    <3>. QED  BY <3>1, <3>2, <3>3, <3>4, <3>5 DEF DogInv, BeforeTrap, Ended
  <2>2. CASE pc = "local_cleanup"
    BY <1>inv, <1>1, <2>2 DEF DogInv, DogDone, BeforeTrap, Ended, files
  <2>. QED  BY <1>1, <2>1, <2>2
<1>. QED  BY <1>3, <1>4, <1>5, <1>6 DEF IInv

\* The steps of the trap that undo what the testcase did, up to the exit.
LEMMA UndoKeeps ==
  ASSUME IInv, Account \/ RestoreNet \/ KillSleepers \/ CleanCapture
  PROVE  IInv'
<1>inv. TypeOK /\ DogInv /\ CleanInv /\ KnownInv /\ StatusInv /\ tc_final_result \in Nat
  BY DEF IInv, TypeOK
<1>1. /\ UNCHANGED <<killed, dogVars, accounts, TC_SAVE, tc_brok_result,
                     tc_warn_result, tc_watchdog_result, TC_SLEEPER_PIDS>>
      /\ tc_final_result' \in {tc_final_result, tc_final_result + 1}
      /\ \/ /\ UNCHANGED <<status, cut, TST_COUNT>>
            /\ \/ /\ pc = "account" /\ pc' = "net" /\ ~Unexecuted /\ counted' = TST_COUNT
                  /\ UNCHANGED <<net, cpfailed, helpers>>
               \/ /\ pc = "net" /\ pc' = "sleepers" /\ counted' = counted
                  /\ UNCHANGED helpers
                  /\ \/ net' = TRUE /\ cpfailed' = cpfailed
                     \/ net' = net /\ cpfailed' = TRUE
               \/ /\ pc = "sleepers" /\ pc' = "capture" /\ UNCHANGED <<net, cpfailed, counted>>
                  /\ sleepers' = sleepers \ TC_SLEEPER_PIDS
                  /\ UNCHANGED <<tail, tc_cap_log_pid>>
               \/ /\ pc = "capture" /\ pc' = "users" /\ UNCHANGED <<net, cpfailed, counted>>
                  /\ sleepers' = sleepers /\ tail' = FALSE /\ tc_cap_log_pid' = FALSE
         \/ /\ pc = "account" /\ pc' = "done" /\ cut' = "account" /\ Unexecuted
            /\ TST_COUNT' = TST_COUNT + 1 /\ counted' = TST_COUNT
            /\ status' = IF killed THEN 143 ELSE 1
            /\ UNCHANGED <<net, cpfailed, helpers>>
         \/ /\ pc = "capture" /\ pc' = "done" /\ cut' = "exit"
            /\ tc_final_result' = tc_final_result + 1
            /\ UNCHANGED <<status, TST_COUNT, counted, net, cpfailed, helpers>>
  BY DEF Account, RestoreNet, KillSleepers, CleanCapture, StopCapture, CaptureStays,
         MayFail, Fail, ExitInTrap, LeaveTrap, Goto, ending, files, results, helpers
<1>2. /\ tc_final_result' \in Nat /\ tc_final_result' >= tc_final_result
      /\ tc_final_result' = tc_final_result + 1 => tc_final_result' # 0
  BY <1>inv, <1>1
<1>3. /\ TST_COUNT' \in 0..MaxTests /\ counted' \in 0..MaxTests
      /\ ~Unexecuted => TST_COUNT >= TST_TOTAL
  <2>1. TST_COUNT \in 0..MaxTests /\ counted \in 0..MaxTests
    BY <1>inv DEF TypeOK
  <2>2. ~Unexecuted => TST_COUNT >= TST_TOTAL
    BY <2>1, Sizes DEF Unexecuted
  <2>3. Unexecuted => TST_COUNT + 1 \in 0..MaxTests
    BY <2>1, Sizes DEF Unexecuted
  <2>. QED  BY <1>1, <2>1, <2>2, <2>3
<1>4. TypeOK'
  <2>1. /\ killed' \in BOOLEAN /\ pidfile' \in BOOLEAN /\ TC_SAVE' \in BOOLEAN
        /\ net' \in BOOLEAN /\ cpfailed' \in BOOLEAN /\ stopped' \in BOOLEAN
        /\ tail' \in BOOLEAN /\ tc_cap_log_pid' \in BOOLEAN
    BY <1>inv, <1>1, Zenon DEF TypeOK, helpers, dogVars, accounts
  <2>2. status' \in -1..255
    <3>1. status \in -1..255
      BY <1>inv DEF TypeOK
    <3>2. status' = status \/ status' = 143 \/ status' = 1
      BY <1>1
    <3>. QED  BY <3>1, <3>2
  <2>3. sleepers' \subseteq Sleepers
    BY <1>inv, <1>1 DEF TypeOK, helpers
  <2>. QED  BY <1>inv, <1>1, <1>2, <1>3, <2>1, <2>2, <2>3 DEF TypeOK, accounts, dogVars
<1>5. StatusInv'
  BY <1>inv, <1>1, <1>2 DEF StatusInv, InTrap
<1>6. CleanInv'
  BY <1>inv, <1>1, <1>3 DEF CleanInv, Ended, AfterAccount, AfterNet,
              AfterSleepers, AfterCapture, AfterUsers, helpers, accounts
<1>7. KnownInv'
  BY <1>inv, <1>1, <1>2 DEF KnownInv, accounts, helpers
<1>8. DogInv'
  BY <1>inv, <1>1 DEF DogInv, DogDone, BeforeTrap, Ended, TypeOK, dogVars
<1>. QED  BY <1>4, <1>5, <1>6, <1>7, <1>8 DEF IInv

LEMMA AccountsKeep ==
  ASSUME IInv, CleanUsers \/ CleanGroups
  PROVE  IInv'
<1>inv. TypeOK /\ DogInv /\ CleanInv /\ KnownInv /\ StatusInv /\ tc_final_result \in Nat
  BY DEF IInv, TypeOK
<1>1. /\ UNCHANGED <<killed, status, cut, counted, dogVars, helpers, files>>
      /\ \/ pc = "users" /\ pc' = "groups" /\ UNCHANGED <<groups, TC_TEMP_GROUPS, stopped>>
         \/ pc = "groups" /\ pc' = "exit" /\ UNCHANGED <<users, TC_TEMP_USERS>>
  BY DEF CleanUsers, CleanGroups, Goto, ending
<1>2. /\ UNCHANGED <<TST_COUNT, tc_brok_result, tc_warn_result, tc_watchdog_result>>
      /\ tc_final_result' \in Nat
      /\ users' \subseteq users /\ TC_TEMP_USERS' \subseteq TC_TEMP_USERS
      /\ users' \subseteq TC_TEMP_USERS' \cup refused'
      /\ groups' \subseteq groups /\ TC_TEMP_GROUPS' \subseteq Groups
      /\ groups' \subseteq TC_TEMP_GROUPS'
      /\ refused' \subseteq Users \cup Groups
      /\ stopped' = stopped \/ stopped' \in BOOLEAN
      /\ refused' # {} \/ stopped' => tc_final_result' # 0
      /\ pc = "users" => TC_TEMP_USERS' = {}
      /\ pc = "groups" => groups' = {} \/ stopped'
  <2>1. CASE CleanUsers
    <3>1. DeleteUsers(TC_TEMP_USERS) /\ pc = "users"
      BY <2>1 DEF CleanUsers
    <3>2. UNCHANGED <<groups, TC_TEMP_GROUPS, stopped>>
      BY <2>1 DEF CleanUsers
    <3>3. /\ users' \subseteq users
          /\ TC_TEMP_USERS' = {}
          /\ users' \subseteq TC_TEMP_USERS' \cup refused'
          /\ refused' \subseteq refused \cup TC_TEMP_USERS
          /\ tc_final_result' \in Nat /\ tc_final_result' >= tc_final_result
          /\ refused' # {} => refused # {} \/ tc_final_result' # 0
          /\ UNCHANGED <<TST_COUNT, tc_brok_result, tc_warn_result, tc_watchdog_result>>
      BY <1>inv, <3>1, DeleteUsersFacts DEF KnownInv
    <3>4. tc_final_result # 0 => tc_final_result' # 0
      BY <1>inv, <3>3
    <3>. QED  BY <1>inv, <3>1, <3>2, <3>3, <3>4 DEF TypeOK, KnownInv
  <2>2. CASE CleanGroups
    <3>1. DeleteGroups(TC_TEMP_GROUPS) /\ pc = "groups" /\ UNCHANGED <<users, TC_TEMP_USERS>>
      BY <2>2 DEF CleanGroups
    <3>2. /\ groups' \subseteq groups
          /\ TC_TEMP_GROUPS' \subseteq TC_TEMP_GROUPS
          /\ groups' \subseteq TC_TEMP_GROUPS'
          /\ stopped' \in BOOLEAN
          /\ refused' \subseteq refused \cup TC_TEMP_GROUPS
          /\ ~stopped' => groups' = groups \ TC_TEMP_GROUPS /\ refused' = refused
          /\ UNCHANGED results \/ Fail
          /\ stopped' => Fail
      BY <1>inv, <3>1, DeleteGroupsFacts DEF KnownInv
    <3>3. /\ tc_final_result' \in Nat /\ tc_final_result' >= tc_final_result
          /\ UNCHANGED <<TST_COUNT, tc_brok_result, tc_warn_result, tc_watchdog_result>>
          /\ Fail => tc_final_result' # 0
      BY <1>inv, <3>2 DEF Fail, results
    <3>4. tc_final_result # 0 => tc_final_result' # 0
      BY <1>inv, <3>3
    <3>5. refused \subseteq refused'
      BY <3>1 DEF DeleteGroups
    <3>. QED  BY <1>inv, <3>1, <3>2, <3>3, <3>4, <3>5 DEF TypeOK, KnownInv
  <2>. QED  BY <2>1, <2>2
<1>3. TypeOK'
  <2>1. /\ killed' \in BOOLEAN /\ pidfile' \in BOOLEAN /\ TC_SAVE' \in BOOLEAN
        /\ net' \in BOOLEAN /\ cpfailed' \in BOOLEAN /\ stopped' \in BOOLEAN
        /\ tail' \in BOOLEAN /\ tc_cap_log_pid' \in BOOLEAN
    BY <1>inv, <1>1, <1>2, Zenon DEF TypeOK, helpers, dogVars, files
  <2>2. /\ users' \subseteq Users /\ TC_TEMP_USERS' \subseteq Users /\ groups' \subseteq Groups
        /\ TC_TEMP_GROUPS' \subseteq Groups /\ refused' \subseteq Users \cup Groups
    BY <1>inv, <1>2 DEF TypeOK
  <2>. QED  BY <1>inv, <1>1, <1>2, <2>1, <2>2 DEF TypeOK, helpers, dogVars
<1>4. StatusInv'
  BY <1>inv, <1>1 DEF StatusInv, InTrap
<1>5. CleanInv'
  BY <1>inv, <1>1, <1>2 DEF CleanInv, Ended, AfterAccount, AfterNet,
              AfterSleepers, AfterCapture, AfterUsers, helpers, files
<1>6. KnownInv'
  BY <1>inv, <1>1, <1>2 DEF KnownInv, helpers
<1>7. DogInv'
  BY <1>inv, <1>1, <1>2 DEF DogInv, DogDone, BeforeTrap, Ended, TypeOK, dogVars, files
<1>. QED  BY <1>3, <1>4, <1>5, <1>6, <1>7 DEF IInv

LEMMA FinishKeeps ==
  ASSUME IInv, Finish
  PROVE  IInv'
<1>inv. TypeOK /\ DogInv /\ CleanInv /\ KnownInv /\ StatusInv
  BY DEF IInv
<1>1. /\ pc = "exit" /\ pc' = "done" /\ TC_SAVE' = FALSE /\ cut' = "no" /\ TST_COUNT' = 0
      /\ status' = IF killed THEN 143 ELSE ExitCode
      /\ UNCHANGED <<killed, counted, tc_final_result, tc_brok_result, tc_warn_result,
                     tc_watchdog_result, dogVars, accounts, helpers, net, cpfailed>>
  BY DEF Finish, ExitInTrap
<1>2. ExitCode \in 0..255
  <2>1. tc_final_result % ExitCodes \in 0..255
    <3>1. tc_final_result \in Int /\ ExitCodes \in 1..256
      BY <1>inv, Sizes DEF TypeOK
    <3>2. tc_final_result % ExitCodes \in 0..(ExitCodes - 1)
      BY <3>1
    <3>. QED  BY <3>1, <3>2
  <2>2. tc_watchdog_result \in {0, 88} /\ tc_warn_result \in {0, 99}
    BY <1>inv DEF TypeOK
  <2>. QED  BY <2>1, <2>2 DEF ExitCode
<1>3. TypeOK'
  <2>1. /\ killed' \in BOOLEAN /\ pidfile' \in BOOLEAN /\ TC_SAVE' \in BOOLEAN
        /\ net' \in BOOLEAN /\ cpfailed' \in BOOLEAN /\ stopped' \in BOOLEAN
        /\ tail' \in BOOLEAN /\ tc_cap_log_pid' \in BOOLEAN
    BY <1>inv, <1>1, Zenon DEF TypeOK, helpers, dogVars, accounts
  <2>2. status' \in -1..255 /\ TST_COUNT' \in 0..MaxTests
    BY <1>1, <1>2, Sizes
  <2>. QED  BY <1>inv, <1>1, <2>1, <2>2 DEF TypeOK, helpers, dogVars, accounts
<1>4. StatusInv'
  BY <1>inv, <1>1 DEF StatusInv, InTrap, ExitCode
<1>5. CleanInv' /\ KnownInv'
  BY <1>inv, <1>1 DEF CleanInv, KnownInv, Ended, AfterAccount, AfterNet,
              AfterSleepers, AfterCapture, AfterUsers, helpers, accounts
<1>6. DogInv'
  BY <1>inv, <1>1 DEF DogInv, DogDone, BeforeTrap, Ended, dogVars
<1>. QED  BY <1>3, <1>4, <1>5, <1>6 DEF IInv

-----------------------------------------------------------------------------
(* The watchdog, which takes its steps wherever the script is. *)

LEMMA WatchdogKeeps ==
  ASSUME IInv, Watchdog \/ WatchdogStruck
  PROVE  IInv'
<1>inv. TypeOK /\ DogInv /\ CleanInv /\ KnownInv /\ StatusInv
  BY DEF IInv
<1>1. /\ UNCHANGED <<counted, results, accounts, sleepers, TC_SLEEPER_PIDS, tc_cap_log_pid,
                     files>>
      /\ tail' = tail \/ tail' = FALSE
  BY DEF Watchdog, ReportPid, Expire, KillChildren, KillTestcase, WatchdogEnds, WatchdogStruck,
         helpers, ending
<1>2. \/ UNCHANGED <<pc, killed, status, cut>>
      \/ /\ assassin = "testcase" /\ assassin' = "gone" /\ killed' = TRUE /\ pc # "done"
         /\ status' = 143
         /\ UNCHANGED <<watchdog, pidfile>>
         /\ \/ InTrap /\ pc' = "done" /\ cut' = "killed"
            \/ ~InTrap /\ pc' = "check" /\ UNCHANGED cut
  BY DEF Watchdog, ReportPid, Expire, KillChildren, KillTestcase, WatchdogEnds, WatchdogStruck,
         ending
<1>3. \/ UNCHANGED <<watchdog, assassin, pidfile>>
      \/ watchdog = "starting" /\ watchdog' = "sleeping" /\ pidfile' = TC_SAVE /\ assassin' = assassin
      \/ watchdog = "sleeping" /\ watchdog' = "killing" /\ assassin' = "children" /\ pidfile' = pidfile
      \/ assassin = "children" /\ assassin' = "testcase" /\ UNCHANGED <<watchdog, pidfile>>
      \/ assassin = "testcase" /\ assassin' = "gone" /\ UNCHANGED <<watchdog, pidfile>>
      \/ /\ watchdog = "killing" /\ assassin = "gone" /\ watchdog' = "gone"
         /\ UNCHANGED <<assassin, pidfile>>
      \/ /\ watchdog \in {"starting", "sleeping", "killing"} /\ watchdog' = "struck"
         /\ UNCHANGED <<assassin, pidfile>>
  BY DEF Watchdog, ReportPid, Expire, KillChildren, KillTestcase, WatchdogEnds, WatchdogStruck
<1>4. TypeOK'
  <2>1. /\ killed' \in BOOLEAN /\ pidfile' \in BOOLEAN /\ TC_SAVE' \in BOOLEAN
        /\ net' \in BOOLEAN /\ cpfailed' \in BOOLEAN /\ stopped' \in BOOLEAN
        /\ tail' \in BOOLEAN /\ tc_cap_log_pid' \in BOOLEAN
    <3>1. killed' = killed \/ killed' = TRUE
      BY <1>2
    <3>2. pidfile' = pidfile \/ pidfile' = TC_SAVE
      BY <1>3
    <3>. QED  BY <1>inv, <1>1, <3>1, <3>2, Zenon DEF TypeOK, files, accounts
  <2>2. status' \in -1..255
    <3>1. status \in -1..255
      BY <1>inv DEF TypeOK
    <3>2. status' = status \/ status' = 143
      BY <1>2
    <3>. QED  BY <3>1, <3>2
  <2>3. /\ watchdog' \in {"none", "starting", "sleeping", "killing", "gone", "struck"}
        /\ assassin' \in {"none", "children", "testcase", "gone"}
    BY <1>inv, <1>3 DEF TypeOK
  <2>4. pc' \in Places /\ cut' \in {"no", "account", "exit", "killed"}
    BY <1>inv, <1>2 DEF TypeOK, Places
  <2>. QED  BY <1>inv, <1>1, <2>1, <2>2, <2>3, <2>4 DEF TypeOK, Places, results, accounts
<1>5. StatusInv'
  BY <1>inv, <1>1, <1>2 DEF StatusInv, InTrap, ExitCode, results
<1>6. CleanInv'
  BY <1>inv, <1>1, <1>2 DEF CleanInv, Ended, AfterAccount, AfterNet,
              AfterSleepers, AfterCapture, AfterUsers, files, results, accounts
<1>7. KnownInv'
  BY <1>inv, <1>1 DEF KnownInv, results, accounts
<1>8. DogInv'
  <2>1. /\ pc \in Places /\ watchdog \in {"none", "starting", "sleeping", "killing", "gone", "struck"}
        /\ assassin \in {"none", "children", "testcase", "gone"}
    BY <1>inv DEF TypeOK, Places
  <2>2. /\ ~InTrap /\ pc # "done" => pc \in {"setup", "watchdog", "local_setup", "run"}
        /\ InTrap => pc \notin {"setup", "watchdog", "local_setup", "run", "done"}
    BY <2>1 DEF InTrap, Places
  <2>3. CASE UNCHANGED <<pc, killed, status, cut>>
    <3>1. UNCHANGED <<tc_brok_result, tc_watchdog_result, TC_SAVE, pc, cut>>
      BY <1>1, <2>3 DEF files, results
    <3>2. watchdog \in {"none", "gone", "struck"} => watchdog' = watchdog
      BY <1>3
    <3>3. DogDone => DogDone'
      BY <3>1, <3>2 DEF DogDone
    <3>4. pidfile /\ watchdog # "none" /\ pc # "done" => pidfile'
      BY <1>inv, <1>3 DEF DogInv
    <3>5. pidfile /\ watchdog = "none" => pidfile'
      BY <1>inv, <1>3 DEF DogInv
    <3>6. watchdog' \in {"none", "starting", "sleeping"} => assassin' = "none"
      BY <1>inv, <1>3, <2>1 DEF DogInv
    <3>7. watchdog' = "gone" /\ pc \in BeforeTrap => assassin' = "gone"
      BY <1>inv, <1>3, <2>1 DEF DogInv
    <3>8. tc_watchdog_result = 88 => assassin' = "gone" \/ watchdog' = "struck"
      BY <1>inv, <1>3 DEF DogInv
    <3>9. watchdog = "none" /\ ~pidfile => ~pidfile'
      BY <1>inv, <1>3 DEF DogInv
    <3>10. watchdog' = "none" => watchdog = "none"
      BY <1>3
    <3>11. pc = "watchdog" /\ (watchdog' = "sleeping" \/ assassin' # "none") => pidfile'
      BY <1>inv, <1>3, <2>1 DEF DogInv
    <3>. QED  BY <1>inv, <3>1, <3>2, <3>3, <3>4, <3>5, <3>6, <3>7, <3>8, <3>9, <3>10, <3>11
              DEF DogInv, Ended, BeforeTrap
  <2>4. CASE ~UNCHANGED <<pc, killed, status, cut>>
    <3>1. /\ assassin = "testcase" /\ assassin' = "gone" /\ pc # "done"
          /\ UNCHANGED <<watchdog, pidfile, TC_SAVE>>
          /\ \/ pc' = "done" /\ cut' = "killed"
             \/ ~InTrap /\ pc' = "check"
      BY <1>1, <1>2, <2>4 DEF files
    <3>2. watchdog \notin {"none", "starting", "sleeping"}
      BY <1>inv, <3>1 DEF DogInv
    <3>3. pc' = "check" => pidfile
      BY <1>inv, <2>2, <3>1, <3>2 DEF DogInv
    <3>. QED  BY <1>inv, <3>1, <3>2, <3>3 DEF DogInv, BeforeTrap, Ended
  <2>. QED  BY <2>3, <2>4
<1>. QED  BY <1>4, <1>5, <1>6, <1>7, <1>8 DEF IInv

-----------------------------------------------------------------------------
(* The theorems. *)

LEMMA InitIInv == Init => IInv
<1> SUFFICES ASSUME Init PROVE IInv
  OBVIOUS
<1>1. TypeOK
  <2>1. TST_COUNT \in 0..MaxTests /\ counted \in 0..MaxTests /\ status \in -1..255
    BY Sizes DEF Init
  <2>2. /\ killed \in BOOLEAN /\ pidfile \in BOOLEAN /\ TC_SAVE \in BOOLEAN
        /\ net \in BOOLEAN /\ cpfailed \in BOOLEAN /\ stopped \in BOOLEAN
        /\ tail \in BOOLEAN /\ tc_cap_log_pid \in BOOLEAN
    BY Zenon DEF Init
  <2>. QED  BY <2>1, <2>2 DEF Init, TypeOK
<1>. QED  BY <1>1, Sizes DEF Init, IInv, DogInv, CleanInv, KnownInv, StatusInv, InTrap,
            BeforeTrap, Ended, AfterAccount, AfterNet, AfterSleepers, AfterCapture, AfterUsers

LEMMA IInvNext == IInv /\ [Next]_vars => IInv'
<1> SUFFICES ASSUME IInv, [Next]_vars PROVE IInv'
  OBVIOUS
<1>1. CASE Setup \/ SetupFails \/ WatchdogShown \/ WatchdogMissing
  BY <1>1, SetupKeeps
<1>2. CASE Testcase
  BY <1>2, TestcaseKeeps
<1>3. CASE Cleanup \/ tc_local_cleanup
  BY <1>3, CheckKeeps, UndoKeeps, AccountsKeep, FinishKeeps DEF Cleanup
<1>4. CASE Watchdog \/ WatchdogStruck
  BY <1>4, WatchdogKeeps
<1>5. CASE UNCHANGED vars
  BY <1>5 DEF vars, results, ending, dogVars, accounts, helpers, files, IInv, TypeOK,
       DogInv, DogDone, CleanInv, KnownInv, StatusInv, InTrap, Ended, ExitCode
<1>. QED  BY <1>1, <1>2, <1>3, <1>4, <1>5 DEF Next

LEMMA Invariance == Spec => []IInv
BY InitIInv, IInvNext, PTL DEF Spec

\* The variables of a testcase keep their types; its exit status fits a byte.
THEOREM TypeCorrect == Spec => []TypeOK
BY Invariance, PTL DEF IInv

\* Exit status 0 means that all tests ran, nothing was reported, and
\* tc_internal_cleanup left no account, process or file behind, whenever the
\* watchdog fired; or that a helper left the trap after reporting a failure,
\* or that the failures are a multiple of the number of exit codes.
THEOREM ZeroIsClean == Spec => []ZeroMeansClean
<1>1. IInv => ZeroMeansClean
  <2> SUFFICES ASSUME IInv, pc = "done", status = 0,
                      ~(cut = "exit" /\ (tc_final_result # 0 \/ tc_brok_result # 0)),
                      ~(cut = "no" /\ tc_final_result # 0 /\ tc_final_result % ExitCodes = 0)
               PROVE  /\ tc_final_result = 0 /\ tc_brok_result = 0 /\ tc_warn_result = 0
                      /\ ~killed /\ counted >= TST_TOTAL
                      /\ users = {} /\ groups = {} /\ sleepers = {} /\ ~tail
                      /\ (net \/ cpfailed) /\ ~TC_SAVE
                      /\ watchdog \in {"none", "gone"}
    BY DEF ZeroMeansClean
  <2>inv. TypeOK /\ DogInv /\ CleanInv /\ KnownInv /\ StatusInv
    BY DEF IInv
  <2>1. Ended /\ ~killed /\ ExitCode = 0
    BY <2>inv DEF StatusInv, Ended
  <2>2. tc_watchdog_result \in {0, 88} /\ tc_brok_result \in {0, -1} /\ tc_warn_result \in {0, 99}
    BY <2>inv DEF TypeOK
  <2>3. /\ tc_final_result = 0 /\ tc_brok_result = 0 /\ tc_warn_result = 0
        /\ tc_watchdog_result = 0
    BY <2>1, <2>2 DEF ExitCode, Ended
  <2>4. users = {} /\ groups = {} /\ sleepers = {}
    BY <2>inv, <2>1, <2>3 DEF KnownInv, CleanInv
  <2>. QED  BY <2>inv, <2>1, <2>3, <2>4 DEF DogInv, DogDone, CleanInv
<1>. QED  BY <1>1, Invariance, PTL

\* Whatever failed: a trap that came to its end leaves only users whose own
\* deletion failed, groups if a groupdel of the trap failed, and sleepers that
\* never told their pid.
THEOREM FailureIsClean == Spec => []CleansUpAfterFailure
<1>1. IInv => CleansUpAfterFailure
  <2> SUFFICES ASSUME IInv, pc = "done", cut = "no"
               PROVE  /\ users \subseteq refused
                      /\ groups # {} => stopped /\ tc_final_result # 0
                      /\ sleepers \subseteq Sleepers \ TC_SLEEPER_PIDS
                      /\ ~tail /\ (net \/ cpfailed) /\ ~TC_SAVE
    BY DEF CleansUpAfterFailure
  <2>inv. CleanInv /\ KnownInv /\ Ended /\ sleepers \subseteq Sleepers
    BY DEF IInv, Ended, TypeOK
  <2>1. users \subseteq refused
    BY <2>inv DEF CleanInv, KnownInv
  <2>2. groups # {} => stopped /\ tc_final_result # 0
    BY <2>inv DEF CleanInv, KnownInv
  <2>3. sleepers \subseteq Sleepers \ TC_SLEEPER_PIDS
    BY <2>inv DEF CleanInv
  <2>. QED  BY <2>inv, <2>1, <2>2, <2>3 DEF CleanInv
<1>. QED  BY <1>1, Invariance, PTL

\* tc_internal_cleanup takes a watchdog that has ended for one that has
\* killed: it is right unless something else ended the watchdog.
THEOREM TimeoutIsReal == Spec => []NoFalseTimeout
<1>1. IInv => NoFalseTimeout
  BY DEF IInv, DogInv, NoFalseTimeout
<1>. QED  BY <1>1, Invariance, PTL
=============================================================================
