-------------------------- MODULE OTAServiceProofs --------------------------
(***************************************************************************)
(* Proofs about OTAService, for every number of releases, tries, recovery  *)
(* boots and redirects.                                                    *)
(*                                                                         *)
(* IInv relates what is in flash, in RAM and under way. Its heart is Ahead *)
(* (no tag the device remembers is older than what it runs, once it has    *)
(* been compared) and ResumedTag (a recovery boot works on the tag its     *)
(* file names: a boot that starts the image while the file is still there  *)
(* finds the tag it has just become).                                      *)
(***************************************************************************)
EXTENDS OTAService, TLAPS

\* TypeOK in two parts: the provers take the Boolean variables apart from the rest
ValuesTyped ==
  /\ running \in Versions
  /\ staged \in Versions \cup {NoTag}
  /\ pending \in Requests \cup {NoFile}
  /\ rejectedFile \in Versions \cup {NoTag} /\ rejected \in Versions \cup {NoTag}
  /\ session \in {"idle", "check", "headers", "stream"}
  /\ want \in {"none", "check", "install"}
  /\ tries \in 0 .. MAX_TRIES - 1
  /\ hop \in 0 .. MAX_REDIRECTS - 1
  /\ available \in Tags
  /\ pendingBoots \in 0 .. MAX_BOOTS

FlagsTyped ==
  /\ automatic \in BOOLEAN /\ backoff \in BOOLEAN /\ checkInstall \in BOOLEAN
  /\ slim \in BOOLEAN /\ due \in BOOLEAN /\ restart \in BOOLEAN /\ panel \in BOOLEAN
  /\ checked \in BOOLEAN /\ byHand \in BOOLEAN
  /\ fsOk \in BOOLEAN /\ settled \in BOOLEAN

Downloading == session \in {"headers", "stream"}

\* A session clears the request it serves, and none is made while it is open
RequestsMeanIdle == Active => want = "none"

\* What is installed has a tag. _recoverHeap's "check" is one only until the restart
TagsKnown ==
  /\ available = CheckTag => restart
  /\ want = "install" => available # NoTag
  /\ Downloading => available \in Versions

\* Tags come from isNewer; the staged image waits for a restart with nothing to resume
Ahead ==
  /\ available \in Versions => available >= running
  /\ pending.tag \in Versions => pending.tag >= running
  /\ staged # NoTag => staged >= running /\ restart /\ ~Active /\ pending = NoFile

\* Recovery has no panel, and once it ends the device restarts to have one
Recovery ==
  /\ slim => ~panel
  /\ ~panel /\ ~slim => restart /\ ~Active
  /\ pending # NoFile => IF panel THEN restart /\ ~Active ELSE slim

\* A recovery boot whose file names a tag installs that one, until it restarts
ResumedTag ==
  pending.tag \in Versions /\ (Active \/ ~restart) =>
     /\ available = pending.tag
     /\ session # "check"
     /\ Active \/ want = "install"

\* The target is a rejected version only by hand or in recovery
NotRejected ==
  Downloading \/ want = "install" => byHand \/ slim \/ available # rejected

Control ==
  /\ RetryHasRequest
  /\ RequestsMeanIdle
  /\ TagsKnown
  /\ Ahead
  /\ Recovery
  /\ ResumedTag
  /\ NotRejected

IInv == ValuesTyped /\ FlagsTyped /\ Control

(***************************************************************************)
(* The invariant is inductive: one step per action.                        *)
(***************************************************************************)
LEMMA InvariantKept ==
  ASSUME OtaAssumption, IInv, [Next]_vars
  PROVE  IInv'
<1> USE OtaAssumption DEF IInv, Control
<1>1. CASE RequestCheck
  <2>1. ValuesTyped'
    BY <1>1 DEF ValuesTyped, RequestCheck, flashVars, netVars, ramVars, bootVars
  <2>2. FlagsTyped'
    BY <1>1 DEF FlagsTyped, RequestCheck, flashVars, netVars, ramVars, bootVars,
       worldVars
  <2>3. Control'
    BY <1>1 DEF RetryHasRequest, RequestsMeanIdle, TagsKnown, Ahead, Recovery,
       ResumedTag, NotRejected, NoFile, RequestCheck, flashVars, netVars, ramVars,
       bootVars, Active, Downloading
  <2> QED
    BY <2>1, <2>2, <2>3
<1>2. CASE RequestInstall
  <2>1. ValuesTyped'
    BY <1>2 DEF ValuesTyped, RequestInstall, flashVars, netVars, ramVars, bootVars
  <2>2. FlagsTyped'
    BY <1>2 DEF FlagsTyped, RequestInstall, flashVars, netVars, ramVars, bootVars,
       worldVars
  <2>3. Control'
    BY <1>2 DEF RetryHasRequest, RequestsMeanIdle, TagsKnown, Ahead, Recovery,
       ResumedTag, NotRejected, RequestInstall, flashVars, netVars, ramVars,
       bootVars, Active, Downloading
  <2> QED
    BY <2>1, <2>2, <2>3
<1>3. CASE SetAutomatic
  <2>1. ValuesTyped'
    BY <1>3 DEF ValuesTyped, SetAutomatic, requestVars, netVars, ramVars, bootVars
  <2>2. FlagsTyped'
    BY <1>3 DEF FlagsTyped, SetAutomatic, requestVars, netVars, ramVars, bootVars,
       worldVars, historyVars
  <2>3. Control'
    BY <1>3 DEF RetryHasRequest, RequestsMeanIdle, TagsKnown, Ahead, Recovery,
       ResumedTag, NotRejected, SetAutomatic, requestVars, netVars, ramVars,
       bootVars, historyVars, Active, Downloading
  <2> QED
    BY <2>1, <2>2, <2>3
<1>4. CASE OfferLatest
  <2>1. ValuesTyped'
    BY <1>4 DEF ValuesTyped, OfferLatest, flashVars, requestVars, netVars, bootVars
  <2>2. FlagsTyped'
    BY <1>4 DEF FlagsTyped, OfferLatest, IsNewer, flashVars, requestVars, netVars,
       bootVars, worldVars, historyVars
  <2>3. Control'
    BY <1>4 DEF RetryHasRequest, RequestsMeanIdle, TagsKnown, Ahead, Recovery,
       ResumedTag, NotRejected, OfferLatest, Busy, flashVars, requestVars, netVars,
       bootVars, Active, Downloading
  <2> QED
    BY <2>1, <2>2, <2>3
<1>5. CASE Elapse
  <2>1. ValuesTyped'
    BY <1>5 DEF ValuesTyped, Elapse, flashVars, netVars, bootVars
  <2>2. FlagsTyped'
    BY <1>5 DEF FlagsTyped, Elapse, flashVars, netVars, bootVars, worldVars,
       historyVars
  <2>3. Control'
    BY <1>5 DEF RetryHasRequest, RequestsMeanIdle, TagsKnown, Ahead, Recovery,
       ResumedTag, NotRejected, Elapse, flashVars, netVars, bootVars, historyVars,
       Active, Downloading
  <2> QED
    BY <2>1, <2>2, <2>3
<1>6. CASE StartInstall
  <2>1. ValuesTyped'
    BY <1>6 DEF ValuesTyped, TagsKnown, Tags, Requests, StartInstall, Download,
       RecoverHeap, Failed, ScheduleRetry, PersistAndReboot, SavePending,
       ClearPending, bootVars
  <2>2. FlagsTyped'
    BY <1>6 DEF FlagsTyped, StartInstall, Download, RecoverHeap, Failed,
       ScheduleRetry, PersistAndReboot, ClearPending, bootVars, worldVars,
       historyVars
  <2>3. Control'
    BY <1>6 DEF ValuesTyped, RetryHasRequest, RequestsMeanIdle, TagsKnown, Ahead,
       Recovery, ResumedTag, NotRejected, Versions, Tags, NoFile, StartInstall,
       Download, RecoverHeap, Failed, ScheduleRetry, PersistAndReboot, SavePending,
       ClearPending, bootVars, historyVars, Active, Downloading, NoTag
  <2> QED
    BY <2>1, <2>2, <2>3
<1>7. CASE StartCheck
  <2>1. ValuesTyped'
    BY <1>7 DEF ValuesTyped, Tags, Requests, StartCheck, CheckNow, RecoverHeap,
       Failed, ScheduleRetry, PersistAndReboot, SavePending, ClearPending, bootVars
  <2>2. FlagsTyped'
    BY <1>7 DEF FlagsTyped, StartCheck, CheckNow, RecoverHeap, Failed,
       ScheduleRetry, PersistAndReboot, ClearPending, bootVars, worldVars,
       historyVars
  <2>3. Control'
    BY <1>7 DEF RetryHasRequest, RequestsMeanIdle, TagsKnown, Ahead, Recovery,
       ResumedTag, NotRejected, Versions, NoFile, StartCheck, CheckNow, RecoverHeap,
       Failed, ScheduleRetry, PersistAndReboot, SavePending, ClearPending, bootVars,
       Active, Downloading, NoTag, CheckTag
  <2> QED
    BY <2>1, <2>2, <2>3
<1>8. CASE AutoCheck
  <2>1. ValuesTyped'
    BY <1>8 DEF ValuesTyped, Tags, Requests, AutoCheck, CheckNow, RecoverHeap,
       Failed, ScheduleRetry, PersistAndReboot, SavePending, ClearPending, bootVars
  <2>2. FlagsTyped'
    BY <1>8 DEF FlagsTyped, AutoCheck, CheckNow, RecoverHeap, Failed, ScheduleRetry,
       PersistAndReboot, ClearPending, bootVars, worldVars
  <2>3. Control'
    BY <1>8 DEF RetryHasRequest, RequestsMeanIdle, TagsKnown, Ahead, Recovery,
       ResumedTag, NotRejected, Versions, NoFile, AutoCheck, CheckNow, RecoverHeap,
       Failed, ScheduleRetry, PersistAndReboot, SavePending, ClearPending, bootVars,
       Active, Downloading, NoTag, CheckTag
  <2> QED
    BY <2>1, <2>2, <2>3
<1>9. CASE CheckFails
  <2>1. ValuesTyped'
    BY <1>9 DEF ValuesTyped, CheckFails, Failed, ScheduleRetry, ramVars, bootVars
  <2>2. FlagsTyped'
    BY <1>9 DEF FlagsTyped, CheckFails, Failed, ScheduleRetry, ramVars, bootVars,
       worldVars, historyVars
  <2>3. Control'
    BY <1>9 DEF RetryHasRequest, RequestsMeanIdle, TagsKnown, Ahead, Recovery,
       ResumedTag, NotRejected, CheckFails, Failed, ScheduleRetry, ramVars,
       bootVars, Active, Downloading
  <2> QED
    BY <2>1, <2>2, <2>3
<1>10. CASE CheckAnswers
  <2>1. ValuesTyped'
    BY <1>10 DEF ValuesTyped, Tags, Requests, CheckAnswers, AfterCheck,
       NothingToInstall, Download, RecoverHeap, Failed, ScheduleRetry,
       PersistAndReboot, SavePending, ClearPending, bootVars
  <2>2. FlagsTyped'
    <3> PICK tag \in Versions : AfterCheck(tag)
      BY <1>10 DEF CheckAnswers
    <3>1. CASE NothingToInstall(tag) \/ NothingToInstall(NoTag)
      BY <1>10, <3>1 DEF FlagsTyped, CheckAnswers, NothingToInstall, ClearPending,
         worldVars, historyVars
    <3>2. CASE Download(tag)
      BY <1>10, <3>2 DEF FlagsTyped, CheckAnswers, Download, RecoverHeap, Failed,
         ScheduleRetry, PersistAndReboot, ClearPending, bootVars, worldVars,
         historyVars
    <3>3. CASE UNCHANGED <<backoff, bootVars>>
      BY <1>10, <3>3 DEF FlagsTyped, CheckAnswers, bootVars, worldVars, historyVars
    <3> QED
      BY <3>1, <3>2, <3>3 DEF AfterCheck
  <2>3. Control'
    BY <1>10 DEF ValuesTyped, FlagsTyped, RetryHasRequest, RequestsMeanIdle,
       TagsKnown, Ahead, Recovery, ResumedTag, NotRejected, Versions, NoFile,
       CheckAnswers, AfterCheck, NothingToInstall, IsNewer, Download, RecoverHeap,
       Failed, ScheduleRetry, PersistAndReboot, SavePending, ClearPending, bootVars,
       Active, Downloading, NoTag, CheckTag
  <2> QED
    BY <2>1, <2>2, <2>3
<1>11. CASE DownloadFails
  <2>1. ValuesTyped'
    BY <1>11 DEF ValuesTyped, TagsKnown, Requests, DownloadFails, Failed,
       ScheduleRetry, PersistAndReboot, SavePending, ClearPending, ramVars,
       bootVars, Downloading
  <2>2. FlagsTyped'
    BY <1>11 DEF FlagsTyped, DownloadFails, Failed, ScheduleRetry, PersistAndReboot,
       ClearPending, ramVars, bootVars, worldVars, historyVars
  <2>3. Control'
    BY <1>11 DEF RetryHasRequest, RequestsMeanIdle, TagsKnown, Ahead, Recovery,
       ResumedTag, NotRejected, Versions, NoFile, DownloadFails, Failed,
       ScheduleRetry, PersistAndReboot, SavePending, ClearPending, ramVars,
       bootVars, historyVars, Active, Downloading, NoTag
  <2> QED
    BY <2>1, <2>2, <2>3
<1>12. CASE DownloadRedirects
  <2>1. ValuesTyped'
    BY <1>12 DEF ValuesTyped, DownloadRedirects, flashVars, requestVars, ramVars,
       bootVars
  <2>2. FlagsTyped'
    BY <1>12 DEF FlagsTyped, DownloadRedirects, flashVars, requestVars, ramVars,
       bootVars, worldVars, historyVars
  <2>3. Control'
    BY <1>12 DEF RetryHasRequest, RequestsMeanIdle, TagsKnown, Ahead, Recovery,
       ResumedTag, NotRejected, DownloadRedirects, flashVars, requestVars, ramVars,
       bootVars, historyVars, Active, Downloading
  <2> QED
    BY <2>1, <2>2, <2>3
<1>13. CASE DownloadBegins
  <2>1. ValuesTyped'
    BY <1>13 DEF ValuesTyped, DownloadBegins, flashVars, requestVars, ramVars,
       bootVars
  <2>2. FlagsTyped'
    BY <1>13 DEF FlagsTyped, DownloadBegins, flashVars, requestVars, ramVars,
       bootVars, worldVars, historyVars
  <2>3. Control'
    BY <1>13 DEF RetryHasRequest, RequestsMeanIdle, TagsKnown, Ahead, Recovery,
       ResumedTag, NotRejected, DownloadBegins, flashVars, requestVars, ramVars,
       bootVars, historyVars, Active, Downloading
  <2> QED
    BY <2>1, <2>2, <2>3
<1>14. CASE StreamCompletes
  <2>1. ValuesTyped'
    BY <1>14 DEF ValuesTyped, TagsKnown, StreamCompletes, ClearPending, ramVars,
       Downloading
  <2>2. FlagsTyped'
    BY <1>14 DEF FlagsTyped, StreamCompletes, ClearPending, ramVars, worldVars,
       historyVars
  <2>3. Control'
    BY <1>14 DEF RetryHasRequest, RequestsMeanIdle, TagsKnown, Ahead, Recovery,
       ResumedTag, NotRejected, Versions, NoFile, StreamCompletes, ClearPending,
       ramVars, Active, Downloading, NoTag
  <2> QED
    BY <2>1, <2>2, <2>3
<1>15. CASE StreamRejected
  <2>1. ValuesTyped'
    BY <1>15 DEF ValuesTyped, TagsKnown, StreamRejected, ClearPending, Downloading
  <2>2. FlagsTyped'
    BY <1>15 DEF FlagsTyped, StreamRejected, ClearPending, worldVars, historyVars
  <2>3. Control'
    BY <1>15 DEF FlagsTyped, RetryHasRequest, RequestsMeanIdle, TagsKnown, Ahead,
       Recovery, ResumedTag, NotRejected, Versions, NoFile, StreamRejected,
       ClearPending, Active, Downloading, NoTag
  <2> QED
    BY <2>1, <2>2, <2>3
<1>16. CASE StreamAborts
  <2>1. ValuesTyped'
    BY <1>16 DEF ValuesTyped, TagsKnown, Requests, StreamAborts, ScheduleRetry,
       PersistAndReboot, SavePending, ClearPending, bootVars, Downloading
  <2>2. FlagsTyped'
    BY <1>16 DEF FlagsTyped, StreamAborts, ScheduleRetry, PersistAndReboot,
       ClearPending, bootVars, worldVars, historyVars
  <2>3. Control'
    BY <1>16 DEF RetryHasRequest, RequestsMeanIdle, TagsKnown, Ahead, Recovery,
       ResumedTag, NotRejected, Versions, NoFile, StreamAborts, ScheduleRetry,
       PersistAndReboot, SavePending, ClearPending, bootVars, historyVars, Active,
       Downloading, NoTag
  <2> QED
    BY <2>1, <2>2, <2>3
<1>17. CASE Restarts
  <2>1. ValuesTyped'
    BY <1>17 DEF ValuesTyped, Tags, Requests, Restarts, Boot, Image, CountedBoots
  <2>2. FlagsTyped'
    BY <1>17 DEF FlagsTyped, Restarts, Boot, worldVars
  <2>3. Control'
    BY <1>17 DEF ValuesTyped, FlagsTyped, RetryHasRequest, RequestsMeanIdle,
       TagsKnown, Ahead, Recovery, ResumedTag, NotRejected, Versions, Requests,
       NoFile, Restarts, Boot, Image, Active, Downloading, NoTag, CheckTag
  <2> QED
    BY <2>1, <2>2, <2>3
<1>18. CASE PowerCut
  <2>1. ValuesTyped'
    BY <1>18 DEF ValuesTyped, Tags, Requests, PowerCut, Boot, CountedBoots
  <2>2. FlagsTyped'
    BY <1>18 DEF FlagsTyped, PowerCut, Boot, worldVars
  <2>3. Control'
    BY <1>18 DEF ValuesTyped, FlagsTyped, RetryHasRequest, RequestsMeanIdle,
       TagsKnown, Ahead, Recovery, ResumedTag, NotRejected, Versions, Requests,
       NoFile, PowerCut, Boot, Active, Downloading, NoTag, CheckTag
  <2> QED
    BY <2>1, <2>2, <2>3
<1>19. CASE CutWhileCompleting
  <2>1. ValuesTyped'
    BY <1>19 DEF ValuesTyped, TagsKnown, Tags, Requests, CutWhileCompleting, Boot,
       CountedBoots, Downloading
  <2>2. FlagsTyped'
    BY <1>19 DEF FlagsTyped, CutWhileCompleting, Boot, worldVars
  <2>3. Control'
    BY <1>19 DEF ValuesTyped, FlagsTyped, RetryHasRequest, RequestsMeanIdle,
       TagsKnown, Ahead, Recovery, ResumedTag, NotRejected, Versions, Requests,
       NoFile, CutWhileCompleting, Boot, Active, Downloading, NoTag, CheckTag
  <2> QED
    BY <2>1, <2>2, <2>3
<1>20. CASE DailyRestart
  <2>1. ValuesTyped'
    BY <1>20 DEF ValuesTyped, DailyRestart, flashVars, requestVars, netVars, ramVars
  <2>2. FlagsTyped'
    BY <1>20 DEF FlagsTyped, DailyRestart, flashVars, requestVars, netVars, ramVars,
       worldVars, historyVars
  <2>3. Control'
    BY <1>20 DEF RetryHasRequest, RequestsMeanIdle, TagsKnown, Ahead, Recovery,
       ResumedTag, NotRejected, DailyRestart, flashVars, requestVars, netVars,
       ramVars, historyVars, Active, Downloading
  <2> QED
    BY <2>1, <2>2, <2>3
<1>21. CASE WorldChanges
  <2>1. ValuesTyped'
    BY <1>21 DEF ValuesTyped, WorldChanges, flashVars, requestVars, netVars,
       ramVars, bootVars
  <2>2. FlagsTyped'
    BY <1>21 DEF FlagsTyped, WorldChanges, flashVars, requestVars, netVars, ramVars,
       bootVars, historyVars
  <2>3. Control'
    BY <1>21 DEF RetryHasRequest, RequestsMeanIdle, TagsKnown, Ahead, Recovery,
       ResumedTag, NotRejected, WorldChanges, flashVars, requestVars, netVars,
       ramVars, bootVars, historyVars, Active, Downloading
  <2> QED
    BY <2>1, <2>2, <2>3
<1>22. CASE UNCHANGED vars
  BY <1>22 DEF RetryHasRequest, RequestsMeanIdle, TagsKnown, Ahead, Recovery,
     ResumedTag, NotRejected, ValuesTyped, FlagsTyped, vars, flashVars, requestVars,
     netVars, ramVars, bootVars, worldVars, historyVars, Active, Downloading
<1> QED
  BY <1>1, <1>2, <1>3, <1>4, <1>5, <1>6, <1>7, <1>8, <1>9, <1>10, <1>11, <1>12, <1>13,
     <1>14, <1>15, <1>16, <1>17, <1>18, <1>19, <1>20, <1>21, <1>22 DEF Next

LEMMA InvariantHolds == Spec => []IInv
<1>1. ASSUME Init
      PROVE  IInv
  <2>1. ValuesTyped
    BY <1>1, OtaAssumption DEF Init, ValuesTyped, Tags, OtaAssumption
  <2>2. FlagsTyped
    BY <1>1 DEF Init, FlagsTyped
  <2>3. Control
    BY <1>1
       DEF Init, Control, RetryHasRequest, RequestsMeanIdle, TagsKnown, Ahead, Recovery,
           ResumedTag, NotRejected, Active, Downloading, Versions, NoTag, CheckTag, NoFile
  <2> QED
    BY <2>1, <2>2, <2>3 DEF IInv
<1>2. IInv /\ [Next]_vars => IInv'
  BY OtaAssumption, InvariantKept
<1> QED
  BY <1>1, <1>2, PTL DEF Spec

(***************************************************************************)
(* The theorems.                                                           *)
(***************************************************************************)

\* Every variable keeps its type: a request on flash always has a tag, or asks
\* for a check (_savePending never writes an empty one), and counts its boots.
THEOREM TypeCorrect == Spec => []TypeOK
<1>1. IInv => TypeOK
  BY DEF IInv, ValuesTyped, FlagsTyped, TypeOK
<1> QED
  BY <1>1, InvariantHolds, PTL

\* No backoff outlives the request it is for (busy).
THEOREM RetryKept == Spec => []RetryHasRequest
<1>1. IInv => RetryHasRequest
  BY DEF IInv, Control
<1> QED
  BY <1>1, InvariantHolds, PTL

\* A recovery request on flash belongs to the recovery boot under way, or to the
\* restart that begins one (_persistAndReboot, _clearPending, _loadPending).
THEOREM RecoveryMarked == Spec => []PendingMeansRecovery
<1>1. IInv => PendingMeansRecovery
  BY DEF IInv, Control, Recovery, PendingMeansRecovery
<1> QED
  BY <1>1, InvariantHolds, PTL

\* No boot, whatever is staged, pending or cut short, runs an older version than
\* the one before it (_afterCheck, _complete, begin).
THEOREM NeverOlder == Spec => NoDowngrade
<1>1. ASSUME IInv, [Next]_vars
      PROVE  [running' >= running]_vars
  <2> SUFFICES running' >= running
    OBVIOUS
  <2> running \in Int
    BY <1>1, OtaAssumption DEF IInv, ValuesTyped, Versions, OtaAssumption
  <2>1. CASE Restarts
    <3>1. Image >= running
      BY <1>1 DEF IInv, Control, Ahead, Image
    <3> QED
      BY <2>1, <3>1 DEF Restarts, Boot
  <2>2. CASE PowerCut
    BY <2>2 DEF PowerCut, Boot
  <2>3. CASE CutWhileCompleting
    <3>1. available >= running
      BY <1>1, <2>3 DEF IInv, Control, TagsKnown, Ahead, Downloading, CutWhileCompleting
    <3> QED
      BY <2>3, <3>1 DEF CutWhileCompleting, Boot
  <2>4. CASE UNCHANGED vars
    BY <2>4 DEF vars, flashVars
  <2>5. CASE \/ RequestCheck \/ RequestInstall \/ SetAutomatic \/ OfferLatest \/ Elapse
             \/ StartInstall \/ StartCheck \/ AutoCheck \/ CheckFails \/ CheckAnswers
             \/ DownloadFails \/ DownloadRedirects \/ DownloadBegins
             \/ StreamCompletes \/ StreamRejected \/ StreamAborts
             \/ DailyRestart \/ WorldChanges
    <3>1. running' = running
      BY <2>5
         DEF RequestCheck, RequestInstall, SetAutomatic, OfferLatest, Elapse, StartInstall,
             StartCheck, AutoCheck, CheckFails, CheckAnswers, DownloadFails,
             DownloadRedirects, DownloadBegins, StreamCompletes, StreamRejected,
             StreamAborts, DailyRestart, WorldChanges, flashVars
    <3> QED
      BY <3>1
  <2> QED
    BY <1>1, <2>1, <2>2, <2>3, <2>4, <2>5 DEF Next
<1> QED
  BY <1>1, InvariantHolds, PTL DEF Spec, NoDowngrade

\* Without the owner a rejected version is downloaded only by a recovery boot
\* (_afterCheck, _wantInstall, _loadPending).
THEOREM RejectedResumed == Spec => RejectedOnlyResumed
<1> DEFINE Allowed == \A tag \in Versions : DownloadOf(tag) /\ tag = rejected => byHand \/ slim
<1>1. ASSUME IInv, [Next]_vars
      PROVE  Allowed
  <2> SUFFICES ASSUME session # "headers", session' = "headers", available' = rejected,
                      rejected \in Versions
               PROVE  byHand \/ slim
    BY DEF DownloadOf
  <2>1. CASE StartInstall
    <3>1. available' = available
      BY <2>1 DEF StartInstall, Download, Failed, RecoverHeap
    <3>2. want = "install"
      BY <2>1 DEF StartInstall
    <3> QED
      BY <1>1, <3>1, <3>2 DEF IInv, Control, NotRejected
  <2>2. CASE CheckAnswers
    <3> PICK tag \in Versions : AfterCheck(tag)
      BY <2>2 DEF CheckAnswers
    <3>1. tag # rejected /\ Download(tag)
      BY DEF AfterCheck, NothingToInstall
    <3>2. available' = tag
      BY <3>1 DEF Download, Failed, RecoverHeap
    <3> QED
      BY <3>1, <3>2
  <2>3. CASE \/ RequestCheck \/ RequestInstall \/ SetAutomatic \/ OfferLatest \/ Elapse
             \/ StartCheck \/ AutoCheck \/ CheckFails \/ DownloadFails
             \/ DownloadRedirects \/ DownloadBegins
             \/ StreamCompletes \/ StreamRejected \/ StreamAborts
             \/ Restarts \/ PowerCut \/ CutWhileCompleting
             \/ DailyRestart \/ WorldChanges \/ UNCHANGED vars
    <3>1. session' # "headers" \/ session' = session
      BY <2>3
         DEF RequestCheck, RequestInstall, SetAutomatic, OfferLatest, Elapse, StartCheck,
             AutoCheck, CheckNow, CheckFails, DownloadFails, Failed, RecoverHeap,
             DownloadRedirects, DownloadBegins, StreamCompletes, StreamRejected,
             StreamAborts, Restarts, PowerCut, CutWhileCompleting, Boot, DailyRestart,
             WorldChanges, netVars, vars
    <3> QED
      BY <3>1
  <2> QED
    BY <1>1, <2>1, <2>2, <2>3 DEF Next
<1> QED
  BY <1>1, InvariantHolds, PTL DEF Spec, RejectedOnlyResumed

(***************************************************************************)
(* The refinement of UpdateTurn: one fact per kind of step.                *)
(***************************************************************************)
\* The ways an attempt ends that is not to go on, as _scheduleRetry,
\* _recoverHeap and _complete leave them
Over ==
  /\ session' = "idle"
  /\ \/ want' = "none" /\ UNCHANGED <<slim, restart>>
     \/ want' # "none" /\ backoff' /\ UNCHANGED <<slim, restart>>
     \/ want' = "none" /\ restart' = TRUE /\ slim' \in {slim, FALSE}

LEMMA OverEnds ==
  ASSUME Over
  PROVE  Turn!OtaEnds
BY DEF Over, Turn!OtaEnds, Stage, Active

LEMMA FailedOver ==
  ASSUME FlagsTyped, NEW install \in BOOLEAN, NEW tag, Failed(install, tag)
  PROVE  Over
BY DEF FlagsTyped, Failed, ScheduleRetry, PersistAndReboot, ClearPending, bootVars, Over

LEMMA RecoverOver ==
  ASSUME NEW tag, RecoverHeap(tag)
  PROVE  Over
BY DEF RecoverHeap, PersistAndReboot, ClearPending, Over

\* A download and a check open their session, or are over
LEMMA Attempt ==
  ASSUME FlagsTyped, NEW tag,
         Download(tag) \/ (\E install \in BOOLEAN : CheckNow(install))
  PROVE  \/ Stage' = "session" /\ UNCHANGED <<slim, restart>>
         \/ Over
<1>1. CASE Download(tag)
  BY <1>1, FailedOver, RecoverOver DEF Download, Stage, Active, bootVars
<1>2. ASSUME NEW install \in BOOLEAN, CheckNow(install)
      PROVE  \/ Stage' = "session" /\ UNCHANGED <<slim, restart>>
             \/ Over
  BY <1>2, FailedOver, RecoverOver DEF CheckNow, Stage, Active, bootVars
<1> QED
  BY <1>1, <1>2

\* Nothing of it changes
Aside ==
  UNCHANGED <<Stage, slim, restart>> /\ (automatic /\ due)' = (automatic /\ due)

LEMMA RequestsTurn ==
  ASSUME FlagsTyped, RequestCheck \/ RequestInstall \/ SetAutomatic \/ OfferLatest \/ Elapse
  PROVE  Turn!UpdateNext \/ Aside
<1>1. CASE RequestCheck \/ RequestInstall
  <2>1. /\ Stage' = "armed" /\ Stage # "session"
        /\ UNCHANGED <<automatic, due, slim, restart>>
    BY <1>1 DEF RequestCheck, RequestInstall, Stage, Active, flashVars, netVars, ramVars, bootVars
  <2>2. Stage \in {"idle", "armed", "backoff"}
    BY <2>1 DEF Stage
  <2>3. CASE Stage = "armed"
    BY <2>1, <2>3 DEF Aside
  <2>4. CASE Stage \in {"idle", "backoff"}
    BY <2>1, <2>4 DEF Turn!Asked, Turn!UpdateNext
  <2> QED
    BY <2>2, <2>3, <2>4
<1>2. CASE SetAutomatic
  <2>1. UNCHANGED <<Stage, slim, restart>> /\ automatic' = ~automatic /\ due' = due
    BY <1>2 DEF SetAutomatic, Stage, Active, requestVars, netVars, ramVars, bootVars
  <2>2. (automatic /\ due)' = TRUE \/ (automatic /\ due)' = FALSE
    BY <2>1
  <2> QED
    BY <2>1, <2>2 DEF Turn!CheckDue, Turn!AutomaticOff, Turn!UpdateNext
<1>3. CASE OfferLatest
  <2>1. UNCHANGED <<Stage, slim, restart, automatic>> /\ Stage = "idle" /\ due' \in BOOLEAN
    BY <1>3 DEF OfferLatest, IsNewer, Busy, Stage, Active, flashVars, requestVars, netVars, bootVars
  <2>2. (automatic /\ due)' = FALSE \/ (automatic /\ due)' = TRUE
    BY <2>1
  <2> QED
    BY <2>1, <2>2 DEF Turn!CheckDue, Turn!AutomaticOff, Turn!UpdateNext
<1>4. CASE Elapse
  <2>1. UNCHANGED <<want, session, slim, restart, automatic>>
    BY <1>4 DEF Elapse, flashVars, netVars, bootVars
  <2>2. CASE due' = TRUE /\ UNCHANGED backoff
    <3>1. UNCHANGED Stage
      BY <2>1, <2>2 DEF Stage, Active
    <3>2. (automatic /\ due)' = TRUE \/ (automatic /\ due)' = (automatic /\ due)
      BY <1>4, <2>1, <2>2 DEF FlagsTyped
    <3> QED
      BY <2>1, <3>1, <3>2 DEF Aside, Turn!CheckDue, Turn!UpdateNext
  <2>3. CASE backoff /\ backoff' = FALSE /\ UNCHANGED due
    <3>1. Stage' = Stage \/ (Stage = "backoff" /\ Stage' = "armed")
      BY <2>1, <2>3 DEF Stage, Active
    <3>2. (automatic /\ due)' = (automatic /\ due)
      BY <2>1, <2>3
    <3> QED
      BY <2>1, <3>1, <3>2 DEF Aside, Turn!RetryDue, Turn!UpdateNext
  <2> QED
    BY <1>4, <2>2, <2>3 DEF Elapse
<1> QED
  BY <1>1, <1>2, <1>3, <1>4

\* An attempt is made for a request that is armed, or for the check that is due
LEMMA StartsTurn ==
  ASSUME FlagsTyped, StartInstall \/ StartCheck \/ AutoCheck
  PROVE  Turn!UpdateNext
<1>1. /\ ~restart /\ slim \in BOOLEAN
      /\ \/ Stage = "armed" /\ UNCHANGED <<automatic, due>>
         \/ Stage = "idle" /\ automatic /\ due /\ due' = FALSE
  BY DEF StartInstall, StartCheck, AutoCheck, Stage, FlagsTyped
<1>2. \/ Stage' = "session" /\ UNCHANGED <<slim, restart>>
      \/ Over
  BY Attempt DEF StartInstall, StartCheck, AutoCheck, FlagsTyped
<1>3. (automatic /\ due)' = ((automatic /\ due) /\ Stage = "armed")
  BY <1>1
<1> QED
  BY <1>1, <1>2, <1>3, OverEnds DEF Turn!OtaBegins, Turn!OtaStarts, Turn!UpdateNext

\* A session goes on, or its check or download is over
LEMMA SessionTurn ==
  ASSUME FlagsTyped, RequestsMeanIdle,
         \/ CheckFails \/ CheckAnswers \/ DownloadFails \/ DownloadRedirects \/ DownloadBegins
         \/ StreamCompletes \/ StreamRejected \/ StreamAborts
  PROVE  Turn!UpdateNext
<1>1. Stage = "session" /\ want = "none" /\ UNCHANGED <<automatic, due>>
  BY DEF RequestsMeanIdle, Stage, Active, CheckFails, CheckAnswers, DownloadFails,
     DownloadRedirects, DownloadBegins, StreamCompletes, StreamRejected, StreamAborts,
     flashVars, ramVars
<1>2. \/ Stage' = "session" /\ UNCHANGED <<slim, restart>>
      \/ Over
  <2>1. CASE CheckFails \/ DownloadFails
    BY <2>1, FailedOver DEF CheckFails, DownloadFails
  <2>2. CASE DownloadRedirects \/ DownloadBegins
    BY <1>1, <2>2 DEF DownloadRedirects, DownloadBegins, Stage, Active, bootVars
  <2>3. CASE CheckAnswers
    <3> PICK tag \in Versions : AfterCheck(tag)
      BY <2>3 DEF CheckAnswers
    <3>1. CASE NothingToInstall(tag) \/ NothingToInstall(NoTag)
      BY <1>1, <3>1 DEF NothingToInstall, ClearPending, Over, FlagsTyped
    <3>2. CASE Download(tag)
      BY <3>2, Attempt
    <3>3. CASE session' = "idle" /\ UNCHANGED <<want, bootVars>>
      BY <1>1, <3>3 DEF bootVars, Over
    <3> QED
      BY <3>1, <3>2, <3>3 DEF AfterCheck
  <2>4. CASE StreamCompletes \/ StreamRejected
    BY <1>1, <2>4 DEF StreamCompletes, StreamRejected, ClearPending, Over, FlagsTyped
  <2>5. CASE StreamAborts
    BY <2>5 DEF StreamAborts, ScheduleRetry, PersistAndReboot, ClearPending, bootVars, Over
  <2> QED
    BY <2>1, <2>2, <2>3, <2>4, <2>5
<1>3. (automatic /\ due)' = (automatic /\ due)
  BY <1>1
<1> QED
  BY <1>1, <1>2, <1>3, OverEnds DEF Turn!OtaGoesOn, Turn!UpdateNext

\* A boot starts over, in recovery if a file says so
LEMMA BootTurn ==
  ASSUME Restarts \/ PowerCut \/ CutWhileCompleting
  PROVE  Turn!UpdateNext
<1>1. PICK image, file : Boot(image, file)
  BY DEF Restarts, PowerCut, CutWhileCompleting
<1>2. /\ slim' \in BOOLEAN /\ restart' = FALSE /\ due' = FALSE
      /\ Stage' = IF slim' THEN "armed" ELSE "idle"
  BY <1>1 DEF Boot, Stage, Active
<1>3. (automatic /\ due)' = FALSE
  BY <1>2
<1> QED
  BY <1>2, <1>3 DEF Turn!Rebooted, Turn!UpdateNext

LEMMA TurnKept ==
  ASSUME FlagsTyped, RequestsMeanIdle, [Next]_vars
  PROVE  Turn!UpdateNext \/ Aside
<1>1. CASE RequestCheck \/ RequestInstall \/ SetAutomatic \/ OfferLatest \/ Elapse
  BY <1>1, RequestsTurn
<1>2. CASE StartInstall \/ StartCheck \/ AutoCheck
  BY <1>2, StartsTurn
<1>3. CASE \/ CheckFails \/ CheckAnswers \/ DownloadFails \/ DownloadRedirects \/ DownloadBegins
           \/ StreamCompletes \/ StreamRejected \/ StreamAborts
  BY <1>3, SessionTurn
<1>4. CASE Restarts \/ PowerCut \/ CutWhileCompleting
  BY <1>4, BootTurn
<1>5. CASE DailyRestart
  <2>1. ~restart /\ restart' = TRUE /\ UNCHANGED <<Stage, automatic, due, slim>>
    BY <1>5 DEF DailyRestart, Stage, Active, flashVars, requestVars, netVars, ramVars
  <2> QED
    BY <2>1 DEF Turn!RestartScheduled, Turn!UpdateNext
<1>6. CASE WorldChanges \/ UNCHANGED vars
  <2>1. UNCHANGED <<Stage, automatic, due, slim, restart>>
    BY <1>6 DEF WorldChanges, vars, Stage, Active, flashVars, requestVars, netVars, ramVars, bootVars
  <2> QED
    BY <2>1 DEF Aside
<1> QED
  BY <1>1, <1>2, <1>3, <1>4, <1>5, <1>6 DEF Next

\* The update, with its tags, files, retries and boots cut short, takes no other
\* steps than those the loop counts on (App.h:104-150): a session only starts
\* from a request that is armed or the check that is due, with no restart
\* scheduled, and recovery only ends with one.
THEOREM UpdateTakesTurns == Spec => TurnAsAssumed
<1>1. ASSUME Init
      PROVE  Turn!UpdateInit
  BY <1>1 DEF Init, Turn!UpdateInit, Stage, Active
<1>2. ASSUME IInv, [Next]_vars
      PROVE  [Turn!UpdateNext]_(Turn!updateVars)
  <2>1. Turn!UpdateNext \/ Aside
    BY <1>2, TurnKept DEF IInv, Control
  <2> QED
    BY <2>1 DEF Aside, Turn!updateVars
<1> QED
  BY <1>1, <1>2, InvariantHolds, PTL DEF Spec, TurnAsAssumed, Turn!UpdateSpec
=============================================================================
