----------------------------- MODULE OTAService -----------------------------
(***************************************************************************)
(* src/OTAService.h: the update from GitHub Releases, with its recovery    *)
(* boots. A check asks GitHub for the latest tag; a download follows the   *)
(* redirects, streams the image into flash and lets Update.end judge it.   *)
(* When the heap is short, or an install runs out of retries, the request  *)
(* is written to /ota.pending and the next boot resumes it with the panel  *)
(* off ("slim"), up to MAX_BOOTS times.                                    *)
(*                                                                         *)
(* Tag "vN" is the number N. The empty tag is NoTag and the word "check",  *)
(* which parseTag does not take for a tag, is CheckTag.                    *)
(*                                                                         *)
(* TLS to GitHub is not validated, so until the world settles its answers  *)
(* are any tag; the image's signature names its tag, so an image that is   *)
(* accepted is the version asked for.                                      *)
(***************************************************************************)
EXTENDS Integers

CONSTANTS
  Releases,       \* the latest release is vReleases
  MAX_TRIES,      \* tries before a request gives up or goes into recovery
  MAX_BOOTS,      \* recovery boots a request may spend
  MAX_REDIRECTS   \* connections a download may follow

ASSUME OtaAssumption ==
  /\ Releases \in Nat \ {0}
  /\ MAX_TRIES \in Nat \ {0}
  /\ MAX_BOOTS \in Nat \ {0}
  /\ MAX_REDIRECTS \in Nat \ {0}

Versions == 1 .. Releases
NoTag    == 0
CheckTag == -1
Tags     == Versions \cup {NoTag, CheckTag}

NoFile   == [tag |-> NoTag, boots |-> 0]
Requests == [tag : Versions \cup {CheckTag}, boots : 1 .. MAX_BOOTS + 1]

VARIABLES
  running,      \* the version that runs (firmware_version)
  staged,       \* the image the bootloader copies on the next boot, or NoTag
  pending,      \* /ota.pending
  rejectedFile, \* /ota.rejected
  automatic,    \* config.ota_auto
  session,      \* _net, _inProgress: idle, check, headers, stream
  want,         \* _wantCheck, _wantInstall (never both): none, check, install
  backoff,      \* _nextRetry is in the future
  tries,        \* _tries
  checkInstall, \* _checkInstall: the check downloads what it finds
  hop,          \* _hop
  available,    \* _available
  rejected,     \* _rejected
  slim,         \* _slim
  pendingBoots, \* _pendingBoots
  due,          \* the automatic check is due
  restart,      \* WiFiService._restartPending
  panel,        \* web.begin ran: this boot did not start in recovery
  checked,      \* history: this boot's first automatic check has run
  byHand,       \* history: the install under way is one the owner asked for
  fsOk,         \* the file system takes writes
  settled       \* the world: from here on nothing fails

flashVars   == <<running, staged, pending, rejectedFile, automatic>>
requestVars == <<want, backoff, tries>>
netVars     == <<session, checkInstall, hop>>
ramVars     == <<available, rejected, due, panel>>
bootVars    == <<slim, pendingBoots, restart>>
worldVars   == <<fsOk, settled>>
historyVars == <<checked, byHand>>
vars == <<flashVars, requestVars, netVars, ramVars, bootVars, worldVars, historyVars>>

TypeOK ==
  /\ running \in Versions
  /\ staged \in Versions \cup {NoTag}
  /\ pending \in Requests \cup {NoFile}
  /\ rejectedFile \in Versions \cup {NoTag} /\ rejected \in Versions \cup {NoTag}
  /\ automatic \in BOOLEAN
  /\ session \in {"idle", "check", "headers", "stream"}
  /\ want \in {"none", "check", "install"}
  /\ backoff \in BOOLEAN
  /\ tries \in 0 .. MAX_TRIES - 1
  /\ checkInstall \in BOOLEAN
  /\ hop \in 0 .. MAX_REDIRECTS - 1
  /\ available \in Tags
  /\ slim \in BOOLEAN
  /\ pendingBoots \in 0 .. MAX_BOOTS
  /\ due \in BOOLEAN /\ restart \in BOOLEAN /\ panel \in BOOLEAN
  /\ checked \in BOOLEAN /\ byHand \in BOOLEAN
  /\ fsOk \in BOOLEAN /\ settled \in BOOLEAN

\* A device installed over USB: nothing on its file system
Init ==
  /\ running \in Versions /\ staged = NoTag
  /\ pending = NoFile /\ rejectedFile = NoTag
  /\ automatic \in BOOLEAN
  /\ session = "idle" /\ checkInstall = FALSE /\ hop = 0
  /\ want = "none" /\ backoff = FALSE /\ tries = 0
  /\ available = NoTag /\ rejected = NoTag
  /\ slim = FALSE /\ pendingBoots = 0 /\ restart = FALSE /\ panel = TRUE
  /\ due = FALSE
  /\ checked = FALSE /\ byHand = FALSE
  /\ fsOk = TRUE /\ settled = FALSE

(***************************************************************************)
(* The steps the handlers share.                                           *)
(***************************************************************************)
Active == session # "idle"            \* _active
Busy   == Active \/ want # "none"     \* busy

\* Mutant: any other version passes
OtherVersion(tag, current) == tag # current

\* Of a released firmware; a development build takes any tag for newer.
IsNewer(tag, current) == tag > current

\* A file system without room keeps the file it had
SavePending(tag, boots) ==
  pending' = IF fsOk THEN [tag |-> tag, boots |-> boots] ELSE pending

\* Mutant: the file stays
ClearCount == pendingBoots' = 0 /\ slim' = FALSE /\ UNCHANGED pending

ClearPending == pending' = NoFile /\ pendingBoots' = 0 /\ slim' = FALSE

\* _persistAndReboot: one recovery boot more, or none left
PersistAndReboot(tag) ==
  /\ restart' = TRUE
  /\ IF pendingBoots + 1 > MAX_BOOTS
     THEN ClearPending
     ELSE SavePending(tag, pendingBoots + 1) /\ UNCHANGED <<pendingBoots, slim>>

\* _recoverHeap, followed by a retry only if no restart is pending: there is one
RecoverHeap(tag) ==
  /\ session' = "idle" /\ UNCHANGED hop
  /\ want' = "none" /\ backoff' = FALSE /\ UNCHANGED tries
  /\ available' = IF tag = NoTag THEN CheckTag ELSE tag
  /\ PersistAndReboot(available')

\* Mutant: the delay is set before the tries are counted
DelayFirst(install, tag) ==
  /\ backoff' = TRUE
  /\ tries' = IF tries + 1 < MAX_TRIES THEN tries + 1 ELSE 0
  /\ want' = IF tries + 1 < MAX_TRIES THEN (IF install THEN "install" ELSE "check") ELSE "none"
  /\ UNCHANGED <<pending, bootVars>>

\* _scheduleRetry
ScheduleRetry(install, tag) ==
  IF tries + 1 < MAX_TRIES
  THEN /\ tries' = tries + 1 /\ backoff' = TRUE
       /\ want' = IF install THEN "install" ELSE "check"
       /\ UNCHANGED <<pending, bootVars>>
  ELSE /\ tries' = 0 /\ backoff' = FALSE /\ want' = "none"
       /\ IF install THEN PersistAndReboot(tag) ELSE UNCHANGED <<pending, bootVars>>

\* _checkFailed, _downloadFailed: with a restart scheduled there is no retry
Failed(install, tag) ==
  /\ session' = "idle"
  /\ IF restart
     THEN want' = "none" /\ backoff' = FALSE /\ UNCHANGED <<tries, pending, bootVars>>
     ELSE ScheduleRetry(install, tag)

\* _download: the connection to github.com is up, fails, or finds no heap for it
Download(tag) ==
  \/ /\ session' = "headers" /\ hop' = 0 /\ available' = tag
     /\ want' = "none" /\ backoff' = FALSE
     /\ UNCHANGED <<tries, pending, bootVars>>
  \/ /\ ~settled
     /\ available' = tag /\ UNCHANGED hop
     /\ Failed(TRUE, tag)
  \/ ~settled /\ RecoverHeap(tag)

\* _checkNow: the same for the version check
CheckNow(install) ==
  /\ checkInstall' = install
  /\ \/ /\ session' = "check"
        /\ want' = "none" /\ backoff' = FALSE
        /\ UNCHANGED <<hop, available, tries, pending, bootVars>>
     \/ ~settled /\ Failed(FALSE, available) /\ UNCHANGED <<hop, available>>
     \/ ~settled /\ RecoverHeap(available)

(***************************************************************************)
(* Requests: the panel's and the relay's (only a boot with the panel has   *)
(* them), and the hour.                                                    *)
(***************************************************************************)
RequestCheck ==
  /\ panel /\ ~settled
  /\ ~Active /\ want # "check"
  /\ want' = "check" /\ backoff' = FALSE /\ byHand' = FALSE
  /\ UNCHANGED <<flashVars, tries, netVars, ramVars, bootVars, worldVars, checked>>

RequestInstall ==
  /\ panel /\ ~settled
  /\ ~Active /\ available # NoTag
  /\ want' = "install" /\ backoff' = FALSE /\ byHand' = TRUE
  /\ UNCHANGED <<flashVars, tries, netVars, ramVars, bootVars, worldVars, checked>>

SetAutomatic ==
  /\ panel /\ ~settled
  /\ automatic' = ~automatic
  /\ UNCHANGED <<running, staged, pending, rejectedFile, requestVars, netVars, ramVars,
                 bootVars, worldVars, historyVars>>

\* offerLatest: the relay's Worker has seen this release
OfferLatest ==
  /\ panel /\ ~settled
  /\ ~Busy
  /\ \E tag \in Versions : due' = IsNewer(tag, running)
  /\ UNCHANGED <<flashVars, requestVars, netVars, available, rejected, panel, bootVars,
                 worldVars, historyVars>>

Elapse ==
  /\ \/ ~due /\ due' = TRUE /\ UNCHANGED backoff
     \/ backoff /\ backoff' = FALSE /\ UNCHANGED due
  /\ UNCHANGED <<flashVars, want, tries, netVars, available, rejected, panel, bootVars,
                 worldVars, historyVars>>

(***************************************************************************)
(* tick, with nothing on the network: a request first, or the hourly       *)
(* check. A scheduled restart holds all three. Without an association the  *)
(* tick does nothing, which is to take none of these steps.                *)
(***************************************************************************)
\* Mutant: an install does not look at the scheduled restart
InstallAnyway ==
  /\ ~Active /\ ~backoff
  /\ want = "install"
  /\ Download(available)
  /\ UNCHANGED <<running, staged, rejectedFile, automatic, checkInstall, rejected, due, panel,
                 worldVars, historyVars>>

StartInstall ==
  /\ ~Active /\ ~restart /\ ~backoff
  /\ want = "install"
  /\ Download(available)
  /\ UNCHANGED <<running, staged, rejectedFile, automatic, checkInstall, rejected, due, panel,
                 worldVars, historyVars>>

\* In recovery the check is there to finish the update: nobody has a panel
StartCheck ==
  /\ ~Active /\ ~restart /\ ~backoff
  /\ want = "check"
  /\ CheckNow(slim)
  /\ UNCHANGED <<running, staged, rejectedFile, automatic, rejected, due, panel, worldVars,
                 historyVars>>

AutoCheck ==
  /\ ~Active /\ ~restart /\ ~backoff
  /\ want = "none" /\ automatic /\ due
  /\ due' = FALSE /\ checked' = TRUE /\ byHand' = FALSE
  /\ CheckNow(TRUE)
  /\ UNCHANGED <<running, staged, rejectedFile, automatic, rejected, panel, worldVars>>

(***************************************************************************)
(* The check's answer.                                                     *)
(***************************************************************************)
CheckFails ==
  /\ session = "check" /\ ~settled
  /\ Failed(FALSE, available)
  /\ UNCHANGED <<running, staged, rejectedFile, automatic, checkInstall, hop, ramVars,
                 worldVars, historyVars>>

\* Nothing to install: the request is over, and recovery with it
NothingToInstall(tag) ==
  /\ session' = "idle" /\ UNCHANGED <<hop, want, backoff>>
  /\ available' = tag
  /\ tries' = 0
  /\ ClearPending
  /\ restart' = (restart \/ slim)

\* Mutant: what was rejected is not looked at
AnyNewer(tag) ==
  IF ~IsNewer(tag, running) THEN NothingToInstall(NoTag)
  ELSE IF ~checkInstall
       THEN /\ session' = "idle" /\ available' = tag
            /\ UNCHANGED <<hop, want, backoff, tries, pending, bootVars>>
       ELSE Download(tag)

\* Mutant: one rejected version stops every other
AnyRejected(tag) ==
  IF ~IsNewer(tag, running) THEN NothingToInstall(NoTag)
  ELSE IF ~checkInstall
       THEN /\ session' = "idle" /\ available' = tag
            /\ UNCHANGED <<hop, want, backoff, tries, pending, bootVars>>
       ELSE IF rejected # NoTag THEN NothingToInstall(tag)
       ELSE Download(tag)

AfterCheck(tag) ==
  IF ~IsNewer(tag, running) THEN NothingToInstall(NoTag)
  ELSE IF ~checkInstall
       THEN /\ session' = "idle" /\ available' = tag
            /\ UNCHANGED <<hop, want, backoff, tries, pending, bootVars>>
       ELSE IF tag = rejected THEN NothingToInstall(tag)
       ELSE Download(tag)

CheckAnswers ==
  /\ session = "check"
  /\ \E tag \in Versions : /\ settled => tag = Releases
                           /\ AfterCheck(tag)
  /\ UNCHANGED <<running, staged, rejectedFile, automatic, checkInstall, rejected, due, panel,
                 worldVars, historyVars>>

(***************************************************************************)
(* The download.                                                           *)
(***************************************************************************)
DownloadFails ==
  /\ session = "headers" /\ ~settled
  /\ Failed(TRUE, available)
  /\ UNCHANGED <<running, staged, rejectedFile, automatic, checkInstall, hop, ramVars,
                 worldVars, historyVars>>

\* A redirect closes the session and opens another, up to MAX_REDIRECTS
DownloadRedirects ==
  /\ session = "headers" /\ ~settled
  /\ hop + 1 < MAX_REDIRECTS
  /\ hop' = hop + 1
  /\ UNCHANGED <<flashVars, requestVars, session, checkInstall, ramVars, bootVars, worldVars,
                 historyVars>>

DownloadBegins ==
  /\ session = "headers" /\ session' = "stream"
  /\ UNCHANGED <<flashVars, requestVars, checkInstall, hop, ramVars, bootVars, worldVars,
                 historyVars>>

\* Update.end accepts the image
StreamCompletes ==
  /\ session = "stream" /\ session' = "idle"
  /\ staged' = available
  /\ tries' = 0
  /\ ClearPending
  /\ restart' = TRUE
  /\ UNCHANGED <<running, rejectedFile, automatic, want, backoff, checkInstall, hop, ramVars,
                 worldVars, historyVars>>

\* Update.end refuses it: the version is marked, here and in the file
StreamRejected ==
  /\ session = "stream" /\ session' = "idle"
  /\ ~settled
  /\ rejected' = available
  /\ rejectedFile' = IF fsOk THEN available ELSE rejectedFile
  /\ tries' = 0
  /\ ClearPending
  /\ restart' = (restart \/ slim)
  /\ UNCHANGED <<running, staged, automatic, want, backoff, checkInstall, hop, available, due,
                 panel, worldVars, historyVars>>

\* _abort: the association dropped, no data for a minute, or flash refused
StreamAborts ==
  /\ session = "stream" /\ session' = "idle"
  /\ ~settled
  /\ available' = available
  /\ ScheduleRetry(TRUE, available)
  /\ UNCHANGED <<running, staged, rejectedFile, automatic, checkInstall, hop, rejected, due,
                 panel, worldVars, historyVars>>

(***************************************************************************)
(* Boots: begin() reads the two files. A boot that resumes a request       *)
(* counts itself first, so one that crashes is spent too.                  *)
(***************************************************************************)
\* Mutant: the boot is counted only when it gives up
ResumedBoots(boots) == boots

CountedBoots(boots) == boots + 1

Boot(image, file) ==
  /\ running' = image /\ staged' = NoTag
  /\ rejected' = rejectedFile'
  /\ session' = "idle" /\ checkInstall' = FALSE /\ hop' = 0
  /\ backoff' = FALSE /\ tries' = 0 /\ due' = FALSE
  /\ restart' = FALSE /\ checked' = FALSE
  /\ IF file = NoFile \/ file.boots > MAX_BOOTS
     THEN /\ pending' = NoFile /\ slim' = FALSE /\ pendingBoots' = 0
          /\ want' = "none" /\ available' = NoTag /\ byHand' = FALSE
     ELSE /\ pending' = IF fsOk THEN [file EXCEPT !.boots = CountedBoots(file.boots)] ELSE file
          /\ slim' = TRUE /\ pendingBoots' = file.boots
          /\ IF file.tag = CheckTag THEN want' = "check" /\ available' = NoTag
             ELSE want' = "install" /\ available' = file.tag
          /\ UNCHANGED byHand
  /\ panel' = ~slim'
  /\ UNCHANGED <<automatic, worldVars>>

\* The image to run: the staged one if the bootloader was told to copy it
Image == IF staged = NoTag THEN running ELSE staged

\* The scheduled restart, a crash or a watchdog
Restarts ==
  /\ restart \/ ~settled
  /\ UNCHANGED rejectedFile
  /\ Boot(Image, pending)

\* The bootloader's order is in RTC memory, which a power cut clears
PowerCut ==
  /\ ~settled
  /\ UNCHANGED rejectedFile
  /\ Boot(running, pending)

\* _complete, cut short between Update.end or _saveRejected and _clearPending
CutWhileCompleting ==
  /\ session = "stream" /\ ~settled
  /\ \/ UNCHANGED rejectedFile /\ Boot(available, pending)
     \/ fsOk /\ rejectedFile' = available /\ Boot(running, pending)

\* tickRestart's daily restart and memory strikes. Once the world is settled a
\* day is longer than a check and a download.
DailyRestart ==
  /\ ~restart /\ session # "stream"
  /\ settled => ~Busy /\ (automatic => checked)
  /\ restart' = TRUE
  /\ UNCHANGED <<flashVars, requestVars, netVars, ramVars, slim, pendingBoots, worldVars,
                 historyVars>>

WorldChanges ==
  /\ ~settled
  /\ \/ fsOk' = ~fsOk /\ UNCHANGED settled
     \/ fsOk /\ settled' = TRUE /\ UNCHANGED fsOk
  /\ UNCHANGED <<flashVars, requestVars, netVars, ramVars, bootVars, historyVars>>

Tick == \/ StartInstall \/ StartCheck \/ AutoCheck
        \/ CheckAnswers \/ DownloadBegins

StreamEnds == StreamCompletes \/ StreamRejected \/ StreamAborts

Next ==
  \/ RequestCheck \/ RequestInstall \/ SetAutomatic \/ OfferLatest \/ Elapse
  \/ StartInstall \/ StartCheck \/ AutoCheck
  \/ CheckFails \/ CheckAnswers
  \/ DownloadFails \/ DownloadRedirects \/ DownloadBegins
  \/ StreamCompletes \/ StreamRejected \/ StreamAborts
  \/ Restarts \/ PowerCut \/ CutWhileCompleting \/ DailyRestart
  \/ WorldChanges

\* A scheduled restart is carried out and the day passes; a stream ends, for it
\* is finite and may not stall for STALL_TIMEOUT. The rest of the tick is only
\* sure to get its turn (AppLoop) and an answer once the world is settled.
Fairness ==
  /\ WF_vars(restart /\ Restarts)
  /\ WF_vars(DailyRestart)
  /\ WF_vars(StreamEnds)
  /\ WF_vars(settled /\ Tick)
  /\ WF_vars(settled /\ Elapse)

Spec == Init /\ [][Next]_vars /\ Fairness

(***************************************************************************)
(* Properties                                                              *)
(***************************************************************************)

\* busy()'s comment: _nextRetry is only set together with a request, so no
\* backoff outlives the request it is for and holds the hourly check.
RetryHasRequest == backoff => want # "none"

\* A recovery request is on flash only while a recovery boot is at it, or while
\* a boot with the panel is about to restart into one: none is left behind to
\* take the panel away on some later boot.
PendingMeansRecovery == pending # NoFile => IF panel THEN restart ELSE slim

\* Versions older than the current one are ignored, whatever GitHub answers,
\* whatever the files say and wherever the power is cut.
NoDowngrade == [][running' >= running]_vars

DownloadOf(tag) == session # "headers" /\ session' = "headers" /\ available' = tag

\* The class comment's promise, as it reads: only a manual install downloads a
\* rejected version again. The code does not keep it.
RejectedOnlyByHand ==
  [][\A tag \in Versions : DownloadOf(tag) /\ tag = rejected => byHand]_vars

\* What the code keeps: without the owner a rejected version is downloaded only
\* by a recovery boot, which resumes whatever /ota.pending names.
RejectedOnlyResumed ==
  [][\A tag \in Versions : DownloadOf(tag) /\ tag = rejected => byHand \/ slim]_vars

\* Recovery ends, however many boots crash, whatever fails and whoever answers:
\* the panel is back.
RecoveryEnds == <>[]fsOk => []<>~slim

\* Once nothing fails any more, a device with automatic updates ends up on the
\* latest release, unless it has that release marked as rejected.
UpdateArrives ==
  <>[](settled /\ automatic) => <>[](running = Releases \/ rejected = Releases)

(***************************************************************************)
(* Refinement: what the main loop counts on (AppLoop) of an update with    *)
(* all its tags, files, retries and cut-off boots. Every session starts    *)
(* from a request that is armed or from the due check, never with a        *)
(* restart scheduled; a session ends in a retry, in nothing or in a        *)
(* restart; the panel comes back only with one.                            *)
(***************************************************************************)
Stage ==
  IF Active THEN "session"
  ELSE IF want = "none" THEN "idle"
  ELSE IF backoff THEN "backoff" ELSE "armed"

Turn == INSTANCE UpdateTurn
          WITH ota <- Stage, otaDue <- automatic /\ due, restarting <- restart

TurnAsAssumed == Turn!UpdateSpec
=============================================================================
