------------------------------ MODULE StoreProofs ------------------------------
(* Proofs about the configuration store under the whole panel, for every file  *)
(* a device may start with, any number of clients, requests and power cuts.    *)
(*                                                                             *)
(* Of the panel's actions, only a handful touch flash. All the others are, to  *)
(* the store, one and the same: a handler that changes RAM, between two saves, *)
(* and may call the next one (Handler). Shape says so, once, for all of them;  *)
(* the store's invariant and its refinement are then proved of six cases.      *)
EXTENDS Panel, TLAPS

Phases == {"off", "idle", "job", "backup", "copy", "open", "write", "rename", "done", "failed"}

SaveRecord ==
    /\ save = [at |-> save.at, by |-> save.by, who |-> save.who, prev |-> save.prev]
    /\ save.at \in Phases
    /\ save.at = "idle" => save.by = "none"

\* What is in /config.tmp, and in flash once the save is done, is the configuration
\* of that save, or cut short by flash; and a version 1 file is there with a copy,
\* or before one.
StoreInv ==
    /\ SaveRecord
    /\ save.at = "off" => cfg = Defaults
    /\ save.at \in {"backup", "copy"} => file.v = "v1"
    /\ file.v = "v1" => Copied \/ save.at \in {"off", "backup", "copy"}
    /\ save.at = "write" => tmp = Broken
    /\ save.at = "rename" => tmp = [v |-> "v3", cfg |-> cfg] \/ (tmp = Broken /\ Full)
    /\ save.at = "done" => Stored = cfg \/ (Full /\ Stored = Defaults)

\* What the store sees of a handler: it goes on between two saves.
Handler ==
    /\ save.at \in {"idle", "job", "done", "failed"}
    /\ save'.at \in {"idle", "job", "open"}
    /\ SaveRecord'
    /\ UNCHANGED <<file, tmp, copy, trouble>>

Elsewhere == UNCHANGED <<cfg, save, file, tmp, copy, trouble>>

----------------------------------------------------------------------------
\* Every step of the panel, as the store sees it.

LEMMA HandlerEnds ==
  ASSUME save' = NotSaving, save.at \in {"idle", "job", "done", "failed"}, UNCHANGED <<file, tmp, copy, trouble>>
  PROVE  Handler
BY DEF Handler, NotSaving, SaveRecord, Phases

LEMMA SignsShape ==
  ASSUME Signs, SaveRecord
  PROVE  Handler \/ Elsewhere
<1> USE DEF Request, Ended, OnlyFlash
<1>1. CASE TimePasses \/ ClockSet \/ SessionExpires \/ WaitEnds
  BY <1>1 DEF TimePasses, ClockSet, SessionExpires, WaitEnds, Elsewhere, storeVars
<1>2. CASE SignInEnds \/ EnrollEnds \/ ReplaceKeyEnds
  <2>1. save' = NotSaving /\ UNCHANGED <<file, tmp, copy, trouble>> /\ save.at \in {"done", "failed"}
    BY <1>2 DEF SignInEnds, EnrollEnds, ReplaceKeyEnds
  <2> QED
    BY <2>1, HandlerEnds
<1>3. CASE \E c \in Clients : SignOut(c) \/ KeyPage(c) \/ NotConfirmed(c)
  BY <1>3 DEF SignOut, KeyPage, NotConfirmed, Elsewhere, storeVars
<1>4. ASSUME NEW c \in Clients, NEW code \in Steps, NEW b \in 1 .. MaxStep, SignIn(c, code, b)
      PROVE  Handler \/ Elsewhere
  BY <1>4 DEF SignIn, Save, Handler, Elsewhere, storeVars, SaveRecord, Phases
<1>5. ASSUME NEW c \in Clients, NEW code \in Steps, NEW b \in 1 .. MaxStep, Enroll(c, code, b)
      PROVE  Handler \/ Elsewhere
  BY <1>5 DEF Enroll, Handler, Elsewhere, storeVars, SaveRecord, Phases
<1>6. ASSUME NEW c \in Clients, NEW code \in Steps, NEW b \in 1 .. MaxStep, ReplaceKey(c, code, b)
      PROVE  Handler \/ Elsewhere
  BY <1>6 DEF ReplaceKey, Save, Handler, SaveRecord, Phases
<1>7. ASSUME NEW c \in Clients, NEW code \in Steps, NEW b \in 1 .. MaxStep, NEW p \in Passwords,
             SetPassword(c, p, code, b)
      PROVE  Handler \/ Elsewhere
  BY <1>7 DEF SetPassword, Save, Handler, SaveRecord, Phases
<1> QED
  BY <1>1, <1>2, <1>3, <1>4, <1>5, <1>6, <1>7 DEF Signs
LEMMA HandlerSaves ==
  ASSUME NEW c, NEW by, NEW who, Save(c, by, who),
         save.at \in {"idle", "job", "done", "failed"}, UNCHANGED <<file, tmp, copy, trouble>>
  PROVE  Handler
BY DEF Save, Handler, SaveRecord, Phases

LEMMA FormsShape ==
  ASSUME Forms
  PROVE  Handler
<1> USE DEF Request, Ended
<1>1. CASE FormEnds \/ WifiEnds \/ PasswordEnds
  <2>1. save' = NotSaving /\ UNCHANGED <<file, tmp, copy, trouble>> /\ save.at \in {"done", "failed"}
    BY <1>1 DEF FormEnds, WifiEnds, PasswordEnds, SetPasswordEnds, OnlyFlash, GiveUp
  <2> QED
    BY <2>1, HandlerEnds
<1>2. ASSUME NEW c \in Clients, NEW f, Form(c, f)
      PROVE  Handler
  BY <1>2, HandlerSaves DEF Form
<1>3. ASSUME NEW c \in Clients, NtfySave(c)
      PROVE  Handler
  BY <1>3 DEF NtfySave, Handler, SaveRecord, Phases
<1>4. ASSUME NEW c \in Clients, NEW p \in Passwords, WifiSave(c, p)
      PROVE  Handler
  BY <1>4, HandlerSaves DEF WifiSave
<1>5. ASSUME NEW c \in Clients, NEW code \in Steps, NEW b \in 1 .. MaxStep, ClearIot(c, code, b)
      PROVE  Handler
  BY <1>5, HandlerSaves DEF ClearIot
<1> QED
  BY <1>1, <1>2, <1>3, <1>4, <1>5 DEF Forms, ConfigSave, MqttSave, IotSave, AutoSave

LEMMA HandlerAwaits ==
  ASSUME NEW call, Await(call),
         save.at \in {"idle", "job", "done", "failed"}, UNCHANGED <<file, tmp, copy, trouble>>
  PROVE  Handler
BY DEF Await, NotSaving, Handler, SaveRecord, Phases

\* A handler of the jobs ends, waits for the next answer, or saves.
LEMMA CloudflareShape ==
  ASSUME Cloudflare, SaveRecord
  PROVE  Handler \/ Elsewhere
<1> USE HandlerEnds, HandlerSaves, HandlerAwaits DEF Request, Ended, OnlyFlash, GiveUp
<1>1. CASE Redeploy \/ HourPasses
  BY <1>1 DEF Redeploy, HourPasses, Elsewhere, storeVars
<1>2. CASE Scan \/ Record \/ Deploy
  BY <1>2 DEF Scan, Record, Deploy, Takes
<1>3. CASE ZonesAnswer \/ LookupAnswer \/ CreateAnswer
  BY <1>3 DEF ZonesAnswer, LookupAnswer, CreateAnswer, Awaits, HasRecord
<1>4. CASE SettingsAnswer \/ UploadAnswer \/ RouteAnswer
  BY <1>4 DEF SettingsAnswer, UploadAnswer, RouteAnswer, Awaits
<1>5. CASE JobEnds \/ TokenSaved \/ OffEnds
  BY <1>5 DEF JobEnds, TokenSaved, OffEnds
<1>6. ASSUME NEW c \in Clients, AskScan(c) \/ AskRecord(c) \/ AskDeploy(c)
      PROVE  Handler \/ Elsewhere
  BY <1>6 DEF AskScan, AskRecord, AskDeploy, CloudRequest, Elsewhere, storeVars
<1>7. ASSUME NEW c \in Clients, RemoteOff(c) \/ ClearCloudflare(c)
      PROVE  Handler
  BY <1>7 DEF RemoteOff, ClearCloudflare, CloudRequest
<1> QED
  BY <1>1, <1>2, <1>3, <1>4, <1>5, <1>6, <1>7 DEF Cloudflare, Jobs

\* The steps of the store itself, and those in which it sees a handler or nothing.
LEMMA Shape ==
  ASSUME [Next]_vars, SaveRecord
  PROVE  \/ Handler \/ Elsewhere
         \/ Boot \/ PowerCut \/ Saves
<1>1. CASE Flash
  <2>1. CASE BootSaveEnds
    BY <2>1, HandlerEnds DEF BootSaveEnds, Ended
  <2> QED
    BY <1>1, <2>1 DEF Flash
<1>2. CASE UNCHANGED vars
  BY <1>2 DEF vars, storeVars, Elsewhere
<1> QED
  BY <1>1, <1>2, SignsShape, FormsShape, CloudflareShape DEF Next, Starts, PowerFails

----------------------------------------------------------------------------
\* The invariant.

LEMMA StoreHolds ==
  ASSUME Init
  PROVE  StoreInv
BY DEF Init, StoreInit, StoreInv, SaveRecord, Phases, PowerOff, NotSaving, Copied, Full

LEMMA StoreStep ==
  ASSUME StoreInv, [Next]_vars
  PROVE  StoreInv'
<1> USE DEF StoreInv
<1>1. CASE Handler
  BY <1>1 DEF Handler, Copied
<1>2. CASE Elsewhere
  BY <1>2 DEF Elsewhere, SaveRecord, Copied, Full, Stored
<1>3. CASE Boot
  BY <1>3 DEF Boot, NotSaving, SaveRecord, Phases, Copied
<1>4. CASE PowerCut
  BY <1>4 DEF PowerCut, PowerOff, NotSaving, SaveRecord, Phases, Copied
<1>5. CASE Saves
  <2> USE DEF GoOn, SaveRecord, Phases
  <2>1. CASE BackupOpens
    BY <2>1 DEF BackupOpens, Copied
  <2>2. CASE BackupWrites
    BY <2>2 DEF BackupWrites, Copied
  <2>3. CASE SaveOpens
    BY <2>3 DEF SaveOpens, Copied
  <2>4. CASE SaveWrites
    BY <2>4 DEF SaveWrites, Copied, Full
  <2>5. CASE SaveRenames
    BY <2>5 DEF SaveRenames, Copied, Full, Broken, Stored, Read
  <2> QED
    BY <1>5, <2>1, <2>2, <2>3, <2>4, <2>5 DEF Saves
<1> QED
  BY <1>1, <1>2, <1>3, <1>4, <1>5, Shape

THEOREM StoreSound == Spec => []StoreInv
BY StoreHolds, StoreStep, PTL DEF Spec

----------------------------------------------------------------------------
\* The refinement.

LEMMA KeptInit ==
  ASSUME Init
  PROVE  Kept!Init
BY DEF Init, StoreInit, PowerOff, NotSaving, On, Full, Copied, Kept!Init

\* To a stored configuration a handler is a change of RAM; a step of a save is
\* one of its steps, or none.
LEMMA KeptStep ==
  ASSUME StoreInv, [Next]_vars
  PROVE  [Kept!Next]_Kept!Vars
<1> USE DEF StoreInv, Kept!Next, Kept!SameFile, Kept!Replaced, On, Full, Copied, Stored
<1>1. CASE Handler
  BY <1>1 DEF Handler, Kept!Change
<1>2. CASE Elsewhere
  BY <1>2 DEF Elsewhere, Kept!Vars
<1>3. CASE Boot
  BY <1>3 DEF Boot, NotSaving, Kept!Start
<1>4. CASE PowerCut
  BY <1>4 DEF PowerCut, PowerOff, NotSaving, Kept!Stop
<1>5. CASE Saves
  <2> USE DEF GoOn, SaveRecord, Phases
  <2>1. CASE BackupOpens
    BY <2>1 DEF BackupOpens, Kept!Copy
  <2>2. CASE BackupWrites
    BY <2>2 DEF BackupWrites, Kept!Copy
  <2>3. CASE SaveOpens
    BY <2>3 DEF SaveOpens, Kept!Change
  <2>4. CASE SaveWrites
    BY <2>4 DEF SaveWrites, Kept!Change, Kept!Fill
  <2>5. CASE SaveRenames
    BY <2>5 DEF SaveRenames, Kept!Change, Kept!Store, Kept!Lose, Read, Broken
  <2> QED
    BY <1>5, <2>1, <2>2, <2>3, <2>4, <2>5 DEF Saves
<1> QED
  BY <1>1, <1>2, <1>3, <1>4, <1>5, Shape

\* The whole panel keeps the store's promise (ConfigStore.h:17-19, 110): wherever
\* the power is cut, and whatever the handlers do before, during and after a save.
THEOREM StoreKept == Spec => StoreIsAtomic
<1>1. StoreInv /\ [Next]_vars => [Kept!Next]_Kept!Vars
  BY KeptStep
<1> QED
  BY <1>1, KeptInit, StoreSound, PTL DEF Spec, StoreIsAtomic, Kept!Spec

=============================================================================
