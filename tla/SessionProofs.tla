----------------------------- MODULE SessionProofs -----------------------------
(* Proofs about the panel's sign-in and its forms, for any number of clients,  *)
(* keys, codes, requests and power cuts: the waits, the key, the codes and the *)
(* services that follow the configuration.                                     *)
EXTENDS PanelProofs

----------------------------------------------------------------------------
\* The waits.

OwnerInv ==
    /\ mine \in [Clients -> 0 .. FreeFails]
    /\ tries \in [{"owner", "panel"} -> 0 .. FreeFails]
    /\ owner # "none" => tries["owner"] <= mine[owner] /\ ("owner" \in waits => mine[owner] >= FreeFails)
    /\ owner \in Callers

LEMMA OwnerHolds ==
  ASSUME Init
  PROVE  OwnerInv
<1> PICK d \in Devices : PanelInit(d.file.cfg.key, d)
  BY DEF Init
<1>1. mine = [c \in Clients |-> 0] /\ tries = NoTries /\ owner = "none"
  BY DEF PanelInit
<1> QED
  BY <1>1, PanelAssumption DEF OwnerInv, NoTries, Callers

LEMMA MistakesCount ==
  ASSUME OwnerInv, NEW c \in Clients, LoginFailed(c)
  PROVE  OwnerInv'
<1> DEFINE n == IF tries[Tries(c)] < FreeFails THEN tries[Tries(c)] + 1 ELSE FreeFails
<1> USE PanelAssumption
<1>0. c # "none" /\ FreeFails \in Nat
  OBVIOUS
<1>1. /\ tries' = [tries EXCEPT ![Tries(c)] = n] /\ owner' = owner
      /\ waits' = IF n = FreeFails THEN waits \cup {Tries(c)} ELSE waits
      /\ mine' = [mine EXCEPT ![c] = IF @ < FreeFails THEN @ + 1 ELSE @]
  BY DEF LoginFailed
<1>2. mine' \in [Clients -> 0 .. FreeFails]
  BY <1>0, <1>1 DEF OwnerInv
<1>3. CASE c = owner
  <2>1. Tries(c) = "owner"
    BY <1>3 DEF Tries
  <2>2. tries' = [tries EXCEPT !["owner"] = n] /\ n \in 0 .. FreeFails
    BY <1>0, <1>1, <2>1 DEF OwnerInv
  <2>3. tries' \in [{"owner", "panel"} -> 0 .. FreeFails] /\ tries'["owner"] = n
    BY <2>2 DEF OwnerInv
  <2>4. mine'[owner] = IF mine[c] < FreeFails THEN mine[c] + 1 ELSE mine[c]
    BY <1>1, <1>3 DEF OwnerInv
  <2>5. n <= mine'[owner] /\ ("owner" \in waits' => mine'[owner] >= FreeFails)
    BY <1>0, <1>1, <1>3, <2>1, <2>4 DEF OwnerInv
  <2> QED
    BY <1>1, <1>2, <2>3, <2>5 DEF OwnerInv
<1>4. CASE c # owner
  <2>1. Tries(c) = "panel"
    BY <1>4 DEF Tries
  <2>2. tries' = [tries EXCEPT !["panel"] = n] /\ n \in 0 .. FreeFails
    BY <1>0, <1>1, <2>1 DEF OwnerInv
  <2>3. tries' \in [{"owner", "panel"} -> 0 .. FreeFails] /\ tries'["owner"] = tries["owner"]
    BY <2>2 DEF OwnerInv
  <2>4. owner # "none" => mine'[owner] = mine[owner]
    BY <1>1, <1>4 DEF OwnerInv, Callers
  <2>5. "owner" \in waits' => "owner" \in waits
    BY <1>1, <2>1
  <2> QED
    BY <1>1, <1>2, <2>3, <2>4, <2>5 DEF OwnerInv
<1> QED
  BY <1>3, <1>4

LEMMA SignInForgives ==
  ASSUME OwnerInv, NEW c \in Callers, SignedIn(c)
  PROVE  OwnerInv'
<1> USE PanelAssumption
<1>1. owner' = c /\ mine' = [mine EXCEPT ![c] = 0] /\ "owner" \notin waits'
  BY DEF SignedIn
<1>2. tries' = [tries EXCEPT ![Tries(c)] = 0, !["owner"] = 0]
  BY DEF SignedIn
<1>3. tries' \in [{"owner", "panel"} -> 0 .. FreeFails] /\ tries'["owner"] = 0
  BY <1>2 DEF OwnerInv, Tries
<1>4. mine' \in [Clients -> 0 .. FreeFails]
  <2>1. 0 \in 0 .. FreeFails
    OBVIOUS
  <2>2. CASE c \in Clients
    BY <1>1, <2>1, <2>2 DEF OwnerInv
  <2>3. CASE c \notin Clients
    BY <1>1, <2>3 DEF OwnerInv
  <2> QED
    BY <2>2, <2>3
<1>5. c # "none" => mine'[c] = 0
  BY <1>1 DEF OwnerInv, Callers
<1> QED
  BY <1>1, <1>3, <1>4, <1>5 DEF OwnerInv

LEMMA OwnerStep ==
  ASSUME PanelTyped, OwnerInv, [Next]_vars
  PROVE  OwnerInv'
<1>0. ASSUME UNCHANGED <<owner, tries, mine>>, waits' \subseteq waits
      PROVE  OwnerInv'
  BY <1>0 DEF OwnerInv
<1>1. CASE Signs
  <2>1. CASE TimePasses \/ ClockSet \/ SessionExpires \/ WaitEnds
    <3>1. UNCHANGED <<owner, tries, mine>> /\ waits' \subseteq waits
      BY <2>1 DEF TimePasses, ClockSet, SessionExpires, WaitEnds, signVars
    <3> QED
      BY <3>1, <1>0
  <2>2. CASE SignInEnds
    BY <2>2, <1>0 DEF SignInEnds
  <2>3. CASE EnrollEnds \/ ReplaceKeyEnds
    <3>1. SignedIn(save.who) \/ UNCHANGED <<owner, tries, waits, mine>>
      BY <2>3 DEF EnrollEnds, ReplaceKeyEnds
    <3> QED
      BY <3>1, <1>0, SignInForgives DEF PanelTyped, RestTyped
  <2>4. ASSUME NEW c \in Clients, SignOut(c) \/ KeyPage(c) \/ NotConfirmed(c)
        PROVE  OwnerInv'
    <3>1. LoginFailed(c) \/ UNCHANGED <<owner, tries, waits, mine>>
      BY <2>4 DEF SignOut, KeyPage, NotConfirmed
    <3> QED
      BY <3>1, <1>0, MistakesCount
  <2>5. ASSUME NEW c \in Clients, NEW code \in Steps, NEW b \in 1 .. MaxStep,
               SignIn(c, code, b) \/ Enroll(c, code, b) \/ ReplaceKey(c, code, b)
        PROVE  OwnerInv'
    <3>1. LoginFailed(c) \/ SignedIn(c) \/ UNCHANGED <<owner, tries, waits, mine>>
      BY <2>5 DEF SignIn, Enroll, ReplaceKey
    <3> QED
      BY <3>1, <1>0, MistakesCount, SignInForgives DEF Callers
  <2>6. ASSUME NEW c \in Clients, NEW code \in Steps, NEW b \in 1 .. MaxStep, NEW p \in Passwords, SetPassword(c, p, code, b)
        PROVE  OwnerInv'
    BY <2>6, <1>0 DEF SetPassword
  <2> QED
    BY <1>1, <2>1, <2>2, <2>3, <2>4, <2>5, <2>6 DEF Signs
<1>2. CASE PowerFails
  BY <1>2, PanelAssumption DEF PowerFails, PanelOff, NoTries, OwnerInv, Callers
<1>3. CASE Starts \/ Flash \/ UNCHANGED vars
  BY <1>3, <1>0 DEF Starts, Flash, vars, panelVars, signVars
<1>4. CASE Forms
  <2>1. UNCHANGED <<owner, tries, waits, mine>>
    BY <1>4 DEF Forms, FormEnds, WifiEnds, PasswordEnds, SetPasswordEnds, ConfigSave, NtfySave, MqttSave, IotSave,
         AutoSave, WifiSave, ClearIot, Form, panelVars, signVars
  <2> QED
    BY <2>1, <1>0
<1>5. CASE Cloudflare
  <2>1. UNCHANGED <<owner, tries, waits, mine>>
    BY <1>5 DEF Cloudflare, Jobs, Redeploy, HourPasses, Scan, ZonesAnswer, Record, LookupAnswer, CreateAnswer, Deploy,
         SettingsAnswer, UploadAnswer, RouteAnswer, JobEnds, TokenSaved, OffEnds, AskScan, AskRecord, AskDeploy,
         RemoteOff, ClearCloudflare, Unsigned, panelVars, signVars
  <2> QED
    BY <2>1, <1>0
<1> QED
  BY <1>1, <1>2, <1>3, <1>4, <1>5 DEF Next

\* However often any other address guesses, the owner waits only after mistakes of
\* its own (WebService.h:235-239).
THEOREM OwnerNotHeldOut == Spec => []OwnerHeldOutByItself
<1>1. OwnerInv => OwnerHeldOutByItself
  BY DEF OwnerInv, OwnerHeldOutByItself, Blocked, Tries
<1> QED
  BY <1>1, OwnerHolds, OwnerStep, PanelSound, PTL DEF Spec

----------------------------------------------------------------------------
\* What the parts of the panel leave alone, and of whom the save is meanwhile.

JobSteps == JobCalls \cup JobSaves \cup {"none"}

\* A step of the Cloudflare jobs, or of their handlers.
PanelAlone ==
    /\ UNCHANGED <<session, pending, drawn, codes, twice, live, stale, file, trouble>>
    /\ cfg'.key = cfg.key /\ cfg'.pw = cfg.pw /\ cfg'.dev = cfg.dev /\ cfg'.brow = cfg.brow
    /\ cfg'.forms = cfg.forms
    /\ save' = save \/ {save.by, save'.by} \subseteq JobSteps

\* The fields of a configuration that these steps do not write.
SameKeys(c) == c.key = cfg.key /\ c.pw = cfg.pw /\ c.dev = cfg.dev /\ c.brow = cfg.brow /\ c.forms = cfg.forms

LEMMA JobsLeavePanel ==
  ASSUME PanelTyped, StoreInv,
         \/ Redeploy \/ HourPasses \/ Scan \/ ZonesAnswer \/ Record \/ LookupAnswer \/ CreateAnswer
         \/ Deploy \/ SettingsAnswer \/ UploadAnswer \/ RouteAnswer \/ JobEnds \/ TokenSaved \/ OffEnds
  PROVE  /\ UNCHANGED <<session, pending, drawn, codes, twice, file, trouble>> /\ SameKeys(cfg')
         /\ save' = save \/ {save.by, save'.by} \subseteq JobSteps
<1> USE Asks DEF JobSteps, JobCalls, JobSaves, storeVars, panelVars, signVars, jobVars, OnlyFlash, Takes, Request, Awaits, SameKeys
<1>0. save.at = "idle" => save.by = "none"
  BY DEF StoreInv, SaveRecord
<1>1. CASE Redeploy \/ HourPasses
  BY <1>1 DEF Redeploy, HourPasses
<1>2. CASE Scan
  BY <1>0, <1>2 DEF Scan
<1>3. CASE ZonesAnswer
  BY <1>3 DEF ZonesAnswer
<1>4. CASE Record
  BY <1>0, <1>4 DEF Record
<1>5. HasRecord => SameKeys(cfg') /\ save'.by = "record"
  <2>1. SameKeys([cfg EXCEPT !.rec = TRUE])
    BY Bounded DEF Configs
  <2> QED
    BY <2>1 DEF HasRecord
<1>6. CASE LookupAnswer
  BY <1>5, <1>6 DEF LookupAnswer
<1>7. CASE CreateAnswer
  BY <1>5, <1>7 DEF CreateAnswer
<1>8. CASE Deploy
  BY <1>0, <1>8 DEF Deploy
<1>9. CASE SettingsAnswer
  BY <1>9 DEF SettingsAnswer
<1>10. CASE UploadAnswer
  BY <1>10 DEF UploadAnswer
<1>11. CASE RouteAnswer
  <2>1. SameKeys([cfg EXCEPT !.relay = TRUE, !.sec = cloud.sec, !.ver = RELAY_VERSION])
    BY Bounded DEF Configs
  <2> QED
    BY <1>11, <2>1 DEF RouteAnswer
<1>12. CASE JobEnds \/ OffEnds
  BY <1>12 DEF JobEnds, OffEnds, Ended
<1>13. CASE TokenSaved
  BY <1>13, NotSavingTyped DEF TokenSaved, Ended
<1> QED
  BY <1>1, <1>2, <1>3, <1>4, <1>6, <1>7, <1>8, <1>9, <1>10, <1>11, <1>12, <1>13

LEMMA CloudRequestsLeavePanel ==
  ASSUME PanelTyped, StoreInv, NEW c \in Clients,
         AskScan(c) \/ AskRecord(c) \/ AskDeploy(c) \/ RemoteOff(c) \/ ClearCloudflare(c)
  PROVE  /\ UNCHANGED <<session, pending, drawn, codes, twice, file, trouble>> /\ SameKeys(cfg')
         /\ save' = save \/ {save.by, save'.by} \subseteq JobSteps
<1> USE Asks DEF JobSteps, JobCalls, JobSaves, storeVars, signVars, CloudRequest, Request, Unsigned
<1>0. save.at = "idle" => save.by = "none"
  BY DEF StoreInv, SaveRecord
<1>1. \A conf \in {cfg, [cfg EXCEPT !.tok = TRUE], [cfg EXCEPT !.rec = FALSE], RelayOff(cfg),
                   [RelayOff(cfg) EXCEPT !.tok = FALSE, !.rec = FALSE]} : SameKeys(conf)
  BY Bounded DEF Configs, RelayOff, SameKeys
<1>2. CASE AskScan(c)
  BY <1>0, <1>1, <1>2 DEF AskScan
<1>3. CASE AskRecord(c)
  BY <1>0, <1>1, <1>3 DEF AskRecord
<1>4. CASE AskDeploy(c)
  BY <1>1, <1>4 DEF AskDeploy
<1>5. CASE RemoteOff(c)
  BY <1>0, <1>1, <1>5 DEF RemoteOff
<1>6. CASE ClearCloudflare(c)
  BY <1>0, <1>1, <1>6 DEF ClearCloudflare
<1> QED
  BY <1>2, <1>3, <1>4, <1>5, <1>6

LEMMA CloudflareLeavesPanel ==
  ASSUME PanelTyped, StoreInv, Cloudflare
  PROVE  PanelAlone
BY JobsLeavePanel, CloudRequestsLeavePanel DEF Cloudflare, Jobs, PanelAlone, SameKeys

\* A step of a save: what is stored is the configuration of the save once it is
\* done, and the old one until then.
SaveGoesOn ==
    /\ cfg' = cfg /\ UNCHANGED <<session, pending, drawn, codes, twice, live, stale>>
    /\ save'.by = save.by /\ save'.prev = save.prev /\ save'.who = save.who
    /\ save.at \notin {"off", "idle", "job", "done", "failed"} /\ save'.at \notin {"off", "idle", "job"}
    /\ Full => Full'
    /\ save'.at = "done" => Stored' = cfg \/ Full'
    /\ save'.at # "done" => Stored' = Stored

LEMMA SavesGoOn ==
  ASSUME StoreInv, Saves, UNCHANGED <<panelVars, live, stale>>
  PROVE  SaveGoesOn
<1> USE DEF SaveGoesOn, StoreInv, SaveRecord, GoOn, Stored, Full, Phases
<1>0. UNCHANGED <<session, pending, drawn, codes, twice, live, stale>>
  BY DEF panelVars, signVars
<1>1. CASE BackupOpens
  BY <1>0, <1>1 DEF BackupOpens
<1>2. CASE BackupWrites
  BY <1>0, <1>2 DEF BackupWrites
<1>3. CASE SaveOpens
  BY <1>0, <1>3 DEF SaveOpens
<1>4. CASE SaveWrites
  BY <1>0, <1>4 DEF SaveWrites
<1>5. CASE SaveRenames
  BY <1>0, <1>5 DEF SaveRenames, Read, Broken
<1> QED
  BY <1>1, <1>2, <1>3, <1>4, <1>5 DEF Saves


----------------------------------------------------------------------------
\* The key and the password.

\* What is asked for is what is stored: of the key, but while an enrolment saves
\* it, and of the password, but while its own form does or after that failed.
SameAsStored(c) == Full \/ c.key = Stored.key

KeyInv ==
    /\ On /\ save.by # "enroll" => SameAsStored(cfg)
    /\ save.by = "enroll" => save.at = "done" \/ SameAsStored(save.prev)
    /\ save.by \in {"enroll", "login"} \/ session.level = 2 => cfg.key # 0
    /\ save.by = "enroll" => session.level = 1
    /\ ~On => session.level = 0 /\ save.by = "none"
    /\ On /\ save.by \notin {"password", "wifi"} => Full \/ cfg.pw = Stored.pw \/ "password" \in stale

LEMMA KeyHolds ==
  ASSUME Init
  PROVE  KeyInv
<1>1. ~On /\ save.by = "none" /\ session.level = 0
  BY DEF Init, StoreInit, PowerOff, NotSaving, On, PanelInit, NoOne
<1> QED
  BY <1>1 DEF KeyInv

\* A save that is done has stored what is in RAM.
LEMMA DoneIsStored ==
  ASSUME StoreInv, save.at = "done"
  PROVE  Full \/ cfg = Stored
BY DEF StoreInv

LEMMA KeySigns ==
  ASSUME StoreInv, PanelTyped, KeyInv, Signs
  PROVE  KeyInv'
<1> USE DEF Request, OnlyFlash, storeVars
<1>0. save.at = "idle" => save.by = "none"
  BY DEF StoreInv, SaveRecord
<1>1. stale' = stale
  BY DEF Signs
<1>2. file' = file /\ trouble' = trouble /\ Stored' = Stored /\ (Full <=> Full')
  <2>1. file' = file /\ trouble' = trouble
    BY DEF Signs, TimePasses, ClockSet, SessionExpires, WaitEnds, SignInEnds, EnrollEnds, ReplaceKeyEnds,
         SignOut, KeyPage, NotConfirmed, SignIn, Save, Enroll, ReplaceKey, SetPassword
  <2> QED
    BY <2>1 DEF Stored, Full
<1>3. CASE TimePasses \/ ClockSet \/ WaitEnds
  BY <1>1, <1>2, <1>3 DEF TimePasses, ClockSet, WaitEnds, signVars, KeyInv, SameAsStored, On, Full
<1>4. CASE SessionExpires
  BY <1>0, <1>1, <1>2, <1>4 DEF SessionExpires, NoOne, KeyInv, SameAsStored, On, Full
<1>5. CASE SignInEnds
  <2>1. save'.at = "idle" /\ save'.by = "none" /\ cfg' = cfg /\ save.by = "login"
    BY <1>5, NotSavingTyped DEF SignInEnds, Ended, NotSaving
  <2> QED
    BY <1>1, <1>2, <1>5, <2>1 DEF SignInEnds, Ended, KeyInv, SameAsStored, On, Full
<1>6. CASE EnrollEnds
  <2>1. save'.at = "idle" /\ save'.by = "none" /\ save.by = "enroll"
    BY <1>6 DEF EnrollEnds, Ended, NotSaving
  <2>2. CASE Good
    <3>1. cfg' = cfg
      BY <1>6, <2>2 DEF EnrollEnds
    <3> QED
      BY <1>1, <1>2, <2>1, <2>2, <3>1, DoneIsStored DEF Good, KeyInv, SameAsStored, On, Full
  <2>3. CASE ~Good
    <3>1. /\ cfg' = [cfg EXCEPT !.key = save.prev.key, !.dev = save.prev.dev, !.brow = save.prev.brow]
          /\ session' = session
      BY <1>6, <2>3 DEF EnrollEnds
    <3>2. cfg'.key = save.prev.key /\ cfg'.pw = cfg.pw
      BY <3>1, Bounded DEF Configs
    <3> QED
      BY <1>1, <1>2, <2>1, <2>3, <3>1, <3>2 DEF Good, KeyInv, SameAsStored, On, Full
  <2> QED
    BY <2>2, <2>3
<1>7. CASE ReplaceKeyEnds
  <2>1. save'.at = "idle" /\ save'.by = "none" /\ cfg' = cfg /\ save.by = "reset" /\ session'.level = 1
    BY <1>7 DEF ReplaceKeyEnds, Ended, NotSaving
  <2> QED
    BY <1>1, <1>2, <2>1 DEF KeyInv, SameAsStored, On, Full
<1>8. ASSUME NEW c \in Clients, SignOut(c) \/ KeyPage(c) \/ NotConfirmed(c)
      PROVE  KeyInv'
  BY <1>0, <1>1, <1>2, <1>8 DEF SignOut, KeyPage, NotConfirmed, NoOne, KeyInv, SameAsStored, On, Full
<1>9. ASSUME NEW c \in Clients, NEW code \in Steps, NEW b \in 1 .. MaxStep,
             SignIn(c, code, b) \/ Enroll(c, code, b) \/ ReplaceKey(c, code, b)
      PROVE  KeyInv'
  <2>1. Spend(cfg, code).key = cfg.key /\ Spend(cfg, code).pw = cfg.pw
    BY SpendTyped, Bounded
  <2>2. CASE SignIn(c, code, b)
    <3>1. save.at = "idle"
      BY <2>2 DEF SignIn
    <3>2. CASE UNCHANGED storeVars
      <4>1. session' = session \/ session'.level = 1
        BY <2>2, <3>2 DEF SignIn, Save
      <4> QED
        BY <1>0, <1>1, <1>2, <3>1, <3>2, <4>1 DEF KeyInv, SameAsStored, On, Full
    <3>3. CASE cfg.key # 0 /\ Save(Spend(cfg, code), "login", c) /\ session' = session
      BY <1>0, <1>1, <1>2, <2>1, <3>1, <3>3, Asks DEF KeyInv, SameAsStored, On, Full
    <3> QED
      BY <2>2, <3>2, <3>3 DEF SignIn
  <2>3. CASE Enroll(c, code, b)
    <3>1. save.at = "idle" /\ session' = session /\ session.level = 1
      BY <2>3 DEF Enroll, EnrollGuard
    <3>2. CASE UNCHANGED storeVars
      BY <1>1, <1>2, <3>1, <3>2 DEF KeyInv, SameAsStored, On, Full
    <3>3. CASE /\ cfg' = [Spend(cfg, code) EXCEPT !.key = pending] /\ pending # 0
               /\ save' = [at |-> "open", by |-> "enroll", who |-> c, prev |-> cfg]
      <4>1. cfg'.key # 0 /\ cfg'.pw = cfg.pw
        BY <2>1, <3>3, SpendTyped, Bounded DEF Configs
      <4>2. save'.at = "open" /\ save'.by = "enroll" /\ save'.prev = cfg
        BY <3>3
      <4> QED
        BY <1>0, <1>1, <1>2, <3>1, <4>1, <4>2 DEF KeyInv, SameAsStored, On, Full
    <3> QED
      BY <2>3, <3>2, <3>3 DEF Enroll, CodeOk
  <2>4. CASE ReplaceKey(c, code, b)
    <3>1. save.at = "idle" /\ session' = session /\ Save(Spend(cfg, code), "reset", c)
      BY <2>4 DEF ReplaceKey
    <3> QED
      BY <1>0, <1>1, <1>2, <2>1, <3>1, Asks DEF KeyInv, SameAsStored, On, Full
  <2> QED
    BY <1>9, <2>2, <2>3, <2>4
<1>10. ASSUME NEW c \in Clients, NEW code \in Steps, NEW b \in 1 .. MaxStep, NEW p \in Passwords, SetPassword(c, p, code, b)
       PROVE  KeyInv'
  <2>1. /\ \A conf \in {Spend(cfg, code), [Spend(cfg, code) EXCEPT !.pw = p], [cfg EXCEPT !.pw = p]} : conf.key = cfg.key
        /\ Spend(cfg, code).pw = cfg.pw
    BY SpendTyped, Bounded DEF Configs
  <2>2. save.at = "idle" /\ session' = session
    BY <1>10 DEF SetPassword
  <2>3. \/ cfg' \in {[Spend(cfg, code) EXCEPT !.pw = p], [cfg EXCEPT !.pw = p]} /\ save'.by = "password" /\ save'.at = "open"
        \/ cfg' = Spend(cfg, code) /\ save' = save
    BY <1>10, Asks DEF SetPassword
  <2> QED
    BY <1>0, <1>1, <1>2, <2>1, <2>2, <2>3 DEF KeyInv, SameAsStored, On, Full
<1> QED
  BY <1>3, <1>4, <1>5, <1>6, <1>7, <1>8, <1>9, <1>10 DEF Signs

LEMMA KeyForms ==
  ASSUME StoreInv, PanelTyped, KeyInv, Forms
  PROVE  KeyInv'
<1> USE DEF Request, OnlyFlash, panelVars, signVars
<1>0. save.at = "idle" => save.by = "none"
  BY DEF StoreInv, SaveRecord
<1>1. file' = file /\ trouble' = trouble /\ Stored' = Stored /\ (Full <=> Full')
  BY FormsLeaveCloudflare DEF CloudflareAlone, Stored, Full
<1>2. CASE FormEnds \/ WifiEnds \/ PasswordEnds
  <2>1. save'.at = "idle" /\ save'.by = "none" /\ cfg' = cfg /\ (session' = session \/ session'.level = 0)
    BY <1>2, NotSavingTyped DEF FormEnds, WifiEnds, PasswordEnds, SetPasswordEnds, GiveUp, NotSaving, NoOne
  <2>2. save.by \notin {"enroll", "login"} /\ save.at \in {"done", "failed"}
    BY <1>2 DEF FormEnds, WifiEnds, PasswordEnds, SetPasswordEnds, Ended, FormNames
  <2>3. \/ save.by \notin {"password", "wifi"} /\ ("password" \in stale => "password" \in stale')
        \/ save.at = "done" \/ "password" \in stale'
    BY <1>2 DEF FormEnds, WifiEnds, PasswordEnds, SetPasswordEnds, Ended, Good, FormNames
  <2> QED
    BY <1>1, <2>1, <2>2, <2>3, DoneIsStored DEF KeyInv, SameAsStored, On, Full
<1>3. ASSUME NEW c \in Clients, NEW f \in FormNames, Form(c, f)
      PROVE  KeyInv'
  <2>1. /\ save.at = "idle" /\ session' = session /\ stale' = stale
        /\ save'.by = f /\ save'.at = "open" /\ cfg' = Toggled(f)
    BY <1>3, Asks DEF Form
  <2>2. cfg'.key = cfg.key /\ cfg'.pw = cfg.pw
    BY <2>1, Bounded DEF Toggled, Configs
  <2> QED
    BY <1>0, <1>1, <2>1, <2>2 DEF FormNames, KeyInv, SameAsStored, On, Full
<1>4. ASSUME NEW c \in Clients, NtfySave(c)
      PROVE  KeyInv'
  <2>1. /\ save.at = "idle" /\ session' = session /\ stale' = stale
        /\ save'.by = "topic" /\ save'.at = "open" /\ cfg'.key = cfg.key /\ cfg'.pw = cfg.pw
    BY <1>4, Bounded DEF NtfySave, Configs
  <2> QED
    BY <1>0, <1>1, <2>1 DEF KeyInv, SameAsStored, On, Full
<1>5. ASSUME NEW c \in Clients, NEW p \in Passwords, WifiSave(c, p)
      PROVE  KeyInv'
  <2>1. /\ save.at = "idle" /\ session' = session /\ stale' = stale
        /\ save'.by = "wifi" /\ save'.at = "open" /\ cfg'.key = cfg.key
    BY <1>5, Bounded DEF WifiSave, Save, Configs
  <2> QED
    BY <1>0, <1>1, <2>1 DEF KeyInv, SameAsStored, On, Full
<1>6. ASSUME NEW c \in Clients, NEW code \in Steps, NEW b \in 1 .. MaxStep, ClearIot(c, code, b)
      PROVE  KeyInv'
  <2>1. \A conf \in {Toggled("iot"), [Spend(cfg, code) EXCEPT !.forms = @ \ {"iot"}]} :
           conf.key = cfg.key /\ conf.pw = cfg.pw
    BY SpendTyped, Bounded DEF Toggled, Configs
  <2>2. /\ save.at = "idle" /\ session' = session /\ stale' = stale
        /\ save'.by = "iot" /\ save'.at = "open"
        /\ cfg' \in {Toggled("iot"), [Spend(cfg, code) EXCEPT !.forms = @ \ {"iot"}]}
    BY <1>6, Asks DEF ClearIot
  <2> QED
    BY <1>0, <1>1, <2>1, <2>2 DEF KeyInv, SameAsStored, On, Full
<1> QED
  BY <1>2, <1>3, <1>4, <1>5, <1>6 DEF Forms, ConfigSave, MqttSave, IotSave, AutoSave, FormNames

LEMMA KeyStep ==
  ASSUME StoreInv, PanelTyped, KeyInv, [Next]_vars
  PROVE  KeyInv'
<1>1. CASE Starts
  <2>1. cfg' = Stored /\ Stored' = Stored /\ session' = session /\ save'.by \in {"none", "boot"} /\ save'.at # "off" /\ save.at = "off"
    BY <1>1 DEF Starts, Boot, NotSaving, panelVars, signVars, Stored
  <2> QED
    BY <2>1 DEF KeyInv, SameAsStored, On
<1>2. CASE PowerFails
  <2>1. save'.at = "off" /\ save'.by = "none" /\ session'.level = 0
    BY <1>2 DEF PowerFails, PowerCut, PowerOff, NotSaving, PanelOff, NoOne
  <2> QED
    BY <2>1 DEF KeyInv, On
<1>3. CASE Flash
  <2>1. CASE BootSaveEnds
    BY <1>3, <2>1, NotSavingTyped DEF Flash, BootSaveEnds, Ended, NotSaving, panelVars, signVars, Stored, KeyInv, SameAsStored, On, Full
  <2>2. CASE Saves
    <3>1. SaveGoesOn
      BY <1>3, <2>2, SavesGoOn DEF Flash
    <3> QED
      BY <3>1 DEF SaveGoesOn, KeyInv, SameAsStored, On
  <2> QED
    BY <1>3, <2>1, <2>2 DEF Flash
<1>4. CASE Cloudflare
  <2>1. PanelAlone /\ Stored' = Stored
    BY <1>4, CloudflareLeavesPanel DEF PanelAlone, Stored
  <2> QED
    BY <1>4, <2>1, CloudflareShape DEF PanelAlone, KeyInv, SameAsStored, On, Full, JobSteps, JobCalls, JobSaves,
         StoreInv, Handler, Elsewhere
<1>5. CASE UNCHANGED vars
  BY <1>5 DEF vars, storeVars, panelVars, signVars, KeyInv, SameAsStored, On, Full, Stored
<1> QED
  BY <1>1, <1>2, <1>3, <1>4, <1>5, KeySigns, KeyForms DEF Next

\* No handler, failed save or power cut leaves the panel with another key than the
\* stored one (WebService.h:1893-1921), or somebody signed in who has none.
THEOREM KeyIsStored == Spec => []KeyKept
<1>1. KeyInv /\ StoreInv => KeyKept
  BY DEF KeyInv, KeyKept, Idle, On, SameAsStored, StoreInv, SaveRecord
<1> QED
  BY <1>1, KeyHolds, KeyStep, StoreSound, PanelSound, PTL DEF Spec


----------------------------------------------------------------------------
\* The services.

\* A form's service, RAM and flash agree, but while its own save goes on; ntfy's
\* meanwhile still has what its form found.
Agree(f) == (f \in live) = (f \in cfg.forms) /\ (Full \/ (f \in cfg.forms) = (f \in Stored.forms))

ServicesInv ==
    /\ \A f \in FormNames \ stale : On /\ save.by # f => Agree(f)
    /\ On /\ save.by = "topic" /\ "topic" \notin stale => ("topic" \in live) = ("topic" \in save.prev.forms)
    /\ ~On => save.by = "none"

LEMMA ServicesHold ==
  ASSUME Init
  PROVE  ServicesInv
BY DEF Init, StoreInit, PowerOff, NotSaving, On, ServicesInv

\* What each step of the sign-in leaves of the forms.
LEMMA SignsLeaveForms ==
  ASSUME StoreInv, PanelTyped, Signs
  PROVE  /\ cfg'.forms = cfg.forms /\ UNCHANGED <<live, stale, file, trouble>>
         /\ save' = save \/ {save.by, save'.by} \subseteq {"none", "login", "enroll", "reset", "password"}
         /\ save.at = "off" => save' = save
<1> USE DEF Request, OnlyFlash, storeVars
<1>0. save.at = "idle" => save.by = "none"
  BY DEF StoreInv, SaveRecord
<1>1. UNCHANGED <<live, stale>>
  BY DEF Signs
<1>2. CASE TimePasses \/ ClockSet \/ WaitEnds \/ SessionExpires
  BY <1>1, <1>2 DEF TimePasses, ClockSet, WaitEnds, SessionExpires
<1>3. CASE SignInEnds \/ ReplaceKeyEnds
  BY <1>1, <1>3, NotSavingTyped DEF SignInEnds, ReplaceKeyEnds, Ended
<1>4. CASE EnrollEnds
  <2>1. /\ UNCHANGED <<file, trouble>> /\ save' = NotSaving /\ save.by = "enroll" /\ save.at # "off"
        /\ \/ cfg' = cfg
           \/ cfg' = [cfg EXCEPT !.key = save.prev.key, !.dev = save.prev.dev, !.brow = save.prev.brow]
    BY <1>4 DEF EnrollEnds, Ended
  <2>2. cfg'.forms = cfg.forms
    BY <2>1, Bounded DEF Configs
  <2> QED
    BY <1>1, <2>1, <2>2, NotSavingTyped
<1>5. ASSUME NEW c \in Clients, SignOut(c) \/ KeyPage(c) \/ NotConfirmed(c)
      PROVE  cfg' = cfg /\ UNCHANGED <<file, trouble, save>>
  BY <1>5 DEF SignOut, KeyPage, NotConfirmed
<1>6. ASSUME NEW c \in Clients, NEW code \in Steps, NEW b \in 1 .. MaxStep
      PROVE  /\ Spend(cfg, code).forms = cfg.forms
             /\ [Spend(cfg, code) EXCEPT !.key = pending].forms = cfg.forms
             /\ SignIn(c, code, b) => cfg' \in {cfg, Spend(cfg, code)} /\ UNCHANGED <<file, trouble>>
             /\ SignIn(c, code, b) => save.at = "idle" /\ save'.by \in {save.by, "login"}
             /\ Enroll(c, code, b) => cfg' \in {cfg, [Spend(cfg, code) EXCEPT !.key = pending]} /\ UNCHANGED <<file, trouble>>
             /\ Enroll(c, code, b) => save.at = "idle" /\ save'.by \in {save.by, "enroll"}
             /\ ReplaceKey(c, code, b) => cfg' = Spend(cfg, code) /\ UNCHANGED <<file, trouble>>
             /\ ReplaceKey(c, code, b) => save.at = "idle" /\ save'.by = "reset"
  BY SpendTyped, Bounded, Asks DEF Configs, SignIn, Enroll, ReplaceKey
<1>7. ASSUME NEW c \in Clients, NEW code \in Steps, NEW b \in 1 .. MaxStep, NEW p \in Passwords, SetPassword(c, p, code, b)
      PROVE  /\ cfg'.forms = cfg.forms /\ UNCHANGED <<file, trouble>>
             /\ save.at = "idle" /\ save'.by \in {save.by, "password"}
  <2>1. \A conf \in {Spend(cfg, code), [Spend(cfg, code) EXCEPT !.pw = p], [cfg EXCEPT !.pw = p]} : conf.forms = cfg.forms
    BY SpendTyped, Bounded DEF Configs
  <2>2. /\ cfg' \in {Spend(cfg, code), [Spend(cfg, code) EXCEPT !.pw = p], [cfg EXCEPT !.pw = p]}
        /\ save'.by \in {save.by, "password"} /\ save.at = "idle"
    BY <1>7, Asks DEF SetPassword
  <2>3. UNCHANGED <<file, trouble>>
    BY <1>7 DEF SetPassword
  <2> QED
    BY <2>1, <2>2, <2>3
<1> QED
  BY <1>0, <1>1, <1>2, <1>3, <1>4, <1>5, <1>6, <1>7 DEF Signs

\* The handlers of the forms: one form changes, and its service is told when the
\* save is done.
LEMMA FormBegins ==
  ASSUME StoreInv, ServicesInv, NEW f \in FormNames,
         save.at = "idle", save'.at = "open", save'.by = f,
         \A g \in FormNames \ {f} : (g \in cfg'.forms) = (g \in cfg.forms) /\ (g \in live') = (g \in live),
         f = "topic" => live' = live /\ save'.prev = cfg,
         UNCHANGED <<stale, trouble>>, Stored' = Stored
  PROVE  ServicesInv'
BY DEF ServicesInv, Agree, On, Full, StoreInv, SaveRecord, FormNames

LEMMA ServicesForms ==
  ASSUME StoreInv, PanelTyped, ServicesInv, Forms
  PROVE  ServicesInv'
<1> USE DEF Request
<1>1. trouble' = trouble /\ Stored' = Stored
  BY FormsLeaveCloudflare DEF CloudflareAlone, Stored
<1>2. CASE FormEnds
  <2>1. save'.at = "idle" /\ save'.by = "none" /\ cfg' = cfg
    BY <1>2 DEF FormEnds, GiveUp, NotSaving, OnlyFlash
  <2> PICK f \in FormNames :
          /\ Ended(f)
          /\ \/ ~Good /\ stale' = stale \cup {f} /\ UNCHANGED live
             \/ Good /\ Moved(f) /\ live' = Told(f) /\ stale' = stale \ {f}
             \/ Good /\ ~Moved(f) /\ UNCHANGED <<live, stale>>
    BY <1>2 DEF FormEnds
  <2>2. save.by = f /\ save.at # "off"
    BY DEF Ended
  <2>3. CASE ~Good
    BY <1>1, <2>1, <2>2, <2>3 DEF ServicesInv, Agree, On, Full
  <2>4. CASE Good
    <3>1. Full \/ cfg = Stored
      BY <2>4, DoneIsStored DEF Good
    <3>2. \A g \in FormNames \ {f} : (g \in live') = (g \in live)
      BY DEF Told
    <3>3. f \notin stale' => (f \in live') = (f \in cfg.forms)
      BY <2>2, <2>4 DEF Told, Moved, ServicesInv, On
    <3> QED
      BY <1>1, <2>1, <2>2, <2>4, <3>1, <3>2, <3>3 DEF ServicesInv, Agree, On, Full, FormNames
  <2> QED
    BY <2>3, <2>4
<1>3. CASE WifiEnds \/ PasswordEnds
  <2>1. /\ save'.at = "idle" /\ save'.by = "none" /\ cfg' = cfg /\ live' = live
        /\ save.by \in {"wifi", "password"} /\ save.at # "off"
    BY <1>3, NotSavingTyped DEF WifiEnds, PasswordEnds, SetPasswordEnds, OnlyFlash, GiveUp, NotSaving, Ended
  <2>2. \A f \in FormNames : f \in stale' <=> f \in stale
    BY <1>3 DEF WifiEnds, PasswordEnds, FormNames
  <2> QED
    BY <1>1, <2>1, <2>2 DEF ServicesInv, Agree, On, Full, FormNames
<1>4. ASSUME NEW c \in Clients, NEW f \in FormNames \ {"topic"}, Form(c, f),
             \A g \in FormNames \ {f} : (g \in live') = (g \in live)
      PROVE  ServicesInv'
  <2>1. save.at = "idle" /\ stale' = stale /\ save'.by = f /\ save'.at = "open" /\ cfg' = Toggled(f)
    BY <1>4, Asks DEF Form
  <2>2. \A g \in FormNames \ {f} : (g \in cfg'.forms) = (g \in cfg.forms)
    BY <2>1, Bounded DEF Toggled, Configs
  <2> QED
    BY <1>1, <1>4, <2>1, <2>2, FormBegins
<1>5. ASSUME NEW c \in Clients, ConfigSave(c) \/ MqttSave(c) \/ IotSave(c) \/ AutoSave(c)
      PROVE  ServicesInv'
  <2>1. CASE ConfigSave(c)
    BY <1>4, <2>1 DEF ConfigSave, FormNames
  <2>2. CASE MqttSave(c)
    BY <1>4, <2>2 DEF MqttSave, FormNames
  <2>3. CASE IotSave(c)
    BY <1>4, <2>3 DEF IotSave, FormNames
  <2>4. CASE AutoSave(c)
    BY <1>4, <2>4 DEF AutoSave, FormNames
  <2> QED
    BY <1>5, <2>1, <2>2, <2>3, <2>4
<1>6. ASSUME NEW c \in Clients, NtfySave(c)
      PROVE  ServicesInv'
  <2>1. PICK forms \in {cfg.forms \cup {"topic"}, cfg.forms \ {"topic"}} : cfg' = [cfg EXCEPT !.forms = forms]
    BY <1>6 DEF NtfySave
  <2>2. cfg'.forms = forms
    BY <2>1, Bounded DEF Configs
  <2>3. /\ save.at = "idle" /\ save'.at = "open" /\ save'.by = "topic" /\ save'.prev = cfg
        /\ live' = live /\ stale' = stale
    BY <1>6 DEF NtfySave
  <2> QED
    BY <1>1, <2>2, <2>3, FormBegins DEF FormNames
<1>7. ASSUME NEW c \in Clients, NEW p \in Passwords, WifiSave(c, p)
      PROVE  ServicesInv'
  <2>1. save.at = "idle" /\ save'.by = "wifi" /\ save'.at = "open" /\ cfg'.forms = cfg.forms /\ UNCHANGED <<live, stale>>
    BY <1>7, Bounded DEF WifiSave, Save, Configs
  <2> QED
    BY <1>1, <2>1 DEF ServicesInv, Agree, On, Full, FormNames, StoreInv, SaveRecord
<1>8. ASSUME NEW c \in Clients, NEW code \in Steps, NEW b \in 1 .. MaxStep, ClearIot(c, code, b)
      PROVE  ServicesInv'
  <2>1. /\ save.at = "idle" /\ save'.by = "iot" /\ save'.at = "open" /\ UNCHANGED <<live, stale>>
        /\ cfg' \in {Toggled("iot"), [Spend(cfg, code) EXCEPT !.forms = @ \ {"iot"}]}
    BY <1>8, Asks DEF ClearIot
  <2>2. \A g \in FormNames \ {"iot"} : (g \in cfg'.forms) = (g \in cfg.forms)
    BY <2>1, SpendTyped, Bounded DEF Toggled, Configs
  <2> QED
    BY <1>1, <2>1, <2>2, FormBegins DEF FormNames
<1> QED
  BY <1>2, <1>3, <1>5, <1>6, <1>7, <1>8 DEF Forms

LEMMA ServicesStep ==
  ASSUME StoreInv, PanelTyped, ServicesInv, [Next]_vars
  PROVE  ServicesInv'
<1>1. CASE Starts
  <2>1. /\ cfg' = Stored /\ Stored' = Stored /\ live' = Stored.forms
        /\ save'.by \in {"none", "boot"} /\ save'.at # "off"
    BY <1>1 DEF Starts, Boot, NotSaving, Stored
  <2> QED
    BY <2>1 DEF ServicesInv, Agree, On
<1>2. CASE PowerFails
  BY <1>2 DEF PowerFails, PowerCut, PowerOff, NotSaving, ServicesInv, On
<1>3. CASE Flash
  <2>1. CASE BootSaveEnds
    BY <1>3, <2>1, NotSavingTyped DEF Flash, BootSaveEnds, Ended, NotSaving, Stored, ServicesInv, Agree, On, Full, FormNames
  <2>2. CASE Saves
    <3>1. SaveGoesOn
      BY <1>3, <2>2, SavesGoOn DEF Flash
    <3> QED
      BY <3>1 DEF SaveGoesOn, ServicesInv, Agree, On
  <2> QED
    BY <1>3, <2>1, <2>2 DEF Flash
<1>4. CASE Cloudflare
  <2>1. PanelAlone /\ Stored' = Stored
    BY <1>4, CloudflareLeavesPanel DEF PanelAlone, Stored
  <2>2. save' = save \/ {save.at, save'.at} \subseteq Phases \ {"off"}
    BY <1>4, CloudflareShape DEF Handler, Elsewhere, StoreInv, SaveRecord, Phases
  <2> QED
    BY <2>1, <2>2 DEF PanelAlone, ServicesInv, Agree, On, Full, FormNames, JobSteps, JobCalls, JobSaves
<1>5. CASE Signs
  <2>1. save' = save \/ {save.at, save'.at} \subseteq Phases \ {"off"}
    BY <1>5, SignsShape DEF Handler, Elsewhere, StoreInv, SaveRecord, Phases
  <2> QED
    BY <1>5, <2>1, SignsLeaveForms DEF ServicesInv, Agree, On, Full, FormNames, Stored
<1>6. CASE UNCHANGED vars
  BY <1>6 DEF vars, storeVars, ServicesInv, Agree, On, Full, Stored
<1> QED
  BY <1>1, <1>2, <1>3, <1>4, <1>5, <1>6, ServicesForms DEF Next

LEMMA ServicesSound == Spec => []ServicesInv
BY ServicesHold, ServicesStep, StoreSound, PanelSound, PTL DEF Spec

\* A form's service, RAM and flash agree unless that form's own last save failed
\* (WebService.h:1194-1200, 1582-1594, 1713-1722, 2055-2060).
THEOREM ServicesFollow == Spec => []ServicesRunTheSaved
<1>1. ServicesInv /\ StoreInv => ServicesRunTheSaved
  BY DEF ServicesInv, Agree, ServicesRunTheSaved, Idle, On, StoreInv, SaveRecord, FormNames
<1> QED
  BY <1>1, ServicesSound, StoreSound, PTL


----------------------------------------------------------------------------
\* The codes.

\* Configuration c has spent the accepted codes of its key that are not lost.
SpentIn(c) == \A x \in codes : x.key = c.key => x.lost \/ SpentBy(x, c)

CodesTyped == codes \subseteq [key : 1 .. drawn, step : Steps, browser : BOOLEAN, lost : BOOLEAN]

CodesInv ==
    /\ CodesTyped
    /\ SpentIn(cfg)
    /\ ~On => save.by = "none" /\ pending = 0 /\ SpentIn(Stored)
    /\ save.by = "enroll" => SpentIn(save.prev) /\ save.prev.key # pending /\ cfg.key = pending
    /\ save.by # "enroll" => (pending # 0 => pending # cfg.key) /\ \A x \in codes : x.lost \/ x.key # pending

OnceStep == \A x \in twice' \ twice : x.lost \/ (x.browser /\ synced /\ cfg.brow > now + 1)

\* One step spends a code of cfg's key: the ledger's floor was below it.
LEMMA FloorRises ==
  ASSUME PanelTyped, NEW code \in Steps, NEW b, code > Floor(b), SpentIn(cfg), CodesTyped,
         NEW x \in codes, x.key = cfg.key, ~x.lost
  PROVE  /\ x.step <= IF x.browser THEN Spend(cfg, code).brow ELSE Spend(cfg, code).dev
         /\ x.step = code => x.browser /\ synced /\ cfg.brow > now + 1
<1>1. cfg.dev \in Nat /\ cfg.brow \in Nat /\ code \in Nat /\ x.step \in Nat /\ x.browser \in BOOLEAN
  BY Bounded, StepsNat DEF Configs, CodesTyped, Steps
<1>2. x.step <= IF x.browser THEN cfg.brow ELSE cfg.dev
  BY DEF SpentIn, SpentBy
<1>3. code > cfg.dev
  BY <1>1 DEF Floor
<1>4. ~(synced /\ cfg.brow > now + 1) => code > cfg.brow
  BY <1>1 DEF Floor
<1>5. /\ Spend(cfg, code).dev = IF synced THEN code ELSE cfg.dev
      /\ Spend(cfg, code).brow = IF synced THEN cfg.brow ELSE code
  BY SpendTyped, Bounded
<1> QED
  BY <1>1, <1>2, <1>3, <1>4, <1>5

\* A handler that accepts a code of the key asked for.
LEMMA CodeSpent ==
  ASSUME PanelTyped, CodesInv, save.by # "enroll", save'.by # "enroll", On', UNCHANGED <<pending, drawn>>,
         NEW code \in Steps, NEW b, CodeOk(cfg.key, code, b), Accepted(cfg.key, code),
         cfg'.key = cfg.key, cfg'.dev = Spend(cfg, code).dev, cfg'.brow = Spend(cfg, code).brow
  PROVE  CodesInv' /\ OnceStep
<1> DEFINE y == [key |-> cfg.key, step |-> code, browser |-> ~synced, lost |-> FALSE]
<1>1. codes' = codes \cup {y} /\ twice' = twice \cup {z \in codes : z.key = cfg.key /\ z.step = code}
  BY DEF Accepted
<1>2. cfg.key \in 1 .. drawn /\ code > Floor(b)
  BY Bounded DEF CodeOk
<1>3. CodesTyped'
  <2>1. y \in [key : 1 .. drawn, step : Steps, browser : BOOLEAN, lost : BOOLEAN]
    BY <1>2
  <2> QED
    BY <1>1, <2>1 DEF CodesInv, CodesTyped
<1>4. SpentBy(y, cfg')
  <2>0. code <= code
    BY StepsNat
  <2>1. y.step = code /\ (y.browser <=> ~synced)
    OBVIOUS
  <2>2. /\ Spend(cfg, code).dev = IF synced THEN code ELSE cfg.dev
        /\ Spend(cfg, code).brow = IF synced THEN cfg.brow ELSE code
    BY SpendTyped, Bounded
  <2>3. CASE synced
    BY <2>0, <2>1, <2>2, <2>3 DEF SpentBy
  <2>4. CASE ~synced
    BY <2>0, <2>1, <2>2, <2>4 DEF SpentBy
  <2> QED
    BY <2>3, <2>4
<1>5. SpentIn(cfg)'
  BY <1>1, <1>2, <1>4, FloorRises DEF CodesInv, SpentIn, SpentBy
<1>6. (pending' # 0 => pending' # cfg'.key) /\ \A x \in codes' : x.lost \/ x.key # pending'
  BY <1>1, <1>2 DEF CodesInv
<1>7. OnceStep
  BY <1>1, <1>2, FloorRises DEF CodesInv, OnceStep
<1> QED
  BY <1>3, <1>5, <1>6, <1>7 DEF CodesInv

\* A step that accepts no code and keeps the ledger.
LEMMA LedgerKept ==
  ASSUME PanelTyped, CodesInv, UNCHANGED <<codes, twice>>, drawn' \in Nat, drawn' >= drawn,
         pending' \in {0, pending} \/ (pending' > drawn /\ pending' \in Nat),
         cfg'.key = cfg.key, cfg'.dev = cfg.dev, cfg'.brow = cfg.brow, Stored' = Stored,
         save' = save \/ (save.by # "enroll" /\ save'.by # "enroll" /\ On'),
         pending' = pending \/ (save.by # "enroll" /\ On)
  PROVE  CodesInv' /\ twice' \ twice = {}
<1>1. CodesTyped' /\ SpentIn(cfg)' /\ (SpentIn(Stored) => SpentIn(Stored)')
  BY Bounded DEF CodesInv, CodesTyped, SpentIn, SpentBy
<1>2. cfg.key <= drawn /\ cfg.key \in Nat /\ drawn \in Nat /\ pending \in Nat /\ \A x \in codes : x.key \in 1 .. drawn
  BY Bounded DEF CodesInv, CodesTyped
<1>3. save.by # "enroll" => (pending' # 0 => pending' # cfg'.key) /\ \A x \in codes' : x.lost \/ x.key # pending'
  BY <1>2 DEF CodesInv
<1>4. CASE save' = save
  BY <1>1, <1>3, <1>4 DEF CodesInv, SpentIn, On
<1>5. CASE save.by # "enroll" /\ save'.by # "enroll" /\ On'
  BY <1>1, <1>3, <1>5 DEF CodesInv
<1> QED
  BY <1>4, <1>5

LEMMA CodesHold ==
  ASSUME Init
  PROVE  CodesInv
<1>1. codes = {} /\ pending = 0 /\ save.by = "none"
  BY DEF Init, StoreInit, PowerOff, NotSaving, PanelInit
<1> QED
  BY <1>1 DEF CodesInv, CodesTyped, SpentIn

\* The first code of a new key.
LEMMA CodeEnrolls ==
  ASSUME PanelTyped, CodesInv, save.by # "enroll", save'.by = "enroll", On', save'.prev = cfg,
         UNCHANGED <<pending, drawn>>, NEW code \in Steps, pending # 0, Accepted(pending, code),
         cfg'.key = pending, cfg'.dev = Spend(cfg, code).dev, cfg'.brow = Spend(cfg, code).brow
  PROVE  CodesInv' /\ OnceStep
<1> DEFINE y == [key |-> pending, step |-> code, browser |-> ~synced, lost |-> FALSE]
<1>1. codes' = codes \cup {y} /\ twice' = twice \cup {z \in codes : z.key = pending /\ z.step = code}
  BY DEF Accepted
<1>2. pending \in 1 .. drawn
  BY Bounded
<1>3. CodesTyped'
  <2>1. y \in [key : 1 .. drawn, step : Steps, browser : BOOLEAN, lost : BOOLEAN]
    BY <1>2
  <2> QED
    BY <1>1, <2>1 DEF CodesInv, CodesTyped
<1>4. SpentBy(y, cfg')
  <2>0. code <= code
    BY StepsNat
  <2>1. y.step = code /\ (y.browser <=> ~synced)
    OBVIOUS
  <2>2. /\ Spend(cfg, code).dev = IF synced THEN code ELSE cfg.dev
        /\ Spend(cfg, code).brow = IF synced THEN cfg.brow ELSE code
    BY SpendTyped, Bounded
  <2>3. CASE synced
    BY <2>0, <2>1, <2>2, <2>3 DEF SpentBy
  <2>4. CASE ~synced
    BY <2>0, <2>1, <2>2, <2>4 DEF SpentBy
  <2> QED
    BY <2>3, <2>4
<1>5. SpentIn(cfg)'
  BY <1>1, <1>4 DEF CodesInv, SpentIn
<1>6. SpentIn(save.prev)' /\ save'.prev.key # pending'
  BY <1>1 DEF CodesInv, SpentIn
<1> QED
  BY <1>1, <1>3, <1>5, <1>6 DEF CodesInv, OnceStep

\* A code once marked is the same code.
LEMMA CodeMarked ==
  ASSUME CodesTyped, NEW x \in codes, NEW b \in BOOLEAN, NEW z, z = [x EXCEPT !.lost = b]
  PROVE  /\ z \in [key : 1 .. drawn, step : Steps, browser : BOOLEAN, lost : BOOLEAN]
         /\ z.key = x.key /\ z.step = x.step /\ z.browser = x.browser /\ (z.lost <=> b)
         /\ x.lost \in BOOLEAN /\ x.key \in 1 .. drawn
BY DEF CodesTyped

LEMMA CodesEnrollEnds ==
  ASSUME PanelTyped, CodesInv, EnrollEnds
  PROVE  CodesInv' /\ OnceStep
<1>1. save.by = "enroll" /\ save'.by = "none" /\ On' /\ twice' = twice /\ drawn' = drawn
  BY NotSavingTyped DEF EnrollEnds, Ended, NotSaving, On
<1>2. CASE pending' = 0 /\ UNCHANGED <<cfg, codes>>
  BY <1>1, <1>2 DEF CodesInv, CodesTyped, SpentIn, OnceStep
<1>3. CASE /\ cfg' = [cfg EXCEPT !.key = save.prev.key, !.dev = save.prev.dev, !.brow = save.prev.brow]
           /\ codes' = {[x EXCEPT !.lost = @ \/ x.key = pending] : x \in codes} /\ pending' = pending
  <2>1. cfg'.key = save.prev.key /\ cfg'.dev = save.prev.dev /\ cfg'.brow = save.prev.brow
    BY <1>3, Bounded DEF Configs
  <2>2. ASSUME NEW z \in codes'
        PROVE  /\ z \in [key : 1 .. drawn, step : Steps, browser : BOOLEAN, lost : BOOLEAN]
               /\ z.key = save.prev.key => z.lost \/ SpentBy(z, save.prev)
               /\ z.lost \/ z.key # pending
    <3>1. PICK x \in codes : z = [x EXCEPT !.lost = x.lost \/ x.key = pending]
      BY <1>3
    <3>2. /\ z \in [key : 1 .. drawn, step : Steps, browser : BOOLEAN, lost : BOOLEAN]
          /\ z.key = x.key /\ z.step = x.step /\ z.browser = x.browser
          /\ z.lost <=> (x.lost \/ x.key = pending)
      <4> DEFINE b == x.lost \/ x.key = pending
      <4>1. b \in BOOLEAN
        OBVIOUS
      <4>2. z = [x EXCEPT !.lost = b] /\ CodesTyped
        BY <3>1 DEF CodesInv
      <4>3. z.lost <=> b
        <5> HIDE DEF b
        <5> QED
          BY <4>1, <4>2, CodeMarked
      <4>4. /\ z \in [key : 1 .. drawn, step : Steps, browser : BOOLEAN, lost : BOOLEAN]
            /\ z.key = x.key /\ z.step = x.step /\ z.browser = x.browser
        <5> HIDE DEF b
        <5> QED
          BY <4>1, <4>2, CodeMarked
      <4> QED
        BY <4>3, <4>4
    <3>3. x.key = save.prev.key => x.lost \/ SpentBy(x, save.prev)
      BY <1>1 DEF CodesInv, SpentIn
    <3> QED
      BY <3>2, <3>3 DEF SpentBy
  <2>3. CodesTyped' /\ SpentIn(cfg)' /\ \A z \in codes' : z.lost \/ z.key # pending
    BY <1>1, <2>1, <2>2 DEF CodesTyped, SpentIn, SpentBy
  <2> QED
    BY <1>1, <1>3, <2>1, <2>3 DEF CodesInv, OnceStep
<1> QED
  BY <1>2, <1>3 DEF EnrollEnds

LEMMA CodesSigns ==
  ASSUME StoreInv, PanelTyped, CodesInv, Signs
  PROVE  CodesInv' /\ OnceStep
<1> USE DEF Request, storeVars, OnceStep
<1>0. /\ save.at = "idle" => save.by = "none"
      /\ drawn \in Nat
  BY Bounded DEF StoreInv, SaveRecord
<1>1. CASE TimePasses \/ ClockSet \/ SessionExpires \/ WaitEnds
  <2>1. /\ UNCHANGED <<cfg, save, codes, twice, drawn, pending>> /\ Stored' = Stored
    BY <1>1 DEF TimePasses, ClockSet, SessionExpires, WaitEnds, signVars, Stored
  <2> QED
    BY <1>0, <2>1, LedgerKept
<1>2. CASE SignInEnds \/ ReplaceKeyEnds
  <2>1. /\ UNCHANGED <<cfg, codes, twice>> /\ Stored' = Stored /\ drawn' \in {drawn, drawn + 1}
        /\ pending' \in {0, drawn + 1} /\ save.by \in {"login", "reset"} /\ On
    BY <1>2 DEF SignInEnds, ReplaceKeyEnds, Ended, Stored, On
  <2>2. save'.by = "none" /\ On'
    BY <1>2, NotSavingTyped DEF SignInEnds, ReplaceKeyEnds, NotSaving, On
  <2> QED
    BY <1>0, <2>1, <2>2, LedgerKept
<1>3. CASE EnrollEnds
  BY <1>3, CodesEnrollEnds
<1>4. ASSUME NEW c \in Clients, SignOut(c) \/ KeyPage(c) \/ NotConfirmed(c)
      PROVE  CodesInv' /\ OnceStep
  <2>1. /\ UNCHANGED <<cfg, save, codes, twice>> /\ Stored' = Stored /\ save.at = "idle"
        /\ drawn' \in {drawn, drawn + 1} /\ pending' \in {0, pending, drawn + 1}
    BY <1>4 DEF SignOut, KeyPage, DrawPending, NotConfirmed, Stored
  <2> QED
    BY <1>0, <2>1, LedgerKept DEF On
<1>5. ASSUME NEW c \in Clients, NEW code \in Steps, NEW b \in 1 .. MaxStep, SignIn(c, code, b)
      PROVE  CodesInv' /\ OnceStep
  <2>1. CASE UNCHANGED storeVars
    <3>1. /\ UNCHANGED <<cfg, save, codes, twice, drawn>> /\ Stored' = Stored /\ save.at = "idle" /\ pending' \in {0, pending}
      BY <1>5, <2>1, <1>0, Asks DEF SignIn, Stored
    <3> QED
      BY <1>0, <3>1, LedgerKept DEF On
  <2>2. CASE /\ CodeOk(cfg.key, code, b) /\ Accepted(cfg.key, code)
             /\ Save(Spend(cfg, code), "login", c) /\ pending' = pending /\ drawn' = drawn
    BY <1>0, <1>5, <2>2, CodeSpent, SpendTyped, Bounded, Asks DEF SignIn, On
  <2> QED
    BY <1>5, <2>1, <2>2 DEF SignIn
<1>6. ASSUME NEW c \in Clients, NEW code \in Steps, NEW b \in 1 .. MaxStep, Enroll(c, code, b)
      PROVE  CodesInv' /\ OnceStep
  <2>1. CASE EnsurePending /\ UNCHANGED <<storeVars, codes, twice>>
    <3>1. /\ UNCHANGED <<cfg, save, codes, twice>> /\ Stored' = Stored /\ save.at = "idle"
          /\ drawn' \in {drawn, drawn + 1} /\ pending' \in {pending, drawn + 1}
      BY <1>6, <2>1 DEF Enroll, EnsurePending, DrawPending, Stored
    <3> QED
      BY <1>0, <3>1, LedgerKept DEF On
  <2>2. CASE /\ CodeOk(pending, code, b) /\ Accepted(pending, code)
             /\ cfg' = [Spend(cfg, code) EXCEPT !.key = pending]
             /\ save' = [at |-> "open", by |-> "enroll", who |-> c, prev |-> cfg]
             /\ UNCHANGED <<pending, drawn>>
    <3>1. /\ cfg'.key = pending /\ cfg'.dev = Spend(cfg, code).dev /\ cfg'.brow = Spend(cfg, code).brow
      BY <2>2, SpendTyped, Bounded DEF Configs
    <3>2. save'.by = "enroll" /\ save'.prev = cfg /\ On' /\ save.at = "idle"
      BY <1>6, <2>2 DEF Enroll, On
    <3> QED
      BY <1>0, <2>2, <3>1, <3>2, CodeEnrolls DEF CodeOk
  <2> QED
    BY <1>6, <2>1, <2>2 DEF Enroll
<1>7. ASSUME NEW c \in Clients, NEW code \in Steps, NEW b \in 1 .. MaxStep, ReplaceKey(c, code, b)
      PROVE  CodesInv' /\ OnceStep
  BY <1>0, <1>7, CodeSpent, SpendTyped, Bounded, Asks DEF ReplaceKey, On
<1>8. ASSUME NEW c \in Clients, NEW code \in Steps, NEW b \in 1 .. MaxStep, NEW p \in Passwords, SetPassword(c, p, code, b)
      PROVE  CodesInv' /\ OnceStep
  <2>0. /\ [Spend(cfg, code) EXCEPT !.pw = p].key = cfg.key
        /\ [Spend(cfg, code) EXCEPT !.pw = p].dev = Spend(cfg, code).dev
        /\ [Spend(cfg, code) EXCEPT !.pw = p].brow = Spend(cfg, code).brow
        /\ [cfg EXCEPT !.pw = p].key = cfg.key
        /\ [cfg EXCEPT !.pw = p].dev = cfg.dev
        /\ [cfg EXCEPT !.pw = p].brow = cfg.brow
        /\ Spend(cfg, code).key = cfg.key
    BY SpendTyped, Bounded DEF Configs
  <2>1. save.at = "idle" /\ Stored' = Stored /\ UNCHANGED <<pending, drawn>>
    BY <1>8 DEF SetPassword, Stored
  <2>2. CASE /\ CodeOk(cfg.key, code, b) /\ Accepted(cfg.key, code)
             /\ Save([Spend(cfg, code) EXCEPT !.pw = p], "password", c)
    <3>1. /\ save'.by = "password" /\ On' /\ cfg'.key = cfg.key
          /\ cfg'.dev = Spend(cfg, code).dev /\ cfg'.brow = Spend(cfg, code).brow
      BY <2>0, <2>2, Asks DEF On
    <3> QED
      BY <1>0, <2>1, <2>2, <3>1, CodeSpent
  <2>3. CASE CodeOk(cfg.key, code, b) /\ Accepted(cfg.key, code) /\ cfg' = Spend(cfg, code) /\ UNCHANGED save
    BY <1>0, <2>0, <2>1, <2>3, CodeSpent DEF On
  <2>4. CASE Save([cfg EXCEPT !.pw = p], "password", c) /\ UNCHANGED <<codes, twice>>
    <3>1. /\ save'.by = "password" /\ On' /\ cfg'.key = cfg.key
          /\ cfg'.dev = cfg.dev /\ cfg'.brow = cfg.brow
      BY <2>0, <2>4, Asks DEF On
    <3> QED
      BY <1>0, <2>1, <2>4, <3>1, LedgerKept
  <2> QED
    BY <1>8, <2>2, <2>3, <2>4 DEF SetPassword
<1> QED
  BY <1>1, <1>2, <1>3, <1>4, <1>5, <1>6, <1>7, <1>8 DEF Signs

LEMMA CodesForms ==
  ASSUME StoreInv, PanelTyped, CodesInv, Forms
  PROVE  CodesInv' /\ OnceStep
<1> USE DEF Request, OnceStep, panelVars, signVars, OnlyFlash
<1>0. /\ save.at = "idle" => save.by = "none"
      /\ drawn \in Nat
  BY Bounded DEF StoreInv, SaveRecord
<1>1. Stored' = Stored
  BY FormsLeaveCloudflare DEF CloudflareAlone, Stored
<1>2. CASE FormEnds \/ WifiEnds \/ PasswordEnds
  <2>1. /\ UNCHANGED <<cfg, codes, twice, drawn>> /\ pending' \in {0, pending}
        /\ save.by # "enroll" /\ On
    BY <1>2 DEF FormEnds, WifiEnds, PasswordEnds, SetPasswordEnds, Ended, On, FormNames
  <2>2. save'.by = "none" /\ On'
    BY <1>2, NotSavingTyped DEF FormEnds, WifiEnds, PasswordEnds, SetPasswordEnds, GiveUp, NotSaving, On
  <2> QED
    BY <1>0, <1>1, <2>1, <2>2, LedgerKept
<1>3. ASSUME NEW c \in Clients, ConfigSave(c) \/ MqttSave(c) \/ IotSave(c) \/ AutoSave(c) \/ NtfySave(c)
      PROVE  CodesInv' /\ OnceStep
  <2>1. ASSUME NEW f \in FormNames, Form(c, f)
        PROVE  /\ save.at = "idle" /\ UNCHANGED <<codes, twice, drawn, pending>>
               /\ cfg'.key = cfg.key /\ cfg'.dev = cfg.dev /\ cfg'.brow = cfg.brow
               /\ save'.by = f /\ save'.at = "open"
    <3>1. Toggled(f).key = cfg.key /\ Toggled(f).dev = cfg.dev /\ Toggled(f).brow = cfg.brow
      BY Bounded DEF Toggled, Configs
    <3> QED
      BY <2>1, <3>1, Asks DEF Form
  <2>2. NtfySave(c) => /\ save.at = "idle" /\ UNCHANGED <<codes, twice, drawn, pending>>
                       /\ cfg'.key = cfg.key /\ cfg'.dev = cfg.dev /\ cfg'.brow = cfg.brow
                       /\ save'.by = "topic" /\ save'.at = "open"
    BY Bounded DEF NtfySave, Configs
  <2>3. /\ save.at = "idle" /\ UNCHANGED <<codes, twice, drawn, pending>>
        /\ cfg'.key = cfg.key /\ cfg'.dev = cfg.dev /\ cfg'.brow = cfg.brow
        /\ save'.by \in FormNames /\ save'.at = "open"
    BY <1>3, <2>1, <2>2 DEF ConfigSave, MqttSave, IotSave, AutoSave, FormNames
  <2> QED
    BY <1>0, <1>1, <2>3, LedgerKept DEF FormNames, On
<1>4. ASSUME NEW c \in Clients, NEW p \in Passwords, WifiSave(c, p)
      PROVE  CodesInv' /\ OnceStep
  <2>1. /\ save.at = "idle" /\ UNCHANGED <<codes, twice, drawn, pending>>
        /\ cfg'.key = cfg.key /\ cfg'.dev = cfg.dev /\ cfg'.brow = cfg.brow
        /\ save'.by = "wifi" /\ save'.at = "open"
    BY <1>4, Bounded DEF WifiSave, Save, Configs
  <2> QED
    BY <1>0, <1>1, <2>1, LedgerKept DEF On
<1>5. ASSUME NEW c \in Clients, NEW code \in Steps, NEW b \in 1 .. MaxStep, ClearIot(c, code, b)
      PROVE  CodesInv' /\ OnceStep
  <2>1. save.at = "idle" /\ UNCHANGED <<drawn, pending>>
    BY <1>5 DEF ClearIot
  <2>2. CASE Save(Toggled("iot"), "iot", c) /\ UNCHANGED <<codes, twice>>
    <3>1. Toggled("iot").key = cfg.key /\ Toggled("iot").dev = cfg.dev /\ Toggled("iot").brow = cfg.brow
      BY Bounded DEF Toggled, Configs
    <3> QED
      BY <1>0, <1>1, <2>1, <2>2, <3>1, LedgerKept, Asks DEF On
  <2>3. CASE /\ CodeOk(cfg.key, code, b) /\ Accepted(cfg.key, code)
             /\ Save([Spend(cfg, code) EXCEPT !.forms = @ \ {"iot"}], "iot", c)
    <3> DEFINE conf == [Spend(cfg, code) EXCEPT !.forms = @ \ {"iot"}]
    <3>1. conf.key = cfg.key /\ conf.dev = Spend(cfg, code).dev /\ conf.brow = Spend(cfg, code).brow
      BY SpendTyped, Bounded DEF Configs
    <3>2. /\ save'.by = "iot" /\ On' /\ cfg'.key = cfg.key
          /\ cfg'.dev = Spend(cfg, code).dev /\ cfg'.brow = Spend(cfg, code).brow
      BY <2>3, <3>1, Asks DEF On
    <3> QED
      BY <1>0, <2>1, <2>3, <3>2, CodeSpent
  <2> QED
    BY <1>5, <2>2, <2>3 DEF ClearIot
<1> QED
  BY <1>2, <1>3, <1>4, <1>5 DEF Forms

LEMMA CodesStep ==
  ASSUME StoreInv, PanelTyped, CodesInv, [Next]_vars
  PROVE  CodesInv' /\ OnceStep
<1>0. drawn \in Nat
  BY Bounded
<1>1. CASE Starts
  <2>1. /\ cfg' = Stored /\ save'.by \in {"none", "boot"} /\ On' /\ ~On
        /\ UNCHANGED <<pending, drawn, codes, twice>>
    BY <1>1 DEF Starts, Boot, NotSaving, panelVars, signVars, On
  <2> QED
    BY <2>1 DEF CodesInv, CodesTyped, SpentIn, OnceStep
<1>2. CASE PowerFails
  <2>1. /\ cfg' = Defaults /\ save'.by = "none" /\ ~On' /\ pending' = 0 /\ Stored' = Stored
        /\ codes' = {[x EXCEPT !.lost = @ \/ ~SpentBy(x, Stored)] : x \in {y \in codes : y.key = Stored.key}}
        /\ twice' = twice /\ drawn' = drawn
    BY <1>2 DEF PowerFails, PowerCut, PowerOff, NotSaving, PanelOff, On, Stored
  <2>2. ASSUME NEW z \in codes'
        PROVE  /\ z \in [key : 1 .. drawn, step : Steps, browser : BOOLEAN, lost : BOOLEAN]
               /\ z.lost \/ SpentBy(z, Stored)
    <3>1. PICK x \in codes : z = [x EXCEPT !.lost = x.lost \/ ~SpentBy(x, Stored)]
      BY <2>1
    <3>2. /\ z \in [key : 1 .. drawn, step : Steps, browser : BOOLEAN, lost : BOOLEAN]
          /\ z.key = x.key /\ z.step = x.step /\ z.browser = x.browser
          /\ z.lost <=> (x.lost \/ ~SpentBy(x, Stored))
      <4> DEFINE b == x.lost \/ ~SpentBy(x, Stored)
      <4>1. b \in BOOLEAN
        OBVIOUS
      <4>2. z = [x EXCEPT !.lost = b] /\ CodesTyped
        BY <3>1 DEF CodesInv
      <4>3. z.lost <=> b
        <5> HIDE DEF b
        <5> QED
          BY <4>1, <4>2, CodeMarked
      <4>4. /\ z \in [key : 1 .. drawn, step : Steps, browser : BOOLEAN, lost : BOOLEAN]
            /\ z.key = x.key /\ z.step = x.step /\ z.browser = x.browser
        <5> HIDE DEF b
        <5> QED
          BY <4>1, <4>2, CodeMarked
      <4> QED
        BY <4>3, <4>4
    <3> QED
      BY <3>2 DEF SpentBy
  <2>3. CodesTyped' /\ SpentIn(Stored)' /\ SpentIn(cfg)'
    <3>1. CodesTyped' /\ SpentIn(Stored)'
      BY <2>1, <2>2 DEF CodesTyped, SpentIn, SpentBy
    <3>2. \A z \in codes' : z.key # 0
      BY <1>0, <2>2
    <3> QED
      BY <2>1, <3>1, <3>2 DEF SpentIn, Defaults
  <2> QED
    BY <2>1, <2>2, <2>3 DEF CodesInv, OnceStep
<1>3. CASE Flash
  <2>1. CASE BootSaveEnds
    <3>1. /\ UNCHANGED <<cfg, codes, twice, drawn, pending>> /\ Stored' = Stored /\ save.by = "boot"
      BY <1>3, <2>1 DEF Flash, BootSaveEnds, Ended, panelVars, signVars, Stored
    <3>2. save'.by = "none" /\ On'
      BY <2>1, NotSavingTyped DEF BootSaveEnds, NotSaving, On
    <3> QED
      BY <1>0, <3>1, <3>2, LedgerKept DEF OnceStep
  <2>2. CASE Saves
    <3>1. SaveGoesOn
      BY <1>3, <2>2, SavesGoOn DEF Flash
    <3> QED
      BY <3>1 DEF SaveGoesOn, CodesInv, CodesTyped, SpentIn, On, OnceStep
  <2> QED
    BY <1>3, <2>1, <2>2 DEF Flash
<1>4. CASE Cloudflare
  <2>1. PanelAlone /\ Stored' = Stored
    BY <1>4, CloudflareLeavesPanel DEF PanelAlone, Stored
  <2>2. save' = save \/ (save.by # "enroll" /\ save'.by # "enroll" /\ On')
    BY <1>4, <2>1, CloudflareShape DEF PanelAlone, JobSteps, JobCalls, JobSaves, Handler, Elsewhere, On, StoreInv
  <2> QED
    BY <1>0, <2>1, <2>2, LedgerKept DEF PanelAlone, OnceStep
<1>5. CASE UNCHANGED vars
  BY <1>0, <1>5, LedgerKept DEF vars, storeVars, panelVars, signVars, Stored, OnceStep
<1> QED
  BY <1>1, <1>2, <1>3, <1>4, <1>5, CodesSigns, CodesForms DEF Next

\* A code is accepted once, over both clocks, restarts and replaced keys
\* (WebService.h:567-570, 591-604), but for one the device forgot it spent, and
\* one taken on a browser's clock that ran ahead of the device's.
THEOREM CodesWorkOnce == Spec => CodeWorksOnce
<1>1. StoreInv /\ PanelTyped /\ CodesInv /\ [Next]_vars => CodesInv'
  BY CodesStep
<1>2. StoreInv /\ PanelTyped /\ CodesInv /\ [Next]_vars
        => [\A x \in twice' \ twice : x.lost \/ (x.browser /\ synced /\ cfg.brow > now + 1)]_vars
  BY CodesStep DEF OnceStep
<1> QED
  BY <1>1, <1>2, CodesHold, StoreSound, PanelSound, PTL DEF Spec, CodeWorksOnce


=============================================================================
