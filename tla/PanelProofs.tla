------------------------------ MODULE PanelProofs ------------------------------
(* Proofs about the panel, for any number of clients, passwords, keys, codes,  *)
(* secrets, requests and power cuts, on any device: its types, its forms, its  *)
(* keys and codes, its waits and its Cloudflare jobs.                          *)
(*                                                                             *)
(* A handler is cut in two by its save, and a power cut or a failed save may   *)
(* come in between. So each invariant says of whom the save that goes on is,   *)
(* and what holds meanwhile: save.prev for a handler that may take its change  *)
(* back, what is stored for the others.                                        *)
EXTENDS StoreProofs

Callers == Clients \cup {"none"}

ConfigsTyped ==
    /\ cfg \in Configs /\ save.prev \in Configs
    /\ file \in [v : FileVersions, cfg : Configs]
    /\ tmp \in [v : {"missing", "broken", "v3"}, cfg : Configs]

KeysDrawn ==
    /\ drawn \in Nat /\ pending \in 0 .. drawn
    /\ {cfg.key, save.prev.key, file.cfg.key, tmp.cfg.key} \subseteq 0 .. drawn

RestTyped ==
    /\ copy \in {"none", "part", "whole"} /\ trouble \subseteq {"copy", "full"}
    /\ session \in [level : 0 .. 2, who : Callers] /\ save.who \in Callers
    /\ job \in {"none", "scan", "record", "deploy"}
    /\ cloud \in [records : Nat, worker : {"none", "foreign", "relay"}, sec : Nat]

PanelTyped == ConfigsTyped /\ KeysDrawn /\ RestTyped

----------------------------------------------------------------------------
\* The operators on a configuration.

LEMMA DefaultsTyped == Defaults \in Configs
BY DEF Defaults, Configs

LEMMA SpendTyped ==
  ASSUME NEW c \in Configs, NEW code \in Steps
  PROVE  /\ Spend(c, code) \in Configs
         /\ Spend(c, code).key = c.key /\ Spend(c, code).pw = c.pw
         /\ Spend(c, code).forms = c.forms
         /\ Spend(c, code).relay = c.relay /\ Spend(c, code).sec = c.sec
         /\ Spend(c, code).dev = IF synced THEN code ELSE c.dev
         /\ Spend(c, code).brow = IF synced THEN c.brow ELSE code
BY DEF Spend, Configs

LEMMA ReadTyped ==
  ASSUME ConfigsTyped
  PROVE  Stored \in Configs
BY DefaultsTyped DEF ConfigsTyped, Stored, Read

LEMMA SessionTyped ==
  ASSUME NEW level \in 0 .. 2, NEW who \in Callers
  PROVE  [level |-> level, who |-> who] \in [level : 0 .. 2, who : Callers]
OBVIOUS

LEMMA NoOneTyped == NoOne \in [level : 0 .. 2, who : Callers]
<1>1. NoOne.level \in 0 .. 2 /\ NoOne.who \in Callers
  BY DEF NoOne, Callers
<1>2. NoOne = [level |-> NoOne.level, who |-> NoOne.who]
  BY DEF NoOne
<1> QED
  BY <1>1, <1>2

LEMMA StepsNat == ASSUME NEW code \in Steps PROVE code \in Nat
BY DEF Steps

----------------------------------------------------------------------------
\* Types.

LEMMA TypesHold ==
  ASSUME DevicesAssumption, Init
  PROVE  PanelTyped
<1> PICK d \in Devices : StoreInit(d.file) /\ PanelInit(d.file.cfg.key, d)
  BY DEF Init
<1>1. file = d.file /\ file \in [v : FileVersions, cfg : Configs]
  BY DEF StoreInit, DevicesAssumption
<1>2. save = [at |-> "off", by |-> "none", who |-> "none", prev |-> Defaults] /\ tmp = Missing /\ cfg = Defaults
  BY DEF StoreInit, PowerOff, NotSaving
<1>3. ConfigsTyped
  BY <1>1, <1>2, DefaultsTyped DEF ConfigsTyped, Missing
<1>4. drawn = file.cfg.key /\ pending = 0
  BY <1>1 DEF PanelInit
<1>5. KeysDrawn
  <2>1. cfg.key = 0 /\ save.prev.key = 0 /\ tmp.cfg.key = 0
    BY <1>2 DEF Missing, Defaults
  <2>2. file.cfg.key \in Nat
    BY <1>1 DEF Configs
  <2> QED
    BY <2>1, <2>2, <1>4 DEF KeysDrawn
<1>6. copy = "none" /\ trouble = {} /\ session = NoOne /\ job = "none"
  BY DEF StoreInit, PanelInit, Init, JobsInit
<1>7. cloud \in [records : Nat, worker : {"none", "foreign", "relay"}, sec : Nat]
  BY <1>3, ReadTyped DEF Init, JobsInit, Configs
<1>8. RestTyped
  <2>1. session \in [level : 0 .. 2, who : Callers] /\ save.who \in Callers
    BY <1>2, <1>6, NoOneTyped DEF Callers
  <2> QED
    BY <2>1, <1>6, <1>7 DEF RestTyped
<1> QED
  BY <1>3, <1>5, <1>8 DEF PanelTyped
\* What a handler leaves of its own: the configuration, whose save it is and the
\* keys; and of the panel's: the session, the job and the account.
KeysTyped ==
    /\ cfg' \in Configs /\ save'.prev \in Configs
    /\ drawn' \in Nat /\ drawn' >= drawn /\ pending' \in 0 .. drawn'
    /\ cfg'.key <= drawn' /\ save'.prev.key <= drawn'

HandlerTyped ==
    /\ UNCHANGED <<file, tmp, copy, trouble>>
    /\ session' \in [level : 0 .. 2, who : Callers] /\ save'.who \in Callers
    /\ job' \in {"none", "scan", "record", "deploy"}
    /\ cloud' \in [records : Nat, worker : {"none", "foreign", "relay"}, sec : Nat]

LEMMA Bounded ==
  ASSUME PanelTyped
  PROVE  /\ drawn \in Nat /\ pending \in Nat /\ pending <= drawn
         /\ cfg.key \in Nat /\ cfg.key <= drawn
         /\ save.prev.key \in Nat /\ save.prev.key <= drawn
         /\ cfg \in Configs /\ save.prev \in Configs
BY DEF PanelTyped, KeysDrawn, ConfigsTyped

LEMMA TypesFrom ==
  ASSUME PanelTyped, KeysTyped, HandlerTyped
  PROVE  PanelTyped'
<1>1. ConfigsTyped'
  BY DEF PanelTyped, ConfigsTyped, KeysTyped, HandlerTyped
<1>2. KeysDrawn'
  <2>1. cfg'.key \in Nat /\ save'.prev.key \in Nat
    BY DEF KeysTyped, Configs
  <2> QED
    BY <2>1 DEF PanelTyped, KeysDrawn, KeysTyped, HandlerTyped
<1>3. RestTyped'
  BY DEF PanelTyped, RestTyped, HandlerTyped
<1> QED
  BY <1>1, <1>2, <1>3 DEF PanelTyped

\* The handlers that begin with a configuration c of their own.
LEMMA KeysSaved ==
  ASSUME PanelTyped, NEW c \in Configs, NEW by, NEW who,
         c.key <= drawn, Save(c, by, who), UNCHANGED <<drawn, pending>>
  PROVE  KeysTyped
<1>1. cfg' = c /\ save'.prev = Defaults
  BY DEF Save
<1>2. Defaults.key = 0
  BY DEF Defaults
<1> QED
  BY <1>1, <1>2, DefaultsTyped DEF PanelTyped, KeysDrawn, KeysTyped

LEMMA KeysIdle ==
  ASSUME PanelTyped, save' = NotSaving \/ UNCHANGED save, UNCHANGED <<cfg, drawn, pending>>
  PROVE  KeysTyped
<1>1. NotSaving.prev = Defaults /\ Defaults.key = 0
  BY DEF NotSaving, Defaults
<1>2. cfg.key <= drawn /\ save.prev.key <= drawn
  BY DEF PanelTyped, KeysDrawn
<1> QED
  BY <1>1, <1>2, DefaultsTyped DEF PanelTyped, KeysDrawn, ConfigsTyped, KeysTyped

LEMMA NotSavingTyped ==
  /\ NotSaving.who \in Callers /\ NotSaving.by = "none" /\ NotSaving.at = "idle"
  /\ NotSaving.prev \in Configs /\ NotSaving.prev.key = 0
<1>1. NotSaving.prev = Defaults /\ Defaults.key = 0
  BY DEF NotSaving, Defaults
<1> QED
  BY <1>1, DefaultsTyped DEF NotSaving, Callers

LEMMA TypesSigns ==
  ASSUME PanelTyped, Signs
  PROVE  PanelTyped'
<1> SUFFICES KeysTyped /\ HandlerTyped
  BY TypesFrom
<1> USE DEF Request
<1>0. /\ job' = job /\ cloud' = cloud
      /\ Clients \subseteq Callers
      /\ \A c \in Clients, level \in 0 .. 2 : [level |-> level, who |-> c] \in [level : 0 .. 2, who : Callers]
      /\ \A level \in 0 .. 2 : [level |-> level, who |-> save.who] \in [level : 0 .. 2, who : Callers]
  BY SessionTyped DEF Signs, jobVars, Callers, PanelTyped, RestTyped
<1>1. CASE TimePasses \/ ClockSet \/ SessionExpires \/ WaitEnds
  <2>1. KeysTyped
    BY <1>1, KeysIdle DEF TimePasses, ClockSet, SessionExpires, WaitEnds, storeVars, signVars
  <2>2. HandlerTyped
    BY <1>0, <1>1, NoOneTyped
       DEF TimePasses, ClockSet, SessionExpires, WaitEnds, storeVars, signVars, PanelTyped, RestTyped, HandlerTyped
  <2> QED
    BY <2>1, <2>2
<1>2. CASE SignInEnds \/ ReplaceKeyEnds
  <2>1. /\ cfg' = cfg /\ drawn' \in {drawn, drawn + 1} /\ pending' \in {0, drawn'}
        /\ save'.prev \in Configs /\ save'.prev.key = 0
    BY <1>2, NotSavingTyped DEF SignInEnds, ReplaceKeyEnds
  <2>2. KeysTyped
    BY <2>1, Bounded DEF KeysTyped
  <2>3. session' \in [level : 0 .. 2, who : Callers]
    BY <1>0, <1>2 DEF SignInEnds, ReplaceKeyEnds
  <2>4. HandlerTyped
    BY <1>0, <1>2, <2>3, NotSavingTyped DEF SignInEnds, ReplaceKeyEnds, PanelTyped, RestTyped, HandlerTyped
  <2> QED
    BY <2>2, <2>4
<1>3. CASE EnrollEnds
  <2>1. /\ drawn' = drawn /\ pending' \in {0, pending}
        /\ save'.prev \in Configs /\ save'.prev.key = 0
    BY <1>3, NotSavingTyped DEF EnrollEnds
  <2>2. \/ cfg' = cfg
        \/ cfg' = [cfg EXCEPT !.key = save.prev.key, !.dev = save.prev.dev, !.brow = save.prev.brow]
    BY <1>3 DEF EnrollEnds
  <2>3. cfg' \in Configs /\ cfg'.key <= drawn
    <3>1. save.prev.dev \in Steps \cup {0} /\ save.prev.brow \in Steps \cup {0}
      BY Bounded DEF Configs
    <3>2. cfg' \in Configs
      BY <2>2, <3>1, Bounded DEF Configs
    <3>3. cfg'.key \in {cfg.key, save.prev.key}
      BY <2>2, Bounded DEF Configs
    <3> QED
      BY <3>2, <3>3, Bounded
  <2>4. KeysTyped
    BY <2>1, <2>3, Bounded DEF KeysTyped
  <2>5. session' \in [level : 0 .. 2, who : Callers]
    BY <1>0, <1>3 DEF EnrollEnds, PanelTyped, RestTyped
  <2>6. HandlerTyped
    BY <1>0, <1>3, <2>5, NotSavingTyped DEF EnrollEnds, PanelTyped, RestTyped, HandlerTyped
  <2> QED
    BY <2>4, <2>6
<1>4. ASSUME NEW c \in Clients, SignOut(c) \/ KeyPage(c) \/ NotConfirmed(c)
      PROVE  KeysTyped /\ HandlerTyped
  <2>1. KeysTyped
    BY <1>4 DEF SignOut, KeyPage, NotConfirmed, DrawPending, storeVars, PanelTyped, KeysDrawn, ConfigsTyped, KeysTyped
  <2>2. HandlerTyped
    BY <1>0, <1>4, NoOneTyped DEF SignOut, KeyPage, NotConfirmed, storeVars, PanelTyped, RestTyped, HandlerTyped
  <2> QED
    BY <2>1, <2>2
<1>5. ASSUME NEW c \in Clients, NEW code \in Steps, NEW b \in 1 .. MaxStep, SignIn(c, code, b)
      PROVE  KeysTyped /\ HandlerTyped
  <2>1. CASE Save(Spend(cfg, code), "login", c) /\ UNCHANGED <<session, pending, file, tmp, copy, cuts, trouble, drawn>>
    <3>1. Spend(cfg, code) \in Configs /\ Spend(cfg, code).key <= drawn
      BY SpendTyped DEF PanelTyped, ConfigsTyped, KeysDrawn
    <3> QED
      BY <1>0, <2>1, <3>1, KeysSaved DEF Save, PanelTyped, RestTyped, HandlerTyped
  <2>2. CASE UNCHANGED <<storeVars, drawn>> /\ pending' \in {0, pending} /\ session' \in {session, [level |-> 1, who |-> c]}
    BY <1>0, <2>2 DEF storeVars, PanelTyped, RestTyped, KeysDrawn, ConfigsTyped, KeysTyped, HandlerTyped
  <2> QED
    BY <1>5, <2>1, <2>2 DEF SignIn
<1>6. ASSUME NEW c \in Clients, NEW code \in Steps, NEW b \in 1 .. MaxStep, Enroll(c, code, b)
      PROVE  KeysTyped /\ HandlerTyped
  <2>1. CASE EnsurePending /\ UNCHANGED <<storeVars, session>>
    BY <1>0, <2>1 DEF EnsurePending, DrawPending, storeVars, PanelTyped, RestTyped, KeysDrawn, ConfigsTyped, KeysTyped, HandlerTyped
  <2>2. CASE /\ cfg' = [Spend(cfg, code) EXCEPT !.key = pending]
             /\ save' = [at |-> "open", by |-> "enroll", who |-> c, prev |-> cfg]
             /\ UNCHANGED <<file, tmp, copy, trouble, pending, drawn, session>>
    <3>1. cfg' \in Configs /\ cfg'.key = pending
      BY <2>2, SpendTyped DEF PanelTyped, ConfigsTyped, KeysDrawn, Configs
    <3>2. KeysTyped
      BY <2>2, <3>1 DEF PanelTyped, ConfigsTyped, KeysDrawn, KeysTyped
    <3>3. HandlerTyped
      BY <1>0, <2>2 DEF PanelTyped, RestTyped, HandlerTyped
    <3> QED
      BY <3>2, <3>3
  <2> QED
    BY <1>6, <2>1, <2>2 DEF Enroll
<1>7. ASSUME NEW c \in Clients, NEW code \in Steps, NEW b \in 1 .. MaxStep, ReplaceKey(c, code, b)
      PROVE  KeysTyped /\ HandlerTyped
  <2>1. Spend(cfg, code) \in Configs /\ Spend(cfg, code).key <= drawn
    BY SpendTyped DEF PanelTyped, ConfigsTyped, KeysDrawn
  <2> QED
    BY <1>0, <1>7, <2>1, KeysSaved DEF ReplaceKey, Save, PanelTyped, RestTyped, HandlerTyped
<1>8. ASSUME NEW c \in Clients, NEW code \in Steps, NEW b \in 1 .. MaxStep, NEW p \in Passwords, SetPassword(c, p, code, b)
      PROVE  KeysTyped /\ HandlerTyped
  <2>1. /\ Spend(cfg, code) \in Configs /\ Spend(cfg, code).key <= drawn
        /\ [Spend(cfg, code) EXCEPT !.pw = p] \in Configs /\ [Spend(cfg, code) EXCEPT !.pw = p].key <= drawn
        /\ [cfg EXCEPT !.pw = p] \in Configs /\ [cfg EXCEPT !.pw = p].key <= drawn
    BY SpendTyped DEF PanelTyped, ConfigsTyped, KeysDrawn, Configs
  <2>2. KeysTyped
    <3>1. CASE cfg' = Spend(cfg, code) /\ UNCHANGED <<save, drawn, pending>>
      BY <2>1, <3>1 DEF PanelTyped, ConfigsTyped, KeysDrawn, KeysTyped
    <3>2. CASE /\ \/ Save([Spend(cfg, code) EXCEPT !.pw = p], "password", c)
                  \/ Save([cfg EXCEPT !.pw = p], "password", c)
               /\ UNCHANGED <<drawn, pending>>
      BY <2>1, <3>2, KeysSaved
    <3> QED
      BY <1>8, <3>1, <3>2 DEF SetPassword
  <2>3. save'.who \in Callers
    BY <1>0, <1>8 DEF SetPassword, Save, PanelTyped, RestTyped
  <2>4. HandlerTyped
    BY <1>0, <1>8, <2>3 DEF SetPassword, PanelTyped, RestTyped, HandlerTyped
  <2> QED
    BY <2>2, <2>4
<1> QED
  BY <1>1, <1>2, <1>3, <1>4, <1>5, <1>6, <1>7, <1>8 DEF Signs

LEMMA TypesForms ==
  ASSUME PanelTyped, Forms
  PROVE  PanelTyped'
<1> SUFFICES KeysTyped /\ HandlerTyped
  BY TypesFrom
<1>1. CASE FormEnds \/ WifiEnds
  <2>1. /\ UNCHANGED <<cfg, drawn, pending, file, tmp, copy, trouble, session, job, cloud>>
        /\ save' = NotSaving
    BY <1>1 DEF FormEnds, WifiEnds, GiveUp, OnlyFlash, panelVars, signVars, jobVars
  <2>2. save'.who \in Callers
    BY <2>1, NotSavingTyped
  <2> QED
    BY <2>1, <2>2, KeysIdle DEF PanelTyped, RestTyped, HandlerTyped
<1>2. CASE PasswordEnds
  <2>1. /\ UNCHANGED <<cfg, drawn, file, tmp, copy, trouble, job, cloud>>
        /\ pending' \in {0, pending} /\ session' \in {NoOne, session}
    BY <1>2 DEF PasswordEnds, SetPasswordEnds, jobVars
  <2>2. save'.who \in Callers /\ save'.prev \in Configs /\ save'.prev.key = 0
    BY <1>2, NotSavingTyped DEF PasswordEnds, SetPasswordEnds
  <2>3. KeysTyped
    BY <2>1, <2>2, Bounded DEF KeysTyped
  <2> QED
    BY <2>1, <2>2, <2>3, NoOneTyped DEF PanelTyped, RestTyped, HandlerTyped
<1>3. ASSUME NEW c \in Clients, NEW conf \in Configs, NEW by, conf.key <= drawn, Save(conf, by, c),
             UNCHANGED <<drawn, pending, file, tmp, copy, trouble, session, job, cloud>>
      PROVE  KeysTyped /\ HandlerTyped
  BY <1>3, KeysSaved DEF Save, Callers, PanelTyped, RestTyped, HandlerTyped
<1>4. ASSUME NEW f \in FormNames
      PROVE  Toggled(f) \in Configs /\ Toggled(f).key = cfg.key
  BY Bounded DEF Toggled, Configs
<1>5. ASSUME NEW c \in Clients, NEW f \in FormNames, Form(c, f)
      PROVE  KeysTyped /\ HandlerTyped
  BY <1>3, <1>4, <1>5, Bounded DEF Form, signVars, jobVars
<1>6. ASSUME NEW c \in Clients, NtfySave(c)
      PROVE  KeysTyped /\ HandlerTyped
  <2>1. PICK forms \in {cfg.forms \cup {"topic"}, cfg.forms \ {"topic"}} : cfg' = [cfg EXCEPT !.forms = forms]
    BY <1>6 DEF NtfySave
  <2>2. cfg' \in Configs /\ cfg'.key = cfg.key
    BY <2>1, Bounded DEF Configs, FormNames
  <2>3. save'.prev = cfg /\ save'.who = c /\ UNCHANGED <<drawn, pending, file, tmp, copy, trouble, session, job, cloud>>
    BY <1>6 DEF NtfySave, signVars, jobVars
  <2>4. KeysTyped
    BY <2>2, <2>3, Bounded DEF KeysTyped
  <2> QED
    BY <2>3, <2>4 DEF Callers, PanelTyped, RestTyped, HandlerTyped
<1>7. ASSUME NEW c \in Clients, NEW p \in Passwords, WifiSave(c, p)
      PROVE  KeysTyped /\ HandlerTyped
  <2> DEFINE conf == [cfg EXCEPT !.wifi = TRUE, !.pw = IF @ = 0 THEN p ELSE @]
  <2>1. conf \in Configs /\ conf.key = cfg.key
    BY Bounded DEF Configs
  <2>2. Save(conf, "wifi", c)
    BY <1>7 DEF WifiSave
  <2> HIDE DEF conf
  <2> QED
    BY <1>3, <1>7, <2>1, <2>2, Bounded DEF WifiSave, signVars, jobVars
<1>8. ASSUME NEW c \in Clients, NEW code \in Steps, NEW b \in 1 .. MaxStep, ClearIot(c, code, b)
      PROVE  KeysTyped /\ HandlerTyped
  <2> DEFINE conf == [Spend(cfg, code) EXCEPT !.forms = @ \ {"iot"}]
  <2>1. conf \in Configs /\ conf.key = cfg.key
    BY SpendTyped, Bounded DEF Configs
  <2>2. Save(conf, "iot", c) \/ Save(Toggled("iot"), "iot", c)
    BY <1>8 DEF ClearIot
  <2> HIDE DEF conf
  <2> QED
    BY <1>3, <1>4, <1>8, <2>1, <2>2, Bounded DEF ClearIot, jobVars, FormNames
<1> QED
  BY <1>1, <1>2, <1>5, <1>6, <1>7, <1>8
     DEF Forms, ConfigSave, MqttSave, IotSave, AutoSave, FormNames


LEMMA TypesCloudflare ==
  ASSUME JobsAssumption, PanelTyped, Cloudflare
  PROVE  PanelTyped'
<1> SUFFICES KeysTyped /\ HandlerTyped
  BY TypesFrom
<1> USE DEF OnlyFlash
<1>0. /\ session \in [level : 0 .. 2, who : Callers] /\ save.who \in Callers
      /\ job \in {"none", "scan", "record", "deploy"}
      /\ cloud \in [records : Nat, worker : {"none", "foreign", "relay"}, sec : Nat]
  BY DEF PanelTyped, RestTyped
<1>1. ASSUME NEW conf \in Configs, NEW by, NEW who \in Callers, conf.key <= drawn, Save(conf, by, who),
             UNCHANGED <<drawn, pending>>
      PROVE  KeysTyped /\ save'.who \in Callers
  BY <1>1, KeysSaved DEF Save
<1>2. ASSUME UNCHANGED <<cfg, drawn, pending>>,
             \/ UNCHANGED save
             \/ GiveUp
             \/ \E call : Await(call)
      PROVE  KeysTyped /\ save'.who \in Callers
  <2>1. CASE UNCHANGED save
    BY <1>0, <1>2, <2>1, KeysIdle
  <2>2. CASE GiveUp
    BY <1>2, <2>2, KeysIdle, NotSavingTyped DEF GiveUp
  <2>3. CASE \E call : Await(call)
    <3>1. save'.who \in Callers /\ save'.prev \in Configs /\ save'.prev.key = 0
      <4>1. save'.who = "none" /\ save'.prev = Defaults /\ Defaults.key = 0
        BY <2>3 DEF Await, NotSaving, Defaults
      <4>2. save'.who \in Callers
        BY <4>1 DEF Callers
      <4> QED
        BY <4>1, <4>2, DefaultsTyped
    <3> QED
      BY <1>2, <3>1, Bounded DEF KeysTyped
  <2> QED
    BY <1>2, <2>1, <2>2, <2>3
<1>3. ASSUME NEW rec \in BOOLEAN, NEW tok \in BOOLEAN, NEW relay \in BOOLEAN, NEW sec \in Nat, NEW ver \in Nat
      PROVE  /\ [cfg EXCEPT !.rec = rec] \in Configs /\ [cfg EXCEPT !.rec = rec].key = cfg.key
             /\ [cfg EXCEPT !.tok = tok] \in Configs /\ [cfg EXCEPT !.tok = tok].key = cfg.key
             /\ [cfg EXCEPT !.relay = relay, !.sec = sec, !.ver = ver] \in Configs
             /\ [cfg EXCEPT !.relay = relay, !.sec = sec, !.ver = ver].key = cfg.key
  <2>1. [cfg EXCEPT !.rec = rec] \in Configs /\ [cfg EXCEPT !.rec = rec].key = cfg.key
    BY Bounded DEF Configs
  <2>2. [cfg EXCEPT !.tok = tok] \in Configs /\ [cfg EXCEPT !.tok = tok].key = cfg.key
    BY Bounded DEF Configs
  <2>3. /\ [cfg EXCEPT !.relay = relay, !.sec = sec, !.ver = ver] \in Configs
        /\ [cfg EXCEPT !.relay = relay, !.sec = sec, !.ver = ver].key = cfg.key
    BY Bounded DEF Configs
  <2> QED
    BY <2>1, <2>2, <2>3
<1>4. RelayOff(cfg) \in Configs /\ RelayOff(cfg).key = cfg.key
  BY <1>3 DEF RelayOff
<1>5. /\ [RelayOff(cfg) EXCEPT !.tok = FALSE, !.rec = FALSE] \in Configs
      /\ [RelayOff(cfg) EXCEPT !.tok = FALSE, !.rec = FALSE].key = cfg.key
  BY <1>4 DEF Configs
<1>6. CASE Jobs
  <2>1. /\ UNCHANGED <<drawn, pending, session, file, tmp, copy, trouble>>
        /\ job' \in {job, "none", "deploy"}
    BY <1>6 DEF Jobs, Redeploy, Start, HourPasses, Scan, ZonesAnswer, Record, LookupAnswer, CreateAnswer, Deploy,
         SettingsAnswer, UploadAnswer, RouteAnswer, JobEnds, Takes, panelVars, signVars, jobVars, storeVars
  <2>2. ASSUME Redeploy \/ HourPasses \/ Scan \/ Record \/ Deploy \/ SettingsAnswer \/ UploadAnswer \/ JobEnds
        PROVE  KeysTyped /\ save'.who \in Callers
    <3>1. cfg' = cfg /\ (UNCHANGED save \/ GiveUp \/ \E call : Await(call))
      BY <2>2 DEF Redeploy, HourPasses, Scan, Record, Deploy, SettingsAnswer, UploadAnswer, JobEnds, storeVars
    <3> QED
      BY <1>2, <2>1, <3>1
  <2>3. ASSUME ZonesAnswer \/ LookupAnswer \/ CreateAnswer
        PROVE  KeysTyped /\ save'.who \in Callers
    <3>1. CASE \E conf \in {cfg, [cfg EXCEPT !.rec = TRUE]}, by \in {"scan", "record"}, who \in Callers : Save(conf, by, who)
      BY <1>1, <1>3, <2>1, <3>1, Bounded
    <3>2. CASE cfg' = cfg /\ (GiveUp \/ Await("create"))
      BY <1>2, <2>1, <3>2
    <3> QED
      BY <2>3, <3>1, <3>2 DEF ZonesAnswer, LookupAnswer, CreateAnswer, HasRecord, Callers
  <2>4. ASSUME RouteAnswer
        PROVE  KeysTyped /\ save'.who \in Callers
    <3> DEFINE conf == [cfg EXCEPT !.relay = TRUE, !.sec = cloud.sec, !.ver = RELAY_VERSION]
    <3>1. conf \in Configs /\ conf.key = cfg.key
      BY <1>0, <1>3 DEF RELAY_VERSION
    <3>2. (\E who \in Callers : Save(conf, "deploy", who)) \/ (cfg' = cfg /\ GiveUp)
      BY <2>4 DEF RouteAnswer, Callers
    <3> HIDE DEF conf
    <3> QED
      BY <1>1, <1>2, <2>1, <3>1, <3>2, Bounded
  <2>5. KeysTyped /\ save'.who \in Callers
    BY <1>6, <2>2, <2>3, <2>4 DEF Jobs
  <2>6. cloud' \in [records : Nat, worker : {"none", "foreign", "relay"}, sec : Nat]
    <3>1. \/ cloud' = cloud
          \/ cloud' = [cloud EXCEPT !.records = @ + 1]
          \/ cloud' = [cloud EXCEPT !.worker = "relay", !.sec = @ + 1]
      BY <1>6 DEF Jobs, Redeploy, HourPasses, Scan, ZonesAnswer, Record, LookupAnswer, CreateAnswer, Deploy,
           SettingsAnswer, UploadAnswer, RouteAnswer, JobEnds, jobVars
    <3>2. cloud.records + 1 \in Nat /\ cloud.sec + 1 \in Nat
      BY <1>0
    <3> QED
      BY <1>0, <3>1, <3>2
  <2> QED
    BY <1>0, <2>1, <2>5, <2>6 DEF HandlerTyped
<1>7. CASE TokenSaved \/ OffEnds
  <2>1. UNCHANGED <<cfg, drawn, pending, session, file, tmp, copy, trouble, cloud>> /\ save' = NotSaving /\ job' \in {job, "scan"}
    BY <1>7 DEF TokenSaved, OffEnds, Start, GiveUp, panelVars, signVars
  <2> QED
    BY <1>0, <1>2, <2>1 DEF HandlerTyped, GiveUp
<1>8. ASSUME NEW c \in Clients,
             AskScan(c) \/ AskRecord(c) \/ AskDeploy(c) \/ RemoteOff(c) \/ ClearCloudflare(c)
      PROVE  KeysTyped /\ HandlerTyped
  <2>1. /\ UNCHANGED <<drawn, pending, session, file, tmp, copy, trouble, cloud>>
        /\ job' \in {job, "scan", "record", "deploy"}
        /\ c \in Callers
    BY <1>8 DEF AskScan, AskRecord, AskDeploy, RemoteOff, ClearCloudflare, Unsigned, Start, signVars, jobVars, storeVars, Callers
  <2>2. KeysTyped /\ save'.who \in Callers
    BY <1>1, <1>2, <1>3, <1>4, <1>5, <1>8, <2>1, Bounded
       DEF AskScan, AskRecord, AskDeploy, RemoteOff, ClearCloudflare, storeVars
  <2> QED
    BY <1>0, <2>1, <2>2 DEF HandlerTyped
<1> QED
  BY <1>6, <1>7, <1>8 DEF Cloudflare


LEMMA TypesFlash ==
  ASSUME StoreInv, PanelTyped, Starts \/ PowerFails \/ Flash
  PROVE  PanelTyped'
<1>0. Stored \in Configs /\ Defaults \in Configs /\ Defaults.key = 0 /\ Stored.key \in {0, file.cfg.key}
  BY ReadTyped, DefaultsTyped DEF PanelTyped, Stored, Read, Defaults
<1>1. CASE Starts
  <2>1. /\ UNCHANGED <<file, tmp, copy, trouble, drawn, pending, session, job, cloud>> /\ cfg' = Stored
    BY <1>1 DEF Starts, Boot, panelVars, signVars, jobVars
  <2>2. save'.who = "none" /\ save'.prev = Defaults
    BY <1>1 DEF Starts, Boot, NotSaving
  <2>3. save'.who \in Callers
    BY <2>2 DEF Callers
  <2>4. ConfigsTyped'
    BY <1>0, <2>1, <2>2 DEF PanelTyped, ConfigsTyped
  <2>5. KeysDrawn'
    <3>1. cfg'.key \in {0, file.cfg.key} /\ save'.prev.key = 0
      BY <1>0, <2>1, <2>2
    <3> QED
      BY <2>1, <3>1 DEF PanelTyped, KeysDrawn
  <2> QED
    BY <2>1, <2>3, <2>4, <2>5 DEF PanelTyped, RestTyped
<1>2. CASE PowerFails
  <2>1. /\ UNCHANGED <<file, copy, trouble, drawn, cloud>> /\ cfg' = Defaults /\ tmp' = Missing
        /\ pending' = 0 /\ session' = NoOne /\ job' = "none"
    BY <1>2 DEF PowerFails, PowerCut, PanelOff, JobsOff
  <2>2. save'.who = "none" /\ save'.prev = Defaults
    BY <1>2 DEF PowerFails, PowerCut, PowerOff, NotSaving
  <2>3. save'.who \in Callers
    BY <2>2 DEF Callers
  <2>4. tmp'.cfg = Defaults /\ tmp' \in [v : {"missing", "broken", "v3"}, cfg : Configs]
    BY <1>0, <2>1 DEF Missing
  <2>5. ConfigsTyped'
    BY <1>0, <2>1, <2>2, <2>4 DEF PanelTyped, ConfigsTyped
  <2>6. KeysDrawn'
    <3>1. cfg'.key = 0 /\ save'.prev.key = 0 /\ tmp'.cfg.key = 0
      BY <1>0, <2>1, <2>2, <2>4
    <3> QED
      BY <2>1, <3>1 DEF PanelTyped, KeysDrawn
  <2> QED
    BY <2>1, <2>3, <2>5, <2>6, NoOneTyped DEF PanelTyped, RestTyped
<1>3. CASE Flash
  <2>1. UNCHANGED <<drawn, pending, session, job, cloud>>
    BY <1>3 DEF Flash, panelVars, signVars, jobVars
  <2>2. CASE BootSaveEnds
    <3>1. UNCHANGED <<cfg, file, tmp, copy, trouble>>
      BY <2>2 DEF BootSaveEnds
    <3>2. save'.who \in Callers /\ save'.prev \in Configs /\ save'.prev.key = 0
      BY <2>2, NotSavingTyped DEF BootSaveEnds
    <3> QED
      BY <2>1, <3>1, <3>2 DEF PanelTyped, ConfigsTyped, KeysDrawn, RestTyped
  <2>3. CASE Saves
    <3>1. cfg' = cfg /\ save'.who = save.who /\ save'.prev = save.prev
      BY <2>3 DEF Saves, BackupOpens, BackupWrites, SaveOpens, SaveWrites, SaveRenames, GoOn, StoreInv, SaveRecord
    <3>2. copy' \in {"none", "part", "whole"} /\ trouble' \subseteq {"copy", "full"}
      BY <2>3 DEF Saves, BackupOpens, BackupWrites, SaveOpens, SaveWrites, SaveRenames, PanelTyped, RestTyped
    <3>3. RestTyped'
      BY <2>1, <3>1, <3>2 DEF PanelTyped, RestTyped
    <3>4. CASE UNCHANGED <<file, tmp>>
      BY <2>1, <3>1, <3>3, <3>4 DEF PanelTyped, ConfigsTyped, KeysDrawn
    <3>5. CASE /\ \/ tmp' = Broken \/ tmp' = Missing \/ tmp' = [v |-> "v3", cfg |-> cfg]
               /\ file' \in {file, tmp}
      <4>1. /\ tmp'.cfg \in {Defaults, cfg}
            /\ tmp' \in [v : {"missing", "broken", "v3"}, cfg : Configs]
        BY <1>0, <3>5, Bounded DEF Missing, Broken
      <4>2. file' \in [v : FileVersions, cfg : Configs] /\ file'.cfg \in {file.cfg, tmp.cfg}
        BY <3>5 DEF PanelTyped, ConfigsTyped, FileVersions
      <4> QED
        BY <1>0, <2>1, <3>1, <3>3, <4>1, <4>2 DEF PanelTyped, ConfigsTyped, KeysDrawn
    <3> QED
      BY <2>3, <3>4, <3>5 DEF Saves, BackupOpens, BackupWrites, SaveOpens, SaveWrites, SaveRenames
  <2> QED
    BY <1>3, <2>2, <2>3 DEF Flash
<1> QED
  BY <1>1, <1>2, <1>3

LEMMA TypesStep ==
  ASSUME JobsAssumption, StoreInv, PanelTyped, [Next]_vars
  PROVE  PanelTyped'
<1>1. CASE UNCHANGED vars
  BY <1>1 DEF vars, storeVars, panelVars, signVars, jobVars, PanelTyped, ConfigsTyped, KeysDrawn, RestTyped
<1> QED
  BY <1>1, TypesSigns, TypesForms, TypesCloudflare, TypesFlash DEF Next

THEOREM PanelSound == Spec => []PanelTyped
BY TypesHold, TypesStep, StoreSound, DevicesAssumption, JobsAssumption, PTL DEF Spec

\* Every variable keeps its type, and no key is asked for that was not drawn.
THEOREM TypeCorrect == Spec => []TypeOK
<1>1. StoreInv /\ PanelTyped => TypeOK
  <2> SUFFICES ASSUME StoreInv, PanelTyped PROVE TypeOK
    OBVIOUS
  <2>1. /\ cfg.pw \in Passwords \cup {0} /\ {cfg.dev, cfg.brow} \subseteq Steps \cup {0}
        /\ cfg.key \in 0 .. drawn
    BY Bounded DEF Configs
  <2>2. save.at \in Phases
    BY DEF StoreInv, SaveRecord
  <2>3. file.v \in FileVersions /\ tmp.v \in {"missing", "broken", "v3"}
    BY DEF PanelTyped, ConfigsTyped
  <2> QED
    BY <2>1, <2>2, <2>3 DEF PanelTyped, KeysDrawn, RestTyped, TypeOK, Phases, Callers
<1> QED
  BY <1>1, PanelSound, StoreSound, PTL


----------------------------------------------------------------------------
\* What each part of the panel leaves alone.

JobCalls == {"zones", "lookup", "create", "settings", "upload", "route"}
JobSaves == {"scan", "record", "deploy", "token", "norecord", "off", "clear"}

\* The sign-in and the forms know nothing of Cloudflare.
CloudflareAlone ==
    /\ UNCHANGED <<job, cloud, torn, wanted, file, trouble>>
    /\ cfg'.relay = cfg.relay /\ cfg'.sec = cfg.sec
    /\ save'.by = save.by \/ save'.by \notin JobCalls \cup JobSaves

LEMMA SignsLeaveCloudflare ==
  ASSUME PanelTyped, Signs
  PROVE  CloudflareAlone
<1> USE DEF CloudflareAlone, JobCalls, JobSaves, jobVars, storeVars
<1>0. UNCHANGED jobVars
  BY DEF Signs
<1>1. CASE TimePasses \/ ClockSet \/ SessionExpires \/ WaitEnds
  BY <1>0, <1>1 DEF TimePasses, ClockSet, SessionExpires, WaitEnds
<1>2. CASE SignInEnds \/ ReplaceKeyEnds
  BY <1>0, <1>2, NotSavingTyped DEF SignInEnds, ReplaceKeyEnds
<1>3. CASE EnrollEnds
  <2>1. /\ UNCHANGED <<file, trouble>> /\ save' = NotSaving
        /\ \/ cfg' = cfg
           \/ cfg' = [cfg EXCEPT !.key = save.prev.key, !.dev = save.prev.dev, !.brow = save.prev.brow]
    BY <1>3 DEF EnrollEnds
  <2>2. cfg'.relay = cfg.relay /\ cfg'.sec = cfg.sec
    BY <2>1, Bounded DEF Configs
  <2> QED
    BY <1>0, <2>1, <2>2, NotSavingTyped
<1>4. ASSUME NEW c \in Clients, SignOut(c) \/ KeyPage(c) \/ NotConfirmed(c)
      PROVE  CloudflareAlone
  BY <1>0, <1>4 DEF SignOut, KeyPage, NotConfirmed
<1>5. ASSUME NEW c \in Clients, NEW code \in Steps, NEW b \in 1 .. MaxStep,
             SignIn(c, code, b) \/ Enroll(c, code, b) \/ ReplaceKey(c, code, b)
      PROVE  CloudflareAlone
  <2>1. /\ Spend(cfg, code).relay = cfg.relay /\ Spend(cfg, code).sec = cfg.sec
        /\ [Spend(cfg, code) EXCEPT !.key = pending].relay = cfg.relay
        /\ [Spend(cfg, code) EXCEPT !.key = pending].sec = cfg.sec
    BY SpendTyped, Bounded DEF Configs
  <2>2. CASE SignIn(c, code, b)
    <3>1. /\ cfg' \in {cfg, Spend(cfg, code)} /\ UNCHANGED <<file, trouble>>
          /\ save'.by \in {save.by, "login"}
      BY <2>2 DEF SignIn, Save
    <3> QED
      BY <1>0, <2>1, <3>1
  <2>3. CASE Enroll(c, code, b)
    <3>1. /\ cfg' \in {cfg, [Spend(cfg, code) EXCEPT !.key = pending]} /\ UNCHANGED <<file, trouble>>
          /\ save'.by \in {save.by, "enroll"}
      BY <2>3 DEF Enroll
    <3> QED
      BY <1>0, <2>1, <3>1
  <2>4. CASE ReplaceKey(c, code, b)
    BY <1>0, <2>1, <2>4 DEF ReplaceKey, Save
  <2> QED
    BY <1>5, <2>2, <2>3, <2>4
<1>6. ASSUME NEW c \in Clients, NEW code \in Steps, NEW b \in 1 .. MaxStep, NEW p \in Passwords, SetPassword(c, p, code, b)
      PROVE  CloudflareAlone
  <2>1. \A conf \in {Spend(cfg, code), [Spend(cfg, code) EXCEPT !.pw = p], [cfg EXCEPT !.pw = p]} :
           conf.relay = cfg.relay /\ conf.sec = cfg.sec
    BY SpendTyped, Bounded DEF Configs
  <2> QED
    <3>1. /\ cfg' \in {Spend(cfg, code), [Spend(cfg, code) EXCEPT !.pw = p], [cfg EXCEPT !.pw = p]}
          /\ UNCHANGED <<file, trouble>> /\ save'.by \in {save.by, "password"}
      BY <1>6 DEF SetPassword, Save
    <3> QED
      BY <1>0, <2>1, <3>1
<1> QED
  BY <1>1, <1>2, <1>3, <1>4, <1>5, <1>6 DEF Signs

LEMMA FormsLeaveCloudflare ==
  ASSUME PanelTyped, Forms
  PROVE  CloudflareAlone
<1> USE DEF CloudflareAlone, JobCalls, JobSaves, jobVars
<1>1. CASE FormEnds \/ WifiEnds \/ PasswordEnds
  BY <1>1, NotSavingTyped DEF FormEnds, WifiEnds, PasswordEnds, SetPasswordEnds, GiveUp, OnlyFlash
<1>2. ASSUME NEW c \in Clients, NEW f \in FormNames, Form(c, f)
      PROVE  CloudflareAlone
  <2>1. Toggled(f).relay = cfg.relay /\ Toggled(f).sec = cfg.sec
    BY Bounded DEF Toggled, Configs
  <2> QED
    BY <1>2, <2>1 DEF Form, Save, FormNames
<1>3. ASSUME NEW c \in Clients, NtfySave(c)
      PROVE  CloudflareAlone
  <2>1. cfg'.relay = cfg.relay /\ cfg'.sec = cfg.sec
    BY <1>3, Bounded DEF NtfySave, Configs
  <2> QED
    BY <1>3, <2>1 DEF NtfySave
<1>4. ASSUME NEW c \in Clients, NEW p \in Passwords, WifiSave(c, p)
      PROVE  CloudflareAlone
  <2>1. cfg'.relay = cfg.relay /\ cfg'.sec = cfg.sec
    BY <1>4, Bounded DEF WifiSave, Save, Configs
  <2> QED
    BY <1>4, <2>1 DEF WifiSave, Save
<1>5. ASSUME NEW c \in Clients, NEW code \in Steps, NEW b \in 1 .. MaxStep, ClearIot(c, code, b)
      PROVE  CloudflareAlone
  <2>1. \A conf \in {Toggled("iot"), [Spend(cfg, code) EXCEPT !.forms = @ \ {"iot"}]} :
           conf.relay = cfg.relay /\ conf.sec = cfg.sec
    BY SpendTyped, Bounded DEF Toggled, Configs
  <2> QED
    <3>1. /\ cfg' \in {Toggled("iot"), [Spend(cfg, code) EXCEPT !.forms = @ \ {"iot"}]}
          /\ UNCHANGED <<job, cloud, torn, wanted, file, trouble>> /\ save'.by = "iot"
      BY <1>5 DEF ClearIot, Save
    <3> QED
      BY <2>1, <3>1
<1> QED
  BY <1>1, <1>2, <1>3, <1>4, <1>5 DEF Forms, ConfigSave, MqttSave, IotSave, AutoSave, FormNames


\* Nor do starts, power cuts and saves: what is stored becomes what was in RAM.
FlashAlone ==
    /\ UNCHANGED <<cloud, torn, wanted>> /\ job' \in {job, "none"}
    /\ cfg' \in {cfg, Stored, Defaults} /\ Stored' \in {cfg, Stored, Defaults}
    /\ (save'.by = save.by /\ cfg' = cfg) \/ save'.by \in {"none", "boot"}

LEMMA FlashLeavesCloudflare ==
  ASSUME StoreInv, Starts \/ PowerFails \/ Flash
  PROVE  FlashAlone
<1>1. CASE Starts
  BY <1>1 DEF Starts, Boot, NotSaving, jobVars, Stored, FlashAlone
<1>2. CASE PowerFails
  BY <1>2 DEF PowerFails, PowerCut, JobsOff, PowerOff, NotSaving, Stored, FlashAlone
<1>3. CASE BootSaveEnds /\ Flash
  BY <1>3, NotSavingTyped DEF Flash, BootSaveEnds, jobVars, Stored, FlashAlone
<1>4. CASE Saves /\ Flash
  <2>1. cfg' = cfg /\ save'.by = save.by /\ UNCHANGED <<cloud, torn, wanted, job>>
    BY <1>4 DEF Flash, jobVars, Saves, BackupOpens, BackupWrites, SaveOpens, SaveWrites, SaveRenames, GoOn, StoreInv, SaveRecord
  <2>2. Stored' \in {cfg, Stored, Defaults}
    BY <1>4 DEF Saves, BackupOpens, BackupWrites, SaveOpens, SaveWrites, SaveRenames, GoOn, StoreInv, SaveRecord,
         Stored, Read, Broken
  <2> QED
    BY <2>1, <2>2 DEF FlashAlone
<1> QED
  BY <1>1, <1>2, <1>3, <1>4 DEF Flash

\* Whose save goes on, or which answer is awaited, after a step.
LEMMA Asks ==
  /\ GiveUp => save'.by = "none" /\ save'.at = "idle"
  /\ \A call : Await(call) => save'.by = call /\ save'.at = "job"
  /\ \A c, by, who : Save(c, by, who) => save'.by = by /\ save'.at = "open" /\ cfg' = c
<1>1. ASSUME GiveUp
      PROVE  save'.by = "none" /\ save'.at = "idle"
  BY <1>1 DEF GiveUp, NotSaving
<1>2. ASSUME NEW call, Await(call)
      PROVE  save'.by = call /\ save'.at = "job"
  BY <1>2 DEF Await, NotSaving
<1>3. ASSUME NEW c, NEW by, NEW who, Save(c, by, who)
      PROVE  save'.by = by /\ save'.at = "open" /\ cfg' = c
  BY <1>3 DEF Save
<1> QED
  BY <1>1, <1>2, <1>3

\* The steps of the jobs that neither change the account nor ask to.
Others ==
    \/ Redeploy \/ HourPasses \/ Scan \/ Record \/ Deploy \/ ZonesAnswer
    \/ RouteAnswer \/ JobEnds \/ TokenSaved \/ OffEnds
    \/ \E c \in Clients : AskScan(c) \/ AskRecord(c) \/ AskDeploy(c) \/ RemoteOff(c) \/ ClearCloudflare(c)

LEMMA OthersAsk ==
  ASSUME Others
  PROVE  cloud' = cloud /\ (save' = save \/ save'.by \notin {"create", "upload"})
<1> USE Asks DEF jobVars, storeVars, OnlyFlash
<1>1. CASE Redeploy \/ HourPasses
  BY <1>1 DEF Redeploy, HourPasses
<1>2. CASE Scan \/ ZonesAnswer
  BY <1>2 DEF Scan, ZonesAnswer
<1>3. CASE Record
  BY <1>3 DEF Record
<1>4. CASE Deploy
  BY <1>4 DEF Deploy
<1>5. CASE RouteAnswer
  BY <1>5 DEF RouteAnswer
<1>6. CASE JobEnds \/ OffEnds
  BY <1>6 DEF JobEnds, OffEnds
<1>7. CASE TokenSaved
  BY <1>7, NotSavingTyped DEF TokenSaved
<1>8. ASSUME NEW c \in Clients, AskScan(c)
      PROVE  cloud' = cloud /\ (save' = save \/ save'.by \notin {"create", "upload"})
  BY <1>8 DEF AskScan
<1>9. ASSUME NEW c \in Clients, AskRecord(c)
      PROVE  cloud' = cloud /\ (save' = save \/ save'.by \notin {"create", "upload"})
  BY <1>9 DEF AskRecord
<1>10. ASSUME NEW c \in Clients, AskDeploy(c) \/ RemoteOff(c) \/ ClearCloudflare(c)
       PROVE  cloud' = cloud /\ (save' = save \/ save'.by \notin {"create", "upload"})
  BY <1>10 DEF AskDeploy, RemoteOff, ClearCloudflare
<1> QED
  BY <1>1, <1>2, <1>3, <1>4, <1>5, <1>6, <1>7, <1>8, <1>9, <1>10 DEF Others

LEMMA CloudflareKeepsFile ==
  ASSUME Others \/ LookupAnswer \/ CreateAnswer \/ SettingsAnswer \/ UploadAnswer
  PROVE  UNCHANGED <<file, trouble>> /\ Stored' = Stored
BY DEF Others, Redeploy, HourPasses, Scan, ZonesAnswer, Record, LookupAnswer, CreateAnswer, Deploy,
     SettingsAnswer, UploadAnswer, RouteAnswer, JobEnds, TokenSaved, OffEnds, OnlyFlash, storeVars,
     AskScan, AskRecord, AskDeploy, RemoteOff, ClearCloudflare, Stored

----------------------------------------------------------------------------
\* The account: what an answer was asked for still holds when it comes.

AccountInv ==
    /\ cloud.records <= 1
    /\ save.by = "create" => cloud.records = 0
    /\ save.by = "upload" => cloud.worker # "foreign"

LEMMA AccountStep ==
  ASSUME StoreInv, PanelTyped, AccountInv, [Next]_vars
  PROVE  AccountInv' /\ (cloud.worker = "foreign" => cloud'.worker = "foreign")
<1> USE DEF AccountInv
<1>0. cloud \in [records : Nat, worker : {"none", "foreign", "relay"}, sec : Nat]
  BY DEF PanelTyped, RestTyped
<1>1. CASE Signs \/ Forms
  BY <1>1, SignsLeaveCloudflare, FormsLeaveCloudflare DEF CloudflareAlone, JobCalls
<1>2. CASE Starts \/ PowerFails \/ Flash
  BY <1>2, FlashLeavesCloudflare DEF FlashAlone
<1>3. CASE Cloudflare
  <2>1. ASSUME cloud' = cloud, save' = save \/ save'.by \notin {"create", "upload"}
        PROVE  AccountInv' /\ (cloud.worker = "foreign" => cloud'.worker = "foreign")
    BY <2>1
  <2>2. CASE Others
    BY <2>1, <2>2, OthersAsk
  <2>3. CASE LookupAnswer
    <3>1. cloud' = cloud /\ (save'.by = "create" => cloud.records = 0) /\ save'.by # "upload"
      BY <2>3, Asks DEF LookupAnswer, HasRecord, jobVars
    <3> QED
      BY <3>1
  <2>4. CASE CreateAnswer
    <3>1. cloud' = [cloud EXCEPT !.records = @ + 1] \/ cloud' = cloud
      BY <2>4 DEF CreateAnswer
    <3>2. cloud'.records <= 1 /\ cloud'.worker = cloud.worker
      BY <1>0, <2>4, <3>1 DEF CreateAnswer, Awaits
    <3>3. save'.by \notin {"create", "upload"}
      BY <2>4, Asks DEF CreateAnswer, HasRecord
    <3> QED
      BY <3>2, <3>3
  <2>5. CASE SettingsAnswer
    <3>1. cloud' = cloud /\ (save'.by = "upload" => cloud.worker # "foreign") /\ save'.by # "create"
      BY <2>5, Asks DEF SettingsAnswer, jobVars
    <3> QED
      BY <3>1
  <2>6. CASE UploadAnswer
    <3>1. cloud' = [cloud EXCEPT !.worker = "relay", !.sec = @ + 1] \/ cloud' = cloud
      BY <2>6 DEF UploadAnswer
    <3>2. cloud'.records = cloud.records /\ cloud.worker # "foreign"
      BY <1>0, <2>6, <3>1 DEF UploadAnswer, Awaits
    <3>3. save'.by \notin {"create", "upload"}
      BY <2>6, Asks DEF UploadAnswer
    <3> QED
      BY <3>2, <3>3
  <2> QED
    BY <1>3, <2>2, <2>3, <2>4, <2>5, <2>6 DEF Others, Cloudflare, Jobs
<1>4. CASE UNCHANGED vars
  BY <1>4 DEF vars, storeVars, jobVars
<1> QED
  BY <1>1, <1>2, <1>3, <1>4 DEF Next

LEMMA AccountHolds ==
  ASSUME DevicesAssumption, Init
  PROVE  AccountInv
<1>1. save.by \notin {"create", "upload"} /\ cloud.records = 0
  BY DEF Init, StoreInit, JobsInit, PowerOff, NotSaving
<1> QED
  BY <1>1 DEF AccountInv

\* The record is made once (CloudflareSetup.h:172-198), also when the answer to
\* its creation is lost and the job asked for again, over restarts and saves
\* that fail.
THEOREM RecordMadeOnce == Spec => []OneRecord
<1>1. AccountInv => OneRecord
  BY DEF AccountInv, OneRecord
<1> QED
  BY <1>1, AccountHolds, AccountStep, StoreSound, PanelSound, DevicesAssumption, PTL DEF Spec

\* A Worker that is not the relay is never overwritten (CloudflareSetup.h:302),
\* whatever happens between the question and the upload.
THEOREM ForeignSafe == Spec => ForeignKept
<1>1. StoreInv /\ PanelTyped /\ AccountInv /\ [Next]_vars
        => [cloud.worker = "foreign" => cloud'.worker = "foreign"]_vars
  BY AccountStep
<1>2. StoreInv /\ PanelTyped /\ AccountInv /\ [Next]_vars => AccountInv'
  BY AccountStep
<1> QED
  BY <1>1, <1>2, AccountHolds, StoreSound, PanelSound, DevicesAssumption, PTL DEF Spec, ForeignKept


----------------------------------------------------------------------------
\* The relay: its secret, and off.

DeployCalls == {"settings", "upload", "route", "deploy"}

Agrees(c) == c.relay => c.sec = cloud.sec \/ torn

RemoteInv ==
    /\ Agrees(cfg) /\ Agrees(Stored)
    /\ save.by = "deploy" => cfg.sec = cloud.sec
    /\ save.by \in {"off", "clear"} => ~cfg.relay
    /\ ~wanted => ~cfg.relay /\ ~Stored.relay /\ job # "deploy" /\ save.by \notin DeployCalls

LEMMA RemoteHolds ==
  ASSUME DevicesAssumption, Init
  PROVE  RemoteInv
<1>1. cfg = Defaults /\ save.by = "none" /\ ~cfg.relay
  BY DEF Init, StoreInit, PowerOff, NotSaving, Defaults
<1>2. cloud.sec = Stored.sec /\ job = "none" /\ wanted = Stored.relay
  BY DEF Init, JobsInit
<1> QED
  BY <1>1, <1>2 DEF RemoteInv, Agrees, DeployCalls

\* The steps that leave the relay alone: its switch and secret, and who asked.
RemoteAlone ==
    /\ cfg'.relay = cfg.relay /\ cfg'.sec = cfg.sec /\ Stored' = Stored
    /\ UNCHANGED <<torn, wanted>> /\ cloud'.sec = cloud.sec
    /\ job' = job \/ job' # "deploy"
    /\ save'.by = save.by \/ save'.by \notin DeployCalls \cup {"off", "clear"}

LEMMA RemoteLeft ==
  ASSUME RemoteInv, RemoteAlone
  PROVE  RemoteInv'
BY DEF RemoteInv, RemoteAlone, Agrees, DeployCalls

LEMMA ScansAndRecordsLeaveRemote ==
  ASSUME PanelTyped, Scan \/ ZonesAnswer \/ Record \/ LookupAnswer \/ CreateAnswer \/ TokenSaved \/ HourPasses
  PROVE  RemoteAlone
<1> USE Asks DEF RemoteAlone, DeployCalls, jobVars, storeVars, OnlyFlash
<1>0. Stored' = Stored
  BY CloudflareKeepsFile DEF Others
<1>9. HasRecord => save'.by = "record" /\ cfg'.relay = cfg.relay /\ cfg'.sec = cfg.sec
  <2>1. [cfg EXCEPT !.rec = TRUE].relay = cfg.relay /\ [cfg EXCEPT !.rec = TRUE].sec = cfg.sec
    BY Bounded DEF Configs
  <2> QED
    BY <2>1 DEF HasRecord
<1>1. CASE Scan
  BY <1>0, <1>1 DEF Scan, Takes
<1>2. CASE ZonesAnswer
  BY <1>0, <1>2 DEF ZonesAnswer
<1>3. CASE Record
  BY <1>0, <1>3 DEF Record, Takes
<1>4. CASE LookupAnswer
  BY <1>0, <1>4, <1>9 DEF LookupAnswer
<1>5. CASE CreateAnswer
  <2>1. cloud'.sec = cloud.sec
    BY <1>5 DEF CreateAnswer, PanelTyped, RestTyped
  <2> QED
    BY <1>0, <1>5, <1>9, <2>1 DEF CreateAnswer
<1>6. CASE TokenSaved
  BY <1>0, <1>6, NotSavingTyped DEF TokenSaved, Start
<1>7. CASE HourPasses
  BY <1>0, <1>7 DEF HourPasses
<1> QED
  BY <1>1, <1>2, <1>3, <1>4, <1>5, <1>6, <1>7

LEMMA RequestsOfRemote ==
  ASSUME PanelTyped, RemoteInv, NEW c \in Clients,
         AskScan(c) \/ AskRecord(c) \/ AskDeploy(c) \/ RemoteOff(c) \/ ClearCloudflare(c)
  PROVE  RemoteInv'
<1>0. Stored' = Stored
  BY CloudflareKeepsFile DEF Others
<1>1. \A conf \in {[cfg EXCEPT !.tok = TRUE], [cfg EXCEPT !.rec = FALSE]} : conf.relay = cfg.relay /\ conf.sec = cfg.sec
  BY Bounded DEF Configs
<1>2. \A conf \in {RelayOff(cfg), [RelayOff(cfg) EXCEPT !.tok = FALSE, !.rec = FALSE]} : ~conf.relay
  BY Bounded DEF Configs, RelayOff
<1>3. CASE AskScan(c)
  <2>1. /\ cfg' \in {cfg, [cfg EXCEPT !.tok = TRUE]} /\ save'.by \in {save.by, "token"}
        /\ UNCHANGED <<torn, wanted, cloud>> /\ job' \in {job, "scan", "record"}
    BY <1>3, Asks DEF AskScan, Start
  <2>2. RemoteAlone
    BY <1>0, <1>1, <2>1 DEF RemoteAlone, DeployCalls
  <2> QED
    BY <2>2, RemoteLeft
<1>4. CASE AskRecord(c)
  <2>1. /\ cfg' \in {cfg, [cfg EXCEPT !.rec = FALSE]} /\ save'.by \in {save.by, "norecord"}
        /\ UNCHANGED <<torn, wanted, cloud>> /\ job' \in {job, "scan", "record"}
    BY <1>4, Asks DEF AskRecord, Start
  <2>2. RemoteAlone
    BY <1>0, <1>1, <2>1 DEF RemoteAlone, DeployCalls
  <2> QED
    BY <2>2, RemoteLeft
<1>5. CASE AskDeploy(c)
  BY <1>0, <1>5 DEF AskDeploy, storeVars, RemoteInv, Agrees
<1>6. CASE RemoteOff(c)
  BY <1>0, <1>2, <1>6, Asks DEF RemoteOff, jobVars, RemoteInv, Agrees, DeployCalls
<1>7. CASE ClearCloudflare(c)
  <2>1. save'.by = "clear" /\ ~cfg'.relay /\ UNCHANGED <<job, cloud, torn, wanted>>
    BY <1>2, <1>7, Asks DEF ClearCloudflare, jobVars
  <2> QED
    BY <1>0, <2>1 DEF RemoteInv, Agrees, DeployCalls
<1> QED
  BY <1>3, <1>4, <1>5, <1>6, <1>7

LEMMA DeploysKeepRemote ==
  ASSUME StoreInv, PanelTyped, RemoteInv,
         Redeploy \/ Deploy \/ SettingsAnswer \/ UploadAnswer \/ RouteAnswer \/ JobEnds \/ OffEnds
  PROVE  RemoteInv'
<1> USE Asks DEF RemoteInv, Agrees, DeployCalls, jobVars, storeVars, OnlyFlash
<1>0. Stored' = Stored
  BY CloudflareKeepsFile DEF Others
<1>1. CASE Redeploy
  BY <1>0, <1>1 DEF Redeploy
<1>2. CASE Deploy
  BY <1>0, <1>2 DEF Deploy, Takes
<1>3. CASE SettingsAnswer
  BY <1>0, <1>3 DEF SettingsAnswer, Awaits
<1>4. CASE UploadAnswer
  BY <1>0, <1>4 DEF UploadAnswer, Awaits
<1>5. CASE RouteAnswer
  <2>1. [cfg EXCEPT !.relay = TRUE, !.sec = cloud.sec, !.ver = RELAY_VERSION].sec = cloud.sec
    BY Bounded DEF Configs
  <2> QED
    <3>1. /\ save.by = "route" /\ UNCHANGED <<job, cloud, torn, wanted>>
          /\ \/ save'.by = "deploy" /\ cfg'.sec = cloud.sec
             \/ save'.by = "none" /\ cfg' = cfg
      BY <1>5, <2>1 DEF RouteAnswer, Awaits
    <3> QED
      BY <1>0, <3>1
<1>6. CASE JobEnds
  <2>1. save.by = "deploy" /\ Good => Agrees(cfg)' /\ Agrees(Stored)' /\ cfg'.sec = cloud'.sec
    BY <1>0, <1>6 DEF JobEnds, Good, StoreInv, Defaults
  <2> QED
    BY <1>0, <1>6, <2>1 DEF JobEnds, Ended
<1>7. CASE OffEnds
  <2>1. save.by \in {"off", "clear"} /\ Good => ~Stored.relay
    BY <1>0, <1>7 DEF Good, StoreInv, Defaults
  <2> QED
    BY <1>0, <1>7, <2>1 DEF OffEnds, Ended
<1> QED
  BY <1>1, <1>2, <1>3, <1>4, <1>5, <1>6, <1>7

LEMMA RemoteStep ==
  ASSUME StoreInv, PanelTyped, RemoteInv, [Next]_vars
  PROVE  RemoteInv'
<1>1. CASE Signs \/ Forms
  <2>1. CloudflareAlone
    BY <1>1, SignsLeaveCloudflare, FormsLeaveCloudflare
  <2> QED
    BY <2>1, RemoteLeft DEF CloudflareAlone, RemoteAlone, Stored, JobCalls, JobSaves, DeployCalls
<1>2. CASE Starts \/ PowerFails \/ Flash
  <2>1. FlashAlone
    BY <1>2, FlashLeavesCloudflare
  <2> QED
    BY <2>1 DEF FlashAlone, RemoteInv, Agrees, DeployCalls, Defaults
<1>3. CASE Cloudflare
  BY <1>3, ScansAndRecordsLeaveRemote, RequestsOfRemote, DeploysKeepRemote, RemoteLeft DEF Cloudflare, Jobs
<1>4. CASE UNCHANGED vars
  BY <1>4 DEF vars, storeVars, jobVars, RemoteInv, Agrees, Stored
<1> QED
  BY <1>1, <1>2, <1>3, <1>4 DEF Next

LEMMA RemoteSound == Spec => []RemoteInv
BY RemoteHolds, RemoteStep, StoreSound, PanelSound, DevicesAssumption, PTL DEF Spec

\* The stored secret is the Worker's, but for a deploy that did not end
\* (CloudflareSetup.h:318-332), over every restart and failed save.
THEOREM SecretsMatch == Spec => []SecretsAgree
<1>1. RemoteInv => SecretsAgree
  BY DEF RemoteInv, Agrees, SecretsAgree
<1> QED
  BY <1>1, RemoteSound, PTL

\* Remote access turned off stays off (WebService.h:1627): nothing queued, asked
\* for or half saved turns it on again.
THEOREM OffForGood == Spec => []OffStaysOff
<1>1. RemoteInv => OffStaysOff
  BY DEF RemoteInv, OffStaysOff
<1> QED
  BY <1>1, RemoteSound, PTL


=============================================================================
