--------------------------------- MODULE Panel ---------------------------------
(* The panel: its forms, its sign-in (PanelSessions) and the Cloudflare jobs   *)
(* it queues (CloudflareJobs) over one configuration store (ConfigStore), with *)
(* a power cut between any two steps.                                          *)
EXTENDS CloudflareJobs

CONSTANTS Devices   \* the devices looked at: their first file, what happens to them, how often

FormNames == {"names", "topic", "broker", "iot", "auto"}

Configs == [pw : Passwords \cup {0}, key : Nat, dev : Steps \cup {0}, brow : Steps \cup {0},
            forms : SUBSET FormNames, wifi : BOOLEAN, tok : BOOLEAN, rec : BOOLEAN,
            relay : BOOLEAN, sec : Nat, ver : Nat]

FileVersions == {"missing", "broken", "v1", "plain", "v3", "newer"}

ASSUME DevicesAssumption == \A d \in Devices : d.file \in [v : FileVersions, cfg : Configs]

VARIABLES live,    \* the forms whose changed value their service runs with
          stale    \* ghost: the forms whose last save failed

vars == <<storeVars, panelVars, jobVars, live, stale>>

Init ==
    /\ \E d \in Devices : StoreInit(d.file) /\ PanelInit(d.file.cfg.key, d)
    /\ JobsInit
    /\ live = {} /\ stale = {}

----------------------------------------------------------------------------
\* The forms. A refused form changes nothing; an accepted one changes the
\* configuration in RAM, saves it, and then tells its service.

Toggled(f) == [cfg EXCEPT !.forms = IF f \in @ THEN @ \ {f} ELSE @ \cup {f}]

Form(c, f) ==
    /\ "forms" \in uses /\ Request /\ Guard(c)
    /\ Save(Toggled(f), f, c)
    /\ UNCHANGED <<file, tmp, copy, cuts, trouble, signVars, timeVars, drawn, jobVars, stale>>

ConfigSave(c) == Form(c, "names") /\ UNCHANGED live
MqttSave(c) == Form(c, "broker") /\ UNCHANGED live
IotSave(c) == Form(c, "iot") /\ UNCHANGED live

\* The same form may be sent again; whether it moved is asked before the copy.
NtfySave(c) ==
    /\ "forms" \in uses /\ Request /\ Guard(c)
    /\ \E forms \in {cfg.forms \cup {"topic"}, cfg.forms \ {"topic"}} : cfg' = [cfg EXCEPT !.forms = forms]
    /\ save' = [at |-> "open", by |-> "topic", who |-> c, prev |-> cfg]
    /\ UNCHANGED <<file, tmp, copy, cuts, trouble, signVars, timeVars, drawn, jobVars, live, stale>>

\* The update service is told before the save.
AutoSave(c) ==
    /\ Form(c, "auto")
    /\ live' = IF "auto" \in cfg'.forms THEN live \cup {"auto"} ELSE live \ {"auto"}

\* Sensor, actuator and rule go; with a password set, it and a code are asked for.
ClearIot(c, code, b) ==
    /\ "forms" \in uses /\ Request /\ Guard(c) /\ "iot" \in cfg.forms
    /\ \/ cfg.pw = 0 /\ Save(Toggled("iot"), "iot", c) /\ UNCHANGED <<codes, twice>>
       \/ /\ cfg.pw # 0 /\ CodeOk(cfg.key, code, b) /\ Accepted(cfg.key, code)
          /\ Save([Spend(cfg, code) EXCEPT !.forms = @ \ {"iot"}], "iot", c)
    /\ UNCHANGED <<file, tmp, copy, cuts, trouble, session, pending, owner, tries, waits, mine, timeVars, drawn, jobVars, live, stale>>

\* The Wi-Fi form sets the panel's password when there is none.
WifiSave(c, p) ==
    /\ "forms" \in uses /\ Request /\ Guard(c)
    /\ Save([cfg EXCEPT !.wifi = TRUE, !.pw = IF @ = 0 THEN p ELSE @], "wifi", c)
    /\ UNCHANGED <<file, tmp, copy, cuts, trouble, signVars, timeVars, drawn, jobVars, live, stale>>

Told(f) == IF f \in cfg.forms THEN live \cup {f} ELSE live \ {f}

\* Mutant: it is asked after the copy.
NeverMoved(f) == f # "topic"
Moved(f) == f = "topic" => (f \in save.prev.forms) # (f \in cfg.forms)

\* The ntfy stream is not told of a form that succeeds the second time: what
\* the first one left in RAM did not move any more.
FormEnds ==
    /\ \E f \in FormNames :
          /\ Ended(f)
          /\ \/ ~Good /\ stale' = stale \cup {f} /\ UNCHANGED live
             \/ Good /\ Moved(f) /\ live' = Told(f) /\ stale' = stale \ {f}
             \/ Good /\ ~Moved(f) /\ UNCHANGED <<live, stale>>
    /\ GiveUp /\ OnlyFlash /\ UNCHANGED <<panelVars, jobVars>>

\* The Wi-Fi form restarts the device 2 s later: a power cut of its own.
WifiEnds ==
    /\ Ended("wifi") /\ OnlyFlash /\ GiveUp
    /\ stale' = IF Good THEN stale ELSE stale \cup {"password"}
    /\ UNCHANGED <<panelVars, jobVars, live>>

PasswordEnds ==
    /\ SetPasswordEnds
    /\ stale' = IF Good THEN stale \ {"password"} ELSE stale \cup {"password"}
    /\ UNCHANGED <<jobVars, live>>

----------------------------------------------------------------------------

Starts == Boot /\ live' = Stored.forms /\ stale' = {} /\ UNCHANGED <<panelVars, jobVars>>
PowerFails == PowerCut /\ PanelOff /\ JobsOff /\ live' = {} /\ stale' = {}
Flash == (Saves \/ BootSaveEnds) /\ UNCHANGED <<panelVars, jobVars, live, stale>>

Signs ==
    /\ \/ TimePasses \/ ClockSet \/ SessionExpires \/ WaitEnds
       \/ SignInEnds \/ EnrollEnds \/ ReplaceKeyEnds
       \/ \E c \in Clients :
             \/ SignOut(c) \/ KeyPage(c) \/ NotConfirmed(c)
             \/ \E code \in Steps, b \in 1 .. MaxStep :
                   \/ SignIn(c, code, b) \/ Enroll(c, code, b) \/ ReplaceKey(c, code, b)
                   \/ \E p \in Passwords : SetPassword(c, p, code, b)
    /\ UNCHANGED <<jobVars, live, stale>>

Forms ==
    \/ FormEnds \/ WifiEnds \/ PasswordEnds
    \/ \E c \in Clients :
          \/ ConfigSave(c) \/ NtfySave(c) \/ MqttSave(c) \/ IotSave(c) \/ AutoSave(c)
          \/ \E p \in Passwords : WifiSave(c, p)
          \/ \E code \in Steps, b \in 1 .. MaxStep : ClearIot(c, code, b)

Cloudflare ==
    /\ \/ Jobs \/ TokenSaved \/ OffEnds
       \/ \E c \in Clients : AskScan(c) \/ AskRecord(c) \/ AskDeploy(c) \/ RemoteOff(c) \/ ClearCloudflare(c)
    /\ UNCHANGED <<live, stale>>

Next == Starts \/ PowerFails \/ Flash \/ Signs \/ Forms \/ Cloudflare

Spec == Init /\ [][Next]_vars

----------------------------------------------------------------------------
\* Properties.

TypeOK ==
    /\ file.v \in FileVersions /\ tmp.v \in {"missing", "broken", "v3"}
    /\ copy \in {"none", "part", "whole"} /\ trouble \subseteq {"copy", "full"}
    /\ save.at \in {"off", "idle", "job", "backup", "copy", "open", "write", "rename", "done", "failed"}
    /\ cfg.pw \in Passwords \cup {0} /\ cfg.key \in 0 .. drawn /\ {cfg.dev, cfg.brow} \subseteq Steps \cup {0}
    /\ session \in [level : 0 .. 2, who : Clients \cup {"none"}] /\ pending \in 0 .. drawn
    /\ job \in {"none", "scan", "record", "deploy"}

Idle == save.at = "idle"
Full == "full" \in trouble

Copied == copy = "whole" \/ "copy" \in trouble

\* The store keeps its promise (StoredConfig) with the power failing between
\* any two steps of a save, of the migration, or of a handler: "A power cut in
\* the middle of the write keeps the previous config" (ConfigStore.h:110), and a
\* handler that changed RAM first never leaves half of its change in flash. And a
\* version 1 file leaves flash only once its copy is whole, or the flash refused
\* it: "the original file is kept in /config.v1.json and the new one is written"
\* (ConfigStore.h:17-19).
Kept == INSTANCE StoredConfig WITH on <- On, current <- cfg, stored <- Stored, full <- Full,
                                   first <- file.v = "v1", copied <- Copied
StoreIsAtomic == Kept!Spec

\* Settings apply as a whole (WebService.h:1194-1200, 1582-1594, 1713-1722,
\* 2055-2060): unless the form's own last save failed (or, with ntfy's, the one
\* before it was sent again unchanged), its service, the configuration in RAM and
\* the one in flash agree, whatever other saves, failures and restarts came between.
ServicesRunTheSaved ==
    \A f \in FormNames \ stale :
        Idle => /\ (f \in live) = (f \in cfg.forms)
                /\ Full \/ (f \in cfg.forms) = (f \in Stored.forms)

\* "Each code works once. [...] refused, also after a reboot" (SECURITY.md:
\* 111-113), over both clocks, replaced keys, saves and restarts (WebService.h:
\* 567-570, 591-604), as far as the code goes: that sentence has no exception,
\* and the code has two. A code the device forgot it spent works again: a restart
\* after its save failed, was cut off or never came, or an enrolment whose save
\* failed. And so does a code taken on the browser's clock, once the device's own
\* clock ignores a later entry that ran ahead of it.
CodeWorksOnce == [][\A x \in twice' \ twice : x.lost \/ (x.browser /\ synced /\ cfg.brow > now + 1)]_vars

\* The authenticator's key changes in RAM and in flash together (WebService.h:
\* 1893-1921): whatever save fails and wherever the power is cut, no handler
\* ends with the panel asking for another key than the stored one, and nobody
\* is signed in who has no key. The password differs only after its own save failed.
KeyKept ==
    Idle => /\ Full \/ cfg.key = Stored.key
            /\ session.level = 2 => cfg.key # 0
            /\ Full \/ cfg.pw = Stored.pw \/ "password" \in stale

\* "a device on the network that keeps guessing cannot hold the owner out"
\* (WebService.h:235-239): the address of the last sign-in waits only after
\* FreeFails mistakes of its own since.
OwnerHeldOutByItself == owner # "none" /\ Blocked(owner) => mine[owner] >= FreeFails

\* Find or create (CloudflareSetup.h:172-198): the record is made once, however
\* often it is asked for, also when the answer to its creation is lost.
OneRecord == cloud.records <= 1

\* "A Worker by that name must be a relay already, or not exist"
\* (CloudflareSetup.h:302): another one is never overwritten.
ForeignKept == [][cloud.worker = "foreign" => cloud'.worker = "foreign"]_vars

\* The device connects with the secret its Worker has (CloudflareSetup.h:318-
\* 332): they differ in flash only when a deploy did not end after the Worker
\* took a new one (its route or save failed, or the power was cut).
SecretsAgree == Stored.relay => Stored.sec = cloud.sec \/ torn

\* "Off: the device stops connecting; the Worker stays in the account"
\* (WebService.h:1627): it stays off, over updates and restarts, until the owner
\* turns it on again; only a deploy still queued when Off is pressed runs
\* after it all the same (CloudflareSetup.h:83).
OffStaysOff == Idle /\ ~wanted => ~cfg.relay

=============================================================================
