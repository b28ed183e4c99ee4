----------------------------- MODULE CloudflareJobs -----------------------------
(* The panel's Cloudflare jobs (CloudflareSetup.h): the zone list, the record  *)
(* of the dynamic DNS and the relay's Worker. A handler only queues a job; the *)
(* loop runs it later, one call after the other, with nothing else running,    *)
(* and a new one takes the place of one still queued. While its calls run,     *)
(* save.at is "job" and save.by the call whose answer is awaited.              *)
EXTENDS PanelSessions

CONSTANTS MaxSecrets   \* bound: secrets drawn for the Worker

ASSUME JobsAssumption == MaxSecrets \in Nat

VARIABLES job,      \* the job queued
          recent,   \* a redeploy within the hour
          zones,    \* the zone list in flash knows the zone
          cloud,    \* the account: records of the name, the Worker, its secret
          torn,     \* ghost: the Worker took a secret and its deploy did not end
          wanted    \* ghost: the owner's last word on remote access, or a deploy it left queued

jobVars == <<job, recent, zones, cloud, torn, wanted>>

RELAY_VERSION == 2

JobsInit ==
    /\ job = "none" /\ recent = FALSE /\ zones = Stored.tok
    /\ cloud \in [records : {0}, worker : {IF Stored.relay THEN "relay" ELSE w : w \in {"none", "foreign"}},
                  sec : {Stored.sec}]
    /\ torn = FALSE /\ wanted = Stored.relay

JobsOff == job' = "none" /\ recent' = FALSE /\ UNCHANGED <<zones, cloud, torn, wanted>>

Start(kind) == job' = kind

\* Mutant: the version alone is looked at, which Off sets to 0.
RedeployAnyway ==
    /\ save.at = "idle" /\ cfg.ver # RELAY_VERSION /\ job = "none" /\ ~recent
    /\ Start("deploy") /\ recent' = TRUE
    /\ UNCHANGED <<storeVars, panelVars, zones, cloud, torn, wanted>>

\* After a firmware update with another relay protocol: once an hour.
Redeploy ==
    /\ save.at = "idle" /\ cfg.relay /\ cfg.ver # RELAY_VERSION /\ job = "none" /\ ~recent
    /\ Start("deploy") /\ recent' = TRUE
    /\ UNCHANGED <<storeVars, panelVars, zones, cloud, torn, wanted>>

HourPasses == Input /\ recent /\ recent' = FALSE /\ UNCHANGED <<storeVars, signVars, timeVars, drawn, job, zones, cloud, torn, wanted>>

Await(call) == save' = [NotSaving EXCEPT !.at = "job", !.by = call]
Awaits(call) == save.at = "job" /\ save.by = call
GiveUp == save' = NotSaving
OnlyFlash == UNCHANGED <<cfg, file, tmp, copy, cuts, trouble>>

Takes(kind) == Request /\ synced /\ job = kind /\ job' = "none"

\* The list is emptied before the zones are asked for.
Scan ==
    /\ Takes("scan")
    /\ \/ zones' = FALSE /\ Await("zones")
       \/ GiveUp /\ UNCHANGED zones
    /\ OnlyFlash /\ UNCHANGED <<signVars, timeVars, drawn, recent, cloud, torn, wanted>>

ZonesAnswer ==
    /\ Awaits("zones")
    /\ \/ cfg.tok /\ zones' = TRUE /\ Save(cfg, "scan", "none")
       \/ GiveUp /\ UNCHANGED <<cfg, zones>>
    /\ UNCHANGED <<file, tmp, copy, cuts, trouble, panelVars, job, recent, cloud, torn, wanted>>

Record ==
    /\ Takes("record")
    /\ IF zones THEN Await("lookup") ELSE GiveUp
    /\ OnlyFlash /\ UNCHANGED <<signVars, timeVars, drawn, recent, zones, cloud, torn, wanted>>

HasRecord == Save([cfg EXCEPT !.rec = TRUE], "record", "none")

\* Mutant: a lookup that failed counts as one that found nothing.
LookupFailsOpen ==
    /\ Awaits("lookup")
    /\ \/ cfg.tok /\ cloud.records > 0 /\ HasRecord
       \/ Await("create") /\ UNCHANGED cfg
    /\ UNCHANGED <<file, tmp, copy, cuts, trouble, panelVars, jobVars>>

LookupAnswer ==
    /\ Awaits("lookup")
    /\ \/ cfg.tok /\ cloud.records > 0 /\ HasRecord
       \/ cfg.tok /\ cloud.records = 0 /\ Await("create") /\ UNCHANGED cfg
       \/ GiveUp /\ UNCHANGED cfg
    /\ UNCHANGED <<file, tmp, copy, cuts, trouble, panelVars, jobVars>>

\* The answer may be lost after the record was made.
CreateAnswer ==
    /\ Awaits("create")
    /\ \/ cfg.tok /\ cloud' = [cloud EXCEPT !.records = @ + 1] /\ (HasRecord \/ (GiveUp /\ UNCHANGED cfg))
       \/ GiveUp /\ UNCHANGED <<cfg, cloud>>
    /\ UNCHANGED <<file, tmp, copy, cuts, trouble, panelVars, job, recent, zones, torn, wanted>>

\* The zone is not in the list, or there is no account; otherwise the calls.
Deploy ==
    /\ Takes("deploy")
    /\ Await("settings") \/ GiveUp
    /\ OnlyFlash /\ UNCHANGED <<signVars, timeVars, drawn, recent, zones, cloud, torn, wanted>>

\* Mutant: settings that were not answered count as a name that is free.
SettingsFailOpen ==
    /\ Awaits("settings") /\ Await("upload")
    /\ OnlyFlash /\ UNCHANGED <<panelVars, jobVars>>

\* The name is free (404) or the relay's own; the workers.dev name is found out.
SettingsAnswer ==
    /\ Awaits("settings")
    /\ \/ cfg.tok /\ cloud.worker # "foreign" /\ Await("upload")
       \/ GiveUp
    /\ OnlyFlash /\ UNCHANGED <<panelVars, jobVars>>

\* A new secret on every upload; the answer may be lost.
UploadAnswer ==
    /\ Awaits("upload")
    /\ \/ /\ cfg.tok /\ cloud.sec < MaxSecrets
          /\ cloud' = [cloud EXCEPT !.worker = "relay", !.sec = @ + 1] /\ torn' = TRUE
          /\ Await("route") \/ GiveUp
       \/ GiveUp /\ UNCHANGED <<cloud, torn>>
    /\ OnlyFlash /\ UNCHANGED <<panelVars, job, recent, zones, wanted>>

\* Mutant: the secret of the earlier deploy stays.
SecretStays ==
    /\ Awaits("route")
    /\ Save([cfg EXCEPT !.relay = TRUE, !.ver = RELAY_VERSION], "deploy", "none")
    /\ UNCHANGED <<file, tmp, copy, cuts, trouble, panelVars, jobVars>>

RouteAnswer ==
    /\ Awaits("route")
    /\ \/ cfg.tok /\ Save([cfg EXCEPT !.relay = TRUE, !.sec = cloud.sec, !.ver = RELAY_VERSION], "deploy", "none")
       \/ GiveUp /\ UNCHANGED cfg
    /\ UNCHANGED <<file, tmp, copy, cuts, trouble, panelVars, jobVars>>

\* save()'s result is not looked at.
JobEnds ==
    /\ \E by \in {"scan", "record", "deploy"} : Ended(by)
    /\ GiveUp /\ torn' = (torn /\ ~(save.by = "deploy" /\ Good))
    /\ OnlyFlash /\ UNCHANGED <<panelVars, job, recent, zones, cloud, wanted>>

Jobs == \/ Redeploy \/ Scan \/ ZonesAnswer \/ Record \/ LookupAnswer \/ CreateAnswer
        \/ Deploy \/ SettingsAnswer \/ UploadAnswer \/ RouteAnswer \/ JobEnds \/ HourPasses

----------------------------------------------------------------------------
\* The handlers that queue a job, or turn off what one set up.

CloudRequest(c) == "cloud" \in uses /\ Request /\ Guard(c)
Unsigned == UNCHANGED <<signVars, timeVars, drawn>>

AskScan(c) ==
    /\ CloudRequest(c)
    /\ \/ Save([cfg EXCEPT !.tok = TRUE], "token", c) /\ UNCHANGED job
       \/ cfg.tok /\ Start("scan") /\ UNCHANGED <<cfg, save>>
    /\ UNCHANGED <<file, tmp, copy, cuts, trouble, recent, zones, cloud, torn, wanted>> /\ Unsigned

TokenSaved ==
    /\ Ended("token") /\ save' = NotSaving
    /\ IF Good THEN Start("scan") ELSE UNCHANGED job
    /\ OnlyFlash /\ UNCHANGED <<panelVars, recent, zones, cloud, torn, wanted>>

AskRecord(c) ==
    /\ CloudRequest(c)
    /\ \/ zones /\ Start("record") /\ UNCHANGED <<cfg, save>>
       \/ Save([cfg EXCEPT !.rec = FALSE], "norecord", c) /\ UNCHANGED job
    /\ UNCHANGED <<file, tmp, copy, cuts, trouble, recent, zones, cloud, torn, wanted>> /\ Unsigned

AskDeploy(c) ==
    /\ CloudRequest(c)
    /\ Start("deploy") /\ wanted' = TRUE
    /\ UNCHANGED <<storeVars, recent, zones, cloud, torn>> /\ Unsigned

RelayOff(c) == [c EXCEPT !.relay = FALSE, !.sec = 0, !.ver = 0]

RemoteOff(c) ==
    /\ CloudRequest(c)
    /\ Save(RelayOff(cfg), "off", c)
    /\ UNCHANGED <<file, tmp, copy, cuts, trouble, jobVars>> /\ Unsigned

ClearCloudflare(c) ==
    /\ CloudRequest(c)
    /\ Save([RelayOff(cfg) EXCEPT !.tok = FALSE, !.rec = FALSE], "clear", c)
    /\ UNCHANGED <<file, tmp, copy, cuts, trouble, jobVars>> /\ Unsigned

OffEnds ==
    /\ \E by \in {"norecord", "off", "clear"} : Ended(by)
    /\ GiveUp
    /\ zones' = (zones /\ ~(save.by = "clear" /\ Good))
    /\ wanted' = IF save.by \in {"off", "clear"} /\ Good THEN job = "deploy" ELSE wanted
    /\ OnlyFlash /\ UNCHANGED <<panelVars, job, recent, cloud, torn>>

=============================================================================
