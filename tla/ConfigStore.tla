------------------------------ MODULE ConfigStore ------------------------------
(* The configuration in flash (ConfigStore.h): loading, the migration of a     *)
(* version 1 file with its backup, and the save through /config.tmp, cut in    *)
(* the steps between which the power may fail. save() runs inside whoever      *)
(* called it: save.by names the caller, whose handler goes on from "done" or   *)
(* "failed".                                                                   *)
EXTENDS Naturals

CONSTANTS FlashFills,   \* the file system may run out of room
          MaxCuts       \* bound: power cuts

ASSUME StoreAssumption == FlashFills \in BOOLEAN /\ MaxCuts \in Nat

VARIABLES cfg,      \* Config, in RAM
          file,     \* /config.json: its version and what it holds
          tmp,      \* /config.tmp
          copy,     \* /config.v1.json: "none", "part", "whole"
          save,     \* the save (or backup) going on
          cuts,
          trouble   \* ghost: what the flash refused so far

storeVars == <<cfg, file, tmp, copy, save, cuts, trouble>>

\* Config.h, as far as the handlers tell its values apart: the password and the
\* authenticator key (0: none), the two spent steps, the forms that differ from
\* the factory's, the Wi-Fi network, and what Cloudflare gave.
Defaults == [pw |-> 0, key |-> 0, dev |-> 0, brow |-> 0, forms |-> {}, wifi |-> FALSE,
             tok |-> FALSE, rec |-> FALSE, relay |-> FALSE, sec |-> 0, ver |-> 0]

Missing == [v |-> "missing", cfg |-> Defaults]
Broken == [v |-> "broken", cfg |-> Defaults]

\* What load() makes of a file: a missing, empty or broken one changes nothing.
Read(f) == IF f.v \in {"missing", "broken"} THEN Defaults ELSE f.cfg

Stored == Read(file)
On == save.at # "off"
NotSaving == [at |-> "idle", by |-> "none", who |-> "none", prev |-> Defaults]
PowerOff == [NotSaving EXCEPT !.at = "off"]

StoreInit(first) ==
    /\ cfg = Defaults /\ file = first /\ tmp = Missing /\ copy = "none"
    /\ save = PowerOff /\ cuts = 0 /\ trouble = {}

\* The call of save() by a handler that changed the configuration to c.
Save(c, by, who) == cfg' = c /\ save' = [at |-> "open", by |-> by, who |-> who, prev |-> Defaults]

\* Version 1 is migrated, backed up and written in the new form; a password in
\* plain text is hashed and saved; a newer file is left alone.
Boot ==
    /\ save.at = "off"
    /\ cfg' = Stored
    /\ save' = [NotSaving EXCEPT
                  !.at = CASE file.v = "v1" -> "backup" [] file.v = "plain" -> "open" [] OTHER -> "idle",
                  !.by = IF file.v \in {"v1", "plain"} THEN "boot" ELSE "none"]
    /\ UNCHANGED <<file, tmp, copy, cuts, trouble>>

\* What is left of the temporary file is never read.
PowerCut ==
    /\ On /\ cuts < MaxCuts
    /\ cfg' = Defaults /\ tmp' = Missing /\ save' = PowerOff /\ cuts' = cuts + 1
    /\ UNCHANGED <<file, copy, trouble>>

GoOn(phase) == save' = [save EXCEPT !.at = phase]

\* _backup: it returns silently when its file does not open, and does not look
\* at what the writes return.
BackupOpens ==
    /\ save.at = "backup"
    /\ \/ copy' = "part" /\ GoOn("copy") /\ UNCHANGED trouble
       \/ trouble' = trouble \cup {"copy"} /\ GoOn("open") /\ UNCHANGED copy
    /\ UNCHANGED <<cfg, file, tmp, cuts>>

BackupWrites ==
    /\ save.at = "copy" /\ GoOn("open")
    /\ \/ copy' = "whole" /\ UNCHANGED trouble
       \/ FlashFills /\ trouble' = trouble \cup {"copy"} /\ UNCHANGED copy
    /\ UNCHANGED <<cfg, file, tmp, cuts>>

\* Mutant: the file itself is opened for writing.
OpensInPlace ==
    /\ save.at = "open" /\ tmp' = Broken /\ file' = Broken /\ GoOn("write")
    /\ UNCHANGED <<cfg, copy, cuts, trouble>>

\* Too long for load(), or the file does not open: nothing was touched.
SaveOpens ==
    /\ save.at = "open"
    /\ \/ tmp' = Broken /\ GoOn("write")
       \/ GoOn("failed") /\ UNCHANGED tmp
    /\ UNCHANGED <<cfg, file, copy, cuts, trouble>>

\* The writes' and close's results are not looked at: without room the file is
\* short, and it replaces the good one all the same.
SaveWrites ==
    /\ save.at = "write" /\ GoOn("rename")
    /\ \/ tmp' = [v |-> "v3", cfg |-> cfg] /\ UNCHANGED trouble
       \/ FlashFills /\ trouble' = trouble \cup {"full"} /\ UNCHANGED tmp
    /\ UNCHANGED <<cfg, file, copy, cuts>>

SaveRenames ==
    /\ save.at = "rename" /\ tmp' = Missing
    /\ \/ file' = tmp /\ GoOn("done")
       \/ GoOn("failed") /\ UNCHANGED file
    /\ UNCHANGED <<cfg, copy, cuts, trouble>>

Saves == BackupOpens \/ BackupWrites \/ SaveOpens \/ SaveWrites \/ SaveRenames

\* The save is over, and the caller's handler goes on with its result.
Ended(by) == save.at \in {"done", "failed"} /\ save.by = by
Good == save.at = "done"
\* begin() does not look at it.
BootSaveEnds == Ended("boot") /\ save' = NotSaving /\ UNCHANGED <<cfg, file, tmp, copy, cuts, trouble>>

=============================================================================
