------------------------------ MODULE UpdateTurn ------------------------------
(***************************************************************************)
(* What the main loop sees of the update: whether OTAService wants the     *)
(* network, has a session, or keeps the panel off, and whether a restart   *)
(* is scheduled. AppLoop puts these steps into the stages of App.tick;     *)
(* OTAService, with its tags, files and retries, implements them.          *)
(***************************************************************************)

VARIABLES
  ota,        \* OTAService: idle, a request armed or backing off, or a session
  otaDue,     \* the automatic check is due
  slim,       \* _slim: a recovery boot, with only Wi-Fi and OTA
  restarting  \* WiFiService._restartPending

updateVars == <<ota, otaDue, slim, restarting>>

\* Mutant: the requests, but not the session that is open
BusyWithRequests == ota \in {"armed", "backoff"}

OtaBusy == ota # "idle"             \* busy
OtaWantsNet == OtaBusy \/ otaDue    \* wantsNet

\* begin: of what flash has, only a request to resume matters here
UpdateInit ==
  /\ slim \in BOOLEAN /\ restarting = FALSE
  /\ ota = IF slim THEN "armed" ELSE "idle"
  /\ otaDue = FALSE

\* requestCheck, requestInstall
Asked ==
  /\ ota \in {"idle", "backoff"}
  /\ ota' = "armed"
  /\ UNCHANGED <<otaDue, slim, restarting>>

\* setAutomatic, off
AutomaticOff == otaDue' = FALSE /\ UNCHANGED <<ota, slim, restarting>>

\* The hour is over, or automatic updates come on after it
CheckDue == otaDue' = TRUE /\ UNCHANGED <<ota, slim, restarting>>

\* _nextRetry is reached
RetryDue == ota = "backoff" /\ ota' = "armed" /\ UNCHANGED <<otaDue, slim, restarting>>

\* offerLatest: a newer release makes the check due at once (with automatic
\* updates on and the uptime in range), another one puts it off
Offered(latest) ==
  /\ IF OtaBusy THEN otaDue' = otaDue
     ELSE IF latest = "newer" THEN otaDue' \in {TRUE, otaDue}
     ELSE otaDue' = FALSE
  /\ UNCHANGED <<ota, slim, restarting>>

\* How a check or a download ends: it is over (or out of retries), it will be
\* tried again, or a restart is due (updated, recovery over, or into recovery)
OtaEnds ==
  \/ ota' \in {"idle", "backoff"} /\ UNCHANGED <<slim, restarting>>
  \/ ota' = "idle" /\ restarting' = TRUE /\ slim' \in {slim, FALSE}

\* tick starts the armed request or the automatic check. The session comes up
\* or not: no answer, or the heap is short
OtaStarts == ~restarting /\ (ota = "armed" \/ (ota = "idle" /\ otaDue))
OtaBegins ==
  /\ OtaStarts
  /\ otaDue' = (otaDue /\ ota = "armed")
  /\ \/ ota' = "session" /\ UNCHANGED <<slim, restarting>>
     \/ OtaEnds

\* tick with a session open
OtaGoesOn ==
  /\ ota = "session" /\ UNCHANGED otaDue
  /\ \/ ota' = "session" /\ UNCHANGED <<slim, restarting>>
     \/ OtaEnds

\* scheduleRestart, from a form, a watchdog or the day's end
RestartScheduled ==
  /\ ~restarting /\ restarting' = TRUE
  /\ UNCHANGED <<ota, otaDue, slim>>

\* The restart, or a crash or a power cut before it
Rebooted ==
  /\ slim' \in BOOLEAN /\ restarting' = FALSE
  /\ ota' = IF slim' THEN "armed" ELSE "idle"
  /\ otaDue' = FALSE

UpdateNext ==
  \/ Asked \/ AutomaticOff \/ CheckDue \/ RetryDue
  \/ \E latest \in {"old", "newer"} : Offered(latest)
  \/ OtaBegins \/ OtaGoesOn
  \/ RestartScheduled \/ Rebooted

UpdateSpec == UpdateInit /\ [][UpdateNext]_updateVars
=============================================================================
