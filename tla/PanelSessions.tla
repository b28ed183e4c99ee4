----------------------------- MODULE PanelSessions -----------------------------
(* The panel's sign-in (WebService.h): one session of one browser, the          *)
(* authenticator's codes and the ledger of the spent ones, the enrolment and   *)
(* replacement of its key, and the waits after mistakes. A handler runs to its *)
(* save(); what it does after it is the action of the same name with Ends.     *)
EXTENDS ConfigStore

CONSTANTS Clients,      \* browsers, each at an address of its own
          Passwords,    \* 1 .. n
          FreeFails,    \* FREE_LOGIN_FAILS
          MaxStep,      \* bound: the last 30 s step of the clock
          MaxKeys       \* bound: authenticator keys drawn

ASSUME PanelAssumption ==
    /\ Passwords \subseteq Nat \ {0} /\ "none" \notin Clients
    /\ FreeFails \in Nat \ {0} /\ {MaxStep, MaxKeys} \subseteq Nat

VARIABLES session,    \* level 0 out, 1 authenticator set-up, 2 in; of whom
          pending,    \* the key shown and not confirmed (0: none)
          drawn,      \* keys drawn so far
          now,        \* the 30 s step of the true time
          synced,     \* SNTP has set the device's clock
          owner,      \* the address of the last sign-in ("none": none)
          tries,      \* mistakes counted for the owner and for the others
          waits,      \* the counts whose wait is running
          uses,       \* bound: the kinds of things that happen to this device
          left,       \* bound: the requests, jobs, power cuts and clock moves to come
          codes,      \* ghost: accepted codes; lost: those the device forgot it spent
          twice,      \* ghost: of those, the ones accepted again
          mine        \* ghost: each client's mistakes since it last signed in

signVars == <<session, pending, owner, tries, waits, codes, twice, mine>>
timeVars == <<now, synced>>
panelVars == <<signVars, timeVars, drawn, uses, left>>

Steps == 1 .. MaxStep + 1
NoOne == [level |-> 0, who |-> "none"]
NoTries == [t \in {"owner", "panel"} |-> 0]

PanelInit(first, owned) ==
    /\ session = NoOne /\ pending = 0 /\ drawn = first
    /\ now = 1 /\ synced = FALSE
    /\ owner = "none" /\ tries = NoTries /\ waits = {}
    /\ uses = owned.uses /\ left = owned.inputs /\ codes = {} /\ twice = {} /\ mine = [c \in Clients |-> 0]

----------------------------------------------------------------------------
\* Time, and what of the panel a restart forgets.

Input == left > 0 /\ left' = left - 1 /\ UNCHANGED uses

TimePasses == "time" \in uses /\ Input /\ now < MaxStep /\ now' = now + 1 /\ UNCHANGED <<storeVars, signVars, synced, drawn>>
ClockSet == Input /\ On /\ ~synced /\ synced' = TRUE /\ UNCHANGED <<storeVars, signVars, now, drawn>>
SessionExpires ==
    /\ session.level > 0 /\ save.at = "idle" /\ session' = NoOne
    /\ UNCHANGED <<storeVars, pending, owner, tries, waits, codes, twice, mine, timeVars, drawn, uses, left>>
WaitEnds ==
    /\ \E t \in waits : waits' = waits \ {t}
    /\ UNCHANGED <<storeVars, session, pending, owner, tries, codes, twice, mine, timeVars, drawn, uses, left>>

\* Whether configuration c's ledger covers accepted code x.
SpentBy(x, c) == x.step <= IF x.browser THEN c.brow ELSE c.dev

\* The ledger goes back to what flash has of it: a code whose save failed, was
\* cut off, or was left out (a refused form) is forgotten.
PanelOff ==
    /\ Input
    /\ session' = NoOne /\ pending' = 0 /\ synced' = FALSE
    /\ owner' = "none" /\ tries' = NoTries /\ waits' = {} /\ mine' = [c \in Clients |-> 0]
    /\ codes' = {[x EXCEPT !.lost = @ \/ ~SpentBy(x, Stored)] : x \in {y \in codes : y.key = Stored.key}}
    /\ UNCHANGED <<twice, now, drawn>>

----------------------------------------------------------------------------
\* The waits.

\* Mutant: every address has the same count.
OneCount(c) == "panel"
Tries(c) == IF c = owner THEN "owner" ELSE "panel"

Blocked(c) == Tries(c) \in waits

LoginFailed(c) ==
    /\ "mistakes" \in uses
    /\ LET t == Tries(c)
           n == IF tries[t] < FreeFails THEN tries[t] + 1 ELSE FreeFails
       IN  /\ tries' = [tries EXCEPT ![t] = n]
           /\ waits' = IF n = FreeFails THEN waits \cup {t} ELSE waits
    /\ mine' = [mine EXCEPT ![c] = IF @ < FreeFails THEN @ + 1 ELSE @]
    /\ UNCHANGED owner

\* The count of the request's address starts over, and an address that was not
\* the owner's takes the owner's place with a count of its own.
SignedIn(c) ==
    /\ owner' = c
    /\ tries' = [tries EXCEPT ![Tries(c)] = 0, !["owner"] = 0]
    /\ waits' = waits \ {Tries(c), "owner"}
    /\ mine' = [mine EXCEPT ![c] = 0]

----------------------------------------------------------------------------
\* The codes. A code is the step it belongs to; b is the time the browser sends.

Time(b) == IF synced THEN now ELSE b

\* Mutant: the floor of the codes checked against the device's clock only.
DeviceFloor(b) == cfg.dev
Floor(b) ==
    LET brow == IF synced /\ cfg.brow > now + 1 THEN 0 ELSE cfg.brow
    IN  IF brow > cfg.dev THEN brow ELSE cfg.dev

CodeOk(key, code, b) ==
    /\ key # 0
    /\ code \in {Time(b) - 1, Time(b), Time(b) + 1}
    /\ code > Floor(b)

Spend(c, code) == IF synced THEN [c EXCEPT !.dev = code] ELSE [c EXCEPT !.brow = code]

Accepted(key, code) ==
    LET x == [key |-> key, step |-> code, browser |-> ~synced, lost |-> FALSE] IN
    /\ twice' = twice \cup {y \in codes : y.key = key /\ y.step = code}
    /\ codes' = codes \cup {x}

----------------------------------------------------------------------------
\* The requests.

Request == save.at = "idle" /\ Input

\* _guard: everything is open while there is no password (the first set-up).
Guard(c) == cfg.pw = 0 \/ (~Blocked(c) /\ session = [level |-> 2, who |-> c])
EnrollGuard(c) == cfg.pw # 0 /\ ~Blocked(c) /\ session = [level |-> 1, who |-> c]

SignIn(c, code, b) ==
    /\ Request /\ cfg.pw # 0 /\ ~Blocked(c)
    /\ \/ /\ LoginFailed(c)
          /\ UNCHANGED <<storeVars, session, pending, codes, twice>>
       \/ /\ cfg.key # 0 /\ CodeOk(cfg.key, code, b)
          /\ SignedIn(c) /\ Accepted(cfg.key, code)
          /\ Save(Spend(cfg, code), "login", c)
          /\ UNCHANGED <<session, pending, file, tmp, copy, cuts, trouble>>
       \/ /\ cfg.key = 0
          /\ SignedIn(c) /\ pending' = 0 /\ session' = [level |-> 1, who |-> c]
          /\ UNCHANGED <<storeVars, codes, twice>>
    /\ UNCHANGED <<timeVars, drawn>>

\* save()'s result is not looked at.
SignInEnds ==
    /\ Ended("login") /\ save' = NotSaving
    /\ pending' = 0 /\ session' = [level |-> 2, who |-> save.who]
    /\ UNCHANGED <<cfg, file, tmp, copy, cuts, trouble, owner, tries, waits, codes, twice, mine, timeVars, drawn, uses, left>>

SignOut(c) ==
    /\ save.at = "idle" /\ session.who = c /\ session' = NoOne /\ pending' = 0
    /\ UNCHANGED <<storeVars, owner, tries, waits, codes, twice, mine, timeVars, drawn, uses, left>>

\* The set-up page draws the key it shows.
DrawPending == pending = 0 /\ drawn < MaxKeys /\ drawn' = drawn + 1 /\ pending' = drawn'
EnsurePending == DrawPending \/ (pending # 0 /\ UNCHANGED <<pending, drawn>>)
KeyPage(c) ==
    /\ "keys" \in uses /\ save.at = "idle" /\ EnrollGuard(c) /\ DrawPending
    /\ UNCHANGED <<storeVars, session, owner, tries, waits, codes, twice, mine, timeVars, uses, left>>

\* The first code of the new key: the key goes into the configuration. A failed
\* save takes the ledger back with it.
Enroll(c, code, b) ==
    /\ "keys" \in uses /\ Request /\ EnrollGuard(c)
    /\ \/ /\ LoginFailed(c) /\ EnsurePending
          /\ UNCHANGED <<storeVars, codes, twice>>
       \/ /\ CodeOk(pending, code, b) /\ Accepted(pending, code)
          /\ cfg' = [Spend(cfg, code) EXCEPT !.key = pending]
          /\ save' = [at |-> "open", by |-> "enroll", who |-> c, prev |-> cfg]
          /\ UNCHANGED <<file, tmp, copy, cuts, trouble, pending, owner, tries, waits, mine, drawn>>
    /\ UNCHANGED <<session, timeVars>>

\* Mutant: a failed save leaves the new key in RAM.
KeyStays ==
    /\ Ended("enroll") /\ save' = NotSaving
    /\ IF Good THEN pending' = 0 /\ session' = [level |-> 2, who |-> save.who] /\ SignedIn(save.who)
               ELSE UNCHANGED <<pending, session, owner, tries, waits, mine>>
    /\ UNCHANGED <<cfg, codes, file, tmp, copy, cuts, trouble, twice, timeVars, drawn, uses, left>>

EnrollEnds ==
    /\ Ended("enroll") /\ save' = NotSaving
    /\ \/ /\ Good /\ pending' = 0 /\ session' = [level |-> 2, who |-> save.who] /\ SignedIn(save.who)
          /\ UNCHANGED <<cfg, codes>>
       \/ /\ ~Good /\ cfg' = [cfg EXCEPT !.key = save.prev.key, !.dev = save.prev.dev, !.brow = save.prev.brow]
          /\ codes' = {[x EXCEPT !.lost = @ \/ x.key = pending] : x \in codes}
          /\ UNCHANGED <<pending, session, owner, tries, waits, mine>>
    /\ UNCHANGED <<file, tmp, copy, cuts, trouble, twice, timeVars, drawn, uses, left>>

\* A signed-in action that asks for the password and a code again: the mistake.
NotConfirmed(c) ==
    /\ Request /\ cfg.pw # 0 /\ Guard(c) /\ LoginFailed(c)
    /\ UNCHANGED <<storeVars, session, pending, codes, twice, timeVars, drawn>>

ReplaceKey(c, code, b) ==
    /\ "keys" \in uses /\ Request /\ cfg.pw # 0 /\ Guard(c) /\ drawn < MaxKeys
    /\ CodeOk(cfg.key, code, b) /\ Accepted(cfg.key, code)
    /\ Save(Spend(cfg, code), "reset", c)
    /\ UNCHANGED <<file, tmp, copy, cuts, trouble, session, pending, owner, tries, waits, mine, timeVars, drawn>>

\* save()'s result is not looked at; a fresh key waits for its first code.
ReplaceKeyEnds ==
    /\ Ended("reset") /\ save' = NotSaving
    /\ drawn' = drawn + 1 /\ pending' = drawn' /\ session' = [level |-> 1, who |-> save.who]
    /\ SignedIn(save.who)
    /\ UNCHANGED <<cfg, file, tmp, copy, cuts, trouble, codes, twice, timeVars, uses, left>>

\* The code is spent in RAM before the form is looked at: one that is refused
\* saves nothing.
SetPassword(c, p, code, b) ==
    /\ "keys" \in uses /\ Request /\ Guard(c)
    /\ \/ /\ cfg.pw # 0 /\ CodeOk(cfg.key, code, b) /\ Accepted(cfg.key, code)
          /\ \/ Save([Spend(cfg, code) EXCEPT !.pw = p], "password", c)
             \/ cfg' = Spend(cfg, code) /\ UNCHANGED save
       \/ cfg.pw = 0 /\ Save([cfg EXCEPT !.pw = p], "password", c) /\ UNCHANGED <<codes, twice>>
    /\ UNCHANGED <<file, tmp, copy, cuts, trouble, session, pending, owner, tries, waits, mine, timeVars, drawn>>

SetPasswordEnds ==
    /\ Ended("password") /\ save' = NotSaving
    /\ IF Good THEN session' = NoOne /\ pending' = 0 ELSE UNCHANGED <<session, pending>>
    /\ UNCHANGED <<cfg, file, tmp, copy, cuts, trouble, owner, tries, waits, codes, twice, mine, timeVars, drawn, uses, left>>

=============================================================================
