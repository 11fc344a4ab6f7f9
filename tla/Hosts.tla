--------------------------------- MODULE Hosts ---------------------------------
(***************************************************************************)
(* What the simulated hosts (src/hosts/*/serve.py) tell the monitoring       *)
(* while their incidents run.                                                *)
(*                                                                         *)
(* A host has a story: its state and the ages, in minutes, of the time       *)
(* stamps set_state keeps.  A poll (the handler of the agent port) reads the *)
(* story many times, each time taking the lock for itself, so a toggle may   *)
(* fall between any two readings of one answer; what is made of the readings *)
(* is in a module for each host.  Against the minutes of a story a poll      *)
(* takes no time.                                                            *)
(* How set_state, its file, a restart and the watchdog interleave is in      *)
(* HostAgent.                                                               *)
(***************************************************************************)
EXTENDS AgentMath, Functions

CONSTANTS Simulated,    \* the hosts that are looked at
          Step,         \* minutes of a step of the clock
          Oldest,       \* the clock of a story stops at this age
          MaxToggles,   \* toggles on the control page
          MaxTears      \* toggles that fall into one answer

Redis    == INSTANCE AppRedis
Worker   == INSTANCE AppWorker
Files    == INSTANCE FileServer
Mail     == INSTANCE MailRelay
Primary  == INSTANCE PostgresPrimary
Replica  == INSTANCE PostgresReplica
Payment  == INSTANCE PaymentApi
Windows  == INSTANCE WinDc
Frontend == INSTANCE WebFrontend
Backup   == INSTANCE BackupHost

HostNames == {"app-redis-01", "app-worker-01", "fileserver-01", "mail-relay-01", "db-postgres-01",
              "db-postgres-02", "payment-api", "win-dc-01", "web-frontend-01", "backup-01"}
Quiet     == {"web-frontend-01", "backup-01"}

\* By minute 20 every host has escalated and every ramp has ended.  Within five
\* days (7200 minutes) the queue of a broken mail relay, which grows by 48 mails
\* a minute for as long as nobody heals it, stays small against its spool.
ASSUME HostsAssumption ==
    /\ Simulated \subseteq HostNames
    /\ Step \in Nat \ {0} /\ Oldest \in 20..7200 /\ MaxToggles \in Nat /\ MaxTears \in Nat

\* build_agent_output of each host: how often it reads the story, and what the
\* monitoring makes of what it prints.
ReadsOf == [h \in HostNames |->
    CASE h = "app-redis-01"    -> Redis!Reads    [] h = "app-worker-01"   -> Worker!Reads
      [] h = "fileserver-01"   -> Files!Reads    [] h = "mail-relay-01"   -> Mail!Reads
      [] h = "db-postgres-01"  -> Primary!Reads  [] h = "db-postgres-02"  -> Replica!Reads
      [] h = "payment-api"     -> Payment!Reads  [] h = "win-dc-01"       -> Windows!Reads
      [] h = "web-frontend-01" -> Frontend!Reads [] h = "backup-01"       -> Backup!Reads]

ServicesOf(h, r, e) ==
    CASE h = "app-redis-01"    -> Redis!Services(r, e)    [] h = "app-worker-01"  -> Worker!Services(r, e)
      [] h = "fileserver-01"   -> Files!Services(r, e)    [] h = "mail-relay-01"  -> Mail!Services(r, e)
      [] h = "db-postgres-01"  -> Primary!Services(r, e)  [] h = "db-postgres-02" -> Replica!Services(r, e)
      [] h = "payment-api"     -> Payment!Services(r, e)  [] h = "win-dc-01"      -> Windows!Services(r, e)
      [] h = "web-frontend-01" -> Frontend!Services(r, e) [] h = "backup-01"      -> Backup!Services(r, e)

PartsOf(h, r, e) ==
    CASE h = "app-redis-01"    -> Redis!Parts(r, e)    [] h = "app-worker-01"  -> Worker!Parts(r, e)
      [] h = "fileserver-01"   -> Files!Parts(r, e)    [] h = "mail-relay-01"  -> Mail!Parts(r, e)
      [] h = "db-postgres-01"  -> Primary!Parts(r, e)  [] h = "db-postgres-02" -> Replica!Parts(r, e)
      [] h = "payment-api"     -> Payment!Parts(r, e)  [] h = "win-dc-01"      -> Windows!Parts(r, e)
      [] h = "web-frontend-01" -> Frontend!Parts(r, e) [] h = "backup-01"      -> Backup!Parts(r, e)

RatesOf(h, r, e) ==
    CASE h = "app-redis-01"    -> Redis!Rates(r, e)    [] h = "app-worker-01"  -> Worker!Rates(r, e)
      [] h = "fileserver-01"   -> Files!Rates(r, e)    [] h = "mail-relay-01"  -> Mail!Rates(r, e)
      [] h = "db-postgres-01"  -> Primary!Rates(r, e)  [] h = "db-postgres-02" -> Replica!Rates(r, e)
      [] h = "payment-api"     -> Payment!Rates(r, e)  [] h = "win-dc-01"      -> Windows!Rates(r, e)
      [] h = "web-frontend-01" -> Frontend!Rates(r, e) [] h = "backup-01"      -> Backup!Rates(r, e)

\* Whether build_agent_output returns at all.
AnswersOf(h, r) == h = "app-worker-01" => Worker!Answers(r)

VARIABLES host,       \* the host this behaviour is about
          story,      \* its state and the ages of its time stamps, None: not set
          toggles,    \* toggles so far (bound)
          poll,       \* "due", "reading", "answered" or "failed"
          got         \* the readings of the poll so far
vars == <<host, story, toggles, poll, got>>

States(h) == CASE h \in Quiet        -> {"healthy"}
               [] h = "payment-api"  -> {"healthy", "broken"}
               [] OTHER              -> {"healthy", "degraded", "broken"}

\* The script starts in START_STATE with its time stamps at START.
Started(s) == [state |-> s, since |-> 0, cleaned |-> None,
               deg |-> IF s = "healthy" THEN None ELSE 0,
               brk |-> IF s = "broken" THEN 0 ELSE None]

Init == /\ host \in Simulated
        /\ \E s \in States(host) : story = Started(s)
        /\ toggles = 0 /\ poll = "due" /\ got = <<>>

\* set_state: what is cleared, kept and stamped.
Toggled(s, value) ==
    [state   |-> value,
     since   |-> IF value # s.state THEN 0 ELSE s.since,
     deg     |-> IF value = "healthy" THEN None ELSE IF s.deg = None THEN 0 ELSE s.deg,
     brk     |-> IF value # "broken" THEN None ELSE IF s.brk = None THEN 0 ELSE s.brk,
     cleaned |-> IF host = "win-dc-01" /\ value = "healthy" /\ s.state # "healthy" THEN 0 ELSE s.cleaned]

\* The control page, while a poll may be on its way.
Toggle(value) ==
    /\ toggles < MaxToggles
    /\ poll = "reading" => Cardinality(Range(got) \ {story}) < MaxTears
    /\ toggles' = toggles + 1
    /\ story' = Toggled(story, value)
    /\ UNCHANGED <<host, poll, got>>

AutoBreak == IF host \in {"app-worker-01", "db-postgres-01", "win-dc-01"} THEN 20 ELSE 18

\* (mutant: the watchdog looks at the wrong state)
RipeBroken == story.state = "broken" /\ story.since >= AutoBreak

\* What the watchdog waits for.
Ripe == story.state = "degraded" /\ story.since >= AutoBreak

\* _auto_break_watchdog
Escalate ==
    /\ Ripe
    /\ story' = Toggled(story, "broken")
    /\ UNCHANGED <<host, toggles, poll, got>>

\* A step of the clock, when no poll is on its way.  No ramp reaches past
\* Oldest.
Older(age) == IF age = None THEN None ELSE Least(Oldest, age + Step)
Aged(s) == [s EXCEPT !.since = Older(@), !.deg = Older(@), !.brk = Older(@), !.cleaned = Older(@)]
Clock ==
    /\ poll = "due"
    /\ story' = Aged(story)
    /\ UNCHANGED <<host, toggles, poll, got>>

\* The handler of the agent port: it reads the story again and again, formats
\* and sends.
Begin ==
    /\ poll = "due"
    /\ poll' = "reading" /\ got' = <<>>
    /\ UNCHANGED <<host, story, toggles>>

Read ==
    /\ poll = "reading" /\ Len(got) < ReadsOf[host]
    /\ got' = Append(got, story)
    /\ UNCHANGED <<host, story, toggles, poll>>

Answer ==
    /\ poll = "reading" /\ Len(got) = ReadsOf[host]
    /\ poll' = IF AnswersOf(host, got) THEN "answered" ELSE "failed"
    /\ UNCHANGED <<host, story, toggles, got>>

Deliver ==
    /\ poll \in {"answered", "failed"}
    /\ poll' = "due" /\ got' = <<>>
    /\ UNCHANGED <<host, story, toggles>>

Poll == Begin \/ Read \/ Answer \/ Deliver
Next == \/ Poll \/ Escalate \/ Clock
        \/ \E value \in States(host) : Toggle(value)

\* The clock goes on, the monitoring polls, and a poll ends.
Fairness == SF_vars(Clock) /\ WF_vars(Escalate) /\ WF_vars(Poll)
Spec     == Init /\ [][Next]_vars
FairSpec == Spec /\ Fairness
-----------------------------------------------------------------------------
Answered == poll = "answered"

\* What STATE_META of the host says the monitoring shows once it has been
\* degraded or broken for some time; services that are not named are green.
\* (The Backup service of win-dc-01 has the rule its text asks for.)
Told(h, s) ==
    CASE h = "app-redis-01"   /\ s = "broken"   -> [Story |-> WARN]
      [] h = "app-worker-01"  /\ s = "degraded" -> [Memory |-> WARN]
      [] h = "app-worker-01"  /\ s = "broken"   -> [Memory |-> CRIT, Units |-> CRIT]
      [] h = "fileserver-01"  /\ s = "broken"   -> [Story |-> CRIT]
      [] h = "mail-relay-01"  /\ s = "broken"   -> [Story |-> CRIT]
      [] h = "db-postgres-01" /\ s = "degraded" -> [Temperature |-> WARN]
      [] h = "db-postgres-01" /\ s = "broken"   -> [Temperature |-> WARN, Load |-> CRIT, Smart |-> CRIT]
      [] h = "db-postgres-02" /\ s = "broken"   -> [Story |-> CRIT]
      [] h = "payment-api"    /\ s = "broken"   -> [Units |-> CRIT]
      [] h = "win-dc-01"      /\ s = "degraded" -> [Story |-> WARN, Backup |-> CRIT]
      [] h = "win-dc-01"      /\ s = "broken"   -> [Story |-> CRIT, Backup |-> CRIT]
      [] OTHER -> <<>>
Levels(told, services) ==
    [s \in services |-> IF s \in DOMAIN told THEN told[s] ELSE OK]

\* Where the code departs from that text, and what it shows instead: the volume
\* of fileserver-01 is 86 % full, over the 80 % that is said not to be reached,
\* mail-relay-01 defers 18 mails, over the 10 of the warning, and what app-redis-01
\* commits wobbles around the limit of its memory, which "STAYS GREEN".
Departs(h, s) ==
    CASE h \in {"fileserver-01", "mail-relay-01"} /\ s = "degraded" -> [Story |-> {WARN}]
      [] h = "app-redis-01" /\ s # "broken" -> [Memory |-> {OK, WARN}]
      [] OTHER -> <<>>
Shown(h, s, services) ==
    [v \in services |-> IF v \in DOMAIN Departs(h, s) THEN Departs(h, s)[v]
                        ELSE {Levels(Told(h, s), services)[v]}]

\* The broken app-worker-01 shows nothing at all.
Mute(h, s) == h = "app-worker-01" /\ s = "broken"

\* The services whose levels the incident drives.
Telling(services) ==
    DOMAIN services \ (IF host = "app-redis-01" THEN {"Memory"} ELSE {})

\* A story is told when it has been in its state for long enough.
Whole(s) == [i \in 1..ReadsOf[host] |-> s]
Ripened(s) == \/ s.state = "healthy"
              \/ s.state = "degraded" /\ s.since >= AutoBreak
              \/ s.state = "broken" /\ s.brk >= 16
OneStory == Answered /\ \A i \in DOMAIN got : got[i] = story

\* An answer that no toggle tore shows on every service the level that STATE_META
\* tells of the host's state, or the one named in Departs, whatever the noise and
\* the way the host came there: nothing but OK when healthy, the memory of
\* app-redis-01 apart.  The broken app-worker-01 never answers, and no other poll
\* is lost.
StoryTold ==
    /\ OneStory => ~Mute(host, story.state)
    /\ poll = "failed" => \E i \in DOMAIN got : Mute(host, got[i].state)
    /\ OneStory /\ Ripened(story) =>
        \A e \in Noise :
            LET levels == ServicesOf(host, got, e)
            IN  \A v \in DOMAIN levels : levels[v] \in Shown(host, story.state, DOMAIN levels)[v]

\* Every answer, torn or not, adds up: no part is negative or larger than what
\* it is a part of, and no counter is fed a negative rate (build_agent_output).
Sane ==
    Answered => \A e \in Noise :
        /\ \A p \in PartsOf(host, got, e) : 0 <= p[1] /\ p[1] <= p[2]
        /\ \A rate \in RatesOf(host, got, e) : rate >= 0

\* An answer that a toggle tore is not worse than the worst of the stories it
\* was made of: a poll that races a heal raises no alarm of its own.
TornMild ==
    Answered => \A e \in Noise :
        LET levels == ServicesOf(host, got, e)
        IN  \A s \in DOMAIN levels :
                got # <<>> => levels[s] <= Max({ServicesOf(host, Whole(x), e)[s] : x \in Range(got)})

\* As an incident goes on and when it escalates, no level gets better (the
\* ramps of the broken state start where the degraded state ended).
NoRelief ==
    [][story' # story /\ story.state # "healthy" /\ story'.state \in {story.state, "broken"} =>
          \A e \in Noise :
              LET before == ServicesOf(host, Whole(story), e)
                  after  == ServicesOf(host, Whole(story'), e)
              IN  \A s \in Telling(before) : before[s] <= after[s]]_story

\* An incident that nobody heals ends in an answer with its worst levels, by the
\* watchdog if nobody breaks the host (_auto_break_watchdog, the handler).
Alarming == Answered /\ OneStory /\ story.state = "broken" /\ Ripened(story)
AlertComes == host \notin Quiet \cup {"app-worker-01"} =>
                  (story.state # "healthy" ~> (story.state = "healthy" \/ Alarming))

\* "magnitude still GREEN/edging" (fileserver-01), "still OK/green (< 20)"
\* (mail-relay-01), "the host's Linux Memory stays GREEN" (app-redis-01), "Memory CRIT"
\* (app-worker-01): an answer shows what STATE_META says, and there is one.
AsDocumented ==
    /\ poll # "failed"
    /\ OneStory /\ Ripened(story) =>
        \A e \in Noise :
            LET levels == ServicesOf(host, got, e)
            IN  levels = Levels(Told(host, story.state), DOMAIN levels)
==============================================================================
