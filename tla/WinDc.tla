--------------------------------- MODULE WinDc ---------------------------------
(* The agent answer of hosts/win-dc-01: the service that cleans drive C: up is   *)
(* stopped and the drive fills.                                                  *)
EXTENDS AgentMath

LEAK_FILL_MIN  == 18
BREAK_RAMP     == 40
C_SIZE  == 125827068
C_BASE  == 66700000
C_FILL  == 50100000

Reads == 9
\* disk_dying, read again for every section that asks.
Dying(r, i) == r[i].state # "healthy"

DegPressure(deg) == IF deg <= 0 THEN 0 ELSE (78 * Least(100, (100 * deg) \div LEAK_FILL_MIN)) \div 100
\* The pressure the break starts from, kept from the moment it fires.
AtBreak(s) == DegPressure(s.deg - s.brk)

\* pressure takes the lock once for all it needs; it never falls below the
\* filling of the degraded phase.
Pressure(s) ==
    IF s.brk > 0 THEN Most(DegPressure(s.deg), Lerp(AtBreak(s), 100, Ramp(s.brk, BREAK_RAMP)))
    ELSE DegPressure(s.deg)

\* c_fill_rate_kb_s
FillRate(s) ==
    IF s.brk > 0
    THEN IF 10 * s.brk >= BREAK_RAMP THEN 0
         ELSE ((C_FILL \div 100) * (100 - AtBreak(s))) \div (6 * BREAK_RAMP)
    ELSE IF s.deg > 0 /\ s.deg < LEAK_FILL_MIN
         THEN ((C_FILL \div 100) * 78) \div (60 * LEAK_FILL_MIN)
         ELSE 0

\* growing_files: what the incident adds to each of the four files, in kB.
Shares == <<72, 14, 9, 5>>
Growth(r, i) == IF Dying(r, 3) THEN Shares[i] * ((C_FILL \div 10000) * Pressure(r[2])) ELSE 0
GrownBy(r)   == Growth(r, 1) + Growth(r, 2) + Growth(r, 3) + Growth(r, 4)
\* The caches were written when they were trimmed last, or just now.
FileAge(r, daily) ==
    IF Dying(r, 3) THEN 0
    ELSE IF r[4].cleaned = None THEN daily ELSE Least(r[4].cleaned, daily)

CDriveUsed(r, e) == Filling(C_BASE, 0, 1500000, 90000, e) + ((C_FILL \div 100) * Pressure(r[5]))
DDrive(e) == <<GaugeAbs(171000000, 400000, e), 419430400>>

\* _service_table: name, state and start type; the service that cleans up is
\* stopped by the incident.
ServiceTable(r) ==
    {<<"MeridianBackupAgent", IF Dying(r, 6) THEN "stopped" ELSE "running", "auto">>,
     <<"MapsBroker", "stopped", "auto">>, <<"Spooler", "stopped", "disabled">>,
     <<"NTDS", "running", "auto">>, <<"AppIDSvc", "stopped", "demand">>}

\* _PROCS: the process of a service that is stopped is not in the section ps.
ProcessTable == {"Registry", "lsass.exe", "dns.exe", "MeridianBackupAgent.exe"}
Processes(r) == ProcessTable \ (IF Dying(r, 8) THEN {"MeridianBackupAgent.exe"} ELSE {})
BackupAge(r, up) == IF r[7].cleaned = None THEN up ELSE Least(up, r[7].cleaned)

Memory(e) ==
    [total |-> 16768000, free |-> GaugeFrac(9100000, 3, e),
     pages |-> 24117248, pagefree |-> GaugeFrac(18900000, 2, e)]

\* Percents of a core: idle is what user and privileged leave.
Cpu(i, e) == LET busy == (GaugeFrac(920, 25, e) * <<118, 94, 106, 82>>[i]) \div 100
             IN  [busy |-> busy, idle |-> 10000 - busy]

\* The writes of C: carry the filling; latency in hundredths of a millisecond,
\* busy in percent.
WriteIops(r)    == 35 + (FillRate(r[9]) \div 256)
WriteLatency(r) == 55 + ((75 * Least(100, FillRate(r[9]) \div 360)) \div 100)
Busy(r)         == Least(97, (700 + (WriteIops(r) * WriteLatency(r))) \div 1000)

Rates(r, e) == {Cpu(i, e).idle : i \in 1..4} \cup
               {FillRate(r[9]), WriteIops(r), 100 - Busy(r), 1050 + FillRate(r[9])}

Answers(r) == TRUE

Services(r, e) ==
    [Memory |-> Level((100 * (Memory(e).total - Memory(e).free)) \div Memory(e).total, 80, 90),
     Disks  |-> FilesystemLevel(DDrive(e)[1], DDrive(e)[2]),
     Backup |-> IF /\ \E s \in ServiceTable(r) : s[1] = "MeridianBackupAgent" /\ s[2] = "running"
                   /\ "MeridianBackupAgent.exe" \in Processes(r)
                THEN OK ELSE CRIT,
     Load   |-> Level(Most(0, GaugeAbs(10, 14, e)), 20 * 10, 40 * 10),
     Story  |-> FilesystemLevel(CDriveUsed(r, e), C_SIZE)]

\* The files that grow are on drive C:.
Parts(r, e) ==
    LET m == Memory(e) IN
    {<<m.free, m.total>>, <<m.pagefree, m.pages>>, DDrive(e), <<CDriveUsed(r, e), C_SIZE>>,
     <<Busy(r), 97>>} \cup
    {<<Cpu(i, e).busy, 9500>> : i \in 1..4} \cup
    (IF r[2] = r[5] THEN {<<GrownBy(r), CDriveUsed(r, e) - C_BASE + 90000>>} ELSE {})
==============================================================================
