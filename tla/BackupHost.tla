------------------------------- MODULE BackupHost -------------------------------
(* The agent answer of hosts/backup-01, which has no incident: nightly jobs and  *)
(* a large volume, counted in MiB.                                               *)
EXTENDS AgentMath

Reads == 0

BKP_SIZE == 4194304
\* The used part of the volume is kept between 67 and 72 percent.
BackupUsed(e) ==
    Most((BKP_SIZE \div 100) * 67,
         Least((BKP_SIZE \div 100) * 72, Filling((BKP_SIZE \div 1000) * 695, 5120, 5120, 97, e)))
Filesystems(e) == {<<Filling(10485760, 819200, 524288, 40000, e), 41943040>>,
                   <<BackupUsed(e), BKP_SIZE>>}

Memory(e) ==
    LET total  == 8388608
        swap   == 2097152
        cached == GaugeFrac(2200000, 2, e)
        caches == cached + 180000 + 380000
        free   == Most(200000, total - 3600000 - caches)
        anon   == Most(1000000, total - free - caches - 500000)
    IN  Meminfo(total, swap, swap, free, cached, 180000, 0, 380000, anon, 32768,
                GaugeFrac(4100000, 1, e), <<55, 30>>)

Load(e) == <<Most(1, GaugeFrac(2800, 30, e) \div 100), Most(1, GaugeFrac(2200, 16, e) \div 100),
             Most(1, GaugeFrac(1800, 8, e) \div 100)>>

Rates(r, e) == {20, 8, 360, 4, 3, 2, 8, 5, 6, 12, 35, 28, 32, 90000, 70000, 220, 180}

DiskTemperatures(e) == {(GaugeAbs(280, 10, e) + 5) \div 10, (GaugeAbs(300, 12, e) + 5) \div 10}

\* _last_daily in minutes of the day, and the ages of the nightly jobs.
LastDaily(at, hour, minute) ==
    LET t == (60 * hour) + minute IN IF t <= at THEN t ELSE t - 1440
JobAge(at, job) == at - LastDaily(at, job[1], job[2])
Jobs == {<<1, 7>>, <<3, 7>>}
\* Any minute of the day may be now; a few stand for all.
Minutes == {0, 66, 67, 186, 187, 195, 1439}

Processes == {<<"daemon", 41200>>, <<"bash", 4100>>}

Units == {<<"restic-backup", "exited">>, <<"restic-prune", "exited">>, <<"timer", "waiting">>,
          <<"daemon", "running">>}

Answers(r) == TRUE

Services(r, e) ==
    [Memory |-> MemoryLevel(Memory(e)), Load |-> LoadLevel(Load(e)[3], 4),
     Disks  |-> DisksLevel(Filesystems(e)), Units |-> UnitsLevel(Units),
     Story  |-> Max({Level(t, 35, 40) : t \in DiskTemperatures(e)})]

Parts(r, e) ==
    MemoryParts(Memory(e)) \cup Filesystems(e) \cup
    {<<p[2], Memory(e).anon>> : p \in Processes} \cup
    {<<JobAge(at, job), 1439>> : at \in Minutes, job \in Jobs}
==============================================================================
