---------------------------- MODULE PostgresPrimary ----------------------------
(* The agent answer of hosts/db-postgres-01: a disk dies slowly and does not    *)
(* say so.                                                                      *)
EXTENDS AgentMath

BREAK_RAMP      == 40
CONFESSION_MIN  == 8

Reads == 14
Dying(r)  == r[1].state # "healthy"
Broken(r) == r[1].state = "broken"
\* break_ramp(frac): each signal reads the incident for itself.
R(r, i, frac) == Ramp(r[i].brk, (BREAK_RAMP * frac) \div 100)

\* smart_attrs.  The temperature in tenths; after the confession the attributes
\* cascade.
SmartAttrs(deg, brk) ==
    LET c       == brk - CONFESSION_MIN
        realloc == IF c < 10 THEN 0 ELSE Least(12, (3 * (c - 10)) \div 2)
    IN  [temp      |-> IF deg <= 0 THEN 300 ELSE 300 + Least(80, 14 * deg),
         uncorrect |-> IF deg <= 0 \/ c < 5 THEN 0 ELSE Least(6, 1 + ((c - 5) \div 7)),
         realloc   |-> IF deg <= 0 THEN 0 ELSE realloc,
         pending   |-> IF deg <= 0 \/ c <= 0 THEN 0
                       ELSE Most(2, Least(24, (4 + (c \div 3)) - (realloc \div 3)))]
Smart(r, e) == LET s == SmartAttrs(r[9].deg, r[10].brk)
               IN  [s EXCEPT !.temp = GaugeAbs(@, 13, e)]

Filesystems(e) ==
    {<<Filling(15204352, 1258291, 2097152, 120000, e), 41943040>>,
     <<Filling(123731968, 1572864 + 8388608, 6291456, 300000, e), 468713472>>}

\* The part of the memory the disk holds back.
Dirty(r, e)     == Most(8192, GaugeFrac(20480, 12, e) + Least(901120, 90000 * Most(0, r[3].brk)))
Writeback(r, e) == GaugeFrac((196608 * R(r, 2, 50)) \div 100, 10, e)

\* The LRU lists are fixed.
Memory(r, e) ==
    [Meminfo(16384000, 4194300, 4194300,
             GaugeFrac(Lerp(2867200, 2457600, R(r, 2, 50)), 2, e), 6963200, 184320, 0, 532480,
             5662310, 2621440, 7028736, <<50, 50>>)
     EXCEPT !.available = GaugeFrac(Lerp(7864320, 7600000, R(r, 2, 50)), 1, e),
            !.active = 6187420, !.inactive = 6622410]

Load(r, e) == <<LoadOf(Lerp(85, 4900, R(r, 4, 55)), 100, 22, e),
                LoadOf(Lerp(85, 4650, R(r, 5, 75)), 100, 12, e),
                LoadOf(Lerp(85, 4400, R(r, 6, 100)), 100, 6, e)>>

\* The ticks of a second: the busy rates are scaled down when they would leave
\* nothing, and idle is what is left.
Ticks(r, e) ==
    LET c    == R(r, 7, 60)
        busy == Least(396, GaugeFrac(100 * (Lerp(60, 25, c) + Lerp(25, 18, c) + Lerp(12, 315, c)),
                                     30, e) \div 100)
    IN  [busy |-> busy, idle |-> 400 - busy]

\* The data disk; storms come and go.
DataDisk(r, e) ==
    LET d     == R(r, 8, 50)
        storm == e.d = 1
        base_rdt == IF storm THEN 360 ELSE 55
        base_iot == IF storm THEN 420 ELSE 130
    IN  IF Dying(r)
        THEN [rd_ios |-> Lerp(45, 55, d), rd_ticks |-> Lerp(base_rdt, 11000, d),
              wr_ios |-> Lerp(120, 30, d), wr_ticks |-> Lerp(70, 2200, d),
              io_ticks |-> GaugeFrac(100 * Lerp(base_iot, 990, d), 1, e) \div 100,
              queue |-> (IF storm THEN 5 ELSE 0) + (d \div 10)]
        ELSE [rd_ios |-> 45, rd_ticks |-> 18, wr_ios |-> 120, wr_ticks |-> 60,
              io_ticks |-> 75, queue |-> IF storm THEN 1 ELSE 0]

\* The sessions: the same in ps, sessions, connections and numbackends.
RunSess(r)     == Lerp(2, 24, R(r, 11, 75))
IdleSess(r, e) == Lerp(IF e.d = 1 THEN 8 ELSE 6, 2, R(r, 11, 75))
Sessions(r, e) == <<IdleSess(r, e), RunSess(r)>>

\* pg_stat_database, per second; the size of the database follows the inserts.
Payments(r) ==
    LET p == R(r, 12, 60) IN
    {Lerp(380, 35, p), Lerp(40, 55, p), Lerp(9000, 700, p), Lerp(14000, 1100, p),
     Lerp(5000, 400, p), Lerp(120, 8, p), Lerp(90, 6, p), Lerp(2, 0, p)}
PaySize(rows, seed) == 640 * Most(0, rows - seed)

QueryDuration(r) == IF Broken(r) THEN 47 + (60 * Most(0, r[13].brk)) ELSE 3
Locks(r)         == 4 + ((5 * R(r, 11, 75)) \div 100) + ((2 * R(r, 11, 75)) \div 100)
ConnTime(r, e)   == GaugeFrac(100 * Lerp(12, 1900, R(r, 14, 75)), 15, e) \div 100

Rates(r, e) == {Ticks(r, e).idle, Ticks(r, e).busy} \cup Payments(r) \cup
               {DataDisk(r, e)[f] : f \in {"rd_ios", "rd_ticks", "wr_ios", "wr_ticks", "io_ticks"}}

\* last_scheduled: the last daily run.
LastScheduled(minute, at) == (at - minute) + (IF at > minute THEN -1440 ELSE 0)

\* PS_DAEMONS: when after the boot a daemon starts and what it keeps; it is
\* never older than the host.
Daemons == {[boot |-> 2, rss |-> 13200], [boot |-> 15, rss |-> 34200], [boot |-> 30, rss |-> 7400]}
Elapsed(daemon, uptime) == Most(0, uptime - daemon.boot)

\* The rows of ps: daemons, the helpers and the backends of the server.
Processes(r, e) == {d.rss : d \in Daemons} \cup {2350000, 156000} \cup
                   {180000 + (((i * 37) % 240) * 1000) : i \in 1..(Sessions(r, e)[1] + Sessions(r, e)[2])}

Units == {<<"postgresql", "running">>, <<"pgbouncer", "running">>, <<"smartmontools", "running">>,
          <<"daemon", "running">>, <<"oneshot", "exited">>}

Answers(r) == TRUE

\* SMART compares with the zeroes of the discovery; the temperature has levels
\* of its own.
Services(r, e) ==
    LET s == Smart(r, e) IN
    [Memory |-> MemoryLevel(Memory(r, e)), Disks |-> DisksLevel(Filesystems(e)),
     Units |-> UnitsLevel(Units), Load |-> LoadLevel(Load(r, e)[3], 4),
     Temperature |-> Level((s.temp + 5) \div 10, 35, 40),
     Smart |-> IF s.pending + s.realloc + s.uncorrect > 0 THEN CRIT ELSE OK,
     Story |-> Most(Level(RunSess(r), 80, 90), Level(IdleSess(r, e), 80, 90))]

\* Utilisation in thousandths: a disk is at most busy all the time.
Parts(r, e) ==
    LET m == Memory(r, e) IN
    MemoryParts(m) \cup Filesystems(e) \cup
    {<<DataDisk(r, e).io_ticks, 1000>>, <<Dirty(r, e) + Writeback(r, e), m.cached>>,
     <<Ticks(r, e).busy, 400>>, <<Sessions(r, e)[1] + Sessions(r, e)[2], 100>>,
     <<ConnTime(r, e), 2500>>} \cup
    {<<Elapsed(d, up), up>> : d \in Daemons, up \in {0, 16, 1036800}} \cup
    {<<rss, m.anon>> : rss \in Processes(r, e)} \cup
    {<<SmartAttrs(r[9].deg, r[10].brk).pending, 24>>}
==============================================================================
