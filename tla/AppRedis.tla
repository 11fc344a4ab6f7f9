------------------------------- MODULE AppRedis -------------------------------
(* The agent answer of hosts/app-redis-01: a cache filled to maxmemory.      *)
EXTENDS AgentMath

LEAK_FILL_MIN == 15
BREAK_RAMP    == 30

\* Which reading of the incident goes where.
Reads == 10
Pressure(deg, brk, later) == Climb(deg, brk, later, LEAK_FILL_MIN, 70, BREAK_RAMP)
P(r) == Pressure(r[2].deg, r[3].brk, r[4].brk)

REDIS_MAXMEMORY == 6291456

Squared(x)  == (x * x) \div 100

\* (mutant: the noise is added after the maximum)
UsedLoose(p, e) == GaugeFrac((REDIS_MAXMEMORY \div 100) * Lerp(40, 100, p), 1, e)

\* The memory of the data set is at most the maximum, noise and all.
Used(p, e) == Least(REDIS_MAXMEMORY, GaugeFrac((REDIS_MAXMEMORY \div 100) * Lerp(40, 100, p), 1, e))

\* _redis_derived; eviction starts when the cache is half way to its maximum.
Derived(r, e) ==
    LET p == Pressure(r[5].deg, r[6].brk, r[7].brk) IN
    [used_memory |-> Used(p, e),
     hit_ratio   |-> Lerp(992, 620, (Squared(p) * p) \div 100),
     evict_rate  |-> IF p < 50 THEN 0 ELSE Lerp(0, 5200, Squared(2 * (p - 50))),
     blocked     |-> IF r[8].brk > 0 THEN Lerp(0, 34, Ramp(r[9].brk, BREAK_RAMP)) ELSE 0,
     connected   |-> GaugeAbs(Lerp(118, 196, p), 4, e),
     mem_frag    |-> Lerp(118, 102, p)]

Rss(r, e) == Derived(r, e).used_memory + 180000

Memory(r, e) ==
    LET p         == P(r)
        total     == 16384000
        swap      == 4194300
        anon      == Rss(r, e) + 1350000
        cached    == GaugeFrac(Lerp(6500000, 2400000, p), 2, e)
        buffers   == GaugeFrac(240000, 3, e)
        sreclaim  == 412160
        caches    == cached + buffers + sreclaim
        free      == Most(300000, total - anon - caches - 700000)
    IN  Meminfo(total, swap, swap, free, cached, buffers, 0, sreclaim, anon, 49152,
                GaugeFrac(anon + caches + 1200000, 1, e), <<62, 34>>)

Load(p, e) == LET base == Lerp(55, 260, p)
              IN  <<LoadOf(base, 100, 25, e), LoadOf(base, 94, 14, e), LoadOf(base, 88, 7, e)>>

\* The rates of the counters that depend on the incident.
Rates(r, e) ==
    LET p == P(r) IN
    {Lerp(46, 92, p), Lerp(22, 50, p), Lerp(322, 252, p), Lerp(4, 9, p),
     Lerp(3, 8, p), Lerp(2, 6, p), Lerp(28, 70, p), Lerp(20, 60, p), Lerp(24, 90, p),
     Lerp(2400000, 2900000, p), Lerp(3100000, 2200000, p), Lerp(8000, 6400, p),
     Lerp(120, 150, p), Lerp(7600, 4100, p), Lerp(80, 2600, p), Derived(r, e).evict_rate}

\* filesystem_usage, with the sizes of the section df
Filesystems(e) == {<<Filling(11534336, 1048576, 1572864, 80000, e), 41943040>>,
                   <<Filling(6291456, 1572864, 2097152, 120000, e), 41943040>>}

\* The text of the last background save.
BgsaveOk(r) == ~(r[1].state = "broken" /\ Ramp(r[10].brk, BREAK_RAMP) > 50)

\* The section redis_info, of the values that come from the incident.
RedisInfo(r, e) ==
    LET d == Derived(r, e) IN
    [used_memory |-> d.used_memory, peak |-> Most(d.used_memory, (REDIS_MAXMEMORY \div 100) * 42),
     maxmemory |-> REDIS_MAXMEMORY, connected |-> d.connected, blocked |-> d.blocked,
     bgsave |-> IF BgsaveOk(r) THEN "ok" ELSE "err",
     keys |-> Lerp(420000, 1180000, P(r)), expires |-> Lerp(390000, 410000, P(r))]

\* The processes are ten daemons and the server.
Processes(r, e) == {<<"daemon", 39800>>, <<"redis-server", Rss(r, e)>>}

\* All thirty units are active.
Units(r) == {<<"redis-server", "running">>, <<"daemon", "running">>, <<"oneshot", "exited">>}

Answers(r) == TRUE

Services(r, e) ==
    [Memory |-> MemoryLevel(Memory(r, e)), Load |-> LoadLevel(Load(P(r), e)[3], 4),
     Disks  |-> DisksLevel(Filesystems(e)),
     Units  |-> UnitsLevel(Units(r)),
     Story  |-> IF RedisInfo(r, e).bgsave = "err" THEN WARN ELSE OK]

Parts(r, e) ==
    LET i == RedisInfo(r, e) IN
    MemoryParts(Memory(r, e)) \cup Filesystems(e) \cup
    {<<i.used_memory, i.peak>>, <<i.peak, i.maxmemory>>, <<i.expires, i.keys>>,
     <<i.blocked, i.connected>>} \cup
    {<<q[2], Memory(r, e).anon>> : q \in Processes(r, e)}
==============================================================================
