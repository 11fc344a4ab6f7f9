------------------------------- MODULE AppWorker -------------------------------
(* The agent answer of hosts/app-worker-01: a worker that leaks memory until *)
(* the kernel kills it.                                                      *)
EXTENDS AgentMath

LEAK_FILL_MIN == 18
BREAK_RAMP    == 40

Reads == 7
Pressure(deg, brk, later) == Climb(deg, brk, later, LEAK_FILL_MIN, 78, BREAK_RAMP)
P(r) == Pressure(r[2].deg, r[3].brk, r[4].brk)

\* How far swap is in use, past 35 % pressure.
Swapping(p) == Most(0, Least(100, (100 * (p - 35)) \div 65))

Memory(r, e) ==
    LET p         == P(r)
        total     == 16384000
        swap      == 4194300
        cached    == GaugeFrac(Lerp(6000000, 900000, p), 2, e)
        buffers   == Lerp(180000, 40000, p)
        sreclaim  == Lerp(488256, 144000, p)
        scached   == Lerp(0, 120000, Swapping(p))
        caches    == cached + buffers + scached + sreclaim
        free      == Most(120000, total - Lerp(6500000, 15200000, p) - caches)
        anon      == Most(2000000, total - free - caches - 700000)
    IN  Meminfo(total, swap, Most(40000, swap - Lerp(0, 3950000, Swapping(p))), free, cached,
                buffers, scached, sreclaim, anon, 49152,
                GaugeFrac(Lerp(7000000, 16800000, p), 1, e), <<57, 31>>)

Load(p, e) == LET base == Lerp(70, 750, p)
              IN  <<LoadOf(base, 100, 25, e), LoadOf(base, 92, 14, e), LoadOf(base, 84, 7, e)>>

Rates(r, e) ==
    LET p == P(r) IN
    {Lerp(70, 150, p), Lerp(30, 95, p), Lerp(280, 95, p), Lerp(10, 60, p), Lerp(1, 760, p),
     Lerp(6, 140, p), Lerp(4, 90, p), Lerp(20, 60, p), Lerp(15, 70, p), Lerp(22, 240, p),
     Lerp(38, 3, p)}

Filesystems(e) == {<<Filling(13631488, 1048576, 1572864, 80000, e), 41943040>>,
                   <<Filling(28311552, 2097152, 3145728, 160000, e), 83886080>>}

JavaRss(p) == Lerp(2500000, 12800000, p)

\* The line of the worker formats a fraction of seconds as a decimal integer,
\* which raises; it does so in the broken state only, and the answer is lost.
Answers(r) == r[1].state # "broken"

Processes(r) == {<<"daemon", 41200>>, <<"java", JavaRss(P(r))>>}

Units(r) ==
    {<<"order-worker", IF r[1].state = "broken" THEN "failed" ELSE "running">>,
     <<"daemon", "running">>, <<"oneshot", "exited">>}

\* oom_kills, shown on the control page.
OomKills(brk) == IF brk <= 0 THEN 0 ELSE 1 + ((brk * 60) \div 90)

Services(r, e) ==
    [Memory |-> MemoryLevel(Memory(r, e)), Load |-> LoadLevel(Load(P(r), e)[3], 4),
     Disks  |-> DisksLevel(Filesystems(e)),
     Units  |-> UnitsLevel(Units(r))]

Parts(r, e) ==
    MemoryParts(Memory(r, e)) \cup Filesystems(e)
==============================================================================
