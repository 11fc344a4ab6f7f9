------------------------------ MODULE WebFrontend ------------------------------
(* The agent answer of hosts/web-frontend-01, which has no incident: a proxy    *)
(* with much page cache and no swap.                                            *)
EXTENDS AgentMath

Reads == 0

Filesystems(e) == {<<Filling(11534336, 0, 1572864, 65536, e), 41943040>>,
                   <<Filling(1887437, 1703936, 0, 32768, e), 10485760>>,
                   <<198432, 2621440>>, <<86210, 655360>>}

Memory(e) ==
    LET total    == 16384000
        cached   == GaugeFrac(6400000, 3, e)
        buffers  == GaugeFrac(380000, 4, e)
        sreclaim == GaugeFrac(512000, 3, e)
        shmem    == GaugeFrac(655360, 2, e)
        anon     == GaugeFrac(1900000, 3, e)
        free     == Most(200000, total - anon - shmem - cached - buffers - sreclaim)
    IN  Meminfo(total, 0, 0, free, cached, buffers, 0, sreclaim, anon, shmem,
                GaugeFrac(3500000, 3, e), <<62, 38>>)

Load(e) == <<Most(1, LoadOf(60, 100, 30, e)), Most(1, LoadOf(60, 92, 18, e)),
             Most(1, LoadOf(60, 85, 10, e))>>

Rates(r, e) == {60, 20, 310, 8, 3, 2, 12, 10, 8000000, 6000000, 4000, 3400, 5500, 6}

DiskTemperature(e) == (GaugeAbs(270, 13, e) + 5) \div 10

Sockets(e) == [established |-> Most(80, GaugeAbs(120, 18, e)),
               time_wait   |-> Most(30, GaugeAbs(80, 15, e))]

\* The workers map the shared zones.
WorkerRss(i, e) == GaugeFrac(180000, 4, e) + (4096 * i)

Processes(e) == {<<"daemon", 18600>>, <<"nginx", 4100>>} \cup
                {<<"nginx-worker", WorkerRss(i, e)>> : i \in 0..3}

Units == {<<"nginx", "running">>, <<"certbot", "running">>, <<"daemon", "running">>,
          <<"oneshot", "exited">>}

Answers(r) == TRUE

Services(r, e) ==
    [Memory |-> MemoryLevel(Memory(e)), Load |-> LoadLevel(Load(e)[3], 4),
     Disks  |-> DisksLevel(Filesystems(e)), Units |-> UnitsLevel(Units),
     Story  |-> Level(DiskTemperature(e), 35, 40)]

Parts(r, e) ==
    MemoryParts(Memory(e)) \cup Filesystems(e) \cup
    {<<p[2], 1310720>> : p \in Processes(e)} \cup {<<30, Sockets(e).time_wait>>}
==============================================================================
