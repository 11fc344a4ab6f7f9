----------------------------- MODULE PostgresReplica -----------------------------
(* The agent answer of hosts/db-postgres-02: a client leaks connections until   *)
(* hardly a slot is free.                                                       *)
EXTENDS AgentMath

LEAK_FILL_MIN   == 16
BREAK_RAMP_MIN  == 4
MAX_CONNECTIONS == 200
HEALTHY_CONNS   == 30
DEGRADED_PEAK   == 150
BROKEN_CAP      == MAX_CONNECTIONS - 6

Reads == 4

\* 100 exp(-t/4) for whole minutes
Decay(t) == IF t > 7 THEN 10 ELSE <<100, 78, 61, 47, 37, 29, 22, 17>>[Most(0, t) + 1]

\* connection_counts: what is idle, what is active.
ConnectionCounts(r, e) ==
    LET deg     == r[2].deg
        brk     == r[3].brk
        active  == Most(1, GaugeAbs(4, 1, e))
        leak    == Lerp(90, DEGRADED_PEAK, Least(100, (100 * deg) \div LEAK_FILL_MIN))
        runaway == Lerp(DEGRADED_PEAK, 184, Least(100, (100 * brk) \div BREAK_RAMP_MIN))
        creep   == ((BROKEN_CAP - 184) * (100 - Decay(brk))) \div 100
        total   == IF brk > 0 THEN Most(leak, runaway + creep) ELSE leak
    IN  [active |-> active,
         idle   |-> IF deg <= 0 THEN Most(1, GaugeAbs(HEALTHY_CONNS - 4, 3, e))
                    ELSE Most(HEALTHY_CONNS, Least(BROKEN_CAP - active, GaugeAbs(total, 1, e)))]

Total(r, e) == ConnectionCounts(r, e).idle + ConnectionCounts(r, e).active

\* Every backend costs a little memory.
Memory(r, e) ==
    LET backends == Total(r, e) * 2560
        free     == Most(1800000, GaugeFrac(3100000, 1, e) - backends)
    IN  [Meminfo(16384000, 4194300, 4194300, free, 6700000, 194560, 0, 511360, 5388420, 2621440,
                 GaugeFrac(6900000 + backends, 1, e), <<50, 50>>)
         EXCEPT !.available = Most(2500000, GaugeFrac(8200000, 1, e) - backends),
                !.active = 6024110, !.inactive = 6390220]

Load(r, e) ==
    LET bump == Least(250, (100 * Total(r, e)) \div 90)
    IN  <<LoadOf(160 + bump, 100, 22, e), LoadOf(150 + ((9 * bump) \div 10), 100, 12, e),
          LoadOf(140 + ((8 * bump) \div 10), 100, 6, e)>>

Rates(r, e) == {48 + (Total(r, e) \div 20), 20, 320, 8, 5, 3, 10, 8, 14, 60, 25, 95, 48, 70,
                520000, 410000, 1600, 1500}

Filesystems(e) ==
    {<<Filling(14680064, 1048576, 1572864, 90000, e), 41943040>>,
     <<Filling(121634816, 1572864, 6291456, 300000, e), 468713472>>}

\* The daemons, and the helpers of the server; these share its buffers.
Processes == {<<"daemon", 21400>>, <<"checkpointer", 2350000>>, <<"walreceiver", 142000>>}

\* The backends of the section ps: running, idle, and the leaked ones, idle in
\* a transaction.
Backends(r, e) ==
    LET idle == ConnectionCounts(r, e).idle
    IN  [running |-> ConnectionCounts(r, e).active, idle |-> idle - ((2 * idle) \div 3),
         leaked  |-> (2 * idle) \div 3]
\* ps, sessions, connections and numbackends speak of the same connections.
Sessions(r, e)    == <<ConnectionCounts(r, e).idle, ConnectionCounts(r, e).active>>
Numbackends(r, e) == Total(r, e)

\* A backend whose transaction is open since the runaway started.
QueryDuration(r) ==
    {<<"active", 14>>} \cup
    (IF r[1].state = "broken" THEN {<<"idle in transaction", 60 + (60 * Most(0, r[4].brk))>>} ELSE {})

\* postgres_conn_time, in thousandths of a second
ConnTime(r, e) ==
    LET full == Most(0, Least(100, (100 * (Total(r, e) - 90)) \div (BROKEN_CAP - 90)))
    IN  GaugeFrac(100 * Lerp(12, 1600, full), 15, e) \div 100

Units == {<<"postgresql", "running">>, <<"pgbouncer", "running">>, <<"daemon", "running">>,
          <<"oneshot", "exited">>}

Answers(r) == TRUE

ConnectionLevel(n) == Level((100 * n) \div MAX_CONNECTIONS, 80, 90)

Services(r, e) ==
    [Memory |-> MemoryLevel(Memory(r, e)), Load |-> LoadLevel(Load(r, e)[3], 4),
     Disks  |-> DisksLevel(Filesystems(e)), Units |-> UnitsLevel(Units),
     Story  |-> Most(ConnectionLevel(ConnectionCounts(r, e).idle),
                     ConnectionLevel(ConnectionCounts(r, e).active))]

Parts(r, e) ==
    LET b == Backends(r, e)
        m == Memory(r, e)
    IN  Filesystems(e) \cup
        MemoryParts(m) \cup
        {<<p[2], m.anon>> : p \in Processes} \cup
        {<<Total(r, e) + 1, MAX_CONNECTIONS>>, <<b.running + b.idle + b.leaked, Numbackends(r, e)>>,
         <<Sessions(r, e)[1] + Sessions(r, e)[2], b.running + b.idle + b.leaked>>,
         <<ConnTime(r, e), 2000>>}
==============================================================================
