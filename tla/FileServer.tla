------------------------------- MODULE FileServer -------------------------------
(* The agent answer of hosts/fileserver-01: a log that is not rotated fills   *)
(* the data volume.  The volume is counted in MiB.                            *)
EXTENDS AgentMath

FILL_RAMP_MIN == 16
BREAK_RAMP    == 40

Reads == 17
Pressure(deg, brk, later) == Climb(deg, brk, later, FILL_RAMP_MIN, 74, BREAK_RAMP)
P(r) == Pressure(r[2].deg, r[3].brk, r[4].brk)

SRV_SIZE  == 2097152
ROOT_SIZE == 41943040
HOME_SIZE == 524288000

\* srv_used_kb: the fraction in ten-thousandths.  The retention prune and the
\* wobble fade out as the incident takes over.
SrvFraction(p, e) ==
    LET quiet == Most(0, 100 - ((100 * p) \div 30))
    IN  Most(5000, Least(9950, 5500 + (IF e.old THEN 120 ELSE 0) + (42 * p)
                               + (((100 - e.tooth) * quiet) \div 100) + ((15 * e.d * quiet) \div 100)))
SrvUsed(r, e) ==
    (SRV_SIZE \div 10000) * SrvFraction(Pressure(r[5].deg, r[6].brk, r[7].brk), e)

RootUsed(e) == Filling(13107200, 1572864, 1048576, 70000, e)
HomeUsed(e) == Filling(246000000, 4194304, 8388608, 300000, e)
Filesystems(r, e) ==
    {<<SrvUsed(r, e), SRV_SIZE>>, <<RootUsed(e), ROOT_SIZE>>, <<HomeUsed(e), HOME_SIZE>>}

\* runaway_log_bytes, in MiB
RunawayLog(r, e) ==
    LET p == Pressure(r[11].deg, r[12].brk, r[13].brk)
    IN  Most(6, GaugeAbs(6 + (5340 * p), 2, e))

\* fill_rate_gb_per_h and hours_until_full of the control page (GiB an hour,
\* tenths of an hour).
FillRate(deg) == IF deg <= 0 THEN 0 ELSE ((((SRV_SIZE \div 100) * 42) \div FILL_RAMP_MIN) * 60) \div 1024
HoursUntilFull(deg, used) ==
    IF FillRate(deg) = 0 THEN None ELSE (10 * (Most(0, SRV_SIZE - used) \div 1024)) \div FillRate(deg)

Memory(e) ==
    LET total   == 16384000
        swap    == 4194300
        cached  == GaugeFrac(9400000, 3, e)
        buffers == GaugeFrac(540000, 5, e)
        anon    == GaugeFrac(2350000, 2, e)
        free    == Most(180000, total - anon - 700000 - cached - buffers - 612352)
    IN  Meminfo(total, swap, swap, free, cached, buffers, 0, 612352, anon, 65536,
                GaugeFrac(4900000, 1, e), <<58, 46>>)

Load(p, e) == LET base == Lerp(50, 180, p)
              IN  <<LoadOf(base, 100, 30, e), LoadOf(base, 90, 16, e), LoadOf(base, 82, 8, e)>>

Rates(r, e) ==
    LET p == P(r) IN
    {Lerp(28, 40, p), Lerp(34, 70, p), Lerp(330, 286, p), Lerp(8, 24, p),
     Lerp(5, 7, p), Lerp(3, 4, p), Lerp(14, 18, p), Lerp(11, 14, p), Lerp(16, 22, p),
     Lerp(40, 48, p), Lerp(180, 210, p), Lerp(55, 220, p), Lerp(240, 520, p), Lerp(120, 360, p)}

\* The importer runs while anything is filled.
Processes(r) ==
    {<<"daemon", 21100>>, <<"smbd", 31800>>, <<"nmbd", 8900>>, <<"nfsd", 0>>} \cup
    (IF P(r) > 0 THEN {<<"import_batch", 24600>>} ELSE {})

Units == {<<"smbd", "running">>, <<"nmbd", "running">>, <<"nfs-server", "running">>,
          <<"daemon", "running">>, <<"oneshot", "exited">>}

Answers(r) == TRUE

Services(r, e) ==
    [Memory |-> MemoryLevel(Memory(e)), Load |-> LoadLevel(Load(P(r), e)[3], 4),
     Disks  |-> DisksLevel(Filesystems(r, e) \ {<<SrvUsed(r, e), SRV_SIZE>>}),
     Units  |-> UnitsLevel(Units),
     Story  |-> FilesystemLevel(SrvUsed(r, e), SRV_SIZE)]

\* The log is a file of the volume.
Parts(r, e) ==
    MemoryParts(Memory(e)) \cup Filesystems(r, e) \cup
    (IF r[5] = r[11] THEN {<<RunawayLog(r, e), SrvUsed(r, e)>>} ELSE {})
==============================================================================
