------------------------------- MODULE MailRelay -------------------------------
(* The agent answer of hosts/mail-relay-01: mail that cannot be delivered     *)
(* stays in the deferred queue.                                               *)
EXTENDS AgentMath

DEFER_CLIMB_MIN == 16
BREAK_RAMP      == 30
DEFER_DEGRADED_PLATEAU == 18
DEFER_BROKEN_RATE == 48         \* mails a minute

Reads == 12

\* deferred_count, in tenths of a mail until it is rounded: the base wanders,
\* the breadcrumb climbs to the plateau, the broken state adds to the plateau.
DeferredCount(deg, brk, later, e) ==
    LET base  == Most(0, GaugeAbs(20, 12, e))
        climb == IF deg <= 0 THEN base
                 ELSE Lerp(base, 10 * DEFER_DEGRADED_PLATEAU, Least(100, (100 * deg) \div DEFER_CLIMB_MIN))
        count == IF brk <= 0 THEN climb
                 ELSE Most(climb, 10 * DEFER_DEGRADED_PLATEAU +
                                  ((DEFER_BROKEN_RATE * brk * Ramp(later, BREAK_RAMP)) \div 10))
    IN  (count + 5) \div 10

Deferred(r, e) == DeferredCount(r[2].deg, r[3].brk, r[4].brk, e)
Active(e)      == Most(0, GaugeAbs(4, 2, e))

\* filesystem_usage counts the queue again for the spool.
Filesystems(r, e) ==
    {<<Filling(11534336, 1048576, 1048576, 70000, e), 41943040>>,
     <<Filling(1572864, 0, 262144, 40000, e) + (42 * DeferredCount(r[9].deg, r[10].brk, r[11].brk, e)),
       20971520>>}
Inodes(r, e) == {<<38000 + Deferred(r, e) + Active(e), 1310720>>, <<248114, 2621440>>}

Memory(e) ==
    LET total   == 8175104
        swap    == 2097148
        cached  == GaugeFrac(3900000, 2, e)
        buffers == GaugeFrac(210000, 3, e)
        caches  == cached + buffers + 196608
        free    == Most(160000, total - GaugeFrac(1750000, 3, e) - caches)
        anon    == Most(900000, total - free - caches - 360000)
    IN  Meminfo(total, swap, swap, free, cached, buffers, 0, 196608, anon, 24576,
                GaugeFrac(2700000, 1, e), <<55, 33>>)

Load(e) == LET base == Most(5, GaugeFrac(2200, 30, e) \div 100)
           IN  <<LoadOf(base, 100, 25, e), LoadOf(base, 95, 14, e), LoadOf(base, 90, 7, e)>>

\* Writes grow a little, the network loses what is no longer delivered.
Rates(r, e) ==
    LET broken == r[1].state = "broken"
        sent(healthy, low, a, b) ==
            IF r[a].brk > 0 THEN Lerp(healthy, low, Ramp(r[b].brk, BREAK_RAMP)) ELSE healthy
    IN  {14, 7, 176, 2, 4, 3, 90000, 310,
         14 + (IF broken THEN 8 ELSE 0), 11 + (IF broken THEN 6 ELSE 0),
         16 + (IF broken THEN 10 ELSE 0), sent(70000, 9000, 5, 6), sent(280, 60, 7, 8)}

\* postfix_mailq and postfix_mailq_status
Mailq(r, e) == [deferred |-> Deferred(r, e), active |-> Active(e), running |-> TRUE]

\* The delivery agents: more while they hang on the dead relay.
SmtpAgents(r) == 1 + (IF r[1].state = "broken" THEN 4 ELSE IF r[12].deg > 0 THEN 2 ELSE 0)
Processes(r)  == {<<"daemon", 16800>>, <<"master", 6200>>, <<"qmgr", 6600>>, <<"pickup", 5400>>,
                  <<"tlsmgr", 6800>>, <<"smtp", 6700 * SmtpAgents(r)>>}

Units == {<<"postfix", "running">>, <<"daemon", "running">>, <<"oneshot", "exited">>}

Answers(r) == TRUE

Services(r, e) ==
    [Memory |-> MemoryLevel(Memory(e)), Load |-> LoadLevel(Load(e)[3], 2),
     Disks  |-> DisksLevel(Filesystems(r, e) \cup Inodes(r, e)),
     Units  |-> UnitsLevel(Units),
     Story  |-> Most(Level(Mailq(r, e).deferred, 10, 20), Level(Mailq(r, e).active, 200, 300))]

Parts(r, e) == MemoryParts(Memory(e)) \cup Filesystems(r, e) \cup Inodes(r, e) \cup
               {<<Active(e), 200>>}
==============================================================================
