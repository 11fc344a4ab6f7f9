------------------------------ MODULE PaymentApi ------------------------------
(* The agent answer of hosts/payment-api: a worker crashes and stays down, and *)
(* the host looks fine.  Two states; a toggle is instant, the rest ramps.      *)
EXTENDS AgentMath

Reads == 4
Broken(r) == r[1].state = "broken"

\* worker_leak_kb and ramp(180)
Leak(r)   == IF Broken(r) THEN Least(450000, 6600 * Most(0, r[2].brk)) ELSE 0
Net(r)    == Ramp(r[3].brk, 30)
\* Three workers are gone, the survivor leaks.
AnonShift(r) == IF Broken(r) THEN Leak(r) - 720000 ELSE 0

Filesystems(e) ==
    {<<Filling(7130000, 943718, 1572864, 60000, e), 20961280>>,
     <<Filling(30408704, 524288 + 2097152, 4194304, 150000, e), 52428800>>}

Memory(r, e) ==
    LET shift == AnonShift(r)
        free  == GaugeFrac(2650000 - shift, 2, e)
    IN  [Meminfo(8028400, 2097148, 2097148, free, 1910000, 182000, 0, 224000, 2350000 + shift,
                 81920, 3260000 + ((115 * (shift \div 100))), <<50, 50>>)
         EXCEPT !.available = GaugeFrac(4870000 - shift, 1, e),
                !.active = 1530000 + shift + 642000, !.inactive = 901920 + 1368080]

Load(r, e) == LET base == Lerp(55, 42, Net(r))
              IN  <<LoadOf(base, 100, 22, e), LoadOf(base, 100, 12, e), LoadOf(base, 100, 6, e)>>

\* Ticks, in hundredths: idle is what the busy rates leave of 400 a second.
Ticks(r, e) ==
    LET busy == GaugeFrac(Lerp(3500, 2400, Net(r)) + Lerp(1200, 1000, Net(r)) + 400, 30, e)
    IN  [busy |-> busy, idle |-> 40000 - busy]

\* Packets, and bytes as packets times a frame that shrinks.
RxBytes(r, e) == Lerp(950, 1150, Net(r)) * GaugeFrac(100 * Lerp(189, 178, Net(r)), 12, e)
TxBytes(r, e) == Lerp(900, 640, Net(r)) * GaugeFrac(100 * Lerp(356, 86, Net(r)), 12, e)

Rates(r, e) ==
    {Ticks(r, e).busy, Ticks(r, e).idle, Lerp(26, 36, Net(r)), Lerp(18, 26, Net(r)),
     Lerp(22, 28, Net(r)), Lerp(14, 4, Net(r)), Lerp(10, 3, Net(r)), Lerp(14, 6, Net(r)),
     Lerp(950, 1150, Net(r)), Lerp(900, 640, Net(r)), RxBytes(r, e), TxBytes(r, e),
     Lerp(2400, 1700, Net(r))}

Sockets(r, e) ==
    [established |-> GaugeAbs(Lerp(26, 17, Net(r)), 4, e),
     time_wait   |-> GaugeAbs(34 + (IF Broken(r) THEN Least(58, 2 * Most(0, r[4].brk)) ELSE 0), 5, e)]

\* gunicorn: one worker is left of four, and the settlement worker is gone.
Workers(r) == IF Broken(r) THEN {240000 + Leak(r)} ELSE {240000, 253000}
Processes(r) == {<<"daemon", 47800>>, <<"gunicorn", Max(Workers(r))>>} \cup
                (IF Broken(r) THEN {} ELSE {<<"worker", 168000>>})

Units(r) == {<<"payment-api", "running">>,
             <<"payment-worker", IF Broken(r) THEN "failed" ELSE "running">>,
             <<"daemon", "running">>, <<"oneshot", "exited">>}

Answers(r) == TRUE

Services(r, e) ==
    [Memory |-> MemoryLevel(Memory(r, e)), Load |-> LoadLevel(Load(r, e)[3], 4),
     Disks  |-> DisksLevel(Filesystems(e)), Units |-> UnitsLevel(Units(r))]

Parts(r, e) ==
    MemoryParts(Memory(r, e)) \cup Filesystems(e) \cup
    {<<p[2], Memory(r, e).anon>> : p \in Processes(r)} \cup
    {<<Ticks(r, e).busy, 40000>>}
==============================================================================
