------------------------------ MODULE HostsProofs ------------------------------
(***************************************************************************)
(* Theorems about the simulated hosts (Hosts) and what the monitoring makes  *)
(* of their answers, for every host, every story up to five days old, any    *)
(* number of toggles and any tearing of the answers by them.                 *)
(*                                                                         *)
(* The invariant StoryInv says what the readings of an answer can be; the    *)
(* lemmas of each host say what build_agent_output makes of such readings:   *)
(*   ...Fits     it adds up (Sane)                                          *)
(*   ...Shows    the levels it shows, as functions of a few readings        *)
(*   ...Told     those of a story that is long in its state (StoryTold)      *)
(*   ...Onward   those of a later story are not better (NoRelief)            *)
(*   ...Torn     those of mixed readings are not worse (TornMild)            *)
(* The leaves name the prover: the figures of the hosts are too large for    *)
(* Zenon, except in the steps that are about no figure.                      *)
(***************************************************************************)
EXTENDS Hosts, TLAPS

\* The ages of a time stamp, and the stories that may be read.
Ages    == {None} \cup 0..Oldest
Reading == [state : {"healthy", "degraded", "broken"}, since : 0..Oldest,
            deg : Ages, brk : Ages, cleaned : Ages]

\* A figure within bounds; parts that are no more than their wholes; rates that
\* feed no counter backwards.
Within(x, low, high) == x \in Int /\ low <= x /\ x <= high
AddsUp(parts) == \A p \in parts : 0 <= p[1] /\ p[1] <= p[2]
Rising(rates) == \A rate \in rates : rate >= 0

------------------------------------------------------------------------------
(* What every host prints *)

\* What _meminfo prints adds up when the figures it is given leave room for
\* one another.
LEMMA MeminfoFits ==
    ASSUME NEW total \in Int, NEW swap \in Int, NEW swapfree \in Int, NEW free \in Int, NEW cached \in Int,
           NEW buffers \in Int, NEW swapcached \in Int, NEW sreclaim \in Int, NEW anon \in Int, NEW shmem \in Int,
           NEW committed \in Int, NEW x \in Int, NEW y \in Int,
           0 <= swapfree, swapfree <= swap, 0 <= free, 0 <= cached, 0 <= buffers, 0 <= swapcached, 0 <= sreclaim,
           0 <= anon, 0 <= shmem, 0 <= x, x <= 100, 0 <= y, y <= 100,
           free + cached + buffers + swapcached + sreclaim <= total,
           anon + shmem + cached + buffers <= total
    PROVE  AddsUp(MemoryParts(Meminfo(total, swap, swapfree, free, cached, buffers, swapcached, sreclaim, anon, shmem,
                                      committed, <<x, y>>)))
<1> DEFINE m == Meminfo(total, swap, swapfree, free, cached, buffers, swapcached, sreclaim, anon, shmem, committed, <<x, y>>)
           anon_lru == anon + shmem
           file_lru == Most(0, buffers + cached - shmem)
<1>1. /\ m.total = total /\ m.swap = swap /\ m.swapfree = swapfree /\ m.free = free /\ m.anon = anon
      /\ MemUsed(m) = total - free - (cached + buffers + swapcached + sreclaim)
      /\ m.available = Most(free, free + file_lru + sreclaim)
  BY SMT DEF Meminfo, MemUsed, Caches
<1>2. /\ m.active = ((anon_lru \div 100) * x) + ((file_lru \div 100) * y)
      /\ m.inactive = ((anon_lru \div 100) * (100 - x)) + ((file_lru \div 100) * (100 - y))
  BY SMT DEF Meminfo
<1> HIDE DEF m
<1>3. file_lru \in Nat /\ file_lru <= buffers + cached /\ anon_lru \in Nat
  BY SMT DEF Most
<1> HIDE DEF file_lru, anon_lru
<1> DEFINE a == anon_lru \div 100
           f == file_lru \div 100
<1>4. a \in Nat /\ f \in Nat /\ 100 * a <= anon_lru /\ 100 * f <= file_lru
  BY SMT, <1>3
<1> HIDE DEF a, f
<1>5. /\ a * x \in Nat /\ a * (100 - x) \in Nat /\ a * x + a * (100 - x) = 100 * a
      /\ f * y \in Nat /\ f * (100 - y) \in Nat /\ f * y + f * (100 - y) = 100 * f
  BY SMT, <1>4
<1>6. 0 <= m.active + m.inactive /\ m.active + m.inactive <= total
  BY SMT, <1>2, <1>3, <1>4, <1>5 DEF a, f, anon_lru
<1>7. 0 <= m.available /\ m.available <= total
  BY SMT, <1>1, <1>3 DEF Most
<1> QED
  BY SMT, <1>1, <1>6, <1>7 DEF AddsUp, MemoryParts, Within, m

\* The worst of levels that are all OK.
LEMMA WorstOfNone == ASSUME NEW S, S = {0} PROVE (CHOOSE x \in S : \A y \in S : x >= y) = 0
  BY SMT

------------------------------------------------------------------------------
(* app-redis-01 *)

\* pressure() is a share, whichever readings it is made of;
LEMMA RedisPressure ==
    ASSUME NEW deg \in Ages, NEW brk \in Ages, NEW later \in Ages
    PROVE  Within(Redis!Pressure(deg, brk, later), 0, 100)
  BY HostsAssumption, SMT DEF Within, Redis!Pressure, Redis!Climb, Redis!Ramp, Redis!Least, Redis!Most,
     Redis!LEAK_FILL_MIN, Redis!BREAK_RAMP, Ages, None

\* the data set stays below maxmemory, noise and all;
LEMMA RedisUsed ==
    ASSUME NEW p, Within(p, 0, 100), NEW e \in Noise
    PROVE  Within(Redis!Used(p, e), 2400000, 6291456)
  BY SMT DEF Redis!Used, Redis!GaugeFrac, Redis!Least, Redis!Lerp, Redis!REDIS_MAXMEMORY, Noise, Within

\* and so does all that is derived from it.
LEMMA RedisDerived ==
    ASSUME NEW r \in [1..10 -> Reading], NEW e \in Noise
    PROVE  LET d == Redis!Derived(r, e)
               p == Redis!Pressure(r[5].deg, r[6].brk, r[7].brk)
           IN  /\ Within(p, 0, 100) /\ d.used_memory = Redis!Used(p, e)
               /\ Within(d.used_memory, 2400000, 6291456)
               /\ Within(d.blocked, 0, 34) /\ Within(d.connected, 100, 250) /\ d.evict_rate >= 0
               /\ Within(Redis!P(r), 0, 100)
<1> DEFINE d == Redis!Derived(r, e)
           p == Redis!Pressure(r[5].deg, r[6].brk, r[7].brk)
<1>1. \A i \in 1..10 : r[i].deg \in Ages /\ r[i].brk \in Ages
  BY SMT DEF Reading
<1>2. Within(Redis!P(r), 0, 100) /\ Within(p, 0, 100)
  BY SMT, <1>1, RedisPressure DEF Redis!P
<1>3. d.used_memory = Redis!Used(p, e) /\ Within(d.used_memory, 2400000, 6291456)
  BY SMT, <1>2, RedisUsed DEF Redis!Derived
<1> HIDE DEF p
<1>4. Within(d.blocked, 0, 34) /\ Within(d.connected, 100, 250) /\ d.evict_rate >= 0
  BY SMT, <1>1, <1>2, HostsAssumption
     DEF Redis!Derived, Redis!Lerp, Redis!BREAK_RAMP, Redis!Squared, Redis!Ramp, Redis!Least, Ages, None, Within,
     Redis!GaugeAbs, Noise, p
<1> QED BY SMT, <1>2, <1>3, <1>4 DEF p

\* The memory of the host: its parts, and its level, which is never critical and
\* is not raised any more when the cache is full.
LEMMA RedisMemory ==
    ASSUME NEW r \in [1..10 -> Reading], NEW e \in Noise
    PROVE  /\ AddsUp(Redis!MemoryParts(Redis!Memory(r, e)))
           /\ Redis!MemoryLevel(Redis!Memory(r, e)) \in {OK, WARN}
           /\ Redis!P(r) = 100 => Redis!MemoryLevel(Redis!Memory(r, e)) = OK
           /\ Redis!Memory(r, e).anon = Redis!Derived(r, e).used_memory + 1530000
<1> DEFINE p == Redis!P(r)
           m == Redis!Memory(r, e)
           anon    == Redis!Rss(r, e) + 1350000
           cached  == Redis!GaugeFrac(Redis!Lerp(6500000, 2400000, p), 2, e)
           buffers == Redis!GaugeFrac(240000, 3, e)
           free    == Redis!Most(300000, 16384000 - anon - (cached + buffers + 412160) - 700000)
           committed == Redis!GaugeFrac(anon + (cached + buffers + 412160) + 1200000, 1, e)
<1>1. m = Meminfo(16384000, 4194300, 4194300, free, cached, buffers, 0, 412160, anon, 49152, committed, <<62, 34>>)
  BY SMT DEF Redis!Memory, Redis!Meminfo, Meminfo, p, Redis!Most, Most
<1>2. anon = Redis!Derived(r, e).used_memory + 1530000 /\ Within(anon, 3900000, 7900000)
  BY SMT, RedisDerived DEF Redis!Rss, Within
<1>3. /\ Within(cached, 2300000, 6700000) /\ Within(buffers, 232800, 247200)
      /\ p = 100 => cached <= 2448000
  BY SMT, RedisDerived DEF Redis!GaugeFrac, Redis!Lerp, Noise, Within
<1>10. anon <= 7821456
  BY SMT, RedisDerived DEF Redis!Rss, Within
<1> HIDE DEF m, anon, cached, buffers
<1>4. Within(free, 300000, 16384000) /\ (free = 300000 \/ free = 16384000 - anon - (cached + buffers + 412160) - 700000)
  BY SMT, <1>2, <1>3 DEF Redis!Most, Within
<1>5. Within(committed, 0, 17000000)
  BY SMT, <1>2, <1>3 DEF Redis!GaugeFrac, Noise, Within
<1>11. p = 100 => committed <= 12300000
  BY SMT, <1>2, <1>3, <1>10 DEF Redis!GaugeFrac, Noise, Within
<1> HIDE DEF free, committed
<1>6. AddsUp(MemoryParts(m))
  <2>1. /\ free \in Nat /\ cached \in Nat /\ buffers \in Nat /\ anon \in Nat /\ committed \in Int
        /\ free + cached + buffers + 0 + 412160 <= 16384000 /\ anon + 49152 + cached + buffers <= 16384000
    BY SMT, <1>2, <1>3, <1>4, <1>5 DEF Within
  <2> QED BY SMT, <1>1, <2>1, MeminfoFits DEF Within
<1>7. Redis!MemoryParts(m) = MemoryParts(m)
  BY SMT DEF Redis!MemoryParts, MemoryParts, Redis!MemUsed, MemUsed, Redis!Caches, Caches
<1>8. Redis!MemoryLevel(m) \in {OK, WARN}
  BY SMT, <1>1, <1>2, <1>3, <1>4, <1>5
     DEF Redis!MemoryLevel, Meminfo, Redis!Most, Redis!Level, Redis!Percent, Redis!MemUsed, Redis!Caches, Within,
         Redis!OK, Redis!WARN, Redis!CRIT, OK, WARN
<1>12. p = 100 => Redis!MemoryLevel(m) = OK
  BY SMT, <1>1, <1>2, <1>3, <1>4, <1>5, <1>11
     DEF Redis!MemoryLevel, Meminfo, Redis!Most, Redis!Level, Redis!Percent, Redis!MemUsed, Redis!Caches, Within,
         Redis!OK, Redis!WARN, Redis!CRIT, OK, WARN
<1>9. m.anon = anon
  BY SMT, <1>1 DEF Meminfo
<1> QED BY SMT, <1>2, <1>6, <1>7, <1>8, <1>9, <1>12 DEF m, p

\* So every part and rate of the answer of app-redis-01 is in order,
LEMMA RedisFits ==
    ASSUME NEW r \in [1..10 -> Reading], NEW e \in Noise
    PROVE  AddsUp(Redis!Parts(r, e)) /\ Rising(Redis!Rates(r, e))
<1> DEFINE p == Redis!P(r)
           d == Redis!Derived(r, e)
           i == Redis!RedisInfo(r, e)
<1>1. AddsUp(Redis!Filesystems(e))
  BY SMT DEF AddsUp, Redis!Filesystems, Redis!Filling, Redis!GaugeAbs, Noise
<1>2. Rising(Redis!Rates(r, e))
  BY SMT, RedisDerived DEF Rising, Redis!Rates, Redis!Lerp, Within
<1>3. AddsUp({<<i.used_memory, i.peak>>, <<i.peak, i.maxmemory>>, <<i.expires, i.keys>>, <<i.blocked, i.connected>>})
  BY SMT, RedisDerived DEF AddsUp, Redis!RedisInfo, Within, Redis!Most, Redis!REDIS_MAXMEMORY, Redis!Lerp
<1>4. AddsUp({<<q[2], Redis!Memory(r, e).anon>> : q \in Redis!Processes(r, e)})
  BY SMT, RedisDerived, RedisMemory DEF AddsUp, Redis!Processes, Redis!Rss, Within
<1> QED BY SMT, <1>1, <1>2, <1>3, <1>4, RedisMemory DEF AddsUp, Redis!Parts

\* and this is what the monitoring shows of it.
LEMMA RedisShows ==
    ASSUME NEW r \in [1..10 -> Reading], NEW e \in Noise
    PROVE  LET shown == Redis!Services(r, e) IN
           /\ DOMAIN shown = {"Memory", "Load", "Disks", "Units", "Story"}
           /\ shown["Memory"] = Redis!MemoryLevel(Redis!Memory(r, e))
           /\ Redis!P(r) = 100 => shown["Memory"] = OK
           /\ shown["Memory"] \in {OK, WARN} /\ shown["Load"] = OK /\ shown["Disks"] = OK /\ shown["Units"] = OK
           /\ shown["Story"] = IF r[1].state = "broken" /\ r[10].brk >= 2 THEN WARN ELSE OK
<1>1. Redis!LoadLevel(Redis!Load(Redis!P(r), e)[3], 4) = OK
  <2>1. \A p : Within(p, 0, 100) => Redis!LoadLevel(Redis!Load(p, e)[3], 4) = OK
   BY SMT DEF Redis!LoadLevel, Redis!Load, Redis!LoadOf, Redis!GaugeFrac, Redis!Lerp, Redis!Level,
     Redis!OK, Redis!WARN, Redis!CRIT, OK, Noise, Within
  <2> QED BY SMT, <2>1, RedisDerived
<1>2. Redis!DisksLevel(Redis!Filesystems(e)) = OK
  <2>1. {Redis!FilesystemLevel(f[1], f[2]) : f \in Redis!Filesystems(e)} = {0}
    BY SMT DEF Redis!Filesystems, Redis!Filling, Redis!GaugeAbs, Noise, Redis!FilesystemLevel, Redis!Level,
       Redis!Percent, Redis!OK, Redis!WARN, Redis!CRIT
  <2> QED BY <2>1, WorstOfNone, SMT DEF Redis!DisksLevel, Redis!Max, OK
<1>3. Redis!UnitsLevel(Redis!Units(r)) = OK
  BY SMT DEF Redis!UnitsLevel, Redis!Units, Redis!OK, Redis!CRIT, OK
<1>4. (Redis!RedisInfo(r, e).bgsave = "err") <=> (r[1].state = "broken" /\ r[10].brk >= 2)
  <2>1. r[10].brk \in Ages
    BY SMT DEF Reading
  <2> QED BY SMT, <2>1, HostsAssumption DEF Redis!RedisInfo, Redis!BgsaveOk, Redis!Ramp, Redis!Least, Redis!BREAK_RAMP, Ages, None
<1> QED BY SMT, <1>1, <1>2, <1>3, <1>4, RedisMemory DEF Redis!Services, Redis!WARN, Redis!OK, OK, WARN

------------------------------------------------------------------------------
(* app-worker-01 *)

\* pressure() of app-worker-01, of any three readings,
LEMMA WorkerPressure ==
    ASSUME NEW deg \in Ages, NEW brk \in Ages, NEW later \in Ages
    PROVE  Within(Worker!Pressure(deg, brk, later), 0, 100)
  BY HostsAssumption, SMT DEF Within, Worker!Pressure, Worker!Climb, Worker!Ramp, Worker!Least, Worker!Most,
     Worker!LEAK_FILL_MIN, Worker!BREAK_RAMP, Ages, None

\* and of those of one answer.
LEMMA WorkerP ==
    ASSUME NEW r \in [1..7 -> Reading]
    PROVE  Within(Worker!P(r), 0, 100)
<1>1. r[2].deg \in Ages /\ r[3].brk \in Ages /\ r[4].brk \in Ages
  BY SMT DEF Reading
<1> QED BY SMT, <1>1, WorkerPressure DEF Worker!P

\* The memory that the worker leaks adds up;
LEMMA WorkerMemory ==
    ASSUME NEW r \in [1..7 -> Reading], NEW e \in Noise
    PROVE  LET m == Worker!Memory(r, e) IN
           /\ AddsUp(Worker!MemoryParts(m))
           /\ m.total = 16384000 /\ m.swap = 4194300 /\ m.limit = 12386300
           /\ m.committed = Worker!GaugeFrac(Worker!Lerp(7000000, 16800000, Worker!P(r)), 1, e)
<1> DEFINE p == Worker!P(r)
           m == Worker!Memory(r, e)
           cached    == Worker!GaugeFrac(Worker!Lerp(6000000, 900000, p), 2, e)
           buffers   == Worker!Lerp(180000, 40000, p)
           sreclaim  == Worker!Lerp(488256, 144000, p)
           scached   == Worker!Lerp(0, 120000, Worker!Swapping(p))
           free      == Worker!Most(120000, 16384000 - Worker!Lerp(6500000, 15200000, p) - (cached + buffers + scached + sreclaim))
           anon      == Worker!Most(2000000, 16384000 - free - (cached + buffers + scached + sreclaim) - 700000)
           swapfree  == Worker!Most(40000, 4194300 - Worker!Lerp(0, 3950000, Worker!Swapping(p)))
           committed == Worker!GaugeFrac(Worker!Lerp(7000000, 16800000, p), 1, e)
<1>1. m = Meminfo(16384000, 4194300, swapfree, free, cached, buffers, scached, sreclaim, anon, 49152, committed, <<57, 31>>)
  BY SMTT(90) DEF Worker!Memory, Worker!Meminfo, Meminfo, Worker!Most, Most
<1>2. Within(p, 0, 100)
  BY SMT, WorkerP
<1> HIDE DEF m, p
<1>3. Within(Worker!Swapping(p), 0, 100)
  BY SMT, <1>2 DEF Worker!Swapping, Worker!Most, Worker!Least, Within
<1>4. /\ Within(cached, 800000, 6200000) /\ Within(buffers, 40000, 180000) /\ Within(sreclaim, 144000, 488256)
      /\ Within(scached, 0, 120000) /\ Within(committed, 6900000, 17000000) /\ Within(swapfree, 40000, 4194300)
  BY SMT, <1>2, <1>3 DEF Worker!GaugeFrac, Worker!Lerp, Worker!Most, Noise, Within
<1>5. Within(Worker!Lerp(6500000, 15200000, p), 6500000, 15200000)
  BY SMT, <1>2 DEF Worker!Lerp, Within
<1> HIDE DEF cached, buffers, sreclaim, scached, committed, swapfree
<1>6. /\ Within(free, 120000, 16384000) /\ Within(anon, 0, 16384000)
      /\ free + cached + buffers + scached + sreclaim <= 16384000
      /\ anon + 49152 + cached + buffers <= 16384000
  BY SMT, <1>4, <1>5 DEF Worker!Most, Within
<1> HIDE DEF free, anon
<1>7. AddsUp(MemoryParts(m))
  BY SMT, <1>1, <1>4, <1>6, MeminfoFits DEF Within
<1>8. Worker!MemoryParts(m) = MemoryParts(m)
  BY SMT DEF Worker!MemoryParts, MemoryParts, Worker!MemUsed, MemUsed, Worker!Caches, Caches
<1>9. m.total = 16384000 /\ m.swap = 4194300 /\ m.limit = 12386300 /\ m.committed = committed
  BY SMT, <1>1 DEF Meminfo
<1> QED BY SMTT(60), <1>7, <1>8, <1>9 DEF m, committed, p

\* so does all of the answer.
LEMMA WorkerFits ==
    ASSUME NEW r \in [1..7 -> Reading], NEW e \in Noise
    PROVE  AddsUp(Worker!Parts(r, e)) /\ Rising(Worker!Rates(r, e))
<1>1. AddsUp(Worker!Filesystems(e))
  BY SMT DEF AddsUp, Worker!Filesystems, Worker!Filling, Worker!GaugeAbs, Noise
<1>2. Rising(Worker!Rates(r, e))
  BY SMT, WorkerP DEF Rising, Worker!Rates, Worker!Lerp, Within
<1> QED BY SMT, <1>1, <1>2, WorkerMemory DEF AddsUp, Worker!Parts

\* The level of the memory, as a function of the pressure alone;
LEMMA WorkerLevel ==
    ASSUME NEW r \in [1..7 -> Reading], NEW e \in Noise
    PROVE  LET p == Worker!P(r)
               cached == Worker!GaugeFrac(Worker!Lerp(6000000, 900000, p), 2, e)
               caches == cached + Worker!Lerp(180000, 40000, p) + Worker!Lerp(0, 120000, Worker!Swapping(p))
                         + Worker!Lerp(488256, 144000, p)
               used    == Least(16264000 - caches, Worker!Lerp(6500000, 15200000, p))
               swapped == Least(4154300, Worker!Lerp(0, 3950000, Worker!Swapping(p)))
               committed == Worker!GaugeFrac(Worker!Lerp(7000000, 16800000, p), 1, e)
           IN  Worker!MemoryLevel(Worker!Memory(r, e)) =
                   Most(Level((used + swapped) \div 205783, 80, 90), Level(committed \div 123863, 100, 150))
<1> DEFINE p == Worker!P(r)
           m == Worker!Memory(r, e)
           cached    == Worker!GaugeFrac(Worker!Lerp(6000000, 900000, p), 2, e)
           buffers   == Worker!Lerp(180000, 40000, p)
           sreclaim  == Worker!Lerp(488256, 144000, p)
           scached   == Worker!Lerp(0, 120000, Worker!Swapping(p))
           caches    == cached + buffers + scached + sreclaim
           free      == Worker!Most(120000, 16384000 - Worker!Lerp(6500000, 15200000, p) - caches)
           anon      == Worker!Most(2000000, 16384000 - free - caches - 700000)
           swapfree  == Worker!Most(40000, 4194300 - Worker!Lerp(0, 3950000, Worker!Swapping(p)))
           committed == Worker!GaugeFrac(Worker!Lerp(7000000, 16800000, p), 1, e)
           used      == Least(16264000 - caches, Worker!Lerp(6500000, 15200000, p))
           swapped   == Least(4154300, Worker!Lerp(0, 3950000, Worker!Swapping(p)))
<1>1. m = Meminfo(16384000, 4194300, swapfree, free, cached, buffers, scached, sreclaim, anon, 49152, committed, <<57, 31>>)
  BY SMT DEF Worker!Memory, Worker!Meminfo, Meminfo, Worker!Most, Most
<1>2. Within(p, 0, 100) /\ Within(Worker!Swapping(p), 0, 100)
  <2>1. Within(p, 0, 100)
    BY SMT, WorkerP
  <2> HIDE DEF p
  <2> QED BY SMT, <2>1 DEF Worker!Swapping, Worker!Most, Worker!Least, Within
<1> HIDE DEF m, p
<1>3. /\ cached \in Int /\ buffers \in Int /\ sreclaim \in Int /\ scached \in Int
      /\ Worker!Lerp(6500000, 15200000, p) \in Int /\ Worker!Lerp(0, 3950000, Worker!Swapping(p)) \in Int
  BY SMT, <1>2 DEF Worker!GaugeFrac, Worker!Lerp, Noise, Within
<1> HIDE DEF cached, buffers, sreclaim, scached, committed
<1>4. m.total - m.free - (m.cached + m.buffers + m.swapcached + m.sreclaim) = used /\ m.swap - m.swapfree = swapped
      /\ used \in Int /\ swapped \in Int
  BY SMT, <1>1, <1>3 DEF Meminfo, Worker!Most, Least
<1>5. m.total = 16384000 /\ m.swap = 4194300 /\ m.limit = 12386300 /\ m.committed = committed /\ m.swapfree \in Int
  BY SMT, <1>1, <1>3 DEF Meminfo, Worker!Most
<1> HIDE DEF used, swapped
<1>6. Worker!MemoryLevel(m) = Most(Level((used + swapped) \div 205783, 80, 90), Level(committed \div 123863, 100, 150))
  BY SMT, <1>4, <1>5 DEF Worker!MemoryLevel, Worker!MemUsed, Worker!Caches, Worker!Most, Most, Worker!Level, Level,
     Worker!Percent, Worker!OK, Worker!WARN, Worker!CRIT, OK, WARN, CRIT
<1> QED BY SMTT(60), <1>6 DEF m, used, swapped, cached, buffers, sreclaim, scached, committed, p

\* it rises with the pressure,
LEMMA WorkerMemoryRises ==
    ASSUME NEW r \in [1..7 -> Reading], NEW t \in [1..7 -> Reading], NEW e \in Noise, Worker!P(r) <= Worker!P(t)
    PROVE  Worker!MemoryLevel(Worker!Memory(r, e)) <= Worker!MemoryLevel(Worker!Memory(t, e))
<1> DEFINE p == Worker!P(r)
           q == Worker!P(t)
           cached(x)  == Worker!GaugeFrac(Worker!Lerp(6000000, 900000, x), 2, e)
           scached(x) == Worker!Lerp(0, 120000, Worker!Swapping(x))
           caches(x)  == cached(x) + Worker!Lerp(180000, 40000, x) + scached(x) + Worker!Lerp(488256, 144000, x)
           swapped(x) == Worker!Lerp(0, 3950000, Worker!Swapping(x))
           lerp(x)    == Worker!Lerp(6500000, 15200000, x)
           committed(x) == Worker!GaugeFrac(Worker!Lerp(7000000, 16800000, x), 1, e)
<1>1. Within(p, 0, 100) /\ Within(q, 0, 100) /\ p <= q
  BY SMT, WorkerP
<1> HIDE DEF p, q
<1>2. committed(p) <= committed(q) /\ committed(p) \in Int /\ committed(q) \in Int
  BY SMT, <1>1 DEF Worker!GaugeFrac, Worker!Lerp, Noise, Within
<1>3. Worker!Swapping(p) <= Worker!Swapping(q) /\ Within(Worker!Swapping(p), 0, 100) /\ Within(Worker!Swapping(q), 0, 100)
      /\ Worker!Swapping(q) - Worker!Swapping(p) <= 2 * (q - p)
  BY SMT, <1>1 DEF Worker!Swapping, Worker!Most, Worker!Least, Within
<1>4. /\ swapped(p) <= swapped(q) /\ Within(swapped(p), 0, 3950000) /\ Within(swapped(q), 0, 3950000)
      /\ lerp(p) <= lerp(q) /\ lerp(p) \in Int /\ lerp(q) \in Int
  BY SMT, <1>1, <1>3 DEF Worker!Lerp, Within
<1>5. caches(q) <= caches(p) /\ Within(caches(p), 900000, 7000000) /\ Within(caches(q), 900000, 7000000)
  BY SMT, <1>1, <1>3 DEF Worker!Lerp, Worker!GaugeFrac, Noise, Within
<1>6. Worker!MemoryLevel(Worker!Memory(r, e)) =
          Most(Level((Least(16264000 - caches(p), lerp(p)) + Least(4154300, swapped(p))) \div 205783, 80, 90),
               Level(committed(p) \div 123863, 100, 150))
  BY SMT, WorkerLevel DEF p
<1>7. Worker!MemoryLevel(Worker!Memory(t, e)) =
          Most(Level((Least(16264000 - caches(q), lerp(q)) + Least(4154300, swapped(q))) \div 205783, 80, 90),
               Level(committed(q) \div 123863, 100, 150))
  BY SMT, WorkerLevel DEF q
<1> HIDE DEF caches, lerp, swapped, committed
<1> QED BY SMT, <1>2, <1>4, <1>5, <1>6, <1>7 DEF Most, Level, Least, OK, WARN, CRIT, Within

\* and this is where it starts and what the leak makes of it.
LEMMA WorkerMemoryTold ==
    ASSUME NEW r \in [1..7 -> Reading], NEW e \in Noise
    PROVE  /\ Worker!P(r) = 0 => Worker!MemoryLevel(Worker!Memory(r, e)) = OK
           /\ Worker!P(r) = 78 => Worker!MemoryLevel(Worker!Memory(r, e)) = WARN
           /\ Worker!MemoryLevel(Worker!Memory(r, e)) \in {OK, WARN, CRIT}
<1>1. Worker!Swapping(0) = 0 /\ Worker!Swapping(78) = 66
  BY SMT DEF Worker!Swapping, Worker!Most, Worker!Least
<1> QED BY SMT, <1>1, WorkerLevel DEF Worker!GaugeFrac, Worker!Lerp, Noise, Most, Level, Least, OK, WARN, CRIT

\* What the monitoring shows of app-worker-01.
LEMMA WorkerShows ==
    ASSUME NEW r \in [1..7 -> Reading], NEW e \in Noise
    PROVE  LET shown == Worker!Services(r, e) IN
           /\ DOMAIN shown = {"Memory", "Load", "Disks", "Units"}
           /\ shown["Memory"] = Worker!MemoryLevel(Worker!Memory(r, e))
           /\ shown["Load"] = OK /\ shown["Disks"] = OK
           /\ shown["Units"] = IF r[1].state = "broken" THEN CRIT ELSE OK
<1>1. Worker!LoadLevel(Worker!Load(Worker!P(r), e)[3], 4) = OK
  <2>1. \A p : Within(p, 0, 100) => Worker!LoadLevel(Worker!Load(p, e)[3], 4) = OK
    BY SMT DEF Worker!LoadLevel, Worker!Load, Worker!LoadOf, Worker!GaugeFrac, Worker!Lerp, Worker!Level,
       Worker!OK, Worker!WARN, Worker!CRIT, OK, Noise, Within
  <2> QED BY SMT, <2>1, WorkerP
<1>2. Worker!DisksLevel(Worker!Filesystems(e)) = OK
  <2>1. {Worker!FilesystemLevel(f[1], f[2]) : f \in Worker!Filesystems(e)} = {0}
    BY SMT DEF Worker!Filesystems, Worker!Filling, Worker!GaugeAbs, Noise, Worker!FilesystemLevel, Worker!Level,
       Worker!Percent, Worker!OK, Worker!WARN, Worker!CRIT
  <2> QED BY <2>1, WorstOfNone, SMT DEF Worker!DisksLevel, Worker!Max, OK
<1>3. Worker!UnitsLevel(Worker!Units(r)) = IF r[1].state = "broken" THEN CRIT ELSE OK
  BY SMT DEF Worker!UnitsLevel, Worker!Units, Worker!OK, Worker!CRIT, OK, CRIT
<1> QED BY SMT, <1>1, <1>2, <1>3 DEF Worker!Services

------------------------------------------------------------------------------
(* fileserver-01 *)

\* pressure() of fileserver-01: its range and where its ramps end;
LEMMA FilesPressure ==
    ASSUME NEW deg \in Ages, NEW brk \in Ages, NEW later \in Ages
    PROVE  /\ Within(Files!Pressure(deg, brk, later), 0, 100)
           /\ deg = None /\ brk = None => Files!Pressure(deg, brk, later) = 0
           /\ deg >= 18 /\ brk = None => Files!Pressure(deg, brk, later) = 74
           /\ brk >= 16 /\ later >= 16 => Files!Pressure(deg, brk, later) = 100
  BY HostsAssumption, SMT DEF Within, Files!Pressure, Files!Climb, Files!Ramp, Files!Least, Files!Most,
     Files!FILL_RAMP_MIN, Files!BREAK_RAMP, Ages, None

\* it does not fall as an incident goes on,
LEMMA FilesPressureRises ==
    ASSUME NEW deg \in Ages, NEW brk \in Ages, NEW later \in Ages, NEW brk2 \in Ages, NEW deg2 \in Ages,
           deg <= deg2, brk <= brk2
    PROVE  Files!Pressure(deg, brk, brk) <= Files!Pressure(deg2, brk2, brk2)
  BY HostsAssumption, SMT DEF Within, Files!Pressure, Files!Climb, Files!Ramp, Files!Least, Files!Most,
     Files!FILL_RAMP_MIN, Files!BREAK_RAMP, Ages, None

\* and torn readings give no more than one of their stories does.
LEMMA FilesPressureTorn ==
    ASSUME NEW a \in Reading, NEW b \in Reading, NEW c \in Reading
    PROVE  LET torn == Files!Pressure(a.deg, b.brk, c.brk)
           IN  \/ torn <= Files!Pressure(a.deg, a.brk, a.brk)
               \/ torn <= Files!Pressure(b.deg, b.brk, b.brk)
               \/ torn <= Files!Pressure(c.deg, c.brk, c.brk)
<1>1. a.deg \in Ages /\ a.brk \in Ages /\ b.deg \in Ages /\ b.brk \in Ages /\ c.deg \in Ages /\ c.brk \in Ages
  BY SMT DEF Reading
<1> DEFINE crumb(deg) == (74 * (IF deg <= 0 THEN 0 ELSE Least(100, (100 * deg) \div 16))) \div 100
           broke(brk) == 74 + ((26 * Ramp(brk, 40)) \div 100)
<1>2. \A deg, brk, later : Files!Pressure(deg, brk, later) = IF brk > 0 THEN Most(crumb(deg), broke(later)) ELSE crumb(deg)
  BY SMT DEF Files!Pressure, Files!Climb, Files!Ramp, Files!Least, Files!Most, Ramp, Least, Most,
     Files!FILL_RAMP_MIN, Files!BREAK_RAMP
<1>3. \A deg \in Ages : crumb(deg) \in Int
  BY SMT, HostsAssumption DEF Least, Ages, None
<1>4. \A brk \in Ages : broke(brk) \in Int /\ broke(brk) >= 74 /\ (brk <= 0 => broke(brk) = 74)
  BY SMT, HostsAssumption DEF Ramp, Least, Ages, None
<1> HIDE DEF crumb, broke
<1> QED BY SMT, <1>1, <1>2, <1>3, <1>4, HostsAssumption DEF Most, Ages, None

\* srv_fraction: how it is made,
LEMMA FilesFractionMade ==
    ASSUME NEW p, Within(p, 0, 100), NEW e \in Noise
    PROVE  LET quiet  == Files!Most(0, 100 - ((100 * p) \div 30))
               filled == ((100 - e.tooth) * quiet) \div 100
               wobble == (15 * e.d * quiet) \div 100
               older  == IF e.old THEN 120 ELSE 0
           IN  /\ Files!SrvFraction(p, e) = Files!Most(5000, Files!Least(9950, 5500 + older + (42 * p) + filled + wobble))
               /\ Within(older, 0, 120)
               /\ (filled = 0 \/ filled = quiet) /\ (e.tooth = 100 => filled = 0) /\ (e.tooth = 0 => filled = quiet)
               /\ Within(wobble, -15, 15)
               /\ Within(quiet, 0, 100)
               /\ p >= 30 => filled = 0 /\ wobble = 0
<1> DEFINE quiet  == Files!Most(0, 100 - ((100 * p) \div 30))
           filled == ((100 - e.tooth) * quiet) \div 100
           wobble == (15 * e.d * quiet) \div 100
           older  == IF e.old THEN 120 ELSE 0
<1>1. Within(quiet, 0, 100) /\ (p >= 30 => quiet = 0)
  BY SMT DEF Files!Most, Within
<1>2. Files!SrvFraction(p, e) = Files!Most(5000, Files!Least(9950, 5500 + older + (42 * p) + filled + wobble))
  BY SMT DEF Files!SrvFraction
<1> HIDE DEF quiet
<1>3. (filled = 0 \/ filled = quiet) /\ (e.tooth = 100 => filled = 0) /\ (e.tooth = 0 => filled = quiet)
  <2>1. CASE e.tooth = 0
    BY SMT, <1>1, <2>1 DEF Within
  <2>2. CASE e.tooth = 100
    BY SMT, <1>1, <2>2 DEF Within
  <2> QED BY SMT, <2>1, <2>2 DEF Noise
<1>4. Within(wobble, -15, 15) /\ (p >= 30 => wobble = 0)
  <2>1. CASE e.d = 1
    <3>1. wobble = (15 * quiet) \div 100
      BY SMT, <1>1, <2>1 DEF Within
    <3> QED BY SMT, <1>1, <3>1 DEF Within
  <2>2. CASE e.d = -1
    <3>1. wobble = (-15 * quiet) \div 100
      BY SMT, <1>1, <2>2 DEF Within
    <3> QED BY SMT, <1>1, <3>1 DEF Within
  <2> QED BY SMT, <2>1, <2>2 DEF Noise
<1>5. Within(older, 0, 120)
  BY SMT DEF Within
<1> HIDE DEF filled, wobble, older
<1> QED BY SMT, <1>1, <1>2, <1>3, <1>4, <1>5 DEF quiet, filled, wobble, older

\* where it is in each state,
LEMMA FilesFraction ==
    ASSUME NEW p, Within(p, 0, 100), NEW e \in Noise
    PROVE  /\ Within(Files!SrvFraction(p, e), 5000, 9950)
           /\ p = 0 => Files!SrvFraction(p, e) <= 5800
           /\ p = 74 => Within(Files!SrvFraction(p, e), 8600, 8800)
           /\ p = 100 => Within(Files!SrvFraction(p, e), 9700, 9900)
<1> DEFINE quiet  == Files!Most(0, 100 - ((100 * p) \div 30))
           filled == ((100 - e.tooth) * quiet) \div 100
           wobble == (15 * e.d * quiet) \div 100
           older  == IF e.old THEN 120 ELSE 0
<1>1. /\ Files!SrvFraction(p, e) = Files!Most(5000, Files!Least(9950, 5500 + older + (42 * p) + filled + wobble))
      /\ Within(older, 0, 120) /\ Within(filled, 0, 100) /\ Within(wobble, -15, 15)
      /\ p >= 30 => filled = 0 /\ wobble = 0
  <2>1. Files!SrvFraction(p, e) = Files!Most(5000, Files!Least(9950, 5500 + older + (42 * p) + filled + wobble))
    BY SMT DEF Files!SrvFraction
  <2> HIDE DEF older
  <2>2. /\ Within(older, 0, 120) /\ Within(wobble, -15, 15)
        /\ p >= 30 => filled = 0 /\ wobble = 0
    BY SMT, FilesFractionMade DEF older
  <2>3. Within(filled, 0, 100)
    <3>1. (filled = 0 \/ filled = quiet) /\ Within(quiet, 0, 100)
      BY SMT, FilesFractionMade
    <3> HIDE DEF filled, quiet
    <3> QED BY SMT, <3>1 DEF Within
  <2> QED BY SMT, <2>1, <2>2, <2>3
<1> HIDE DEF filled, wobble, older
<1> QED BY SMT, <1>1 DEF Files!Most, Files!Least, Within

\* and that it does not fall while the pressure rises: the housekeeping that
\* would lower it fades out as the disk fills.
LEMMA FilesFractionRises ==
    ASSUME NEW p, NEW q, Within(p, 0, 100), Within(q, 0, 100), p <= q, NEW e \in Noise
    PROVE  Files!SrvFraction(p, e) <= Files!SrvFraction(q, e)
<1> DEFINE quiet(x)  == Files!Most(0, 100 - ((100 * x) \div 30))
           filled(x) == ((100 - e.tooth) * quiet(x)) \div 100
           wobble(x) == (15 * e.d * quiet(x)) \div 100
           older     == IF e.old THEN 120 ELSE 0
<1> SUFFICES ASSUME p < q PROVE Files!SrvFraction(p, e) <= Files!SrvFraction(q, e)
  BY SMT, FilesFraction DEF Within
<1>1. /\ quiet(p) - quiet(q) <= 4 * (q - p) /\ quiet(q) <= quiet(p) /\ Within(quiet(p), 0, 100) /\ Within(quiet(q), 0, 100)
      /\ q >= 30 => quiet(q) = 0
  BY SMT DEF Files!Most, Within
<1>2. /\ Files!SrvFraction(p, e) = Files!Most(5000, Files!Least(9950, 5500 + older + (42 * p) + filled(p) + wobble(p)))
      /\ Files!SrvFraction(q, e) = Files!Most(5000, Files!Least(9950, 5500 + older + (42 * q) + filled(q) + wobble(q)))
  BY SMT DEF Files!SrvFraction
<1>3. /\ Within(older, 0, 120) /\ Within(wobble(p), -15, 15) /\ Within(wobble(q), -15, 15)
  BY SMT, FilesFractionMade
<1>4. /\ filled(p) \in Int /\ filled(q) \in Int /\ filled(p) - filled(q) <= 4 * (q - p)
  <2>1. CASE e.tooth = 0
    BY SMT, <1>1, <2>1, FilesFractionMade DEF Within
  <2>2. CASE e.tooth = 100
    BY SMT, <1>1, <2>2, FilesFractionMade DEF Within
  <2> QED BY SMT, <2>1, <2>2 DEF Noise
<1> HIDE DEF filled, wobble, older
<1> QED BY SMT, <1>2, <1>3, <1>4 DEF Files!Most, Files!Least, Within

\* The size of /srv and of the log that fills it.
LEMMA FilesSrv ==
    ASSUME NEW r \in [1..17 -> Reading], NEW e \in Noise
    PROVE  LET p == Files!Pressure(r[5].deg, r[6].brk, r[7].brk)
           IN  /\ Files!SrvUsed(r, e) = 209 * Files!SrvFraction(p, e)
               /\ Within(p, 0, 100) /\ Within(Files!P(r), 0, 100)
               /\ Within(Files!RunawayLog(r, e), 0, 600000)
<1>1. \A i \in 1..17 : r[i].deg \in Ages /\ r[i].brk \in Ages
  BY SMT DEF Reading
<1> DEFINE p == Files!Pressure(r[5].deg, r[6].brk, r[7].brk)
           q == Files!Pressure(r[11].deg, r[12].brk, r[13].brk)
<1>2. Within(p, 0, 100) /\ Within(q, 0, 100) /\ Within(Files!P(r), 0, 100)
  <2>1. /\ r[2].deg \in Ages /\ r[3].brk \in Ages /\ r[4].brk \in Ages
        /\ r[5].deg \in Ages /\ r[6].brk \in Ages /\ r[7].brk \in Ages
        /\ r[11].deg \in Ages /\ r[12].brk \in Ages /\ r[13].brk \in Ages
    BY SMT, <1>1
  <2> QED BY SMT, <2>1, FilesPressure DEF Files!P
<1>3. Files!SrvUsed(r, e) = 209 * Files!SrvFraction(p, e)
  <2>1. \A x : Within(x, 0, 100) => Files!SrvFraction(x, e) \in Int
    BY SMTT(60), FilesFraction DEF Within
  <2> QED BY SMT, <1>2, <2>1 DEF Files!SrvUsed, Files!SRV_SIZE
<1> HIDE DEF q
<1>4. Within(Files!RunawayLog(r, e), 0, 600000)
  BY SMT, <1>2 DEF Files!RunawayLog, Files!Most, Files!GaugeAbs, Noise, Within, q
<1> QED BY SMT, <1>2, <1>3, <1>4

\* The memory of fileserver-01 is no part of its story.
LEMMA FilesMemory ==
    ASSUME NEW e \in Noise
    PROVE  /\ AddsUp(Files!MemoryParts(Files!Memory(e)))
           /\ Files!MemoryLevel(Files!Memory(e)) = OK
<1> DEFINE m == Files!Memory(e)
           cached  == Files!GaugeFrac(9400000, 3, e)
           buffers == Files!GaugeFrac(540000, 5, e)
           anon    == Files!GaugeFrac(2350000, 2, e)
           free    == Files!Most(180000, 16384000 - anon - 700000 - cached - buffers - 612352)
           committed == Files!GaugeFrac(4900000, 1, e)
<1>1. m = Meminfo(16384000, 4194300, 4194300, free, cached, buffers, 0, 612352, anon, 65536, committed, <<58, 46>>)
  BY SMT DEF Files!Memory, Files!Meminfo, Meminfo, Files!Most, Most
<1> HIDE DEF m
<1>2. /\ Within(cached, 9100000, 9700000) /\ Within(buffers, 500000, 600000) /\ Within(anon, 2300000, 2400000)
      /\ Within(committed, 4800000, 5000000)
  BY SMT DEF Files!GaugeFrac, Noise, Within
<1> HIDE DEF cached, buffers, anon, committed
<1>3. Within(free, 180000, 16384000 - anon - 700000 - cached - buffers - 612352) /\ free = 16384000 - anon - 700000 - cached - buffers - 612352
  BY SMT, <1>2 DEF Files!Most, Within
<1> HIDE DEF free
<1>4. AddsUp(MemoryParts(m))
  BY SMT, <1>1, <1>2, <1>3, MeminfoFits DEF Within
<1>5. Files!MemoryParts(m) = MemoryParts(m)
  BY SMT DEF Files!MemoryParts, MemoryParts, Files!MemUsed, MemUsed, Files!Caches, Caches
<1>6. Files!MemoryLevel(m) = OK
  BY SMT, <1>1, <1>2, <1>3
     DEF Files!MemoryLevel, Meminfo, Files!Most, Files!Level, Files!Percent, Files!MemUsed, Files!Caches, Within,
         Files!OK, Files!WARN, Files!CRIT, OK, WARN
<1> QED BY SMT, <1>4, <1>5, <1>6 DEF m

\* All of the answer of fileserver-01 adds up.
LEMMA FilesFits ==
    ASSUME NEW r \in [1..17 -> Reading], NEW e \in Noise
    PROVE  AddsUp(Files!Parts(r, e)) /\ Rising(Files!Rates(r, e))
<1> DEFINE p == Files!Pressure(r[5].deg, r[6].brk, r[7].brk)
<1>1. AddsUp(Files!MemoryParts(Files!Memory(e)))
  BY SMT, FilesMemory
<1>2. Within(Files!SrvUsed(r, e), 1045000, 2090000)
  <2>1. Within(p, 0, 100) /\ Files!SrvUsed(r, e) = 209 * Files!SrvFraction(p, e)
    BY SMT, FilesSrv
  <2>2. ASSUME NEW x, Within(x, 0, 100) PROVE Within(209 * Files!SrvFraction(x, e), 1045000, 2090000)
    <3>1. Within(Files!SrvFraction(x, e), 5000, 9950)
      BY SMT, <2>2, FilesFraction
    <3> QED BY SMT, <3>1 DEF Within
  <2> QED BY SMT, <2>1, <2>2
<1>3. AddsUp(Files!Filesystems(r, e))
  BY SMT, <1>2 DEF AddsUp, Files!Filesystems, Files!RootUsed, Files!HomeUsed, Files!Filling, Files!GaugeAbs, Noise, Within,
     Files!SRV_SIZE, Files!ROOT_SIZE, Files!HOME_SIZE
<1>4. Rising(Files!Rates(r, e))
  BY SMT, FilesSrv DEF Rising, Files!Rates, Files!Lerp, Within
<1>5. AddsUp(IF r[5] = r[11] THEN {<<Files!RunawayLog(r, e), Files!SrvUsed(r, e)>>} ELSE {})
  BY SMT, <1>2, FilesSrv DEF AddsUp, Within
<1> QED BY SMT, <1>1, <1>3, <1>4, <1>5 DEF AddsUp, Files!Parts

\* What the monitoring shows of fileserver-01.
LEMMA FilesShows ==
    ASSUME NEW r \in [1..17 -> Reading], NEW e \in Noise
    PROVE  LET shown == Files!Services(r, e)
               p == Files!Pressure(r[5].deg, r[6].brk, r[7].brk) IN
           /\ DOMAIN shown = {"Memory", "Load", "Disks", "Units", "Story"}
           /\ shown["Memory"] = OK /\ shown["Load"] = OK /\ shown["Disks"] = OK /\ shown["Units"] = OK
           /\ shown["Story"] = Level((209 * Files!SrvFraction(p, e)) \div 20971, 80, 90)
<1>1. Files!LoadLevel(Files!Load(Files!P(r), e)[3], 4) = OK
  <2>1. \A p : Within(p, 0, 100) => Files!LoadLevel(Files!Load(p, e)[3], 4) = OK
    BY SMT DEF Files!LoadLevel, Files!Load, Files!LoadOf, Files!GaugeFrac, Files!Lerp, Files!Level,
       Files!OK, Files!WARN, Files!CRIT, OK, Noise, Within
  <2> QED BY SMT, <2>1, FilesSrv
<1>2. Files!DisksLevel(Files!Filesystems(r, e) \ {<<Files!SrvUsed(r, e), Files!SRV_SIZE>>}) = OK
  <2>1. Files!Filesystems(r, e) \ {<<Files!SrvUsed(r, e), Files!SRV_SIZE>>} =
            {<<Files!RootUsed(e), Files!ROOT_SIZE>>, <<Files!HomeUsed(e), Files!HOME_SIZE>>}
    BY SMT DEF Files!Filesystems, Files!SRV_SIZE, Files!ROOT_SIZE, Files!HOME_SIZE
  <2>2. {Files!FilesystemLevel(f[1], f[2]) :
            f \in {<<Files!RootUsed(e), Files!ROOT_SIZE>>, <<Files!HomeUsed(e), Files!HOME_SIZE>>}} = {0}
    BY SMT DEF Files!RootUsed, Files!HomeUsed, Files!Filling, Files!GaugeAbs, Noise, Files!FilesystemLevel, Files!Level,
       Files!Percent, Files!OK, Files!WARN, Files!CRIT, Files!ROOT_SIZE, Files!HOME_SIZE
  <2> QED BY <2>1, <2>2, WorstOfNone, SMT DEF Files!DisksLevel, Files!Max, OK
<1>3. Files!UnitsLevel(Files!Units) = OK
  BY SMT DEF Files!UnitsLevel, Files!Units, Files!OK, Files!CRIT, OK, CRIT
<1>4. Files!MemoryLevel(Files!Memory(e)) = OK
  BY SMT, FilesMemory
<1>5. Files!FilesystemLevel(Files!SrvUsed(r, e), Files!SRV_SIZE) =
          Level((209 * Files!SrvFraction(Files!Pressure(r[5].deg, r[6].brk, r[7].brk), e)) \div 20971, 80, 90)
  BY SMT, FilesSrv DEF Files!FilesystemLevel, Files!Level, Level, Files!Percent, Files!SRV_SIZE, Files!OK, Files!WARN,
     Files!CRIT, OK, WARN, CRIT
<1> QED BY SMT, <1>1, <1>2, <1>3, <1>4, <1>5 DEF Files!Services

------------------------------------------------------------------------------
(* mail-relay-01 *)

\* deferred_count: its range, its plateau in the degraded state, and that the
\* broken state is at once at the critical level.
LEMMA MailCount ==
    ASSUME NEW deg \in Ages, NEW brk \in Ages, NEW later \in Ages, NEW e \in Noise
    PROVE  LET count == Mail!DeferredCount(deg, brk, later, e)
           IN  /\ Within(count, 0, 346000)
               /\ deg <= 0 /\ brk <= 0 => count <= 3
               /\ deg >= 16 /\ brk <= 0 => count = 18
               /\ brk > 0 /\ later = brk => count >= 20
               /\ brk <= 0 => count = Mail!DeferredCount(deg, None, None, e)
<1> DEFINE base  == Mail!Most(0, Mail!GaugeAbs(20, 12, e))
           climb == IF deg <= 0 THEN base ELSE Mail!Lerp(base, 180, Mail!Least(100, (100 * deg) \div 16))
           ramp  == Mail!Ramp(later, 30)
           more  == (48 * brk * ramp) \div 10
           count == IF brk <= 0 THEN climb ELSE Mail!Most(climb, 180 + more)
<1>1. /\ Mail!DeferredCount(deg, brk, later, e) = (count + 5) \div 10
      /\ Mail!DeferredCount(deg, None, None, e) = (climb + 5) \div 10
  BY SMT DEF Mail!DeferredCount, Mail!DEFER_CLIMB_MIN, Mail!BREAK_RAMP, Mail!DEFER_DEGRADED_PLATEAU,
     Mail!DEFER_BROKEN_RATE, None
<1>2. base = 8 \/ base = 32
  BY SMT DEF Mail!Most, Mail!GaugeAbs, Noise
<1> HIDE DEF base
<1>3. Within(climb, 0, 180) /\ (deg <= 0 => climb <= 32) /\ (deg >= 16 => climb = 180)
  BY SMT, <1>2, HostsAssumption DEF Mail!Lerp, Mail!Least, Ages, None, Within
<1>4. Within(ramp, 0, 100) /\ (later > 0 => ramp >= 33)
  BY SMT, HostsAssumption DEF Mail!Ramp, Mail!Least, Ages, None, Within
<1> HIDE DEF climb, ramp
<1>5. brk > 0 => Within(more, 0, 3456000) /\ (later = brk => more >= 158)
  <2> SUFFICES ASSUME brk > 0 PROVE Within(more, 0, 3456000) /\ (later = brk => more >= 158)
    OBVIOUS
  <2>1. Within(brk, 1, 7200)
    BY SMT, HostsAssumption DEF Ages, None, Within
  <2>2. Within(brk * ramp, 0, 720000) /\ (ramp >= 33 => brk * ramp >= 33)
    BY SMT, <1>4, <2>1 DEF Within
  <2>3. 48 * brk * ramp = 48 * (brk * ramp)
    BY SMT, <1>4, <2>1 DEF Within
  <2> HIDE DEF more
  <2>4. Within((48 * (brk * ramp)) \div 10, 0, 3456000) /\ (ramp >= 33 => (48 * (brk * ramp)) \div 10 >= 158)
    <3> DEFINE prod == brk * ramp
    <3>1. Within(prod, 0, 720000) /\ (ramp >= 33 => prod >= 33)
      BY SMT, <2>2
    <3> HIDE DEF prod
    <3>2. Within((48 * prod) \div 10, 0, 3456000) /\ (ramp >= 33 => (48 * prod) \div 10 >= 158)
      BY SMT, <3>1 DEF Within
    <3> QED BY SMT, <3>2 DEF prod
  <2> QED BY SMT, <1>4, <2>1, <2>3, <2>4 DEF more, Within
<1> HIDE DEF more
<1>6. Ages \subseteq Int
  BY SMT, HostsAssumption DEF Ages, None
<1> QED BY SMT, <1>1, <1>3, <1>5, <1>6 DEF Mail!Most, Within

\* Up to the break it does not fall.
LEMMA MailCountRises ==
    ASSUME NEW deg \in Ages, NEW later \in Ages, deg <= later, NEW e \in Noise
    PROVE  Mail!DeferredCount(deg, None, None, e) <= Mail!DeferredCount(later, None, None, e)
<1> DEFINE base  == Mail!Most(0, Mail!GaugeAbs(20, 12, e))
           climb(x) == IF x <= 0 THEN base ELSE Mail!Lerp(base, 180, Mail!Least(100, (100 * x) \div 16))
<1>1. /\ Mail!DeferredCount(deg, None, None, e) = (climb(deg) + 5) \div 10
      /\ Mail!DeferredCount(later, None, None, e) = (climb(later) + 5) \div 10
  BY SMT DEF Mail!DeferredCount, Mail!DEFER_CLIMB_MIN, Mail!BREAK_RAMP, Mail!DEFER_DEGRADED_PLATEAU,
     Mail!DEFER_BROKEN_RATE, None
<1>2. base = 8 \/ base = 32
  BY SMT DEF Mail!Most, Mail!GaugeAbs, Noise
<1> HIDE DEF base
<1>3. climb(deg) <= climb(later) /\ climb(deg) \in Int /\ climb(later) \in Int
  <2>1. CASE base = 8
    BY SMT, <2>1, HostsAssumption DEF Mail!Lerp, Mail!Least, Ages, None
  <2>2. CASE base = 32
    BY SMT, <2>2, HostsAssumption DEF Mail!Lerp, Mail!Least, Ages, None
  <2> QED BY SMT, <1>2, <2>1, <2>2
<1> HIDE DEF climb
<1> QED BY SMT, <1>1, <1>3

\* The counts of one answer.
LEMMA MailCounts ==
    ASSUME NEW r \in [1..12 -> Reading], NEW e \in Noise
    PROVE  /\ Within(Mail!Deferred(r, e), 0, 346000)
           /\ Within(Mail!DeferredCount(r[9].deg, r[10].brk, r[11].brk, e), 0, 346000)
           /\ Within(Mail!Active(e), 2, 6)
           /\ \A i \in 1..12 : r[i].brk \in Ages /\ r[i].deg \in Ages
<1>1. \A i \in 1..12 : r[i].brk \in Ages /\ r[i].deg \in Ages
  BY SMT DEF Reading
<1>2. Within(Mail!Active(e), 2, 6)
  BY SMT DEF Mail!Active, Mail!Most, Mail!GaugeAbs, Noise, Within
<1>3. /\ r[2].deg \in Ages /\ r[3].brk \in Ages /\ r[4].brk \in Ages
      /\ r[9].deg \in Ages /\ r[10].brk \in Ages /\ r[11].brk \in Ages
  BY SMT, <1>1
<1>4. \A deg, brk, later \in Ages : Within(Mail!DeferredCount(deg, brk, later, e), 0, 346000)
  BY SMT, MailCount
<1> QED BY SMT, <1>1, <1>2, <1>3, <1>4 DEF Mail!Deferred

\* The memory of mail-relay-01 is no part of its story.
LEMMA MailMemory ==
    ASSUME NEW e \in Noise
    PROVE  /\ AddsUp(Mail!MemoryParts(Mail!Memory(e)))
           /\ Mail!MemoryLevel(Mail!Memory(e)) = OK
<1> DEFINE m == Mail!Memory(e)
           cached  == Mail!GaugeFrac(3900000, 2, e)
           buffers == Mail!GaugeFrac(210000, 3, e)
           free    == Mail!Most(160000, 8175104 - Mail!GaugeFrac(1750000, 3, e) - (cached + buffers + 196608))
           anon    == Mail!Most(900000, 8175104 - free - (cached + buffers + 196608) - 360000)
           committed == Mail!GaugeFrac(2700000, 1, e)
<1>1. m = Meminfo(8175104, 2097148, 2097148, free, cached, buffers, 0, 196608, anon, 24576, committed, <<55, 33>>)
  BY SMT DEF Mail!Memory, Mail!Meminfo, Meminfo, Mail!Most, Most
<1> HIDE DEF m
<1>2. /\ Within(cached, 3800000, 4000000) /\ Within(buffers, 200000, 220000)
      /\ Within(Mail!GaugeFrac(1750000, 3, e), 1690000, 1810000)
      /\ Within(committed, 2600000, 2800000)
  BY SMT DEF Mail!GaugeFrac, Noise, Within
<1> HIDE DEF cached, buffers, committed
<1>3. free = 8175104 - Mail!GaugeFrac(1750000, 3, e) - (cached + buffers + 196608) /\ Within(free, 1000000, 3000000)
  BY SMT, <1>2 DEF Mail!Most, Within
<1> HIDE DEF free
<1>4. Within(anon, 900000, 1500000)
  BY SMT, <1>2, <1>3 DEF Mail!Most, Within
<1> HIDE DEF anon
<1>5. AddsUp(MemoryParts(m))
  BY SMT, <1>1, <1>2, <1>3, <1>4, MeminfoFits DEF Within
<1>6. Mail!MemoryParts(m) = MemoryParts(m)
  BY SMT DEF Mail!MemoryParts, MemoryParts, Mail!MemUsed, MemUsed, Mail!Caches, Caches
<1>7. Mail!MemoryLevel(m) = OK
  BY SMT, <1>1, <1>2, <1>3, <1>4
     DEF Mail!MemoryLevel, Meminfo, Mail!Most, Mail!Level, Mail!Percent, Mail!MemUsed, Mail!Caches, Within,
         Mail!OK, Mail!WARN, Mail!CRIT, OK, WARN
<1> QED BY SMT, <1>5, <1>6, <1>7 DEF m

\* All of the answer of mail-relay-01 adds up.  The spool holds the deferred
\* mail, which grows for as long as nobody heals the host: this is where the
\* bound on Oldest is needed.
LEMMA MailFits ==
    ASSUME NEW r \in [1..12 -> Reading], NEW e \in Noise
    PROVE  AddsUp(Mail!Parts(r, e)) /\ Rising(Mail!Rates(r, e))
<1>1. AddsUp(Mail!Filesystems(r, e) \cup Mail!Inodes(r, e) \cup {<<Mail!Active(e), 200>>})
  BY SMT, MailCounts DEF AddsUp, Mail!Filesystems, Mail!Inodes, Mail!Filling, Mail!GaugeAbs, Noise, Within
<1>2. Rising(Mail!Rates(r, e))
  <2>1. \A b \in Ages : Within(Mail!Ramp(b, 30), 0, 100)
    BY SMT, HostsAssumption DEF Mail!Ramp, Mail!Least, Ages, None, Within
  <2>2. r[6].brk \in Ages /\ r[8].brk \in Ages
    BY SMT, MailCounts
  <2>3. Within(Mail!Ramp(r[6].brk, 30), 0, 100) /\ Within(Mail!Ramp(r[8].brk, 30), 0, 100)
    BY SMT, <2>1, <2>2
  <2> QED BY SMT, <2>3 DEF Rising, Mail!Rates, Mail!Lerp, Within, Mail!BREAK_RAMP
<1> QED BY SMT, <1>1, <1>2, MailMemory DEF AddsUp, Mail!Parts

\* What the monitoring shows of mail-relay-01.
LEMMA MailShows ==
    ASSUME NEW r \in [1..12 -> Reading], NEW e \in Noise
    PROVE  LET shown == Mail!Services(r, e) IN
           /\ DOMAIN shown = {"Memory", "Load", "Disks", "Units", "Story"}
           /\ shown["Memory"] = OK /\ shown["Load"] = OK /\ shown["Disks"] = OK /\ shown["Units"] = OK
           /\ shown["Story"] = Level(Mail!DeferredCount(r[2].deg, r[3].brk, r[4].brk, e), 10, 20)
<1>1. Mail!LoadLevel(Mail!Load(e)[3], 2) = OK
  BY SMT DEF Mail!LoadLevel, Mail!Load, Mail!LoadOf, Mail!GaugeFrac, Mail!Lerp, Mail!Level, Mail!Most,
     Mail!OK, Mail!WARN, Mail!CRIT, OK, Noise
<1>2. Mail!DisksLevel(Mail!Filesystems(r, e) \cup Mail!Inodes(r, e)) = OK
  <2>1. {Mail!FilesystemLevel(f[1], f[2]) : f \in Mail!Filesystems(r, e) \cup Mail!Inodes(r, e)} = {0}
    BY SMT, MailCounts DEF Mail!Filesystems, Mail!Inodes, Mail!Filling, Mail!GaugeAbs, Noise, Mail!FilesystemLevel,
       Mail!Level, Mail!Percent, Mail!OK, Mail!WARN, Mail!CRIT, Within
  <2> QED BY <2>1, WorstOfNone, SMT DEF Mail!DisksLevel, Mail!Max, OK
<1>3. Mail!UnitsLevel(Mail!Units) = OK
  BY SMT DEF Mail!UnitsLevel, Mail!Units, Mail!OK, Mail!CRIT, OK, CRIT
<1>4. Mail!Most(Mail!Level(Mail!Mailq(r, e).deferred, 10, 20), Mail!Level(Mail!Mailq(r, e).active, 200, 300)) =
          Level(Mail!DeferredCount(r[2].deg, r[3].brk, r[4].brk, e), 10, 20)
  BY SMT, MailCounts DEF Mail!Mailq, Mail!Deferred, Mail!Level, Level, Mail!Most, Mail!OK, Mail!WARN,
     Mail!CRIT, OK, WARN, CRIT, Within
<1> QED BY SMT, <1>1, <1>2, <1>3, <1>4, MailMemory DEF Mail!Services

------------------------------------------------------------------------------
(* db-postgres-01 *)

\* The ramps of db-postgres-01.
LEMMA PrimaryRamps ==
    ASSUME NEW r \in [1..14 -> Reading]
    PROVE  /\ \A i \in 1..14 : r[i].deg \in Ages /\ r[i].brk \in Ages
           /\ Within(Primary!R(r, 2, 50), 0, 100) /\ Within(Primary!R(r, 4, 55), 0, 100)
           /\ Within(Primary!R(r, 5, 75), 0, 100) /\ Within(Primary!R(r, 6, 100), 0, 100)
           /\ Within(Primary!R(r, 7, 60), 0, 100) /\ Within(Primary!R(r, 8, 50), 0, 100)
           /\ Within(Primary!R(r, 11, 75), 0, 100) /\ Within(Primary!R(r, 12, 60), 0, 100)
           /\ Within(Primary!R(r, 14, 75), 0, 100)
<1>1. \A i \in 1..14 : r[i].deg \in Ages /\ r[i].brk \in Ages
  BY SMT DEF Reading
<1>2. \A brk \in Ages : /\ Within(Primary!Ramp(brk, 20), 0, 100) /\ Within(Primary!Ramp(brk, 22), 0, 100)
                        /\ Within(Primary!Ramp(brk, 30), 0, 100) /\ Within(Primary!Ramp(brk, 40), 0, 100)
                        /\ Within(Primary!Ramp(brk, 24), 0, 100)
  BY SMT, HostsAssumption DEF Primary!Ramp, Primary!Least, Ages, None, Within
<1> QED BY SMT, <1>1, <1>2 DEF Primary!R, Primary!BREAK_RAMP

\* Its memory is no part of its story.
LEMMA PrimaryMemory ==
    ASSUME NEW r \in [1..14 -> Reading], NEW e \in Noise
    PROVE  /\ AddsUp(Primary!MemoryParts(Primary!Memory(r, e)))
           /\ Primary!MemoryLevel(Primary!Memory(r, e)) = OK
           /\ Primary!Memory(r, e).cached = 6963200 /\ Primary!Memory(r, e).anon = 5662310
<1> DEFINE m == Primary!Memory(r, e)
           free == Primary!GaugeFrac(Primary!Lerp(2867200, 2457600, Primary!R(r, 2, 50)), 2, e)
           available == Primary!GaugeFrac(Primary!Lerp(7864320, 7600000, Primary!R(r, 2, 50)), 1, e)
<1>1. /\ m.total = 16384000 /\ m.swap = 4194300 /\ m.swapfree = 4194300 /\ m.free = free /\ m.cached = 6963200
      /\ m.buffers = 184320 /\ m.swapcached = 0 /\ m.sreclaim = 532480 /\ m.anon = 5662310
      /\ m.committed = 7028736 /\ m.limit = 12386300
      /\ m.available = available /\ m.active = 6187420 /\ m.inactive = 6622410
  BY SMT DEF Primary!Memory, Primary!Meminfo
<1> HIDE DEF m
<1>2. Within(free, 2400000, 3000000) /\ Within(available, 7500000, 8000000)
  <2>1. Within(Primary!R(r, 2, 50), 0, 100)
    BY SMT, PrimaryRamps
  <2> QED BY SMT, <2>1 DEF Primary!GaugeFrac, Primary!Lerp, Noise, Within
<1> HIDE DEF free, available
<1>3. AddsUp(Primary!MemoryParts(m))
  BY SMT, <1>1, <1>2 DEF AddsUp, Primary!MemoryParts, Primary!MemUsed, Primary!Caches, Within
<1>4. Primary!MemoryLevel(m) = OK
  BY SMT, <1>1, <1>2 DEF Primary!MemoryLevel, Primary!Most, Primary!Level, Primary!Percent, Primary!MemUsed,
     Primary!Caches, Within, Primary!OK, Primary!WARN, Primary!CRIT, OK, WARN
<1> QED BY SMT, <1>1, <1>3, <1>4 DEF m

\* The sessions, of which the active ones pile up behind the dying disk.
LEMMA PrimarySessions ==
    ASSUME NEW r \in [1..14 -> Reading], NEW e \in Noise
    PROVE  Within(Primary!RunSess(r), 2, 24) /\ Within(Primary!IdleSess(r, e), 2, 8)
<1>1. Within(Primary!R(r, 11, 75), 0, 100)
  BY SMT, PrimaryRamps
<1> QED BY SMT, <1>1 DEF Primary!RunSess, Primary!IdleSess, Primary!Lerp, Noise, Within

\* The data disk is never more than busy all the time.
LEMMA PrimaryDataDisk ==
    ASSUME NEW r \in [1..14 -> Reading], NEW e \in Noise
    PROVE  /\ Within(Primary!DataDisk(r, e).io_ticks, 0, 1000)
           /\ \A f \in {"rd_ios", "rd_ticks", "wr_ios", "wr_ticks", "io_ticks"} : Primary!DataDisk(r, e)[f] >= 0
<1>1. Within(Primary!R(r, 8, 50), 0, 100)
  BY SMT, PrimaryRamps
<1> QED BY SMT, <1>1 DEF Primary!DataDisk, Primary!Lerp, Primary!GaugeFrac, Noise, Within

\* The counters of the dying disk: bounded, silent for the first eight
\* minutes of the broken state, and preceded by the temperature.
LEMMA PrimarySmart ==
    ASSUME NEW deg \in Ages, NEW brk \in Ages
    PROVE  LET s == Primary!SmartAttrs(deg, brk)
           IN  /\ Within(s.pending, 0, 24) /\ Within(s.realloc, 0, 12) /\ Within(s.uncorrect, 0, 6)
               /\ (s.pending + s.realloc + s.uncorrect > 0) <=> (deg > 0 /\ brk > 8)
               /\ s.temp = IF deg <= 0 THEN 300 ELSE 300 + Least(80, 14 * deg)
  BY SMT, HostsAssumption DEF Primary!SmartAttrs, Primary!Least, Primary!Most, Primary!CONFESSION_MIN, Ages, None, Within,
     Least

\* All of the answer of db-postgres-01 adds up.
LEMMA PrimaryFits ==
    ASSUME NEW r \in [1..14 -> Reading], NEW e \in Noise
    PROVE  AddsUp(Primary!Parts(r, e)) /\ Rising(Primary!Rates(r, e))
<1> DEFINE m == Primary!Memory(r, e)
<1>1. AddsUp(Primary!Filesystems(e))
  BY SMT DEF AddsUp, Primary!Filesystems, Primary!Filling, Primary!GaugeAbs, Noise
<1>2. AddsUp({<<Primary!DataDisk(r, e).io_ticks, 1000>>})
  BY SMT, PrimaryDataDisk DEF AddsUp, Within
<1>3. AddsUp({<<Primary!Dirty(r, e) + Primary!Writeback(r, e), m.cached>>})
  <2>1. r[3].brk \in Ages /\ Within(Primary!R(r, 2, 50), 0, 100)
    BY SMT, PrimaryRamps
  <2>2. Within(Primary!Dirty(r, e), 0, 1000000)
    BY SMT, <2>1, HostsAssumption DEF Primary!Dirty, Primary!GaugeFrac, Primary!Most, Primary!Least, Ages, None, Noise, Within
  <2>3. Within(Primary!Writeback(r, e), 0, 300000)
    BY SMT, <2>1 DEF Primary!Writeback, Primary!GaugeFrac, Noise, Within
  <2> QED BY SMT, <2>2, <2>3, PrimaryMemory DEF AddsUp, Within
<1>4. Within(Primary!Ticks(r, e).busy, 0, 396) /\ Primary!Ticks(r, e).idle >= 0
  <2>1. Within(Primary!R(r, 7, 60), 0, 100)
    BY SMT, PrimaryRamps
  <2> DEFINE c    == Primary!R(r, 7, 60)
             base == Primary!Lerp(60, 25, c) + Primary!Lerp(25, 18, c) + Primary!Lerp(12, 315, c)
  <2>2. Within(base, 90, 400)
    BY SMT, <2>1 DEF Primary!Lerp, Within
  <2>3. Primary!Ticks(r, e).busy = Primary!Least(396, Primary!GaugeFrac(100 * base, 30, e) \div 100)
        /\ Primary!Ticks(r, e).idle = 400 - Primary!Ticks(r, e).busy
    BY SMT DEF Primary!Ticks
  <2> HIDE DEF base
  <2>4. Within(Primary!GaugeFrac(100 * base, 30, e) \div 100, 0, 600)
    BY SMT, <2>2 DEF Primary!GaugeFrac, Noise, Within
  <2> QED BY SMT, <2>3, <2>4 DEF Primary!Least, Within
<1>5. AddsUp({<<Primary!Ticks(r, e).busy, 400>>, <<Primary!Sessions(r, e)[1] + Primary!Sessions(r, e)[2], 100>>})
  BY SMT, <1>4, PrimarySessions DEF AddsUp, Primary!Sessions, Within
<1>6. AddsUp({<<Primary!ConnTime(r, e), 2500>>})
  <2>1. Within(Primary!R(r, 14, 75), 0, 100)
    BY SMT, PrimaryRamps
  <2> QED BY SMT, <2>1 DEF AddsUp, Primary!ConnTime, Primary!GaugeFrac, Primary!Lerp, Noise, Within
<1>7. AddsUp({<<Primary!Elapsed(d, up), up>> : d \in Primary!Daemons, up \in {0, 16, 1036800}})
  BY SMT DEF AddsUp, Primary!Elapsed, Primary!Daemons, Primary!Most
<1>8. AddsUp({<<rss, m.anon>> : rss \in Primary!Processes(r, e)})
  <2>1. \A rss \in Primary!Processes(r, e) : Within(rss, 0, 2350000)
    <3>1. \A i \in 1..(Primary!Sessions(r, e)[1] + Primary!Sessions(r, e)[2]) :
              Within(180000 + (((i * 37) % 240) * 1000), 180000, 419000)
      BY SMT, PrimarySessions DEF Primary!Sessions, Within
    <3> QED BY SMT, <3>1 DEF Primary!Processes, Primary!Daemons, Within
  <2>2. m.anon = 5662310
    BY SMT, PrimaryMemory
  <2> HIDE DEF m
  <2> QED BY SMT, <2>1, <2>2 DEF AddsUp, Within
<1>9. AddsUp({<<Primary!SmartAttrs(r[9].deg, r[10].brk).pending, 24>>})
  BY SMT, PrimaryRamps, PrimarySmart DEF AddsUp, Within
<1>10. Rising(Primary!Payments(r))
  <2>1. Within(Primary!R(r, 12, 60), 0, 100)
    BY SMT, PrimaryRamps
  <2> QED BY SMT, <2>1 DEF Rising, Primary!Payments, Primary!Lerp, Within
<1>11. Rising(Primary!Rates(r, e))
  BY SMT, <1>4, <1>10, PrimaryDataDisk DEF Rising, Primary!Rates, Within
<1> QED BY SMT, <1>1, <1>2, <1>3, <1>5, <1>6, <1>7, <1>8, <1>9, <1>11, PrimaryMemory DEF AddsUp, Primary!Parts

\* What the monitoring shows of db-postgres-01.
LEMMA PrimaryShows ==
    ASSUME NEW r \in [1..14 -> Reading], NEW e \in Noise
    PROVE  LET shown == Primary!Services(r, e)
               temp  == IF r[9].deg <= 0 THEN 300 ELSE 300 + Least(80, 14 * r[9].deg) IN
           /\ DOMAIN shown = {"Memory", "Disks", "Units", "Load", "Temperature", "Smart", "Story"}
           /\ shown["Memory"] = OK /\ shown["Disks"] = OK /\ shown["Units"] = OK /\ shown["Story"] = OK
           /\ shown["Load"] = Level(LoadOf(Lerp(85, 4400, Ramp(r[6].brk, 40)), 100, 6, e), 2000, 4000)
           /\ shown["Temperature"] = Level((temp + (13 * e.d) + 5) \div 10, 35, 40)
           /\ shown["Smart"] = IF r[9].deg > 0 /\ r[10].brk > 8 THEN CRIT ELSE OK
<1>1. Primary!LoadLevel(Primary!Load(r, e)[3], 4) = Level(LoadOf(Lerp(85, 4400, Ramp(r[6].brk, 40)), 100, 6, e), 2000, 4000)
  BY SMT DEF Primary!LoadLevel, Primary!Load, Primary!R, Primary!BREAK_RAMP, Primary!Ramp, Ramp, Primary!Lerp, Lerp,
     Primary!LoadOf, LoadOf, Primary!GaugeFrac, GaugeFrac, Primary!Level, Level, Primary!Least, Least,
     Primary!OK, Primary!WARN, Primary!CRIT, OK, WARN, CRIT
<1>2. Primary!DisksLevel(Primary!Filesystems(e)) = OK
  <2>1. {Primary!FilesystemLevel(f[1], f[2]) : f \in Primary!Filesystems(e)} = {0}
    BY SMT DEF Primary!Filesystems, Primary!Filling, Primary!GaugeAbs, Noise, Primary!FilesystemLevel, Primary!Level,
       Primary!Percent, Primary!OK, Primary!WARN, Primary!CRIT
  <2> QED BY <2>1, WorstOfNone, SMT DEF Primary!DisksLevel, Primary!Max, OK
<1>3. Primary!UnitsLevel(Primary!Units) = OK
  BY SMT DEF Primary!UnitsLevel, Primary!Units, Primary!OK, Primary!CRIT, OK, CRIT
<1>4. r[9].deg \in Ages /\ r[10].brk \in Ages
  BY SMT, PrimaryRamps
<1>5. /\ Primary!Level((Primary!Smart(r, e).temp + 5) \div 10, 35, 40) =
             Level(((IF r[9].deg <= 0 THEN 300 ELSE 300 + Least(80, 14 * r[9].deg)) + (13 * e.d) + 5) \div 10, 35, 40)
      /\ Primary!Smart(r, e).pending + Primary!Smart(r, e).realloc + Primary!Smart(r, e).uncorrect > 0
             <=> r[9].deg > 0 /\ r[10].brk > 8
  <2> DEFINE s == Primary!SmartAttrs(r[9].deg, r[10].brk)
  <2>1. /\ Primary!Smart(r, e).temp = s.temp + (13 * e.d)
        /\ Primary!Smart(r, e).pending = s.pending /\ Primary!Smart(r, e).realloc = s.realloc
        /\ Primary!Smart(r, e).uncorrect = s.uncorrect
    BY SMT DEF Primary!Smart, Primary!SmartAttrs, Primary!GaugeAbs
  <2> HIDE DEF s
  <2> QED BY SMT, <1>4, <2>1, PrimarySmart DEF s, Primary!Level, Level, Primary!OK, Primary!WARN, Primary!CRIT, OK, WARN, CRIT
<1>6. Primary!Most(Primary!Level(Primary!RunSess(r), 80, 90), Primary!Level(Primary!IdleSess(r, e), 80, 90)) = OK
  BY SMT, PrimarySessions DEF Primary!Most, Primary!Level, Primary!OK, Primary!WARN, Primary!CRIT, OK, Within
<1> QED BY SMT, <1>1, <1>2, <1>3, <1>5, <1>6, PrimaryMemory DEF Primary!Services, Primary!OK, Primary!CRIT, OK, CRIT

------------------------------------------------------------------------------
(* db-postgres-02 *)

\* The connections of db-postgres-02, of at most 200.
LEMMA ReplicaCounts ==
    ASSUME NEW r \in [1..4 -> Reading], NEW e \in Noise
    PROVE  LET c == Replica!ConnectionCounts(r, e)
           IN  /\ Within(c.active, 3, 5) /\ Within(c.idle, 20, 191) /\ c.active + c.idle <= 194
               /\ r[2].deg <= 0 => c.idle <= 30
<1> DEFINE deg == r[2].deg
           brk == r[3].brk
           decay == Replica!Decay(brk)
<1>1. deg \in Ages /\ brk \in Ages
  BY SMT DEF Reading
<1> HIDE DEF deg, brk
<1>2. Within(decay, 10, 100)
  BY SMT, <1>1, HostsAssumption DEF Replica!Decay, Replica!Most, Ages, None, Within
<1> DEFINE active  == Replica!Most(1, Replica!GaugeAbs(4, 1, e))
           leak    == Replica!Lerp(90, 150, Replica!Least(100, (100 * deg) \div 16))
           runaway == Replica!Lerp(150, 184, Replica!Least(100, (100 * brk) \div 4))
           creep   == (10 * (100 - decay)) \div 100
           total   == IF brk > 0 THEN Replica!Most(leak, runaway + creep) ELSE leak
           idle    == IF deg <= 0 THEN Replica!Most(1, Replica!GaugeAbs(26, 3, e))
                      ELSE Replica!Most(30, Replica!Least(194 - active, Replica!GaugeAbs(total, 1, e)))
<1>3. Replica!ConnectionCounts(r, e).active = active /\ Replica!ConnectionCounts(r, e).idle = idle
  BY SMT DEF Replica!ConnectionCounts, Replica!LEAK_FILL_MIN, Replica!BREAK_RAMP_MIN, Replica!MAX_CONNECTIONS,
     Replica!HEALTHY_CONNS, Replica!DEGRADED_PEAK, Replica!BROKEN_CAP, deg, brk
<1> HIDE DEF decay
<1>4. Within(active, 3, 5)
  BY SMT DEF Replica!Most, Replica!GaugeAbs, Noise, Within
<1>5. total \in Int
  BY SMT, <1>1, <1>2, HostsAssumption DEF Replica!Most, Replica!Lerp, Replica!Least, Ages, None, Within
<1> HIDE DEF total, active
<1>6. Within(idle, 20, 191) /\ idle + active <= 194 /\ (deg <= 0 => idle <= 30)
  BY SMT, <1>4, <1>5 DEF Replica!Most, Replica!Least, Replica!GaugeAbs, Noise, Within
<1> HIDE DEF idle
<1> QED BY SMT, <1>3, <1>4, <1>6 DEF Within, deg

\* Its memory is no part of its story.
LEMMA ReplicaMemory ==
    ASSUME NEW r \in [1..4 -> Reading], NEW e \in Noise
    PROVE  /\ AddsUp(Replica!MemoryParts(Replica!Memory(r, e)))
           /\ Replica!MemoryLevel(Replica!Memory(r, e)) = OK
           /\ Replica!Memory(r, e).anon = 5388420
<1> DEFINE m == Replica!Memory(r, e)
           backends == Replica!Total(r, e) * 2560
           free == Replica!Most(1800000, Replica!GaugeFrac(3100000, 1, e) - backends)
           available == Replica!Most(2500000, Replica!GaugeFrac(8200000, 1, e) - backends)
           committed == Replica!GaugeFrac(6900000 + backends, 1, e)
<1>1. /\ m.total = 16384000 /\ m.swap = 4194300 /\ m.swapfree = 4194300 /\ m.free = free /\ m.cached = 6700000
      /\ m.buffers = 194560 /\ m.swapcached = 0 /\ m.sreclaim = 511360 /\ m.anon = 5388420
      /\ m.committed = committed /\ m.limit = 12386300
      /\ m.available = available /\ m.active = 6024110 /\ m.inactive = 6390220
  BY SMT DEF Replica!Memory, Replica!Meminfo
<1> HIDE DEF m
<1>2. Within(backends, 0, 600000)
  BY SMT, ReplicaCounts DEF Replica!Total, Within
<1> HIDE DEF backends
<1>3. Within(free, 1800000, 3200000) /\ Within(available, 2500000, 8300000) /\ Within(committed, 6000000, 8000000)
  BY SMT, <1>2 DEF Replica!GaugeFrac, Replica!Most, Noise, Within
<1> HIDE DEF free, available, committed
<1>4. AddsUp(Replica!MemoryParts(m))
  BY SMT, <1>1, <1>3 DEF AddsUp, Replica!MemoryParts, Replica!MemUsed, Replica!Caches, Within
<1>5. Replica!MemoryLevel(m) = OK
  BY SMT, <1>1, <1>3 DEF Replica!MemoryLevel, Replica!Most, Replica!Level, Replica!Percent, Replica!MemUsed,
     Replica!Caches, Within, Replica!OK, Replica!WARN, Replica!CRIT, OK, WARN
<1> QED BY SMT, <1>1, <1>4, <1>5 DEF m

\* All of the answer of db-postgres-02 adds up.
LEMMA ReplicaFits ==
    ASSUME NEW r \in [1..4 -> Reading], NEW e \in Noise
    PROVE  AddsUp(Replica!Parts(r, e)) /\ Rising(Replica!Rates(r, e))
<1> DEFINE m == Replica!Memory(r, e)
           b == Replica!Backends(r, e)
<1>1. AddsUp(Replica!Filesystems(e))
  BY SMT DEF AddsUp, Replica!Filesystems, Replica!Filling, Replica!GaugeAbs, Noise
<1>2. AddsUp({<<p[2], m.anon>> : p \in Replica!Processes})
  <2>1. m.anon = 5388420
    BY SMT, ReplicaMemory
  <2> HIDE DEF m
  <2> QED BY SMT, <2>1 DEF AddsUp, Replica!Processes
<1>3. /\ Within(Replica!Total(r, e), 23, 194)
      /\ b.running + b.idle + b.leaked = Replica!Total(r, e)
      /\ Replica!Sessions(r, e)[1] + Replica!Sessions(r, e)[2] = Replica!Total(r, e)
      /\ Replica!Numbackends(r, e) = Replica!Total(r, e)
  BY SMT, ReplicaCounts DEF Replica!Total, Replica!Backends, Replica!Sessions, Replica!Numbackends, Within
<1>4. AddsUp({<<Replica!ConnTime(r, e), 2000>>})
  BY SMT, <1>3 DEF AddsUp, Replica!ConnTime, Replica!Most, Replica!Least, Replica!BROKEN_CAP, Replica!MAX_CONNECTIONS,
     Replica!GaugeFrac, Replica!Lerp, Noise, Within
<1>5. AddsUp({<<Replica!Total(r, e) + 1, Replica!MAX_CONNECTIONS>>, <<b.running + b.idle + b.leaked, Replica!Numbackends(r, e)>>,
         <<Replica!Sessions(r, e)[1] + Replica!Sessions(r, e)[2], b.running + b.idle + b.leaked>>})
  <2> HIDE DEF b
  <2> QED BY SMT, <1>3 DEF AddsUp, Within, Replica!MAX_CONNECTIONS
<1>6. Rising(Replica!Rates(r, e))
  BY SMT, <1>3 DEF Rising, Replica!Rates, Within
<1> HIDE DEF b, m
<1> QED BY SMT, <1>1, <1>2, <1>4, <1>5, <1>6, ReplicaMemory DEF AddsUp, Replica!Parts, b, m

\* What the monitoring shows of db-postgres-02.
LEMMA ReplicaShows ==
    ASSUME NEW r \in [1..4 -> Reading], NEW e \in Noise
    PROVE  LET shown == Replica!Services(r, e) IN
           /\ DOMAIN shown = {"Memory", "Load", "Disks", "Units", "Story"}
           /\ shown["Memory"] = OK /\ shown["Load"] = OK /\ shown["Disks"] = OK /\ shown["Units"] = OK
           /\ shown["Story"] = Level((100 * Replica!ConnectionCounts(r, e).idle) \div 200, 80, 90)
<1>1. Replica!LoadLevel(Replica!Load(r, e)[3], 4) = OK
  <2> DEFINE bump == Replica!Least(250, (100 * Replica!Total(r, e)) \div 90)
  <2>1. Within(bump, 0, 250)
    BY SMT, ReplicaCounts DEF Replica!Total, Replica!Least, Within
  <2> HIDE DEF bump
  <2>2. Replica!Load(r, e)[3] = Replica!LoadOf(140 + ((8 * bump) \div 10), 100, 6, e)
    BY SMT DEF Replica!Load, bump
  <2> QED BY SMT, <2>1, <2>2 DEF Replica!LoadLevel, Replica!LoadOf, Replica!GaugeFrac, Replica!Level,
       Replica!OK, Replica!WARN, Replica!CRIT, OK, Noise, Within
<1>2. Replica!DisksLevel(Replica!Filesystems(e)) = OK
  <2>1. {Replica!FilesystemLevel(f[1], f[2]) : f \in Replica!Filesystems(e)} = {0}
    BY SMT DEF Replica!Filesystems, Replica!Filling, Replica!GaugeAbs, Noise, Replica!FilesystemLevel, Replica!Level,
       Replica!Percent, Replica!OK, Replica!WARN, Replica!CRIT
  <2> QED BY <2>1, WorstOfNone, SMT DEF Replica!DisksLevel, Replica!Max, OK
<1>3. Replica!UnitsLevel(Replica!Units) = OK
  BY SMT DEF Replica!UnitsLevel, Replica!Units, Replica!OK, Replica!CRIT, OK, CRIT
<1>4. Replica!Most(Replica!ConnectionLevel(Replica!ConnectionCounts(r, e).idle),
                   Replica!ConnectionLevel(Replica!ConnectionCounts(r, e).active)) =
          Level((100 * Replica!ConnectionCounts(r, e).idle) \div 200, 80, 90)
  BY SMT, ReplicaCounts DEF Replica!ConnectionLevel, Replica!MAX_CONNECTIONS, Replica!Level, Level, Replica!Most,
     Replica!OK, Replica!WARN, Replica!CRIT, OK, WARN, CRIT, Within
<1> QED BY SMT, <1>1, <1>2, <1>3, <1>4, ReplicaMemory DEF Replica!Services

------------------------------------------------------------------------------
(* payment-api *)

\* What the crash loop of payment-api changes.
LEMMA PaymentRamp ==
    ASSUME NEW r \in [1..4 -> Reading]
    PROVE  Within(Payment!Net(r), 0, 100) /\ Within(Payment!Leak(r), 0, 450000) /\ r[4].brk \in Ages
<1>1. r[2].brk \in Ages /\ r[3].brk \in Ages /\ r[4].brk \in Ages
  BY SMT DEF Reading
<1> QED BY SMTT(60), <1>1, HostsAssumption DEF Payment!Net, Payment!Ramp, Payment!Least, Payment!Leak, Payment!Most, Ages, None, Within

\* Its memory stays green.
LEMMA PaymentMemory ==
    ASSUME NEW r \in [1..4 -> Reading], NEW e \in Noise
    PROVE  /\ AddsUp(Payment!MemoryParts(Payment!Memory(r, e)))
           /\ Payment!MemoryLevel(Payment!Memory(r, e)) = OK
           /\ Within(Payment!Memory(r, e).anon, 1600000, 2400000)
<1> DEFINE m == Payment!Memory(r, e)
           shift == Payment!AnonShift(r)
           free  == Payment!GaugeFrac(2650000 - shift, 2, e)
           available == Payment!GaugeFrac(4870000 - shift, 1, e)
<1>1. /\ m.total = 8028400 /\ m.swap = 2097148 /\ m.swapfree = 2097148 /\ m.free = free /\ m.cached = 1910000
      /\ m.buffers = 182000 /\ m.swapcached = 0 /\ m.sreclaim = 224000 /\ m.anon = 2350000 + shift
      /\ m.committed = 3260000 + (115 * (shift \div 100)) /\ m.limit = 6111348
      /\ m.available = available /\ m.active = 1530000 + shift + 642000 /\ m.inactive = 901920 + 1368080
  BY SMT DEF Payment!Memory, Payment!Meminfo
<1> HIDE DEF m
<1>2. Within(shift, -720000, 0)
  BY SMT, PaymentRamp DEF Payment!AnonShift, Within
<1> HIDE DEF shift
<1>3. Within(free, 2500000, 3500000) /\ Within(available, 4800000, 5700000)
  BY SMT, <1>2 DEF Payment!GaugeFrac, Noise, Within
<1> HIDE DEF free, available
<1>4. AddsUp(Payment!MemoryParts(m))
  BY SMT, <1>1, <1>2, <1>3 DEF AddsUp, Payment!MemoryParts, Payment!MemUsed, Payment!Caches, Within
<1>5. Payment!MemoryLevel(m) = OK
  BY SMT, <1>1, <1>2, <1>3 DEF Payment!MemoryLevel, Payment!Most, Payment!Level, Payment!Percent, Payment!MemUsed,
     Payment!Caches, Within, Payment!OK, Payment!WARN, Payment!CRIT, OK, WARN
<1>6. Within(m.anon, 1600000, 2400000)
  BY SMT, <1>1, <1>2 DEF Within
<1> QED BY SMT, <1>4, <1>5, <1>6 DEF m

\* All of the answer of payment-api adds up.
LEMMA PaymentFits ==
    ASSUME NEW r \in [1..4 -> Reading], NEW e \in Noise
    PROVE  AddsUp(Payment!Parts(r, e)) /\ Rising(Payment!Rates(r, e))
<1>1. AddsUp(Payment!Filesystems(e))
  BY SMT DEF AddsUp, Payment!Filesystems, Payment!Filling, Payment!GaugeAbs, Noise
<1>2. Within(Payment!Max(Payment!Workers(r)), 0, 700000)
  <2>1. CASE Payment!Broken(r)
    BY SMT, <2>1, PaymentRamp DEF Payment!Max, Payment!Workers, Within
  <2>2. CASE ~Payment!Broken(r)
    <3>1. Payment!Max({240000, 253000}) = 253000
      BY SMT DEF Payment!Max
    <3> QED BY SMT, <2>2, <3>1 DEF Payment!Workers, Within
  <2> QED BY SMT, <2>1, <2>2
<1>3. AddsUp({<<p[2], Payment!Memory(r, e).anon>> : p \in Payment!Processes(r)})
  <2> DEFINE anon == Payment!Memory(r, e).anon
  <2>1. \A p \in Payment!Processes(r) : Within(p[2], 0, 700000)
    BY SMT, <1>2 DEF Payment!Processes, Within
  <2>2. Within(anon, 1600000, 2400000)
    BY SMT, PaymentMemory
  <2> HIDE DEF anon
  <2>3. AddsUp({<<p[2], anon>> : p \in Payment!Processes(r)})
    BY SMT, <2>1, <2>2 DEF AddsUp, Within
  <2> QED BY SMT, <2>3 DEF anon
<1>4. Within(Payment!Ticks(r, e).busy, 0, 40000) /\ Payment!Ticks(r, e).idle >= 0
  <2> DEFINE base == Payment!Lerp(3500, 2400, Payment!Net(r)) + Payment!Lerp(1200, 1000, Payment!Net(r)) + 400
  <2>1. Within(base, 3000, 6000)
    BY SMT, PaymentRamp DEF Payment!Lerp, Within
  <2>2. Payment!Ticks(r, e).busy = Payment!GaugeFrac(base, 30, e) /\ Payment!Ticks(r, e).idle = 40000 - Payment!Ticks(r, e).busy
    BY SMT DEF Payment!Ticks
  <2> HIDE DEF base
  <2> QED BY SMT, <2>1, <2>2 DEF Payment!GaugeFrac, Noise, Within
<1>5. AddsUp({<<Payment!Ticks(r, e).busy, 40000>>})
  BY SMT, <1>4 DEF AddsUp, Within
<1>6. Payment!RxBytes(r, e) >= 0 /\ Payment!TxBytes(r, e) >= 0
  <2>1. \A x, y \in Int : x >= 0 /\ y >= 0 => x * y >= 0
    BY SMT
  <2>2. /\ Within(Payment!Lerp(950, 1150, Payment!Net(r)), 0, 2000) /\ Within(Payment!Lerp(900, 640, Payment!Net(r)), 0, 2000)
        /\ Within(Payment!Lerp(189, 178, Payment!Net(r)), 0, 400) /\ Within(Payment!Lerp(356, 86, Payment!Net(r)), 0, 400)
    BY SMT, PaymentRamp DEF Payment!Lerp, Within
  <2>3. \A x : Within(x, 0, 400) => Within(Payment!GaugeFrac(100 * x, 12, e), 0, 50000)
    BY SMT DEF Payment!GaugeFrac, Noise, Within
  <2>4. /\ Within(Payment!GaugeFrac(100 * Payment!Lerp(189, 178, Payment!Net(r)), 12, e), 0, 50000)
        /\ Within(Payment!GaugeFrac(100 * Payment!Lerp(356, 86, Payment!Net(r)), 12, e), 0, 50000)
    BY SMT, <2>2, <2>3
  <2> QED BY SMT, <2>1, <2>2, <2>4 DEF Payment!RxBytes, Payment!TxBytes, Within
<1>7. Rising(Payment!Rates(r, e))
  BY SMT, <1>4, <1>6, PaymentRamp DEF Rising, Payment!Rates, Payment!Lerp, Within
<1> QED BY SMT, <1>1, <1>3, <1>5, <1>7, PaymentMemory DEF AddsUp, Payment!Parts

\* What the monitoring shows of payment-api.
LEMMA PaymentShows ==
    ASSUME NEW r \in [1..4 -> Reading], NEW e \in Noise
    PROVE  LET shown == Payment!Services(r, e) IN
           /\ DOMAIN shown = {"Memory", "Load", "Disks", "Units"}
           /\ shown["Memory"] = OK /\ shown["Load"] = OK /\ shown["Disks"] = OK
           /\ shown["Units"] = IF r[1].state = "broken" THEN CRIT ELSE OK
<1>1. Payment!LoadLevel(Payment!Load(r, e)[3], 4) = OK
  <2> DEFINE base == Payment!Lerp(55, 42, Payment!Net(r))
  <2>1. Within(base, 40, 60)
    BY SMT, PaymentRamp DEF Payment!Lerp, Within
  <2>2. Payment!Load(r, e)[3] = Payment!LoadOf(base, 100, 6, e)
    BY SMT DEF Payment!Load
  <2> HIDE DEF base
  <2> QED BY SMT, <2>1, <2>2 DEF Payment!LoadLevel, Payment!LoadOf, Payment!GaugeFrac, Payment!Level,
       Payment!OK, Payment!WARN, Payment!CRIT, OK, Noise, Within
<1>2. Payment!DisksLevel(Payment!Filesystems(e)) = OK
  <2>1. {Payment!FilesystemLevel(f[1], f[2]) : f \in Payment!Filesystems(e)} = {0}
    BY SMT DEF Payment!Filesystems, Payment!Filling, Payment!GaugeAbs, Noise, Payment!FilesystemLevel, Payment!Level,
       Payment!Percent, Payment!OK, Payment!WARN, Payment!CRIT
  <2> QED BY <2>1, WorstOfNone, SMT DEF Payment!DisksLevel, Payment!Max, OK
<1>3. Payment!UnitsLevel(Payment!Units(r)) = IF r[1].state = "broken" THEN CRIT ELSE OK
  BY SMT DEF Payment!UnitsLevel, Payment!Units, Payment!Broken, Payment!OK, Payment!CRIT, OK, CRIT
<1> QED BY SMT, <1>1, <1>2, <1>3, PaymentMemory DEF Payment!Services

------------------------------------------------------------------------------
(* win-dc-01 *)

\* deg_pressure of win-dc-01: its range, that it rises, and its two ends;
LEMMA WindowsDegPressure ==
    ASSUME NEW deg, NEW later, deg \in Int, later \in Int, deg <= later
    PROVE  /\ Within(Windows!DegPressure(deg), 0, 78)
           /\ Windows!DegPressure(deg) <= Windows!DegPressure(later)
           /\ deg <= 0 => Windows!DegPressure(deg) = 0
           /\ deg >= 18 => Windows!DegPressure(deg) = 78
  BY SMT DEF Windows!DegPressure, Windows!Least, Windows!LEAK_FILL_MIN, Within

\* and pressure(), which goes on from where the break found it.
LEMMA WindowsPressure ==
    ASSUME NEW s \in Reading
    PROVE  /\ Within(Windows!Pressure(s), 0, 100)
           /\ Within(Windows!AtBreak(s), 0, 78)
           /\ s.deg <= 0 /\ s.brk <= 0 => Windows!Pressure(s) = 0
           /\ s.deg >= 18 /\ s.brk <= 0 => Windows!Pressure(s) = 78
           /\ s.brk >= 4 => Windows!Pressure(s) = 100
           /\ s.brk <= 0 => Windows!Pressure(s) = Windows!DegPressure(s.deg)
<1> DEFINE start == Windows!AtBreak(s)
           ramp  == Windows!Ramp(s.brk, 40)
           rise  == (100 - start) * ramp
           steady == Windows!DegPressure(s.deg)
<1>1. s.deg \in Ages /\ s.brk \in Ages
  BY SMT DEF Reading
<1>2. s.deg \in Int /\ s.brk \in Int /\ s.deg - s.brk \in Int
  <2>1. \A a \in Ages : a \in Int
    BY SMT, HostsAssumption DEF Ages, None
  <2>2. s.deg \in Int /\ s.brk \in Int
    BY Zenon, <1>1, <2>1
  <2> QED BY SMT, <2>2
<1>3. Within(start, 0, 78) /\ Within(steady, 0, 78) /\ (s.deg <= 0 => steady = 0) /\ (s.deg >= 18 => steady = 78)
  <2>1. \A d : d \in Int => Within(Windows!DegPressure(d), 0, 78)
                 /\ (d <= 0 => Windows!DegPressure(d) = 0) /\ (d >= 18 => Windows!DegPressure(d) = 78)
    BY SMT DEF Windows!DegPressure, Windows!Least, Windows!LEAK_FILL_MIN, Within
  <2> QED BY SMT, <1>2, <2>1 DEF Windows!AtBreak
<1>4. Within(ramp, 0, 100) /\ (s.brk >= 4 => ramp = 100)
  BY SMT, <1>2 DEF Windows!Ramp, Windows!Least, Within
<1>5. Windows!Pressure(s) = IF s.brk > 0 THEN Windows!Most(steady, start + (rise \div 100)) ELSE steady
  BY SMT DEF Windows!Pressure, Windows!Lerp, Windows!BREAK_RAMP
<1> HIDE DEF start, ramp, steady
<1>6. Within(rise, 0, 100 * (100 - start)) /\ (ramp = 100 => rise = 100 * (100 - start))
  BY SMT, <1>3, <1>4 DEF Within
<1> HIDE DEF rise
<1> QED BY SMT, <1>2, <1>3, <1>4, <1>5, <1>6 DEF Windows!Most, Within, start, steady

\* All of the answer of win-dc-01 adds up.
LEMMA WindowsFits ==
    ASSUME NEW r \in [1..9 -> Reading], NEW e \in Noise
    PROVE  AddsUp(Windows!Parts(r, e)) /\ Rising(Windows!Rates(r, e))
<1>1. r[2] \in Reading /\ r[5] \in Reading /\ r[9] \in Reading
  BY SMT
<1>2. Within(Windows!Pressure(r[2]), 0, 100) /\ Within(Windows!Pressure(r[5]), 0, 100) /\ Within(Windows!AtBreak(r[9]), 0, 78)
  BY SMT, <1>1, WindowsPressure
<1>3. Within(Windows!CDriveUsed(r, e) - (501000 * Windows!Pressure(r[5])), 66610000, 68290000)
  BY SMT, <1>2 DEF Windows!CDriveUsed, Windows!Filling, Windows!GaugeAbs, Windows!C_BASE, Windows!C_FILL, Noise, Within
<1>4. Windows!GrownBy(r) = IF Windows!Dying(r, 3) THEN 501000 * Windows!Pressure(r[2]) ELSE 0
  BY SMT, <1>2 DEF Windows!GrownBy, Windows!Growth, Windows!Shares, Windows!C_FILL, Within
<1>5. Windows!CDriveUsed(r, e) \in Int
  BY SMT, <1>2 DEF Windows!CDriveUsed, Windows!Filling, Windows!GaugeAbs, Windows!C_BASE, Windows!C_FILL, Noise, Within
<1>6. AddsUp({<<Windows!CDriveUsed(r, e), Windows!C_SIZE>>})
  BY SMT, <1>2, <1>3, <1>5 DEF AddsUp, Windows!C_SIZE, Within
<1>7. AddsUp(IF r[2] = r[5] THEN {<<Windows!GrownBy(r), Windows!CDriveUsed(r, e) - Windows!C_BASE + 90000>>} ELSE {})
  BY SMT, <1>2, <1>3, <1>4, <1>5 DEF AddsUp, Windows!C_BASE, Within
<1>8. Within(Windows!FillRate(r[9]), 0, 300000)
  <2>1. r[9].deg \in Ages /\ r[9].brk \in Ages
    BY SMT, <1>1 DEF Reading
  <2> QED BY SMT, <1>2, <2>1 DEF Windows!FillRate, Windows!C_FILL, Windows!BREAK_RAMP, Windows!LEAK_FILL_MIN, Within
<1>9. Within(Windows!WriteIops(r), 35, 2000) /\ Within(Windows!WriteLatency(r), 55, 130)
  BY SMT, <1>8 DEF Windows!WriteIops, Windows!WriteLatency, Windows!Least, Within
<1>10. Within(Windows!Busy(r), 0, 97)
  <2> DEFINE work == Windows!WriteIops(r) * Windows!WriteLatency(r)
  <2>1. work \in Int /\ work >= 0
    BY SMT, <1>9 DEF Within
  <2>2. Windows!Busy(r) = Windows!Least(97, (700 + work) \div 1000)
    BY SMT DEF Windows!Busy
  <2> HIDE DEF work
  <2> QED BY SMT, <2>1, <2>2 DEF Windows!Least, Within
<1>11. \A i \in 1..4 : Within(Windows!Cpu(i, e).busy, 0, 9500) /\ Windows!Cpu(i, e).idle >= 0
  BY SMT DEF Windows!Cpu, Windows!GaugeFrac, Noise, Within
<1>12. AddsUp({<<Windows!Cpu(i, e).busy, 9500>> : i \in 1..4})
  BY SMT, <1>11 DEF AddsUp, Within
<1>13. AddsUp({<<Windows!Memory(e).free, Windows!Memory(e).total>>, <<Windows!Memory(e).pagefree, Windows!Memory(e).pages>>,
               Windows!DDrive(e)})
  BY SMT DEF AddsUp, Windows!Memory, Windows!DDrive, Windows!GaugeFrac, Windows!GaugeAbs, Noise
<1>14. AddsUp({<<Windows!Busy(r), 97>>})
  BY SMT, <1>10 DEF AddsUp, Within
<1>15. Rising(Windows!Rates(r, e))
  BY SMT, <1>8, <1>9, <1>10, <1>11 DEF Rising, Windows!Rates, Within
<1> QED BY SMT, <1>6, <1>7, <1>12, <1>13, <1>14, <1>15 DEF AddsUp, Windows!Parts

\* What the monitoring shows of win-dc-01.
LEMMA WindowsShows ==
    ASSUME NEW r \in [1..9 -> Reading], NEW e \in Noise
    PROVE  LET shown == Windows!Services(r, e) IN
           /\ DOMAIN shown = {"Memory", "Disks", "Backup", "Load", "Story"}
           /\ shown["Memory"] = OK /\ shown["Load"] = OK /\ shown["Disks"] = OK
           /\ shown["Backup"] = IF r[6].state = "healthy" /\ r[8].state = "healthy" THEN OK ELSE CRIT
           /\ shown["Story"] = Level((Filling(66700000, 0, 1500000, 90000, e) + (501000 * Windows!Pressure(r[5]))) \div 1258270, 80, 90)
<1>1. r[5] \in Reading /\ Within(Windows!Pressure(r[5]), 0, 100)
  BY SMT, WindowsPressure
<1>2. Windows!FilesystemLevel(Windows!CDriveUsed(r, e), Windows!C_SIZE) =
          Level((Filling(66700000, 0, 1500000, 90000, e) + (501000 * Windows!Pressure(r[5]))) \div 1258270, 80, 90)
  BY SMT, <1>1 DEF Windows!FilesystemLevel, Windows!Level, Level, Windows!Percent, Windows!CDriveUsed, Windows!Filling,
     Filling, Windows!GaugeAbs, GaugeAbs, Windows!C_SIZE, Windows!C_BASE, Windows!C_FILL, Windows!OK, Windows!WARN,
     Windows!CRIT, OK, WARN, CRIT, Noise, Within
<1>3. Windows!FilesystemLevel(Windows!DDrive(e)[1], Windows!DDrive(e)[2]) = OK
  BY SMT DEF Windows!FilesystemLevel, Windows!Level, Windows!Percent, Windows!DDrive, Windows!GaugeAbs, Noise,
     Windows!OK, Windows!WARN, Windows!CRIT, OK
<1>4. Windows!Level((100 * (Windows!Memory(e).total - Windows!Memory(e).free)) \div Windows!Memory(e).total, 80, 90) = OK
  BY SMT DEF Windows!Level, Windows!Memory, Windows!GaugeFrac, Noise, Windows!OK, Windows!WARN, Windows!CRIT, OK
<1>5. Windows!Level(Windows!Most(0, Windows!GaugeAbs(10, 14, e)), 20 * 10, 40 * 10) = OK
  BY SMT DEF Windows!Level, Windows!Most, Windows!GaugeAbs, Noise, Windows!OK, Windows!WARN, Windows!CRIT, OK
<1>6. (/\ \E s \in Windows!ServiceTable(r) : s[1] = "MeridianBackupAgent" /\ s[2] = "running"
       /\ "MeridianBackupAgent.exe" \in Windows!Processes(r)) <=> r[6].state = "healthy" /\ r[8].state = "healthy"
  BY SMT DEF Windows!ServiceTable, Windows!Processes, Windows!ProcessTable, Windows!Dying
<1> QED BY SMT, <1>2, <1>3, <1>4, <1>5, <1>6 DEF Windows!Services, Windows!OK, Windows!CRIT, OK, CRIT

------------------------------------------------------------------------------
(* web-frontend-01 and backup-01 *)

\* The memory of web-frontend-01, which has no incident,
LEMMA FrontendMemory ==
    ASSUME NEW e \in Noise
    PROVE  /\ AddsUp(Frontend!MemoryParts(Frontend!Memory(e)))
           /\ Frontend!MemoryLevel(Frontend!Memory(e)) = OK
<1> DEFINE m == Frontend!Memory(e)
           cached    == Frontend!GaugeFrac(6400000, 3, e)
           buffers   == Frontend!GaugeFrac(380000, 4, e)
           sreclaim  == Frontend!GaugeFrac(512000, 3, e)
           shmem     == Frontend!GaugeFrac(655360, 2, e)
           anon      == Frontend!GaugeFrac(1900000, 3, e)
           free      == Frontend!Most(200000, 16384000 - anon - shmem - cached - buffers - sreclaim)
           committed == Frontend!GaugeFrac(3500000, 3, e)
<1>1. m = Meminfo(16384000, 0, 0, free, cached, buffers, 0, sreclaim, anon, shmem, committed, <<62, 38>>)
  BY SMT DEF Frontend!Memory, Frontend!Meminfo, Meminfo, Frontend!Most, Most
<1> HIDE DEF m
<1>2. /\ Within(cached, 6200000, 6600000) /\ Within(buffers, 360000, 400000) /\ Within(sreclaim, 490000, 530000)
      /\ Within(shmem, 640000, 670000) /\ Within(anon, 1800000, 2000000) /\ Within(committed, 3300000, 3700000)
  BY SMT DEF Frontend!GaugeFrac, Noise, Within
<1> HIDE DEF cached, buffers, sreclaim, shmem, anon, committed
<1>3. free = 16384000 - anon - shmem - cached - buffers - sreclaim /\ Within(free, 6000000, 7000000)
  BY SMT, <1>2 DEF Frontend!Most, Within
<1> HIDE DEF free
<1>4. AddsUp(MemoryParts(m))
  BY SMT, <1>1, <1>2, <1>3, MeminfoFits DEF Within
<1>5. Frontend!MemoryParts(m) = MemoryParts(m)
  BY SMT DEF Frontend!MemoryParts, MemoryParts, Frontend!MemUsed, MemUsed, Frontend!Caches, Caches
<1>6. Frontend!MemoryLevel(m) = OK
  BY SMT, <1>1, <1>2, <1>3
     DEF Frontend!MemoryLevel, Meminfo, Frontend!Most, Frontend!Level, Frontend!Percent, Frontend!MemUsed,
         Frontend!Caches, Within, Frontend!OK, Frontend!WARN, Frontend!CRIT, OK
<1> QED BY SMT, <1>4, <1>5, <1>6 DEF m

\* the parts and rates of its answer,
LEMMA FrontendFits ==
    ASSUME NEW r, NEW e \in Noise
    PROVE  AddsUp(Frontend!Parts(r, e)) /\ Rising(Frontend!Rates(r, e))
<1>1. AddsUp(Frontend!Filesystems(e))
  BY SMT DEF AddsUp, Frontend!Filesystems, Frontend!Filling, Frontend!GaugeAbs, Noise
<1>2. Rising(Frontend!Rates(r, e))
  BY SMT DEF Rising, Frontend!Rates
<1>3. AddsUp({<<p[2], 1310720>> : p \in Frontend!Processes(e)})
  <2>1. \A i \in 0..3 : Within(Frontend!WorkerRss(i, e), 0, 300000)
    BY SMT DEF Frontend!WorkerRss, Frontend!GaugeFrac, Noise, Within
  <2>2. \A p \in Frontend!Processes(e) : Within(p[2], 0, 300000)
    BY SMT, <2>1 DEF Frontend!Processes, Within
  <2> QED BY SMT, <2>2 DEF AddsUp, Within
<1>4. AddsUp({<<30, Frontend!Sockets(e).time_wait>>})
  BY SMT DEF AddsUp, Frontend!Sockets, Frontend!Most, Frontend!GaugeAbs, Noise
<1> QED BY SMT, <1>1, <1>2, <1>3, <1>4, FrontendMemory DEF AddsUp, Frontend!Parts

\* and what the monitoring shows of it.
LEMMA FrontendShows ==
    ASSUME NEW r, NEW e \in Noise
    PROVE  LET shown == Frontend!Services(r, e) IN
           /\ DOMAIN shown = {"Memory", "Load", "Disks", "Units", "Story"}
           /\ shown["Memory"] = OK /\ shown["Load"] = OK /\ shown["Disks"] = OK /\ shown["Units"] = OK
           /\ shown["Story"] = OK
<1>1. Frontend!LoadLevel(Frontend!Load(e)[3], 4) = OK
  BY SMT DEF Frontend!LoadLevel, Frontend!Load, Frontend!LoadOf, Frontend!GaugeFrac, Frontend!Level, Frontend!Most,
     Frontend!OK, Frontend!WARN, Frontend!CRIT, OK, Noise
<1>2. Frontend!DisksLevel(Frontend!Filesystems(e)) = OK
  <2>1. {Frontend!FilesystemLevel(f[1], f[2]) : f \in Frontend!Filesystems(e)} = {0}
    BY SMT DEF Frontend!Filesystems, Frontend!Filling, Frontend!GaugeAbs, Noise, Frontend!FilesystemLevel,
       Frontend!Level, Frontend!Percent, Frontend!OK, Frontend!WARN, Frontend!CRIT
  <2> QED BY <2>1, WorstOfNone, SMT DEF Frontend!DisksLevel, Frontend!Max, OK
<1>3. Frontend!UnitsLevel(Frontend!Units) = OK
  BY SMT DEF Frontend!UnitsLevel, Frontend!Units, Frontend!OK, Frontend!CRIT, OK
<1>4. Frontend!Level(Frontend!DiskTemperature(e), 35, 40) = OK
  BY SMT DEF Frontend!Level, Frontend!DiskTemperature, Frontend!GaugeAbs, Noise, Frontend!OK, Frontend!WARN,
     Frontend!CRIT, OK
<1> QED BY SMT, <1>1, <1>2, <1>3, <1>4, FrontendMemory DEF Frontend!Services

\* The memory of backup-01, which has no incident either,
LEMMA BackupMemory ==
    ASSUME NEW e \in Noise
    PROVE  /\ AddsUp(Backup!MemoryParts(Backup!Memory(e)))
           /\ Backup!MemoryLevel(Backup!Memory(e)) = OK
           /\ Within(Backup!Memory(e).anon, 1000000, 4000000)
<1> DEFINE m == Backup!Memory(e)
           cached    == Backup!GaugeFrac(2200000, 2, e)
           free      == Backup!Most(200000, 8388608 - 3600000 - (cached + 180000 + 380000))
           anon      == Backup!Most(1000000, 8388608 - free - (cached + 180000 + 380000) - 500000)
           committed == Backup!GaugeFrac(4100000, 1, e)
<1>1. m = Meminfo(8388608, 2097152, 2097152, free, cached, 180000, 0, 380000, anon, 32768, committed, <<55, 30>>)
  BY SMT DEF Backup!Memory, Backup!Meminfo, Meminfo, Backup!Most, Most
<1> HIDE DEF m
<1>2. Within(cached, 2100000, 2300000) /\ Within(committed, 4000000, 4200000)
  BY SMT DEF Backup!GaugeFrac, Noise, Within
<1> HIDE DEF cached, committed
<1>3. free = 8388608 - 3600000 - (cached + 180000 + 380000) /\ Within(free, 1000000, 3000000)
  BY SMT, <1>2 DEF Backup!Most, Within
<1> HIDE DEF free
<1>4. anon = 3100000
  BY SMT, <1>2, <1>3 DEF Backup!Most, Within
<1> HIDE DEF anon
<1>5. AddsUp(MemoryParts(m))
  BY SMT, <1>1, <1>2, <1>3, <1>4, MeminfoFits DEF Within
<1>6. Backup!MemoryParts(m) = MemoryParts(m)
  BY SMT DEF Backup!MemoryParts, MemoryParts, Backup!MemUsed, MemUsed, Backup!Caches, Caches
<1>7. Backup!MemoryLevel(m) = OK
  BY SMT, <1>1, <1>2, <1>3, <1>4
     DEF Backup!MemoryLevel, Meminfo, Backup!Most, Backup!Level, Backup!Percent, Backup!MemUsed,
         Backup!Caches, Within, Backup!OK, Backup!WARN, Backup!CRIT, OK
<1>8. m.anon = anon
  BY SMT, <1>1 DEF Meminfo
<1> QED BY SMT, <1>4, <1>5, <1>6, <1>7, <1>8 DEF m, Within

\* the parts and rates of its answer,
LEMMA BackupFits ==
    ASSUME NEW r, NEW e \in Noise
    PROVE  AddsUp(Backup!Parts(r, e)) /\ Rising(Backup!Rates(r, e))
<1>1. AddsUp(Backup!Filesystems(e))
  BY SMT DEF AddsUp, Backup!Filesystems, Backup!BackupUsed, Backup!BKP_SIZE, Backup!Filling, Backup!GaugeAbs,
     Backup!Most, Backup!Least, Noise
<1>2. Rising(Backup!Rates(r, e))
  BY SMT DEF Rising, Backup!Rates
<1>3. AddsUp({<<p[2], Backup!Memory(e).anon>> : p \in Backup!Processes})
  BY SMT, BackupMemory DEF AddsUp, Backup!Processes, Within
<1>4. AddsUp({<<Backup!JobAge(at, job), 1439>> : at \in Backup!Minutes, job \in Backup!Jobs})
  BY SMT DEF AddsUp, Backup!JobAge, Backup!LastDaily, Backup!Minutes, Backup!Jobs
<1> QED BY SMT, <1>1, <1>2, <1>3, <1>4, BackupMemory DEF AddsUp, Backup!Parts

\* and what the monitoring shows of it.
LEMMA BackupShows ==
    ASSUME NEW r, NEW e \in Noise
    PROVE  LET shown == Backup!Services(r, e) IN
           /\ DOMAIN shown = {"Memory", "Load", "Disks", "Units", "Story"}
           /\ shown["Memory"] = OK /\ shown["Load"] = OK /\ shown["Disks"] = OK /\ shown["Units"] = OK
           /\ shown["Story"] = OK
<1>1. Backup!LoadLevel(Backup!Load(e)[3], 4) = OK
  BY SMT DEF Backup!LoadLevel, Backup!Load, Backup!GaugeFrac, Backup!Level, Backup!Most,
     Backup!OK, Backup!WARN, Backup!CRIT, OK, Noise
<1>2. Backup!DisksLevel(Backup!Filesystems(e)) = OK
  <2>1. {Backup!FilesystemLevel(f[1], f[2]) : f \in Backup!Filesystems(e)} = {0}
    BY SMT DEF Backup!Filesystems, Backup!BackupUsed, Backup!BKP_SIZE, Backup!Filling, Backup!GaugeAbs,
       Backup!Most, Backup!Least, Noise, Backup!FilesystemLevel,
       Backup!Level, Backup!Percent, Backup!OK, Backup!WARN, Backup!CRIT
  <2> QED BY <2>1, WorstOfNone, SMT DEF Backup!DisksLevel, Backup!Max, OK
<1>3. Backup!UnitsLevel(Backup!Units) = OK
  BY SMT DEF Backup!UnitsLevel, Backup!Units, Backup!OK, Backup!CRIT, OK
<1>4. Backup!Max({Backup!Level(t, 35, 40) : t \in Backup!DiskTemperatures(e)}) = OK
  <2>1. {Backup!Level(t, 35, 40) : t \in Backup!DiskTemperatures(e)} = {0}
    BY SMT DEF Backup!Level, Backup!DiskTemperatures, Backup!GaugeAbs, Noise, Backup!OK, Backup!WARN,
       Backup!CRIT
  <2> QED BY <2>1, WorstOfNone, SMT DEF Backup!Max, OK
<1> QED BY SMT, <1>1, <1>2, <1>3, <1>4, BackupMemory DEF Backup!Services

------------------------------------------------------------------------------
(* The story and the readings of it *)

\* A story that set_state can leave behind.
Consistent(s) ==
    /\ s \in Reading /\ s.state \in States(host)
    /\ (s.state = "healthy") <=> (s.deg = None)
    /\ (s.state = "broken") <=> (s.brk # None)
    /\ s.brk <= s.deg
    /\ s.state = "degraded" => s.since <= s.deg

\* What a later reading of an answer, or the story now, has to do with an
\* earlier one: a toggle stamps a new time or none, and an answer takes no time.
Follows(x, y) == (y.deg > 0 => x.deg = y.deg) /\ (y.brk > 0 => x.brk = y.brk)

\* The inductive invariant: the time stamps of the story go with its state, and
\* the readings of a poll are stories of the host in the order of time.
StoryInv ==
    /\ host \in Simulated
    /\ Consistent(story)
    /\ got \in Seq(Reading) /\ Len(got) <= ReadsOf[host]
    /\ \A i \in DOMAIN got : Consistent(got[i]) /\ Follows(got[i], story)
    /\ \A i, j \in DOMAIN got : i <= j => Follows(got[i], got[j])
    /\ poll \in {"due", "reading", "answered", "failed"}
    /\ poll = "due" => got = <<>>
    /\ poll \in {"answered", "failed"} => Len(got) = ReadsOf[host]
    /\ poll = "answered" => AnswersOf(host, got)
    /\ poll = "failed" => ~AnswersOf(host, got)

\* What is assumed of the clock.
LEMMA OldestRange == Oldest \in Int /\ 20 <= Oldest /\ Oldest <= 7200 /\ Step \in Int /\ 1 <= Step
  BY SMT, HostsAssumption

\* Ages are integers.
LEMMA AgesInt == Ages \subseteq Int /\ \A a \in Ages : -1 <= a /\ a <= Oldest
  BY SMT, OldestRange DEF Ages, None

\* How often each host reads its story for an answer.
LEMMA ReadsAre ==
    /\ ReadsOf["app-redis-01"] = 10 /\ ReadsOf["app-worker-01"] = 7 /\ ReadsOf["fileserver-01"] = 17
    /\ ReadsOf["mail-relay-01"] = 12 /\ ReadsOf["db-postgres-01"] = 14 /\ ReadsOf["db-postgres-02"] = 4
    /\ ReadsOf["payment-api"] = 4 /\ ReadsOf["win-dc-01"] = 9
    /\ ReadsOf["web-frontend-01"] = 0 /\ ReadsOf["backup-01"] = 0
  BY SMT DEF ReadsOf, HostNames, Redis!Reads, Worker!Reads, Files!Reads, Mail!Reads, Primary!Reads, Replica!Reads,
     Payment!Reads, Windows!Reads, Frontend!Reads, Backup!Reads

LEMMA ReadsNat == \A h \in HostNames : ReadsOf[h] \in Nat
  BY SMT, ReadsAre DEF HostNames

\* set_state leaves a consistent story,
LEMMA ToggledConsistent ==
    ASSUME Consistent(story), NEW value \in States(host)
    PROVE  Consistent(Toggled(story, value))
<1> DEFINE t == Toggled(story, value)
<1>1. /\ story.state \in {"healthy", "degraded", "broken"} /\ story.since \in 0..Oldest
      /\ story.deg \in Ages /\ story.brk \in Ages /\ story.cleaned \in Ages
  BY SMT DEF Consistent, Reading
<1>2. value \in {"healthy", "degraded", "broken"}
  BY SMT DEF States, Quiet
<1>3. t \in Reading
  BY SMT, <1>1, <1>2, OldestRange DEF Toggled, Reading, Ages
<1>4. /\ t.state = value
      /\ t.since = IF value # story.state THEN 0 ELSE story.since
      /\ t.deg = IF value = "healthy" THEN None ELSE IF story.deg = None THEN 0 ELSE story.deg
      /\ t.brk = IF value # "broken" THEN None ELSE IF story.brk = None THEN 0 ELSE story.brk
  BY SMT DEF Toggled
<1>5. /\ (story.state = "healthy") <=> (story.deg = None)
      /\ (story.state = "broken") <=> (story.brk # None)
      /\ story.brk <= story.deg
      /\ story.state = "degraded" => story.since <= story.deg
  BY SMT DEF Consistent
<1>6. story.deg \in Int /\ -1 <= story.deg /\ story.brk \in Int /\ -1 <= story.brk
  BY Zenon, <1>1, AgesInt
<1> HIDE DEF t
<1>7. (t.state = "healthy") <=> (t.deg = None)
  BY SMT, <1>4, <1>6, <1>5 DEF None
<1>8. (t.state = "broken") <=> (t.brk # None)
  BY SMT, <1>4, <1>6, <1>5 DEF None
<1>9. t.brk <= t.deg
  BY SMT, <1>2, <1>4, <1>6, <1>5 DEF None
<1>10. t.state = "degraded" => t.since <= t.deg
  BY SMT, <1>2, <1>4, <1>6, <1>5 DEF None
<1> QED BY SMT, <1>3, <1>4, <1>7, <1>8, <1>9, <1>10 DEF Consistent, t

\* which follows on what was read before.
LEMMA ToggledFollows ==
    ASSUME Consistent(story), NEW value \in States(host), NEW x, Follows(x, story)
    PROVE  Follows(x, Toggled(story, value))
<1>1. story.deg \in Ages /\ story.brk \in Ages
  BY SMT DEF Consistent, Reading
<1>2. story.state = "broken" <=> story.brk # None
  BY SMT DEF Consistent
<1>3. story.state = "healthy" <=> story.deg = None
  BY SMT DEF Consistent
<1> QED BY SMT, <1>1, <1>2, <1>3, AgesInt DEF Follows, Toggled, None

\* A step of the clock keeps what is not set, and the order of the stamps.
LEMMA OlderAge ==
    ASSUME NEW a \in Ages
    PROVE  /\ Older(a) \in Ages /\ (Older(a) = None <=> a = None) /\ a <= Older(a)
           /\ a \in 0..Oldest => Older(a) \in 0..Oldest
           /\ \A b \in Ages : a <= b => Older(a) <= Older(b)
  BY SMT, OldestRange DEF Older, Ages, None, Least

\* What a step of the clock makes of a story;
LEMMA AgedFields ==
    ASSUME NEW s \in Reading
    PROVE  /\ Aged(s) \in Reading /\ Aged(s).state = s.state /\ Aged(s).deg = Older(s.deg)
           /\ Aged(s).brk = Older(s.brk) /\ Aged(s).since = Older(s.since)
<1>1. /\ s.state \in {"healthy", "degraded", "broken"} /\ s.since \in 0..Oldest /\ s.since \in Ages
      /\ s.deg \in Ages /\ s.brk \in Ages /\ s.cleaned \in Ages
  BY SMT DEF Reading, Ages
<1>2. /\ Older(s.deg) \in Ages /\ Older(s.brk) \in Ages /\ Older(s.cleaned) \in Ages
      /\ Older(s.since) \in 0..Oldest
  BY SMT, <1>1, OlderAge
<1>3. Aged(s) \in Reading
  BY Zenon, <1>1, <1>2 DEF Aged, Reading
<1> HIDE DEF Older
<1>4. /\ Aged(s).state = s.state /\ Aged(s).deg = Older(s.deg)
      /\ Aged(s).brk = Older(s.brk) /\ Aged(s).since = Older(s.since)
  BY SMT, <1>1 DEF Aged, Reading
<1> QED BY SMT, <1>3, <1>4

\* it stays consistent.
LEMMA AgedConsistent == ASSUME Consistent(story) PROVE Consistent(Aged(story))
<1> DEFINE t == Aged(story)
<1>1. /\ story \in Reading /\ story.since \in Ages /\ story.deg \in Ages /\ story.brk \in Ages
  BY SMT DEF Consistent, Reading, Ages
<1>2. /\ t \in Reading /\ t.state = story.state /\ t.deg = Older(story.deg) /\ t.brk = Older(story.brk)
      /\ t.since = Older(story.since)
  BY SMT, <1>1, AgedFields
<1>3. /\ (Older(story.deg) = None) <=> (story.deg = None)
      /\ (Older(story.brk) = None) <=> (story.brk = None)
      /\ story.brk <= story.deg => Older(story.brk) <= Older(story.deg)
      /\ story.since <= story.deg => Older(story.since) <= Older(story.deg)
  BY SMT, <1>1, OlderAge
<1> QED BY SMT, <1>2, <1>3 DEF Consistent

\* The story a host starts with.
LEMMA StoryInit == Init => StoryInv
<1> SUFFICES ASSUME Init PROVE StoryInv
  OBVIOUS
<1>1. PICK s \in States(host) : story = Started(s)
  BY SMT DEF Init
<1>2. s \in {"healthy", "degraded", "broken"}
  BY SMT DEF States, Quiet
<1>3. Consistent(story)
  BY SMT, <1>1, <1>2, OldestRange DEF Consistent, Started, Reading, Ages, None
<1>4. host \in HostNames
  BY SMT, HostsAssumption DEF Init
<1> QED BY SMT, <1>3, <1>4, ReadsNat DEF Init, StoryInv

\* Every step of the host, of the control page, of the watchdog and of the
\* handler keeps the invariant.
LEMMA StoryNext == StoryInv /\ [Next]_vars => StoryInv'
<1> SUFFICES ASSUME StoryInv, [Next]_vars PROVE StoryInv'
  OBVIOUS
<1>1. host \in HostNames /\ ReadsOf[host] \in Nat
  BY SMT, HostsAssumption, ReadsNat DEF StoryInv
<1>2. ASSUME UNCHANGED <<host, poll, got>>, Consistent(story'), \A i \in DOMAIN got : Follows(got[i], story')
      PROVE  StoryInv'
  BY SMT, <1>2 DEF StoryInv, Consistent
<1>3. ASSUME NEW value \in States(host), Toggle(value) PROVE StoryInv'
  <2>1. Consistent(story') /\ \A i \in DOMAIN got : Follows(got[i], story')
    BY SMT, <1>3, ToggledConsistent, ToggledFollows DEF StoryInv, Toggle, Consistent
  <2> QED BY SMT, <1>2, <1>3, <2>1 DEF Toggle
<1>4. CASE Escalate
  <2>1. "broken" \in States(host)
    BY SMT, <1>4 DEF Escalate, Ripe, StoryInv, Consistent, States, Quiet
  <2>2. Consistent(story') /\ \A i \in DOMAIN got : Follows(got[i], story')
    BY SMT, <1>4, <2>1, ToggledConsistent, ToggledFollows DEF StoryInv, Escalate, Consistent
  <2> QED BY SMT, <1>2, <1>4, <2>2 DEF Escalate
<1>5. CASE Clock
  <2>1. Consistent(story') /\ got = <<>>
    BY SMT, <1>5, AgedConsistent DEF StoryInv, Clock, Consistent
  <2> QED BY SMT, <1>2, <1>5, <2>1 DEF Clock
<1>6. CASE Begin
  BY SMT, <1>1, <1>6 DEF Begin, StoryInv, Consistent
<1>7. CASE Read
  <2>1. story \in Reading /\ got \in Seq(Reading) /\ got' = Append(got, story) /\ UNCHANGED <<host, story, poll>> /\ poll = "reading"
    BY SMT, <1>7 DEF Read, StoryInv, Consistent
  <2>2. got' \in Seq(Reading) /\ Len(got') <= ReadsOf[host]'
    BY SMT, <1>1, <1>7, <2>1 DEF Read
  <2>3. \A i \in DOMAIN got' : (i = Len(got) + 1 /\ got'[i] = story) \/ (i \in DOMAIN got /\ got'[i] = got[i])
    BY SMT, <2>1
  <2>4. Follows(story, story) /\ \A i \in DOMAIN got : Follows(got[i], story)
    BY SMT DEF StoryInv, Follows
  <2>5. \A i \in DOMAIN got' : Consistent(got'[i]) /\ Follows(got'[i], story)
    BY SMT, <2>3, <2>4 DEF StoryInv
  <2>6. \A i, j \in DOMAIN got' : i <= j => Follows(got'[i], got'[j])
    BY SMT, <2>1, <2>3, <2>4 DEF StoryInv
  <2> QED BY SMT, <2>1, <2>2, <2>5, <2>6 DEF StoryInv, Consistent
<1>8. CASE Answer
  BY SMT, <1>1, <1>8 DEF Answer, StoryInv, Consistent
<1>9. CASE Deliver
  BY SMT, <1>1, <1>9 DEF Deliver, StoryInv, Consistent
<1>10. CASE UNCHANGED vars
  BY SMT, <1>10 DEF vars, StoryInv, Consistent
<1> QED BY SMT, <1>3, <1>4, <1>5, <1>6, <1>7, <1>8, <1>9, <1>10 DEF Next, Poll

\* The inductive invariant: the state and the time stamps that set_state,
\* _auto_break_watchdog and the clock leave are consistent, and what a poll has
\* read are such stories, each followed by the later ones.
THEOREM StoryAlways == Spec => []StoryInv
<1> QED BY StoryInit, StoryNext, PTL DEF Spec

------------------------------------------------------------------------------
(* Every answer adds up *)

\* Each host has its own answer.
LEMMA AnswerOf ==
    ASSUME NEW h, NEW r, NEW e
    PROVE  /\ h = "app-redis-01" => /\ PartsOf(h, r, e) = Redis!Parts(r, e) /\ RatesOf(h, r, e) = Redis!Rates(r, e)
                                  /\ ServicesOf(h, r, e) = Redis!Services(r, e)
           /\ h = "app-worker-01" => /\ PartsOf(h, r, e) = Worker!Parts(r, e) /\ RatesOf(h, r, e) = Worker!Rates(r, e)
                                   /\ ServicesOf(h, r, e) = Worker!Services(r, e)
           /\ h = "fileserver-01" => /\ PartsOf(h, r, e) = Files!Parts(r, e) /\ RatesOf(h, r, e) = Files!Rates(r, e)
                                   /\ ServicesOf(h, r, e) = Files!Services(r, e)
           /\ h = "mail-relay-01" => /\ PartsOf(h, r, e) = Mail!Parts(r, e) /\ RatesOf(h, r, e) = Mail!Rates(r, e)
                                   /\ ServicesOf(h, r, e) = Mail!Services(r, e)
           /\ h = "db-postgres-01" => /\ PartsOf(h, r, e) = Primary!Parts(r, e) /\ RatesOf(h, r, e) = Primary!Rates(r, e)
                                    /\ ServicesOf(h, r, e) = Primary!Services(r, e)
           /\ h = "db-postgres-02" => /\ PartsOf(h, r, e) = Replica!Parts(r, e) /\ RatesOf(h, r, e) = Replica!Rates(r, e)
                                    /\ ServicesOf(h, r, e) = Replica!Services(r, e)
           /\ h = "payment-api" => /\ PartsOf(h, r, e) = Payment!Parts(r, e) /\ RatesOf(h, r, e) = Payment!Rates(r, e)
                                 /\ ServicesOf(h, r, e) = Payment!Services(r, e)
           /\ h = "win-dc-01" => /\ PartsOf(h, r, e) = Windows!Parts(r, e) /\ RatesOf(h, r, e) = Windows!Rates(r, e)
                               /\ ServicesOf(h, r, e) = Windows!Services(r, e)
           /\ h = "web-frontend-01" => /\ PartsOf(h, r, e) = Frontend!Parts(r, e) /\ RatesOf(h, r, e) = Frontend!Rates(r, e)
                                     /\ ServicesOf(h, r, e) = Frontend!Services(r, e)
           /\ h = "backup-01" => /\ PartsOf(h, r, e) = Backup!Parts(r, e) /\ RatesOf(h, r, e) = Backup!Rates(r, e)
                               /\ ServicesOf(h, r, e) = Backup!Services(r, e)
<1>1. /\ h = "app-redis-01" => PartsOf(h, r, e) = Redis!Parts(r, e)
      /\ h = "app-worker-01" => PartsOf(h, r, e) = Worker!Parts(r, e)
      /\ h = "fileserver-01" => PartsOf(h, r, e) = Files!Parts(r, e)
      /\ h = "mail-relay-01" => PartsOf(h, r, e) = Mail!Parts(r, e)
      /\ h = "db-postgres-01" => PartsOf(h, r, e) = Primary!Parts(r, e)
      /\ h = "db-postgres-02" => PartsOf(h, r, e) = Replica!Parts(r, e)
      /\ h = "payment-api" => PartsOf(h, r, e) = Payment!Parts(r, e)
      /\ h = "win-dc-01" => PartsOf(h, r, e) = Windows!Parts(r, e)
      /\ h = "web-frontend-01" => PartsOf(h, r, e) = Frontend!Parts(r, e)
      /\ h = "backup-01" => PartsOf(h, r, e) = Backup!Parts(r, e)
  BY SMT DEF PartsOf
<1>2. /\ h = "app-redis-01" => RatesOf(h, r, e) = Redis!Rates(r, e)
      /\ h = "app-worker-01" => RatesOf(h, r, e) = Worker!Rates(r, e)
      /\ h = "fileserver-01" => RatesOf(h, r, e) = Files!Rates(r, e)
      /\ h = "mail-relay-01" => RatesOf(h, r, e) = Mail!Rates(r, e)
      /\ h = "db-postgres-01" => RatesOf(h, r, e) = Primary!Rates(r, e)
      /\ h = "db-postgres-02" => RatesOf(h, r, e) = Replica!Rates(r, e)
      /\ h = "payment-api" => RatesOf(h, r, e) = Payment!Rates(r, e)
      /\ h = "win-dc-01" => RatesOf(h, r, e) = Windows!Rates(r, e)
      /\ h = "web-frontend-01" => RatesOf(h, r, e) = Frontend!Rates(r, e)
      /\ h = "backup-01" => RatesOf(h, r, e) = Backup!Rates(r, e)
  BY SMT DEF RatesOf
<1>3. /\ h = "app-redis-01" => ServicesOf(h, r, e) = Redis!Services(r, e)
      /\ h = "app-worker-01" => ServicesOf(h, r, e) = Worker!Services(r, e)
      /\ h = "fileserver-01" => ServicesOf(h, r, e) = Files!Services(r, e)
      /\ h = "mail-relay-01" => ServicesOf(h, r, e) = Mail!Services(r, e)
      /\ h = "db-postgres-01" => ServicesOf(h, r, e) = Primary!Services(r, e)
      /\ h = "db-postgres-02" => ServicesOf(h, r, e) = Replica!Services(r, e)
      /\ h = "payment-api" => ServicesOf(h, r, e) = Payment!Services(r, e)
      /\ h = "win-dc-01" => ServicesOf(h, r, e) = Windows!Services(r, e)
      /\ h = "web-frontend-01" => ServicesOf(h, r, e) = Frontend!Services(r, e)
      /\ h = "backup-01" => ServicesOf(h, r, e) = Backup!Services(r, e)
  BY SMT DEF ServicesOf
<1> QED BY SMT, <1>1, <1>2, <1>3

\* Any readings at all give an answer that adds up.
LEMMA AnswerFits ==
    ASSUME NEW h \in HostNames, NEW r \in [1..ReadsOf[h] -> Reading], NEW e \in Noise
    PROVE  AddsUp(PartsOf(h, r, e)) /\ Rising(RatesOf(h, r, e))
<1>1. CASE h = "app-redis-01"
  <2>1. r \in [1..10 -> Reading]
    BY SMT, <1>1, ReadsAre
  <2> QED BY SMT, <1>1, <2>1, RedisFits, AnswerOf
<1>2. CASE h = "app-worker-01"
  <2>1. r \in [1..7 -> Reading]
    BY SMT, <1>2, ReadsAre
  <2> QED BY SMT, <1>2, <2>1, WorkerFits, AnswerOf
<1>3. CASE h = "fileserver-01"
  <2>1. r \in [1..17 -> Reading]
    BY SMT, <1>3, ReadsAre
  <2> QED BY SMT, <1>3, <2>1, FilesFits, AnswerOf
<1>4. CASE h = "mail-relay-01"
  <2>1. r \in [1..12 -> Reading]
    BY SMT, <1>4, ReadsAre
  <2> QED BY SMT, <1>4, <2>1, MailFits, AnswerOf
<1>5. CASE h = "db-postgres-01"
  <2>1. r \in [1..14 -> Reading]
    BY SMT, <1>5, ReadsAre
  <2> QED BY SMT, <1>5, <2>1, PrimaryFits, AnswerOf
<1>6. CASE h = "db-postgres-02"
  <2>1. r \in [1..4 -> Reading]
    BY SMT, <1>6, ReadsAre
  <2> QED BY SMT, <1>6, <2>1, ReplicaFits, AnswerOf
<1>7. CASE h = "payment-api"
  <2>1. r \in [1..4 -> Reading]
    BY SMT, <1>7, ReadsAre
  <2> QED BY SMT, <1>7, <2>1, PaymentFits, AnswerOf
<1>8. CASE h = "win-dc-01"
  <2>1. r \in [1..9 -> Reading]
    BY SMT, <1>8, ReadsAre
  <2> QED BY SMT, <1>8, <2>1, WindowsFits, AnswerOf
<1>9. CASE h = "web-frontend-01"
  BY SMT, <1>9, FrontendFits, AnswerOf
<1>10. CASE h = "backup-01"
  BY SMT, <1>10, BackupFits, AnswerOf
<1> QED BY SMT, <1>1, <1>2, <1>3, <1>4, <1>5, <1>6, <1>7, <1>8, <1>9, <1>10 DEF HostNames

\* An answer is made of all its readings.
LEMMA AnswerWhole ==
    ASSUME StoryInv, Answered
    PROVE  host \in HostNames /\ ReadsOf[host] \in Nat /\ got \in [1..ReadsOf[host] -> Reading]
  BY SMT, HostsAssumption, ReadsNat DEF StoryInv, Answered

LEMMA StorySane == StoryInv => Sane
<1> SUFFICES ASSUME StoryInv, Answered, NEW e \in Noise
             PROVE  AddsUp(PartsOf(host, got, e)) /\ Rising(RatesOf(host, got, e))
  BY SMT DEF Sane, AddsUp, Rising
<1> QED BY SMT, AnswerWhole, AnswerFits

\* Every answer adds up (build_agent_output): no part is negative or larger than
\* its whole and no counter runs backwards, whatever is toggled meanwhile.
THEOREM SaneAlways == Spec => []Sane
<1> QED BY StoryAlways, StorySane, PTL

------------------------------------------------------------------------------
(* An answer that no toggle tore *)

\* What a story that is told has behind it.
Seasoned(s) ==
    /\ s \in Reading
    /\ s.state = "healthy"  => s.deg = None /\ s.brk = None
    /\ s.state = "degraded" => s.deg >= AutoBreak /\ s.brk = None
    /\ s.state = "broken"   => s.deg >= 16 /\ s.brk >= 16

\* The fields of a reading.
LEMMA ReadingFields ==
    ASSUME NEW s \in Reading
    PROVE  /\ s.state \in {"healthy", "degraded", "broken"} /\ s.deg \in Ages /\ s.brk \in Ages
           /\ s.deg \in Int /\ s.brk \in Int /\ -1 <= s.deg /\ -1 <= s.brk /\ s.since \in Int
<1>1. /\ s.state \in {"healthy", "degraded", "broken"} /\ s.deg \in Ages /\ s.brk \in Ages
      /\ s.since \in 0..Oldest
  BY SMT DEF Reading
<1>2. s.deg \in Int /\ s.brk \in Int /\ -1 <= s.deg /\ -1 <= s.brk
  BY Zenon, <1>1, AgesInt
<1> QED BY SMT, <1>1, <1>2

\* By then the story has been where it is for long enough.
LEMMA RipenedSeasoned == ASSUME NEW s, Consistent(s), Ripened(s) PROVE Seasoned(s)
<1>1. s \in Reading /\ s.since \in Int /\ s.deg \in Int /\ s.brk \in Int
  BY SMT, ReadingFields DEF Consistent
<1>2. AutoBreak \in {18, 20}
  BY SMT DEF AutoBreak
<1> QED BY SMT, <1>1, <1>2 DEF Consistent, Ripened, Seasoned, None

\* What each host shows of a seasoned story: app-redis-01;
LEMMA RedisTold ==
    ASSUME NEW s, Seasoned(s), NEW r \in [1..10 -> Reading], \A i \in 1..10 : r[i] = s, NEW e \in Noise
    PROVE  /\ Redis!Services(r, e)["Story"] = IF s.state = "broken" THEN WARN ELSE OK
           /\ s.state = "broken" => Redis!Services(r, e)["Memory"] = OK
<1>1. r[1] = s /\ r[2] = s /\ r[3] = s /\ r[4] = s /\ r[10] = s
  BY SMT
<1>2. s.state \in {"healthy", "degraded", "broken"} /\ s.brk \in Int /\ (s.state = "broken" => s.brk >= 16)
  BY SMT, ReadingFields DEF Seasoned
<1>3. /\ Redis!Services(r, e)["Story"] = IF s.state = "broken" /\ s.brk >= 2 THEN WARN ELSE OK
      /\ Redis!P(r) = 100 => Redis!Services(r, e)["Memory"] = OK
  BY SMT, <1>1, RedisShows
<1>4. s.state = "broken" => Redis!P(r) = 100
  <2>1. s.deg \in Ages /\ s.brk \in Ages /\ s.deg \in Int
    BY SMT, ReadingFields DEF Seasoned
  <2>2. \A deg, brk \in Ages : brk >= 16 => Redis!Pressure(deg, brk, brk) = 100
    BY SMT, OldestRange DEF Redis!Pressure, Redis!Climb, Redis!Ramp, Redis!Least, Redis!Most,
       Redis!LEAK_FILL_MIN, Redis!BREAK_RAMP, Ages, None
  <2> QED BY SMT, <1>1, <1>2, <2>1, <2>2 DEF Redis!P
<1> QED BY SMT, <1>2, <1>3, <1>4

\* app-worker-01, which does not answer when it is broken;
LEMMA WorkerTold ==
    ASSUME NEW s, Seasoned(s), s.state # "broken", host = "app-worker-01",
           NEW r \in [1..7 -> Reading], \A i \in 1..7 : r[i] = s, NEW e \in Noise
    PROVE  LET shown == Worker!Services(r, e)
           IN  shown["Memory"] = (IF s.state = "degraded" THEN WARN ELSE OK) /\ shown["Units"] = OK
<1>1. r[1] = s /\ Worker!P(r) = Worker!Pressure(s.deg, s.brk, s.brk)
  BY SMT DEF Worker!P
<1>2. /\ s.state \in {"healthy", "degraded", "broken"} /\ s.deg \in Ages /\ s.brk \in Ages
      /\ s.deg \in Int /\ s.brk \in Int
  BY SMT, ReadingFields DEF Seasoned
<1>3. /\ \A deg, brk \in Ages : deg = None /\ brk = None => Worker!Pressure(deg, brk, brk) = 0
      /\ \A deg, brk \in Ages : deg >= 20 /\ brk = None => Worker!Pressure(deg, brk, brk) = 78
  BY SMT, OldestRange DEF Worker!Pressure, Worker!Climb, Worker!Ramp, Worker!Least, Worker!Most,
     Worker!LEAK_FILL_MIN, Worker!BREAK_RAMP, Ages, None
<1>4. Worker!P(r) = IF s.state = "degraded" THEN 78 ELSE 0
  BY SMT, <1>1, <1>2, <1>3 DEF Seasoned, AutoBreak
<1> QED BY SMT, <1>1, <1>2, <1>4, WorkerShows, WorkerMemoryTold

\* fileserver-01;
LEMMA FilesTold ==
    ASSUME NEW s, Seasoned(s), host = "fileserver-01",
           NEW r \in [1..17 -> Reading], \A i \in 1..17 : r[i] = s, NEW e \in Noise
    PROVE  Files!Services(r, e)["Story"] =
               IF s.state = "broken" THEN CRIT ELSE IF s.state = "degraded" THEN WARN ELSE OK
<1> DEFINE p == Files!Pressure(s.deg, s.brk, s.brk)
           fraction == Files!SrvFraction(p, e)
<1>1. r[5] = s /\ r[6] = s /\ r[7] = s
  BY SMT
<1>2. /\ s.state \in {"healthy", "degraded", "broken"} /\ s.deg \in Ages /\ s.brk \in Ages
      /\ s.deg \in Int /\ s.brk \in Int
  BY SMT, ReadingFields DEF Seasoned
<1>3. p = (IF s.state = "broken" THEN 100 ELSE IF s.state = "degraded" THEN 74 ELSE 0)
  BY SMT, <1>2, FilesPressure DEF Seasoned, AutoBreak, None
<1>4. Files!Services(r, e)["Story"] = Level((209 * fraction) \div 20971, 80, 90)
  BY SMT, <1>1, FilesShows
<1> HIDE DEF p
<1>5. /\ Within(fraction, 5000, 9950) /\ (p = 0 => fraction <= 5800) /\ (p = 74 => Within(fraction, 8600, 8800))
      /\ (p = 100 => Within(fraction, 9700, 9900))
  BY SMT, <1>3, FilesFraction DEF Within
<1> HIDE DEF fraction
<1> QED BY SMT, <1>2, <1>3, <1>4, <1>5 DEF Within, Level, OK, WARN, CRIT

\* mail-relay-01;
LEMMA MailTold ==
    ASSUME NEW s, Seasoned(s), host = "mail-relay-01",
           NEW r \in [1..12 -> Reading], \A i \in 1..12 : r[i] = s, NEW e \in Noise
    PROVE  Mail!Services(r, e)["Story"] =
               IF s.state = "broken" THEN CRIT ELSE IF s.state = "degraded" THEN WARN ELSE OK
<1> DEFINE count == Mail!DeferredCount(s.deg, s.brk, s.brk, e)
<1>1. r[2] = s /\ r[3] = s /\ r[4] = s
  BY SMT
<1>2. /\ s.state \in {"healthy", "degraded", "broken"} /\ s.deg \in Ages /\ s.brk \in Ages
      /\ s.deg \in Int /\ s.brk \in Int
  BY SMT, ReadingFields DEF Seasoned
<1>3. Mail!Services(r, e)["Story"] = Level(count, 10, 20)
  BY SMT, <1>1, MailShows
<1>4. /\ Within(count, 0, 346000) /\ (s.deg <= 0 /\ s.brk <= 0 => count <= 3)
      /\ (s.deg >= 16 /\ s.brk <= 0 => count = 18) /\ (s.brk > 0 => count >= 20)
  BY SMT, <1>2, MailCount
<1> HIDE DEF count
<1> QED BY SMT, <1>2, <1>3, <1>4 DEF Seasoned, AutoBreak, None, Within, Level, OK, WARN, CRIT

\* db-postgres-01;
LEMMA PrimaryTold ==
    ASSUME NEW s, Seasoned(s), host = "db-postgres-01",
           NEW r \in [1..14 -> Reading], \A i \in 1..14 : r[i] = s, NEW e \in Noise
    PROVE  LET shown == Primary!Services(r, e)
           IN  /\ shown["Load"] = IF s.state = "broken" THEN CRIT ELSE OK
               /\ shown["Smart"] = IF s.state = "broken" THEN CRIT ELSE OK
               /\ shown["Temperature"] = IF s.state = "healthy" THEN OK ELSE WARN
<1> DEFINE shown == Primary!Services(r, e)
           temp  == IF s.deg <= 0 THEN 300 ELSE 300 + Least(80, 14 * s.deg)
           ramp  == Ramp(s.brk, 40)
<1>1. r[6] = s /\ r[9] = s /\ r[10] = s
  BY SMT
<1>2. /\ s.state \in {"healthy", "degraded", "broken"} /\ s.deg \in Ages /\ s.brk \in Ages
      /\ s.deg \in Int /\ s.brk \in Int
  BY SMT, ReadingFields DEF Seasoned
<1>3. /\ shown["Load"] = Level(LoadOf(Lerp(85, 4400, ramp), 100, 6, e), 2000, 4000)
      /\ shown["Temperature"] = Level((temp + (13 * e.d) + 5) \div 10, 35, 40)
      /\ shown["Smart"] = IF s.deg > 0 /\ s.brk > 8 THEN CRIT ELSE OK
  BY SMT, <1>1, PrimaryShows
<1> HIDE DEF shown
<1>4. ramp = (IF s.state = "broken" THEN 100 ELSE 0)
  BY SMT, <1>2, OldestRange DEF Seasoned, Ramp, Least, None, Ages
<1>5. temp = IF s.state = "healthy" THEN 300 ELSE 380
  BY SMT, <1>2, OldestRange DEF Seasoned, AutoBreak, Least, None, Ages
<1> HIDE DEF temp, ramp
<1>6. shown["Load"] = IF s.state = "broken" THEN CRIT ELSE OK
  BY SMT, <1>3, <1>4 DEF LoadOf, GaugeFrac, Lerp, Level, Noise, OK, WARN, CRIT
<1>7. shown["Temperature"] = IF s.state = "healthy" THEN OK ELSE WARN
  BY SMT, <1>3, <1>5 DEF Level, Noise, OK, WARN, CRIT
<1> QED BY SMT, <1>2, <1>3, <1>6, <1>7 DEF Seasoned, None, shown

\* the idle connections of db-postgres-02,
LEMMA ReplicaIdle ==
    ASSUME NEW s \in Reading, NEW r \in [1..4 -> Reading], \A i \in 1..4 : r[i] = s, NEW e \in Noise
    PROVE  LET idle == Replica!ConnectionCounts(r, e).idle
           IN  /\ s.deg <= 0 => idle <= 30
               /\ s.brk <= 0 => idle <= 151
               /\ s.deg > 0 /\ s.brk >= 4 => idle >= 180
<1> DEFINE decay   == Replica!Decay(s.brk)
           active  == Replica!Most(1, Replica!GaugeAbs(4, 1, e))
           leak    == Replica!Lerp(90, 150, Replica!Least(100, (100 * s.deg) \div 16))
           runaway == Replica!Lerp(150, 184, Replica!Least(100, (100 * s.brk) \div 4))
           creep   == (10 * (100 - decay)) \div 100
           total   == IF s.brk > 0 THEN Replica!Most(leak, runaway + creep) ELSE leak
           idle    == IF s.deg <= 0 THEN Replica!Most(1, Replica!GaugeAbs(26, 3, e))
                      ELSE Replica!Most(30, Replica!Least(194 - active, Replica!GaugeAbs(total, 1, e)))
<1>1. s.deg \in Ages /\ s.brk \in Ages /\ r[2] = s /\ r[3] = s /\ s.deg \in Int /\ s.brk \in Int
  BY SMT, ReadingFields
<1>2. Within(decay, 10, 100)
  BY SMT, <1>1, OldestRange DEF Replica!Decay, Replica!Most, Ages, None, Within
<1>3. Replica!ConnectionCounts(r, e).idle = idle
  BY SMT, <1>1 DEF Replica!ConnectionCounts, Replica!LEAK_FILL_MIN, Replica!BREAK_RAMP_MIN, Replica!MAX_CONNECTIONS,
     Replica!HEALTHY_CONNS, Replica!DEGRADED_PEAK, Replica!BROKEN_CAP
<1> HIDE DEF decay
<1>4. Within(active, 3, 5)
  BY SMT DEF Replica!Most, Replica!GaugeAbs, Noise, Within
<1>5. total \in Int /\ (s.brk <= 0 => total <= 150) /\ (s.brk >= 4 => total >= 184)
  BY SMT, <1>1, <1>2, OldestRange DEF Replica!Most, Replica!Lerp, Replica!Least, Ages, None, Within
<1> HIDE DEF total, active
<1> QED BY SMT, <1>1, <1>3, <1>4, <1>5 DEF Replica!Most, Replica!Least, Replica!GaugeAbs, Noise, Within

\* and what they make it show;
LEMMA ReplicaTold ==
    ASSUME NEW s, Seasoned(s), NEW r \in [1..4 -> Reading], \A i \in 1..4 : r[i] = s, NEW e \in Noise
    PROVE  Replica!Services(r, e)["Story"] = IF s.state = "broken" THEN CRIT ELSE OK
<1> DEFINE idle == Replica!ConnectionCounts(r, e).idle
<1>1. Replica!Services(r, e)["Story"] = Level((100 * idle) \div 200, 80, 90) /\ Within(idle, 20, 191)
  BY SMT, ReplicaShows, ReplicaCounts
<1>2. /\ s \in Reading /\ s.state \in {"healthy", "degraded", "broken"}
      /\ s.deg \in Int /\ s.brk \in Int
  BY SMT, ReadingFields DEF Seasoned
<1>3. (s.brk <= 0 => idle <= 151) /\ (s.deg > 0 /\ s.brk >= 4 => idle >= 180)
  BY SMT, <1>2, ReplicaIdle
<1>4. (s.state # "broken" => s.brk <= 0) /\ (s.state = "broken" => s.deg > 0 /\ s.brk >= 4)
  BY SMT, <1>2 DEF Seasoned, None
<1> HIDE DEF idle
<1> QED BY SMT, <1>1, <1>3, <1>4 DEF Within, Level, OK, WARN, CRIT

\* win-dc-01.
LEMMA WindowsTold ==
    ASSUME NEW s, Seasoned(s), host = "win-dc-01",
           NEW r \in [1..9 -> Reading], \A i \in 1..9 : r[i] = s, NEW e \in Noise
    PROVE  LET shown == Windows!Services(r, e)
           IN  /\ shown["Backup"] = IF s.state = "healthy" THEN OK ELSE CRIT
               /\ shown["Story"] = IF s.state = "broken" THEN CRIT ELSE IF s.state = "degraded" THEN WARN ELSE OK
<1> DEFINE shown == Windows!Services(r, e)
           p == Windows!Pressure(s)
<1>1. r[5] = s /\ r[6] = s /\ r[8] = s
  BY SMT
<1>2. /\ s \in Reading /\ s.state \in {"healthy", "degraded", "broken"}
      /\ s.deg \in Int /\ s.brk \in Int
  BY SMT, ReadingFields DEF Seasoned
<1>3. /\ shown["Backup"] = IF s.state = "healthy" THEN OK ELSE CRIT
      /\ shown["Story"] = Level((Filling(66700000, 0, 1500000, 90000, e) + (501000 * p)) \div 1258270, 80, 90)
  BY SMT, <1>1, WindowsShows
<1>4. p = IF s.state = "broken" THEN 100 ELSE IF s.state = "degraded" THEN 78 ELSE 0
  BY SMT, <1>2, WindowsPressure DEF Seasoned, AutoBreak, None
<1> HIDE DEF shown, p
<1>5. shown["Story"] = IF s.state = "broken" THEN CRIT ELSE IF s.state = "degraded" THEN WARN ELSE OK
  BY SMT, <1>2, <1>3, <1>4 DEF Filling, GaugeAbs, Noise, Level, OK, WARN, CRIT
<1> QED BY SMT, <1>3, <1>5 DEF shown

\* What Told says of each service of a host.
LEMMA ToldOf ==
    ASSUME NEW st \in {"healthy", "degraded", "broken"}, NEW D, NEW v \in D
    PROVE  LET told(h) == Levels(Told(h, st), D)[v] IN
           /\ told("app-redis-01") =
                   IF v = "Story" /\ st = "broken" THEN WARN ELSE OK
           /\ st # "broken" => told("app-worker-01") =
                   IF v = "Memory" /\ st = "degraded" THEN WARN ELSE OK
           /\ told("fileserver-01") =
                   IF v = "Story" /\ st = "broken" THEN CRIT ELSE OK
           /\ told("mail-relay-01") =
                   IF v = "Story" /\ st = "broken" THEN CRIT ELSE OK
           /\ told("db-postgres-01") =
                   IF v \in {"Load", "Smart"} /\ st = "broken" THEN CRIT
                   ELSE IF v = "Temperature" /\ st # "healthy" THEN WARN ELSE OK
           /\ told("db-postgres-02") =
                   IF v = "Story" /\ st = "broken" THEN CRIT ELSE OK
           /\ st # "degraded" => told("payment-api") =
                   IF v = "Units" /\ st = "broken" THEN CRIT ELSE OK
           /\ told("win-dc-01") =
                   IF v = "Backup" /\ st # "healthy" THEN CRIT
                   ELSE IF v = "Story" /\ st = "broken" THEN CRIT
                   ELSE IF v = "Story" /\ st = "degraded" THEN WARN ELSE OK
           /\ st = "healthy" => told("web-frontend-01") =
                   OK
           /\ st = "healthy" => told("backup-01") =
                   OK
<1>1. \A told : Levels(told, D)[v] = IF v \in DOMAIN told THEN told[v] ELSE OK
  BY SMT DEF Levels
<1>2. Levels(Told("app-redis-01", st), D)[v] =
          IF v = "Story" /\ st = "broken" THEN WARN ELSE OK
  BY SMT, <1>1 DEF Told, OK, WARN, CRIT
<1>3. st # "broken" => Levels(Told("app-worker-01", st), D)[v] =
          IF v = "Memory" /\ st = "degraded" THEN WARN ELSE OK
  BY SMT, <1>1 DEF Told, OK, WARN, CRIT
<1>4. Levels(Told("fileserver-01", st), D)[v] =
          IF v = "Story" /\ st = "broken" THEN CRIT ELSE OK
  BY SMT, <1>1 DEF Told, OK, WARN, CRIT
<1>5. Levels(Told("mail-relay-01", st), D)[v] =
          IF v = "Story" /\ st = "broken" THEN CRIT ELSE OK
  BY SMT, <1>1 DEF Told, OK, WARN, CRIT
<1>6. Levels(Told("db-postgres-01", st), D)[v] =
          IF v \in {"Load", "Smart"} /\ st = "broken" THEN CRIT
          ELSE IF v = "Temperature" /\ st # "healthy" THEN WARN ELSE OK
  BY SMT, <1>1 DEF Told, OK, WARN, CRIT
<1>7. Levels(Told("db-postgres-02", st), D)[v] =
          IF v = "Story" /\ st = "broken" THEN CRIT ELSE OK
  BY SMT, <1>1 DEF Told, OK, WARN, CRIT
<1>8. st # "degraded" => Levels(Told("payment-api", st), D)[v] =
          IF v = "Units" /\ st = "broken" THEN CRIT ELSE OK
  BY SMT, <1>1 DEF Told, OK, WARN, CRIT
<1>9. Levels(Told("win-dc-01", st), D)[v] =
          IF v = "Backup" /\ st # "healthy" THEN CRIT
          ELSE IF v = "Story" /\ st = "broken" THEN CRIT
          ELSE IF v = "Story" /\ st = "degraded" THEN WARN ELSE OK
  BY SMT, <1>1 DEF Told, OK, WARN, CRIT
<1>10. st = "healthy" => Levels(Told("web-frontend-01", st), D)[v] =
          OK
  BY SMT, <1>1 DEF Told, OK, WARN, CRIT
<1>11. st = "healthy" => Levels(Told("backup-01", st), D)[v] =
          OK
  BY SMT, <1>1 DEF Told, OK, WARN, CRIT
<1> QED BY SMT, <1>2, <1>3, <1>4, <1>5, <1>6, <1>7, <1>8, <1>9, <1>10, <1>11

\* What a service can show: the level that Told gives it, or those of Departs.
LEMMA ShownOf ==
    ASSUME NEW h \in HostNames, NEW st \in {"healthy", "degraded", "broken"}, NEW D, NEW v \in D
    PROVE  LET may == Shown(h, st, D)[v] IN
           /\ h = "app-redis-01" /\ v = "Memory" /\ st # "broken" => may = {OK, WARN}
           /\ h \in {"fileserver-01", "mail-relay-01"} /\ v = "Story" /\ st = "degraded" => may = {WARN}
           /\ \/ h = "app-redis-01" /\ v = "Memory" /\ st # "broken"
              \/ h \in {"fileserver-01", "mail-relay-01"} /\ v = "Story" /\ st = "degraded"
              \/ may = {Levels(Told(h, st), D)[v]}
<1> DEFINE volume == h \in {"fileserver-01", "mail-relay-01"} /\ st = "degraded"
           memory == h = "app-redis-01" /\ st # "broken"
<1>1. Shown(h, st, D)[v] = IF v \in DOMAIN Departs(h, st) THEN Departs(h, st)[v]
                          ELSE {Levels(Told(h, st), D)[v]}
  BY SMT DEF Shown
<1>2. CASE volume
  <2>1. Departs(h, st) = [Story |-> {WARN}]
    BY Zenon, <1>2 DEF Departs
  <2>2. DOMAIN Departs(h, st) = {"Story"} /\ Departs(h, st)["Story"] = {WARN}
    BY <2>1
  <2> QED BY Zenon, <1>1, <1>2, <2>2
<1>3. CASE memory
  <2>1. h \notin {"fileserver-01", "mail-relay-01"}
    BY <1>3
  <2>2. Departs(h, st) = [Memory |-> {OK, WARN}]
    BY Zenon, <1>3, <2>1 DEF Departs
  <2>3. DOMAIN Departs(h, st) = {"Memory"} /\ Departs(h, st)["Memory"] = {OK, WARN}
    BY <2>2
  <2> QED BY Zenon, <1>1, <1>3, <2>1, <2>3
<1>4. CASE ~volume /\ ~memory
  <2>1. Departs(h, st) = <<>>
    BY Zenon, <1>4 DEF Departs
  <2>2. DOMAIN Departs(h, st) = {}
    BY <2>1
  <2> QED BY Zenon, <1>1, <1>4, <2>2
<1> QED BY Zenon, <1>2, <1>3, <1>4

\* An answer of one seasoned story shows what Told and Departs say.
LEMMA StoryTells ==
    ASSUME StoryInv, OneStory, Ripened(story), NEW e \in Noise
    PROVE  LET levels == ServicesOf(host, got, e)
           IN  \A v \in DOMAIN levels : levels[v] \in Shown(host, story.state, DOMAIN levels)[v]
<1> DEFINE levels == ServicesOf(host, got, e)
           st == story.state
<1>1. /\ host \in HostNames /\ got \in [1..ReadsOf[host] -> Reading] /\ DOMAIN got = 1..ReadsOf[host]
      /\ \A i \in 1..ReadsOf[host] : got[i] = story
  BY SMT, AnswerWhole DEF OneStory
<1>2. Seasoned(story) /\ st \in {"healthy", "degraded", "broken"} /\ st \in States(host)
  BY SMT, RipenedSeasoned, ReadingFields DEF StoryInv, Consistent
<1>3. AnswersOf(host, got)
  BY SMT DEF StoryInv, OneStory, Answered
<1> SUFFICES ASSUME NEW v \in DOMAIN levels PROVE levels[v] \in Shown(host, st, DOMAIN levels)[v]
  OBVIOUS
<1> DEFINE may == Shown(host, st, DOMAIN levels)[v]
<1>4. CASE host = "app-redis-01"
  <2>1. levels = Redis!Services(got, e)
    BY SMT, <1>4, AnswerOf
  <2>2. got \in [1..10 -> Reading] /\ \A i \in 1..10 : got[i] = story
    BY SMT, <1>1, <1>4, ReadsAre
  <2>4. \A x \in DOMAIN Redis!Services(got, e) :
            Redis!Services(got, e)[x] \in IF x = "Memory" /\ st # "broken" THEN {OK, WARN}
                                          ELSE IF x = "Story" /\ st = "broken" THEN {WARN} ELSE {OK}
    BY SMT, <1>2, <2>2, <1>4, RedisShows, RedisTold
  <2>5. IF v = "Memory" /\ st # "broken" THEN may = {OK, WARN} ELSE may = {Levels(Told(host, st), DOMAIN levels)[v]}
    BY SMT, <1>1, <1>2, <1>4, ShownOf
  <2>6. Levels(Told(host, st), DOMAIN levels)[v] = IF v = "Story" /\ st = "broken" THEN WARN ELSE OK
    BY SMT, <1>2, <1>4, ToldOf
  <2> QED BY SMT, <1>4, <2>1, <2>4, <2>5, <2>6
<1>5. CASE host = "app-worker-01"
  <2>1. levels = Worker!Services(got, e)
    BY SMT, <1>5, AnswerOf
  <2>2. got \in [1..7 -> Reading] /\ \A i \in 1..7 : got[i] = story
    BY SMT, <1>1, <1>5, ReadsAre
  <2>3. st # "broken"
    BY SMT, <1>3, <1>5, <2>2 DEF AnswersOf, Worker!Answers
  <2>4. \A x \in DOMAIN Worker!Services(got, e) : 
            Worker!Services(got, e)[x] = IF x = "Memory" /\ st = "degraded" THEN WARN ELSE OK
    BY SMT, <1>2, <2>2, <2>3, <1>5, WorkerShows, WorkerTold
  <2>5. may = {Levels(Told(host, st), DOMAIN levels)[v]}
    BY SMT, <1>1, <1>2, <1>5, ShownOf
  <2>6. Levels(Told(host, st), DOMAIN levels)[v] =
          IF v = "Memory" /\ st = "degraded" THEN WARN ELSE OK
    BY SMT, <1>2, <1>5, ToldOf, <2>3
  <2> QED BY SMT, <1>5, <2>1, <2>4, <2>5, <2>6
<1>6. CASE host = "fileserver-01"
  <2>1. levels = Files!Services(got, e)
    BY SMT, <1>6, AnswerOf
  <2>2. got \in [1..17 -> Reading] /\ \A i \in 1..17 : got[i] = story
    BY SMT, <1>1, <1>6, ReadsAre
  <2>4. \A x \in DOMAIN Files!Services(got, e) : 
            Files!Services(got, e)[x] = IF x = "Story" /\ st = "broken" THEN CRIT ELSE IF x = "Story" /\ st = "degraded" THEN WARN ELSE OK
    BY SMT, <1>2, <2>2, <1>6, FilesShows, FilesTold
  <2>5. IF v = "Story" /\ st = "degraded" THEN may = {WARN} ELSE may = {Levels(Told(host, st), DOMAIN levels)[v]}
    BY SMT, <1>1, <1>2, <1>6, ShownOf
  <2>6. Levels(Told(host, st), DOMAIN levels)[v] = IF v = "Story" /\ st = "broken" THEN CRIT ELSE OK
    BY SMT, <1>2, <1>6, ToldOf
  <2> QED BY SMT, <1>6, <2>1, <2>4, <2>5, <2>6
<1>7. CASE host = "mail-relay-01"
  <2>1. levels = Mail!Services(got, e)
    BY SMT, <1>7, AnswerOf
  <2>2. got \in [1..12 -> Reading] /\ \A i \in 1..12 : got[i] = story
    BY SMT, <1>1, <1>7, ReadsAre
  <2>4. \A x \in DOMAIN Mail!Services(got, e) : 
            Mail!Services(got, e)[x] = IF x = "Story" /\ st = "broken" THEN CRIT ELSE IF x = "Story" /\ st = "degraded" THEN WARN ELSE OK
    BY SMT, <1>2, <2>2, <1>7, MailShows, MailTold
  <2>5. IF v = "Story" /\ st = "degraded" THEN may = {WARN} ELSE may = {Levels(Told(host, st), DOMAIN levels)[v]}
    BY SMT, <1>1, <1>2, <1>7, ShownOf
  <2>6. Levels(Told(host, st), DOMAIN levels)[v] = IF v = "Story" /\ st = "broken" THEN CRIT ELSE OK
    BY SMT, <1>2, <1>7, ToldOf
  <2> QED BY SMT, <1>7, <2>1, <2>4, <2>5, <2>6
<1>8. CASE host = "db-postgres-01"
  <2>1. levels = Primary!Services(got, e)
    BY SMT, <1>8, AnswerOf
  <2>2. got \in [1..14 -> Reading] /\ \A i \in 1..14 : got[i] = story
    BY SMT, <1>1, <1>8, ReadsAre
  <2>4. \A x \in DOMAIN Primary!Services(got, e) : 
            Primary!Services(got, e)[x] = IF x \in {"Load", "Smart"} /\ st = "broken" THEN CRIT
                        ELSE IF x = "Temperature" /\ st # "healthy" THEN WARN ELSE OK
    BY SMT, <1>2, <2>2, <1>8, PrimaryShows, PrimaryTold
  <2>5. may = {Levels(Told(host, st), DOMAIN levels)[v]}
    BY SMT, <1>1, <1>2, <1>8, ShownOf
  <2>6. Levels(Told(host, st), DOMAIN levels)[v] =
          IF v \in {"Load", "Smart"} /\ st = "broken" THEN CRIT
          ELSE IF v = "Temperature" /\ st # "healthy" THEN WARN ELSE OK
    BY SMT, <1>2, <1>8, ToldOf
  <2> QED BY SMT, <1>8, <2>1, <2>4, <2>5, <2>6
<1>9. CASE host = "db-postgres-02"
  <2>1. levels = Replica!Services(got, e)
    BY SMT, <1>9, AnswerOf
  <2>2. got \in [1..4 -> Reading] /\ \A i \in 1..4 : got[i] = story
    BY SMT, <1>1, <1>9, ReadsAre
  <2>4. \A x \in DOMAIN Replica!Services(got, e) : 
            Replica!Services(got, e)[x] = IF x = "Story" /\ st = "broken" THEN CRIT ELSE OK
    BY SMT, <1>2, <2>2, <1>9, ReplicaShows, ReplicaTold
  <2>5. may = {Levels(Told(host, st), DOMAIN levels)[v]}
    BY SMT, <1>1, <1>2, <1>9, ShownOf
  <2>6. Levels(Told(host, st), DOMAIN levels)[v] =
          IF v = "Story" /\ st = "broken" THEN CRIT ELSE OK
    BY SMT, <1>2, <1>9, ToldOf
  <2> QED BY SMT, <1>9, <2>1, <2>4, <2>5, <2>6
<1>10. CASE host = "payment-api"
  <2>1. levels = Payment!Services(got, e)
    BY SMT, <1>10, AnswerOf
  <2>2. got \in [1..4 -> Reading] /\ \A i \in 1..4 : got[i] = story
    BY SMT, <1>1, <1>10, ReadsAre
  <2>3. st # "degraded"
    BY SMT, <1>2, <1>10 DEF States, Quiet
  <2>4. \A x \in DOMAIN Payment!Services(got, e) : 
            Payment!Services(got, e)[x] = IF x = "Units" /\ st = "broken" THEN CRIT ELSE OK
    BY SMT, <1>2, <2>2, <1>10, PaymentShows, <2>3
  <2>5. may = {Levels(Told(host, st), DOMAIN levels)[v]}
    BY SMT, <1>1, <1>2, <1>10, ShownOf
  <2>6. Levels(Told(host, st), DOMAIN levels)[v] =
          IF v = "Units" /\ st = "broken" THEN CRIT ELSE OK
    BY SMT, <1>2, <1>10, ToldOf, <2>3
  <2> QED BY SMT, <1>10, <2>1, <2>4, <2>5, <2>6
<1>11. CASE host = "win-dc-01"
  <2>1. levels = Windows!Services(got, e)
    BY SMT, <1>11, AnswerOf
  <2>2. got \in [1..9 -> Reading] /\ \A i \in 1..9 : got[i] = story
    BY SMT, <1>1, <1>11, ReadsAre
  <2>4. \A x \in DOMAIN Windows!Services(got, e) : 
            Windows!Services(got, e)[x] = IF x = "Backup" /\ st # "healthy" THEN CRIT
                        ELSE IF x = "Story" /\ st = "broken" THEN CRIT
                        ELSE IF x = "Story" /\ st = "degraded" THEN WARN ELSE OK
    BY SMT, <1>2, <2>2, <1>11, WindowsShows, WindowsTold
  <2>5. may = {Levels(Told(host, st), DOMAIN levels)[v]}
    BY SMT, <1>1, <1>2, <1>11, ShownOf
  <2>6. Levels(Told(host, st), DOMAIN levels)[v] =
          IF v = "Backup" /\ st # "healthy" THEN CRIT
          ELSE IF v = "Story" /\ st = "broken" THEN CRIT
          ELSE IF v = "Story" /\ st = "degraded" THEN WARN ELSE OK
    BY SMT, <1>2, <1>11, ToldOf
  <2> QED BY SMT, <1>11, <2>1, <2>4, <2>5, <2>6
<1>12. CASE host = "web-frontend-01"
  <2>1. levels = Frontend!Services(got, e)
    BY SMT, <1>12, AnswerOf
  <2>3. st = "healthy"
    BY SMT, <1>2, <1>12 DEF States, Quiet
  <2>4. \A x \in DOMAIN Frontend!Services(got, e) : 
            Frontend!Services(got, e)[x] = OK
    BY SMT, FrontendShows
  <2>5. may = {Levels(Told(host, st), DOMAIN levels)[v]}
    BY SMT, <1>1, <1>2, <1>12, ShownOf
  <2>6. Levels(Told(host, st), DOMAIN levels)[v] =
          OK
    BY SMT, <1>2, <1>12, ToldOf, <2>3
  <2> QED BY SMT, <1>12, <2>1, <2>4, <2>5, <2>6
<1>13. CASE host = "backup-01"
  <2>1. levels = Backup!Services(got, e)
    BY SMT, <1>13, AnswerOf
  <2>3. st = "healthy"
    BY SMT, <1>2, <1>13 DEF States, Quiet
  <2>4. \A x \in DOMAIN Backup!Services(got, e) : 
            Backup!Services(got, e)[x] = OK
    BY SMT, BackupShows
  <2>5. may = {Levels(Told(host, st), DOMAIN levels)[v]}
    BY SMT, <1>1, <1>2, <1>13, ShownOf
  <2>6. Levels(Told(host, st), DOMAIN levels)[v] =
          OK
    BY SMT, <1>2, <1>13, ToldOf, <2>3
  <2> QED BY SMT, <1>13, <2>1, <2>4, <2>5, <2>6
<1> QED BY SMT, <1>1, <1>4, <1>5, <1>6, <1>7, <1>8, <1>9, <1>10, <1>11, <1>12, <1>13 DEF HostNames

\* A broken app-worker-01 has no answer, and no other poll is without one.
LEMMA MuteTells ==
    ASSUME StoryInv
    PROVE  /\ OneStory => ~Mute(host, story.state)
           /\ poll = "failed" => \E i \in DOMAIN got : Mute(host, got[i].state)
<1>1. host = "app-worker-01" /\ poll \in {"answered", "failed"} => 1 \in DOMAIN got
  BY SMT, ReadsAre DEF StoryInv
<1>2. OneStory => ~Mute(host, story.state)
  BY SMT, <1>1 DEF StoryInv, OneStory, Answered, AnswersOf, Worker!Answers, Mute
<1>3. poll = "failed" => \E i \in DOMAIN got : Mute(host, got[i].state)
  BY SMT, <1>1 DEF StoryInv, AnswersOf, Worker!Answers, Mute
<1> QED BY <1>2, <1>3

LEMMA StoryIsTold == StoryInv => StoryTold
<1> SUFFICES ASSUME StoryInv PROVE StoryTold
  OBVIOUS
<1>1. OneStory /\ Ripened(story) =>
        \A e \in Noise : LET levels == ServicesOf(host, got, e)
                         IN  \A v \in DOMAIN levels : levels[v] \in Shown(host, story.state, DOMAIN levels)[v]
  BY SMT, StoryTells
<1> QED BY SMT, <1>1, MuteTells DEF StoryTold

\* An answer that no toggle tore shows the levels of the host's story, once it
\* is long enough in its state, except where Departs says what the code shows
\* instead; the broken app-worker-01 never answers and no other poll is lost
\* (set_state, build_agent_output).
THEOREM StoryToldAlways == Spec => []StoryTold
<1> QED BY StoryAlways, StoryIsTold, PTL

------------------------------------------------------------------------------
(* As an incident goes on *)

\* How a story goes on when nobody heals it: it ages, it is toggled to what it
\* is, or it breaks.
Onward(s, t) ==
    /\ s \in Reading /\ t \in Reading
    /\ s.state # "healthy" /\ t.state \in {s.state, "broken"} /\ s.brk <= s.deg
    /\ \/ t.deg = Older(s.deg) /\ t.brk = Older(s.brk)
       \/ t.deg = s.deg /\ t.brk = s.brk
       \/ t.deg = s.deg /\ s.brk = None /\ t.brk = 0

\* As an incident goes on, its ages do not shrink.
LEMMA OnwardAges ==
    ASSUME NEW s, NEW t, Onward(s, t)
    PROVE  /\ s.deg \in Ages /\ s.brk \in Ages /\ t.deg \in Ages /\ t.brk \in Ages
           /\ s.deg \in Int /\ s.brk \in Int /\ t.deg \in Int /\ t.brk \in Int
           /\ s.deg <= t.deg /\ s.brk <= t.brk
           /\ s.state \in {"degraded", "broken"} /\ t.state \in {"degraded", "broken"}
           /\ s.state = "broken" => t.state = "broken"
<1>1. /\ s.deg \in Ages /\ s.brk \in Ages /\ t.deg \in Ages /\ t.brk \in Ages
      /\ s.deg \in Int /\ s.brk \in Int /\ t.deg \in Int /\ t.brk \in Int
      /\ s.state \in {"healthy", "degraded", "broken"}
  BY SMT, ReadingFields DEF Onward
<1>2. s.deg <= Older(s.deg) /\ s.brk <= Older(s.brk)
  BY SMT, <1>1, OlderAge
<1>3. s.deg <= t.deg /\ s.brk <= t.brk
  BY SMT, <1>1, <1>2 DEF Onward, None
<1> QED BY SMT, <1>1, <1>3 DEF Onward

\* A level rises with its figure.
LEMMA LevelRises ==
    ASSUME NEW x \in Int, NEW y \in Int, x <= y, NEW low \in Int, NEW high \in Int
    PROVE  Level(x, low, high) <= Level(y, low, high)
  BY SMT DEF Level, OK, WARN, CRIT

\* No level of app-redis-01 gets better;
LEMMA RedisOnward ==
    ASSUME NEW s, NEW t, Onward(s, t), NEW e \in Noise,
           NEW r \in [1..10 -> Reading], \A i \in 1..10 : r[i] = s,
           NEW q \in [1..10 -> Reading], \A i \in 1..10 : q[i] = t
    PROVE  \A v \in DOMAIN Redis!Services(r, e) \ {"Memory"} : Redis!Services(r, e)[v] <= Redis!Services(q, e)[v]
<1>1. r[1] = s /\ r[10] = s /\ q[1] = t /\ q[10] = t
  BY SMT
<1>2. /\ Redis!Services(r, e)["Story"] = IF s.state = "broken" /\ s.brk >= 2 THEN WARN ELSE OK
      /\ Redis!Services(q, e)["Story"] = IF t.state = "broken" /\ t.brk >= 2 THEN WARN ELSE OK
  BY SMT, <1>1, RedisShows
<1>3. Redis!Services(r, e)["Story"] <= Redis!Services(q, e)["Story"]
  BY SMT, <1>2, OnwardAges DEF WARN, OK
<1> QED BY SMT, <1>3, RedisShows DEF OK

\* pressure() of app-worker-01 does not fall,
LEMMA WorkerPressureRises ==
    ASSUME NEW deg \in Ages, NEW brk \in Ages, NEW deg2 \in Ages, NEW brk2 \in Ages, deg <= deg2, brk <= brk2
    PROVE  Worker!Pressure(deg, brk, brk) <= Worker!Pressure(deg2, brk2, brk2)
  BY OldestRange, SMT DEF Worker!Pressure, Worker!Climb, Worker!Ramp, Worker!Least, Worker!Most,
     Worker!LEAK_FILL_MIN, Worker!BREAK_RAMP, Ages, None

\* nor does any of its levels;
LEMMA WorkerOnward ==
    ASSUME NEW s, NEW t, Onward(s, t), NEW e \in Noise,
           NEW r \in [1..7 -> Reading], \A i \in 1..7 : r[i] = s,
           NEW q \in [1..7 -> Reading], \A i \in 1..7 : q[i] = t
    PROVE  \A v \in DOMAIN Worker!Services(r, e) : Worker!Services(r, e)[v] <= Worker!Services(q, e)[v]
<1>1. /\ r[1] = s /\ q[1] = t
      /\ Worker!P(r) = Worker!Pressure(s.deg, s.brk, s.brk) /\ Worker!P(q) = Worker!Pressure(t.deg, t.brk, t.brk)
  BY SMT DEF Worker!P
<1>2. Worker!P(r) <= Worker!P(q)
  BY SMT, <1>1, OnwardAges, WorkerPressureRises
<1>3. Worker!Services(r, e)["Memory"] <= Worker!Services(q, e)["Memory"]
  BY SMT, <1>2, WorkerMemoryRises, WorkerShows
<1>4. Worker!Services(r, e)["Units"] <= Worker!Services(q, e)["Units"]
  BY SMT, <1>1, OnwardAges, WorkerShows DEF OK, CRIT
<1> QED BY SMT, <1>3, <1>4, WorkerShows DEF OK

\* of fileserver-01;
LEMMA FilesOnward ==
    ASSUME NEW s, NEW t, Onward(s, t), NEW e \in Noise,
           NEW r \in [1..17 -> Reading], \A i \in 1..17 : r[i] = s,
           NEW q \in [1..17 -> Reading], \A i \in 1..17 : q[i] = t
    PROVE  \A v \in DOMAIN Files!Services(r, e) : Files!Services(r, e)[v] <= Files!Services(q, e)[v]
<1> DEFINE p(x) == Files!Pressure(x.deg, x.brk, x.brk)
           fraction(x) == Files!SrvFraction(p(x), e)
<1>1. r[5] = s /\ r[6] = s /\ r[7] = s /\ q[5] = t /\ q[6] = t /\ q[7] = t
  BY SMT
<1>2. Within(p(s), 0, 100) /\ Within(p(t), 0, 100) /\ p(s) <= p(t)
  BY SMT, OnwardAges, FilesPressure, FilesPressureRises
<1>3. /\ Files!Services(r, e)["Story"] = Level((209 * fraction(s)) \div 20971, 80, 90)
      /\ Files!Services(q, e)["Story"] = Level((209 * fraction(t)) \div 20971, 80, 90)
  BY SMT, <1>1, FilesShows
<1> HIDE DEF p
<1>4. Within(fraction(s), 5000, 9950) /\ Within(fraction(t), 5000, 9950) /\ fraction(s) <= fraction(t)
  BY SMT, <1>2, FilesFraction, FilesFractionRises
<1> HIDE DEF fraction
<1>5. Files!Services(r, e)["Story"] <= Files!Services(q, e)["Story"]
  BY SMT, <1>3, <1>4 DEF Within, Level, OK, WARN, CRIT
<1> QED BY SMT, <1>5, FilesShows DEF OK

\* of mail-relay-01;
LEMMA MailOnward ==
    ASSUME NEW s, NEW t, Onward(s, t), NEW e \in Noise,
           NEW r \in [1..12 -> Reading], \A i \in 1..12 : r[i] = s,
           NEW q \in [1..12 -> Reading], \A i \in 1..12 : q[i] = t
    PROVE  \A v \in DOMAIN Mail!Services(r, e) : Mail!Services(r, e)[v] <= Mail!Services(q, e)[v]
<1> DEFINE count(x) == Mail!DeferredCount(x.deg, x.brk, x.brk, e)
           climb(x) == Mail!DeferredCount(x.deg, None, None, e)
<1>1. r[2] = s /\ r[3] = s /\ r[4] = s /\ q[2] = t /\ q[3] = t /\ q[4] = t
  BY SMT
<1>2. /\ Mail!Services(r, e)["Story"] = Level(count(s), 10, 20)
      /\ Mail!Services(q, e)["Story"] = Level(count(t), 10, 20)
  BY SMT, <1>1, MailShows
<1>3. /\ Within(count(s), 0, 346000) /\ Within(count(t), 0, 346000)
      /\ t.brk > 0 => count(t) >= 20
      /\ s.brk <= 0 => count(s) = climb(s)
      /\ t.brk <= 0 => count(t) = climb(t)
  BY SMT, OnwardAges, MailCount
<1>4. climb(s) <= climb(t)
  BY SMT, OnwardAges, MailCountRises
<1> HIDE DEF count, climb
<1>5. Mail!Services(r, e)["Story"] <= Mail!Services(q, e)["Story"]
  BY SMT, <1>2, <1>3, <1>4, OnwardAges DEF Within, Level, OK, WARN, CRIT
<1> QED BY SMT, <1>5, MailShows DEF OK

\* the load of db-postgres-01 does not fall,
LEMMA PrimaryLoadRises ==
    ASSUME NEW x, NEW y, Within(x, 0, 100), Within(y, 0, 100), x <= y, NEW e \in Noise
    PROVE  /\ LoadOf(Lerp(85, 4400, x), 100, 6, e) <= LoadOf(Lerp(85, 4400, y), 100, 6, e)
           /\ LoadOf(Lerp(85, 4400, x), 100, 6, e) \in Int /\ LoadOf(Lerp(85, 4400, y), 100, 6, e) \in Int
<1> DEFINE a == Lerp(85, 4400, x)
           b == Lerp(85, 4400, y)
<1>1. a \in Int /\ b \in Int /\ a <= b
  BY SMT DEF Lerp, Within
<1> HIDE DEF a, b
<1>2. CASE e.d = 1
  BY SMT, <1>1, <1>2 DEF LoadOf, GaugeFrac, a, b
<1>3. CASE e.d = -1
  BY SMT, <1>1, <1>3 DEF LoadOf, GaugeFrac, a, b
<1> QED BY SMT, <1>2, <1>3 DEF Noise

\* nor does any of its levels;
LEMMA PrimaryOnward ==
    ASSUME NEW s, NEW t, Onward(s, t), NEW e \in Noise,
           NEW r \in [1..14 -> Reading], \A i \in 1..14 : r[i] = s,
           NEW q \in [1..14 -> Reading], \A i \in 1..14 : q[i] = t
    PROVE  \A v \in DOMAIN Primary!Services(r, e) : Primary!Services(r, e)[v] <= Primary!Services(q, e)[v]
<1> DEFINE temp(x) == IF x.deg <= 0 THEN 300 ELSE 300 + Least(80, 14 * x.deg)
           ramp(x) == Ramp(x.brk, 40)
           load(x) == LoadOf(Lerp(85, 4400, ramp(x)), 100, 6, e)
           warm(x) == (temp(x) + (13 * e.d) + 5) \div 10
<1>1. r[6] = s /\ r[9] = s /\ r[10] = s /\ q[6] = t /\ q[9] = t /\ q[10] = t
  BY SMT
<1>2. /\ Primary!Services(r, e)["Load"] = Level(load(s), 2000, 4000)
      /\ Primary!Services(r, e)["Temperature"] = Level(warm(s), 35, 40)
      /\ Primary!Services(r, e)["Smart"] = IF s.deg > 0 /\ s.brk > 8 THEN CRIT ELSE OK
  BY SMT, <1>1, PrimaryShows
<1>3. /\ Primary!Services(q, e)["Load"] = Level(load(t), 2000, 4000)
      /\ Primary!Services(q, e)["Temperature"] = Level(warm(t), 35, 40)
      /\ Primary!Services(q, e)["Smart"] = IF t.deg > 0 /\ t.brk > 8 THEN CRIT ELSE OK
  BY SMT, <1>1, PrimaryShows
<1>4. Within(ramp(s), 0, 100) /\ Within(ramp(t), 0, 100) /\ ramp(s) <= ramp(t)
  BY SMT, OnwardAges, OldestRange DEF Ramp, Least, Within, Ages, None
<1>5. temp(s) \in Int /\ temp(t) \in Int /\ temp(s) <= temp(t)
  BY SMT, OnwardAges, OldestRange DEF Least, Within, Ages, None
<1> HIDE DEF temp, ramp
<1>6. warm(s) \in Int /\ warm(t) \in Int /\ warm(s) <= warm(t)
  BY SMT, <1>5 DEF Noise
<1>7. load(s) \in Int /\ load(t) \in Int /\ load(s) <= load(t)
  BY SMT, <1>4, PrimaryLoadRises
<1> HIDE DEF warm, load
<1>8. Primary!Services(r, e)["Load"] <= Primary!Services(q, e)["Load"]
  BY SMT, <1>2, <1>3, <1>7 DEF Level, OK, WARN, CRIT
<1>9. Primary!Services(r, e)["Temperature"] <= Primary!Services(q, e)["Temperature"]
  BY SMT, <1>2, <1>3, <1>6 DEF Level, OK, WARN, CRIT
<1>10. Primary!Services(r, e)["Smart"] <= Primary!Services(q, e)["Smart"]
  BY SMT, <1>2, <1>3, OnwardAges DEF OK, CRIT
<1> QED BY SMT, <1>8, <1>9, <1>10, PrimaryShows DEF OK

\* the idle connections of db-postgres-02 do not become fewer,
LEMMA ReplicaIdleRises ==
    ASSUME NEW r \in [1..4 -> Reading], NEW q \in [1..4 -> Reading], r[2].deg <= q[2].deg,
           r[3].brk <= q[3].brk \/ r[3].brk <= 0, NEW e \in Noise
    PROVE  Replica!ConnectionCounts(r, e).idle <= Replica!ConnectionCounts(q, e).idle
<1> DEFINE decay(brk)   == Replica!Decay(brk)
           active       == Replica!Most(1, Replica!GaugeAbs(4, 1, e))
           leak(deg)    == Replica!Lerp(90, 150, Replica!Least(100, (100 * deg) \div 16))
           runaway(brk) == Replica!Lerp(150, 184, Replica!Least(100, (100 * brk) \div 4))
           creep(brk)   == (10 * (100 - decay(brk))) \div 100
           total(deg, brk) == IF brk > 0 THEN Replica!Most(leak(deg), runaway(brk) + creep(brk)) ELSE leak(deg)
           idle(deg, brk)  == IF deg <= 0 THEN Replica!Most(1, Replica!GaugeAbs(26, 3, e))
                              ELSE Replica!Most(30, Replica!Least(194 - active, Replica!GaugeAbs(total(deg, brk), 1, e)))
<1>1. /\ r[2].deg \in Ages /\ r[3].brk \in Ages /\ q[2].deg \in Ages /\ q[3].brk \in Ages
      /\ r[2].deg \in Int /\ r[3].brk \in Int /\ q[2].deg \in Int /\ q[3].brk \in Int
  <2>1. r[2] \in Reading /\ r[3] \in Reading /\ q[2] \in Reading /\ q[3] \in Reading
    BY SMT
  <2> QED BY SMT, <2>1, ReadingFields
<1>2. /\ Replica!ConnectionCounts(r, e).idle = idle(r[2].deg, r[3].brk)
      /\ Replica!ConnectionCounts(q, e).idle = idle(q[2].deg, q[3].brk)
  BY SMT DEF Replica!ConnectionCounts, Replica!LEAK_FILL_MIN, Replica!BREAK_RAMP_MIN, Replica!MAX_CONNECTIONS,
     Replica!HEALTHY_CONNS, Replica!DEGRADED_PEAK, Replica!BROKEN_CAP
<1>3. \A x, y \in Ages : x <= y => /\ Within(decay(x), 10, 100) /\ Within(decay(y), 10, 100) /\ decay(y) <= decay(x)
  BY SMT, OldestRange DEF Replica!Decay, Replica!Most, Ages, None, Within
<1>4. \A x, y \in Ages : x <= y => leak(x) \in Int /\ leak(y) \in Int /\ leak(x) <= leak(y)
  BY SMT, OldestRange DEF Replica!Lerp, Replica!Least, Ages, None
<1>5. \A x, y \in Ages : x <= y => runaway(x) \in Int /\ runaway(y) \in Int /\ runaway(x) <= runaway(y)
  BY SMT, OldestRange DEF Replica!Lerp, Replica!Least, Ages, None
<1> HIDE DEF decay
<1>6. \A x, y \in Ages : x <= y => creep(x) \in Int /\ creep(y) \in Int /\ creep(x) <= creep(y)
  <2> SUFFICES ASSUME NEW x \in Ages, NEW y \in Ages, x <= y
               PROVE  creep(x) \in Int /\ creep(y) \in Int /\ creep(x) <= creep(y)
    OBVIOUS
  <2>1. Within(decay(x), 10, 100) /\ Within(decay(y), 10, 100) /\ decay(y) <= decay(x)
    BY SMT, <1>3
  <2> QED BY SMT, <2>1 DEF Within
<1> DEFINE a == r[2].deg
           b == r[3].brk
           c == q[2].deg
           d == q[3].brk
<1> HIDE DEF leak, runaway, creep
<1>7. /\ total(a, b) \in Int /\ total(c, d) \in Int /\ total(a, b) <= total(c, d)
  <2>1. /\ leak(a) \in Int /\ leak(c) \in Int /\ leak(a) <= leak(c)
        /\ runaway(b) \in Int /\ runaway(d) \in Int /\ (b <= d => runaway(b) <= runaway(d))
        /\ creep(b) \in Int /\ creep(d) \in Int /\ (b <= d => creep(b) <= creep(d))
    BY SMT, <1>1, <1>4, <1>5, <1>6
  <2>2. CASE b <= d
    BY SMT, <1>1, <2>1, <2>2 DEF Replica!Most
  <2>3. CASE b <= 0
    BY SMT, <1>1, <2>1, <2>3 DEF Replica!Most
  <2> QED BY SMT, <2>2, <2>3
<1>8. Within(active, 3, 5)
  BY SMT DEF Replica!Most, Replica!GaugeAbs, Noise, Within
<1> HIDE DEF total, active
<1>9. idle(a, b) <= idle(c, d)
  BY SMT, <1>1, <1>7, <1>8 DEF Replica!Most, Replica!Least, Replica!GaugeAbs, Noise, Within
<1> QED BY SMT, <1>2, <1>9

\* nor does any of its levels get better;
LEMMA ReplicaOnward ==
    ASSUME NEW s, NEW t, Onward(s, t), NEW e \in Noise,
           NEW r \in [1..4 -> Reading], \A i \in 1..4 : r[i] = s,
           NEW q \in [1..4 -> Reading], \A i \in 1..4 : q[i] = t
    PROVE  \A v \in DOMAIN Replica!Services(r, e) : Replica!Services(r, e)[v] <= Replica!Services(q, e)[v]
<1> DEFINE idle(x) == Replica!ConnectionCounts(x, e).idle
<1>1. idle(r) <= idle(q)
  <2>1. r[2] = s /\ r[3] = s /\ q[2] = t /\ q[3] = t
    BY SMT
  <2> QED BY SMT, <2>1, OnwardAges, ReplicaIdleRises
<1>2. Within(idle(r), 20, 191) /\ Within(idle(q), 20, 191)
  BY SMT, ReplicaCounts
<1>3. /\ Replica!Services(r, e)["Story"] = Level((100 * idle(r)) \div 200, 80, 90)
      /\ Replica!Services(q, e)["Story"] = Level((100 * idle(q)) \div 200, 80, 90)
  BY SMT, ReplicaShows
<1> HIDE DEF idle
<1>4. Replica!Services(r, e)["Story"] <= Replica!Services(q, e)["Story"]
  BY SMT, <1>1, <1>2, <1>3 DEF Within, Level, OK, WARN, CRIT
<1> QED BY SMT, <1>4, ReplicaShows DEF OK

\* of payment-api;
LEMMA PaymentOnward ==
    ASSUME NEW s, NEW t, Onward(s, t), NEW e \in Noise,
           NEW r \in [1..4 -> Reading], \A i \in 1..4 : r[i] = s,
           NEW q \in [1..4 -> Reading], \A i \in 1..4 : q[i] = t
    PROVE  \A v \in DOMAIN Payment!Services(r, e) : Payment!Services(r, e)[v] <= Payment!Services(q, e)[v]
<1>1. r[1] = s /\ q[1] = t
  BY SMT
<1> QED BY SMT, <1>1, OnwardAges, PaymentShows DEF OK, CRIT

\* pressure() of win-dc-01 does not fall, and not at the break,
LEMMA WindowsPressureRises ==
    ASSUME NEW s, NEW t, Onward(s, t)
    PROVE  Windows!Pressure(s) <= Windows!Pressure(t)
<1> DEFINE deg(d) == Windows!DegPressure(d)
           rise(x, ramp) == x + (((100 - x) * ramp) \div 100)
<1>1. /\ s.deg \in Ages /\ s.brk \in Ages /\ t.deg \in Ages /\ t.brk \in Ages
      /\ Within(s.deg, -1, Oldest) /\ Within(s.brk, -1, Oldest) /\ Within(t.deg, -1, Oldest) /\ Within(t.brk, -1, Oldest)
      /\ s.deg <= t.deg /\ s.brk <= t.brk
  BY SMT, OnwardAges, AgesInt DEF Within
<1>2. \A x, y : x \in Int /\ y \in Int /\ x <= y =>
          /\ deg(x) <= deg(y) /\ Within(deg(x), 0, 78) /\ Within(deg(y), 0, 78)
          /\ x >= 17 => deg(x) >= 73
  BY SMT DEF Windows!DegPressure, Windows!Least, Windows!LEAK_FILL_MIN, Within
<1>3. \A x \in Reading : /\ x.brk <= 0 => Windows!Pressure(x) = deg(x.deg)
                         /\ x.brk >= 4 => Windows!Pressure(x) = 100
                         /\ Within(Windows!Pressure(x), 0, 100)
  BY SMT, WindowsPressure
<1>4. \A x : /\ x.brk = 1 => Windows!Pressure(x) = Windows!Most(deg(x.deg), rise(deg(x.deg - 1), 25))
             /\ x.brk = 2 => Windows!Pressure(x) = Windows!Most(deg(x.deg), rise(deg(x.deg - 2), 50))
             /\ x.brk = 3 => Windows!Pressure(x) = Windows!Most(deg(x.deg), rise(deg(x.deg - 3), 75))
  BY SMT DEF Windows!Pressure, Windows!AtBreak, Windows!Lerp, Windows!Ramp, Windows!Least, Windows!BREAK_RAMP
<1> DEFINE a == s.deg
           b == s.brk
           c == t.deg
           d == t.brk
<1>5. s \in Reading /\ t \in Reading
  BY SMT DEF Onward
<1> HIDE DEF deg
<1>6. Within(deg(a), 0, 78) /\ Within(deg(c), 0, 78) /\ deg(a) <= deg(c)
  BY SMT, <1>1, <1>2, OldestRange DEF Within
<1>7. CASE d >= 4
  BY SMT, <1>3, <1>5, <1>7 DEF Within
<1>8. CASE d <= 0
  BY SMT, <1>1, <1>3, <1>5, <1>6, <1>8 DEF Within
<1>9. CASE d \in {1, 2, 3}
  <2>1. CASE b <= 0
    <3>1. Windows!Pressure(s) = deg(a)
      BY SMT, <1>3, <1>5, <2>1
    <3>2. \A x, y : Windows!Most(x, y) = IF x > y THEN x ELSE y
      BY SMT DEF Windows!Most
    <3>3. Within(deg(c - 1), 0, 78) /\ Within(deg(c - 2), 0, 78) /\ Within(deg(c - 3), 0, 78)
      BY SMT, <1>1, <1>2, OldestRange DEF Within
    <3>4. Windows!Pressure(t) >= deg(c)
      BY SMT, <1>4, <1>6, <1>9, <3>2, <3>3 DEF Within
    <3> QED BY SMT, <1>6, <3>1, <3>4, <1>3, <1>5 DEF Within
  <2>2. CASE b \in {1, 2, 3} /\ a = c /\ b = d
    BY SMT, <1>4, <1>9, <2>2, <1>3, <1>5 DEF Within
  <2>3. CASE b \in {1, 2, 3} /\ c = Older(a) /\ d = Older(b)
    <3>1. d = b + Step /\ (c = a + Step \/ (c = Oldest /\ c <= a + Step))
      BY SMT, <1>1, <1>9, <2>3, OldestRange DEF Older, Least, None, Within, Onward
    <3>2. c - d = a - b \/ c >= 20
      <4>1. CASE c = a + Step
        BY SMT, <3>1, <4>1, <1>1, OldestRange DEF Within
      <4>2. CASE c = Oldest
        BY SMT, <4>2, OldestRange
      <4> QED BY SMT, <3>1, <4>1, <4>2
    <3>3. Within(deg(a - b), 0, 78) /\ Within(deg(c - d), 0, 78)
      BY SMT, <1>1, <1>2, OldestRange DEF Within
    <3>4. deg(a - b) = deg(c - d) \/ deg(c - d) >= 73
      <4>1. CASE c - d = a - b
        BY SMT, <4>1
      <4>2. CASE c >= 20
        <5>1. c - d \in Int /\ 17 <= c - d
          BY SMT, <1>1, <1>9, <4>2, OldestRange DEF Within
        <5> QED BY SMT, <5>1, <1>2 DEF Within
      <4> QED BY SMT, <3>2, <4>1, <4>2
    <3>5. d > b
      BY SMT, <3>1, <2>3, OldestRange
    <3> DEFINE from == deg(a - b)
               to   == deg(c - d)
    <3>6. Windows!Pressure(s) = Windows!Most(deg(a), rise(from, 25 * b))
      BY SMT, <1>4, <2>3
    <3>7. Windows!Pressure(t) = Windows!Most(deg(c), rise(to, 25 * d))
      BY SMT, <1>4, <1>9
    <3>8. Within(from, 0, 78) /\ Within(to, 0, 78) /\ (from = to \/ to >= 73)
      BY SMT, <3>3, <3>4
    <3> HIDE DEF from, to
    <3>9. rise(from, 25 * b) <= rise(to, 25 * d) /\ rise(from, 25 * b) \in Int /\ rise(to, 25 * d) \in Int
      <4>1. CASE b = 1 /\ d = 2
        BY SMT, <3>8, <4>1 DEF Within
      <4>2. CASE b = 1 /\ d = 3
        BY SMT, <3>8, <4>2 DEF Within
      <4>3. CASE b = 2 /\ d = 3
        BY SMT, <3>8, <4>3 DEF Within
      <4> QED BY SMT, <1>9, <2>3, <3>5, <4>1, <4>2, <4>3
    <3> HIDE DEF rise
    <3> QED BY SMT, <1>6, <3>6, <3>7, <3>9 DEF Windows!Most, Within
  <2>4. b \in Int /\ b <= d /\ d \in Int
    BY SMT, <1>1 DEF Within
  <2>5. CASE d = 0
    BY SMT, <2>5, <1>9
  <2> QED BY SMT, <1>9, <2>1, <2>2, <2>3, <2>4, <2>5 DEF Onward
<1> QED BY SMT, <1>1, <1>7, <1>8, <1>9 DEF Within

\* nor does any of its levels.
LEMMA WindowsOnward ==
    ASSUME NEW s, NEW t, Onward(s, t), NEW e \in Noise,
           NEW r \in [1..9 -> Reading], \A i \in 1..9 : r[i] = s,
           NEW q \in [1..9 -> Reading], \A i \in 1..9 : q[i] = t
    PROVE  \A v \in DOMAIN Windows!Services(r, e) : Windows!Services(r, e)[v] <= Windows!Services(q, e)[v]
<1> DEFINE full(x) == (Filling(66700000, 0, 1500000, 90000, e) + (501000 * Windows!Pressure(x))) \div 1258270
<1>1. r[5] = s /\ r[6] = s /\ r[8] = s /\ q[5] = t /\ q[6] = t /\ q[8] = t
  BY SMT
<1>2. /\ Windows!Services(r, e)["Story"] = Level(full(s), 80, 90)
      /\ Windows!Services(q, e)["Story"] = Level(full(t), 80, 90)
      /\ Windows!Services(q, e)["Backup"] = IF t.state = "healthy" THEN OK ELSE CRIT
      /\ Windows!Services(r, e)["Backup"] = IF s.state = "healthy" THEN OK ELSE CRIT
  BY SMT, <1>1, WindowsShows
<1>3. Within(Windows!Pressure(s), 0, 100) /\ Within(Windows!Pressure(t), 0, 100) /\ s \in Reading /\ t \in Reading
  BY SMT, WindowsPressure DEF Onward
<1>4. full(s) \in Int /\ full(t) \in Int /\ full(s) <= full(t)
  BY SMT, <1>3, WindowsPressureRises DEF Filling, GaugeAbs, Noise, Within
<1> HIDE DEF full
<1>5. Windows!Services(r, e)["Story"] <= Windows!Services(q, e)["Story"]
  BY SMT, <1>2, <1>4, LevelRises
<1>6. Windows!Services(r, e)["Backup"] <= Windows!Services(q, e)["Backup"]
  BY SMT, <1>2, OnwardAges DEF OK, CRIT
<1> QED BY SMT, <1>5, <1>6, WindowsShows DEF OK

\* How a step that changes the story and does not heal it goes on with it.
LEMMA StoryOnward ==
    ASSUME StoryInv, [Next]_vars, story' # story, story.state # "healthy", story'.state \in {story.state, "broken"}
    PROVE  Onward(story, story')
<1>1. Consistent(story) /\ story \in Reading /\ story' \in Reading /\ story.brk <= story.deg
  BY SMT, StoryNext DEF StoryInv, Consistent
<1>2. (story.state # "healthy" => story.deg # None) /\ (story.state = "degraded" => story.brk = None)
  BY SMT, <1>1 DEF Consistent
<1>3. ASSUME NEW value, value \in {story.state, "broken"}, story' = Toggled(story, value) PROVE Onward(story, story')
  <2>1. story.state \in {"degraded", "broken"}
    BY SMT, <1>1, ReadingFields
  <2>2. /\ story'.deg = (IF value = "healthy" THEN None ELSE IF story.deg = None THEN 0 ELSE story.deg)
        /\ story'.brk = (IF value # "broken" THEN None ELSE IF story.brk = None THEN 0 ELSE story.brk)
    BY SMT, <1>3 DEF Toggled
  <2>3. story'.deg = story.deg
    BY SMT, <2>1, <2>2, <1>2, <1>3
  <2>4. story'.brk = story.brk \/ (story.brk = None /\ story'.brk = 0)
    BY SMT, <2>1, <2>2, <1>2, <1>3
  <2> QED BY SMT, <1>1, <2>3, <2>4 DEF Onward
<1>4. ASSUME NEW value \in States(host), Toggle(value) PROVE Onward(story, story')
  <2>1. story' = Toggled(story, value) /\ story'.state = value
    BY SMT, <1>4 DEF Toggle, Toggled
  <2> QED BY SMT, <1>3, <2>1
<1>5. CASE Escalate
  BY SMT, <1>3, <1>5 DEF Escalate
<1>6. CASE Clock
  <2>1. story'.deg = Older(story.deg) /\ story'.brk = Older(story.brk)
    BY SMT, <1>1, <1>6, AgedFields DEF Clock
  <2> QED BY SMT, <1>1, <2>1 DEF Onward
<1> QED BY SMT, <1>4, <1>5, <1>6 DEF Next, Poll, Begin, Read, Answer, Deliver, vars

\* Whatever the host, no level gets better.
LEMMA LevelsOnward ==
    ASSUME host \in HostNames, NEW s, NEW t, Onward(s, t), NEW e \in Noise
    PROVE  LET before == ServicesOf(host, Whole(s), e)
               after  == ServicesOf(host, Whole(t), e)
           IN  \A v \in Telling(before) : before[v] <= after[v]
<1> DEFINE n == ReadsOf[host]
           r == Whole(s)
           q == Whole(t)
           before == ServicesOf(host, r, e)
           after  == ServicesOf(host, q, e)
<1>1. /\ r \in [1..n -> Reading] /\ \A i \in 1..n : r[i] = s
      /\ q \in [1..n -> Reading] /\ \A i \in 1..n : q[i] = t
  BY SMT DEF Whole, Onward
<1> HIDE DEF r, q
<1> SUFFICES ASSUME NEW v \in DOMAIN before, host = "app-redis-01" => v # "Memory" PROVE before[v] <= after[v]
  BY SMT DEF Telling, r, q
<1>2. CASE host = "app-redis-01"
  <2>1. before = Redis!Services(r, e) /\ after = Redis!Services(q, e)
    BY SMT, <1>2, AnswerOf
  <2>2. n = 10
    BY SMT, <1>2, ReadsAre
  <2> QED BY SMT, <1>1, <1>2, <2>1, <2>2, RedisOnward
<1>3. CASE host = "app-worker-01"
  <2>1. before = Worker!Services(r, e) /\ after = Worker!Services(q, e)
    BY SMT, <1>3, AnswerOf
  <2>2. n = 7
    BY SMT, <1>3, ReadsAre
  <2> QED BY SMT, <1>1, <1>3, <2>1, <2>2, WorkerOnward
<1>4. CASE host = "fileserver-01"
  <2>1. before = Files!Services(r, e) /\ after = Files!Services(q, e)
    BY SMT, <1>4, AnswerOf
  <2>2. n = 17
    BY SMT, <1>4, ReadsAre
  <2> QED BY SMT, <1>1, <1>4, <2>1, <2>2, FilesOnward
<1>5. CASE host = "mail-relay-01"
  <2>1. before = Mail!Services(r, e) /\ after = Mail!Services(q, e)
    BY SMT, <1>5, AnswerOf
  <2>2. n = 12
    BY SMT, <1>5, ReadsAre
  <2> QED BY SMT, <1>1, <1>5, <2>1, <2>2, MailOnward
<1>6. CASE host = "db-postgres-01"
  <2>1. before = Primary!Services(r, e) /\ after = Primary!Services(q, e)
    BY SMT, <1>6, AnswerOf
  <2>2. n = 14
    BY SMT, <1>6, ReadsAre
  <2> QED BY SMT, <1>1, <1>6, <2>1, <2>2, PrimaryOnward
<1>7. CASE host = "db-postgres-02"
  <2>1. before = Replica!Services(r, e) /\ after = Replica!Services(q, e)
    BY SMT, <1>7, AnswerOf
  <2>2. n = 4
    BY SMT, <1>7, ReadsAre
  <2> QED BY SMT, <1>1, <1>7, <2>1, <2>2, ReplicaOnward
<1>8. CASE host = "payment-api"
  <2>1. before = Payment!Services(r, e) /\ after = Payment!Services(q, e)
    BY SMT, <1>8, AnswerOf
  <2>2. n = 4
    BY SMT, <1>8, ReadsAre
  <2> QED BY SMT, <1>1, <1>8, <2>1, <2>2, PaymentOnward
<1>9. CASE host = "win-dc-01"
  <2>1. before = Windows!Services(r, e) /\ after = Windows!Services(q, e)
    BY SMT, <1>9, AnswerOf
  <2>2. n = 9
    BY SMT, <1>9, ReadsAre
  <2> QED BY SMT, <1>1, <1>9, <2>1, <2>2, WindowsOnward
<1>10. CASE host = "web-frontend-01"
  <2>1. before = Frontend!Services(r, e) /\ after = Frontend!Services(q, e)
    BY SMT, <1>10, AnswerOf
  <2> QED BY SMT, <2>1, FrontendShows DEF OK
<1>11. CASE host = "backup-01"
  <2>1. before = Backup!Services(r, e) /\ after = Backup!Services(q, e)
    BY SMT, <1>11, AnswerOf
  <2> QED BY SMT, <2>1, BackupShows DEF OK
<1> QED BY SMT, <1>2, <1>3, <1>4, <1>5, <1>6, <1>7, <1>8, <1>9, <1>10, <1>11 DEF HostNames

\* As an incident goes on, by the clock, by the watchdog (_auto_break_watchdog)
\* or by the control page, no level gets better: the ramps of the broken state
\* start where those of the degraded state are.
THEOREM NoReliefAlways == Spec => NoRelief
<1> DEFINE Relief == story' # story /\ story.state # "healthy" /\ story'.state \in {story.state, "broken"} =>
                         \A e \in Noise :
                             LET before == ServicesOf(host, Whole(story), e)
                                 after  == ServicesOf(host, Whole(story'), e)
                             IN  \A s \in Telling(before) : before[s] <= after[s]
<1>1. StoryInv /\ [Next]_vars => [Relief]_story
  <2> SUFFICES ASSUME StoryInv, [Next]_vars, story' # story, story.state # "healthy",
                      story'.state \in {story.state, "broken"}
               PROVE  Relief
    BY SMT
  <2>1. host \in HostNames /\ Onward(story, story')
    BY SMT, StoryOnward, HostsAssumption DEF StoryInv
  <2> QED BY SMT, <2>1, LevelsOnward
<1>2. Spec => [][Relief]_story
  <2> HIDE DEF Relief
  <2> QED BY StoryAlways, <1>1, PTL DEF Spec
<1> QED BY <1>2, Zenon DEF NoRelief

------------------------------------------------------------------------------
(* An answer that a toggle tore *)

\* The worst of the stories, which are finitely many.
LEMMA WorstIs ==
    ASSUME NEW S, S \subseteq {0, 1, 2}, NEW x \in S, NEW y \in Int, y <= x
    PROVE  y <= Max(S)
<1>1. \E m \in S : \A z \in S : m >= z
  <2>1. CASE 2 \in S
    BY SMT, <2>1
  <2>2. CASE 2 \notin S /\ 1 \in S
    BY SMT, <2>2
  <2>3. CASE 2 \notin S /\ 1 \notin S
    BY SMT, <2>3
  <2> QED BY SMT, <2>1, <2>2, <2>3
<1>2. (CHOOSE m \in S : \A z \in S : m >= z) \in S /\ \A z \in S : (CHOOSE m \in S : \A z1 \in S : m >= z1) >= z
  BY Zenon, <1>1
<1>3. Max(S) = CHOOSE m \in S : \A z \in S : m >= z
  BY Zenon DEF Max
<1>4. Max(S) \in S /\ \A z \in S : Max(S) >= z
  BY Zenon, <1>2, <1>3
<1> DEFINE worst == Max(S)
<1> HIDE DEF worst
<1>5. worst \in S /\ worst >= x
  BY Zenon, <1>4 DEF worst
<1>6. worst \in Int /\ x \in Int
  BY SMT, <1>5
<1>7. \A m, k, l \in Int : m >= k /\ l <= k => l <= m
  BY SMT
<1> QED BY Zenon, <1>5, <1>6, <1>7 DEF worst

\* A torn answer of payment-api, which reads the state once;
LEMMA PaymentTorn ==
    ASSUME NEW e \in Noise, NEW r \in [1..4 -> Reading], NEW q,
           \A i \in 1..4 : q[i] \in [1..4 -> Reading] /\ \A j \in 1..4 : q[i][j] = r[i]
    PROVE  \A v \in DOMAIN Payment!Services(r, e) : \E i \in 1..4 : Payment!Services(r, e)[v] <= Payment!Services(q[i], e)[v]
<1> DEFINE first == q[1]
<1>1. first \in [1..4 -> Reading] /\ first[1] = r[1]
  BY SMT
<1> HIDE DEF first
<1>2. \A v \in DOMAIN Payment!Services(r, e) : Payment!Services(r, e)[v] <= Payment!Services(first, e)[v]
  BY SMT, <1>1, PaymentShows DEF OK, CRIT
<1> QED BY SMT, <1>2 DEF first

\* pressure() of torn readings of app-worker-01 is at most that of one of them,
LEMMA WorkerPressureTorn ==
    ASSUME NEW a \in Reading, NEW b \in Reading, NEW c \in Reading
    PROVE  LET torn == Worker!Pressure(a.deg, b.brk, c.brk)
           IN  \/ torn <= Worker!Pressure(a.deg, a.brk, a.brk)
               \/ torn <= Worker!Pressure(b.deg, b.brk, b.brk)
               \/ torn <= Worker!Pressure(c.deg, c.brk, c.brk)
<1>1. a.deg \in Ages /\ a.brk \in Ages /\ b.deg \in Ages /\ b.brk \in Ages /\ c.deg \in Ages /\ c.brk \in Ages
  BY SMT DEF Reading
<1> DEFINE crumb(deg) == (78 * (IF deg <= 0 THEN 0 ELSE Least(100, (100 * deg) \div 18))) \div 100
           broke(brk) == 78 + ((22 * Ramp(brk, 40)) \div 100)
<1>2. \A deg, brk, later : Worker!Pressure(deg, brk, later) = IF brk > 0 THEN Most(crumb(deg), broke(later)) ELSE crumb(deg)
  BY SMT DEF Worker!Pressure, Worker!Climb, Worker!Ramp, Worker!Least, Worker!Most, Ramp, Least, Most,
     Worker!LEAK_FILL_MIN, Worker!BREAK_RAMP
<1>3. \A deg \in Ages : crumb(deg) \in Int
  BY SMT, HostsAssumption DEF Least, Ages, None
<1>4. \A brk \in Ages : broke(brk) \in Int /\ broke(brk) >= 78 /\ (brk <= 0 => broke(brk) = 78)
  BY SMT, HostsAssumption DEF Ramp, Least, Ages, None
<1> HIDE DEF crumb, broke
<1> QED BY SMT, <1>1, <1>2, <1>3, <1>4, HostsAssumption DEF Most, Ages, None

\* and so is its level;
LEMMA WorkerTorn ==
    ASSUME NEW e \in Noise, NEW r \in [1..7 -> Reading], NEW q,
           \A i \in 1..7 : q[i] \in [1..7 -> Reading] /\ \A j \in 1..7 : q[i][j] = r[i]
    PROVE  \A v \in DOMAIN Worker!Services(r, e) : \E i \in 1..7 : Worker!Services(r, e)[v] <= Worker!Services(q[i], e)[v]
<1>1. \A i \in 1..7 : r[i] \in Reading /\ q[i][1] = r[i] /\ q[i][2] = r[i] /\ q[i][3] = r[i] /\ q[i][4] = r[i]
  BY SMT
<1>2. \A i \in 1..7 : Worker!P(q[i]) = Worker!Pressure(r[i].deg, r[i].brk, r[i].brk)
  BY SMT, <1>1 DEF Worker!P
<1>3. Worker!P(r) = Worker!Pressure(r[2].deg, r[3].brk, r[4].brk)
  BY SMT DEF Worker!P
<1>4. \/ Worker!P(r) <= Worker!P(q[2])
      \/ Worker!P(r) <= Worker!P(q[3])
      \/ Worker!P(r) <= Worker!P(q[4])
  <2>1. r[2] \in Reading /\ r[3] \in Reading /\ r[4] \in Reading
    BY SMT
  <2>2. /\ Worker!P(q[2]) = Worker!Pressure(r[2].deg, r[2].brk, r[2].brk)
        /\ Worker!P(q[3]) = Worker!Pressure(r[3].deg, r[3].brk, r[3].brk)
        /\ Worker!P(q[4]) = Worker!Pressure(r[4].deg, r[4].brk, r[4].brk)
    BY SMT, <1>2
  <2> QED BY SMT, <1>3, <2>1, <2>2, WorkerPressureTorn
<1>5. PICK i \in 1..7 : Worker!P(r) <= Worker!P(q[i])
  BY SMT, <1>4
<1>6. q[i] \in [1..7 -> Reading]
  BY SMT, <1>5
<1>7. Worker!Services(r, e)["Memory"] <= Worker!Services(q[i], e)["Memory"]
  <2>1. Worker!MemoryLevel(Worker!Memory(r, e)) <= Worker!MemoryLevel(Worker!Memory(q[i], e))
    BY SMT, <1>5, <1>6, WorkerMemoryRises
  <2> QED BY SMT, <1>6, <2>1, WorkerShows
<1>8. /\ DOMAIN Worker!Services(r, e) = {"Load", "Memory", "Disks", "Units"}
      /\ \A v \in {"Load", "Disks"} : Worker!Services(r, e)[v] <= Worker!Services(q[i], e)[v]
  BY SMT, <1>6, WorkerShows DEF OK
<1>9. Worker!Services(r, e)["Units"] <= Worker!Services(q[1], e)["Units"]
  <2>1. q[1] \in [1..7 -> Reading] /\ q[1][1] = r[1]
    BY SMT
  <2> QED BY SMT, <2>1, WorkerShows DEF OK, CRIT
<1> QED BY SMT, <1>5, <1>7, <1>8, <1>9

\* fileserver-01;
LEMMA FilesTorn ==
    ASSUME NEW e \in Noise, NEW r \in [1..17 -> Reading], NEW q,
           \A i \in 1..17 : q[i] \in [1..17 -> Reading] /\ \A j \in 1..17 : q[i][j] = r[i]
    PROVE  \A v \in DOMAIN Files!Services(r, e) : \E i \in 1..17 : Files!Services(r, e)[v] <= Files!Services(q[i], e)[v]
<1> DEFINE torn == Files!Pressure(r[5].deg, r[6].brk, r[7].brk)
           fraction(x) == Files!SrvFraction(x, e)
<1>1. r[5] \in Reading /\ r[6] \in Reading /\ r[7] \in Reading
  BY SMT
<1>2. /\ r[5].deg \in Ages /\ r[6].brk \in Ages /\ r[7].brk \in Ages /\ r[5].brk \in Ages
      /\ r[6].deg \in Ages /\ r[7].deg \in Ages
  BY SMT, <1>1, ReadingFields
<1>3. \/ torn <= Files!Pressure(r[5].deg, r[5].brk, r[5].brk)
      \/ torn <= Files!Pressure(r[6].deg, r[6].brk, r[6].brk)
      \/ torn <= Files!Pressure(r[7].deg, r[7].brk, r[7].brk)
  BY SMT, <1>1, FilesPressureTorn
<1>4. PICK i \in 5..7 : torn <= Files!Pressure(r[i].deg, r[i].brk, r[i].brk)
  BY SMT, <1>3
<1> DEFINE pure == Files!Pressure(r[i].deg, r[i].brk, r[i].brk)
           p    == q[i]
<1>5. p \in [1..17 -> Reading] /\ p[5] = r[i] /\ p[6] = r[i] /\ p[7] = r[i]
  BY SMT, <1>4
<1>6. Within(torn, 0, 100) /\ Within(pure, 0, 100)
  <2>1. r[i].deg \in Ages /\ r[i].brk \in Ages
    BY SMT, <1>2, <1>4
  <2> QED BY SMT, <1>2, <2>1, FilesPressure
<1> HIDE DEF p
<1>7. Files!Services(p, e)["Story"] = Level((209 * fraction(pure)) \div 20971, 80, 90)
  BY SMT, <1>5, FilesShows
<1>8. Files!Services(r, e)["Story"] = Level((209 * fraction(torn)) \div 20971, 80, 90)
  BY SMT, FilesShows
<1> HIDE DEF pure, torn
<1>9. fraction(torn) <= fraction(pure) /\ Within(fraction(torn), 5000, 9950) /\ Within(fraction(pure), 5000, 9950)
  BY SMT, <1>4, <1>6, FilesFraction, FilesFractionRises DEF pure
<1> HIDE DEF fraction
<1>10. Level((209 * fraction(torn)) \div 20971, 80, 90) <= Level((209 * fraction(pure)) \div 20971, 80, 90)
  BY SMT, <1>9 DEF Within, Level, OK, WARN, CRIT
<1>11. \A v \in DOMAIN Files!Services(r, e) : Files!Services(r, e)[v] <= Files!Services(p, e)[v]
  BY SMT, <1>5, <1>7, <1>8, <1>10, FilesShows DEF OK
<1> QED BY SMT, <1>4, <1>11 DEF p

\* mail-relay-01;
LEMMA MailTorn ==
    ASSUME NEW e \in Noise, NEW r \in [1..12 -> Reading], NEW q,
           \A i \in 1..12 : q[i] \in [1..12 -> Reading] /\ \A j \in 1..12 : q[i][j] = r[i]
    PROVE  \A v \in DOMAIN Mail!Services(r, e) : \E i \in 1..12 : Mail!Services(r, e)[v] <= Mail!Services(q[i], e)[v]
<1> DEFINE p2 == q[2]
           p3 == q[3]
           torn   == Mail!DeferredCount(r[2].deg, r[3].brk, r[4].brk, e)
           second == Mail!DeferredCount(r[2].deg, r[2].brk, r[2].brk, e)
           third  == Mail!DeferredCount(r[3].deg, r[3].brk, r[3].brk, e)
<1>1. /\ p2 \in [1..12 -> Reading] /\ p2[2] = r[2] /\ p2[3] = r[2] /\ p2[4] = r[2]
      /\ p3 \in [1..12 -> Reading] /\ p3[2] = r[3] /\ p3[3] = r[3] /\ p3[4] = r[3]
      /\ r[2] \in Reading /\ r[3] \in Reading /\ r[4] \in Reading
  BY SMT
<1> HIDE DEF p2, p3
<1>2. /\ Mail!Services(p2, e)["Story"] = Level(second, 10, 20)
      /\ Mail!Services(p3, e)["Story"] = Level(third, 10, 20)
      /\ Mail!Services(r, e)["Story"] = Level(torn, 10, 20)
  BY SMT, <1>1, MailShows
<1>4. /\ r[2].deg \in Ages /\ r[2].brk \in Ages /\ r[3].deg \in Ages /\ r[3].brk \in Ages /\ r[4].brk \in Ages
      /\ r[2].brk \in Int /\ r[3].brk \in Int
  BY SMT, <1>1, ReadingFields
<1>5. /\ Within(torn, 0, 346000) /\ Within(second, 0, 346000) /\ Within(third, 0, 346000)
      /\ r[3].brk > 0 => third >= 20
      /\ r[2].brk > 0 => second >= 20
      /\ r[2].brk <= 0 => second = Mail!DeferredCount(r[2].deg, None, None, e)
      /\ r[3].brk <= 0 => torn = Mail!DeferredCount(r[2].deg, None, None, e)
  BY SMT, <1>4, MailCount
<1> HIDE DEF torn, second, third
<1>6. \/ Level(torn, 10, 20) <= Level(second, 10, 20)
      \/ Level(torn, 10, 20) <= Level(third, 10, 20)
  BY SMT, <1>4, <1>5 DEF Within, Level, OK, WARN, CRIT
<1>7. CASE Level(torn, 10, 20) <= Level(second, 10, 20)
  <2>1. \A v \in DOMAIN Mail!Services(r, e) : Mail!Services(r, e)[v] <= Mail!Services(p2, e)[v]
    BY SMT, <1>1, <1>2, <1>7, MailShows DEF OK
  <2> QED BY SMT, <2>1 DEF p2
<1>8. CASE Level(torn, 10, 20) <= Level(third, 10, 20)
  <2>1. \A v \in DOMAIN Mail!Services(r, e) : Mail!Services(r, e)[v] <= Mail!Services(p3, e)[v]
    BY SMT, <1>1, <1>2, <1>8, MailShows DEF OK
  <2> QED BY SMT, <2>1 DEF p3
<1> QED BY SMT, <1>6, <1>7, <1>8

\* the memory level of app-redis-01, as a function of the two pressures it is
\* made of;
LEMMA RedisCommitted ==
    ASSUME NEW r \in [1..10 -> Reading], NEW e \in Noise
    PROVE  LET p == Redis!Pressure(r[5].deg, r[6].brk, r[7].brk)
               a == Redis!P(r)
           IN  Redis!MemoryLevel(Redis!Memory(r, e)) =
                   Level(GaugeFrac(Redis!Used(p, e) + GaugeFrac(6500000 - (41000 * a), 2, e)
                                   + GaugeFrac(240000, 3, e) + 3142160, 1, e), 12386300, 18579450)
<1> DEFINE a == Redis!P(r)
           p == Redis!Pressure(r[5].deg, r[6].brk, r[7].brk)
           m == Redis!Memory(r, e)
           anon    == Redis!Rss(r, e) + 1350000
           cached  == Redis!GaugeFrac(Redis!Lerp(6500000, 2400000, a), 2, e)
           buffers == Redis!GaugeFrac(240000, 3, e)
           free    == Redis!Most(300000, 16384000 - anon - (cached + buffers + 412160) - 700000)
           committed == Redis!GaugeFrac(anon + (cached + buffers + 412160) + 1200000, 1, e)
           said == GaugeFrac(Redis!Used(p, e) + GaugeFrac(6500000 - (41000 * a), 2, e) + GaugeFrac(240000, 3, e) + 3142160, 1, e)
<1>1. m = Meminfo(16384000, 4194300, 4194300, free, cached, buffers, 0, 412160, anon, 49152, committed, <<62, 34>>)
  BY SMT DEF Redis!Memory, Redis!Meminfo, Meminfo, a, Redis!Most, Most
<1>2. /\ anon = Redis!Used(p, e) + 1530000 /\ Within(anon, 3900000, 7900000) /\ Within(Redis!Used(p, e), 2400000, 6291456)
      /\ Within(a, 0, 100)
  BY SMT, RedisDerived DEF Redis!Rss, Within
<1>3. Within(cached, 2300000, 6700000) /\ Within(buffers, 232800, 247200)
  BY SMT, RedisDerived DEF Redis!GaugeFrac, Redis!Lerp, Noise, Within
<1>4. cached = GaugeFrac(6500000 - (41000 * a), 2, e) /\ buffers = GaugeFrac(240000, 3, e)
  <2>1. Redis!Lerp(6500000, 2400000, a) = 6500000 - (41000 * a)
    BY SMT, <1>2 DEF Redis!Lerp, Within
  <2> QED BY SMT, <2>1 DEF Redis!GaugeFrac, GaugeFrac
<1> HIDE DEF a, p, m, anon, cached, buffers
<1>5. Within(free, 300000, 16384000) /\ (free = 300000 \/ free = 16384000 - anon - (cached + buffers + 412160) - 700000)
  BY SMT, <1>2, <1>3 DEF Redis!Most, Within
<1>6. Within(committed, 0, 17000000)
  BY SMT, <1>2, <1>3 DEF Redis!GaugeFrac, Noise, Within
<1>7. anon + (cached + buffers + 412160) + 1200000
        = Redis!Used(p, e) + GaugeFrac(6500000 - (41000 * a), 2, e) + GaugeFrac(240000, 3, e) + 3142160
  <2>1. /\ Redis!Used(p, e) \in Int /\ cached \in Int /\ buffers \in Int
    BY SMT, <1>2, <1>3 DEF Within
  <2>2. \A x, y, z \in Int : x + 1530000 + (y + z + 412160) + 1200000 = x + y + z + 3142160
    BY SMT
  <2>3. Redis!Used(p, e) + 1530000 + (cached + buffers + 412160) + 1200000 = Redis!Used(p, e) + cached + buffers + 3142160
    BY SMT, <2>1, <2>2
  <2> QED BY SMT, <2>3, <1>2, <1>4
<1>8. committed = said
  <2>1. \A x : Redis!GaugeFrac(x, 1, e) = GaugeFrac(x, 1, e)
    BY SMT DEF Redis!GaugeFrac, GaugeFrac
  <2> QED BY SMT, <1>7, <2>1
<1> HIDE DEF free, committed, said
<1>9. Redis!MemoryLevel(m) = Level(committed, 12386300, 18579450)
  BY SMT, <1>1, <1>2, <1>3, <1>5, <1>6
     DEF Redis!MemoryLevel, Meminfo, Redis!Most, Redis!Level, Level, Redis!Percent, Redis!MemUsed, Redis!Caches, Within,
         Redis!OK, Redis!WARN, Redis!CRIT, OK, WARN, CRIT
<1> QED BY SMT, <1>8, <1>9 DEF m, said, p, a

\* the later of them, torn, is at most the earlier one,
LEMMA RedisPressureTorn ==
    ASSUME NEW r \in [1..10 -> Reading], \A i, j \in 1..10 : i <= j => Follows(r[i], r[j])
    PROVE  Redis!Pressure(r[5].deg, r[6].brk, r[7].brk) <= Redis!P(r)
<1>1. /\ r[5].deg \in Ages /\ r[6].brk \in Ages /\ r[7].brk \in Ages
      /\ r[2].deg \in Ages /\ r[3].brk \in Ages /\ r[4].brk \in Ages
  BY SMT DEF Reading
<1>2. /\ r[5].deg > 0 => r[2].deg = r[5].deg
      /\ r[6].brk > 0 => r[3].brk = r[6].brk
      /\ r[7].brk > 0 => r[4].brk = r[7].brk
  BY SMT DEF Follows
<1> DEFINE crumb(deg) == (70 * (IF deg <= 0 THEN 0 ELSE Redis!Least(100, (100 * deg) \div 15))) \div 100
           burst(brk) == 70 + ((30 * Redis!Ramp(brk, 30)) \div 100)
<1>3. /\ Redis!Pressure(r[5].deg, r[6].brk, r[7].brk) =
          IF r[6].brk > 0 THEN Redis!Most(crumb(r[5].deg), burst(r[7].brk)) ELSE crumb(r[5].deg)
      /\ Redis!P(r) = IF r[3].brk > 0 THEN Redis!Most(crumb(r[2].deg), burst(r[4].brk)) ELSE crumb(r[2].deg)
  BY SMTT(60) DEF Redis!P, Redis!Pressure, Redis!Climb, Redis!LEAK_FILL_MIN, Redis!BREAK_RAMP
<1>4. \A d \in Ages : crumb(d) \in Int /\ crumb(d) >= 0 /\ (d <= 0 => crumb(d) = 0)
  BY SMTT(60), HostsAssumption DEF Redis!Least, Ages, None
<1>5. \A b \in Ages : burst(b) \in Int /\ burst(b) >= 70 /\ (b <= 0 => burst(b) = 70)
  BY SMTT(60), HostsAssumption DEF Redis!Ramp, Redis!Least, Ages, None
<1> HIDE DEF crumb, burst
<1>6. r[5].deg \in Int /\ r[7].brk \in Int
  BY SMT, <1>1, HostsAssumption DEF Ages, None
<1>7. crumb(r[5].deg) \in Int /\ crumb(r[2].deg) \in Int /\ crumb(r[5].deg) <= crumb(r[2].deg)
  <2>1. CASE r[5].deg > 0
    BY SMT, <2>1, <1>1, <1>2, <1>4
  <2>2. CASE r[5].deg <= 0
    BY SMT, <2>2, <1>1, <1>4
  <2> QED BY SMT, <2>1, <2>2, <1>6
<1>8. burst(r[7].brk) \in Int /\ burst(r[4].brk) \in Int /\ burst(r[7].brk) <= burst(r[4].brk)
  <2>1. CASE r[7].brk > 0
    BY SMT, <2>1, <1>1, <1>2, <1>5
  <2>2. CASE r[7].brk <= 0
    BY SMT, <2>2, <1>1, <1>5
  <2> QED BY SMT, <2>1, <2>2, <1>6
<1>9. r[6].brk > 0 => r[3].brk > 0
  BY SMT, <1>2
<1> QED BY SMT, <1>3, <1>7, <1>8, <1>9 DEF Redis!Most

\* The pressure of app-redis-01 before it is broken.
LEMMA RedisCalm ==
    \A d \in Ages : \A b : ~(b > 0) =>
        Within(Redis!Pressure(d, b, b), 0, 70) /\ (Redis!Pressure(d, b, b) <= 65 \/ Redis!Pressure(d, b, b) = 70)
<1>1. \A d, b : ~(b > 0) => Redis!Pressure(d, b, b) =
          (70 * (IF d <= 0 THEN 0 ELSE Redis!Least(100, (100 * d) \div 15))) \div 100
  BY SMT DEF Redis!Pressure, Redis!Climb, Redis!LEAK_FILL_MIN
<1>2. \A d \in Int : d <= 14 => Within((70 * (IF d <= 0 THEN 0 ELSE Redis!Least(100, (100 * d) \div 15))) \div 100, 0, 65)
  BY SMT DEF Redis!Least, Within
<1>3. \A d \in Int : d >= 15 => (70 * (IF d <= 0 THEN 0 ELSE Redis!Least(100, (100 * d) \div 15))) \div 100 = 70
  BY SMTT(60) DEF Redis!Least
<1>4. \A d \in Ages : d \in Int /\ (d <= 14 \/ d >= 15)
  BY SMT, HostsAssumption DEF Ages, None
<1>5. \A d \in Ages : Within((70 * (IF d <= 0 THEN 0 ELSE Redis!Least(100, (100 * d) \div 15))) \div 100, 0, 70)
  BY SMT, <1>2, <1>3, <1>4 DEF Within
<1> QED BY SMTT(60), <1>1, <1>2, <1>3, <1>4, <1>5 DEF Within

\* so a torn answer of app-redis-01 is no worse than one of its stories;
LEMMA RedisTorn ==
    ASSUME NEW e \in Noise, NEW r \in [1..10 -> Reading], NEW q,
           \A i \in 1..10 : q[i] \in [1..10 -> Reading] /\ \A j \in 1..10 : q[i][j] = r[i],
           \A i \in 1..10 : r[i].brk <= r[i].deg /\ (r[i].state = "broken" <=> r[i].brk # None),
           \A i, j \in 1..10 : i <= j => Follows(r[i], r[j])
    PROVE  \A v \in DOMAIN Redis!Services(r, e) : \E i \in 1..10 : Redis!Services(r, e)[v] <= Redis!Services(q[i], e)[v]
<1>1. Redis!Services(r, e)["Story"] <= Redis!Services(q[10], e)["Story"]
  <2>1. /\ q[10] \in [1..10 -> Reading] /\ q[10][1] = r[10] /\ q[10][10] = r[10]
        /\ (r[10].state = "broken" <=> r[10].brk # None)
    BY SMTT(30)
  <2> QED BY SMTT(30), <2>1, RedisShows DEF OK, WARN, None
<1>2. \A v \in {"Load", "Disks", "Units"} : Redis!Services(r, e)[v] <= Redis!Services(q[10], e)[v]
  <2>1. q[10] \in [1..10 -> Reading]
    BY SMTT(60)
  <2> QED BY SMTT(30), <2>1, RedisShows DEF OK
<1>3. \E i \in 1..10 : Redis!Services(r, e)["Memory"] <= Redis!Services(q[i], e)["Memory"]
  <2>1. CASE e.d = -1
    <3> DEFINE p == Redis!Pressure(r[5].deg, r[6].brk, r[7].brk)
               a == Redis!P(r)
    <3>1. Within(p, 0, 100) /\ Within(a, 0, 100) /\ p <= a
      BY SMTT(30), RedisPressureTorn, RedisDerived
    <3>2. Redis!MemoryLevel(Redis!Memory(r, e)) =
              Level(GaugeFrac(Redis!Used(p, e) + GaugeFrac(6500000 - (41000 * a), 2, e)
                              + GaugeFrac(240000, 3, e) + 3142160, 1, e), 12386300, 18579450)
      BY SMTT(30), RedisCommitted
    <3> HIDE DEF p, a
    <3>3. Redis!MemoryLevel(Redis!Memory(r, e)) = OK
      BY SMTT(30), <2>1, <3>1, <3>2 DEF Level, GaugeFrac, Redis!Used, Redis!GaugeFrac, Redis!Least, Redis!Lerp, Redis!REDIS_MAXMEMORY, Within
    <3>4. q[1] \in [1..10 -> Reading]
      BY SMTT(30)
    <3> QED BY SMTT(60), <3>3, <3>4, RedisShows DEF OK, WARN
  <2>2. CASE e.d = 1 /\ \E k \in 1..10 : r[k].brk <= 0
    <3>1. PICK k \in 1..10 : r[k].brk <= 0
      BY SMTT(30), <2>2
    <3> DEFINE pure == q[k]
    <3>2. pure \in [1..10 -> Reading] /\ \A j \in 1..10 : pure[j] = r[k]
      BY SMTT(30), <3>1
    <3> HIDE DEF pure
    <3> DEFINE a == Redis!P(pure)
    <3>3. Within(a, 0, 70) /\ (a <= 65 \/ a = 70) /\ Redis!Pressure(pure[5].deg, pure[6].brk, pure[7].brk) = a
      <4>1. r[k] \in Reading
        BY SMTT(30), <3>1
      <4>2. r[k].deg \in Ages
        BY SMTT(30), <4>1, ReadingFields
      <4>3. /\ pure[2] = r[k] /\ pure[3] = r[k] /\ pure[4] = r[k] /\ pure[5] = r[k] /\ pure[6] = r[k] /\ pure[7] = r[k]
            /\ ~(r[k].brk > 0)
        <5>1. r[k].brk \in Int
          BY SMTT(30), <4>1, ReadingFields
        <5> QED BY SMTT(30), <3>1, <3>2, <5>1
      <4>4. \A d \in Ages : \A b : ~(b > 0) =>
               Within(Redis!Pressure(d, b, b), 0, 70) /\ (Redis!Pressure(d, b, b) <= 65 \/ Redis!Pressure(d, b, b) = 70)
        BY SMTT(30), RedisCalm
      <4>5. a = Redis!Pressure(r[k].deg, r[k].brk, r[k].brk)
        BY SMTT(30), <4>3 DEF Redis!P
      <4>6. Redis!Pressure(pure[5].deg, pure[6].brk, pure[7].brk) = a
        BY SMTT(30), <4>3, <4>5
      <4> QED BY SMTT(30), <4>2, <4>3, <4>4, <4>5, <4>6
    <3>4. Redis!MemoryLevel(Redis!Memory(pure, e)) =
              Level(GaugeFrac(Redis!Used(a, e) + GaugeFrac(6500000 - (41000 * a), 2, e)
                              + GaugeFrac(240000, 3, e) + 3142160, 1, e), 12386300, 18579450)
      BY SMTT(30), <3>2, <3>3, RedisCommitted
    <3> HIDE DEF a
    <3>5. Redis!MemoryLevel(Redis!Memory(pure, e)) = WARN
      <4> DEFINE u == Redis!Lerp(40, 100, a)
                 b == 62914 * u
                 c == 6500000 - (41000 * a)
                 rest == GaugeFrac(240000, 3, e)
                 most == Redis!Used(a, e)
                 sum  == most + GaugeFrac(c, 2, e) + rest + 3142160
      <4>1. u \in Int /\ 100 * u >= 3920 + (60 * a) /\ u <= 100 /\ (a = 70 => u = 82)
        BY SMTT(30), <3>3 DEF Redis!Lerp, Within
      <4>2. rest = 247200 /\ c \in Int /\ c = 6500000 - (41000 * a)
        BY SMTT(30), <2>2, <3>3 DEF GaugeFrac, Within
      <4>3. most = Redis!Least(6291456, Redis!GaugeFrac(b, 1, e))
        BY SMTT(30) DEF Redis!Used, Redis!REDIS_MAXMEMORY
      <4>4. GaugeFrac(c, 2, e) = c + ((c \div 100) * 2)
        BY SMTT(30), <2>2, <4>2 DEF GaugeFrac
      <4> HIDE DEF u, rest, most
      <4>5. b \in Int /\ 100 * b >= 246622880 + (3774840 * a) /\ b <= 6291400 /\ (a = 70 => b = 5158948)
        BY SMTT(30), <3>3, <4>1 DEF Within
      <4> HIDE DEF b
      <4>6. Redis!GaugeFrac(b, 1, e) = b + (b \div 100)
        BY SMTT(30), <2>2, <4>5 DEF Redis!GaugeFrac
      <4>7. most \in Int /\ most <= 6291456
            /\ (100 * most >= 249088900 + (3812500 * a)) /\ (a = 70 => most >= 5210000)
        BY SMTT(30), <3>3, <4>3, <4>5, <4>6 DEF Redis!Least, Within
      <4> HIDE DEF c
      <4>8. sum \in Int /\ 12264500 <= sum /\ sum <= 16500000
        BY SMTT(30), <3>3, <4>2, <4>4, <4>7 DEF Within
      <4> HIDE DEF sum
      <4>9. GaugeFrac(sum, 1, e) = sum + (sum \div 100)
        BY SMTT(30), <2>2, <4>8 DEF GaugeFrac
      <4>10. Level(GaugeFrac(sum, 1, e), 12386300, 18579450) = WARN
        BY SMTT(30), <4>8, <4>9 DEF Level, WARN
      <4> QED BY SMTT(30), <3>4, <4>10 DEF sum, most, c, rest
    <3>6. Redis!Services(r, e)["Memory"] <= Redis!Services(pure, e)["Memory"]
      BY SMTT(30), <3>2, <3>5, RedisShows DEF OK, WARN
    <3> QED BY SMTT(30), <3>1, <3>6 DEF pure
  <2>3. CASE e.d = 1 /\ \A k \in 1..10 : r[k].brk > 0
    <3> DEFINE pure == q[1]
    <3>1. \A k \in 1..10 : r[k].deg > 0
      <4>1. \A k \in 1..10 : r[k].deg \in Int /\ r[k].brk \in Int
        BY SMTT(30), ReadingFields
      <4> QED BY SMTT(30), <2>3, <4>1
    <3>2. \A k \in 1..10 : r[k].deg = r[1].deg /\ r[k].brk = r[1].brk
      BY SMTT(30), <2>3, <3>1 DEF Follows
    <3>3. pure \in [1..10 -> Reading] /\ \A j \in 1..10 : pure[j] = r[1]
      BY SMTT(30)
    <3> HIDE DEF pure
    <3>4. /\ Redis!P(r) = Redis!P(pure)
          /\ Redis!Pressure(r[5].deg, r[6].brk, r[7].brk) = Redis!Pressure(pure[5].deg, pure[6].brk, pure[7].brk)
      BY SMTT(30), <3>2, <3>3 DEF Redis!P
    <3>5. Redis!MemoryLevel(Redis!Memory(r, e)) = Redis!MemoryLevel(Redis!Memory(pure, e))
      BY SMTT(30), <3>3, <3>4, RedisCommitted
    <3>6. Redis!Services(r, e)["Memory"] <= Redis!Services(pure, e)["Memory"]
      BY SMTT(30), <3>3, <3>5, RedisShows DEF OK, WARN
    <3> QED BY SMTT(30), <3>6 DEF pure
  <2>4. \A k \in 1..10 : r[k].brk \in Int
    BY SMTT(30), ReadingFields
  <2>5. (\E k \in 1..10 : r[k].brk <= 0) \/ \A k \in 1..10 : r[k].brk > 0
    BY SMTT(30), <2>4
  <2> QED BY SMTT(30), <2>1, <2>2, <2>3, <2>5 DEF Noise
<1>4. DOMAIN Redis!Services(r, e) = {"Memory", "Load", "Disks", "Units", "Story"}
  BY SMTT(30), RedisShows
<1> QED BY SMTT(30), <1>1, <1>2, <1>3, <1>4

\* db-postgres-01;
LEMMA PrimaryTorn ==
    ASSUME NEW e \in Noise, NEW r \in [1..14 -> Reading], NEW q,
           \A i \in 1..14 : q[i] \in [1..14 -> Reading] /\ \A j \in 1..14 : q[i][j] = r[i],
           \A i \in 1..14 : r[i].brk <= r[i].deg
    PROVE  \A v \in DOMAIN Primary!Services(r, e) : \E i \in 1..14 : Primary!Services(r, e)[v] <= Primary!Services(q[i], e)[v]
<1> DEFINE load(x) == LoadOf(Lerp(85, 4400, Ramp(x.brk, 40)), 100, 6, e)
           heat(x) == ((IF x.deg <= 0 THEN 300 ELSE 300 + Least(80, 14 * x.deg)) + (13 * e.d) + 5) \div 10
<1>1. /\ q[6] \in [1..14 -> Reading] /\ q[6][6] = r[6]
      /\ q[9] \in [1..14 -> Reading] /\ q[9][9] = r[9]
      /\ q[10] \in [1..14 -> Reading] /\ q[10][9] = r[10] /\ q[10][10] = r[10]
      /\ r[10] \in Reading /\ r[6] \in Reading /\ r[9] \in Reading /\ r[10].brk <= r[10].deg
  BY SMT
<1>2. /\ Primary!Services(r, e)["Load"] = Level(load(r[6]), 2000, 4000)
      /\ Primary!Services(r, e)["Temperature"] = Level(heat(r[9]), 35, 40)
      /\ Primary!Services(r, e)["Smart"] = IF r[9].deg > 0 /\ r[10].brk > 8 THEN CRIT ELSE OK
  BY SMT, PrimaryShows
<1>3. Primary!Services(q[6], e)["Load"] = Level(load(r[6]), 2000, 4000)
  BY SMT, <1>1, PrimaryShows
<1>4. Primary!Services(q[9], e)["Temperature"] = Level(heat(r[9]), 35, 40)
  BY SMT, <1>1, PrimaryShows
<1>5. Primary!Services(q[10], e)["Smart"] = IF r[10].deg > 0 /\ r[10].brk > 8 THEN CRIT ELSE OK
  BY SMT, <1>1, PrimaryShows
<1> HIDE DEF load, heat
<1>6. \A x : Level(x, 2000, 4000) \in Int /\ Level(x, 35, 40) \in Int
  BY SMT DEF Level, OK, WARN, CRIT
<1>7. Primary!Services(r, e)["Load"] <= Primary!Services(q[6], e)["Load"]
  BY SMT, <1>2, <1>3, <1>6
<1>8. Primary!Services(r, e)["Temperature"] <= Primary!Services(q[9], e)["Temperature"]
  BY SMT, <1>2, <1>4, <1>6
<1>9. Primary!Services(r, e)["Smart"] <= Primary!Services(q[10], e)["Smart"]
  <2>1. r[10].deg \in Int /\ r[10].brk \in Int
    BY SMT, <1>1, ReadingFields
  <2> QED BY SMT, <1>1, <1>2, <1>5, <2>1 DEF OK, CRIT
<1>10. /\ DOMAIN Primary!Services(r, e) = {"Memory", "Disks", "Units", "Load", "Temperature", "Smart", "Story"}
       /\ \A v \in {"Memory", "Disks", "Units", "Story"} : Primary!Services(r, e)[v] <= Primary!Services(q[6], e)[v]
  BY SMT, <1>1, PrimaryShows DEF OK
<1> QED BY SMT, <1>7, <1>8, <1>9, <1>10

\* db-postgres-02;
LEMMA ReplicaTorn ==
    ASSUME NEW e \in Noise, NEW r \in [1..4 -> Reading], NEW q,
           \A i \in 1..4 : q[i] \in [1..4 -> Reading] /\ \A j \in 1..4 : q[i][j] = r[i],
           \A i \in 1..4 : r[i].brk <= r[i].deg,
           \A i, j \in 1..4 : i <= j => Follows(r[i], r[j])
    PROVE  \A v \in DOMAIN Replica!Services(r, e) : \E i \in 1..4 : Replica!Services(r, e)[v] <= Replica!Services(q[i], e)[v]
<1> DEFINE idle(x) == Replica!ConnectionCounts(x, e).idle
<1>1. /\ q[2] \in [1..4 -> Reading] /\ q[2][2] = r[2] /\ q[2][3] = r[2]
      /\ q[3] \in [1..4 -> Reading] /\ q[3][2] = r[3] /\ q[3][3] = r[3]
      /\ r[2] \in Reading /\ r[3] \in Reading /\ r[3].brk <= r[3].deg /\ Follows(r[2], r[3])
  BY SMT
<1>2. r[2].deg \in Int /\ r[3].deg \in Int /\ r[3].brk \in Int
  BY SMT, <1>1, ReadingFields
<1>3. PICK i \in {2, 3} : idle(r) <= idle(q[i])
  <2>1. CASE r[3].brk <= 0
    <3>1. r[2].deg <= q[2][2].deg
      BY SMT, <1>1, <1>2
    <3>2. idle(r) <= idle(q[2])
      BY SMT, <1>1, <2>1, <3>1, ReplicaIdleRises
    <3> QED BY SMT, <3>2
  <2>2. CASE r[3].brk > 0
    <3>1. r[2].deg <= q[3][2].deg /\ r[3].brk <= q[3][3].brk
      BY SMT, <1>1, <1>2, <2>2 DEF Follows
    <3>2. idle(r) <= idle(q[3])
      BY SMT, <1>1, <3>1, ReplicaIdleRises
    <3> QED BY SMT, <3>2
  <2> QED BY SMT, <1>2, <2>1, <2>2
<1> DEFINE p == q[i]
<1>4. p \in [1..4 -> Reading] /\ idle(r) <= idle(p)
  BY SMT, <1>1, <1>3
<1> HIDE DEF p
<1>5. Within(idle(r), 20, 191) /\ Within(idle(p), 20, 191)
  BY SMT, <1>4, ReplicaCounts
<1>6. /\ Replica!Services(r, e)["Story"] = Level((100 * idle(r)) \div 200, 80, 90)
      /\ Replica!Services(p, e)["Story"] = Level((100 * idle(p)) \div 200, 80, 90)
  BY SMT, <1>4, ReplicaShows
<1> HIDE DEF idle
<1>7. Replica!Services(r, e)["Story"] <= Replica!Services(p, e)["Story"]
  BY SMT, <1>4, <1>5, <1>6 DEF Within, Level, OK, WARN, CRIT
<1>8. \A v \in DOMAIN Replica!Services(r, e) : Replica!Services(r, e)[v] <= Replica!Services(p, e)[v]
  BY SMT, <1>4, <1>7, ReplicaShows DEF OK
<1> QED BY SMT, <1>3, <1>8 DEF p

\* win-dc-01.
LEMMA WindowsTorn ==
    ASSUME NEW e \in Noise, NEW r \in [1..9 -> Reading], NEW q,
           \A i \in 1..9 : q[i] \in [1..9 -> Reading] /\ \A j \in 1..9 : q[i][j] = r[i]
    PROVE  \A v \in DOMAIN Windows!Services(r, e) : \E i \in 1..9 : Windows!Services(r, e)[v] <= Windows!Services(q[i], e)[v]
<1> DEFINE p5 == q[5]
           p6 == q[6]
           p8 == q[8]
<1>1. /\ p5 \in [1..9 -> Reading] /\ p5[5] = r[5]
      /\ p6 \in [1..9 -> Reading] /\ p6[6] = r[6] /\ p6[8] = r[6]
      /\ p8 \in [1..9 -> Reading] /\ p8[6] = r[8] /\ p8[8] = r[8]
  BY SMT
<1> HIDE DEF p5, p6, p8
<1>2. Windows!Services(r, e)["Story"] = Windows!Services(p5, e)["Story"]
  BY SMT, <1>1, WindowsShows
<1>3. Windows!Services(p5, e)["Story"] \in Int
  <2>1. \A x : Level(x, 80, 90) \in Int
    BY SMT DEF Level, OK, WARN, CRIT
  <2> QED BY SMT, <1>1, <2>1, WindowsShows
<1>4. \/ Windows!Services(r, e)["Backup"] <= Windows!Services(p6, e)["Backup"]
      \/ Windows!Services(r, e)["Backup"] <= Windows!Services(p8, e)["Backup"]
  BY SMT, <1>1, WindowsShows DEF OK, CRIT
<1>5. /\ DOMAIN Windows!Services(r, e) = {"Memory", "Disks", "Backup", "Load", "Story"}
      /\ \A v \in {"Memory", "Disks", "Load"} : Windows!Services(r, e)[v] <= Windows!Services(p5, e)[v]
  BY SMT, <1>1, WindowsShows DEF OK
<1>6. Windows!Services(r, e)["Story"] <= Windows!Services(p5, e)["Story"]
  BY SMT, <1>2, <1>3
<1> QED BY SMT, <1>4, <1>5, <1>6 DEF p5, p6, p8

\* The levels are levels, and the services of a host are always the same.
LEMMA AnswerLevels ==
    ASSUME NEW h \in HostNames, NEW r \in [1..ReadsOf[h] -> Reading], NEW q \in [1..ReadsOf[h] -> Reading], NEW e \in Noise
    PROVE  /\ \A v \in DOMAIN ServicesOf(h, r, e) : ServicesOf(h, r, e)[v] \in {0, 1, 2}
           /\ DOMAIN ServicesOf(h, q, e) = DOMAIN ServicesOf(h, r, e)
<1>1. \A x, low, high : Level(x, low, high) \in {0, 1, 2}
  BY SMT DEF Level, OK, WARN, CRIT
<1>2. CASE h = "app-redis-01"
  <2>1. r \in [1..10 -> Reading] /\ q \in [1..10 -> Reading]
    BY SMT, <1>2, ReadsAre
  <2>2. /\ \A v \in DOMAIN Redis!Services(r, e) : Redis!Services(r, e)[v] \in {0, 1, 2}
        /\ DOMAIN Redis!Services(q, e) = DOMAIN Redis!Services(r, e)
    BY SMT, <1>1, <2>1, RedisShows DEF OK, WARN, CRIT
  <2> QED BY SMT, <1>2, <2>2, AnswerOf
<1>3. CASE h = "app-worker-01"
  <2>1. r \in [1..7 -> Reading] /\ q \in [1..7 -> Reading]
    BY SMT, <1>3, ReadsAre
  <2>2. /\ \A v \in DOMAIN Worker!Services(r, e) : Worker!Services(r, e)[v] \in {0, 1, 2}
        /\ DOMAIN Worker!Services(q, e) = DOMAIN Worker!Services(r, e)
    BY SMT, <1>1, <2>1, WorkerShows, WorkerMemoryTold DEF OK, WARN, CRIT
  <2> QED BY SMT, <1>3, <2>2, AnswerOf
<1>4. CASE h = "fileserver-01"
  <2>1. r \in [1..17 -> Reading] /\ q \in [1..17 -> Reading]
    BY SMT, <1>4, ReadsAre
  <2>2. /\ \A v \in DOMAIN Files!Services(r, e) : Files!Services(r, e)[v] \in {0, 1, 2}
        /\ DOMAIN Files!Services(q, e) = DOMAIN Files!Services(r, e)
    BY SMT, <1>1, <2>1, FilesShows DEF OK, WARN, CRIT
  <2> QED BY SMT, <1>4, <2>2, AnswerOf
<1>5. CASE h = "mail-relay-01"
  <2>1. r \in [1..12 -> Reading] /\ q \in [1..12 -> Reading]
    BY SMT, <1>5, ReadsAre
  <2>2. /\ \A v \in DOMAIN Mail!Services(r, e) : Mail!Services(r, e)[v] \in {0, 1, 2}
        /\ DOMAIN Mail!Services(q, e) = DOMAIN Mail!Services(r, e)
    BY SMT, <1>1, <2>1, MailShows DEF OK, WARN, CRIT
  <2> QED BY SMT, <1>5, <2>2, AnswerOf
<1>6. CASE h = "db-postgres-01"
  <2>1. r \in [1..14 -> Reading] /\ q \in [1..14 -> Reading]
    BY SMT, <1>6, ReadsAre
  <2>2. /\ \A v \in DOMAIN Primary!Services(r, e) : Primary!Services(r, e)[v] \in {0, 1, 2}
        /\ DOMAIN Primary!Services(q, e) = DOMAIN Primary!Services(r, e)
    BY SMT, <1>1, <2>1, PrimaryShows DEF OK, WARN, CRIT
  <2> QED BY SMT, <1>6, <2>2, AnswerOf
<1>7. CASE h = "db-postgres-02"
  <2>1. r \in [1..4 -> Reading] /\ q \in [1..4 -> Reading]
    BY SMT, <1>7, ReadsAre
  <2>2. /\ \A v \in DOMAIN Replica!Services(r, e) : Replica!Services(r, e)[v] \in {0, 1, 2}
        /\ DOMAIN Replica!Services(q, e) = DOMAIN Replica!Services(r, e)
    BY SMT, <1>1, <2>1, ReplicaShows DEF OK, WARN, CRIT
  <2> QED BY SMT, <1>7, <2>2, AnswerOf
<1>8. CASE h = "payment-api"
  <2>1. r \in [1..4 -> Reading] /\ q \in [1..4 -> Reading]
    BY SMT, <1>8, ReadsAre
  <2>2. /\ \A v \in DOMAIN Payment!Services(r, e) : Payment!Services(r, e)[v] \in {0, 1, 2}
        /\ DOMAIN Payment!Services(q, e) = DOMAIN Payment!Services(r, e)
    BY SMT, <1>1, <2>1, PaymentShows DEF OK, WARN, CRIT
  <2> QED BY SMT, <1>8, <2>2, AnswerOf
<1>9. CASE h = "win-dc-01"
  <2>1. r \in [1..9 -> Reading] /\ q \in [1..9 -> Reading]
    BY SMT, <1>9, ReadsAre
  <2>2. /\ \A v \in DOMAIN Windows!Services(r, e) : Windows!Services(r, e)[v] \in {0, 1, 2}
        /\ DOMAIN Windows!Services(q, e) = DOMAIN Windows!Services(r, e)
    BY SMT, <1>1, <2>1, WindowsShows DEF OK, WARN, CRIT
  <2> QED BY SMT, <1>9, <2>2, AnswerOf
<1>10. CASE h = "web-frontend-01"
  <2>2. /\ \A v \in DOMAIN Frontend!Services(r, e) : Frontend!Services(r, e)[v] \in {0, 1, 2}
        /\ DOMAIN Frontend!Services(q, e) = DOMAIN Frontend!Services(r, e)
    BY SMT, FrontendShows DEF OK
  <2> QED BY SMT, <1>10, <2>2, AnswerOf
<1>11. CASE h = "backup-01"
  <2>2. /\ \A v \in DOMAIN Backup!Services(r, e) : Backup!Services(r, e)[v] \in {0, 1, 2}
        /\ DOMAIN Backup!Services(q, e) = DOMAIN Backup!Services(r, e)
    BY SMT, BackupShows DEF OK
  <2> QED BY SMT, <1>11, <2>2, AnswerOf
<1> QED BY SMT, <1>2, <1>3, <1>4, <1>5, <1>6, <1>7, <1>8, <1>9, <1>10, <1>11 DEF HostNames

\* The readings of an answer, and the answers that each of them would have made.
Pieces(n, r, q) ==
    /\ r \in [1..n -> Reading]
    /\ \A i \in 1..n : q[i] \in [1..n -> Reading] /\ \A j \in 1..n : q[i][j] = r[i]
    /\ \A i \in 1..n : r[i].brk <= r[i].deg /\ (r[i].state = "broken" <=> r[i].brk # None)
    /\ \A i, j \in 1..n : i <= j => Follows(r[i], r[j])

\* Whatever the host, no level of a torn answer is worse than all of those.
LEMMA AnswerTorn ==
    ASSUME NEW h \in HostNames \ Quiet, NEW e \in Noise, NEW r, NEW q, Pieces(ReadsOf[h], r, q)
    PROVE  \A v \in DOMAIN ServicesOf(h, r, e) : \E i \in 1..ReadsOf[h] : ServicesOf(h, r, e)[v] <= ServicesOf(h, q[i], e)[v]
<1>1. CASE h = "app-redis-01"
  <2>1. ReadsOf[h] = 10
    BY SMT, <1>1, ReadsAre
  <2>2. \A x : ServicesOf(h, x, e) = Redis!Services(x, e)
    BY SMT, <1>1, AnswerOf
  <2>3. Pieces(10, r, q)
    BY SMT, <2>1
  <2>4. r \in [1..10 -> Reading]
    BY Zenon, <2>3 DEF Pieces
  <2>5. \A i \in 1..10 : q[i] \in [1..10 -> Reading] /\ \A j \in 1..10 : q[i][j] = r[i]
    BY Zenon, <2>3 DEF Pieces
  <2>6. \A i \in 1..10 : r[i].brk <= r[i].deg /\ (r[i].state = "broken" <=> r[i].brk # None)
    BY Zenon, <2>3 DEF Pieces
  <2>7. \A i, j \in 1..10 : i <= j => Follows(r[i], r[j])
    BY Zenon, <2>3 DEF Pieces
  <2>8. \A v \in DOMAIN Redis!Services(r, e) : \E i \in 1..10 : Redis!Services(r, e)[v] <= Redis!Services(q[i], e)[v]
    BY Zenon, <2>4, <2>5, <2>6, <2>7, RedisTorn
  <2> QED BY SMT, <2>1, <2>2, <2>8
<1>2. CASE h = "app-worker-01"
  <2>1. ReadsOf[h] = 7
    BY SMT, <1>2, ReadsAre
  <2>2. \A x : ServicesOf(h, x, e) = Worker!Services(x, e)
    BY SMT, <1>2, AnswerOf
  <2>3. Pieces(7, r, q)
    BY SMT, <2>1
  <2>4. r \in [1..7 -> Reading]
    BY Zenon, <2>3 DEF Pieces
  <2>5. \A i \in 1..7 : q[i] \in [1..7 -> Reading] /\ \A j \in 1..7 : q[i][j] = r[i]
    BY Zenon, <2>3 DEF Pieces
  <2>6. \A i \in 1..7 : r[i].brk <= r[i].deg /\ (r[i].state = "broken" <=> r[i].brk # None)
    BY Zenon, <2>3 DEF Pieces
  <2>7. \A i, j \in 1..7 : i <= j => Follows(r[i], r[j])
    BY Zenon, <2>3 DEF Pieces
  <2>8. \A v \in DOMAIN Worker!Services(r, e) : \E i \in 1..7 : Worker!Services(r, e)[v] <= Worker!Services(q[i], e)[v]
    BY Zenon, <2>4, <2>5, <2>6, <2>7, WorkerTorn
  <2> QED BY SMT, <2>1, <2>2, <2>8
<1>3. CASE h = "fileserver-01"
  <2>1. ReadsOf[h] = 17
    BY SMT, <1>3, ReadsAre
  <2>2. \A x : ServicesOf(h, x, e) = Files!Services(x, e)
    BY SMT, <1>3, AnswerOf
  <2>3. Pieces(17, r, q)
    BY SMT, <2>1
  <2>4. r \in [1..17 -> Reading]
    BY Zenon, <2>3 DEF Pieces
  <2>5. \A i \in 1..17 : q[i] \in [1..17 -> Reading] /\ \A j \in 1..17 : q[i][j] = r[i]
    BY Zenon, <2>3 DEF Pieces
  <2>6. \A i \in 1..17 : r[i].brk <= r[i].deg /\ (r[i].state = "broken" <=> r[i].brk # None)
    BY Zenon, <2>3 DEF Pieces
  <2>7. \A i, j \in 1..17 : i <= j => Follows(r[i], r[j])
    BY Zenon, <2>3 DEF Pieces
  <2>8. \A v \in DOMAIN Files!Services(r, e) : \E i \in 1..17 : Files!Services(r, e)[v] <= Files!Services(q[i], e)[v]
    BY Zenon, <2>4, <2>5, <2>6, <2>7, FilesTorn
  <2> QED BY SMT, <2>1, <2>2, <2>8
<1>4. CASE h = "mail-relay-01"
  <2>1. ReadsOf[h] = 12
    BY SMT, <1>4, ReadsAre
  <2>2. \A x : ServicesOf(h, x, e) = Mail!Services(x, e)
    BY SMT, <1>4, AnswerOf
  <2>3. Pieces(12, r, q)
    BY SMT, <2>1
  <2>4. r \in [1..12 -> Reading]
    BY Zenon, <2>3 DEF Pieces
  <2>5. \A i \in 1..12 : q[i] \in [1..12 -> Reading] /\ \A j \in 1..12 : q[i][j] = r[i]
    BY Zenon, <2>3 DEF Pieces
  <2>6. \A i \in 1..12 : r[i].brk <= r[i].deg /\ (r[i].state = "broken" <=> r[i].brk # None)
    BY Zenon, <2>3 DEF Pieces
  <2>7. \A i, j \in 1..12 : i <= j => Follows(r[i], r[j])
    BY Zenon, <2>3 DEF Pieces
  <2>8. \A v \in DOMAIN Mail!Services(r, e) : \E i \in 1..12 : Mail!Services(r, e)[v] <= Mail!Services(q[i], e)[v]
    BY Zenon, <2>4, <2>5, <2>6, <2>7, MailTorn
  <2> QED BY SMT, <2>1, <2>2, <2>8
<1>5. CASE h = "db-postgres-01"
  <2>1. ReadsOf[h] = 14
    BY SMT, <1>5, ReadsAre
  <2>2. \A x : ServicesOf(h, x, e) = Primary!Services(x, e)
    BY SMT, <1>5, AnswerOf
  <2>3. Pieces(14, r, q)
    BY SMT, <2>1
  <2>4. r \in [1..14 -> Reading]
    BY Zenon, <2>3 DEF Pieces
  <2>5. \A i \in 1..14 : q[i] \in [1..14 -> Reading] /\ \A j \in 1..14 : q[i][j] = r[i]
    BY Zenon, <2>3 DEF Pieces
  <2>6. \A i \in 1..14 : r[i].brk <= r[i].deg /\ (r[i].state = "broken" <=> r[i].brk # None)
    BY Zenon, <2>3 DEF Pieces
  <2>7. \A i, j \in 1..14 : i <= j => Follows(r[i], r[j])
    BY Zenon, <2>3 DEF Pieces
  <2>8. \A v \in DOMAIN Primary!Services(r, e) : \E i \in 1..14 : Primary!Services(r, e)[v] <= Primary!Services(q[i], e)[v]
    BY Zenon, <2>4, <2>5, <2>6, <2>7, PrimaryTorn
  <2> QED BY SMT, <2>1, <2>2, <2>8
<1>6. CASE h = "db-postgres-02"
  <2>1. ReadsOf[h] = 4
    BY SMT, <1>6, ReadsAre
  <2>2. \A x : ServicesOf(h, x, e) = Replica!Services(x, e)
    BY SMT, <1>6, AnswerOf
  <2>3. Pieces(4, r, q)
    BY SMT, <2>1
  <2>4. r \in [1..4 -> Reading]
    BY Zenon, <2>3 DEF Pieces
  <2>5. \A i \in 1..4 : q[i] \in [1..4 -> Reading] /\ \A j \in 1..4 : q[i][j] = r[i]
    BY Zenon, <2>3 DEF Pieces
  <2>6. \A i \in 1..4 : r[i].brk <= r[i].deg /\ (r[i].state = "broken" <=> r[i].brk # None)
    BY Zenon, <2>3 DEF Pieces
  <2>7. \A i, j \in 1..4 : i <= j => Follows(r[i], r[j])
    BY Zenon, <2>3 DEF Pieces
  <2>8. \A v \in DOMAIN Replica!Services(r, e) : \E i \in 1..4 : Replica!Services(r, e)[v] <= Replica!Services(q[i], e)[v]
    BY Zenon, <2>4, <2>5, <2>6, <2>7, ReplicaTorn
  <2> QED BY SMT, <2>1, <2>2, <2>8
<1>7. CASE h = "payment-api"
  <2>1. ReadsOf[h] = 4
    BY SMT, <1>7, ReadsAre
  <2>2. \A x : ServicesOf(h, x, e) = Payment!Services(x, e)
    BY SMT, <1>7, AnswerOf
  <2>3. Pieces(4, r, q)
    BY SMT, <2>1
  <2>4. r \in [1..4 -> Reading]
    BY Zenon, <2>3 DEF Pieces
  <2>5. \A i \in 1..4 : q[i] \in [1..4 -> Reading] /\ \A j \in 1..4 : q[i][j] = r[i]
    BY Zenon, <2>3 DEF Pieces
  <2>6. \A i \in 1..4 : r[i].brk <= r[i].deg /\ (r[i].state = "broken" <=> r[i].brk # None)
    BY Zenon, <2>3 DEF Pieces
  <2>7. \A i, j \in 1..4 : i <= j => Follows(r[i], r[j])
    BY Zenon, <2>3 DEF Pieces
  <2>8. \A v \in DOMAIN Payment!Services(r, e) : \E i \in 1..4 : Payment!Services(r, e)[v] <= Payment!Services(q[i], e)[v]
    BY Zenon, <2>4, <2>5, <2>6, <2>7, PaymentTorn
  <2> QED BY SMT, <2>1, <2>2, <2>8
<1>8. CASE h = "win-dc-01"
  <2>1. ReadsOf[h] = 9
    BY SMT, <1>8, ReadsAre
  <2>2. \A x : ServicesOf(h, x, e) = Windows!Services(x, e)
    BY SMT, <1>8, AnswerOf
  <2>3. Pieces(9, r, q)
    BY SMT, <2>1
  <2>4. r \in [1..9 -> Reading]
    BY Zenon, <2>3 DEF Pieces
  <2>5. \A i \in 1..9 : q[i] \in [1..9 -> Reading] /\ \A j \in 1..9 : q[i][j] = r[i]
    BY Zenon, <2>3 DEF Pieces
  <2>6. \A i \in 1..9 : r[i].brk <= r[i].deg /\ (r[i].state = "broken" <=> r[i].brk # None)
    BY Zenon, <2>3 DEF Pieces
  <2>7. \A i, j \in 1..9 : i <= j => Follows(r[i], r[j])
    BY Zenon, <2>3 DEF Pieces
  <2>8. \A v \in DOMAIN Windows!Services(r, e) : \E i \in 1..9 : Windows!Services(r, e)[v] <= Windows!Services(q[i], e)[v]
    BY Zenon, <2>4, <2>5, <2>6, <2>7, WindowsTorn
  <2> QED BY SMT, <2>1, <2>2, <2>8
<1> QED BY SMT, <1>1, <1>2, <1>3, <1>4, <1>5, <1>6, <1>7, <1>8 DEF HostNames, Quiet

LEMMA StoryTorn == StoryInv => TornMild
<1> SUFFICES ASSUME StoryInv, Answered, NEW e \in Noise, NEW v \in DOMAIN ServicesOf(host, got, e), got # <<>>
             PROVE  ServicesOf(host, got, e)[v] <= Max({ServicesOf(host, Whole(x), e)[v] : x \in Range(got)})
  BY Zenon DEF TornMild
<1> DEFINE n == ReadsOf[host]
           q == [i \in 1..n |-> Whole(got[i])]
           worst == {ServicesOf(host, Whole(x), e)[v] : x \in Range(got)}
<1>1. host \in HostNames /\ n \in Nat /\ got \in [1..n -> Reading] /\ Len(got) = n
  BY SMT, AnswerWhole DEF StoryInv, Answered
<1>2. host \notin Quiet
  <2> SUFFICES ASSUME host \in Quiet PROVE FALSE
    BY SMT
  <2>1. Len(got) = 0 /\ got \in Seq(Reading)
    BY SMT, <1>1, ReadsAre DEF StoryInv, Quiet
  <2> QED BY SMT, <2>1
<1>3. Range(got) = {got[i] : i \in 1..n} /\ Range(got) \subseteq Reading
  BY SMT, <1>1 DEF Range
<1>4. \A x \in Reading : Whole(x) \in [1..n -> Reading] /\ \A j \in 1..n : Whole(x)[j] = x
  BY SMT DEF Whole
<1>5. \A i \in 1..n : got[i] \in Reading /\ q[i] = Whole(got[i])
  BY SMT, <1>1
<1>6. /\ \A i \in 1..n : got[i].brk <= got[i].deg /\ (got[i].state = "broken" <=> got[i].brk # None)
      /\ \A i, j \in 1..n : i <= j => Follows(got[i], got[j])
  <2>1. DOMAIN got = 1..n
    BY SMT, <1>1
  <2>2. /\ \A i \in DOMAIN got : Consistent(got[i])
        /\ \A i, j \in DOMAIN got : i <= j => Follows(got[i], got[j])
    BY SMT DEF StoryInv
  <2> QED BY SMT, <2>1, <2>2 DEF Consistent
<1> HIDE DEF q, n
<1>7. ASSUME NEW i \in 1..n
      PROVE  q[i] \in [1..n -> Reading] /\ \A j \in 1..n : q[i][j] = got[i]
  <2>1. got[i] \in Reading /\ q[i] = Whole(got[i])
    BY Zenon, <1>5
  <2>2. Whole(got[i]) \in [1..n -> Reading] /\ \A j \in 1..n : Whole(got[i])[j] = got[i]
    BY Zenon, <1>4, <2>1
  <2> QED BY Zenon, <2>1, <2>2
<1>8. PICK i \in 1..n : ServicesOf(host, got, e)[v] <= ServicesOf(host, q[i], e)[v]
  <2>1. Pieces(n, got, q)
    BY SMT, <1>1, <1>6, <1>7 DEF Pieces
  <2> QED BY SMT, <1>1, <1>2, <2>1, AnswerTorn DEF n
<1>9. ServicesOf(host, Whole(got[i]), e)[v] \in worst /\ q[i] = Whole(got[i])
  BY SMT, <1>3, <1>5, <1>8
<1>10. worst \subseteq {0, 1, 2}
  <2> SUFFICES ASSUME NEW x \in Range(got) PROVE ServicesOf(host, Whole(x), e)[v] \in {0, 1, 2}
    BY Zenon
  <2>1. Whole(x) \in [1..n -> Reading]
    BY SMT, <1>3, <1>4
  <2> QED BY SMT, <1>1, <2>1, AnswerLevels DEF n
<1>11. ServicesOf(host, got, e)[v] \in Int
  BY SMT, <1>1, AnswerLevels DEF n
<1> HIDE DEF worst
<1>12. ServicesOf(host, got, e)[v] <= Max(worst)
  <2> DEFINE x == ServicesOf(host, Whole(got[i]), e)[v]
             y == ServicesOf(host, got, e)[v]
  <2>1. x \in worst /\ y \in Int /\ y <= x
    BY SMT, <1>8, <1>9, <1>11
  <2> HIDE DEF x, y
  <2>2. y <= Max(worst)
    BY Zenon, <1>10, <2>1, WorstIs
  <2> QED BY Zenon, <2>2 DEF y
<1> QED BY SMT, <1>12 DEF worst

\* An answer that a toggle tore (build_agent_output takes the lock for each
\* reading) shows no level worse than the worst of the stories it is made of.
THEOREM TornMildAlways == Spec => []TornMild
<1> QED BY StoryAlways, StoryTorn, PTL
==============================================================================
