------------------------------- MODULE AgentMath -------------------------------
(***************************************************************************)
(* What the answers of all simulated hosts are computed with, in whole      *)
(* numbers: fractions are hundredths, memory and disks are in kB, times in  *)
(* minutes.                                                                 *)
(*                                                                         *)
(* An answer is made from a sequence of readings of the host's incident     *)
(* (each reading takes the lock for itself) and from the noise: e.d is a    *)
(* wobble (clamped to [-1, 1]), e.tooth how far every periodic filling is,  *)
(* in hundredths, e.old whether the host has been up for long.  Sums of     *)
(* monotone terms are extreme where the noise is, so the corners do.        *)
(***************************************************************************)
EXTENDS Integers, Sequences, FiniteSetsExt

OK   == 0
WARN == 1
CRIT == 2
None == -1          \* a time stamp that is not set

Noise == [d : {-1, 1}, tooth : {0, 100}, old : BOOLEAN]

Least(a, b) == IF a < b THEN a ELSE b
Most(a, b)  == IF a > b THEN a ELSE b

Lerp(healthy, broken, r) == healthy + (((broken - healthy) * r) \div 100)

\* gauge with amp_abs, and with amp_frac (in hundredths)
GaugeAbs(base, amp, e)   == base + (amp * e.d)
GaugeFrac(base, amp, e)  == base + (((base \div 100) * amp) * e.d)

\* A file system: a base, a periodic filling, growth up to a cap, noise; and a
\* load average in hundredths, of which share (in hundredths) is shown.
Filling(base, tooth, growth, amp, e) ==
    GaugeAbs(base + ((tooth \div 100) * e.tooth) + (IF e.old THEN growth ELSE 0), amp, e)
LoadOf(base, share, amp, e) == GaugeFrac(share * base, amp, e) \div 100

\* (mutants: the ramp never gets to the end; without a time stamp it is full)
RampHalf(minutes, full)  == IF minutes <= 0 THEN 0 ELSE Least(50, (1000 * minutes) \div full)
RampUnset(minutes, full) ==
    IF minutes < 0 THEN 100 ELSE Least(100, (1000 * minutes) \div full)

\* break_ramp, full in tenths of a minute
Ramp(minutes, full) == IF minutes <= 0 THEN 0 ELSE Least(100, (1000 * minutes) \div full)

\* (mutant: the broken state starts from nothing)
ClimbAfresh(deg, brk, later, fill, share, full) ==
    LET crumb == (share * (IF deg <= 0 THEN 0 ELSE Least(100, (100 * deg) \div fill))) \div 100
    IN  IF brk > 0 THEN Ramp(later, full) ELSE crumb

\* pressure: the breadcrumb grows to share over fill minutes, the broken state
\* takes it from share to 100.  It is made of three readings.
Climb(deg, brk, later, fill, share, full) ==
    LET crumb == (share * (IF deg <= 0 THEN 0 ELSE Least(100, (100 * deg) \div fill))) \div 100
    IN  IF brk > 0 THEN Most(crumb, share + (((100 - share) * Ramp(later, full)) \div 100))
                   ELSE crumb

\* The levels the monitoring applies to what it is told.
Level(v, warn, crit)  == IF v >= crit THEN CRIT ELSE IF v >= warn THEN WARN ELSE OK
Percent(part, whole)  == part \div (whole \div 100)
FilesystemLevel(used, size) == Level(Percent(used, size), 80, 90)
LoadLevel(load100, ncpu)    == Level(load100, ncpu * 500, ncpu * 1000)
DisksLevel(disks)           == Max({FilesystemLevel(f[1], f[2]) : f \in disks})
UnitsLevel(units)           == IF \E u \in units : u[2] = "failed" THEN CRIT ELSE OK

\* meminfo as the memory check reads it: the virtual memory used and what is
\* committed.
Caches(m)  == m.cached + m.buffers + m.swapcached + m.sreclaim
MemUsed(m) == m.total - m.free - Caches(m)
MemoryLevel(m) ==
    Most(Level(Percent(MemUsed(m) + m.swap - m.swapfree, m.total + m.swap), 80, 90),
         Level(Percent(m.committed, m.limit), 100, 150))

\* The printed parts of a Linux memory; lru is how much of the anonymous and of
\* the file pages is active, in hundredths.
Meminfo(total, swap, swapfree, free, cached, buffers, swapcached, sreclaim, anon, shmem, committed, lru) ==
    LET anon_lru == anon + shmem
        file_lru == Most(0, buffers + cached - shmem)
    IN  [total |-> total, swap |-> swap, swapfree |-> swapfree, free |-> free,
         cached |-> cached, buffers |-> buffers, swapcached |-> swapcached,
         sreclaim |-> sreclaim, anon |-> anon,
         available |-> Most(free, free + file_lru + sreclaim),
         active    |-> ((anon_lru \div 100) * lru[1]) + ((file_lru \div 100) * lru[2]),
         inactive  |-> ((anon_lru \div 100) * (100 - lru[1])) +
                       ((file_lru \div 100) * (100 - lru[2])),
         committed |-> committed, limit |-> swap + (total \div 2)]

\* Pairs of a part and what it is part of.
MemoryParts(m) ==
    {<<m.free, m.total>>, <<MemUsed(m), m.total>>, <<m.swapfree, m.swap>>,
     <<m.available, m.total>>, <<m.anon, m.total>>, <<m.active + m.inactive, m.total>>}
==============================================================================
