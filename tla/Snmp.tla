--------------------------------- MODULE Snmp ---------------------------------
(***************************************************************************)
(* The live SNMP responder (snmp/snmpserver.py) over the cached tables of   *)
(* the device simulator (snmp/netsim.py, table_for): worker threads take    *)
(* datagrams from one socket, look up the device's table, build it on the   *)
(* first request, refresh its changing rows in place when it has aged, and  *)
(* answer row by row.  Nothing of this is locked.                           *)
(*                                                                         *)
(* One device.  The value of a changing row is the instant it was sampled   *)
(* at: all that is used of a counter is that it grows with time.  The       *)
(* poller (the monitoring's SNMP library) and the network, which may lose   *)
(* datagrams, are external.                                                 *)
(***************************************************************************)
EXTENDS BerCodec, FiniteSets

CONSTANTS
    Workers,            \* responder threads
    Community,          \* the device's name as bytes
    Stranger,           \* a name no device has
    Static, Changing,   \* its OIDs
    Text,               \* OID -> the bytes of its row's text before the value
    Base, Absent,       \* where walks start; an OID the device does not have
    Modes,              \* the request kinds the poller walks with
    LastId,             \* the id of the poller's last request before
    MaxRepetitions,
    TTL,                \* _TABLE_TTL
    MaxTime, MaxWalks, MaxTries, MaxLost     \* bounds

Oids == Static \cup Changing

ASSUME SnmpAssumption ==
    /\ Static \cap Changing = {} /\ Absent \notin Oids /\ Stranger # Community
    /\ Text \in [Oids -> Seq(0..255)]
    /\ MaxRepetitions \in Nat \ {0} /\ TTL \in Nat \ {0} /\ LastId \in Nat
    /\ {MaxTime, MaxWalks, MaxTries, MaxLost} \subseteq Nat

VARIABLES
    clock,
    entries,    \* the [ts, table] pairs made so far; each is one mutable object
    cache,      \* _TABLE_CACHE: index of the device's entry, 0 before the first
    pc, job,    \* worker -> where it is, and its local variables
    requests, replies,      \* datagrams in flight
    walk,       \* the poller's walk
    walks, lost,
    overlap,    \* history: two refreshes ran at once
    seen        \* history: the value of each changing row the poller received last

server == <<entries, cache, pc, job>>
vars   == <<clock, server, requests, replies, walk, walks, lost, overlap, seen>>

Precedes(a, b) ==       \* tuple comparison
    LET n == CHOOSE k \in 0..Len(a) :
                /\ k <= Len(b) /\ SubSeq(a, 1, k) = SubSeq(b, 1, k)
                /\ k = Len(a) \/ k = Len(b) \/ a[k + 1] # b[k + 1]
    IN  n < Len(b) /\ (n = Len(a) \/ a[n + 1] < b[n + 1])

\* Table.__init__: sorted(pairs).
Sorted(oids) == SortSeq(SetToSeq(oids), Precedes)
Table == Sorted(Oids)

\* What sorted() promises, as far as the refresh of a table uses it.
ASSUME SortAssumption ==
    Sorted(Changing) \in Seq(Changing) /\ ToSet(Sorted(Changing)) = Changing

\* (mutant: bisect_left)
AtOrAfter(oid) == Cardinality({o \in Oids : Precedes(o, oid)}) + 1

\* Table.next: bisect_right, the first stored OID greater than oid.
AfterIn(oid) == Cardinality({o \in Oids : ~Precedes(oid, o)}) + 1

EndOfView == -1
NoSuch    == -2

\* encode_value of a row's text, and the two exceptions.
RowText(oid, val) == Text[oid] \o <<48 + val>>
ValueTlv(oid, val) ==
    CASE val = EndOfView -> Tlv(T_ENDOFMIBVIEW, <<>>)
      [] val = NoSuch    -> Tlv(T_NOSUCHINSTANCE, <<>>)
      [] OTHER           -> EncOctetStr(RowText(oid, val))

\* The datagram of a reply.
Packed(m) ==
    Reply(m.community, m.rid,
          [i \in 1..Len(m.out) |-> [oid   |-> m.out[i].oid,
                                    value |-> ValueTlv(m.out[i].oid, m.out[i].val)]])

Get(values, oid) == [oid |-> oid, val |-> IF oid \in Oids THEN values[oid] ELSE NoSuch]

\* _next_vb
NextVb(values, oid) ==
    IF AfterIn(oid) > Len(Table) THEN [oid |-> oid, val |-> EndOfView]
    ELSE LET next == Table[AfterIn(oid)] IN [oid |-> next, val |-> values[next]]

NoJob == [now |-> 0, entry |-> 0, seen |-> 0, todo |-> <<>>, req |-> BERError,
          index |-> 1, cur |-> <<>>, reps |-> 0, out |-> <<>>]

Goto(w, label) == pc' = [pc EXCEPT ![w] = label]

\* dev.walk: every row, the changing ones as sampled at t.
Rendered(t) == [o \in Oids |-> IF o \in Changing THEN t ELSE 0]

------------------------------------------------------------------------------
\* The responder.

\* A request as the polling side packs it.
OnWire(m) ==
    WireMessage(m.community, m.mode, m.rid, 0, IF m.mode = T_GETBULK THEN MaxRepetitions ELSE 0,
                [i \in 1..Len(m.ask) |-> [oid |-> m.ask[i], value |-> WireTlv(T_NULL, <<>>)]])

\* recvfrom and peek_community; a datagram of no known device is dropped.
Recv(w) ==
    /\ pc[w] = "idle"
    /\ \E m \in requests :
          /\ requests' = requests \ {m}
          /\ IF PeekCommunity(OnWire(m)) = Community
             THEN /\ Goto(w, "lookup")
                  /\ job' = [job EXCEPT ![w] = [NoJob EXCEPT !.req = Request(OnWire(m))]]
             ELSE UNCHANGED <<pc, job>>
    /\ UNCHANGED <<clock, entries, cache, replies, walk, walks, lost, overlap, seen>>

\* (mutant: off by one)
AgedLate(now, ts) == now - ts > TTL

Aged(now, ts) == now - ts >= TTL

\* table_for: the clock, then the cache.
Lookup(w) ==
    /\ pc[w] = "lookup"
    /\ job' = [job EXCEPT ![w].now = clock, ![w].entry = cache]
    /\ Goto(w, IF cache = 0 THEN "build"
               ELSE IF Aged(clock, entries[cache].ts) THEN "sample" ELSE "answer")
    /\ UNCHANGED <<clock, entries, cache, requests, replies, walk, walks, lost, overlap, seen>>

Refreshing == {w \in Workers : pc[w] \in {"build", "install", "sample", "patch"}}
Noted(w)   == overlap' = (overlap \/ Refreshing # {w})

Build(w) ==
    /\ pc[w] = "build"
    /\ job' = [job EXCEPT ![w].seen = clock]
    /\ Goto(w, "install")
    /\ Noted(w)
    /\ UNCHANGED <<clock, entries, cache, requests, replies, walk, walks, lost, seen>>

Install(w) ==
    /\ pc[w] = "install"
    /\ entries' = Append(entries, [ts |-> job[w].now, value |-> Rendered(job[w].seen)])
    /\ cache' = Len(entries')
    /\ Goto(w, "reload")
    /\ Noted(w)
    /\ UNCHANGED <<clock, job, requests, replies, walk, walks, lost, seen>>

\* The table is read back from the cache, where another worker may have put its own.
Reload(w) ==
    /\ pc[w] = "reload"
    /\ job' = [job EXCEPT ![w].entry = cache]
    /\ Goto(w, "answer")
    /\ UNCHANGED <<clock, entries, cache, requests, replies, walk, walks, lost, overlap, seen>>

\* dev.dynamic_rows
Sample(w) ==
    /\ pc[w] = "sample"
    /\ job' = [job EXCEPT ![w].seen = clock, ![w].todo = Sorted(Changing)]
    /\ Goto(w, "patch")
    /\ Noted(w)
    /\ UNCHANGED <<clock, entries, cache, requests, replies, walk, walks, lost, seen>>

\* Table.patch, one row of the shared table, and at the end the timestamp.
Patch(w) ==
    LET e == job[w].entry IN
    /\ pc[w] = "patch"
    /\ IF job[w].todo # <<>>
       THEN /\ entries' = [entries EXCEPT ![e].value[Head(job[w].todo)] = job[w].seen]
            /\ job' = [job EXCEPT ![w].todo = Tail(@)]
            /\ UNCHANGED pc
       ELSE /\ entries' = [entries EXCEPT ![e].ts = job[w].now]
            /\ Goto(w, "answer")
            /\ UNCHANGED job
    /\ Noted(w)
    /\ UNCHANGED <<clock, cache, requests, replies, walk, walks, lost, seen>>

\* How often the name at this index is bound: GETBULK repeats those after the
\* first non-repeaters.
Repetitions(req, index) ==
    IF req.tag # T_GETBULK \/ index <= req.n1 THEN 1 ELSE IF req.n2 > 0 THEN req.n2 ELSE 0

\* handle_message, one binding per step.  A message that raises or is refused
\* has no answer.
Drop(w) ==
    /\ pc[w] = "answer" /\ job[w].req = BERError
    /\ Goto(w, "idle")
    /\ job' = [job EXCEPT ![w] = NoJob]
    /\ UNCHANGED <<clock, entries, cache, requests, replies, walk, walks, lost, overlap, seen>>

Bind(w) ==
    LET j     == job[w]
        table == entries[j.entry].value
        name  == IF j.reps = 0 THEN j.req.oids[j.index] ELSE j.cur
        vb    == IF j.req.tag = T_GET THEN Get(table, name) ELSE NextVb(table, name)
        times == Repetitions(j.req, j.index)
        last  == j.reps + 1 >= times \/ (j.req.tag = T_GETBULK /\ vb.val = EndOfView)
    IN
    /\ pc[w] = "answer" /\ j.req # BERError /\ j.index <= Len(j.req.oids)
    /\ job' = [job EXCEPT ![w] =
                  [j EXCEPT !.out   = IF times = 0 THEN j.out ELSE Append(j.out, vb),
                            !.cur   = vb.oid,
                            !.index = IF last THEN j.index + 1 ELSE j.index,
                            !.reps  = IF last THEN 0 ELSE j.reps + 1]]
    /\ UNCHANGED <<clock, entries, cache, pc, requests, replies, walk, walks, lost, overlap, seen>>

Send(w) ==
    LET j == job[w] IN
    /\ pc[w] = "answer" /\ j.req # BERError /\ j.index > Len(j.req.oids)
    /\ replies' = replies \cup {[community |-> j.req.community, rid |-> j.req.rid, out |-> j.out]}
    /\ Goto(w, "idle")
    /\ job' = [job EXCEPT ![w] = NoJob]
    /\ UNCHANGED <<clock, entries, cache, requests, walk, walks, lost, overlap, seen>>

------------------------------------------------------------------------------
\* The poller and the network.

Below(oid) == Len(Base) <= Len(oid) /\ SubSeq(oid, 1, Len(Base)) = Base
Wanted     == SelectSeq(Table, Below)

NoWalk == [mode |-> T_GET, community |-> Community, rid |-> LastId, ask |-> <<>>, got |-> <<>>,
           tries |-> 0, status |-> "idle"]

Datagram(wk) == [try |-> wk.tries, mode |-> wk.mode, community |-> wk.community,
                 rid |-> wk.rid, ask |-> wk.ask]

\* What sorted() promises of the table, by the order of tuples: each OID once, in
\* order, and the ones below the base follow one another.
ASSUME TableAssumption ==
    /\ Base \notin Oids
    /\ Table \in Seq(Oids) /\ ToSet(Table) = Oids /\ Wanted \in Seq(Oids)
    /\ \A i, j \in 1..Len(Table) : Precedes(Table[i], Table[j]) <=> i < j
    /\ \E n \in 0..Len(Table) :
          /\ n + Len(Wanted) <= Len(Table)
          /\ Wanted = SubSeq(Table, n + 1, n + Len(Wanted))
          /\ \A i \in 1..Len(Table) : /\ Precedes(Base, Table[i]) <=> i > n
                                      /\ Below(Table[i]) <=> i \in n + 1..n + Len(Wanted)

\* The requests there can be, with an id for each reply that a walk goes on from.
Datagrams == [try : 0..MaxTries, mode : Modes, community : {Community, Stranger},
              rid : (LastId + 1)..(LastId + MaxWalks * (Len(Wanted) + 1)),
              ask : {Append(Wanted, Absent)} \cup {<<o>> : o \in Oids \cup {Base}}]

\* What the decoder makes of a request that the polling side has packed.
ASSUME CodecAssumption ==
    \A m \in Datagrams :
        /\ PeekCommunity(OnWire(m)) = m.community
        /\ Request(OnWire(m)) =
               IF m.mode \in {T_GET, T_GETNEXT, T_GETBULK}
               THEN [tag |-> m.mode, rid |-> m.rid, community |-> m.community, n1 |-> 0,
                     n2 |-> IF m.mode = T_GETBULK THEN MaxRepetitions ELSE 0, oids |-> m.ask]
               ELSE BERError

\* A GET asks for all names at once, as the polling side does when it knows
\* them; GETNEXT and GETBULK discover them from the base.  Any other kind (a SET)
\* is refused.
StartWalk ==
    /\ walk.status # "walking" /\ walks < MaxWalks
    /\ \E mode \in Modes, name \in {Community, Stranger} :
          walk' = [NoWalk EXCEPT !.mode = mode, !.community = name,
                       !.rid = walk.rid + 1, !.status = "walking",
                       !.ask = IF mode = T_GET THEN Append(Wanted, Absent) ELSE <<Base>>]
    /\ requests' = requests \cup {Datagram(walk')}
    /\ walks' = walks + 1
    /\ UNCHANGED <<clock, server, replies, lost, overlap, seen>>

Retry ==
    /\ walk.status = "walking" /\ walk.tries < MaxTries
    /\ walk' = [walk EXCEPT !.tries = @ + 1]
    /\ requests' = requests \cup {Datagram(walk')}
    /\ UNCHANGED <<clock, server, replies, walks, lost, overlap, seen>>

GiveUp ==
    /\ walk.status = "walking" /\ walk.tries = MaxTries
    /\ walk' = [walk EXCEPT !.status = "failed"]
    /\ UNCHANGED <<clock, server, requests, replies, walks, lost, overlap, seen>>

\* A reply to an earlier request is ignored.  A walk ends at the first binding
\* that is not below the base, a GET with its only reply.
Accept ==
    \E m \in replies :
    LET inside(vb) == vb.val >= 0 /\ Below(vb.oid)
        stop   == {i \in 1..Len(m.out) : ~inside(m.out[i])}
        fresh  == SubSeq(m.out, 1, Len(m.out) - Cardinality(stop))
        ended  == stop # {} \/ walk.mode = T_GET
        more   == [walk EXCEPT !.got = @ \o fresh,
                               !.status = IF ended THEN "done" ELSE @,
                               !.rid    = IF ended THEN @ ELSE @ + 1,
                               !.ask    = IF ended THEN @ ELSE <<m.out[Len(m.out)].oid>>]
    IN
    /\ replies' = replies \ {m}
    /\ IF walk.status = "walking" /\ m.rid = walk.rid
       THEN /\ walk' = more
            /\ requests' = IF ended THEN requests ELSE requests \cup {Datagram(more)}
            /\ seen' = [o \in Changing |->
                           IF \E i \in 1..Len(fresh) : fresh[i].oid = o
                           THEN (CHOOSE vb \in ToSet(fresh) : vb.oid = o).val ELSE seen[o]]
       ELSE UNCHANGED <<walk, requests, seen>>
    /\ UNCHANGED <<clock, server, walks, lost, overlap>>

Lose ==
    /\ lost < MaxLost
    /\ lost' = lost + 1
    /\ \/ \E m \in requests : requests' = requests \ {m} /\ UNCHANGED replies
       \/ \E m \in replies  : replies'  = replies  \ {m} /\ UNCHANGED requests
    /\ UNCHANGED <<clock, server, walk, walks, overlap, seen>>

Tick ==
    /\ clock < MaxTime
    /\ clock' = clock + 1
    /\ UNCHANGED <<server, requests, replies, walk, walks, lost, overlap, seen>>

------------------------------------------------------------------------------
Init ==
    /\ clock = 1 /\ entries = <<>> /\ cache = 0
    /\ pc = [w \in Workers |-> "idle"] /\ job = [w \in Workers |-> NoJob]
    /\ requests = {} /\ replies = {}
    /\ walk = NoWalk /\ walks = 0 /\ lost = 0
    /\ overlap = FALSE /\ seen = [o \in Changing |-> 0]

WorkerStep(w) ==
    \/ Lookup(w) \/ Build(w) \/ Install(w) \/ Reload(w) \/ Sample(w) \/ Patch(w)
    \/ Drop(w) \/ Bind(w) \/ Send(w)

Next ==
    \/ \E w \in Workers : Recv(w) \/ WorkerStep(w)
    \/ StartWalk \/ Retry \/ GiveUp \/ Accept \/ Lose \/ Tick

Spec == Init /\ [][Next]_vars

------------------------------------------------------------------------------
(* Properties *)

\* A walk, by whatever requests and through retries, losses, the race of the
\* first builds and refreshes in the middle of it, gives the device's rows in
\* order, each once and all of them (bisect_right, the loops of handle_message).
Walk == INSTANCE OrderedWalk WITH
    names  <- [i \in 1..Len(walk.got) |-> walk.got[i].oid],
    status <- walk.status
WalksInOrder == Walk!WalkSpec

\* A reply on the wire is what BER prescribes for the bindings it carries, with
\* the request's id and community: texts, bindings and whole replies with lengths of
\* one, two and three bytes, ids that need a sign byte and ids that do not, and
\* names of one, two and three bytes an arc (_enc_len, enc_int, oid_to_bytes, _subid).
RepliesOnWire ==
    \A m \in replies :
        Packed(m) = WireMessage(Community, T_RESPONSE, m.rid, 0, 0,
                     [i \in 1..Len(m.out) |->
                        [oid   |-> m.out[i].oid,
                         value |-> CASE m.out[i].val = EndOfView -> <<130, 0>>
                                     [] m.out[i].val = NoSuch    -> <<129, 0>>
                                     [] OTHER -> WireTlv(4, RowText(m.out[i].oid, m.out[i].val))]])

\* What a worker answers from was sampled less than the TTL before it looked,
\* unless two refreshes overlapped (netsim.py, _TABLE_TTL).
FreshWithinTtl ==
    \A w \in Workers : pc[w] = "answer" /\ ~overlap =>
        \A o \in Changing : entries[job[w].entry].value[o] + TTL > job[w].now

\* "a backwards counter would wreck the if64 rates" (netsim.py:91): the poller
\* never receives a smaller value of a row than it did before.
CounterNeverBack ==
    [][\A o \in Changing : seen'[o] >= seen[o]]_seen
================================================================================
