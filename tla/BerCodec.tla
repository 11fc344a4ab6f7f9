------------------------------- MODULE BerCodec -------------------------------
(***************************************************************************)
(* The BER codec of the SNMP responder (snmp/snmpserver.py), as functions   *)
(* on sequences of bytes.  The library of the polling side is external: it  *)
(* is BER as the standard has it, written here independently of the code    *)
(* (WireLength, WireInteger, WireOid, OidOnWire) and used to pack requests  *)
(* and to read replies.                                                     *)
(***************************************************************************)
EXTENDS Integers, SequencesExt

T_INT            == 2
T_OCTETSTR       == 4
T_NULL           == 5
T_OID            == 6
T_SEQ            == 48
T_GET            == 160
T_GETNEXT        == 161
T_RESPONSE       == 162
T_GETBULK        == 165
T_NOSUCHINSTANCE == 129
T_ENDOFMIBVIEW   == 130

\* What the code raises as BERError.
BERError == [tag |-> -1, body |-> <<>>, next |-> 0]
Malformed(tlv) == tlv.tag = -1

\* The digits of n > 0, most significant first.
Digits(n, base) ==
    LET d[m \in Nat] == IF m = 0 THEN <<>> ELSE Append(d[m \div base], m % base)
    IN  d[n]

\* int.from_bytes(body, "big")
Unsigned(body) == FoldLeft(LAMBDA n, b : (n * 256) + b, 0, body)

------------------------------------------------------------------------------
\* Encoding

\* (mutant: the long form starts too late)
EncLenLoose(n) ==
    IF n <= 128 THEN <<n>>
                ELSE <<128 + Len(Digits(n, 256))>> \o Digits(n, 256)

EncLen(n) ==
    IF n < 128 THEN <<n>>
               ELSE <<128 + Len(Digits(n, 256))>> \o Digits(n, 256)

Tlv(tag, body) == <<tag>> \o EncLen(Len(body)) \o body

\* Minimal two's complement.
BitLength(n) == CHOOSE k \in 1..31 : 2^(k-1) <= n /\ n < 2^k

EncInt(value) ==
    LET up     == Digits(value, 256)
        nbytes == (BitLength(-value) + 1 + 7) \div 8
    IN  Tlv(T_INT,
            CASE value = 0 -> <<0>>
              [] value > 0 -> IF up[1] >= 128 THEN <<0>> \o up ELSE up
              [] value < 0 -> Digits(256^nbytes + value, 256))

EncOctetStr(data) == Tlv(T_OCTETSTR, data)

\* _subid: base 128, every byte but the last with its top bit set.
Subid(n) ==
    IF n < 128 THEN <<n>>
    ELSE LET chunks == Digits(n, 128)
         IN  [i \in 1..Len(chunks) |-> IF i < Len(chunks) THEN chunks[i] + 128 ELSE chunks[i]]

OidToBytes(oid) ==
    Subid(40 * oid[1] + oid[2]) \o FlattenSeq([i \in 1..(Len(oid) - 2) |-> Subid(oid[i + 2])])

EncOid(oid) == Tlv(T_OID, OidToBytes(oid))

------------------------------------------------------------------------------
\* Decoding

\* _read_tlv; pos is an offset as in the code, the first byte is buf[0].
ReadTlv(buf, pos) ==
    IF pos + 2 > Len(buf) THEN BERError
    ELSE LET first  == buf[pos + 2]
             extra  == IF first < 128 THEN 0 ELSE first % 128
             start  == pos + 2 + extra
             length == IF first < 128 THEN first ELSE Unsigned(SubSeq(buf, pos + 3, start))
         IN  IF \/ first >= 128 /\ (extra = 0 \/ start > Len(buf))
                \/ start + length > Len(buf)
             THEN BERError
             ELSE [tag  |-> buf[pos + 1], body |-> SubSeq(buf, start + 1, start + length),
                   next |-> start + length]

DecInt(body) ==
    IF body = <<>> THEN 0
    ELSE Unsigned(body) - (IF body[1] >= 128 THEN 256^Len(body) ELSE 0)

\* The first byte is split by 40, the rest accumulates seven bits a byte; bits
\* of a last byte that announces another one are dropped.
BytesToOid(body) ==
    LET Step(a, b) == LET n == (a.n * 128) + (b % 128)
                      IN  IF b < 128 THEN [n |-> 0, out |-> Append(a.out, n)]
                                     ELSE [a EXCEPT !.n = n]
    IN  FoldLeft(Step, [n |-> 0, out |-> <<body[1] \div 40, body[1] % 40>>], Tail(body)).out

\* The TLVs that fill buf, in order; the last is BERError when buf does not parse.
TlvsOf(buf) ==
    LET from[pos \in Nat] ==
            IF pos >= Len(buf) THEN <<>>
            ELSE LET t == ReadTlv(buf, pos)
                 IN  IF Malformed(t) THEN <<t>> ELSE <<t>> \o from[t.next]
    IN  from[0]

\* _parse_varbinds: the names asked for, or BERError.
ParseVarbinds(body) ==
    LET binds == TlvsOf(body)
        names == [i \in 1..Len(binds) |-> ReadTlv(binds[i].body, 0)]
    IN  IF \E i \in 1..Len(binds) : \/ binds[i].tag # T_SEQ
                                    \/ names[i].tag # T_OID \/ names[i].body = <<>>
        THEN BERError
        ELSE [i \in 1..Len(names) |-> BytesToOid(names[i].body)]

\* peek_community: the name a datagram is routed by; <<>> where it gives None.
PeekCommunity(data) ==
    LET body    == ReadTlv(data, 0).body
        version == ReadTlv(body, 0)
        comm    == ReadTlv(body, version.next)
    IN  IF version.tag = T_INT /\ DecInt(version.body) = 1 /\ comm.tag = T_OCTETSTR
        THEN comm.body ELSE <<>>

\* The decoding half of handle_message: what is asked, or BERError where it
\* raises or drops.  The caller has no community to compare.
Request(data) ==
    LET msg  == ReadTlv(data, 0)
        top  == TlvsOf(msg.body)
        pdu  == top[3]
        in   == TlvsOf(pdu.body)
        oids == ParseVarbinds(in[4].body)
    IN  IF \/ msg.tag # T_SEQ \/ Len(top) < 3
           \/ top[1].tag # T_INT \/ DecInt(top[1].body) # 1 \/ top[2].tag # T_OCTETSTR
           \/ pdu.tag \notin {T_GET, T_GETNEXT, T_GETBULK}
           \/ Len(in) < 4 \/ oids = BERError
        THEN BERError
        ELSE [tag |-> pdu.tag, rid |-> DecInt(in[1].body), community |-> top[2].body,
              n1 |-> DecInt(in[2].body), n2 |-> DecInt(in[3].body), oids |-> oids]

\* The encoding half; a binding is a name and its value's TLV.
EncVarBind(vb) == Tlv(T_SEQ, EncOid(vb.oid) \o vb.value)
Reply(community, rid, out) ==
    Tlv(T_SEQ, EncInt(1) \o EncOctetStr(community) \o
        Tlv(T_RESPONSE, EncInt(rid) \o EncInt(0) \o EncInt(0) \o
            Tlv(T_SEQ, FlattenSeq([i \in 1..Len(out) |-> EncVarBind(out[i])]))))

------------------------------------------------------------------------------
\* The library of the polling side: BER by the standard.

WireLength(n) ==
    CASE n < 128 -> <<n>> [] n \in 128..255 -> <<129, n>>
      [] OTHER -> <<130, n \div 256, n % 256>>
WireTlv(tag, body) == <<tag>> \o WireLength(Len(body)) \o body
BytesFor(n) == CHOOSE k \in 1..3 : 128 * 256^(k-1) >= n /\ \A j \in 1..(k-1) : 128 * 256^(j-1) < n
WireBytes(v) ==
    LET k == BytesFor(IF v < 0 THEN -v ELSE v + 1)
        u == IF v < 0 THEN v + 256^k ELSE v
    IN  [i \in 1..k |-> (u \div 256^(k - i)) % 256]
WireInteger(v) == WireTlv(T_INT, WireBytes(v))
WireSubid(n) ==
    LET k == CHOOSE j \in 1..4 : n < 128^j /\ (j > 1 => n >= 128^(j-1))
    IN  [i \in 1..k |-> ((n \div 128^(k - i)) % 128) + (IF i < k THEN 128 ELSE 0)]
WireOid(oid) ==
    LET arcs == <<40 * oid[1] + oid[2]>> \o SubSeq(oid, 3, Len(oid))
    IN  WireTlv(T_OID, FlattenSeq([i \in 1..Len(arcs) |-> WireSubid(arcs[i])]))
WireMessage(community, tag, rid, n1, n2, binds) ==
    WireTlv(T_SEQ, WireInteger(1) \o WireTlv(T_OCTETSTR, community) \o
        WireTlv(tag, WireInteger(rid) \o WireInteger(n1) \o WireInteger(n2) \o
            WireTlv(T_SEQ, FlattenSeq([i \in 1..Len(binds) |->
                WireTlv(T_SEQ, WireOid(binds[i].oid) \o binds[i].value)]))))
==============================================================================
