-------------------------------- MODULE MCSnmp --------------------------------
(* A device of four rows, with names of one, two and three bytes an arc; the *)
(* walk starts below the first.  Two of the rows change.  Two texts are of   *)
(* 127 and 128 bytes, the last and the first length with a short and a long  *)
(* form; the binding of the third is of 256, the first whose length takes    *)
(* three.  The ids of the requests go from 126 past 128, the first integer   *)
(* that needs a sign byte.                                                   *)
EXTENDS Snmp

MCCommunity == <<115, 119>>
MCStatic    == {<<1, 3, 1>>, <<1, 3, 6, 16384, 1>>}
MCChanging  == {<<1, 3, 6, 127>>, <<1, 3, 6, 128, 300>>}
MCBase      == <<1, 3, 6>>
MCAbsent    == <<1, 3, 6, 128>>
Letters(n)  == [i \in 1..n |-> 97]
MCText      == [o \in MCStatic \cup MCChanging |->
                  CASE o = <<1, 3, 6, 127>>      -> Letters(126)
                    [] o = <<1, 3, 6, 128, 300>> -> Letters(127)
                    [] OTHER                     -> Letters(244)]
MCStranger  == <<120>>
MCAllModes  == {T_GET, T_GETNEXT, T_GETBULK, 163}
MCGetOnly   == {T_GET}

\* Integers at every edge, of either sign, against BER as the polling side has it,
\* and decoded to what they were.  Of "minimal two's-complement" (snmpserver.py:74)
\* the least integer of so many bytes is the exception: -128 is sent in two.
Around(n) == (n - 2)..(n + 2)
ASSUME IntegerEdges ==
    \A n \in 0..300 \cup Around(32768) \cup Around(65536) \cup 8388600..8388607 :
        \A v \in {n, -n} :
            /\ EncInt(v) = IF v \in {-128, -32768} THEN Tlv(T_INT, <<255>> \o WireBytes(v))
                          ELSE WireInteger(v)
            /\ DecInt(ReadTlv(EncInt(v), 0).body) = v
==============================================================================
