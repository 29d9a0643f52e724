------------------------------- MODULE MCWire -------------------------------
(* Messages for Wire: encodings of vectors and versions at every boundary, *)
(* and everything one edit away from one of them.                          *)
EXTENDS Wire

Digits(n, d) == [i \in 1 .. n |-> IF i = 1 THEN d ELSE 2]
EntryOf(ts, services, id, addr, port) ==
    [timestamp |-> ts, services |-> services, id |-> id, addr |-> addr, port |-> port]

Mapped == MappedPrefix \o <<1, 2, 3, 4>>
LegacyEntries == {EntryOf(B4 - 1, 1, 2, Mapped, 17), EntryOf(300, 25, 2, Digits(16, FC), 1),
                  EntryOf(0, 0, 2, Digits(16, 3), 30)}
(* Each network id and unknown ones, services at each width. *)
Bip155Entries ==
    {EntryOf(5, 3, id, Digits(ExpectedLength[id], IF id = 6 THEN FC ELSE 1), 17) : id \in KnownIds}
    \cup {EntryOf(5, s, 1, Digits(4, 7), 17) :
            s \in {Base - 4, Base - 3, B2 - 1, B2, B4 - 1, B4}}
    \cup {EntryOf(5, 3, 7, Digits(n, 7), 17) : n \in {0, 2, MaxLength}}
(* What a careless encoder could write. *)
RefusedEntries == {EntryOf(5, 3, 2, Mapped, 17), EntryOf(5, 3, 2, Digits(16, FC), 17),
                   EntryOf(5, 3, 6, Digits(16, 1), 17), EntryOf(5, 3, 4, Digits(16, 1), 17),
                   EntryOf(5, 3, 7, Digits(MaxLength + 1, 1), 17)}

Vectors(es, some) == {<<>>} \cup {<<e>> : e \in es} \cup {<<e, f>> : e \in es, f \in some}
                     \cup {<<e, e, e>> : e \in some}
TheAddrVectors == Vectors(LegacyEntries, LegacyEntries)
TheAddrv2Vectors ==
    Vectors(Bip155Entries \cup RefusedEntries,
            {EntryOf(5, 3, 1, Digits(4, 1), 17), EntryOf(5, 3, 7, <<7, 2>>, 17)})

NetaddrOf(form, bytes) == [services |-> 9, host |-> Host(form, bytes), port |-> 17]
VersionOf(v, agent) ==
    [version |-> v, services |-> 1, timestamp |-> IF v = 0 THEN -1 ELSE 77,
     addr_recv |-> NetaddrOf("dotted", <<0, 0, 0, 0>>),
     addr_from |-> IF v < AddrFromVersion THEN Nil ELSE NetaddrOf("colons", Digits(16, FC)),
     nonce |-> IF v < AddrFromVersion THEN Nil ELSE 1000,
     user_agent |-> IF v < AddrFromVersion THEN <<>> ELSE agent,
     latest_block |-> IF v < AddrFromVersion THEN 0 ELSE -1, relay |-> TRUE]
TheVersions ==
    {VersionOf(v, <<6, 7>>) : v \in {-1, 0, AddrFromVersion - 1, AddrFromVersion,
                                     RelayVersion - 1, RelayVersion}}
    \cup {VersionOf(RelayVersion, [i \in 1 .. n |-> 5]) :
            n \in {0, Base - 4, Base - 3, MAX_SUBVERSION_LENGTH}}

(* Each size of a vector of one entry, written in a longer form. *)
Longer(v) == {<<Base - 3>> \o LE2Bytes(v % B2), <<Base - 2>> \o LE4Bytes(v),
              <<Base - 1>> \o LE8Bytes(v)}
LooseEncodings ==
    {<<"addrv2", n \o <<5, 0, 0, 0, 3, 1, 4, 7, 2, 2, 2, 1, 5>>>> : n \in Longer(1)}
    \cup {<<"addr", n>> : n \in Longer(0) \cup Longer(Base - 4) \cup Longer(B2 - 1)}
    \cup {<<"addrv2", <<1, 5, 0, 0, 0>> \o s \o <<1>> \o n \o <<7, 2, 2, 2, 1, 5>>>> :
            s \in {<<3>>} \cup Longer(3) \cup Longer(Base - 4) \cup Longer(Base - 3)
                  \cup Longer(B2 - 1) \cup Longer(B2) \cup Longer(B4 - 1),
            n \in {<<4>>} \cup Longer(4)}

Whole ==
    {<<"addr", VectorBytes("addr", v)>> : v \in TheAddrVectors}
    \cup {<<"addrv2", VectorBytes("addrv2", v)>> : v \in TheAddrv2Vectors}
    \cup {<<"version", VersionBytes(v) \o tail>> :
            v \in TheVersions \cup {VersionOf(RelayVersion, [i \in 1 .. MAX_SUBVERSION_LENGTH + 1 |-> 5])},
            tail \in {<<>>, <<0>>, <<1>>, <<0, 1>>}}

Edits(bytes) ==
    {SubSeq(bytes, 1, n) : n \in 0 .. Len(bytes)}
    \cup {[bytes EXCEPT ![i] = d] : i \in 1 .. Len(bytes), d \in Bytes}
    \cup {Append(bytes, d) : d \in {0, 1}}

TheMessages == {[kind |-> m[1], bytes |-> m[2]] : m \in Whole \cup LooseEncodings}
=============================================================================
