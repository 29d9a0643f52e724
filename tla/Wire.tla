-------------------------------- MODULE Wire --------------------------------
(***************************************************************************)
(* Parsing what a peer sends (src/src/protocol.rs): CompactSize, the       *)
(* address vectors of `addr` and `addrv2` (BIP155), and `version`; with    *)
(* the host classification of src/src/address.rs.                          *)
(*                                                                         *)
(* A payload is a sequence of digits below Base: at Base = 256 they are    *)
(* bytes and every definition is the code's.  Smaller bases keep TLC's     *)
(* integers small and leave the three CompactSize prefixes (the largest    *)
(* digits) and all widths in place.  The vector parsers read one entry per *)
(* step, parse_version is one step.                                        *)
(***************************************************************************)
EXTENDS Integers, SequencesExt

CONSTANTS
    Base,             \* 256
    MAX_ADDR_TO_SEND, \* 1000
    MaxLength,        \* 512: longest address of an unknown network
    MAX_SUBVERSION_LENGTH,   \* 256
    AddrFromVersion,  \* 106
    RelayVersion,     \* 70001
    Messages,         \* messages sent: [kind, bytes]
    Variants(_),      \* the payloads received in place of one
    AddrVectors, Addrv2Vectors,   \* vectors of entries, for the reference encodings
    Versions,         \* contents of version messages, likewise
    Nil

Bytes == 0 .. Base - 1
FF == Base - 1   \* 0xff
FC == Base - 4   \* 0xfc
Kind == {"addr", "addrv2", "version"}

(* A u16, u32 or u64 is less than B2, B4 or B8; an i32 or i64 is Signed.   *)
B2 == Base * Base
B4 == B2 * B2
B8 == B4 * B4
IsSigned(b, v) == v \in Int /\ -b <= 2 * v /\ 2 * v < b

ASSUME BaseAssumption ==
    /\ Base \in Nat /\ Base > 10
    /\ MAX_ADDR_TO_SEND \in Nat /\ MaxLength \in Nat /\ MAX_SUBVERSION_LENGTH \in Nat
    /\ MAX_ADDR_TO_SEND < B8 /\ MaxLength < B8 /\ MAX_SUBVERSION_LENGTH < B8
    /\ MaxLength >= 32
    /\ AddrFromVersion \in Nat /\ RelayVersion \in Nat /\ AddrFromVersion <= RelayVersion

Network == {"ipv4", "ipv6", "onion_v2", "onion_v3", "i2p", "cjdns"}

(* BIP155: network and address length by id. *)
KnownIds == 1 .. 6
TorV2 == 3
NetworkOf == <<"ipv4", "ipv6", "onion_v2", "onion_v3", "i2p", "cjdns">>
ExpectedLength == <<4, 16, 10, 32, 32, 16>>

VARIABLES
    kind, payload,   \* the message
    pos,             \* Cursor.pos
    count,           \* the declared count, Nil until it is read
    capacity,        \* of the vector allocated for the result
    out, unknown,    \* AdvertisedAddr's collected, entries skipped
    version,         \* VersionData
    result,          \* "reading", "ok" or the error
    seen             \* history: the entries consumed, as they were encoded

vars == <<kind, payload, pos, count, capacity, out, unknown, version, result, seen>>

AddrParseError == {"NonCanonicalOrTruncated", "TooMany", "WrongLength",
                   "InvalidNetworkEncoding", "TrailingBytes"}

-----------------------------------------------------------------------------
(* Cursor: a read past the end fails.  A failed read leaves the cursor     *)
(* beyond the payload, so every later read of the same parser fails too,   *)
(* as the `?` behind each of them has it.                                  *)
Has(p, n) == p + n <= Len(payload)
Take(p, n) == SubSeq(payload, p + 1, p + n)
NoValue == [val |-> 0, end |-> Len(payload) + 1]

(* Numbers at p: little endian, the port big endian; two's complement.     *)
U16(p) == payload[p + 1] + Base * payload[p + 2]
U32(p) == U16(p) + B2 * U16(p + 2)
U64(p) == U32(p) + B4 * U32(p + 4)
PortAt(p) == Base * payload[p + 1] + payload[p + 2]
Signed(b, v) == IF 2 * v >= b THEN v - b ELSE v

(* Digits that follow a prefix, and the least value that needs them. *)
Width(prefix) == IF prefix = Base - 1 THEN 8
                 ELSE IF prefix = Base - 2 THEN 4
                 ELSE IF prefix = Base - 3 THEN 2 ELSE 0

(* Mutant: the largest value of each shorter form passes in the longer. *)
LeastOffByOne(width) == IF width = 8 THEN B4 - 1 ELSE IF width = 4 THEN B2 - 1
                        ELSE IF width = 2 THEN Base - 4 ELSE 0

Least(width) == IF width = 8 THEN B4 ELSE IF width = 4 THEN B2
                ELSE IF width = 2 THEN Base - 3 ELSE 0

ValueAt(p) == IF payload[p + 1] = Base - 1 THEN U64(p + 1)
              ELSE IF payload[p + 1] = Base - 2 THEN U32(p + 1)
              ELSE IF payload[p + 1] = Base - 3 THEN U16(p + 1) ELSE payload[p + 1]

(* compact_size_canonical *)
CompactAt(p) ==
    IF ~Has(p, 1) THEN NoValue
    ELSE LET width == Width(payload[p + 1])
         IN IF Has(p + 1, width) /\ ValueAt(p) >= Least(width)
            THEN [val |-> ValueAt(p), end |-> p + 1 + width]
            ELSE NoValue

-----------------------------------------------------------------------------
(* Writing numbers: to_le_bytes, to_be_bytes, write_compact_size.          *)
LE2Bytes(v) == <<v % Base, v \div Base>>
LE4Bytes(v) == LE2Bytes(v % B2) \o LE2Bytes(v \div B2)
LE8Bytes(v) == LE4Bytes(v % B4) \o LE4Bytes(v \div B4)
PortBytes(v) == <<v \div Base, v % Base>>
Unsigned(b, v) == IF v < 0 THEN v + b ELSE v

CompactBytes(v) == IF v <= Base - 4 THEN <<v>>
                   ELSE IF v < B2 THEN <<Base - 3>> \o LE2Bytes(v)
                   ELSE IF v < B4 THEN <<Base - 2>> \o LE4Bytes(v)
                   ELSE <<Base - 1>> \o LE8Bytes(v)

-----------------------------------------------------------------------------
(* Hosts.  A host is the text form it is printed in with the bytes it      *)
(* stands for; printing them (Display, base32, the onion checksum) is one  *)
(* to one.                                                                 *)
MappedPrefix == [i \in 1 .. 12 |-> IF i > 10 THEN FF ELSE 0]
Ipv4Mapped(ip) == SubSeq(ip, 1, 12) = MappedPrefix

Host(form, bytes) == [form |-> form, bytes |-> bytes]

(* classify, on the hosts the parsers produce: dotted quads, IPv6 texts    *)
(* (fc00::/8 is CJDNS), .onion labels of 16 and 56, .b32.i2p labels of 52. *)
Classify(host) ==
    CASE host.form = "dotted" -> "ipv4"
      [] host.form = "colons" -> IF host.bytes[1] = FC THEN "cjdns" ELSE "ipv6"
      [] host.form = "onion" -> IF Len(host.bytes) = 10 THEN "onion_v2" ELSE "onion_v3"
      [] host.form = "b32.i2p" -> "i2p"

(* decode_legacy_ip *)
LegacyHost(ip) == IF Ipv4Mapped(ip) THEN Host("dotted", SubSeq(ip, 13, 16))
                  ELSE Host("colons", ip)
LegacyNetwork(ip) == IF Ipv4Mapped(ip) THEN "ipv4" ELSE "ipv6"

(* Mutant: an fc00::/8 address passes as BIP155 IPv6. *)
InvalidEncodingMapped(id, addr) ==
    \/ id = 2 /\ Ipv4Mapped(addr)
    \/ id = 6 /\ addr[1] # FC

(* decode_addrv2: the encodings it refuses, and the host of the others. *)
InvalidEncoding(id, addr) ==
    \/ id = 2 /\ (Ipv4Mapped(addr) \/ addr[1] = FC)
    \/ id = 6 /\ addr[1] # FC

HostOf(id, addr) == CASE id = 1 -> Host("dotted", addr)
                      [] id \in {2, 6} -> Host("colons", addr)
                      [] id \in {3, 4} -> Host("onion", addr)
                      [] id = 5 -> Host("b32.i2p", addr)

AdvertisedAddr(host, network, e) ==
    [host |-> host, port |-> e.port, network |-> network, timestamp |-> e.timestamp,
     services |-> e.services, wire_network_id |-> e.id]

-----------------------------------------------------------------------------
(* One entry at p: [error, entry, end], error = Nil when it is sound.      *)
Failed(error) == [error |-> error, entry |-> Nil, end |-> 0]

LegacyEntryAt(p) ==
    IF ~Has(p, 30) THEN Failed("NonCanonicalOrTruncated")
    ELSE [error |-> Nil, end |-> p + 30,
          entry |-> [timestamp |-> U32(p), services |-> U64(p + 4), id |-> 2,
                     addr |-> Take(p + 12, 16), port |-> PortAt(p + 28)]]

Addrv2EntryAt(p) ==
    LET services == CompactAt(p + 4)
        length == CompactAt(services.end + 1)
        id == payload[services.end + 1]
        addr == Take(length.end, length.val)
        end == length.end + length.val + 2
    IN IF length = NoValue THEN Failed("NonCanonicalOrTruncated")
       ELSE IF \/ length.val > MaxLength
               \/ id \in KnownIds /\ length.val # ExpectedLength[id]
       THEN Failed("WrongLength")
       ELSE IF end > Len(payload) THEN Failed("NonCanonicalOrTruncated")
       ELSE IF InvalidEncoding(id, addr) THEN Failed("InvalidNetworkEncoding")
       ELSE [error |-> Nil, end |-> end,
             entry |-> [timestamp |-> U32(p), services |-> services.val, id |-> id,
                        addr |-> addr, port |-> PortAt(end - 2)]]

EntryAt(p) == IF kind = "addr" THEN LegacyEntryAt(p) ELSE Addrv2EntryAt(p)

(* What an entry adds to the result: one address, none for an unknown id. *)
Advertised(k, e) ==
    IF k = "addr"
    THEN <<AdvertisedAddr(LegacyHost(e.addr), LegacyNetwork(e.addr), e)>>
    ELSE IF e.id \in KnownIds
    THEN <<AdvertisedAddr(HostOf(e.id, e.addr), NetworkOf[e.id], e)>>
    ELSE <<>>

-----------------------------------------------------------------------------
Init ==
    /\ \E m \in Messages : kind = m.kind /\ payload \in Variants(m.bytes)
    /\ pos = 0 /\ count = Nil /\ capacity = 0
    /\ out = <<>> /\ unknown = 0
    /\ version = Nil
    /\ result = "reading"
    /\ seen = <<>>

Reject(error) ==
    /\ result' = error
    /\ UNCHANGED <<pos, out, unknown, seen>>

(* Mutant: the vector is allocated before check_addr_count. *)
ReadCountUnchecked ==
    /\ kind # "version"
    /\ result = "reading" /\ count = Nil
    /\ LET n == CompactAt(0)
       IN IF n = NoValue
          THEN Reject("NonCanonicalOrTruncated") /\ UNCHANGED <<count, capacity>>
          ELSE /\ capacity' = n.val
               /\ IF n.val > MAX_ADDR_TO_SEND
                  THEN Reject("TooMany") /\ UNCHANGED count
                  ELSE /\ count' = n.val /\ pos' = n.end
                       /\ UNCHANGED <<out, unknown, result, seen>>
    /\ UNCHANGED <<kind, payload, version>>

(* parse_addr, parse_addrv2 up to the loop. *)
ReadCount ==
    /\ kind # "version"
    /\ result = "reading" /\ count = Nil
    /\ LET n == CompactAt(0)
       IN IF n = NoValue
          THEN Reject("NonCanonicalOrTruncated") /\ UNCHANGED <<count, capacity>>
          ELSE IF n.val > MAX_ADDR_TO_SEND
          THEN Reject("TooMany") /\ UNCHANGED <<count, capacity>>
          ELSE /\ count' = n.val /\ capacity' = n.val /\ pos' = n.end
               /\ UNCHANGED <<out, unknown, result, seen>>
    /\ UNCHANGED <<kind, payload, version>>

(* One turn of the loop. *)
ReadEntry ==
    /\ result = "reading" /\ count # Nil
    /\ Len(seen) < count
    /\ LET r == EntryAt(pos)
       IN IF r.error # Nil
          THEN Reject(r.error)
          ELSE /\ pos' = r.end
               /\ seen' = Append(seen, r.entry)
               /\ out' = out \o Advertised(kind, r.entry)
               /\ unknown' = unknown + (1 - Len(Advertised(kind, r.entry)))
               /\ UNCHANGED result
    /\ UNCHANGED <<kind, payload, count, capacity, version>>

(* Mutant: what follows the vector is ignored. *)
FinishLoose ==
    /\ result = "reading" /\ count # Nil
    /\ Len(seen) = count
    /\ result' = "ok"
    /\ UNCHANGED <<kind, payload, pos, count, capacity, out, unknown, version, seen>>

(* finish_addr_parse *)
Finish ==
    /\ result = "reading" /\ count # Nil
    /\ Len(seen) = count
    /\ result' = IF Has(pos, 1) THEN "TrailingBytes" ELSE "ok"
    /\ UNCHANGED <<kind, payload, pos, count, capacity, out, unknown, version, seen>>

-----------------------------------------------------------------------------
(* parse_version.  parse_version_netaddr reads 26 bytes.  The user agent is *)
(* kept as its bytes (the code: its text, or their hex if it is not UTF-8). *)
NetaddrAt(p) == [services |-> U64(p), host |-> LegacyHost(Take(p + 8, 16)),
                 port |-> PortAt(p + 24)]

(* Mutant: a peer that does not say whether it relays does not relay. *)
RelayAbsentFalse(v, p) == v >= RelayVersion /\ Has(p, 1) /\ payload[p + 1] # 0

(* The relay byte at p, taken as true when the version or the byte is missing. *)
RelayAt(v, p) == v >= RelayVersion /\ Has(p, 1) => payload[p + 1] # 0

ShortVersion ==
    [version |-> Signed(B4, U32(0)), services |-> U64(4),
     timestamp |-> Signed(B8, U64(12)), addr_recv |-> NetaddrAt(20),
     addr_from |-> Nil, nonce |-> Nil, user_agent |-> <<>>, latest_block |-> 0,
     relay |-> TRUE]

ParsedVersion ==
    IF ~Has(0, 46) THEN Nil
    ELSE IF ShortVersion.version < AddrFromVersion THEN ShortVersion
    ELSE LET length == CompactAt(80)
             end == length.end + length.val + 4
         IN IF length.val > MAX_SUBVERSION_LENGTH \/ end > Len(payload) THEN Nil
            ELSE [ShortVersion EXCEPT
                    !.addr_from = NetaddrAt(46),
                    !.nonce = U64(72),
                    !.user_agent = Take(length.end, length.val),
                    !.latest_block = Signed(B4, U32(end - 4)),
                    !.relay = RelayAt(ShortVersion.version, end)]

ReadVersion ==
    /\ kind = "version"
    /\ result = "reading"
    /\ version' = ParsedVersion
    /\ result' = IF ParsedVersion = Nil THEN "None" ELSE "ok"
    /\ UNCHANGED <<kind, payload, pos, count, capacity, out, unknown, seen>>

Done == result # "reading" /\ UNCHANGED vars

Next == ReadCount \/ ReadEntry \/ Finish \/ ReadVersion \/ Done

Spec == Init /\ [][Next]_vars

-----------------------------------------------------------------------------
(* The fields of an entry and of a version message, each in its width.  A  *)
(* parser yields nothing else, and what is encoded has nothing else.       *)
Entry == [timestamp : 0 .. B4 - 1, services : 0 .. B8 - 1, id : Bytes, addr : Seq(Bytes),
          port : 0 .. B2 - 1]

LegacyHosts ==
    {h \in [form : {"dotted", "colons"}, bytes : Seq(Bytes)] :
        IF h.form = "dotted" THEN Len(h.bytes) = 4
        ELSE Len(h.bytes) = 16 /\ ~Ipv4Mapped(h.bytes)}
Netaddr == [services : 0 .. B8 - 1, host : LegacyHosts, port : 0 .. B2 - 1]

VersionData ==
    {v \in [version : Int, services : 0 .. B8 - 1, timestamp : Int, addr_recv : Netaddr,
             addr_from : Netaddr \cup {Nil}, nonce : Nat \cup {Nil},
             user_agent : Seq(Bytes), latest_block : Int, relay : BOOLEAN] :
        /\ IsSigned(B4, v.version) /\ IsSigned(B8, v.timestamp)
        /\ IsSigned(B4, v.latest_block)
        /\ IF v.version < AddrFromVersion
           THEN /\ v.addr_from = Nil /\ v.nonce = Nil
                /\ v.user_agent = <<>> /\ v.latest_block = 0 /\ v.relay = TRUE
           ELSE /\ v.addr_from # Nil /\ v.nonce \in 0 .. B8 - 1
                /\ Len(v.user_agent) <= MAX_SUBVERSION_LENGTH}

ASSUME MessageAssumption ==
    /\ \A m \in Messages : m.kind \in Kind /\ Variants(m.bytes) \subseteq Seq(Bytes)
    /\ AddrVectors \subseteq Seq(Entry) /\ Addrv2Vectors \subseteq Seq(Entry)
    /\ Versions \subseteq VersionData /\ \A v \in Versions : v.relay = TRUE

ASSUME NilAssumption ==
    Nil \notin Nat /\ Nil \notin AddrParseError /\ Nil \notin Netaddr /\ Nil \notin VersionData

-----------------------------------------------------------------------------
(* Reference encodings, as BIP155 and the version message define them.     *)
EntryBytes(k, e) ==
    LE4Bytes(e.timestamp)
    \o (IF k = "addr" THEN LE8Bytes(e.services)
        ELSE CompactBytes(e.services) \o <<e.id>> \o CompactBytes(Len(e.addr)))
    \o e.addr \o PortBytes(e.port)

VectorBytes(k, es) ==
    CompactBytes(Len(es)) \o FlattenSeq([i \in DOMAIN es |-> EntryBytes(k, es[i])])

LegalEntry(k, e) ==
    IF k = "addr" THEN e.id = 2 /\ Len(e.addr) = 16
    ELSE /\ Len(e.addr) <= MaxLength
         /\ e.id \in KnownIds => Len(e.addr) = ExpectedLength[e.id]
         /\ e.id = 2 => e.addr[1] # FC /\ SubSeq(e.addr, 1, 12) # MappedPrefix
         /\ e.id = 6 => e.addr[1] = FC

LegalVector(k, es) ==
    Len(es) <= MAX_ADDR_TO_SEND /\ \A i \in DOMAIN es : LegalEntry(k, es[i])

AddrEncodings == {VectorBytes("addr", es) : es \in {v \in AddrVectors : LegalVector("addr", v)}}
Addrv2Encodings ==
    {VectorBytes("addrv2", es) : es \in {v \in Addrv2Vectors : LegalVector("addrv2", v)}}
Encodings == IF kind = "addr" THEN AddrEncodings ELSE Addrv2Encodings

HostBytes(host) == IF host.form = "dotted" THEN MappedPrefix \o host.bytes ELSE host.bytes
NetaddrBytes(a) == LE8Bytes(a.services) \o HostBytes(a.host) \o PortBytes(a.port)

(* The version message without its relay byte; build_version writes one    *)
(* with a relay byte of 0.                                                 *)
VersionBytes(v) ==
    LE4Bytes(Unsigned(B4, v.version)) \o LE8Bytes(v.services)
    \o LE8Bytes(Unsigned(B8, v.timestamp))
    \o NetaddrBytes(v.addr_recv)
    \o (IF v.version < AddrFromVersion THEN <<>>
        ELSE NetaddrBytes(v.addr_from) \o LE8Bytes(v.nonce)
             \o CompactBytes(Len(v.user_agent)) \o v.user_agent
             \o LE4Bytes(Unsigned(B4, v.latest_block)))

(* A zero where the relay byte belongs. *)
SaysNoRelay(v) ==
    /\ v[1].version >= RelayVersion
    /\ Len(payload) > Len(v[2])
    /\ payload[Len(v[2]) + 1] = 0

VersionEncodings == {<<v, VersionBytes(v)>> : v \in Versions}

-----------------------------------------------------------------------------
(* Properties *)

IsVector == kind # "version" /\ result # "reading"

TypeOK ==
    /\ kind \in Kind
    /\ payload \in Seq(Bytes)
    /\ pos \in 0 .. Len(payload)
    /\ count \in Nat \cup {Nil}
    /\ capacity \in 0 .. MAX_ADDR_TO_SEND
    /\ \A i \in DOMAIN out : out[i].network \in Network
    /\ unknown \in Nat
    /\ result \in {"reading", "ok", "None"} \cup AddrParseError
    /\ count # Nil => Len(seen) <= count /\ Len(out) + unknown = Len(seen)

(***************************************************************************)
(* parse_addr and parse_addrv2 accept a payload exactly when it is the     *)
(* encoding of a legal vector: one accepted is the canonical encoding of   *)
(* the entries consumed, to the last byte, and yields the known ones in    *)
(* order; no encoding of a legal vector is refused.  So no two payloads    *)
(* mean the same, and a wrong CompactSize, length or byte order shows.     *)
(* What a message with a Tor v2 entry yields is left open (TorV2Ignored).  *)
(***************************************************************************)
AcceptsExactly ==
    IsVector =>
        IF result = "ok"
        THEN /\ LegalVector(kind, seen)
             /\ payload = VectorBytes(kind, seen)
             /\ Len(seen) = count
             /\ (\A i \in DOMAIN seen : seen[i].id # TorV2) =>
                   out = FlattenSeq([i \in DOMAIN seen |-> Advertised(kind, seen[i])])
        ELSE payload \notin Encodings

(***************************************************************************)
(* FINDINGS_FIX_LOG.md: Tor v2 wire entries are ignored.  It does not      *)
(* hold: decode_addrv2 decodes them ("defunct, kept for completeness").    *)
(***************************************************************************)
TorV2Ignored == \A i \in DOMAIN out : out[i].network # "onion_v2"

(***************************************************************************)
(* The network an address is filed under is what classify says of its      *)
(* host, which is how the rest of the crawler names it (the responder in   *)
(* the log, process without an entry); the one exception is an fc00::/8    *)
(* host of a legacy addr message.  decode_addrv2 refuses what would        *)
(* otherwise be a second exception.                                        *)
(***************************************************************************)
NetworkAgrees ==
    \A i \in DOMAIN out :
        out[i].network # Classify(out[i].host) =>
            kind = "addr" /\ out[i].host.form = "colons" /\ out[i].host.bytes[1] = FC

(***************************************************************************)
(* A refusal says what is wrong: a message cut anywhere is truncated, one  *)
(* with bytes behind its last entry has trailing bytes, and no memory is   *)
(* reserved for a count beyond the limit.                                  *)
(***************************************************************************)
RefusalExplained ==
    /\ capacity <= MAX_ADDR_TO_SEND
    /\ IsVector => \A e \in Encodings :
          /\ IsStrictPrefix(payload, e) => result = "NonCanonicalOrTruncated"
          /\ IsStrictPrefix(e, payload) => result = "TrailingBytes"

(***************************************************************************)
(* parse_version reads back what a version message says, whatever follows  *)
(* it, for any combination of the fields that depend on the version, and   *)
(* accepts nothing else; build_version's own message is one of them.       *)
(***************************************************************************)
VersionExact ==
    kind = "version" /\ result # "reading" =>
        /\ result = "ok" =>
              /\ IsPrefix(VersionBytes(version), payload)
              /\ Len(version.user_agent) <= MAX_SUBVERSION_LENGTH
        /\ \A v \in VersionEncodings :
              IsPrefix(v[2], payload) =>
                  /\ result = "ok"
                  /\ version = [v[1] EXCEPT !.relay = ~SaysNoRelay(v)]
=============================================================================
