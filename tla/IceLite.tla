------------------------------- MODULE IceLite -------------------------------
(***************************************************************************)
(* The STUN side of the ICE-lite agent, src/webrtc/ice_lite.c: pure functions   *)
(* on datagrams.  A datagram is [b0, type, cookie, length, tid, attrs]: its      *)
(* first byte, the message type, whether the magic cookie is there, the length    *)
(* field of the header, the transaction and the attributes.  An attribute is      *)
(* [type, size, value], size counting its header and padding.  A MAC or a         *)
(* checksum is the record of what it was computed over, so that two are equal     *)
(* exactly when their inputs are.                                             *)
(***************************************************************************)
EXTENDS Integers, Sequences, FiniteSetsExt

\* rtc_classify_packet: the first byte tells the protocols on the port apart.
rtc_classify_packet(b) ==
  CASE b \in 0..3    -> "stun"
    [] b \in 20..63  -> "dtls"
    [] b >= 128      -> "rtp"
    [] OTHER         -> "other"

\* The octets of the first n attributes.
Octets(attrs, n) == MapThenSumSet(LAMBDA i : attrs[i].size, 1..n)

\* The length field does not claim more than the datagram holds.
WellSized(m) == m.length <= Octets(m.attrs, Len(m.attrs))

stun_is_binding_request(m) == m.type = "request" /\ m.cookie /\ WellSized(m)

stun_is_binding_indication(m) == m.type = "indication" /\ m.cookie /\ WellSized(m)

\* stun_find_attribute: the index of the first attribute of the type inside the
\* length field's part of the datagram, or 0.
stun_find_attribute(m, wanted) ==
  IF ~WellSized(m) THEN 0
  ELSE LET seen == {i \in DOMAIN m.attrs : Octets(m.attrs, i) <= m.length}
           hits == {i \in seen : m.attrs[i].type = wanted}
       IN  IF hits = {} THEN 0 ELSE CHOOSE i \in hits : \A j \in hits : i <= j

\* stun_username_matches: a user name is the sequence of its fragments.
stun_username_matches(m, ufrag) ==
  LET i == stun_find_attribute(m, "username")
  IN  /\ i # 0
      /\ LET name == m.attrs[i].value
         IN  /\ Len(name) >= 2
             /\ name[1] = ufrag \/ Tail(name) = <<ufrag>>

-----------------------------------------------------------------------------
(* MESSAGE-INTEGRITY and FINGERPRINT *)

MiSize == 24
FingerprintSize == 8

\* The message up to, and without, its attribute n + 1, with another length field.
UpTo(m, n, length) == [m EXCEPT !.attrs = SubSeq(@, 1, n), !.length = length]

Hmac(key, m) == [key |-> key, over |-> m]

Crc(m) == [crc |-> m]

\* Slip: the MAC is computed over the datagram as it came, length field included.
MutVerifyMi(m, key) ==
  LET i == stun_find_attribute(m, "integrity")
  IN  i # 0 /\ m.attrs[i].value = Hmac(key, UpTo(m, i - 1, m.length))

\* stun_verify_mi: whatever follows the attribute is left out, and the length field
\* is the one the sender had when it computed the MAC.
stun_verify_mi(m, key) ==
  LET i == stun_find_attribute(m, "integrity")
  IN  /\ i # 0 /\ m.attrs[i].size = MiSize
      /\ m.attrs[i].value = Hmac(key, UpTo(m, i - 1, Octets(m.attrs, i - 1) + MiSize))

\* m with the attribute appended and the length field counting it.
Append1(m, a) == [m EXCEPT !.attrs = Append(@, a), !.length = @ + a.size]

WithIntegrity(m, key) ==
  Append1(m, [type |-> "integrity", size |-> MiSize,
              value |-> Hmac(key, [m EXCEPT !.length = @ + MiSize])])

WithFingerprint(m) ==
  Append1(m, [type |-> "fingerprint", size |-> FingerprintSize,
              value |-> Crc([m EXCEPT !.length = @ + FingerprintSize])])

-----------------------------------------------------------------------------
(* The answers *)

PortCookie == 8466      \* 0x2112

\* The exclusive or of two 16-bit numbers: bit by bit, the sum without its carry.
XorMapped(port) ==
  MapThenSumSet(LAMBDA i : 2^i * ((port \div 2^i + PortCookie \div 2^i) % 2), 0..15)

Header(b0, type, tid) ==
  [b0 |-> b0, type |-> type, cookie |-> TRUE, length |-> 0, tid |-> tid, attrs |-> <<>>]

stun_build_binding_response(m, key, port) ==
  WithFingerprint(WithIntegrity(
    Append1(Header(1, "response", m.tid),
            [type |-> "mapped", size |-> 12, value |-> XorMapped(port)]), key))

stun_build_error_response(tid, code) ==
  Append1(Append1(Header(1, "error", tid),
                  [type |-> "software", size |-> 16, value |-> "camstream"]),
          [type |-> "errorcode", size |-> 12,
           value |-> [class |-> code \div 100, number |-> code % 100]])
=============================================================================
