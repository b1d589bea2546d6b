----------------------------- MODULE MdnsRecords ------------------------------
(***************************************************************************)
(* What the packets of src/net/mdns.c say: the records of a responder, the *)
(* questions it answers, the answers it keeps to itself because the asker  *)
(* has them, and the names in a packet with their compression pointers.    *)
(*                                                                         *)
(* A packet is a sequence of cells: a label, the end of a name, a pointer  *)
(* to an earlier cell, or what follows a name in a question (its type).    *)
(* Positions count cells where the code counts bytes.  The port and the    *)
(* TXT strings are those of every camstream host.                          *)
(***************************************************************************)
EXTENDS MdnsScan, FiniteSets

CONSTANTS TtlUnique, TtlShared,   \* MDNS_TTL_UNIQUE, MDNS_TTL_SHARED
          MaxJumps,               \* pointers dns_read_name follows
          MaxLabels               \* labels that fit MDNS_NAME_MAX

Groups == {"A", "PTR", "SRV_TXT", "SERVICE_TYPES"}

Host(label) == <<label, "local">>
HttpService == <<"_http", "_tcp", "local">>
Instance(label) == <<label>> \o HttpService
ServiceTypes == <<"_services", "_dns-sd", "_udp", "local">>

\* The publisher: host h under a label with some addresses.
Records(h, label, addresses, group) ==
    CASE group = "A" ->
           {[name |-> Host(label), type |-> "A", data |-> <<h, a>>] : a \in ToSet(addresses)}
      [] group = "PTR" ->
           {[name |-> HttpService, type |-> "PTR", data |-> Instance(label)]}
      [] group = "SRV_TXT" ->
           {[name |-> Instance(label), type |-> "SRV", data |-> Host(label)],
            [name |-> Instance(label), type |-> "TXT", data |-> <<"model", "path">>]}
      [] group = "SERVICE_TYPES" ->
           {[name |-> ServiceTypes, type |-> "PTR", data |-> HttpService]}

\* build_record_set
RecordSet(h, label, addresses, groups) ==
    UNION {Records(h, label, addresses, g) : g \in groups}

Wants(q, name, types) == q.name = name /\ q.type \in types \cup {"ANY"}

\* A browse for the service also brings the records of the instance.
answer_mask(label, q) ==
    {g \in Groups :
        \/ g = "A" /\ Wants(q, Host(label), {"A"})
        \/ g \in {"PTR", "SRV_TXT"} /\ Wants(q, HttpService, {"PTR"})
        \/ g = "SRV_TXT" /\ Wants(q, Instance(label), {"SRV", "TXT"})
        \/ g = "SERVICE_TYPES" /\ Wants(q, ServiceTypes, {"PTR"})}

\* Known answers: records with the time they still have to live.
Lasting(k) == k.ttl >= (IF k.rec.type = "PTR" THEN TtlShared ELSE TtlUnique) \div 2

\* The addresses the asker has are counted.
AddressesKnown(ours, lasting) ==
    Len(SelectSeq(lasting, LAMBDA k : k.rec \in ours)) = Cardinality(ours)

suppress_known_answers(h, label, addresses, known) ==
    LET lasting == SelectSeq(known, Lasting)
    IN {g \in Groups :
          LET ours == Records(h, label, addresses, g)
          IN IF g = "A" THEN addresses # <<>> /\ AddressesKnown(ours, lasting)
             ELSE ours \subseteq {k.rec : k \in ToSet(lasting)}}

\* record_matches_ours and its caller: a unique record on one of our names
\* whose data is not ours.
Contradicts(h, label, addresses, rec) ==
    /\ \/ rec.name = Host(label) /\ rec.type = "A"
       \/ rec.name = Instance(label) /\ rec.type \in {"SRV", "TXT"}
    /\ rec \notin RecordSet(h, label, addresses, Groups)

-----------------------------------------------------------------------------
(* Names in packets *)

LabelCell(text) == [kind |-> "label", text |-> text, to |-> 0]
EndCell == [kind |-> "end", text |-> "", to |-> 0]
PointerCell(to) == [kind |-> "pointer", text |-> "", to |-> to]
TypeCell(type) == [kind |-> "type", text |-> type, to |-> 0]

\* dns_write_name
WriteName(name) == [i \in DOMAIN name |-> LabelCell(name[i])] \o <<EndCell>>

Unreadable == [ok |-> FALSE, name |-> <<>>, next |-> 0]

\* dns_read_name from a position; next is 0 until a pointer was followed.
RECURSIVE ReadFrom(_, _, _, _, _)
ReadFrom(packet, position, jumps, name, next) ==
    IF position > Len(packet) THEN Unreadable
    ELSE LET cell == packet[position]
             behind == IF next = 0 THEN position + 1 ELSE next
         IN CASE cell.kind = "end" -> [ok |-> TRUE, name |-> name, next |-> behind]
              [] cell.kind = "pointer" ->
                   IF jumps = MaxJumps \/ cell.to > Len(packet) THEN Unreadable
                   ELSE ReadFrom(packet, cell.to, jumps + 1, name, behind)
              [] cell.kind = "label" ->
                   IF Len(name) = MaxLabels THEN Unreadable
                   ELSE ReadFrom(packet, position + 1, jumps, Append(name, cell.text), next)
              [] cell.kind = "type" -> Unreadable

dns_read_name(packet, offset) == ReadFrom(packet, offset, 0, <<>>, 0)

\* The loop of mdns_handle_packet over the questions: none if one is malformed.
RECURSIVE ReadOn(_, _, _, _)
ReadOn(packet, offset, count, questions) ==
    LET read == dns_read_name(packet, offset)
    IN IF count = 0 THEN questions
       ELSE IF ~read.ok \/ read.next > Len(packet) THEN <<>>
       ELSE ReadOn(packet, read.next + 1, count - 1,
                   Append(questions, [name |-> read.name, type |-> packet[read.next].text]))

ReadQuestions(packet, offset, count) == ReadOn(packet, offset, count, <<>>)

-----------------------------------------------------------------------------
(* The resolver on the other side *)

\* The ways to write a name behind a packet: in full, or its first labels and a
\* pointer to where the packet has the rest.
Spellings(packet, name) ==
    {WriteName(name)} \cup
    {[i \in 1..n |-> LabelCell(name[i])] \o <<PointerCell(p)>> :
        <<n, p>> \in {x \in (0..(Len(name) - 1)) \X DOMAIN packet :
                        LET there == dns_read_name(packet, x[2])
                        IN there.ok /\ there.name = SubSeq(name, x[1] + 1, Len(name))}}

RECURSIVE Packets(_)
Packets(questions) ==
    IF questions = <<>> THEN {<<>>}
    ELSE LET q == Last(questions)
         IN {packet \o s \o <<TypeCell(q.type)>> :
               <<packet, s>> \in UNION {{p} \X Spellings(p, q.name) :
                                          p \in Packets(Front(questions))}}

\* Every question is read back as it was asked, however the asker compressed the
\* names, and so is every question behind it: the position behind a name is that
\* of its first pointer.
QuestionsReadBack(names, types, count) ==
    \A questions \in [1..count -> [name: names, type: types]] :
      \A packet \in Packets(questions) :
        ReadQuestions(packet, 1, count) = questions

\* A pointer that leads nowhere or into a circle ends the name, wherever it is.
ReadingEnds(cells, length) ==
    \A packet \in [1..length -> cells] : \A offset \in DOMAIN packet :
      LET read == dns_read_name(packet, offset)
      IN read.ok => /\ Len(read.name) <= MaxLabels
                    /\ read.next \in (offset + 1)..(length + 1)
                    /\ \E i \in DOMAIN packet : packet[i] = EndCell

\* What an asker holds after the reply, from its cache with half of the time to
\* live left or from the reply, is everything its question asks for.
AskersAreServed(h, label, addresses) ==
    LET own == RecordSet(h, label, addresses, Groups)
        cached(rec, ttl) == [rec |-> rec, ttl |-> ttl]
        half(rec) == (IF rec.type = "PTR" THEN TtlShared ELSE TtlUnique) \div 2
        held(lasting, ending) == SetToSeq({cached(rec, half(rec)) : rec \in lasting}
                                    \cup {cached(rec, half(rec) - 1) : rec \in ending})
    IN \A rec \in own : \A type \in {rec.type, "ANY"} :
         \A lasting \in SUBSET own : \A ending \in {{}, own \ lasting} :
           LET q == [name |-> rec.name, type |-> type]
               reply == RecordSet(h, label, addresses,
                          answer_mask(label, q) \ suppress_known_answers(
                             h, label, addresses, held(lasting, ending)))
           IN \A asked \in own : Wants(q, asked.name, {asked.type})
                => asked \in lasting \cup reply
=============================================================================
