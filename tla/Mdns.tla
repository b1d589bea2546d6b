--------------------------------- MODULE Mdns ---------------------------------
(***************************************************************************)
(* The mDNS responder (src/net/mdns.c): it probes for <label>.local,       *)
(* announces it, answers queries, and after a conflict renames itself to   *)
(* <label>-2.local and starts over.  Several camstream hosts on one        *)
(* network run it side by side.                                            *)
(*                                                                         *)
(* The clock ticks every 250 ms (MDNS_PROBE_INTERVAL_MS).  mdns_service    *)
(* runs at least every 100 ms and multicast arrives faster still, so a     *)
(* tick comes only when nothing is due and nothing is in flight.  A        *)
(* response on the wire is what its records are made of (MdnsRecords); the *)
(* receiver does not look at their time to live, so a goodbye is a claim   *)
(* like any other.  Probes carry their records in the authority section of *)
(* a query without a question, which mdns_handle_packet returns from       *)
(* before looking at them, so no probe reaches anybody.                    *)
(*                                                                         *)
(* Every service call may find the rescan timer expired (two seconds, the  *)
(* longest interval here) and scan the interfaces (MdnsScan).  All         *)
(* interfaces are on one link; a host hears the group on an interface      *)
(* whose address its socket joined.                                        *)
(***************************************************************************)
EXTENDS MdnsRecords

CONSTANTS Hosts,
          ProbeCount,        \* MDNS_PROBE_COUNT
          AnnounceCount,     \* MDNS_ANNOUNCE_COUNT
          AnnounceInterval,  \* MDNS_ANNOUNCE_INTERVAL_MS in ticks
          ConflictInterval,  \* MDNS_CONFLICT_INTERVAL_MS in ticks
          SuffixMax,         \* MDNS_NAME_SUFFIX_MAX
          Label,             \* Label[n]: the label with suffix n
          IfLists,           \* lists getifaddrs may return
          FirstIfs,          \* the one it returns at boot
          Movable,           \* the hosts whose interfaces may change
          MaxQueries, MaxChanges, MaxBoots, MaxLosses, \* bounds: the environment
          MaxQuestions, MaxCells   \* bounds: packets read

VARIABLES r,      \* r[h]: the responder of host h
          ifs,    \* ifs[h]: what getifaddrs returns on host h
          scanned,  \* history: hosts that scanned their present interfaces
          wire,   \* responses in flight
          spent   \* what the environment has used of its bounds

vars == <<r, ifs, scanned, wire, spent>>

Addrs == UNION {ToSet(l) : l \in IfLists}

Responder ==
    [state: {"down", "probing", "announcing", "idle", "off"},
     suffix: 0..SuffixMax,          \* which name: label, label-2, ...
     probes_left: 0..ProbeCount,
     announces_left: 0..AnnounceCount,
     next_event: 0..AnnounceInterval,
     pending: SUBSET Groups,        \* pending_mask and pending_ms
     calm: 0..ConflictInterval,     \* time since last_conflict_ms
     addresses: UNION {[1..n -> Addrs] : n \in 0..MaxAddresses},
     joined: SUBSET Addrs,          \* addresses whose interface is in the group
     probed: 0..ProbeCount,         \* history: probes for this name
     announced: 0..AnnounceCount]   \* history: announcements of this name and
                                    \* these addresses

Down == [state |-> "down", suffix |-> 0, probes_left |-> 0, announces_left |-> 0,
         next_event |-> 0, pending |-> {}, calm |-> ConflictInterval,
         addresses |-> <<>>, joined |-> {}, probed |-> 0, announced |-> 0]

Init ==
    /\ r = [h \in Hosts |-> Down]
    /\ ifs = [h \in Hosts |-> FirstIfs]
    /\ scanned = {}
    /\ wire = {}
    /\ spent = [queries |-> 0, changes |-> 0, boots |-> 0, losses |-> 0]

Capped(n, cap) == IF n > cap THEN cap ELSE n

\* build_response and send_to_group: what responder m of host h sends goes out on
\* every address it knows and the host still has, to every other host.
Claims(h, m, groups) ==
    IF ToSet(m.addresses) \cap ToSet(ifs[h]) = {} THEN {}
    ELSE {[to |-> k, from |-> h, suffix |-> m.suffix, addresses |-> m.addresses,
           groups |-> groups] : k \in Hosts \ {h}}

Answers(p) == RecordSet(p.from, Label[p.suffix], p.addresses, p.groups)

\* The group reaches a host through an interface that is up and joined.
Hears(h) == ToSet(ifs[h]) \cap r[h].joined # {}

\* An interface comes, goes or changes its address.
Reconfigure(h) ==
    /\ h \in Movable
    /\ spent.changes < MaxChanges
    /\ \E list \in IfLists \ {ifs[h]} : ifs' = [ifs EXCEPT ![h] = list]
    /\ scanned' = scanned \ {h}
    /\ spent' = [spent EXCEPT !.changes = @ + 1]
    /\ UNCHANGED <<r, wire>>

-----------------------------------------------------------------------------
(* mdns_responder_create, mdns_responder_destroy *)

Boot(h) ==
    /\ r[h].state = "down"
    /\ spent.boots < MaxBoots
    /\ r' = [r EXCEPT ![h] = [Down EXCEPT !.state = "probing",
                                          !.probes_left = ProbeCount,
                                          !.next_event = 1,
                                          !.addresses = Found(ifs[h]),
                                          !.joined = ToSet(Found(ifs[h]))]]
    /\ scanned' = scanned \cup {h}
    /\ spent' = [spent EXCEPT !.boots = @ + 1]
    /\ UNCHANGED <<ifs, wire>>

\* send_goodbye: the records with TTL 0, also from a host that only probes.
Destroy(h) ==
    /\ r[h].state # "down"
    /\ spent.boots = MaxBoots
    /\ r' = [r EXCEPT ![h] = Down]
    /\ wire' = IF r[h].state = "off" THEN wire ELSE wire \cup Claims(h, r[h], Groups)
    /\ UNCHANGED <<ifs, scanned, spent>>

-----------------------------------------------------------------------------
(* rename_after_conflict, called from handle_response *)

TooSoon(m) == m.calm < ConflictInterval

\* Slip: the probe counter is left as it is.
MutProbesAfterRename(m) == m.probes_left
ProbesAfterRename(m) == ProbeCount

OutOfNames(m) == m.suffix >= SuffixMax

Rename(m) ==
    IF TooSoon(m) THEN m
    ELSE IF OutOfNames(m)
         THEN [m EXCEPT !.calm = 0, !.state = "off"]
         ELSE [m EXCEPT !.calm = 0, !.state = "probing",
                        !.suffix = @ + 1,
                        !.probes_left = ProbesAfterRename(m),
                        !.next_event = 1,
                        !.probed = 0, !.announced = 0]

\* Slip: a host that has its name no longer listens for conflicts.
MutConflicts(m, p) ==
    /\ m.state = "probing"
    /\ \E rec \in Answers(p) : Contradicts(p.to, Label[m.suffix], m.addresses, rec)
Conflicts(m, p) ==
    /\ m.state \notin {"down", "off"}
    /\ \E rec \in Answers(p) : Contradicts(p.to, Label[m.suffix], m.addresses, rec)

\* mdns_handle_packet on a response: another host's records on our name.
Receive(p) ==
    /\ p \in wire
    /\ wire' = wire \ {p}
    /\ r' = IF Hears(p.to) /\ Conflicts(r[p.to], p) THEN [r EXCEPT ![p.to] = Rename(@)]
            ELSE r
    /\ UNCHANGED <<ifs, scanned, spent>>

Lose(p) ==
    /\ spent.losses < MaxLosses
    /\ p \in wire
    /\ wire' = wire \ {p}
    /\ spent' = [spent EXCEPT !.losses = @ + 1]
    /\ UNCHANGED <<r, ifs, scanned>>

MayAnswer(m) == m.state \in {"announcing", "idle"}

\* What a resolver may ask h, and the answers it may have.
Questions(m) ==
    {[name |-> Host(Label[m.suffix]), type |-> "A"], [name |-> HttpService, type |-> "PTR"]}
Caches(h, m) ==
    {SetToSeq({[rec |-> rec, ttl |-> TtlShared] :
                 rec \in RecordSet(h, Label[m.suffix], m.addresses, groups)}) :
       groups \in {{}, {"SRV_TXT"}}}

\* mdns_handle_packet on a query for something h owns: collect the reply.  A reply
\* to one asker (a legacy port, the QU bit) goes out at once and only there: it
\* changes nothing here.
Query(h) ==
    /\ MayAnswer(r[h])
    /\ spent.queries < MaxQueries
    /\ \E q \in Questions(r[h]), known \in Caches(h, r[h]) :
         LET label == Label[r[h].suffix]
             mask == answer_mask(label, q)
                       \ suppress_known_answers(h, label, r[h].addresses, known)
         IN /\ mask # {}
            /\ r' = [r EXCEPT ![h].pending = @ \cup mask]
    /\ spent' = [spent EXCEPT !.queries = @ + 1]
    /\ UNCHANGED <<ifs, scanned, wire>>

-----------------------------------------------------------------------------
(* mdns_service *)

\* The address set changed: announce again, if there is something to announce.
Reannounce(m) ==
    IF m.addresses # <<>> /\ m.state \in {"announcing", "idle"}
    THEN [m EXCEPT !.state = "announcing", !.announces_left = AnnounceCount,
                   !.next_event = 0, !.announced = 0]
    ELSE m

\* The responders a scan may leave behind.
AfterScan(m, list) ==
    LET found == Found(list)
    IN IF ~Changed(m.addresses, found) THEN {m}
       ELSE {Reannounce([m EXCEPT !.addresses = found,
                !.joined = (@ \ left) \cup Joins(m.addresses, found)]) :
                left \in Dropped(m.addresses, found)}

Due(m) == m.state \in {"probing", "announcing"} /\ m.next_event = 0

AnnouncesAfterProbes(m) == AnnounceCount

\* The timed step of the state machine.
AfterEvent(m) ==
    IF ~Due(m) THEN m
    ELSE IF m.state = "probing"
    THEN LET last == m.probes_left = 1
         IN IF m.probes_left = 0 THEN m ELSE
            [m EXCEPT !.probes_left = @ - 1,
                      !.probed = Capped(@ + 1, ProbeCount),
                      !.next_event = 1,
                      !.state = IF last THEN "announcing" ELSE @,
                      !.announces_left = IF last THEN AnnouncesAfterProbes(m) ELSE @]
    ELSE LET left == IF m.announces_left > 0 THEN m.announces_left - 1 ELSE 0
         IN [m EXCEPT !.announces_left = left,
                      !.announced = IF m.announces_left > 0
                                    THEN Capped(@ + 1, AnnounceCount) ELSE @,
                      !.next_event = IF m.announces_left > 0 THEN AnnounceInterval ELSE @,
                      !.state = IF left = 0 THEN "idle" ELSE @]

Announces(m) == Due(m) /\ m.state = "announcing" /\ m.announces_left > 0

\* maybe_answer_multicast comes before the check for MDNS_OFF.  A scan of
\* interfaces that have not changed has no effect and is left out.
Service(h) ==
    /\ r[h].state # "down"
    /\ \E scan \in BOOLEAN, reply \in BOOLEAN :
        /\ scan => h \notin scanned
        /\ reply => r[h].pending # {}
        /\ \E m \in IF scan THEN AfterScan(r[h], ifs[h]) ELSE {r[h]} :
             /\ scan \/ reply \/ Due(m)
             /\ r' = [r EXCEPT ![h] = [AfterEvent(m) EXCEPT !.pending = IF reply THEN {} ELSE @]]
             /\ wire' = wire \cup (IF reply THEN Claims(h, m, m.pending) ELSE {})
                             \cup (IF Announces(m) THEN Claims(h, m, Groups) ELSE {})
             /\ scanned' = IF scan THEN scanned \cup {h} ELSE scanned
             /\ UNCHANGED <<ifs, spent>>

\* 250 ms pass: everything due was done and everything sent has arrived.
Tick ==
    /\ wire = {}
    /\ \A h \in Hosts : ~Due(r[h]) /\ r[h].pending = {}
    /\ r' = [h \in Hosts |->
                [r[h] EXCEPT !.next_event = IF @ > 0 THEN @ - 1 ELSE 0,
                             !.calm = Capped(@ + 1, ConflictInterval)]]
    /\ UNCHANGED <<ifs, scanned, wire, spent>>

Next ==
    \/ \E h \in Hosts : Boot(h) \/ Destroy(h) \/ Query(h) \/ Service(h) \/ Reconfigure(h)
    \/ \E p \in wire : Receive(p) \/ Lose(p)
    \/ Tick

Spec == Init /\ [][Next]_vars

\* The main loops of the hosts call mdns_readable and mdns_service again and
\* again, and time passes.
MainLoops == (\E h \in Hosts : Service(h)) \/ (\E p \in wire : Receive(p)) \/ Tick

FairSpec == Spec /\ WF_vars(MainLoops)

-----------------------------------------------------------------------------
\* The types of the responders (struct MdnsResponder) and of what is on the
\* network.
TypeOK ==
    /\ r \in [Hosts -> Responder]
    /\ \A p \in wire : p.to # p.from /\ p.groups \in SUBSET Groups \ {{}}
    /\ ifs \in [Hosts -> IfLists] /\ scanned \subseteq Hosts
    /\ spent \in [queries: 0..MaxQueries, changes: 0..MaxChanges,
                  boots: 0..MaxBoots, losses: 0..MaxLosses]
    /\ \A h \in Hosts : IsInjective(r[h].addresses)

\* A name is announced only after three probes for that very name, also after
\* renames in the middle of probing or announcing; and a host at rest has
\* announced the name it goes by, with the addresses it has now, twice since it
\* took them.  The types hold throughout.
ProbedBeforeAnnounced ==
    /\ TypeOK
    /\ \A h \in Hosts :
        /\ r[h].announced > 0 => r[h].probed = ProbeCount
        /\ r[h].state = "idle" /\ r[h].addresses # <<>>
             => r[h].announced = AnnounceCount

\* After a scan the records a host publishes name the addresses it has: no
\* address swapped for another goes unnoticed, however many there are.  A
\* resolver reads them in full: its questions arrive as it wrote them, compressed
\* or not, and what its own cache and the reply leave out is nothing it asked for.
PublishesCurrent ==
    /\ \A h \in scanned : r[h].state # "down"
                             => ToSet(r[h].addresses) = ToSet(Found(ifs[h]))
    /\ Init =>
         /\ \A h \in Hosts : \A list \in IfLists :
               AskersAreServed(h, Label[0], Found(list))
         /\ QuestionsReadBack({Host(Label[0]), Instance(Label[0]), HttpService},
                              {"A", "ANY"}, MaxQuestions)
         /\ ReadingEnds({LabelCell("local"), EndCell} \cup
                          {PointerCell(p) : p \in 1..(MaxCells + 1)}, MaxCells)

\* Hosts that hear each other and ended up with one name sort it out, as long as
\* fewer packets are lost than there are announcements of a name: in the end every
\* host is off or has a name of its own (send_announcement, rename_after_conflict).  The
\* condition is needed: a host that has announced its name says nothing more until
\* it is asked, so when all its announcements are lost two hosts keep one name for
\* as long as nobody asks for it.
Resolved ==
    <>[](spent.losses < AnnounceCount /\ \A h \in Hosts : Hears(h))
      => <>[](\A h, k \in Hosts :
                 h # k /\ r[h].state = "idle" /\ r[k].state = "idle"
                   => r[h].suffix # r[k].suffix)
=============================================================================
