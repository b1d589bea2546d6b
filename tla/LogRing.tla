------------------------------- MODULE LogRing -------------------------------
(***************************************************************************)
(* The log (src/app/log.c): a ring of the latest messages of every level,  *)
(* written and read under one lock, and its two readers in                 *)
(* src/app/app_server.c, GET /api/logs and "last_error" of /api/status.     *)
(* A message is its number and its level; 0 is ERROR and 3 is DEBUG.         *)
(***************************************************************************)
EXTENDS Naturals, Sequences, FiniteSetsExt

CONSTANTS LogCapacity,   \* LOG_RING_CAPACITY
          LogLimit,      \* the limit of a reply when none is given, 100
          LogRoom        \* messages that fit into the reply

Levels == 0..3
ERROR == 0
DEBUG == 3

EmptyLog == [ring |-> [i \in 0..LogCapacity - 1 |-> [seq |-> 0, level |-> DEBUG]],
             head |-> 0, count |-> 0, seq |-> 0, level_counts |-> [l \in Levels |-> 0]]

log_write(log, level) ==
    [ring |-> [log.ring EXCEPT ![log.head] = [seq |-> log.seq + 1, level |-> level]],
     head |-> (log.head + 1) % LogCapacity,
     count |-> IF log.count < LogCapacity THEN log.count + 1 ELSE log.count,
     seq |-> log.seq + 1,
     level_counts |-> [log.level_counts EXCEPT ![level] = @ + 1]]

\* The limit (0 for none) is applied before the level, and what does not fit is
\* the newest.
log_recent_json(log, limit, min_level) ==
    LET start == IF log.count = LogCapacity THEN log.head ELSE 0
        first == IF limit > 0 /\ log.count > limit THEN log.count - limit ELSE 0
        walk == [i \in 1..log.count - first |-> log.ring[(start + first + i - 1) % LogCapacity]]
        chosen == SelectSeq(walk, LAMBDA e : e.level <= min_level)
    IN SubSeq(chosen, 1, Min({Len(chosen), LogRoom}))

\* The number of the message shown as last_error, 0 for none.
latest_error(log) ==
    LET found == log_recent_json(log, 1, ERROR)
    IN IF log.level_counts[ERROR] = 0 \/ found = <<>> THEN 0 ELSE found[1].seq

\* A URI, as far as "?limit=...&level=..." is in it: each is given or not.
NoQuery == [limit |-> <<>>, level |-> <<>>]

\* The HTTP library cuts the URI at its "?" and keeps the query beside it.
mg_http_parse(target) == [uri |-> NoQuery, query |-> target]

Given(parameter, default) == IF parameter = <<>> THEN default ELSE parameter[1]

\* The handler looks for the query in message->uri.
handle_logs(log, message) ==
    LET limit == Given(message.uri.limit, LogLimit)
        minimum == Given(message.uri.level, DEBUG)
    IN IF limit \notin 1..LogCapacity \/ minimum \notin Levels THEN [status |-> 400]
       ELSE [status |-> 200, total |-> log.seq, errors |-> log.level_counts[ERROR],
             entries |-> log_recent_json(log, limit, minimum)]

-----------------------------------------------------------------------------
\* What is asked of /api/logs: limits and levels within and beyond their ranges.
Targets == [limit: {<<>>} \cup {<<n>> : n \in 0..(LogCapacity + 1)},
            level: {<<>>} \cup {<<l>> : l \in Levels \cup {DEBUG + 1}}]

\* What the readers say after any messages, the wrapped ring included.  A plain
\* GET /api/logs lists the last LogLimit messages, as many as fit, in the order
\* they were written; any other request gets messages that are still in the ring,
\* under their levels and in their order.  (It gets the same ones: the handler
\* never sees its limit and level.)  A last_error that is shown is the most recent
\* ERROR message, and one that was just logged is shown.  (It is not shown any
\* more once something else is logged.)
LogIsRecent(messages) ==
    LET n == Len(messages)
        after[k \in 0..n] ==
          IF k = 0 THEN EmptyLog ELSE log_write(after[k - 1], messages[k])
        log == after[n]
        errors == {k \in 1..n : messages[k] = ERROR}
        recent == Min({n, LogCapacity, LogLimit})
        numbers(reply) == [k \in DOMAIN reply.entries |-> reply.entries[k].seq]
    IN /\ numbers(handle_logs(log, mg_http_parse(NoQuery)))
            = [i \in 1..Min({recent, LogRoom}) |-> n - recent + i]
       /\ \A target \in Targets :
            LET reply == handle_logs(log, mg_http_parse(target))
                entries == reply.entries
            IN reply.status = 200 =>
                 /\ reply.total = n /\ reply.errors = Cardinality(errors)
                 /\ \A k \in DOMAIN entries :
                      /\ entries[k].seq \in (n - Min({n, LogCapacity}) + 1)..n
                      /\ entries[k].level = messages[entries[k].seq]
                      /\ k > 1 => entries[k - 1].seq < entries[k].seq
       /\ LET shown == latest_error(log)
          IN /\ shown # 0 => shown = Max(errors)
             /\ n \in errors => shown = n
=============================================================================
