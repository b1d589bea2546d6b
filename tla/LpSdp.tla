-------------------------------- MODULE LpSdp ---------------------------------
(***************************************************************************)
(* src/lpstream/lp_sdp.c: a browser's answer is rebuilt into one libpeer   *)
(* can read.  An answer is the sequence of its lines, a line the record of *)
(* its tag and of what the line's check says of its value: "good", "bad",  *)
(* or "name" for a candidate with a .local name.  The tag "junk" is a line *)
(* that is too long or has control characters, "other" any further line.   *)
(***************************************************************************)
EXTENDS Naturals, Sequences, FiniteSetsExt, Functions

CONSTANT MaxCandidates   \* LP_SDP_MAX_CANDIDATES

\* The lines without which an answer is refused.
Needed == {"version", "video", "ufrag", "pwd", "fingerprint", "setup"}
\* Another version is a line like any other; the rest must be right.
Refused(line) == line.tag = "junk" \/ (line.tag \in Needed \ {"version"} /\ line.value = "bad")

Start == [ok |-> TRUE, have |-> {}, out |-> <<>>, kept |-> 0, dropped |-> 0, mdns |-> 0]

\* usable_candidate, and the room in libpeer's table.
KeepCandidate(info, line) == info.kept < MaxCandidates /\ line.value # "bad"

\* The body of the loop over the lines.
TakeLine(info, line) ==
    LET passed == [info EXCEPT !.out = Append(@, line)]
    IN CASE line.tag = "candidate" ->
              IF KeepCandidate(info, line)
              THEN [passed EXCEPT !.kept = @ + 1,
                                  !.mdns = IF line.value = "name" THEN @ + 1 ELSE @]
              ELSE [info EXCEPT !.dropped = @ + 1]
         [] Refused(line) -> [info EXCEPT !.ok = FALSE]
         [] line.tag \in Needed /\ line.value # "bad" ->
              [passed EXCEPT !.have = @ \cup {line.tag}]
         [] OTHER -> passed

\* A line that is refused ends the loop.
NextLine(info, line) == IF info.ok THEN TakeLine(info, line) ELSE info

lp_sdp_sanitize_answer(answer) ==
    LET after[k \in 0..Len(answer)] ==
          IF k = 0 THEN Start ELSE NextLine(after[k - 1], answer[k])
        info == after[Len(answer)]
    IN [info EXCEPT !.ok = @ /\ Needed \subseteq info.have /\ info.kept > 0]

-----------------------------------------------------------------------------
Candidates(lines) == SelectSeq(lines, LAMBDA l : l.tag = "candidate")
Usable(lines) == SelectSeq(Candidates(lines), LAMBDA l : l.value # "bad")
Others(lines) == SelectSeq(lines, LAMBDA l : l.tag # "candidate")

\* The lines of a complete answer, and one more.
Tags == <<"version", "other", "fingerprint", "video", "ufrag", "pwd", "setup">>

LineOf(tag, value) ==
    [tag |-> IF tag = "other" /\ value = "bad" THEN "junk" ELSE tag, value |-> value]

\* Answers with every line of a complete one good, bad or missing, and all lists
\* of candidates up to a length; a bad other line is junk.
AnswersWith(candidates) ==
    {SelectSeq(head, LAMBDA l : l.value # "none") \o tail :
        head \in {[i \in DOMAIN Tags |-> LineOf(Tags[i], v[i])] :
                    v \in [DOMAIN Tags -> {"good", "bad", "none"}]},
        tail \in UNION {[1..n -> [tag: {"candidate"}, value: {"good", "name", "bad"}]] :
                          n \in 0..candidates}}

\* What reaches libpeer keeps to what its parser can hold (lp_sdp.h): every line
\* it needs, each in order, and of the candidates it can use the first
\* MaxCandidates and no others.  And an answer with all of that is not refused.
SafeForLibpeer(answer) ==
    LET info == lp_sdp_sanitize_answer(answer)
        complete == \A tag \in Needed : \E l \in Range(answer) : l = [tag |-> tag, value |-> "good"]
    IN /\ info.ok <=> complete /\ Usable(answer) # <<>> /\ ~\E l \in Range(answer) : Refused(l)
       /\ info.ok =>
            /\ Others(info.out) = Others(answer)
            /\ Candidates(info.out) = SubSeq(Usable(answer), 1,
                                        Min({MaxCandidates, Len(Usable(answer))}))
            /\ info.kept + info.dropped = Len(Candidates(answer))
=============================================================================
