---------------------------- MODULE H264Bitstream ----------------------------
(***************************************************************************)
(* Annex-B buffers and the parameter set cache (src/media/h264_bitstream.c) *)
(* as the encode worker uses them on what an encoder returns                *)
(* (finish_access_unit of src/media/encoder_worker.c).  A buffer is a       *)
(* sequence of bytes; a NAL unit begins with its type.                      *)
(***************************************************************************)
EXTENDS Naturals, Sequences, SequencesExt, FiniteSetsExt

CONSTANTS Buffers264,   \* what encoders return, as sequences of NAL units
          ParamMax      \* H264_PARAM_MAX

VARIABLES params,   \* worker->params, <<>> for a set it does not have
          sent,     \* the last access unit handed on, <<>> for none
          latest    \* history: the last parameter sets that were produced

vars == <<params, sent, latest>>

SLICE == 1
IDR == 5
SPS == 7
PPS == 8

Init == /\ params = [sps |-> <<>>, pps |-> <<>>]
        /\ sent = <<>>
        /\ latest = [sps |-> <<>>, pps |-> <<>>]

-----------------------------------------------------------------------------
(* h264_bitstream.c *)

StartCodes(data) ==
    {i \in 1..Len(data) - 2 : data[i] = 0 /\ data[i + 1] = 0 /\ data[i + 2] = 1}

\* Zeros before the next start code are padding or its fourth byte.
Trimmed(nal) ==
    LET used == {i \in DOMAIN nal : nal[i] # 0}
    IN IF used = {} THEN <<>> ELSE SubSeq(nal, 1, Max(used))

EndOf(nal) == Trimmed(nal)

\* next_nal, until it returns 0, without the empty units its callers skip.
Nals(data) ==
    LET codes == StartCodes(data)
        begins == SetToSortSeq(codes, <)
        body(k) == SubSeq(data, begins[k] + 3,
                          IF k = Len(begins) THEN Len(data) ELSE begins[k + 1] - 1)
    IN SelectSeq([k \in DOMAIN begins |-> EndOf(body(k))], LAMBDA n : n # <<>>)

TypeOf(nal) == nal[1] % 32

h264_au_scan(data) ==
    LET types == {TypeOf(Nals(data)[k]) : k \in DOMAIN Nals(data)}
    IN [has_sps |-> SPS \in types, has_pps |-> PPS \in types,
        has_idr |-> IDR \in types, has_slice |-> types \cap (SLICE..IDR) # {}]

\* The last unit of a type that can be stored, or what was there before.
store(nals, type, old) ==
    LET at == {k \in DOMAIN nals : TypeOf(nals[k]) = type /\ Len(nals[k]) + 4 <= ParamMax}
    IN IF at = {} THEN old ELSE <<0, 0, 0, 1>> \o nals[Max(at)]

h264_param_cache_update(cache, data) ==
    [sps |-> store(Nals(data), SPS, cache.sps), pps |-> store(Nals(data), PPS, cache.pps)]

\* The result always fits: AU_FIXUP_CAPACITY leaves room for two parameter sets.
h264_prepend_params(cache, data) ==
    IF cache.sps = <<>> \/ cache.pps = <<>> THEN <<>> ELSE cache.sps \o cache.pps \o data

-----------------------------------------------------------------------------
(* finish_access_unit *)

\* Slip: only an IDR without either parameter set is completed.
MutNeedsParams(info) == info.has_idr /\ ~(info.has_sps \/ info.has_pps)
NeedsParams(info) == info.has_idr /\ ~(info.has_sps /\ info.has_pps)

\* 3-byte and 4-byte start codes are both in use, and zeros may come before them.
Coded(nals, code) == FlattenSeq([k \in DOMAIN nals |-> code \o nals[k]])

FinishAccessUnit(nals, code) ==
    LET data == Coded(nals, code)
        info == h264_au_scan(data)
        cache == IF info.has_sps \/ info.has_pps
                 THEN h264_param_cache_update(params, data) ELSE params
        fixed == h264_prepend_params(cache, data)
        newest(type, old) ==
          LET at == {k \in DOMAIN nals : TypeOf(nals[k]) = type}
          IN IF at = {} THEN old ELSE nals[Max(at)]
    IN /\ params' = cache
       /\ sent' = CASE ~info.has_slice -> <<>>
                    [] info.has_slice /\ NeedsParams(info) /\ fixed # <<>> -> fixed
                    [] OTHER -> data
       /\ latest' = [sps |-> newest(SPS, latest.sps), pps |-> newest(PPS, latest.pps)]

Next == \E nals \in Buffers264, code \in {<<0, 0, 1>>, <<0, 0, 0, 1>>, <<0, 0, 0, 0, 1>>} :
            FinishAccessUnit(nals, code)

-----------------------------------------------------------------------------
\* The parameter sets a decoder has when it comes to the first slice of a unit.
InForce(nals, type) ==
    LET slice == Min({k \in DOMAIN nals : TypeOf(nals[k]) \in SLICE..IDR})
        at == {k \in 1..slice : TypeOf(nals[k]) = type}
    IN IF at = {} THEN <<>> ELSE nals[Max(at)]

\* "every keyframe a viewer can start from is self-contained": once an encoder
\* has produced both parameter sets, however it spreads them over its buffers,
\* a keyframe that is handed on carries the newest of each ahead of its first
\* slice, byte for byte, whichever start codes are used and whatever zeros pad
\* the units.
SelfContained ==
    LET nals == Nals(sent) IN
    /\ sent # <<>> /\ h264_au_scan(sent).has_idr /\ latest.sps # <<>> /\ latest.pps # <<>>
         => InForce(nals, SPS) = latest.sps /\ InForce(nals, PPS) = latest.pps
    /\ sent # <<>> => h264_au_scan(sent).has_slice
=============================================================================
