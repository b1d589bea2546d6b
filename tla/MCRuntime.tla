------------------------------ MODULE MCRuntime ------------------------------
(* Runtime with the delays of app_server.c in units of five seconds: 5 s is 1  *)
(* and 60 s is 12; four doublings pass the cap.  Command lines of up to three  *)
(* words, two files, and later versions of one of them that   *)
(* change, drop or misspell keys.                                           *)
EXTENDS Runtime

Set(key, value) == [key |-> key, value |-> value]
Opt(do, key, value) == [do |-> do, key |-> key, value |-> value]

PathA == Word("a.conf")
PathB == Word("b.conf")

MCFiles ==
    PathA :> <<Set("width", Num(1280)), Set("bitrate_kbps", Num(900)), Set("mdns", Word("off"))>>
    @@ PathB :> <<Set("width", Num(320)), Set("mdns_name", Word("garden"))>>

MCFileTexts ==
    {<<>>,
     <<Set("bitrate_kbps", Num(1000)), Set("verbose", Word("yes"))>>,
     <<Set("bitrate_kbps", Num(1000)), Set("fps", Num(0))>>,
     <<Set("verbose", Num(1)), Set("http_port", Num(65536))>>,
     <<Set("encoder", Word("hw")), Set("mdns_name", Empty)>>}

Words ==
    {Opt("set", "config", PathA), Opt("set", "config", PathB), Opt("take", "config", Empty),
     Opt("text", "none", PathB), Opt("text", "none", Num(1)),
     Opt("set", "width", Num(800)), Opt("take", "width", Empty), Opt("set", "width", Num(801)),
     Opt("set", "mdns_name", Empty), Opt("set", "mdns", Word("on")),
     Opt("set", "mdns_name", Word("-cam")),
     Opt("take", "device", Empty), Opt("flag", "source", Word("test")),
     Opt("flag", "verbose", Num(1)), Opt("set", "verbose", Num(1)),
     Opt("set", "fps", Num(200000)), Opt("help", "none", Empty)}

MCArgvs == UNION {[1..n -> Words] : n \in 0..3}

MCStarts == {<<>>, <<Opt("flag", "verbose", Num(1)), Opt("set", "config", PathA)>>}
=============================================================================
